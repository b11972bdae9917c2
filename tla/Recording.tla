------------------------------ MODULE Recording ------------------------------
(* agent --record DIR (core/recording.py around a core, agent.py serve) and *)
(* the transport that replays the directory (transport/fixture.py).  Every  *)
(* answer is written to a file before it is sent; files are read, changed   *)
(* and written again in place, and the agent can be killed at any point.    *)
(* After the agents have run the directory is loaded and replayed; the      *)
(* files do not touch each other there, and a replay asks for one of them.  *)
EXTENDS Integers, Sequences, SequencesExt

CONSTANTS
  Jobs,
  Tasks,     \* tasks of arrays a cancellation may name
  MaxCalls,  \* results the core returns, over all runs
  MaxRuns    \* times the agent is launched on the directory

VARIABLES
  dir,       \* each file: its form, and the results it holds
  agent,     \* where serve() is
  refuses,   \* refusal is not None: Slurm's versions do not match
  writing,   \* the result in hand and its file
  calls, runs,
  told,      \* the results that were answered
  cut,       \* the files of which a write was ever interrupted
  fixture,   \* the FixtureTransport
  asked,     \* the file whose answers are followed
  index,     \* its _Queue.index, or how often it was asked for
  failNext,  \* _fail_next is not None
  served     \* its last answer

files == <<dir, cut>>
process == <<agent, refuses, writing, calls, runs, told>>
replay == <<fixture, asked, index, failNext, served>>
vars == <<files, process, replay>>

NoTask == -1
File(of, j, t) == [of |-> of, job |-> j, task |-> t]
Hello == File("hello", "none", NoTask)
Active == File("active_jobs", "none", NoTask)
History == File("history_jobs", "none", NoTask)
Detail(j) == File("job_detail", j, NoTask)
Usage(j) == File("job_usage", j, NoTask)
Requests ==
  {Active, History} \cup {Detail(j) : j \in Jobs} \cup {Usage(j) : j \in Jobs}
  \cup {File("cancel", j, t) : j \in Jobs, t \in Tasks \cup {NoTask}}
Files == Requests \cup {Hello}
Overwritten(f) == f.of \in {"hello", "job_detail", "cancel"}

\* A result is known by its call; of an active_jobs result the jobs it lists
\* matter too.
Result(n, lists) == [call |-> n, lists |-> lists]
Results == [call : 0..MaxCalls, lists : SUBSET Jobs]
NotFound == Result(-1, {})     \* AgentError(not_found)
Synthetic == Result(-2, {})    \* an answer the replay makes up
Absent == [form |-> "absent", items |-> <<>>]
Torn == [form |-> "torn", items |-> <<>>]  \* cut short, no JSON

\* The directory is new, or starts from an active_jobs.json somebody wrote: one
\* object, or an empty list.
Init ==
  /\ \E active \in {Absent, [form |-> "one", items |-> <<Result(0, Jobs)>>],
                    [form |-> "list", items |-> <<>>]} :
       dir = [f \in Files |-> IF f = Active THEN active ELSE Absent]
  /\ agent = "off" /\ refuses = FALSE
  /\ writing = [file |-> Hello, result |-> Synthetic, whole |-> Absent]
  /\ calls = 0 /\ runs = 0 /\ told = {} /\ cut = {}
  /\ fixture = "none" /\ asked = Hello /\ index = 0 /\ failNext = FALSE /\ served = NotFound

-----------------------------------------------------------------------------
(* The files                                                                *)

\* Mutant: a file that cannot be parsed is taken for none.
Readable_Lenient(f) == TRUE

\* _read raises on a file that was cut short; _write does not read.
Readable(f) == Overwritten(f) \/ dir[f].form # "torn"

\* Mutant: the second figures of a job replace the first.
Written_Single(f, r) ==
  IF f.of \notin {"active_jobs", "history_jobs"} THEN [form |-> "one", items |-> <<r>>]
  ELSE [form |-> "list", items |-> Append(dir[f].items, r)]

\* What _write, _append or _append_or_single is to leave in the file.
Written(f, r) ==
  IF Overwritten(f) \/ (f.of = "job_usage" /\ dir[f].form = "absent")
  THEN [form |-> "one", items |-> <<r>>]
  ELSE [form |-> "list", items |-> Append(dir[f].items, r)]

-----------------------------------------------------------------------------
(* The agent                                                                *)

Launch ==
  /\ agent = "off" /\ fixture = "none" /\ runs < MaxRuns
  /\ agent' = "hello" /\ runs' = runs + 1
  /\ UNCHANGED <<files, refuses, writing, calls, told, replay>>

\* The core has returned and write_text has truncated the file.
Opens(f, r) ==
  /\ Readable(f)
  /\ writing' = [file |-> f, result |-> r, whole |-> Written(f, r)]
  /\ dir' = [dir EXCEPT ![f] = Torn]
  /\ agent' = "writing" /\ calls' = calls + 1

\* The handshake is written and sent also if every request will be refused.
CallHello ==
  /\ agent = "hello" /\ calls < MaxCalls /\ refuses' \in BOOLEAN
  /\ Opens(Hello, Result(calls + 1, {}))
  /\ UNCHANGED <<cut, runs, told, replay>>

\* A request of which the core returns a result.  A refusal, a core that
\* raises and a file that cannot be read change nothing but the answer.
Call(f) ==
  /\ agent = "ready" /\ ~refuses /\ calls < MaxCalls
  /\ \E lists \in IF f = Active THEN SUBSET Jobs ELSE {{}} : Opens(f, Result(calls + 1, lists))
  /\ UNCHANGED <<cut, refuses, runs, told, replay>>

FinishWrite ==
  /\ agent = "writing" /\ agent' = "answering"
  /\ dir' = [dir EXCEPT ![writing.file] = writing.whole]
  /\ UNCHANGED <<cut, refuses, writing, calls, runs, told, replay>>

\* OSError: a request is answered with an error, a handshake ends the agent.
WriteFails ==
  /\ agent = "writing" /\ agent' = IF writing.file = Hello THEN "off" ELSE "ready"
  /\ cut' = cut \cup {writing.file}
  /\ UNCHANGED <<dir, refuses, writing, calls, runs, told, replay>>

Answer ==
  /\ agent = "answering" /\ agent' = "ready"
  /\ told' = told \cup {[of |-> writing.file, result |-> writing.result]}
  /\ UNCHANGED <<files, refuses, writing, calls, runs, replay>>

\* End of stdin, a closed stdout, a handshake that fails, or a kill.
Exit ==
  /\ agent # "off" /\ agent' = "off"
  /\ cut' = IF agent = "writing" THEN cut \cup {writing.file} ELSE cut
  /\ UNCHANGED <<dir, refuses, writing, calls, runs, told, replay>>

-----------------------------------------------------------------------------
(* The replay                                                               *)

\* Mutant: a list is expected where several results may be.
Load_ListsOnly ==
  /\ agent = "off" /\ fixture = "none"
  /\ fixture' = IF \E f \in Files : dir[f].form = "torn" \/ (f = Active /\ dir[f].form = "one")
                THEN "failed" ELSE "loaded"
  /\ asked' \in Files
  /\ UNCHANGED <<files, process, index, failNext, served>>

\* _load.  From here on the queues are the files.
Load ==
  /\ agent = "off" /\ fixture = "none"
  /\ fixture' = IF \E f \in Files : dir[f].form = "torn" THEN "failed" ELSE "loaded"
  /\ asked' \in Files
  /\ UNCHANGED <<files, process, index, failNext, served>>

StartReplay ==
  /\ fixture \in {"loaded", "closed"} /\ fixture' = "started"
  /\ UNCHANGED <<files, process, asked, index, failNext, served>>

CloseReplay ==
  /\ fixture = "started" /\ fixture' = "closed"
  /\ UNCHANGED <<files, process, asked, index, failNext, served>>

FailNext ==
  /\ fixture = "started" /\ ~failNext /\ failNext' = TRUE
  /\ UNCHANGED <<files, process, fixture, asked, index, served>>

JobListed(j) == \E r \in Range(dir[Active].items) : j \in r.lists
Known(j) == dir[Detail(j)].items # <<>> \/ JobListed(j)

\* What it is answered with; with no file, by a default of its own.
ReplayOf(f) ==
  LET items == dir[f].items IN
    IF items # <<>> THEN items[IF Overwritten(f) THEN 1 ELSE Min({index + 1, Len(items)})]
    ELSE IF f \in {Hello, Active, History} \/ (f.of = "cancel" /\ Known(f.job)) THEN Synthetic
    ELSE NotFound

\* index is counted up to one past the last item.
Count == IF index <= Len(dir[asked].items) THEN index + 1 ELSE index

\* Mutant: a request that is made to fail takes its snapshot with it.
Replay_TakesOne ==
  /\ fixture = "started" \/ (fixture = "closed" /\ failNext)
  /\ index' = Count /\ served' = (IF failNext THEN served ELSE ReplayOf(asked))
  /\ failNext' = FALSE
  /\ UNCHANGED <<files, process, fixture, asked>>

\* FixtureTransport.request, before it is started a TransportError.
Replay ==
  /\ fixture = "started" \/ (fixture = "closed" /\ failNext)
  /\ IF failNext THEN UNCHANGED <<index, served>>
     ELSE index' = Count /\ served' = ReplayOf(asked)
  /\ failNext' = FALSE
  /\ UNCHANGED <<files, process, fixture, asked>>

Next ==
  \/ Launch \/ CallHello \/ FinishWrite \/ WriteFails \/ Answer \/ Exit
  \/ \E f \in Requests : Call(f)
  \/ Load \/ StartReplay \/ CloseReplay \/ FailNext \/ Replay

Spec == Init /\ [][Next]_vars
-----------------------------------------------------------------------------
(* Properties                                                               *)

ToldOf(f) == {t.result : t \in {a \in told : a.of = f}}

\* A file that can be read holds every result the client was answered with,
\* each once and in order, or the latest one where the file is overwritten
\* (recording.py:3-15), whatever run they were of and whatever was interrupted.
NothingLost ==
  \A f \in Files : dir[f].form # "torn" =>
    IF Overwritten(f)
    THEN \A r \in ToldOf(f) : dir[f].items # <<>> /\ dir[f].items[1].call >= r.call
    ELSE /\ ToldOf(f) \subseteq Range(dir[f].items)
         /\ \A m, n \in DOMAIN dir[f].items : m < n => dir[f].items[m].call < dir[f].items[n].call

\* A directory fails to load only after a write that was interrupted
\* (fixture.py:57, 123-141).
LoadsWhole == fixture = "failed" => cut # {}

\* The replay answers b after a: nothing the client of the agent was told lies
\* between, unless it was overwritten, and it stands still only at the last.
Follows(a, b, f) ==
  \A r \in ToldOf(f) :
    /\ a.call < r.call /\ r.call < b.call => Overwritten(f)
    /\ a.call >= b.call \/ Overwritten(f) => r.call <= b.call

\* The replay answers each request the way the agent did, in that order, the
\* last answer again and again; what it does not know was never told, and a job
\* some answer showed can be cancelled (fixture.py:5-14, 213-214).
ReplaysInOrder ==
  [][index' # index =>
       IF served' = NotFound
       THEN /\ ToldOf(asked) = {}
            /\ asked.of = "cancel" => /\ ToldOf(Detail(asked.job)) = {}
                                      /\ \A r \in ToldOf(Active) : asked.job \notin r.lists
       ELSE IF served' = Synthetic THEN ToldOf(asked) = {}
       ELSE Follows(served, served', asked)]_vars
=============================================================================
