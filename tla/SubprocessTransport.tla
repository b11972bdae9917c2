------------------------ MODULE SubprocessTransport ------------------------
(* transport/subprocess.py: requests of several coroutines multiplexed over *)
(* the stdin and stdout of one child process, a reader task that resolves   *)
(* their futures by frame id, and start() and close() around them.  A step  *)
(* is what one coroutine does between two awaits, or one move of the child. *)
EXTENDS Naturals, Sequences

CONSTANTS
  Callers,     \* coroutines that may await request() concurrently
  Questions,   \* what a request may ask: method and params
  None,
  ExitKinds,   \* what classify_exit may make of an exit
  MaxId,       \* bound on the requests made in a transport's life
  MaxLines     \* bound on the lines in the child's stdout pipe

ASSUME BoundsAssumption == MaxId \in Nat /\ MaxLines \in Nat
ASSUME NoneAssumption == None \notin Questions
ASSUME ExitKindsAssumption == ExitKinds \subseteq {"transport", "auth", "bootstrap"}

VARIABLES
  proc,          \* the child: "none", "running" or "exited"
  handle,        \* self._proc is not None
  starter,       \* where start() is
  closer,        \* where close() is
  reader,        \* where the reader task is
  readerCancel,  \* a cancellation of the reader is not delivered yet
  exitErr,       \* self._exit_error
  nextId,        \* self._next_id
  pending,       \* the keys of self._pending
  fut,           \* the future of each request made so far
  asked,         \* what each request asked
  pc, req,       \* where each caller is in request(), and its req_id
  got,           \* what each caller's last request returned
  stdin, stdout  \* the pipes to and from the child

child == <<proc, stdin, stdout>>
lifecycle == <<handle, starter, closer>>
readers == <<reader, readerCancel, exitErr>>
requests == <<nextId, pending, fut, asked>>
callers == <<pc, req, got>>
vars == <<child, lifecycle, readers, requests, callers>>

Ids == 1..MaxId
Open == [kind |-> "open", body |-> None]
Unused == [kind |-> "unused", body |-> None]
Failure == [kind |-> "failure", body |-> None]
Frame(i, k, q) == [id |-> i, kind |-> k, body |-> q]
Noise == Frame(0, "noise", None)  \* a banner, or a frame nobody waits for

Init ==
  /\ proc = "none" /\ stdin = <<>> /\ stdout = <<>>
  /\ handle = FALSE /\ starter = "idle" /\ closer = "idle"
  /\ reader = "none" /\ readerCancel = FALSE /\ exitErr = "none"
  /\ nextId = 1 /\ pending = {}
  /\ fut = [i \in Ids |-> Unused] /\ asked = [i \in Ids |-> None]
  /\ pc = [c \in Callers |-> "idle"] /\ req = [c \in Callers |-> 0]
  /\ got = [c \in Callers |-> Failure]

-----------------------------------------------------------------------------
(* The child: ssh and the agent behind it, which answers one request after  *)
(* another (agent.py serve) and may end at any time.                        *)

ChildSays(f) ==
  /\ proc = "running" /\ Len(stdout) < MaxLines
  /\ stdout' = Append(stdout, f)

ChildGreets ==
  /\ starter = "handshaking"
  /\ \E k \in {"hello", "refusal", "noise"} : ChildSays(Frame(0, k, None))
  /\ UNCHANGED <<proc, stdin, lifecycle, readers, requests, callers>>

ChildAnswers ==
  /\ stdin # <<>>
  /\ \E k \in {"answer", "failure"} :
       ChildSays(Frame(Head(stdin), k, IF k = "answer" THEN asked[Head(stdin)] ELSE None))
  /\ stdin' = Tail(stdin)
  /\ UNCHANGED <<proc, lifecycle, readers, requests, callers>>

ChildExits ==
  /\ proc = "running"
  /\ proc' = "exited" /\ stdin' = <<>>
  /\ UNCHANGED <<stdout, lifecycle, readers, requests, callers>>

-----------------------------------------------------------------------------
(* start()                                                                  *)

Spawn ==
  /\ starter = "idle" /\ ~handle
  /\ \/ proc' = "running" /\ handle' = TRUE /\ starter' = "handshaking"
     \/ starter' = "failed" /\ UNCHANGED <<proc, handle>>   \* OSError
  /\ UNCHANGED <<stdin, stdout, closer, readers, requests, callers>>

\* start() closes the transport itself before it raises.
StartGivesUp ==
  /\ handle' = FALSE /\ starter' = "failing" /\ closer' = "exit"
  /\ UNCHANGED <<proc, stdin, readers, requests, callers>>

\* _read_handshake: other lines are skipped; a hello the client accepts starts
\* the reader, one that is refused or malformed does not.
StartReads ==
  /\ starter = "handshaking" /\ stdout # <<>>
  /\ stdout' = Tail(stdout)
  /\ \/ /\ Head(stdout).kind = "noise"
        /\ UNCHANGED <<proc, stdin, lifecycle, readers, requests, callers>>
     \/ /\ Head(stdout).kind = "hello"
        /\ starter' = "done" /\ reader' = "reading"
        /\ UNCHANGED <<proc, stdin, handle, closer, readerCancel, exitErr, requests, callers>>
     \/ Head(stdout).kind \in {"hello", "refusal"} /\ StartGivesUp

\* EOF before the handshake, or no handshake within start_timeout.
StartFails ==
  /\ starter = "handshaking"
  /\ StartGivesUp /\ UNCHANGED stdout

StartRaises ==
  /\ starter = "failing" /\ closer \in {"done", "cut"}
  /\ starter' = "failed"
  /\ UNCHANGED <<child, handle, closer, readers, requests, callers>>

-----------------------------------------------------------------------------
(* The reader task                                                          *)

\* _fail_pending: every future still open gets the error; the map is emptied.
FailPending ==
  /\ fut' = [i \in Ids |-> IF i \in pending /\ fut[i] = Open THEN Failure ELSE fut[i]]
  /\ pending' = {}
  /\ UNCHANGED <<nextId, asked>>

\* Mutant: replies are matched in the order of the requests, not by id.
ReaderTakes_InOrder ==
  /\ reader = "reading" /\ ~readerCancel /\ stdout # <<>>
  /\ LET f == Head(stdout)
         first == IF pending = {} THEN 0 ELSE CHOOSE i \in pending : \A j \in pending : i <= j
     IN /\ fut' = IF f.id # 0 /\ first # 0
                  THEN [fut EXCEPT ![first] = [kind |-> f.kind, body |-> f.body]] ELSE fut
        /\ pending' = pending \ {first}
  /\ stdout' = Tail(stdout)
  /\ UNCHANGED <<proc, stdin, lifecycle, readers, nextId, asked, callers>>

\* A frame resolves the future of its id; one that nobody waits for is dropped.
ReaderTakes ==
  /\ reader = "reading" /\ ~readerCancel /\ stdout # <<>>
  /\ LET f == Head(stdout) IN
       /\ fut' = IF f.id \in pending
                 THEN [fut EXCEPT ![f.id] = [kind |-> f.kind, body |-> f.body]] ELSE fut
       /\ pending' = pending \ {f.id}
  /\ stdout' = Tail(stdout)
  /\ UNCHANGED <<proc, stdin, lifecycle, readers, nextId, asked, callers>>

\* The stream reader raises on a line it cannot hold.
ReaderBreaks ==
  /\ reader = "reading" /\ ~readerCancel /\ stdout # <<>>
  /\ FailPending /\ reader' = "done"
  /\ UNCHANGED <<child, lifecycle, readerCancel, exitErr, callers>>

\* EOF, then proc.wait() ...
ReaderSeesEOF ==
  /\ reader = "reading" /\ ~readerCancel /\ proc = "exited" /\ stdout = <<>>
  /\ reader' = "exit"
  /\ UNCHANGED <<child, lifecycle, readerCancel, exitErr, requests, callers>>

\* ... then the end of stderr ...
ReaderSeesExit ==
  /\ reader = "exit" /\ ~readerCancel
  /\ reader' = "stderr"
  /\ UNCHANGED <<child, lifecycle, readerCancel, exitErr, requests, callers>>

\* ... and the exit is classified.  A cancellation that arrives during the wait
\* for stderr is swallowed there and changes nothing.
ReaderClassifies ==
  /\ reader = "stderr"
  /\ exitErr' \in ExitKinds
  /\ FailPending /\ reader' = "done" /\ readerCancel' = FALSE
  /\ UNCHANGED <<child, lifecycle, callers>>

ReaderCancelled ==
  /\ readerCancel /\ reader \in {"reading", "exit"}
  /\ IF reader = "reading" THEN FailPending ELSE UNCHANGED requests
  /\ reader' = "done" /\ readerCancel' = FALSE
  /\ UNCHANGED <<child, lifecycle, exitErr, callers>>

-----------------------------------------------------------------------------
(* close()                                                                  *)

CloseBegins ==
  /\ handle /\ closer = "idle" /\ starter = "done"
  /\ handle' = FALSE
  /\ IF reader = "done" THEN closer' = "exit" /\ UNCHANGED readerCancel
     ELSE closer' = "reader" /\ readerCancel' = TRUE
  /\ UNCHANGED <<child, starter, reader, exitErr, requests, callers>>

CloseReaderDone ==
  /\ closer = "reader" /\ reader = "done"
  /\ closer' = "exit"
  /\ UNCHANGED <<child, handle, starter, readers, requests, callers>>

\* Mutant: a child that ignores the end of its stdin is not killed.
CloseKills_Waits ==
  /\ closer = "exit" /\ proc = "running" /\ stdin # <<>>
  /\ proc' = "exited" /\ stdin' = <<>>
  /\ UNCHANGED <<stdout, lifecycle, readers, requests, callers>>

\* EOF on stdin lets the child exit; it is killed after two seconds.
CloseKills ==
  /\ closer = "exit" /\ proc = "running"
  /\ proc' = "exited" /\ stdin' = <<>>
  /\ UNCHANGED <<stdout, lifecycle, readers, requests, callers>>

\* Mutant: close() forgets the requests still pending.
CloseEnds_LeavesPending ==
  /\ closer = "exit" /\ proc # "running"
  /\ closer' = "done"
  /\ UNCHANGED <<child, handle, starter, readers, requests, callers>>

CloseEnds ==
  /\ closer = "exit" /\ proc # "running"
  /\ FailPending /\ closer' = "done"
  /\ UNCHANGED <<child, handle, starter, readers, callers>>

\* The session cancels the task that awaits close(), or the start() that calls
\* it: the rest does not run, and a child that is still running is not killed.
CloseCancelled ==
  /\ closer = "exit"
  /\ closer' = "cut"
  /\ UNCHANGED <<child, handle, starter, readers, requests, callers>>

-----------------------------------------------------------------------------
(* request().  On a transport that is not open, or known to be dead, it     *)
(* raises at once and changes nothing, so that is no step.                  *)

Ask(c, q) ==
  /\ pc[c] = "idle" /\ exitErr = "none" /\ handle /\ starter = "done"
  /\ nextId <= MaxId
  /\ nextId' = nextId + 1
  /\ pending' = pending \cup {nextId}
  /\ fut' = [fut EXCEPT ![nextId] = Open]
  /\ asked' = [asked EXCEPT ![nextId] = q]
  /\ stdin' = IF proc = "running" THEN Append(stdin, nextId) ELSE stdin
  /\ pc' = [pc EXCEPT ![c] = "draining"]
  /\ req' = [req EXCEPT ![c] = nextId]
  /\ UNCHANGED <<proc, stdout, lifecycle, readers, got>>

Drained(c) ==
  /\ pc[c] = "draining"
  /\ pc' = [pc EXCEPT ![c] = "waiting"]
  /\ UNCHANGED <<child, lifecycle, readers, requests, req, got>>

\* Mutant: a request that fails leaves its entry in _pending.
Raises_LeavesEntry(c) ==
  /\ got' = [got EXCEPT ![c] = Failure]
  /\ pc' = [pc EXCEPT ![c] = "idle"]
  /\ UNCHANGED <<child, lifecycle, readers, requests, req>>

Raises(c) ==
  /\ got' = [got EXCEPT ![c] = Failure]
  /\ pc' = [pc EXCEPT ![c] = "idle"]
  /\ pending' = pending \ {req[c]}
  /\ UNCHANGED <<child, lifecycle, readers, nextId, fut, asked, req>>

DrainFails(c) == pc[c] = "draining" /\ proc = "exited" /\ Raises(c)

\* Mutant: only a request to a dead child times out.
TimesOut_WhenDead(c) ==
  pc[c] = "waiting" /\ fut[req[c]] = Open /\ proc = "exited" /\ Raises(c)

TimesOut(c) == pc[c] = "waiting" /\ fut[req[c]] = Open /\ Raises(c)

Returns(c) ==
  /\ pc[c] = "waiting" /\ fut[req[c]] # Open
  /\ got' = [got EXCEPT ![c] = fut[req[c]]]
  /\ pc' = [pc EXCEPT ![c] = "idle"]
  /\ UNCHANGED <<child, lifecycle, readers, requests, req>>

-----------------------------------------------------------------------------
Child == ChildGreets \/ ChildAnswers \/ ChildExits
StartRuns == StartReads \/ StartFails \/ StartRaises
Reader ==
  \/ ReaderTakes \/ ReaderBreaks \/ ReaderSeesEOF \/ ReaderSeesExit
  \/ ReaderClassifies \/ ReaderCancelled
CloseRuns == CloseReaderDone \/ CloseKills \/ CloseEnds
RequestRuns(c) == Drained(c) \/ DrainFails(c) \/ TimesOut(c) \/ Returns(c)

Next ==
  \/ Child \/ Spawn \/ StartRuns \/ Reader
  \/ CloseBegins \/ CloseRuns \/ CloseCancelled
  \/ \E c \in Callers : RequestRuns(c) \/ \E q \in Questions : Ask(c, q)

Spec == Init /\ [][Next]_vars

\* asyncio runs its ready tasks; start(), close() and every request are bounded
\* by their timeouts.
FairSpec ==
  /\ Spec
  /\ WF_vars(StartRuns) /\ WF_vars(Reader) /\ WF_vars(CloseRuns)
  /\ \A c \in Callers : WF_vars(RequestRuns(c))
-----------------------------------------------------------------------------
(* Properties                                                               *)

Outcomes == [kind : {"answer"}, body : Questions] \cup {Failure}
Frames ==
  [id : Ids, kind : {"answer"}, body : Questions]
    \cup [id : Ids, kind : {"failure"}, body : {None}]
    \cup [id : {0}, kind : {"hello", "refusal", "noise"}, body : {None}]

\* The attributes of SubprocessTransport and the two pipes have values of their
\* kinds, and no more ids were given out than counted (subprocess.py:113-121).
TypeOK ==
  /\ proc \in {"none", "running", "exited"} /\ handle \in BOOLEAN
  /\ starter \in {"idle", "handshaking", "done", "failing", "failed"}
  /\ closer \in {"idle", "reader", "exit", "done", "cut"}
  /\ reader \in {"none", "reading", "exit", "stderr", "done"} /\ readerCancel \in BOOLEAN
  /\ exitErr \in ExitKinds \cup {"none"}
  /\ nextId \in 1..MaxId + 1 /\ pending \subseteq 1..nextId - 1
  /\ fut \in [Ids -> Outcomes \cup {Open, Unused}]
  /\ asked \in [Ids -> Questions \cup {None}]
  /\ pc \in [Callers -> {"idle", "draining", "waiting"}]
  /\ req \in [Callers -> 0..MaxId] /\ got \in [Callers -> Outcomes]
  /\ stdin \in Seq(Ids) /\ stdout \in Seq(Frames)

Busy(c) == pc[c] # "idle"

\* _pending holds exactly the requests that somebody still awaits and nothing
\* has resolved: no entry outlives its request, and a reply or a failure finds
\* every open future (subprocess.py:194, 253-257, 308-320).
PendingExact == pending = {req[c] : c \in {d \in Callers : Busy(d) /\ fut[req[d]] = Open}}

\* Every answer, in a future or already returned, answers the question that was
\* asked under its id, though replies to requests that timed out keep arriving
\* (subprocess.py:3-4, 194-203).
Correlated ==
  /\ \A i \in Ids : fut[i].kind = "answer" => fut[i].body = asked[i]
  /\ \A c, d \in Callers : Busy(c) /\ Busy(d) /\ req[c] = req[d] => c = d

\* When close() has run to its end nothing is left of the transport: no child,
\* no reader, no request that nothing will ever resolve (subprocess.py:259-289).
ClosedIsQuiet ==
  closer = "done" =>
    /\ proc # "running" /\ reader \in {"none", "done"} /\ ~readerCancel
    /\ pending = {} /\ \A c \in Callers : Busy(c) => fut[req[c]] # Open

\* Once the exit of the child is classified, it stays what it is: every later
\* request fails the same way (subprocess.py:212, 300-301).
ExitErrorIsFinal == [][exitErr # "none" => exitErr' = exitErr]_vars

\* close() comes to its end, whatever the reader and the child are doing
\* (subprocess.py:259-289).
CloseReturns == closer \in {"reader", "exit"} ~> closer \in {"done", "cut"}

\* The transport contract: the state of the transport and its process.  After a
\* close() cut short it is closing until the child ends by itself: it has been
\* told (EOF on its stdin), and nobody waits for it any more.
Status ==
  IF starter = "idle" THEN "new"
  ELSE IF starter = "handshaking" THEN "starting"
  ELSE IF starter = "failing" THEN "closing"
  ELSE IF starter = "failed" \/ closer \in {"done", "cut"}
       THEN IF proc = "running" THEN "closing" ELSE "closed"
  ELSE IF closer # "idle" THEN "closing"
  ELSE IF exitErr = "none" THEN "up" ELSE "dead"

Contract == INSTANCE TransportContract WITH
  status <- Status,
  request <- [c \in Callers |-> IF Busy(c) THEN asked[req[c]] ELSE None]

\* SubprocessTransport keeps the contract, liveness included: every request
\* returns, once, with the answer to its own question or a failure.
KeepsContract == Contract!Spec
=============================================================================
