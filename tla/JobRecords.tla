----------------------------- MODULE JobRecords -----------------------------
(* core/normalize.py: the records slurmctld and slurmdbd keep of one job,   *)
(* and what controller_summary, accounting_summary and the details make of  *)
(* them.  A job waits, runs, completes and ends, or is requeued; slurmdbd   *)
(* stores what happened with some delay.  The job may be a task of an array *)
(* or the record of its waiting tasks, which slurmdbd keeps as a mask that  *)
(* module TaskRange renders.                                                *)
EXTENDS TaskRange

CONSTANT MaxTime  \* the clock runs from 1 to this

VARIABLES
  kind,    \* "plain", "task" or "waiting"
  task,    \* the array task of a task
  named,   \* where the submission names stdout and stderr
  keeps,   \* the paths slurmdbd stores: those "used", those "named", or "nothing"
  now,
  fact,    \* the job: its state, run, real start and end
  limit,   \* the deadline of a running job, the scheduler's guess for a waiting one
  stored   \* what slurmdbd has of fact

job == <<kind, task, named, keeps>>
records == <<job, now, fact, limit, stored>>

Unset == 0                    \* Slurm's time that is not set
Places == {"script", "line"}  \* the #SBATCH lines, the sbatch command line
Active == {"PENDING", "RUNNING", "COMPLETING"}
Terminal == {"COMPLETED", "CANCELLED"}

RecordsInit ==
  /\ Init /\ kind \in {"plain", "task", "waiting"} /\ (kind = "waiting" <=> bits # {})
  /\ task \in IF kind = "task" THEN {0, 1} ELSE {None}
  /\ named \in [out : SUBSET Places, err : SUBSET Places]
  /\ keeps \in {"used", "named", "nothing"}
  /\ now = 1 /\ limit = Unset
  /\ fact = [state |-> "PENDING", run |-> 1, start |-> Unset, end |-> Unset]
  /\ stored = fact

-----------------------------------------------------------------------------
(* Slurm (external)                                                         *)

Becomes(s, from, to) ==
  fact' = [fact EXCEPT !.state = s, !.start = from, !.end = to]

\* The scheduler revises the start it expects of a waiting job.
Guesses ==
  /\ fact.state = "PENDING" /\ limit' \in (Unset..MaxTime) \ {limit}
  /\ UNCHANGED <<job, now, fact, stored>>

\* The record of waiting tasks stays one; its tasks start as records of theirs.
Begins ==
  /\ fact.state = "PENDING" /\ kind # "waiting" /\ Becomes("RUNNING", now, Unset)
  /\ limit' = now + MaxTime
  /\ UNCHANGED <<job, now, stored>>

Completes ==
  /\ fact.state = "RUNNING" /\ Becomes("COMPLETING", fact.start, now)
  /\ UNCHANGED <<job, now, limit, stored>>

IsOver ==
  /\ fact.state = "COMPLETING" /\ \E s \in Terminal : Becomes(s, fact.start, fact.end)
  /\ UNCHANGED <<job, now, limit, stored>>

CancelledEarly ==
  /\ fact.state = "PENDING" /\ Becomes("CANCELLED", now, now)
  /\ UNCHANGED <<job, now, limit, stored>>

\* A job is requeued at most once.
Requeues ==
  /\ fact.state = "RUNNING" /\ fact.run = 1
  /\ fact' = [state |-> "PENDING", run |-> 2, start |-> Unset, end |-> Unset]
  /\ limit' = Unset
  /\ UNCHANGED <<job, now, stored>>

Ticks ==
  /\ now < MaxTime /\ now' = now + 1
  /\ UNCHANGED <<job, fact, limit, stored>>

\* slurmdbd does not know the state COMPLETING.
Stores ==
  /\ fact.state # "COMPLETING" /\ stored # fact /\ stored' = fact
  /\ UNCHANGED <<job, now, fact, limit>>

\* The mask is rendered while a record of waiting tasks is normalised.
RecordsNext ==
  \/ t <= Length /\ Next /\ UNCHANGED records
  \/ /\ t > Length /\ UNCHANGED vars
     /\ \/ Guesses \/ Begins \/ Completes \/ IsOver \/ CancelledEarly \/ Requeues
        \/ Ticks \/ Stores

RecordsSpec == RecordsInit /\ [][RecordsNext]_<<vars, records>>

-----------------------------------------------------------------------------
(* The records as pyslurm gives them (external).  Its u32_parse turns task  *)
(* 0 into None.                                                             *)

Elapsed(f) ==
  IF f.start = Unset THEN 0 ELSE (IF f.end = Unset THEN now ELSE f.end) - f.start
RawTask == IF task = 0 THEN None ELSE task
Named(which) == IF "line" \in named[which] THEN "line" ELSE "script"  \* if any does
Default == IF kind = "plain" THEN "slurm-%j.out" ELSE "slurm-%A_%a.out"
UsedOut == IF named.out = {} THEN Default ELSE Named("out")

\* The controller's record tells the deadline for the end of a running job, a
\* guess for the start of a waiting one, and where the output really goes; waiting
\* tasks have the path of a task that is not numbered (4294967294).
ControllerRecord ==
  [state |-> fact.state, start |-> IF fact.state = "PENDING" THEN limit ELSE fact.start,
   end |-> IF fact.state = "RUNNING" THEN limit ELSE fact.end, elapsed |-> Elapsed(fact),
   array |-> kind # "plain", task |-> RawTask, waiting |-> bits,
   out |-> UsedOut, err |-> IF named.err = {} THEN "none" ELSE Named("err"), script |-> {}]

\* The stdout that is used is stored although nothing names it (the recorded
\* fixtures), or only what was named (normalize.py:439), or nothing.
Kept(which) ==
  IF which = "out" /\ keeps = "used" THEN UsedOut
  ELSE IF keeps # "nothing" /\ named[which] # {} THEN Named(which)
  ELSE "none"
AccountingRecord ==
  [state |-> stored.state, start |-> stored.start, end |-> stored.end,
   elapsed |-> Elapsed(stored), array |-> kind # "plain", task |-> RawTask,
   waiting |-> Written, out |-> Kept("out"), err |-> Kept("err"), script |-> {"script"}]

-----------------------------------------------------------------------------
(* Normalisation                                                            *)

IsTerminal(state) == state \in Terminal

\* _array_fields
ArrayFields(r) ==
  IF ~r.array THEN [task |-> None, range |-> {}]
  ELSE IF r.waiting # {} THEN [task |-> None, range |-> r.waiting]
  ELSE [task |-> IF r.task = None THEN 0 ELSE r.task, range |-> {}]

\* _sbatch_paths looks into the script, if it has it, before the command line.
SbatchPath(r, which) ==
  IF named[which] \cap r.script # {} THEN "script"
  ELSE IF "line" \in named[which] THEN "line" ELSE "none"

\* Mutant: one default for every job.
Guessed_Plain(r) == "slurm-%j.out"

\* Slurm's naming rule, by what is known of the array.
Guessed(r) == IF ArrayFields(r).task # None THEN "slurm-%A_%a.out" ELSE "slurm-%j.out"

\* resolve_stdio_paths, up to expand_stdio.
StdioPaths(r) ==
  LET reported(p, which) == IF p # "none" THEN p ELSE SbatchPath(r, which)
      out == reported(r.out, "out")
      err == reported(r.err, "err")
      stdout == IF out = "none" THEN Guessed(r) ELSE out
  IN [out |-> stdout, err |-> IF err = "none" THEN stdout ELSE err]

Detail(r, began) ==
  [state |-> r.state, start |-> began, end |-> IF IsTerminal(r.state) THEN r.end ELSE Unset,
   elapsed |-> r.elapsed, array |-> ArrayFields(r), stdio |-> StdioPaths(r)]

\* Mutant: the start a waiting job is expected to have is shown.
ControllerDetail_Guess == Detail(ControllerRecord, ControllerRecord.start)

\* controller_detail and controller_summary
ControllerDetail ==
  Detail(ControllerRecord, IF fact.state = "PENDING" THEN Unset ELSE ControllerRecord.start)

\* accounting_detail and accounting_summary
AccountingDetail == Detail(AccountingRecord, AccountingRecord.start)

-----------------------------------------------------------------------------
(* Properties                                                               *)

\* Two sources differ where the submission names a path twice and slurmdbd has
\* stored none, and on the default path of waiting tasks, unless it was stored.
OneName == \A which \in {"out", "err"} : keeps # "nothing" \/ named[which] # Places
DefaultKnown == kind = "waiting" /\ named.out = {} => keeps = "used"

\* "Both dumps of one job, captured at the same moment, normalize to the same
\* shared fields" (tests/test_normalize.py:387), the tasks that wait and the
\* paths included: a job does not change when it moves from one source to the
\* other.
SourcesAgree ==
  t > Length /\ stored = fact /\ OneName /\ DefaultKnown => ControllerDetail = AccountingDetail

\* A start or an end that was reported once is never withdrawn or moved while
\* the run is the same one, whichever source it came from: neither a guess of
\* the scheduler nor a deadline is shown as a time (normalize.py:327-330).
Final(before, after) ==
  \A time \in {"start", "end"} : before[time] # Unset => after[time] = before[time]
TimesAreFinal ==
  [][/\ fact'.run = fact.run => Final(ControllerDetail, ControllerDetail')
     /\ stored'.run = stored.run => Final(AccountingDetail, AccountingDetail')]_records
=============================================================================
