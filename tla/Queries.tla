------------------------------ MODULE Queries ------------------------------
(* core/queries.py: detail, usage and cancel ask the controller (slurmctld) *)
(* and the accounting database (slurmdbd) one after the other while the job *)
(* moves on.  A step is one RPC with the code up to the next.  Threads run   *)
(* several queries at once (transport/local.py:55).                         *)
EXTENDS Naturals

CONSTANTS
  Workers,    \* threads that run a query
  Faults,     \* whether RPCs may fail
  MaxQueries  \* bound on the queries begun

ASSUME BoundsAssumption == Faults \in BOOLEAN /\ MaxQueries \in Nat

VARIABLES
  job,       \* the job to slurmctld
  stored,    \* the job's record in slurmdbd
  array,     \* the id is the id of a job array
  library,   \* libslurmfull can be found (queries.py:486-506)
  gpuIds,    \* self._gpu_tres_ids
  call,      \* the query of each thread
  answer,    \* its result
  killer,    \* the thread whose kill ended the job
  begun      \* number of queries begun

slurm == <<job, stored, array, library>>
vars == <<slurm, gpuIds, call, answer, killer, begun>>

\* The life of a job, in order.
Rank == [none |-> 0, pending |-> 1, running |-> 2, over |-> 3, purged |-> 4]
ActiveStates == {"pending", "running"}
Held == {"pending", "running", "over"}
Nobody == "nobody"
Idle == [op |-> "idle", at |-> "idle", began |-> "none", read |-> "none"]
NoAnswer == [op |-> "idle", kind |-> "none", state |-> "none", began |-> "none"]

Init ==
  /\ job \in DOMAIN Rank /\ stored \in {"none", "pending", "running", "over"}
  /\ Rank[stored] <= Rank[job] /\ (job = "purged" => stored = "over")
  /\ array \in BOOLEAN /\ library \in BOOLEAN /\ gpuIds = "unread"
  /\ call = [w \in Workers |-> Idle] /\ answer = [w \in Workers |-> NoAnswer]
  /\ killer = Nobody /\ begun = 0

-----------------------------------------------------------------------------
(* Slurm.  slurmdbd follows the controller with some delay; the controller  *)
(* keeps a finished job for MinJobAge, by when slurmdbd has stored it.      *)

Live(to) ==
  /\ job' = to /\ UNCHANGED <<stored, array, library, gpuIds, call, answer, killer, begun>>

Submit == job = "none" /\ Live("pending")
Begin == job = "pending" /\ Live("running")
End == job \in ActiveStates /\ Live("over")
Purge == job = "over" /\ stored = "over" /\ Live("purged")

Store ==
  /\ job \in Held /\ stored # job /\ stored' = job
  /\ UNCHANGED <<job, array, library, gpuIds, call, answer, killer, begun>>

-----------------------------------------------------------------------------
Ask(w, op, at) ==
  /\ call[w] = Idle /\ begun < MaxQueries /\ begun' = begun + 1
  /\ call' = [call EXCEPT ![w] = [op |-> op, at |-> at, began |-> job, read |-> "none"]]
  /\ answer' = [answer EXCEPT ![w] = NoAnswer]
  /\ UNCHANGED <<slurm, gpuIds, killer>>

\* Mutant: details come from the database first.
JobDetail_DatabaseFirst(w) == Ask(w, "detail", "accounting")

JobDetail(w) == Ask(w, "detail", "controller")
JobUsage(w) == Ask(w, "usage", "controller")
\* A single array task is addressed by the kill RPC alone.
Cancel(w) == Ask(w, "cancel", "controller")
CancelTask(w) == array /\ Ask(w, "cancel_task", "kill")

At(w, where) == call[w].at = where

Goes(w, where, read) ==
  call' = [call EXCEPT ![w].at = where, ![w].read = read] /\ UNCHANGED answer

Answers(w, kind, state) ==
  /\ answer' = [answer EXCEPT ![w] = [op |-> call[w].op, kind |-> kind, state |-> state,
                                      began |-> call[w].began]]
  /\ call' = [call EXCEPT ![w] = Idle]

Raises(w, kind) == Answers(w, kind, "none")

\* build_usage of a job with GPUs needs the TRES ids, which are loaded once.
Reports(w, state) ==
  IF gpuIds = "unread" THEN Goes(w, "gpu", state) ELSE Answers(w, "ok", state)

\* cancel lets the kill RPC decide when the controller cannot tell.
CannotTell(w) == Goes(w, "kill", "none")

\* _controller_job raised ERR_RPC: the RPC failed, or the id is the id of an
\* array of which the controller holds several records.
ControllerFails(w) ==
  /\ At(w, "controller") /\ (Faults \/ (array /\ job \in ActiveStates))
  /\ IF call[w].op = "cancel" THEN CannotTell(w) ELSE Raises(w, "rpc")
  /\ UNCHANGED <<slurm, gpuIds, killer, begun>>

\* _controller_job returned the record, or None.
ControllerAnswers(w) ==
  /\ At(w, "controller")
  /\ LET op == call[w].op IN
       IF job \notin Held THEN Goes(w, "accounting", "none")
       ELSE CASE op = "detail" -> Answers(w, "ok", job)
              [] op = "usage" -> (CASE job = "pending" -> Reports(w, job)
                                    [] job = "running" -> Goes(w, "live", job)
                                    [] job = "over" -> Goes(w, "accounting", job))
              [] op = "cancel" -> IF job = "over" /\ ~array THEN Raises(w, "not_cancellable")
                                  ELSE Goes(w, "kill", job)
  /\ UNCHANGED <<slurm, gpuIds, killer, begun>>

AccountingFails(w) ==
  /\ Faults /\ At(w, "accounting") /\ Raises(w, "rpc")
  /\ UNCHANGED <<slurm, gpuIds, killer, begun>>

\* Mutants of the case that slurmdbd knows nothing of the job.
NotStored_Unknown(w) == Raises(w, "not_found")
NotStored_Blank(w) == Answers(w, "ok", "unknown")

\* A job the controller still holds has its usage reported without statistics.
NotStored(w) ==
  IF call[w].op = "usage" /\ call[w].read # "none" THEN Reports(w, call[w].read)
  ELSE Raises(w, "not_found")

AccountingAnswers(w) ==
  /\ At(w, "accounting")
  /\ IF stored = "none" THEN NotStored(w)
     ELSE CASE call[w].op = "detail" -> Answers(w, "ok", stored)
            [] call[w].op = "usage" -> Reports(w, stored)
            [] call[w].op = "cancel" -> Raises(w, "not_cancellable")
  /\ UNCHANGED <<slurm, gpuIds, killer, begun>>

\* load_stats may fail without consequence.
LiveStats(w) ==
  /\ At(w, "live") /\ Reports(w, call[w].read)
  /\ UNCHANGED <<slurm, gpuIds, killer, begun>>

\* _gpu_tres: a failed load gives (None, None), as a cluster without GPU
\* accounting does, and is kept like any other.
GpuIds(w) ==
  /\ At(w, "gpu") /\ Answers(w, "ok", call[w].read)
  /\ \E ids \in {"ids"} \cup (IF Faults THEN {"none"} ELSE {}) : gpuIds' = ids
  /\ UNCHANGED <<slurm, killer, begun>>

-----------------------------------------------------------------------------
(* _kill                                                                    *)

Killed(w) ==
  /\ job \in ActiveStates /\ job' = "over" /\ killer' = w /\ Answers(w, "ok", "over")

\* Mutant: errno is not looked at.
KillFinished_Ignored(w) ==
  /\ job \in {"over", "purged", "none"} /\ UNCHANGED <<job, killer>>
  /\ Answers(w, "ok", "over")

\* slurm_kill_job2 reports a job that is over; pyslurm.Job.cancel does not.
KillFinished(w) ==
  /\ job \in {"over", "purged", "none"} /\ UNCHANGED <<job, killer>>
  /\ IF job # "over" THEN Raises(w, "not_found")
     ELSE IF library THEN Raises(w, "not_cancellable") ELSE Answers(w, "ok", "over")

\* Without libslurmfull an array task cannot be addressed.
CannotAddress(w) == call[w].op = "cancel_task" /\ ~library

KillFails(w) ==
  (Faults \/ CannotAddress(w)) /\ Raises(w, "rpc") /\ UNCHANGED <<job, killer>>

Kill(w) ==
  /\ At(w, "kill")
  /\ \/ ~CannotAddress(w) /\ (Killed(w) \/ KillFinished(w))
     \/ KillFails(w)
  /\ UNCHANGED <<stored, array, library, gpuIds, begun>>

-----------------------------------------------------------------------------
Slurm == Submit \/ Begin \/ End \/ Purge \/ Store
Begins(w) == JobDetail(w) \/ JobUsage(w) \/ Cancel(w) \/ CancelTask(w)
Proceeds(w) ==
  \/ ControllerFails(w) \/ ControllerAnswers(w) \/ AccountingFails(w) \/ AccountingAnswers(w)
  \/ LiveStats(w) \/ GpuIds(w) \/ Kill(w)

Next == Slurm \/ \E w \in Workers : Begins(w) \/ Proceeds(w)

Spec == Init /\ [][Next]_vars
-----------------------------------------------------------------------------
(* Properties                                                               *)

States == {"none", "pending", "running", "over"}
Ops == {"idle", "detail", "usage", "cancel", "cancel_task"}
Cancels == {"cancel", "cancel_task"}
Kinds == {"none", "ok", "rpc", "not_found", "not_cancellable"}

\* Queries and answers have values of their kinds; a good answer has a state.
TypeOK ==
  /\ job \in DOMAIN Rank /\ stored \in States
  /\ array \in BOOLEAN /\ library \in BOOLEAN
  /\ gpuIds \in {"unread", "ids", "none"} /\ killer \in Workers \cup {Nobody} /\ begun \in 0..MaxQueries
  /\ call \in [Workers -> [op : Ops,
                           at : {"idle", "controller", "accounting", "live", "gpu", "kill"},
                           began : DOMAIN Rank, read : States]]
  /\ answer \in [Workers -> [op : Ops, kind : Kinds,
                             state : States, began : DOMAIN Rank]]

\* A job Slurm knew when the query began is found, wherever it moves between
\* the two questions (queries.py:229-235, 284-294).
Found ==
  \A w \in Workers :
    answer[w].op \in {"detail", "usage"} /\ answer[w].began # "none" => answer[w].kind # "not_found"

\* A detail is not older than the query (queries.py:9: controller first).
DetailNotBehind ==
  \A w \in Workers :
    answer[w].op = "detail" /\ answer[w].kind = "ok" =>
      Rank[answer[w].state] >= IF answer[w].began = "purged" THEN 3 ELSE Rank[answer[w].began]

\* What cancel reports is true.  An active job is never refused as finished or
\* unknown: by then it is over (queries.py:432-447, 463-466).  A cancel reported
\* as done ended the job, also when two cancels or a cancel and the end of the
\* job overlap: "Raises CoreError(ERR_NOT_CANCELLABLE) if the target is already
\* terminal" (core/__init__.py:61-62).  The fallback of queries.py:469-484 does
\* not promise the latter: pyslurm swallows the refusal.
CancelTellsTruth ==
  \A w \in Workers :
    answer[w].op \in Cancels =>
      /\ answer[w].began \in ActiveStates /\ answer[w].kind \in {"not_found", "not_cancellable"}
           => job \in {"over", "purged"}
      /\ answer[w].kind = "ok" /\ library => killer = w
=============================================================================
