---------------------------- MODULE QueriesProofs ----------------------------
(* Whatever the number of threads and of queries, and wherever the job goes  *)
(* between two questions, the answers are true.                              *)
EXTENDS Queries, TLAPS

Old == {"over", "purged"}

\* slurmdbd follows slurmctld, and has what slurmctld dropped.
Database == Rank[stored] <= Rank[job] /\ (job = "purged" => stored = "over")

\* Where a query is tells what is asked; if the controller no longer held a job
\* it knew when the query began, the database has it.
Placed(w) ==
  /\ call[w].at \in {"controller", "accounting"} => call[w].op \in {"detail", "usage", "cancel"}
  /\ call[w].at \in {"live", "gpu"} => call[w].op = "usage"
  /\ call[w].at = "kill" => call[w].op \in Cancels
  /\ Rank[call[w].began] <= Rank[job]
  /\ call[w].at = "accounting" /\ call[w].read = "none" /\ call[w].began # "none" => job = "purged"
  /\ call[w].at = "accounting" /\ call[w].op # "usage" => call[w].read = "none"

Told(w) ==
  LET a == answer[w] IN
    /\ a.op \in {"detail", "usage"} /\ a.began # "none" => a.kind # "not_found"
    /\ a.op = "detail" /\ a.kind = "ok" =>
         Rank[a.state] >= IF a.began = "purged" THEN 3 ELSE Rank[a.began]
    /\ a.op \in Cancels /\ a.began \in ActiveStates /\ a.kind \in {"not_found", "not_cancellable"}
         => job \in Old
    /\ a.op \in Cancels /\ a.kind = "ok" /\ library => killer = w /\ job \in Old

IInv == TypeOK /\ Database /\ \A w \in Workers : Placed(w) /\ Told(w)

\* A job only moves on, and a thread kills it at most once.
MovesOn ==
  /\ job' \in DOMAIN Rank /\ Rank[job] <= Rank[job'] /\ library' = library
  /\ (job = "purged" => job' = "purged") /\ (job \in Old => job' \in Old /\ killer' = killer)

USE DEF ActiveStates, Cancels, Held, Old

-----------------------------------------------------------------------------
LEMMA Ranks ==
  /\ DOMAIN Rank = {"none", "pending", "running", "over", "purged"}
  /\ Rank["none"] = 0 /\ Rank["pending"] = 1 /\ Rank["running"] = 2
  /\ Rank["over"] = 3 /\ Rank["purged"] = 4
  BY DEF Rank

\* A thread that does nothing keeps what it knows while the job moves on.
LEMMA Waits ==
  ASSUME IInv, MovesOn, NEW v \in Workers, call'[v] = call[v], answer'[v] = answer[v]
  PROVE  Placed(v)' /\ Told(v)'
<1>1. /\ job \in DOMAIN Rank /\ call[v].began \in DOMAIN Rank
      /\ Placed(v) /\ Told(v)
  BY DEF IInv, TypeOK
<1>2. \A s \in DOMAIN Rank : Rank[s] \in Nat
  BY Ranks
<1>3. Placed(v)'
  BY <1>1, <1>2 DEF Placed, MovesOn
<1>4. Told(v)'
  BY <1>1 DEF Told, MovesOn
<1> QED
  BY <1>3, <1>4

LEMMA InitIInv == Init => IInv
  BY BoundsAssumption, Ranks
     DEF Init, IInv, TypeOK, States, Ops, Kinds, Database, Placed, Told, Idle, NoAnswer

\* The other threads wait while one proceeds.
LEMMA OneSteps ==
  ASSUME IInv, MovesOn, NEW w \in Workers, TypeOK', Database', Placed(w)', Told(w)',
         \A v \in Workers \ {w} : call'[v] = call[v] /\ answer'[v] = answer[v]
  PROVE  IInv'
<1>1. \A v \in Workers \ {w} : Placed(v)' /\ Told(v)'
  BY Waits
<1> QED
  BY <1>1 DEF IInv

LEMMA SlurmStep ==
  ASSUME IInv, Slurm
  PROVE  IInv'
<1>1. TypeOK /\ Database
  BY DEF IInv
<1>2. /\ TypeOK' /\ Database' /\ MovesOn
      /\ call' = call /\ answer' = answer
  <2>1. CASE Submit
    BY <1>1, <2>1, Ranks DEF Submit, Live, TypeOK, States, Database, MovesOn
  <2>2. CASE Begin
    BY <1>1, <2>2, Ranks DEF Begin, Live, TypeOK, States, Database, MovesOn
  <2>3. CASE End
    BY <1>1, <2>3, Ranks DEF End, Live, TypeOK, States, Database, MovesOn
  <2>4. CASE Purge
    BY <1>1, <2>4, Ranks DEF Purge, Live, TypeOK, States, Database, MovesOn
  <2>5. CASE Store
    BY <1>1, <2>5, Ranks DEF Store, TypeOK, States, Database, MovesOn
  <2> QED
    BY <2>1, <2>2, <2>3, <2>4, <2>5 DEF Slurm
<1>3. \A v \in Workers : Placed(v)' /\ Told(v)'
  BY <1>2, Waits
<1> QED
  BY <1>2, <1>3 DEF IInv

LEMMA BeginsStep ==
  ASSUME IInv, NEW w \in Workers, Begins(w)
  PROVE  IInv'
<1>1. PICK op \in Ops \ {"idle"}, at \in {"controller", "kill"} :
        /\ Ask(w, op, at)
        /\ at = "kill" => op \in Cancels
        /\ at = "controller" => op \in {"detail", "usage", "cancel"}
  BY DEF Begins, JobDetail, JobUsage, Cancel, CancelTask, Ops
<1>2. TypeOK /\ Database
  BY DEF IInv
<1>3. TypeOK' /\ Database' /\ MovesOn
  BY <1>1, <1>2, Ranks, BoundsAssumption
     DEF Ask, TypeOK, States, Ops, Kinds, Database, MovesOn, NoAnswer, slurm
<1>4. call'[w] = [op |-> op, at |-> at, began |-> job, read |-> "none"] /\ answer'[w] = NoAnswer
  BY <1>1, <1>2 DEF Ask, TypeOK
<1>5. Placed(w)' /\ Told(w)'
  BY <1>1, <1>2, <1>4, Ranks DEF Placed, Told, NoAnswer, Ask, slurm, TypeOK
<1> QED
  BY <1>1, <1>2, <1>3, <1>5, OneSteps DEF Ask, TypeOK

\* A query that goes on to another question.
LEMMA GoesOn ==
  ASSUME IInv, NEW w \in Workers, NEW at, NEW read, Goes(w, at, read),
         read \in States, UNCHANGED <<slurm, killer, begun>>, gpuIds' \in {"unread", "ids", "none"},
         \/ at \in {"live", "gpu"} /\ call[w].op = "usage"
         \/ at = "kill" /\ call[w].op \in Cancels
         \/ /\ at = "accounting" /\ call[w].op \in {"detail", "usage", "cancel"}
            /\ read = "none" => job \in {"none", "purged"}
            /\ call[w].op # "usage" => read = "none"
  PROVE  IInv'
<1>2. TypeOK /\ Database /\ Placed(w) /\ Told(w)
  BY DEF IInv
<1>3. Database' /\ MovesOn
  BY <1>2, Ranks DEF TypeOK, Database, MovesOn, slurm
<1>t. TypeOK'
  <2>1. call' \in [Workers -> [op : Ops, at : {"idle", "controller", "accounting", "live", "gpu", "kill"},
                               began : DOMAIN Rank, read : States]]
    BY <1>2 DEF Goes, TypeOK
  <2> QED
    BY <1>2, <2>1 DEF Goes, TypeOK, slurm
<1>4. /\ call'[w].at = at /\ call'[w].read = read /\ answer'[w] = answer[w]
      /\ call'[w].op = call[w].op /\ call'[w].began = call[w].began
  BY <1>2 DEF Goes, TypeOK
<1>5. call[w].began \in DOMAIN Rank /\ (job = "none" => call[w].began = "none")
  BY <1>2, Ranks DEF TypeOK, Placed
<1>6. Placed(w)' /\ Told(w)'
  BY <1>2, <1>4, <1>5 DEF Placed, Told, slurm
<1> QED
  BY <1>2, <1>3, <1>t, <1>6, OneSteps DEF Goes, TypeOK

\* A query that is answered, truly.
LEMMA IsAnswered ==
  ASSUME IInv, NEW w \in Workers, NEW kind \in Kinds, NEW state \in States, Answers(w, kind, state),
         TypeOK', Database', MovesOn,
         call[w].op \in {"detail", "usage"} /\ call[w].began # "none" => kind # "not_found",
         call[w].op = "detail" /\ kind = "ok" =>
           Rank[state] >= IF call[w].began = "purged" THEN 3 ELSE Rank[call[w].began],
         call[w].op \in Cancels /\ call[w].began \in ActiveStates
           /\ kind \in {"not_found", "not_cancellable"} => job' \in Old,
         call[w].op \in Cancels /\ kind = "ok" /\ library => killer' = w /\ job' \in Old
  PROVE  IInv'
<1>2. TypeOK
  BY DEF IInv
<1>3. /\ call'[w] = Idle
      /\ answer'[w] = [op |-> call[w].op, kind |-> kind, state |-> state, began |-> call[w].began]
  BY <1>2 DEF Answers, TypeOK
<1>4. Placed(w)' /\ Told(w)'
  BY <1>3, Ranks DEF Placed, Told, Idle, MovesOn, TypeOK
<1> QED
  BY <1>2, <1>4, OneSteps DEF Answers, TypeOK

\* A report of usage, at once or after the TRES ids are loaded.
LEMMA IsReported ==
  ASSUME IInv, NEW w \in Workers, NEW state \in States, Reports(w, state),
         call[w].op = "usage", UNCHANGED <<slurm, gpuIds, killer, begun>>
  PROVE  IInv'
<1>1. TypeOK /\ Database
  BY DEF IInv
<1>2. CASE gpuIds = "unread"
  BY <1>1, <1>2, GoesOn DEF Reports, TypeOK
<1>3. CASE gpuIds # "unread"
  <2>1. Answers(w, "ok", state)
    BY <1>3 DEF Reports
  <2>2. TypeOK' /\ Database' /\ MovesOn
    BY <1>1, <2>1, Ranks
       DEF Answers, TypeOK, States, Ops, Kinds, Database, MovesOn, Idle, slurm
  <2> QED
    BY <2>1, <2>2, IsAnswered DEF Kinds
<1> QED
  BY <1>2, <1>3

\* An error that says nothing of the job.
LEMMA IsRaised ==
  ASSUME IInv, NEW w \in Workers, Raises(w, "rpc"), UNCHANGED <<slurm, gpuIds, killer, begun>>
  PROVE  IInv'
<1>1. TypeOK /\ Database
  BY DEF IInv
<1>2. Answers(w, "rpc", "none") /\ "rpc" \in Kinds /\ "none" \in States
  BY DEF Raises, Kinds, States
<1>3. TypeOK' /\ Database' /\ MovesOn
  BY <1>1, <1>2, Ranks
     DEF Answers, TypeOK, States, Ops, Kinds, Database, MovesOn, Idle, slurm
<1> QED
  BY <1>2, <1>3, IsAnswered

LEMMA ControllerStep ==
  ASSUME IInv, NEW w \in Workers, ControllerFails(w) \/ ControllerAnswers(w)
  PROVE  IInv'
<1>1. /\ TypeOK /\ Database /\ Placed(w) /\ call[w].at = "controller"
      /\ UNCHANGED <<slurm, gpuIds, killer, begun>>
  BY DEF IInv, ControllerFails, ControllerAnswers, At
<1>2. /\ call[w].op \in {"detail", "usage", "cancel"}
      /\ call[w].began \in DOMAIN Rank /\ Rank[call[w].began] <= Rank[job]
      /\ gpuIds \in {"unread", "ids", "none"} /\ "none" \in States
  BY <1>1 DEF Placed, TypeOK, States
<1>3. CASE ControllerFails(w)
  <2>1. CASE call[w].op = "cancel"
    <3>1. Goes(w, "kill", "none")
      BY <1>3, <2>1 DEF ControllerFails, CannotTell
    <3> QED
      BY <1>1, <1>2, <2>1, <3>1, GoesOn
  <2>2. CASE call[w].op # "cancel"
    BY <1>1, <1>3, <2>2, IsRaised DEF ControllerFails
  <2> QED
    BY <2>1, <2>2
<1>4. CASE ControllerAnswers(w)
  <2>1. CASE job \notin Held
    <3>1. Goes(w, "accounting", "none") /\ job \in {"none", "purged"}
      BY <1>1, <1>4, <2>1, Ranks DEF ControllerAnswers, TypeOK
    <3> QED
      BY <1>1, <1>2, <3>1, GoesOn
  <2>2. CASE job \in Held /\ call[w].op = "detail"
    <3>1. Answers(w, "ok", job) /\ job \in States /\ "ok" \in Kinds
      BY <1>4, <2>2 DEF ControllerAnswers, States, Kinds
    <3>2. TypeOK' /\ Database' /\ MovesOn
      BY <1>1, <3>1, Ranks
         DEF Answers, TypeOK, States, Ops, Kinds, Database, MovesOn, Idle, slurm
    <3>3. Rank[job] >= IF call[w].began = "purged" THEN 3 ELSE Rank[call[w].began]
      BY <1>2, <2>2, Ranks
    <3> QED
      BY <2>2, <3>1, <3>2, <3>3, IsAnswered
  <2>3. CASE job \in Held /\ call[w].op = "usage"
    <3>1. \/ Reports(w, job) \/ Goes(w, "live", job) \/ Goes(w, "accounting", job)
      BY <1>4, <2>3 DEF ControllerAnswers
    <3>2. job \in States /\ job # "none"
      BY <2>3 DEF States
    <3> QED
      BY <1>1, <1>2, <2>3, <3>1, <3>2, IsReported, GoesOn
  <2>4. CASE job \in Held /\ call[w].op = "cancel"
    <3>1. CASE job = "over" /\ ~array
      <4>1. Answers(w, "not_cancellable", "none") /\ "not_cancellable" \in Kinds
        BY <1>4, <2>4, <3>1 DEF ControllerAnswers, Raises, Kinds
      <4>2. TypeOK' /\ Database' /\ MovesOn /\ job' = "over"
        BY <1>1, <3>1, <4>1, Ranks
           DEF Answers, TypeOK, States, Ops, Kinds, Database, MovesOn, Idle, slurm
      <4> QED
        BY <1>2, <2>4, <4>1, <4>2, IsAnswered
    <3>2. CASE ~(job = "over" /\ ~array)
      <4>1. Goes(w, "kill", job) /\ job \in States
        BY <1>4, <2>4, <3>2 DEF ControllerAnswers, States
      <4> QED
        BY <1>1, <1>2, <2>4, <4>1, GoesOn
    <3> QED
      BY <3>1, <3>2
  <2> QED
    BY <1>2, <2>1, <2>2, <2>3, <2>4
<1> QED
  BY <1>3, <1>4

LEMMA AccountingStep ==
  ASSUME IInv, NEW w \in Workers, AccountingFails(w) \/ AccountingAnswers(w)
  PROVE  IInv'
<1>1. /\ TypeOK /\ Database /\ Placed(w) /\ call[w].at = "accounting"
      /\ UNCHANGED <<slurm, gpuIds, killer, begun>>
  BY DEF IInv, AccountingFails, AccountingAnswers, At
<1>2. /\ call[w].op \in {"detail", "usage", "cancel"} /\ call[w].read \in States
      /\ stored \in States /\ call[w].began \in DOMAIN Rank
  BY <1>1 DEF Placed, TypeOK
<1>3. call[w].began # "none" /\ call[w].read = "none" => job = "purged" /\ stored = "over"
  BY <1>1 DEF Placed, Database
<1>4. call[w].op # "usage" => call[w].read = "none"
  BY <1>1 DEF Placed
<1>5. CASE Raises(w, "rpc")
  BY <1>1, <1>5, IsRaised
<1>6. ASSUME NEW state \in States, Reports(w, state), call[w].op = "usage" PROVE IInv'
  BY <1>1, <1>6, IsReported
<1>7. ASSUME NEW kind \in {"not_found", "not_cancellable"}, Raises(w, kind),
             kind = "not_found" => stored = "none" /\ call[w].read = "none",
             kind = "not_cancellable" => call[w].op = "cancel"
      PROVE  IInv'
  <2>1. Answers(w, kind, "none") /\ kind \in Kinds /\ "none" \in States
    BY <1>7 DEF Raises, Kinds, States
  <2>2. TypeOK' /\ Database' /\ MovesOn /\ job' = job
    BY <1>1, <2>1, Ranks
       DEF Answers, TypeOK, States, Ops, Kinds, Database, MovesOn, Idle, slurm
  <2> QED
    BY <1>2, <1>3, <1>4, <1>7, <2>1, <2>2, IsAnswered
<1>8. CASE Answers(w, "ok", stored) /\ call[w].op = "detail" /\ stored # "none"
  <2>1. "ok" \in Kinds
    BY DEF Kinds
  <2>2. TypeOK' /\ Database' /\ MovesOn
    BY <1>1, <1>8, Ranks
       DEF Answers, TypeOK, States, Ops, Kinds, Database, MovesOn, Idle, slurm
  <2>3. Rank[stored] >= IF call[w].began = "purged" THEN 3 ELSE Rank[call[w].began]
    BY <1>2, <1>3, <1>4, <1>8, Ranks DEF States
  <2> QED
    BY <1>2, <1>8, <2>1, <2>2, <2>3, IsAnswered
<1> QED
  BY <1>2, <1>4, <1>5, <1>6, <1>7, <1>8 DEF AccountingFails, AccountingAnswers, NotStored

LEMMA UsageStep ==
  ASSUME IInv, NEW w \in Workers, LiveStats(w) \/ GpuIds(w)
  PROVE  IInv'
<1>1. TypeOK /\ Database /\ Placed(w) /\ call[w].at \in {"live", "gpu"}
  BY DEF IInv, LiveStats, GpuIds, At
<1>2. call[w].op = "usage" /\ call[w].read \in States
  BY <1>1 DEF Placed, TypeOK
<1>3. CASE LiveStats(w)
  BY <1>2, <1>3, IsReported DEF LiveStats
<1>4. CASE GpuIds(w)
  <2>1. Answers(w, "ok", call[w].read) /\ "ok" \in Kinds
    BY <1>4 DEF GpuIds, Kinds
  <2>2. gpuIds' \in {"unread", "ids", "none"} /\ UNCHANGED <<slurm, killer, begun>>
    BY <1>4 DEF GpuIds
  <2>3. TypeOK' /\ Database' /\ MovesOn
    BY <1>1, <1>2, <2>1, <2>2, Ranks
       DEF Answers, TypeOK, States, Ops, Kinds, Database, MovesOn, Idle, slurm
  <2> QED
    BY <1>2, <2>1, <2>3, IsAnswered
<1> QED
  BY <1>3, <1>4

LEMMA KillStep ==
  ASSUME IInv, NEW w \in Workers, Kill(w)
  PROVE  IInv'
<1>1. /\ TypeOK /\ Database /\ Placed(w) /\ call[w].at = "kill"
      /\ UNCHANGED <<stored, array, library, gpuIds, begun>>
  BY DEF IInv, Kill, At
<1>2. /\ call[w].op \in Cancels /\ call[w].began \in DOMAIN Rank
      /\ Rank[call[w].began] <= Rank[job]
  BY <1>1 DEF Placed, TypeOK
<1>3. PICK kind \in Kinds, state \in States : Answers(w, kind, state)
  BY DEF Kill, Killed, KillFinished, KillFails, Raises, Kinds, States
<1>4. /\ call' \in [Workers -> [op : Ops, at : {"idle", "controller", "accounting", "live", "gpu", "kill"},
                                began : DOMAIN Rank, read : States]]
      /\ answer' \in [Workers -> [op : Ops, kind : Kinds, state : States, began : DOMAIN Rank]]
      /\ answer'[w].kind = kind
  BY <1>1, <1>3, Ranks DEF Answers, TypeOK, Idle, Ops, States
<1>5. CASE Killed(w)
  <2>1. TypeOK' /\ Database' /\ MovesOn
    BY <1>1, <1>4, <1>5, Ranks DEF Killed, TypeOK, States, Database, MovesOn
  <2>2. job' \in Old /\ killer' = w
    BY <1>5 DEF Killed
  <2> QED
    BY <1>2, <1>3, <2>1, <2>2, IsAnswered
<1>6. CASE KillFinished(w) \/ KillFails(w)
  <2>1. UNCHANGED <<job, killer>> /\ MovesOn
    BY <1>1, <1>6, Ranks DEF KillFinished, KillFails, MovesOn, TypeOK
  <2>2. TypeOK' /\ Database'
    BY <1>1, <1>4, <2>1 DEF TypeOK, Database
  <2>3. kind = "ok" => ~library
    <3>1. answer'[w].kind = "ok" => ~library
      BY <1>1, <1>6 DEF KillFinished, KillFails, Raises, Answers, TypeOK
    <3> QED
      BY <3>1, <1>4
  <2>4. kind \in {"not_found", "not_cancellable"} => job \in {"over", "purged", "none"}
    <3>1. answer'[w].kind \in {"not_found", "not_cancellable"} => job \in {"over", "purged", "none"}
      BY <1>1, <1>6 DEF KillFinished, KillFails, Raises, Answers, TypeOK
    <3> QED
      BY <3>1, <1>4
  <2>5. call[w].began \in ActiveStates => job # "none"
    BY <1>2, Ranks
  <2> QED
    BY <1>2, <1>3, <2>1, <2>2, <2>3, <2>4, <2>5, IsAnswered
<1> QED
  BY <1>5, <1>6 DEF Kill

LEMMA StepIInv == IInv /\ [Next]_vars => IInv'
<1> SUFFICES ASSUME IInv, [Next]_vars PROVE IInv'
  OBVIOUS
<1>1. CASE Slurm
  BY <1>1, SlurmStep
<1>2. ASSUME NEW w \in Workers, Begins(w) PROVE IInv'
  BY <1>2, BeginsStep
<1>3. ASSUME NEW w \in Workers, Proceeds(w) PROVE IInv'
  BY <1>3, ControllerStep, AccountingStep, UsageStep, KillStep DEF Proceeds
<1>4. CASE UNCHANGED vars
  BY <1>4 DEF vars, slurm, IInv, TypeOK, Database, Placed, Told
<1> QED
  BY <1>1, <1>2, <1>3, <1>4 DEF Next

-----------------------------------------------------------------------------
LEMMA Inductive == Spec => []IInv
  BY InitIInv, StepIInv, PTL DEF Spec

\* Queries, answers and what is cached have values of their kinds.
THEOREM Typing == Spec => []TypeOK
  BY Inductive, PTL DEF IInv

\* A job Slurm knew when detail or usage was asked for is found, wherever it
\* moves between the two questions (queries.py:229-235, 284-294).
THEOREM IsFound == Spec => []Found
<1>1. IInv => Found
  BY DEF IInv, Told, Found
<1> QED
  BY <1>1, Inductive, PTL

\* A detail is not older than its query.
THEOREM NotBehind == Spec => []DetailNotBehind
<1>1. IInv => DetailNotBehind
  BY DEF IInv, Told, DetailNotBehind
<1> QED
  BY <1>1, Inductive, PTL

\* No active job is refused as finished, and what cancel reports as done it did
\* (queries.py:432-447, 463-466).
THEOREM CancelIsTrue == Spec => []CancelTellsTruth
<1>1. IInv => CancelTellsTruth
  BY DEF IInv, Told, CancelTellsTruth
<1> QED
  BY <1>1, Inductive, PTL
=============================================================================
