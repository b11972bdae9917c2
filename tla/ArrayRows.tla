------------------------------ MODULE ArrayRows ------------------------------
(* Job arrays in the Active tab: how the controller's records become rows   *)
(* (core/normalize.py, core/arrays.py), what a cancelled row addresses      *)
(* (arrays.py, queries.py), and how the table notices what has left it.     *)
(* One array and one plain job; the tasks start, end and are cancelled      *)
(* while the user looks at rows that may be out of date.                    *)
EXTENDS Naturals, FiniteSets

CONSTANTS
  Size,  \* tasks of the array, numbered from 0: one or more
  Solo,  \* the plain job, no number
  None   \* no number either

VARIABLES
  state,      \* what each job is to the controller
  ids,        \* the job id of its record
  snapshot,   \* self.active_snapshot
  expanded,   \* the array is in self.expanded
  displayed,  \* self.displayed_ids
  handedOff,  \* self._handoff_done
  renderPending, \* self._render_pending
  history,    \* a history query is under way
  dialog,     \* the target of the confirmation, or None
  cancel,     \* the target of the cancellation under way, or None
  shown,      \* the jobs the snapshot was taken of, with their states
  meant       \* the jobs the row of that dialog or cancellation stands for

cluster == <<state, ids>>
screen == <<snapshot, expanded, displayed, handedOff, renderPending, shown>>
vars == <<cluster, screen, history, dialog, cancel, meant>>

Tasks == 0..(Size - 1)
Jobs == Tasks \cup {Solo}
SoloId == 1
Base == 2                \* the id of the array
OwnId(t) == Base + 1 + t \* the id a task gets when it leaves the array's record
Active == {"pending", "running"}
Live(js) == {j \in DOMAIN js : js[j] \in Active}
Waiting == {t \in Tasks : state[t] = "pending"}

Init ==
  /\ state = [j \in Jobs |-> "pending"]
  /\ ids = [j \in Jobs |-> IF j = Solo THEN SoloId ELSE Base]
  /\ snapshot = {} /\ expanded \in BOOLEAN /\ displayed = {} /\ handedOff = {}
  /\ renderPending = FALSE /\ shown = [j \in Jobs |-> "absent"]
  /\ history = FALSE /\ dialog = None /\ cancel = None /\ meant = {}

-----------------------------------------------------------------------------
(* The controller (external).  A task that leaves the waiting record gets   *)
(* an id of its own; the last one keeps the id of the array.                *)

Leaves(t) == IF Waiting = {t} THEN ids ELSE [ids EXCEPT ![t] = OwnId(t)]

Start(j) ==
  /\ state[j] = "pending" /\ state' = [state EXCEPT ![j] = "running"]
  /\ ids' = IF j = Solo THEN ids ELSE Leaves(j)
  /\ UNCHANGED <<screen, history, dialog, cancel, meant>>

End(j) ==
  /\ state[j] = "running" /\ state' = [state EXCEPT ![j] = "over"]
  /\ UNCHANGED <<ids, screen, history, dialog, cancel, meant>>

\* The ways the controller may write the tasks that wait: the longest ranges,
\* or one range with a step.
Runs(w) ==
  {r \in [lo : w, hi : w, step : {1}] :
     r.lo <= r.hi /\ r.lo..r.hi \subseteq w /\ r.hi + 1 \notin w /\ \A c \in w : c + 1 # r.lo}
Stepped(w) ==
  {r \in [lo : w, hi : w, step : 2..Size] :
     \E n \in 1..Size : r.hi = r.lo + n * r.step /\ w = {r.lo + k * r.step : k \in 0..n}}
Specs(w) == {Runs(w)} \cup {{r} : r \in Stepped(w)}

\* A record as pyslurm gives it: its u32_parse turns task 0 into None
\* (normalize.py:299-300).
Record(j) ==
  [id |-> ids[j], state |-> state[j], array |-> IF j = Solo THEN None ELSE Base,
   task |-> IF j \in {Solo, 0} THEN None ELSE j, waiting |-> {}]
WaitingRecord(spec) ==
  [id |-> Base, state |-> "pending", array |-> Base, task |-> None, waiting |-> spec]
Records(spec) ==
  {Record(j) : j \in Jobs \ Waiting} \cup (IF spec = {} THEN {} ELSE {WaitingRecord(spec)})

-----------------------------------------------------------------------------
(* From records to rows                                                     *)

\* Mutant: task 0 is no task.
ArrayFields_NoTaskZero(r) ==
  IF r.waiting # {} THEN [task |-> None, range |-> r.waiting] ELSE [task |-> r.task, range |-> {}]

\* _array_fields
ArrayFields(r) ==
  IF r.array = None THEN [task |-> None, range |-> {}]
  ELSE IF r.waiting # {} THEN [task |-> None, range |-> r.waiting]
  ELSE [task |-> IF r.task = None THEN 0 ELSE r.task, range |-> {}]

\* PyslurmCore.active_jobs: records of finished jobs are left out.
ActiveJobs(rs) ==
  {[id |-> r.id, state |-> r.state, array |-> r.array,
    task |-> ArrayFields(r).task, range |-> ArrayFields(r).range] :
       r \in {q \in rs : q.state \in Active}}

\* Mutant: one task too many.
Expand_Past(range) == UNION {{n \in p.lo..(p.hi + 1) : (n - p.lo) % p.step = 0} : p \in range}

\* expand_task_range
Expand(range) == UNION {{n \in p.lo..p.hi : (n - p.lo) % p.step = 0} : p \in range}

IsArrayMember(job) == job.array # None /\ (job.task # None \/ job.range # {})
Members(job) == IF job.task # None THEN {job.task} ELSE Expand(job.range)

\* The histogram of the array (_add_member).
Counts(jobs) ==
  [s \in Active |-> Cardinality(UNION {{<<job, t>> : t \in Members(job)} :
                      job \in {j \in jobs : IsArrayMember(j) /\ j.state = s}})]

\* Mutant: a task row addresses the job id of its record.
TaskRow_ById(job, t) ==
  [kind |-> "task", id |-> job.id, task |-> None, count |-> 1, names |-> t]

TaskRow(job, t) == [kind |-> "task", id |-> job.array, task |-> t, count |-> 1, names |-> t]

PlainRow(job) == [kind |-> "plain", id |-> job.id, task |-> None, count |-> 1, names |-> Solo]
ArrayRow(jobs) ==
  [kind |-> "array", id |-> Base, task |-> None,
   count |-> Counts(jobs)["pending"] + Counts(jobs)["running"], names |-> None]

\* Every task row the parent has (ArrayRow.tasks), with the record behind it.
TaskRows(jobs) ==
  UNION {{<<TaskRow(job, t), job>> : t \in Members(job)} : job \in {j \in jobs : IsArrayMember(j)}}

\* collapse_arrays
Rows(jobs) ==
  {PlainRow(job) : job \in {j \in jobs : ~IsArrayMember(j)}}
  \cup (IF \E j \in jobs : IsArrayMember(j) THEN {ArrayRow(jobs)} ELSE {})
  \cup (IF expanded THEN {row[1] : row \in TaskRows(jobs)} ELSE {})

\* Mutant: waiting tasks are looked for as records of their own.
TargetIsCancellable_OnlyRecords(jobs, target) ==
  \E job \in jobs :
    IF target.task = None THEN target.id \in {job.id, job.array}
    ELSE job.array = target.id /\ job.task = target.task

\* target_is_cancellable
TargetIsCancellable(jobs, target) ==
  \E job \in jobs :
    IF target.task = None THEN target.id \in {job.id, job.array}
    ELSE job.array = target.id /\ target.task \in Members(job)

-----------------------------------------------------------------------------
(* The application                                                          *)

IdsOf(jobs) == {job.id : job \in jobs}

\* _render_active; what was handed off before is forgotten with it.
Render(jobs) == displayed' = IdsOf(jobs) /\ renderPending' = FALSE

\* refresh_active with its query: the table waits for the dialog, the handoff
\* does not.  An answer that arrives late shows what a snapshot that is not
\* refreshed shows; module ActiveView has the two apart.
RefreshActive ==
  \E spec \in IF Waiting = {} THEN {{}} ELSE Specs(Waiting) :
    LET jobs == ActiveJobs(Records(spec))
        gone == (displayed \ IdsOf(jobs)) \ handedOff
    IN /\ snapshot' = jobs /\ shown' = state
       /\ IF dialog = None THEN Render(jobs) /\ handedOff' = gone
          ELSE /\ handedOff' = handedOff \cup gone
               /\ renderPending' = TRUE /\ UNCHANGED displayed
       /\ history' = (history \/ gone # {})
       /\ UNCHANGED <<cluster, expanded, dialog, cancel, meant>>

HistoryReturns ==
  /\ history /\ history' = FALSE
  /\ UNCHANGED <<cluster, screen, dialog, cancel, meant>>

\* action_toggle_expand, from the parent or from one of its tasks.
ToggleExpand ==
  /\ dialog = None /\ \E row \in Rows(snapshot) : row.kind # "plain"
  /\ expanded' = ~expanded
  /\ Render(snapshot) /\ handedOff' = {}
  /\ UNCHANGED <<cluster, snapshot, shown, history, dialog, cancel, meant>>

\* action_cancel_job; the text of the dialog names the row.  The model allows
\* one cancellation at a time.
AskToCancel(row) ==
  /\ dialog = None /\ cancel = None
  /\ dialog' = [id |-> row.id, task |-> row.task, count |-> row.count]
  /\ meant' = IF row.kind = "array" THEN {t \in Tasks : shown[t] \in Active} ELSE {row.names}
  /\ UNCHANGED <<cluster, screen, history, cancel>>

\* _confirm_done and perform_cancel up to its request.
CloseDialog(confirmed) ==
  /\ dialog # None /\ dialog' = None
  /\ IF renderPending THEN Render(snapshot) /\ handedOff' = {}
     ELSE UNCHANGED <<displayed, handedOff, renderPending>>
  /\ cancel' = IF confirmed /\ TargetIsCancellable(snapshot, dialog) THEN dialog ELSE None
  /\ UNCHANGED <<cluster, snapshot, expanded, shown, history, meant>>

\* The jobs a kill RPC addresses (queries.py:426-430).
Addressed(target) ==
  IF target.task # None THEN {target.task}
  ELSE IF target.id = Base THEN Tasks
  ELSE {j \in Jobs : ids[j] = target.id}

\* The RPC is refused when nothing it addresses is left (module Queries).
\* A single task that waits leaves the record of the others.
Kill ==
  /\ cancel # None /\ cancel' = None
  /\ \/ UNCHANGED cluster
     \/ LET victims == Addressed(cancel) \cap Live(state) IN
          /\ victims # {}
          /\ state' = [j \in Jobs |-> IF j \in victims THEN "killed" ELSE state[j]]
          /\ ids' = IF cancel.task \in Waiting THEN Leaves(cancel.task) ELSE ids
  /\ UNCHANGED <<screen, history, dialog, meant>>

Next ==
  \/ \E j \in Jobs : Start(j) \/ End(j)
  \/ RefreshActive \/ HistoryReturns
  \/ ToggleExpand
  \/ \E row \in Rows(snapshot) : AskToCancel(row)
  \/ \E confirmed \in BOOLEAN : CloseDialog(confirmed)
  \/ Kill

Spec == Init /\ [][Next]_vars
-----------------------------------------------------------------------------
(* Properties                                                               *)

Targets == [id : Nat, task : Tasks \cup {None}, count : Nat]

\* A target names a task of the array or none; ids are numbers.
TypeOK ==
  /\ state \in [Jobs -> Active \cup {"over", "killed"}] /\ ids \in [Jobs -> Nat]
  /\ displayed \subseteq Nat /\ meant \subseteq Jobs
  /\ dialog \in Targets \cup {None} /\ cancel \in Targets \cup {None}

\* Every task that was live when the snapshot was taken has exactly one row
\* under its parent, and the histogram adds up to them (arrays.py:160-212):
\* no task is lost or shown twice, task 0 and ranges with gaps included.
RowsExact ==
  LET tasks == TaskRows(snapshot) IN
    /\ {row[1].names : row \in tasks} = Live(shown) \cap Tasks
    /\ Cardinality(tasks) = Cardinality(Live(shown) \cap Tasks)
    /\ \A s \in Active : Counts(snapshot)[s] = Cardinality({t \in Tasks : shown[t] = s})

\* A target may be cancelled exactly if something the confirmed row stood for
\* is live in the latest snapshot (arrays.py:222-223).
DecisionExact ==
  dialog # None => (TargetIsCancellable(snapshot, dialog) <=> Live(shown) \cap meant # {})

Victims == {j \in Jobs : state[j] # "killed" /\ state'[j] = "killed"}

\* Nothing is killed but what the confirmed row stood for, and no more tasks
\* than the dialog announced (app.py:448-455, arrays.py:24), whatever has
\* started or ended since.
KillsWhatWasConfirmed ==
  [][Victims \subseteq meant /\ (Victims # {} => Cardinality(Victims) <= cancel.count)]_vars
=============================================================================
