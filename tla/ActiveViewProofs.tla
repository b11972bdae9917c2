-------------------------- MODULE ActiveViewProofs --------------------------
(* What holds of the Active tab for any jobs and any number of workers:     *)
(* TypeOK, TableFollows, TargetOnScreen and HandedOffOnce, from one         *)
(* inductive invariant.                                                     *)
EXTENDS ActiveView, TLAPS

Gone(j) == cluster[j] \in {"over", "stored"}

\* What was shown has been submitted; what an answer under way leaves out of it
\* is over.
Shown ==
  \A j \in displayed \cup snapshot :
    /\ cluster[j] # "absent"
    /\ active.at = "answered" => j \in active.jobs \/ Gone(j)

\* A job is acted on once: from then on it is over, in no answer and no
\* snapshot, and in handoffDone for as long as it is still on the screen.
Fired ==
  \A j \in Jobs :
    \/ fired[j] = 0 /\ j \notin handoffDone
    \/ /\ fired[j] = 1 /\ Gone(j)
       /\ j \notin snapshot /\ (active.at = "answered" => j \notin active.jobs)
       /\ j \in displayed => j \in handoffDone

\* What an answer lists has been submitted.
Answered == active.at = "answered" => \A j \in active.jobs : cluster[j] # "absent"

\* A job the table shows although the snapshot has lost it was acted on.
NotMissed == \A j \in displayed \ snapshot : fired[j] = 1

IInv ==
  /\ TypeOK /\ TableFollows /\ TargetOnScreen
  /\ Shown /\ Fired /\ Answered /\ NotMissed

LEMMA InitIInv ==
  ASSUME Init
  PROVE  IInv
<1>1. TypeOK
  BY DEF Init, TypeOK, Calls, Idle
<1>2. QED
  BY <1>1 DEF Init, IInv, TableFollows, TargetOnScreen, Shown, Fired, Answered, NotMissed, Idle

\* The cluster moves a job on, never back to absent or active.
LEMMA ClusterKeeps ==
  ASSUME IInv, NEW j \in Jobs, NEW from, NEW to \in {"active", "over", "stored"},
         Becomes(j, from, to),
         from = "absent" \/ to \in {"over", "stored"}
  PROVE  IInv'
<1>1. /\ cluster[j] = from /\ cluster' = [cluster EXCEPT ![j] = to]
      /\ UNCHANGED <<snapshot, displayed, handoffDone, frozen, renderPending, target>>
      /\ UNCHANGED <<active, history, historyShown, cancel, fired>>
  BY DEF Becomes, table
<1>2. cluster' \in [Jobs -> {"absent", "active", "over", "stored"}]
  BY <1>1 DEF IInv, TypeOK
<1>3. TypeOK' /\ TableFollows' /\ TargetOnScreen' /\ NotMissed'
  BY <1>1, <1>2 DEF IInv, TypeOK, TableFollows, TargetOnScreen, NotMissed
<1>4. \A k \in Jobs : /\ cluster[k] # "absent" => cluster'[k] # "absent"
                      /\ Gone(k) => Gone(k)'
  BY <1>1 DEF IInv, TypeOK, Gone
<1>5. Shown' /\ Fired' /\ Answered'
  BY <1>1, <1>4 DEF IInv, TypeOK, Shown, Fired, Answered, Calls
<1>6. QED
  BY <1>3, <1>5 DEF IInv

\* The history refresh touches nothing else of the tab.
LEMMA HistoryKeeps ==
  ASSUME IInv, HistoryRuns
  PROVE  IInv'
<1>1. UNCHANGED <<cluster, snapshot, displayed, handoffDone, frozen, renderPending, target>>
  BY DEF HistoryRuns, RefreshHistory, ServeHistory, HistoryReturns, HistoryFails, table
<1>2. UNCHANGED <<active, cancel, fired>>
  BY DEF HistoryRuns, RefreshHistory, ServeHistory, HistoryReturns, HistoryFails
<1>3. history' \in Calls /\ historyShown' \subseteq Jobs
  BY DEF HistoryRuns, RefreshHistory, BeginHistory, ServeHistory, HistoryReturns, HistoryFails,
     IInv, TypeOK, Calls, Idle, Asked, Answer, Stored
<1>4. QED
  BY <1>1, <1>2, <1>3 DEF IInv, TypeOK, TableFollows, TargetOnScreen, Shown, Fired, Answered,
     NotMissed, Gone

-----------------------------------------------------------------------------
(* refresh_active                                                           *)

LEMMA ActiveAsksKeeps ==
  ASSUME IInv, active' \in {Idle, Asked},
         UNCHANGED <<cluster, table, history, historyShown, fired>>,
         cancel' \in [Cancellers -> [at : {"idle", "ready", "asked", "done"}, job : Jobs \cup {None}]]
  PROVE  IInv'
<1>1. UNCHANGED <<snapshot, displayed, handoffDone, frozen, renderPending, target>>
  BY DEF table
<1>2. active' \in Calls /\ active'.at # "answered"
  BY DEF Calls, Idle, Asked
<1>3. QED
  BY <1>1, <1>2 DEF IInv, TypeOK, TableFollows, TargetOnScreen, Shown, Fired, Answered,
     NotMissed, Gone

\* The agent answers with the jobs that are active at that moment.
LEMMA ServeActiveKeeps ==
  ASSUME IInv, ServeActive
  PROVE  IInv'
<1>1. /\ active' = [at |-> "answered", jobs |-> Live]
      /\ UNCHANGED <<cluster, history, historyShown, cancel, fired>>
      /\ UNCHANGED <<snapshot, displayed, handoffDone, frozen, renderPending, target>>
  BY DEF ServeActive, Answer, table
<1>2. active'.at = "answered" /\ active'.jobs = Live /\ Live \subseteq Jobs /\ active' \in Calls
  BY <1>1 DEF Live, Calls
<1>3. TypeOK' /\ TableFollows' /\ TargetOnScreen' /\ NotMissed'
  BY <1>1, <1>2 DEF IInv, TypeOK, TableFollows, TargetOnScreen, NotMissed
<1>4. \A j \in Jobs : cluster[j] # "absent" => j \in Live \/ Gone(j)
  BY DEF IInv, TypeOK, Live, Gone
<1>5. \A j \in Live : j \in Jobs /\ cluster[j] = "active" /\ ~Gone(j)
  BY DEF Live, Gone
<1>6. Shown'
  BY <1>1, <1>2, <1>4 DEF IInv, TypeOK, Shown, Gone
<1>7. Fired' /\ Answered'
  BY <1>1, <1>2, <1>5 DEF IInv, Fired, Answered, Gone
<1>8. QED
  BY <1>3, <1>6, <1>7 DEF IInv

\* The answer arrives: what it has lost is acted on, unless it was before.
LEMMA ActiveReturnsKeeps ==
  ASSUME IInv, ActiveReturns
  PROVE  IInv'
<1> DEFINE gone == (displayed \ active.jobs) \ handoffDone
<1>1. /\ active.at = "answered" /\ active' = Idle /\ snapshot' = active.jobs
      /\ fired' = [j \in Jobs |-> IF j \in gone THEN fired[j] + 1 ELSE fired[j]]
      /\ IF gone = {} THEN UNCHANGED history ELSE BeginHistory
      /\ UNCHANGED <<cluster, frozen, target, historyShown, cancel>>
  BY DEF ActiveReturns
<1>2. IF frozen
      THEN /\ renderPending' = TRUE /\ UNCHANGED displayed
           /\ handoffDone' = handoffDone \cup gone
      ELSE displayed' = active.jobs /\ renderPending' = FALSE /\ handoffDone' = gone
  BY DEF ActiveReturns, Render
<1>3. /\ active.jobs \subseteq Jobs /\ active' \in Calls /\ active'.at # "answered"
      /\ history' \in Calls
  BY <1>1 DEF IInv, TypeOK, Calls, Idle, Asked, BeginHistory
<1>4. \A j \in gone : j \in Jobs /\ Gone(j) /\ fired[j] = 0
  BY <1>1 DEF IInv, TypeOK, Shown, Fired
<1>5. TypeOK'
  <2>1. fired' \in [Jobs -> Nat]
    BY <1>1 DEF IInv, TypeOK
  <2>2. snapshot' \subseteq Jobs /\ displayed' \subseteq Jobs /\ handoffDone' \subseteq Jobs
    BY <1>1, <1>2, <1>3, <1>4 DEF IInv, TypeOK
  <2>3. renderPending' \in BOOLEAN
    BY <1>2
  <2>4. QED
    BY <1>1, <1>3, <2>1, <2>2, <2>3 DEF IInv, TypeOK
<1>6. TableFollows' /\ TargetOnScreen'
  BY <1>1, <1>2 DEF IInv, TableFollows, TargetOnScreen
<1>7. Shown'
  BY <1>1, <1>2, <1>3 DEF IInv, Shown, Answered
<1>8. \A j \in Jobs : fired'[j] = IF j \in gone THEN 1 ELSE fired[j]
  BY <1>1, <1>4
<1>9. Fired'
  <2>1. SUFFICES ASSUME NEW j \in Jobs
                 PROVE  \/ fired'[j] = 0 /\ j \notin handoffDone'
                        \/ /\ fired'[j] = 1 /\ Gone(j) /\ j \notin snapshot'
                           /\ j \in displayed' => j \in handoffDone'
    BY <1>1, <1>3 DEF Fired, Gone
  <2>2. CASE j \in gone
    BY <1>1, <1>2, <1>4, <1>8, <2>2
  <2>3. CASE j \notin gone
    BY <1>1, <1>2, <1>8, <2>3 DEF IInv, Fired
  <2>4. QED
    BY <2>2, <2>3
<1>10. Answered'
  BY <1>3 DEF Answered
<1>11. NotMissed'
  <2>1. SUFFICES ASSUME NEW j \in displayed' \ snapshot'
                 PROVE  fired'[j] = 1
    BY DEF NotMissed
  <2>2. frozen /\ j \in displayed /\ j \notin active.jobs /\ j \in Jobs
    BY <1>1, <1>2 DEF IInv, TypeOK
  <2>3. CASE j \in handoffDone
    BY <1>8, <2>2, <2>3 DEF IInv, Fired
  <2>4. CASE j \notin handoffDone
    BY <1>8, <2>2, <2>4
  <2>5. QED
    BY <2>3, <2>4
<1>12. QED
  BY <1>5, <1>6, <1>7, <1>9, <1>10, <1>11 DEF IInv

LEMMA ActiveKeeps ==
  ASSUME IInv, ActiveRuns
  PROVE  IInv'
<1>1. CASE RefreshActive \/ ActiveFails
  BY <1>1, ActiveAsksKeeps DEF RefreshActive, ActiveFails, IInv, TypeOK
<1>2. QED
  BY <1>1, ServeActiveKeeps, ActiveReturnsKeeps DEF ActiveRuns

-----------------------------------------------------------------------------
(* The dialog and the cancellations                                         *)

LEMMA OpenDialogKeeps ==
  ASSUME IInv, NEW j \in Jobs, OpenDialog(j)
  PROVE  IInv'
  BY DEF OpenDialog, IInv, TypeOK, TableFollows, TargetOnScreen, Shown, Fired, Answered,
     NotMissed, Gone

\* The table catches up with the snapshot, which has no job that was acted on.
LEMMA CloseDialogKeeps ==
  ASSUME IInv, NEW w \in Cancellers, NEW b \in BOOLEAN, CloseDialog(w, b)
  PROVE  IInv'
<1>1. /\ frozen /\ target' = None /\ frozen' = FALSE
      /\ UNCHANGED <<cluster, snapshot, active, history, historyShown, fired>>
  BY DEF CloseDialog
<1>2. IF renderPending
      THEN displayed' = snapshot /\ renderPending' = FALSE /\ handoffDone' = {}
      ELSE UNCHANGED <<displayed, handoffDone, renderPending>>
  BY DEF CloseDialog, Render
<1>3. cancel' \in [Cancellers -> [at : {"idle", "ready", "asked", "done"}, job : Jobs \cup {None}]]
  BY DEF CloseDialog, IInv, TypeOK
<1>4. displayed' = snapshot
  BY <1>2 DEF IInv, TableFollows
<1>5. TypeOK'
  BY <1>1, <1>2, <1>3 DEF IInv, TypeOK
<1>6. TableFollows' /\ TargetOnScreen' /\ NotMissed'
  BY <1>1, <1>4 DEF TableFollows, TargetOnScreen, NotMissed
<1>7. Shown' /\ Answered'
  BY <1>1, <1>4 DEF IInv, Shown, Answered, Gone
<1>8. Fired'
  BY <1>1, <1>2 DEF IInv, Fired, Gone
<1>9. QED
  BY <1>5, <1>6, <1>7, <1>8 DEF IInv

\* A worker of perform_cancel; it may end a job and ask for a refresh.
LEMMA CancelKeeps ==
  ASSUME IInv, NEW w \in Cancellers,
         CancelStarts(w) \/ CancelServed(w) \/ CancelReturns(w) \/ CancelFails(w)
  PROVE  IInv'
<1>1. UNCHANGED <<snapshot, displayed, handoffDone, frozen, renderPending, target>>
  BY DEF CancelStarts, CancelServed, CancelReturns, CancelFails, table
<1>2. UNCHANGED <<history, historyShown, fired>>
  BY DEF CancelStarts, CancelServed, CancelReturns, CancelFails
<1>3. cancel' \in [Cancellers -> [at : {"idle", "ready", "asked", "done"}, job : Jobs \cup {None}]]
  <2>1. PICK p \in {"idle", "asked", "done"} : cancel' = [cancel EXCEPT ![w].at = p]
    BY DEF CancelStarts, CancelServed, CancelReturns, CancelFails, CancelAt
  <2>2. QED
    BY <2>1 DEF IInv, TypeOK
<1>4. /\ cluster' \in [Jobs -> {"absent", "active", "over", "stored"}]
      /\ \A k \in Jobs : /\ cluster[k] # "absent" => cluster'[k] # "absent"
                         /\ Gone(k) => Gone(k)'
  <2>1. cluster' = cluster \/ \E j \in Live : cluster' = [cluster EXCEPT ![j] = "over"]
    BY DEF CancelStarts, CancelServed, CancelReturns, CancelFails
  <2>2. QED
    BY <2>1 DEF IInv, TypeOK, Gone, Live
<1>5. active' = active \/ active' = Asked
  BY DEF CancelStarts, CancelServed, CancelReturns, CancelFails
<1>6. active' \in Calls /\ (active'.at = "answered" => active' = active)
  BY <1>5 DEF Calls, Asked, IInv, TypeOK
<1>7. TypeOK' /\ TableFollows' /\ TargetOnScreen' /\ NotMissed'
  BY <1>1, <1>2, <1>3, <1>4, <1>6 DEF IInv, TypeOK, TableFollows, TargetOnScreen, NotMissed
<1>8. Shown'
  BY <1>1, <1>4, <1>6 DEF IInv, TypeOK, Shown
<1>9. Fired'
  BY <1>1, <1>2, <1>4, <1>6 DEF IInv, Fired
<1>10. Answered'
  BY <1>4, <1>6 DEF IInv, TypeOK, Answered, Calls
<1>11. QED
  BY <1>7, <1>8, <1>9, <1>10 DEF IInv

-----------------------------------------------------------------------------
LEMMA NextKeeps ==
  ASSUME IInv, [Next]_vars
  PROVE  IInv'
<1>1. CASE UNCHANGED vars
  BY <1>1 DEF vars, table, IInv, TypeOK, TableFollows, TargetOnScreen, Shown, Fired, Answered,
     NotMissed, Gone
<1>2. CASE Slurm
  BY <1>2, ClusterKeeps DEF Slurm, Submit, Finish, Store
<1>3. CASE HistoryRuns \/ ActiveRuns
  BY <1>3, HistoryKeeps, ActiveKeeps
<1>4. CASE \E j \in Jobs : OpenDialog(j)
  BY <1>4, OpenDialogKeeps
<1>5. ASSUME NEW w \in Cancellers, CancelRuns(w)
      PROVE  IInv'
  BY <1>5, CloseDialogKeeps, CancelKeeps DEF CancelRuns
<1>6. QED
  BY <1>1, <1>2, <1>3, <1>4, <1>5 DEF Next

LEMMA Invariance == Spec => []IInv
<1>1. Init => IInv
  BY InitIInv
<1>2. IInv /\ [Next]_vars => IInv'
  BY NextKeeps
<1>3. QED
  BY <1>1, <1>2, PTL DEF Spec

-----------------------------------------------------------------------------
(* Theorems                                                                 *)

\* The attributes of the application keep to their types (app.py:88-108).
THEOREM Typing == Spec => []TypeOK
<1>1. IInv => TypeOK
  BY DEF IInv
<1>2. QED
  BY <1>1, Invariance, PTL

\* The table is the latest snapshot, or the dialog is open and a render is
\* pending (app.py:267-270, 472-477).
THEOREM TableDoesFollow == Spec => []TableFollows
<1>1. IInv => TableFollows
  BY DEF IInv
<1>2. QED
  BY <1>1, Invariance, PTL

\* The job the dialog asks about is on the screen (app.py:469).
THEOREM TargetStays == Spec => []TargetOnScreen
<1>1. IInv => TargetOnScreen
  BY DEF IInv
<1>2. QED
  BY <1>1, Invariance, PTL

\* A job that a step takes off the table has been handed over, in that step if
\* not before.
LEMMA LeavesActedOn ==
  ASSUME IInv, [Next]_vars, NEW j \in displayed \ displayed'
  PROVE  fired'[j] = 1
<1>1. j \in Jobs
  BY DEF IInv, TypeOK
<1>2. CASE ActiveReturns
  <2> DEFINE gone == (displayed \ active.jobs) \ handoffDone
  <2>1. /\ active.at = "answered"
        /\ fired' = [k \in Jobs |-> IF k \in gone THEN fired[k] + 1 ELSE fired[k]]
    BY <1>2 DEF ActiveReturns
  <2>2. ~frozen /\ displayed' = active.jobs
    BY <1>2 DEF ActiveReturns, Render
  <2>3. CASE j \in handoffDone
    BY <1>1, <2>1, <2>3 DEF IInv, Fired
  <2>4. CASE j \notin handoffDone
    <3>1. j \in gone
      BY <2>2, <2>4
    <3>2. fired[j] = 0
      BY <1>1, <2>1, <2>2, <2>4 DEF IInv, Shown, Fired
    <3>3. QED
      BY <1>1, <2>1, <3>1, <3>2
  <2>5. QED
    BY <2>3, <2>4
<1>3. ASSUME NEW w \in Cancellers, NEW b \in BOOLEAN, CloseDialog(w, b)
      PROVE  fired'[j] = 1
  <2>1. displayed' = snapshot /\ fired' = fired
    BY <1>3 DEF CloseDialog, Render
  <2>2. QED
    BY <2>1 DEF IInv, NotMissed
<1>4. CASE Slurm \/ HistoryRuns \/ RefreshActive \/ ServeActive \/ ActiveFails
  BY <1>4 DEF Slurm, Submit, Finish, Store, Becomes, HistoryRuns, RefreshHistory, ServeHistory,
     HistoryReturns, HistoryFails, RefreshActive, ServeActive, ActiveFails, table
<1>5. CASE \E k \in Jobs : OpenDialog(k)
  BY <1>5 DEF OpenDialog
<1>6. ASSUME NEW w \in Cancellers,
             CancelStarts(w) \/ CancelServed(w) \/ CancelReturns(w) \/ CancelFails(w)
      PROVE  FALSE
  BY <1>6 DEF CancelStarts, CancelServed, CancelReturns, CancelFails, table
<1>7. CASE UNCHANGED vars
  BY <1>7 DEF vars, table
<1>8. QED
  BY <1>2, <1>3, <1>4, <1>5, <1>6, <1>7 DEF Next, ActiveRuns, CancelRuns

\* Every disappearance is handed to History once, however refreshes, dialogs and
\* cancellations interleave, and before the job has left the table
\* (app.py:249-250, 266, 275, 282).
THEOREM HandedOff == Spec => HandedOffOnce
<1> DEFINE Once ==
      \A j \in Jobs :
        /\ fired[j] <= 1
        /\ j \in displayed /\ j \notin snapshot => j \in handoffDone /\ fired[j] = 1
<1>1. IInv => Once
  <2>1. SUFFICES ASSUME IInv, NEW j \in Jobs
                 PROVE  /\ fired[j] <= 1
                        /\ j \in displayed /\ j \notin snapshot => j \in handoffDone /\ fired[j] = 1
    OBVIOUS
  <2>2. \/ fired[j] = 0
        \/ fired[j] = 1 /\ (j \in displayed => j \in handoffDone)
    BY <2>1 DEF IInv, Fired
  <2>3. j \in displayed /\ j \notin snapshot => fired[j] = 1
    BY <2>1 DEF IInv, NotMissed
  <2>4. QED
    BY <2>2, <2>3
<1>2. IInv /\ [Next]_vars => [\A j \in displayed \ displayed' : fired'[j] = 1]_vars
  BY LeavesActedOn
<1>3. QED
  BY <1>1, <1>2, Invariance, PTL DEF Spec, HandedOffOnce
=============================================================================
