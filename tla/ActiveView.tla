----------------------------- MODULE ActiveView -----------------------------
(* The Active tab of tui/app.py: refreshes by timer, key and callback, the  *)
(* dialog that freezes the table, cancellation, and the handoff of finished *)
(* jobs to the History tab.  A step is what one coroutine of the            *)
(* application does between two awaits, or a move of the cluster.           *)
EXTENDS Naturals, FiniteSets

CONSTANTS
  Jobs,        \* plain jobs of the user
  Cancellers,  \* workers that run perform_cancel
  None

ASSUME NoneAssumption == None \notin Jobs

VARIABLES
  cluster,        \* what each job is to Slurm
  snapshot,       \* self.active_snapshot, by id
  displayed,      \* self.displayed_ids
  handoffDone,    \* self._handoff_done
  frozen,         \* self.frozen: the confirmation is open
  renderPending,  \* self._render_pending
  target,         \* self.pending_target
  active,         \* the one refresh_active past its in-flight check
  history,        \* the one refresh_history past its in-flight check
  historyShown,   \* self.history_base
  cancel,         \* where each worker is in perform_cancel, and its target
  fired           \* how often the disappearance of each job was acted on

table == <<snapshot, displayed, handoffDone, frozen, renderPending, target>>
vars == <<cluster, table, active, history, historyShown, cancel, fired>>

Idle == [at |-> "idle", jobs |-> {}]
Asked == [at |-> "asked", jobs |-> {}]
Answer(js) == [at |-> "answered", jobs |-> js]
Live == {j \in Jobs : cluster[j] = "active"}
Stored == {j \in Jobs : cluster[j] = "stored"}

Init ==
  /\ cluster \in [Jobs -> {"absent", "active", "stored"}]
  /\ snapshot = {} /\ displayed = {} /\ handoffDone = {}
  /\ frozen = FALSE /\ renderPending = FALSE /\ target = None
  /\ active = Idle /\ history = Idle /\ historyShown = {}
  /\ cancel = [w \in Cancellers |-> [at |-> "idle", job |-> None]]
  /\ fired = [j \in Jobs |-> 0]

-----------------------------------------------------------------------------
(* The cluster: a job runs, is over, and is stored by slurmdbd some time    *)
(* later (queries.py:291).                                                  *)

Becomes(j, from, to) ==
  /\ cluster[j] = from /\ cluster' = [cluster EXCEPT ![j] = to]
  /\ UNCHANGED <<table, active, history, historyShown, cancel, fired>>

Submit(j) == Becomes(j, "absent", "active")
Finish(j) == Becomes(j, "active", "over")
Store(j) == Becomes(j, "over", "stored")

-----------------------------------------------------------------------------
(* refresh_history, without its windows (module HistoryView has them).      *)

\* One begun while another is in flight returns at once.
BeginHistory == history' = IF history.at = "idle" THEN Asked ELSE history

RefreshHistory ==
  /\ history.at = "idle" /\ BeginHistory
  /\ UNCHANGED <<cluster, table, active, historyShown, cancel, fired>>

ServeHistory ==
  /\ history.at = "asked" /\ history' = Answer(Stored)
  /\ UNCHANGED <<cluster, table, active, historyShown, cancel, fired>>

HistoryReturns ==
  /\ history.at = "answered"
  /\ historyShown' = history.jobs /\ history' = Idle
  /\ UNCHANGED <<cluster, table, active, cancel, fired>>

\* Mutant: a failed refresh does not clear the in-flight flag.
HistoryFails_StaysInflight ==
  /\ history.at = "asked" /\ history' = [history EXCEPT !.at = "stuck"]
  /\ UNCHANGED <<cluster, table, active, historyShown, cancel, fired>>

HistoryFails ==
  /\ history.at \in {"asked", "answered"} /\ history' = Idle
  /\ UNCHANGED <<cluster, table, active, historyShown, cancel, fired>>

-----------------------------------------------------------------------------
(* refresh_active                                                           *)

RefreshActive ==
  /\ active.at = "idle" /\ active' = Asked
  /\ UNCHANGED <<cluster, table, history, historyShown, cancel, fired>>

ServeActive ==
  /\ active.at = "asked" /\ active' = Answer(Live)
  /\ UNCHANGED <<cluster, table, history, historyShown, cancel, fired>>

\* _render_active
Render(js) == displayed' = js /\ renderPending' = FALSE

\* Mutants: the dialog does not hold the table; a handoff is not remembered; what
\* is gone is computed after the table was rendered.
ActiveReturns_Renders ==
  /\ active.at = "answered" /\ active' = Idle
  /\ snapshot' = active.jobs
  /\ LET gone == (displayed \ active.jobs) \ handoffDone
     IN /\ Render(active.jobs) /\ handoffDone' = gone
        /\ fired' = [j \in Jobs |-> IF j \in gone THEN fired[j] + 1 ELSE fired[j]]
        /\ IF gone = {} THEN UNCHANGED history ELSE BeginHistory
  /\ UNCHANGED <<cluster, frozen, target, historyShown, cancel>>

ActiveReturns_Forgets ==
  /\ active.at = "answered" /\ active' = Idle
  /\ snapshot' = active.jobs
  /\ LET gone == displayed \ active.jobs
     IN /\ IF frozen THEN renderPending' = TRUE /\ UNCHANGED displayed ELSE Render(active.jobs)
        /\ handoffDone' = {}
        /\ fired' = [j \in Jobs |-> IF j \in gone /\ fired[j] < 2 THEN fired[j] + 1 ELSE fired[j]]
        /\ IF gone = {} THEN UNCHANGED history ELSE BeginHistory
  /\ UNCHANGED <<cluster, frozen, target, historyShown, cancel>>

ActiveReturns_RendersFirst ==
  /\ active.at = "answered" /\ active' = Idle
  /\ snapshot' = active.jobs
  /\ LET gone == IF frozen THEN (displayed \ active.jobs) \ handoffDone ELSE {}
     IN /\ IF frozen
           THEN /\ renderPending' = TRUE /\ UNCHANGED displayed
                /\ handoffDone' = handoffDone \cup gone
           ELSE Render(active.jobs) /\ handoffDone' = gone
        /\ fired' = [j \in Jobs |-> IF j \in gone THEN fired[j] + 1 ELSE fired[j]]
        /\ IF gone = {} THEN UNCHANGED history ELSE BeginHistory
  /\ UNCHANGED <<cluster, frozen, target, historyShown, cancel>>

\* The answer replaces the snapshot; the table follows unless the dialog is
\* open; jobs that were displayed and are gone start a history refresh.
ActiveReturns ==
  /\ active.at = "answered" /\ active' = Idle
  /\ snapshot' = active.jobs
  /\ LET gone == (displayed \ active.jobs) \ handoffDone
     IN /\ IF frozen
           THEN /\ renderPending' = TRUE /\ UNCHANGED displayed
                /\ handoffDone' = handoffDone \cup gone
           ELSE Render(active.jobs) /\ handoffDone' = gone
        /\ fired' = [j \in Jobs |-> IF j \in gone THEN fired[j] + 1 ELSE fired[j]]
        /\ IF gone = {} THEN UNCHANGED history ELSE BeginHistory
  /\ UNCHANGED <<cluster, frozen, target, historyShown, cancel>>

ActiveFails ==
  /\ active.at \in {"asked", "answered"} /\ active' = Idle
  /\ UNCHANGED <<cluster, table, history, historyShown, cancel, fired>>

-----------------------------------------------------------------------------
(* The confirmation and perform_cancel                                      *)

\* action_cancel_job on the row of job j.
OpenDialog(j) ==
  /\ ~frozen /\ j \in displayed
  /\ \E w \in Cancellers : cancel[w].at = "idle"
  /\ target' = j /\ frozen' = TRUE
  /\ UNCHANGED <<cluster, snapshot, displayed, handoffDone, renderPending, active, history,
                 historyShown, cancel, fired>>

\* Mutant: closing the dialog does not render what came in meanwhile.
CloseDialog_NoRender(w, confirmed) ==
  /\ frozen /\ cancel[w].at = "idle"
  /\ target' = None /\ frozen' = FALSE
  /\ cancel' = IF confirmed THEN [cancel EXCEPT ![w] = [at |-> "ready", job |-> target]] ELSE cancel
  /\ UNCHANGED <<cluster, snapshot, displayed, handoffDone, renderPending, active, history,
                 historyShown, fired>>

\* _confirm_done: w is the worker created when the user said yes.
CloseDialog(w, confirmed) ==
  /\ frozen /\ cancel[w].at = "idle"
  /\ target' = None /\ frozen' = FALSE
  /\ IF renderPending THEN Render(snapshot) /\ handoffDone' = {}
     ELSE UNCHANGED <<displayed, handoffDone, renderPending>>
  /\ cancel' = IF confirmed THEN [cancel EXCEPT ![w] = [at |-> "ready", job |-> target]] ELSE cancel
  /\ UNCHANGED <<cluster, snapshot, active, history, historyShown, fired>>

CancelAt(w, p) == cancel' = [cancel EXCEPT ![w].at = p]

\* target_is_cancellable, against the latest snapshot.
CancelStarts(w) ==
  /\ cancel[w].at = "ready"
  /\ CancelAt(w, IF cancel[w].job \in snapshot THEN "asked" ELSE "idle")
  /\ UNCHANGED <<cluster, table, active, history, historyShown, fired>>

\* The agent kills a job that is still active and refuses otherwise.
CancelServed(w) ==
  /\ cancel[w].at = "asked"
  /\ IF cancel[w].job \in Live
     THEN /\ cluster' = [cluster EXCEPT ![cancel[w].job] = "over"]
          /\ CancelAt(w, "done")
     ELSE CancelAt(w, "idle") /\ UNCHANGED cluster
  /\ UNCHANGED <<table, active, history, historyShown, fired>>

\* Only a cancel that worked is followed by a refresh, unless one is in flight.
CancelReturns(w) ==
  /\ cancel[w].at = "done" /\ CancelAt(w, "idle")
  /\ active' = IF active.at = "idle" THEN Asked ELSE active
  /\ UNCHANGED <<cluster, table, history, historyShown, fired>>

\* The transport fails before or after the cancel took effect.
CancelFails(w) ==
  /\ cancel[w].at \in {"asked", "done"} /\ CancelAt(w, "idle")
  /\ UNCHANGED <<cluster, table, active, history, historyShown, fired>>

-----------------------------------------------------------------------------
Slurm == \E j \in Jobs : Submit(j) \/ Finish(j) \/ Store(j)
HistoryRuns == RefreshHistory \/ ServeHistory \/ HistoryReturns \/ HistoryFails
ActiveRuns == RefreshActive \/ ServeActive \/ ActiveReturns \/ ActiveFails
CancelRuns(w) ==
  \/ \E b \in BOOLEAN : CloseDialog(w, b)
  \/ CancelStarts(w) \/ CancelServed(w) \/ CancelReturns(w) \/ CancelFails(w)

Next ==
  \/ Slurm \/ HistoryRuns \/ ActiveRuns
  \/ \E j \in Jobs : OpenDialog(j)
  \/ \E w \in Cancellers : CancelRuns(w)

Spec == Init /\ [][Next]_vars

\* The timers tick (app.py:160-165), every call returns, and a query asked
\* again and again is answered: the session recovers (ClientSession, Recovers).
FairSpec ==
  /\ Spec
  /\ WF_vars(HistoryRuns) /\ WF_vars(ActiveRuns)
  /\ WF_vars(RefreshHistory) /\ SF_vars(ServeHistory) /\ SF_vars(HistoryReturns)
-----------------------------------------------------------------------------
(* Properties                                                               *)

Calls == [at : {"idle", "asked", "answered"}, jobs : SUBSET Jobs]

\* The attributes of the application have values of their kinds (app.py:88-108).
TypeOK ==
  /\ cluster \in [Jobs -> {"absent", "active", "over", "stored"}]
  /\ snapshot \subseteq Jobs /\ displayed \subseteq Jobs /\ handoffDone \subseteq Jobs
  /\ frozen \in BOOLEAN /\ renderPending \in BOOLEAN /\ target \in Jobs \cup {None}
  /\ active \in Calls /\ history \in Calls /\ historyShown \subseteq Jobs
  /\ cancel \in [Cancellers -> [at : {"idle", "ready", "asked", "done"}, job : Jobs \cup {None}]]
  /\ fired \in [Jobs -> Nat]

\* The table shows the latest snapshot, except under the dialog, and then the
\* application remembers that it has to catch up (app.py:267-270, 472-477).
TableFollows == snapshot # displayed => frozen /\ renderPending

\* The job the dialog asks about stays on the screen while it is open, whatever
\* refreshes bring in (app.py:469): the user confirms what is displayed.
TargetOnScreen == frozen => target \in displayed

\* A disappearance is handed to History exactly once, in every interleaving of
\* refreshes with the dialog (app.py:249-250, 266, 275, 282): never twice; at once
\* while the table still shows a job that the snapshot has lost; and no job leaves
\* the table unless it has been handed over.
HandedOffOnce ==
  /\ []\A j \in Jobs :
       /\ fired[j] <= 1
       /\ j \in displayed /\ j \notin snapshot => j \in handoffDone /\ fired[j] = 1
  /\ [][\A j \in displayed \ displayed' : fired'[j] = 1]_vars

\* A finished job shows up in History, whatever refreshes fail or are skipped
\* on the way (app.py:312-331).
Arrives == \A j \in Jobs : cluster[j] = "stored" ~> j \in historyShown
=============================================================================
