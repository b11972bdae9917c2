----------------------------- MODULE SidePanels -----------------------------
(* Selection and side panels of tui/app.py (377-443, 504-520): the panels   *)
(* follow the cursor of the tab that is shown, and their contents arrive    *)
(* from queries that are answered later, in any order, or fail.             *)
EXTENDS Naturals

CONSTANTS
  Jobs,        \* plain jobs, one row each
  Workers,     \* Textual workers: bounds the queries under way at once
  None,        \* no row; an empty panel
  Unavailable  \* the note a failed query leaves in a panel

ASSUME NamesAssumption == None \notin Jobs /\ Unavailable \notin Jobs /\ None # Unavailable

VARIABLES
  phase,        \* what each job is to Slurm
  listed,       \* what the Active table says of each job
  finished,     \* the rows of the History table
  tab,          \* the tab that is shown
  cursor,       \* the row under the cursor of each table
  selected,     \* self.selected_job_id
  running,      \* self.selected_running
  usage,        \* the job of the figures in self.usage, or None
  detailPanel,  \* the job whose detail is displayed
  usagePanel,   \* the job whose figures are displayed
  calls         \* load_detail and refresh_usage under way

tables == <<phase, listed, finished, tab, cursor>>
panels == <<usage, detailPanel, usagePanel>>
vars == <<tables, selected, running, panels, calls>>

Tabs == {"active", "history"}
Idle == [at |-> "idle", what |-> "usage", job |-> None]
Asked(q, j) == [at |-> "asked", what |-> q, job |-> j]
Rows(t, l, f) == IF t = "active" THEN {j \in Jobs : l[j] # "no"} ELSE f

Init ==
  /\ phase \in [Jobs -> {"pending", "running", "over"}]
  /\ listed = [j \in Jobs |-> "no"] /\ finished = {}
  /\ tab = "active" /\ cursor = [t \in Tabs |-> None]
  /\ selected = None /\ running = FALSE
  /\ usage = None /\ detailPanel = None /\ usagePanel = None
  /\ calls = [w \in Workers |-> Idle]

-----------------------------------------------------------------------------
\* A job starts or ends.
Advance(j) ==
  /\ \/ phase[j] = "pending" /\ phase' = [phase EXCEPT ![j] = "running"]
     \/ phase[j] # "over" /\ phase' = [phase EXCEPT ![j] = "over"]
  /\ UNCHANGED <<listed, finished, tab, cursor, selected, running, panels, calls>>

-----------------------------------------------------------------------------
(* _sync_selection, which every change of a table, of a cursor or of the    *)
(* tab ends with.                                                           *)

\* Mutant: what the panels show is kept until the new detail arrives.
Sync_KeepsUsage(row, run) ==
  /\ selected' = row /\ running' = run
  /\ IF row = selected THEN UNCHANGED <<panels, calls>>
     ELSE IF row = None
     THEN usage' = None /\ detailPanel' = None /\ usagePanel' = None /\ UNCHANGED calls
     ELSE /\ UNCHANGED panels
          /\ \E w \in Workers : calls[w] = Idle /\ calls' = [calls EXCEPT ![w] = Asked("detail", row)]

Sync(row, run) ==
  /\ selected' = row /\ running' = run
  /\ IF row = selected THEN UNCHANGED <<panels, calls>>
     ELSE /\ usage' = None
          /\ IF row = None
             THEN detailPanel' = None /\ usagePanel' = None /\ UNCHANGED calls
             ELSE /\ UNCHANGED <<detailPanel, usagePanel>>
                  /\ \E w \in Workers :
                       calls[w] = Idle /\ calls' = [calls EXCEPT ![w] = Asked("detail", row)]

\* _current_selection: only a row of Active may be running.
Show(t, l, c) ==
  /\ tab' = t /\ listed' = l /\ cursor' = c
  /\ Sync(c[t], t = "active" /\ c[t] # None /\ l[c[t]] = "running")

\* Rendering puts the cursor back on its row, or on the first one.
Restored(t, rows) ==
  IF cursor[t] \in rows THEN {cursor[t]} ELSE IF rows = {} THEN {None} ELSE rows

\* Mutant: terminal jobs that the controller still holds are listed.
RenderActive_Terminal ==
  /\ phase # listed
  /\ \E r \in Restored("active", Rows("active", phase, finished)) :
       Show(tab, phase, [cursor EXCEPT !["active"] = r])
  /\ UNCHANGED <<phase, finished>>

RenderActive ==
  LET l == [j \in Jobs |-> IF phase[j] = "over" THEN "no" ELSE phase[j]] IN
  /\ l # listed
  /\ \E r \in Restored("active", Rows("active", l, finished)) :
       Show(tab, l, [cursor EXCEPT !["active"] = r])
  /\ UNCHANGED <<phase, finished>>

RenderHistory ==
  LET f == {j \in Jobs : phase[j] = "over"} IN
  /\ f # finished /\ finished' = f
  /\ \E r \in Restored("history", f) : Show(tab, listed, [cursor EXCEPT !["history"] = r])
  /\ UNCHANGED phase

MoveCursor(j) ==
  /\ j \in Rows(tab, listed, finished)
  /\ Show(tab, listed, [cursor EXCEPT ![tab] = j])
  /\ UNCHANGED <<phase, finished>>

SwitchTab ==
  /\ Show(CHOOSE t \in Tabs : t # tab, listed, cursor)
  /\ UNCHANGED <<phase, finished>>

-----------------------------------------------------------------------------
(* load_detail and refresh_usage                                            *)

Becomes(w, c) == calls' = [calls EXCEPT ![w] = c]

Serve(w) ==
  /\ calls[w].at = "asked" /\ Becomes(w, [calls[w] EXCEPT !.at = "answered"])
  /\ UNCHANGED <<tables, selected, running, panels>>

\* Mutant: a detail that arrives late is shown.
DetailReturns_Late(w) ==
  /\ calls[w].at = "answered" /\ calls[w].what = "detail"
  /\ detailPanel' = calls[w].job
  /\ Becomes(w, IF selected = None THEN Idle ELSE Asked("usage", selected))
  /\ UNCHANGED <<tables, selected, running, usage, usagePanel>>

DetailReturns(w) ==
  /\ calls[w].at = "answered" /\ calls[w].what = "detail"
  /\ IF selected # calls[w].job THEN Becomes(w, Idle) /\ UNCHANGED detailPanel
     ELSE detailPanel' = calls[w].job /\ Becomes(w, Asked("usage", selected))
  /\ UNCHANGED <<tables, selected, running, usage, usagePanel>>

\* The figures are not asked for when the detail is not available.
DetailFails(w) ==
  /\ calls[w].at # "idle" /\ calls[w].what = "detail" /\ Becomes(w, Idle)
  /\ detailPanel' = IF selected = calls[w].job THEN Unavailable ELSE detailPanel
  /\ UNCHANGED <<tables, selected, running, usage, usagePanel>>

UsageReturns(w) ==
  /\ calls[w].at = "answered" /\ calls[w].what = "usage" /\ Becomes(w, Idle)
  /\ IF selected # calls[w].job THEN UNCHANGED <<usage, usagePanel>>
     ELSE usage' = calls[w].job /\ usagePanel' = calls[w].job
  /\ UNCHANGED <<tables, selected, running, detailPanel>>

UsageFails(w) ==
  /\ calls[w].at # "idle" /\ calls[w].what = "usage" /\ Becomes(w, Idle)
  /\ usagePanel' = IF selected = calls[w].job THEN Unavailable ELSE usagePanel
  /\ UNCHANGED <<tables, selected, running, usage, detailPanel>>

Ask(w) ==
  /\ selected # None /\ calls[w] = Idle /\ Becomes(w, Asked("usage", selected))
  /\ UNCHANGED <<tables, selected, running, panels>>

\* Mutant: the timer polls running jobs and no others.
PollUsage_OnlyRunning(w) == running /\ Ask(w)

\* The usage timer: a job that is not running is not polled again.
PollUsage(w) == (usage # None => running) /\ Ask(w)

\* The r key, and the return of the connection.
ForceUsage(w) == Ask(w)

-----------------------------------------------------------------------------
Answers(w) ==
  \/ Serve(w) \/ DetailReturns(w) \/ DetailFails(w) \/ UsageReturns(w) \/ UsageFails(w)

Next ==
  \/ \E j \in Jobs : Advance(j) \/ MoveCursor(j)
  \/ RenderActive \/ RenderHistory \/ SwitchTab
  \/ \E w \in Workers : Answers(w) \/ PollUsage(w) \/ ForceUsage(w)

Spec == Init /\ [][Next]_vars

\* Queries end, the timer ticks, and figures asked for again and again arrive.
FairSpec ==
  /\ Spec
  /\ \A w \in Workers : WF_vars(Answers(w)) /\ SF_vars(Serve(w)) /\ SF_vars(UsageReturns(w))
  /\ WF_vars(\E w \in Workers : PollUsage(w))
-----------------------------------------------------------------------------
(* Properties                                                               *)

\* The attributes and panels have values of their kinds (app.py:103-106).
TypeOK ==
  /\ phase \in [Jobs -> {"pending", "running", "over"}]
  /\ listed \in [Jobs -> {"no", "pending", "running"}] /\ finished \subseteq Jobs
  /\ tab \in Tabs /\ cursor \in [Tabs -> Jobs \cup {None}]
  /\ selected \in Jobs \cup {None} /\ running \in BOOLEAN
  /\ usage \in Jobs \cup {None}
  /\ detailPanel \in Jobs \cup {None, Unavailable}
  /\ usagePanel \in Jobs \cup {None, Unavailable}
  /\ calls \in [Workers -> [at : {"idle", "asked", "answered"}, what : {"detail", "usage"},
                            job : Jobs \cup {None}]]

UnderWay(what, j) ==
  \E w \in Workers : calls[w].at # "idle" /\ calls[w].job = j /\ calls[w].what \in what

\* The detail panel shows the selected job, or a note about it, unless its
\* detail is on the way (app.py:408-423).
DetailFollows ==
  /\ selected = None => detailPanel = None /\ usagePanel = None
  /\ selected # None =>
       detailPanel \in {selected, Unavailable} \/ UnderWay({"detail"}, selected)

\* The figures the application holds are those of the selected job, however
\* late an answer arrives (app.py:405-406, 439-442).  "the side panels follow it"
\* (tui/widgets/modals.py:41): figures of another job are displayed only while
\* those of the selected one are on the way, or when its detail could not be
\* loaded, after which nobody asks for them at once.
UsageFollows ==
  /\ usage # None => usage = selected
  /\ usagePanel \in Jobs /\ usagePanel # selected =>
       detailPanel = Unavailable \/ UnderWay({"detail", "usage"}, selected)

\* A job that stays selected gets figures, even when its detail failed
\* (app.py:429-431).
FiguresArrive == \A j \in Jobs : selected = j ~> selected # j \/ usage # None
=============================================================================
