---------------------------- MODULE HistoryView ----------------------------
(* The windows of the History tab (tui/app.py:309-370) over the half-open   *)
(* history query of core/queries.py:191-207.  The default window is queried *)
(* again and again and ends now; windows before it are loaded once, when    *)
(* the cursor reaches the last row.  Time is counted in ticks.              *)
EXTENDS Integers

CONSTANTS
  Jobs,
  PastEnds,   \* when jobs may have ended before the application started, at 0
  Width,      \* the width of a window: settings.history.window_days
  MaxAge,     \* MAX_HISTORY_DAYS
  MaxTime,    \* bound on the clock
  None

ASSUME WidthAssumption == Width \in Nat \ {0} /\ MaxAge \in Nat /\ MaxTime \in Nat
ASSUME PastAssumption == \A t \in PastEnds : t \in Int /\ t < 0
ASSUME NoneAssumption == None \notin Int

VARIABLES
  clock,
  end,      \* the end time of each job, or None
  base,     \* self.history_base
  older,    \* self.history_older: how many records of each job
  oldest,   \* self.history_oldest
  refresh,  \* the refresh_history in flight
  extend,   \* the extend_history in flight
  loaded,   \* how many windows have been added to the first
  window,   \* the window `base` was loaded for
  claim     \* the start of the coverage the message line tells of, or None

shown == <<base, older, oldest, loaded, window>>
vars == <<clock, end, shown, refresh, extend, claim>>

Idle == [at |-> "idle", since |-> 0, until |-> 0, jobs |-> {}]
Query(from, to) == [at |-> "asked", since |-> from, until |-> to, jobs |-> {}]

Init ==
  /\ clock = 0
  /\ end \in [Jobs -> PastEnds \cup {None}]
  /\ base = {} /\ older = [j \in Jobs |-> 0] /\ oldest = None
  /\ refresh = Idle /\ extend = Idle
  /\ loaded = 0 /\ window = None /\ claim = None

-----------------------------------------------------------------------------
Tick ==
  /\ clock < MaxTime /\ clock' = clock + 1
  /\ claim' = None
  /\ UNCHANGED <<end, shown, refresh, extend>>

Finish(j) ==
  /\ end[j] = None /\ end' = [end EXCEPT ![j] = clock]
  /\ claim' = None
  /\ UNCHANGED <<clock, shown, refresh, extend>>

\* history_jobs: the jobs that ended in a window, its end excluded.
Ended(from, to) == {j \in Jobs : end[j] # None /\ from <= end[j] /\ end[j] < to}

-----------------------------------------------------------------------------
(* refresh_history                                                          *)

RefreshBegins ==
  /\ refresh.at = "idle"
  /\ refresh' = Query(clock - Width, 0)
  /\ UNCHANGED <<clock, end, shown, extend, claim>>

\* The agent takes its own clock for the end of the window.
RefreshServed ==
  /\ refresh.at = "asked"
  /\ refresh' = [refresh EXCEPT !.at = "answered", !.until = clock,
                                !.jobs = Ended(refresh.since, clock)]
  /\ UNCHANGED <<clock, end, shown, extend, claim>>

RefreshReturns ==
  /\ refresh.at = "answered" /\ refresh' = Idle
  /\ base' = refresh.jobs
  /\ window' = [since |-> refresh.since, until |-> refresh.until]
  /\ oldest' = IF oldest = None \/ oldest > refresh.since THEN refresh.since ELSE oldest
  /\ claim' = None
  /\ UNCHANGED <<clock, end, older, loaded, extend>>

\* Mutant: a failed refresh empties the table.
RefreshFails_Clears ==
  /\ refresh.at # "idle" /\ refresh' = Idle
  /\ claim' = None /\ base' = {}
  /\ UNCHANGED <<clock, end, older, oldest, loaded, window, extend>>

RefreshFails ==
  /\ refresh.at # "idle" /\ refresh' = Idle
  /\ claim' = None
  /\ UNCHANGED <<clock, end, shown, extend>>

-----------------------------------------------------------------------------
(* extend_history                                                           *)

\* Mutant: a gap of a tick is left before the window already loaded.
ExtendBegins_Gap ==
  /\ extend.at = "idle" /\ oldest # None
  /\ clock - oldest <= MaxAge
  /\ extend' = Query(oldest - Width, oldest - 1)
  /\ UNCHANGED <<clock, end, shown, refresh, claim>>

\* Mutant: extensions go back without limit.
ExtendBegins_NoLimit ==
  /\ extend.at = "idle" /\ oldest # None
  /\ extend' = Query(oldest - Width, oldest)
  /\ UNCHANGED <<clock, end, shown, refresh, claim>>

ExtendBegins ==
  /\ extend.at = "idle" /\ oldest # None
  /\ clock - oldest <= MaxAge
  /\ extend' = Query(oldest - Width, oldest)
  /\ UNCHANGED <<clock, end, shown, refresh, claim>>

ExtendServed ==
  /\ extend.at = "asked"
  /\ extend' = [extend EXCEPT !.at = "answered", !.jobs = Ended(extend.since, extend.until)]
  /\ UNCHANGED <<clock, end, shown, refresh, claim>>

\* The message tells how far back the table reaches only when the window had
\* jobs in it.
ExtendReturns ==
  /\ extend.at = "answered" /\ extend' = Idle
  /\ oldest' = extend.since /\ loaded' = loaded + 1
  /\ older' = [j \in Jobs |-> IF j \in extend.jobs THEN older[j] + 1 ELSE older[j]]
  /\ claim' = IF extend.jobs = {} THEN None ELSE extend.since
  /\ UNCHANGED <<clock, end, base, window, refresh>>

\* Mutant: the window is counted as loaded even if the query failed.
ExtendFails_Counts ==
  /\ extend.at # "idle" /\ extend' = Idle
  /\ oldest' = extend.since /\ loaded' = loaded + 1 /\ claim' = None
  /\ UNCHANGED <<clock, end, base, older, window, refresh>>

ExtendFails ==
  /\ extend.at # "idle" /\ extend' = Idle
  /\ claim' = None
  /\ UNCHANGED <<clock, end, shown, refresh>>

-----------------------------------------------------------------------------
Next ==
  \/ Tick \/ \E j \in Jobs : Finish(j)
  \/ RefreshBegins \/ RefreshServed \/ RefreshReturns \/ RefreshFails
  \/ ExtendBegins \/ ExtendServed \/ ExtendReturns \/ ExtendFails

Spec == Init /\ [][Next]_vars
-----------------------------------------------------------------------------
(* Properties                                                               *)

Times == -(MaxTime + MaxAge + 2 * Width)..MaxTime
Calls == [at : {"idle", "asked", "answered"}, since : Times, until : Times, jobs : SUBSET Jobs]

\* The attributes of the application have values of their kinds (app.py:96-100);
\* the windows never reach further back than the limit allows (app.py:337).
TypeOK ==
  /\ clock \in 0..MaxTime /\ end \in [Jobs -> Int \cup {None}]
  /\ base \subseteq Jobs /\ older \in [Jobs -> Nat] /\ oldest \in Times \cup {None}
  /\ refresh \in Calls /\ extend \in Calls /\ loaded \in Nat
  /\ window \in [since : Times, until : Times] \cup {None} /\ claim \in Times \cup {None}

\* "half-open, so adjacent windows do not repeat a job" (queries.py:192-193): no
\* job has two rows, however refreshes and extensions overlap in time; and the
\* extensions leave no gap between them: every job that ended between the oldest
\* window and the first extension is in the table (app.py:341-349).
OnceEach ==
  \A j \in Jobs :
    /\ older[j] + (IF j \in base THEN 1 ELSE 0) <= 1
    /\ oldest # None /\ end[j] # None =>
         (oldest <= end[j] /\ end[j] < oldest + loaded * Width => older[j] = 1)

\* A row whose job is still in the default window does not go away, whether
\* refreshes succeed, fail or overlap (app.py:318-325).
RecentStays ==
  [][\A j \in base : end[j] >= clock - Width => j \in base']_vars

\* "history now covers N days" (app.py:352): when that is said, every job that
\* ended in those days and before the last refresh is in the table, as long as
\* the default window still starts where the first extension ends.
Covers ==
  claim # None /\ window.since <= oldest + loaded * Width =>
    \A j \in Ended(claim, window.until) : j \in base \/ older[j] > 0
=============================================================================
