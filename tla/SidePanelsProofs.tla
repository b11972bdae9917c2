-------------------------- MODULE SidePanelsProofs --------------------------
(* What holds of the selection and the side panels for any jobs and any     *)
(* number of queries under way: TypeOK, DetailFollows and UsageFollows,     *)
(* which are inductive together with Asks.                                  *)
EXTENDS SidePanels, TLAPS

\* A query under way is about a job.
Asks == \A w \in Workers : calls[w].at # "idle" => calls[w].job \in Jobs

TablesOK ==
  /\ phase \in [Jobs -> {"pending", "running", "over"}]
  /\ listed \in [Jobs -> {"no", "pending", "running"}] /\ finished \subseteq Jobs
  /\ tab \in Tabs /\ cursor \in [Tabs -> Jobs \cup {None}]

Calls ==
  [at : {"idle", "asked", "answered"}, what : {"detail", "usage"}, job : Jobs \cup {None}]

PanelsOK ==
  /\ selected \in Jobs \cup {None} /\ running \in BOOLEAN
  /\ usage \in Jobs \cup {None}
  /\ detailPanel \in Jobs \cup {None, Unavailable}
  /\ usagePanel \in Jobs \cup {None, Unavailable}
  /\ calls \in [Workers -> Calls]

Follow == PanelsOK /\ Asks /\ DetailFollows /\ UsageFollows

IInv == TablesOK /\ Follow

-----------------------------------------------------------------------------
(* What the parts of a step do to the panels                                *)

\* Follow speaks of the panels and the queries alone.
LEMMA FollowStutters ==
  ASSUME Follow, UNCHANGED <<selected, running, panels, calls>>
  PROVE  Follow'
BY DEF Follow, PanelsOK, Asks, DetailFollows, UsageFollows, UnderWay, panels

\* _sync_selection: what is shown of another job waits for a detail that is on
\* its way (app.py:399-416).
LEMMA SyncFollows ==
  ASSUME Follow, NEW row \in Jobs \cup {None}, NEW run \in BOOLEAN, Sync(row, run)
  PROVE  Follow'
<1>0. selected' = row /\ running' = run
  BY DEF Sync
<1>1. CASE row = selected
  BY <1>0, <1>1 DEF Sync, Follow, PanelsOK, Asks, DetailFollows, UsageFollows, UnderWay, panels
<1>2. CASE row # selected /\ row = None
  BY <1>0, <1>2, NamesAssumption
  DEF Sync, Follow, PanelsOK, Asks, DetailFollows, UsageFollows, UnderWay
<1>3. CASE row # selected /\ row # None
  <2>1. PICK w \in Workers : calls[w] = Idle /\ calls' = [calls EXCEPT ![w] = Asked("detail", row)]
    BY <1>3 DEF Sync
  <2>2. usage' = None /\ detailPanel' = detailPanel /\ usagePanel' = usagePanel /\ row \in Jobs
    BY <1>3 DEF Sync
  <2>3. Asked("detail", row) \in Calls
    BY <2>2 DEF Asked, Calls
  <2>4. PanelsOK'
    BY <1>0, <2>1, <2>2, <2>3 DEF Follow, PanelsOK
  <2>5. calls'[w] = Asked("detail", row) /\ \A v \in Workers \ {w} : calls'[v] = calls[v]
    BY <2>1 DEF Follow, PanelsOK
  <2>6. Asks'
    BY <2>2, <2>5 DEF Follow, Asks, Asked
  <2>7. UnderWay({"detail"}, row)' /\ UnderWay({"detail", "usage"}, row)'
    BY <2>5 DEF UnderWay, Asked
  <2>8. DetailFollows' /\ UsageFollows'
    BY <1>0, <1>3, <2>2, <2>7 DEF DetailFollows, UsageFollows
  <2>9. QED
    BY <2>4, <2>6, <2>8 DEF Follow
<1>4. QED
  BY <1>1, <1>2, <1>3

\* Rendering or moving the cursor ends with _sync_selection.
LEMMA ShowKeeps ==
  ASSUME IInv, NEW t \in Tabs, NEW l \in [Jobs -> {"no", "pending", "running"}],
         NEW c \in [Tabs -> Jobs \cup {None}],
         Show(t, l, c), phase' = phase, finished' \subseteq Jobs
  PROVE  IInv'
<1>1. TablesOK'
  BY DEF IInv, TablesOK, Show
<1>2. Sync(c[t], t = "active" /\ c[t] # None /\ l[c[t]] = "running")
  BY DEF Show
<1>3. c[t] \in Jobs \cup {None}
  OBVIOUS
<1>4. (t = "active" /\ c[t] # None /\ l[c[t]] = "running") \in BOOLEAN
  OBVIOUS
<1>5. Follow'
  BY <1>2, <1>3, <1>4, SyncFollows DEF IInv
<1>6. QED
  BY <1>1, <1>5 DEF IInv

\* A worker that moves on leaves the queries of the others under way.
LEMMA OthersUnderWay ==
  ASSUME PanelsOK, NEW w \in Workers, NEW c \in Calls, Becomes(w, c)
  PROVE  /\ calls' \in [Workers -> Calls]
         /\ calls'[w] = c
         /\ \A v \in Workers \ {w} : calls'[v] = calls[v]
         /\ \A j, what : calls[w].job # j \/ calls[w].what \notin what =>
                           (UnderWay(what, j) => UnderWay(what, j)')
BY DEF PanelsOK, Becomes, UnderWay

-----------------------------------------------------------------------------
(* The actions                                                              *)

LEMMA InitIInv ==
  ASSUME Init
  PROVE  IInv
BY DEF Init, IInv, TablesOK, Follow, PanelsOK, Calls, Asks, DetailFollows, UsageFollows, Idle, Tabs

LEMMA TablesKeep ==
  ASSUME IInv,
         \/ \E j \in Jobs : Advance(j) \/ MoveCursor(j)
         \/ RenderActive \/ RenderHistory \/ SwitchTab
  PROVE  IInv'
<1>1. ASSUME NEW j \in Jobs, Advance(j)
      PROVE  IInv'
  <2>1. TablesOK'
    BY <1>1 DEF Advance, IInv, TablesOK
  <2>2. QED
    BY <1>1, <2>1, FollowStutters DEF Advance, IInv
<1>2. ASSUME NEW j \in Jobs, MoveCursor(j)
      PROVE  IInv'
  <2>1. [cursor EXCEPT ![tab] = j] \in [Tabs -> Jobs \cup {None}]
    BY DEF IInv, TablesOK
  <2>2. QED
    BY <1>2, <2>1, ShowKeeps DEF MoveCursor, IInv, TablesOK
<1>3. ASSUME RenderActive
      PROVE  IInv'
  <2> DEFINE l == [j \in Jobs |-> IF phase[j] = "over" THEN "no" ELSE phase[j]]
  <2>1. l \in [Jobs -> {"no", "pending", "running"}]
    BY DEF IInv, TablesOK
  <2>2. PICK r \in Restored("active", Rows("active", l, finished)) :
          Show(tab, l, [cursor EXCEPT !["active"] = r])
    BY <1>3 DEF RenderActive
  <2>3. r \in Jobs \cup {None}
    BY <2>2 DEF Restored, Rows, IInv, TablesOK, Tabs
  <2>4. [cursor EXCEPT !["active"] = r] \in [Tabs -> Jobs \cup {None}]
    BY <2>3 DEF IInv, TablesOK
  <2>5. tab \in Tabs /\ phase' = phase /\ finished' \subseteq Jobs
    BY <1>3 DEF RenderActive, IInv, TablesOK
  <2> HIDE DEF l
  <2>6. QED
    BY <2>1, <2>2, <2>4, <2>5, ShowKeeps
<1>4. ASSUME RenderHistory
      PROVE  IInv'
  <2> DEFINE f == {j \in Jobs : phase[j] = "over"}
  <2>1. PICK r \in Restored("history", f) : Show(tab, listed, [cursor EXCEPT !["history"] = r])
    BY <1>4 DEF RenderHistory
  <2>2. r \in Jobs \cup {None}
    BY <2>1 DEF Restored, IInv, TablesOK, Tabs
  <2>3. [cursor EXCEPT !["history"] = r] \in [Tabs -> Jobs \cup {None}]
    BY <2>2 DEF IInv, TablesOK
  <2>4. /\ tab \in Tabs /\ listed \in [Jobs -> {"no", "pending", "running"}]
        /\ phase' = phase /\ finished' \subseteq Jobs
    BY <1>4 DEF RenderHistory, IInv, TablesOK
  <2>5. QED
    BY <2>1, <2>3, <2>4, ShowKeeps
<1>5. ASSUME SwitchTab
      PROVE  IInv'
  <2>1. PICK t \in Tabs : t = CHOOSE u \in Tabs : u # tab
    BY DEF Tabs
  <2>2. Show(t, listed, cursor) /\ phase' = phase /\ finished' = finished
    BY <1>5, <2>1 DEF SwitchTab
  <2>3. QED
    BY <2>2, ShowKeeps DEF IInv, TablesOK
<1>6. QED
  BY <1>1, <1>2, <1>3, <1>4, <1>5

LEMMA AnswersKeep ==
  ASSUME IInv, NEW w \in Workers, Answers(w)
  PROVE  IInv'
<1>0. TablesOK'
  BY DEF IInv, TablesOK, Answers, Serve, DetailReturns, DetailFails, UsageReturns, UsageFails, tables
<1>1. PanelsOK /\ Asks /\ calls[w] \in Calls /\ Idle \in Calls
  BY DEF IInv, Follow, PanelsOK, Calls, Idle
<1>2. ASSUME Serve(w)
      PROVE  Follow'
  <2>1. [calls[w] EXCEPT !.at = "answered"] \in Calls
    BY <1>1 DEF Calls
  <2>2. /\ calls' \in [Workers -> Calls]
        /\ \A v \in Workers \ {w} : calls'[v] = calls[v]
        /\ calls[w].at = "asked" /\ calls'[w].at = "answered"
        /\ calls'[w].job = calls[w].job /\ calls'[w].what = calls[w].what
    BY <1>1, <1>2, <2>1, OthersUnderWay DEF Serve, Calls
  <2>3. UNCHANGED <<selected, running, usage, detailPanel, usagePanel>>
    BY <1>2 DEF Serve, panels
  <2>4. \A what, j : UnderWay(what, j) => UnderWay(what, j)'
    BY <2>2 DEF UnderWay
  <2>5. Asks'
    BY <1>1, <2>2 DEF Asks
  <2>6. QED
    BY <2>2, <2>3, <2>4, <2>5 DEF IInv, Follow, PanelsOK, DetailFollows, UsageFollows
<1>3. ASSUME DetailReturns(w)
      PROVE  Follow'
  <2>1. /\ calls[w].job \in Jobs /\ calls[w].what = "detail"
        /\ UNCHANGED <<selected, running, usage, usagePanel>>
    BY <1>1, <1>3 DEF DetailReturns, Asks
  <2>2. CASE selected # calls[w].job
    <3>1. Becomes(w, Idle) /\ detailPanel' = detailPanel
      BY <1>3, <2>2 DEF DetailReturns
    <3>2. /\ calls' \in [Workers -> Calls] /\ calls'[w] = Idle
          /\ \A v \in Workers \ {w} : calls'[v] = calls[v]
          /\ \A what : UnderWay(what, selected) => UnderWay(what, selected)'
      BY <1>1, <2>1, <2>2, <3>1, OthersUnderWay
    <3>3. Asks'
      BY <1>1, <3>2 DEF Asks, Idle
    <3>4. QED
      BY <2>1, <3>1, <3>2, <3>3 DEF IInv, Follow, PanelsOK, DetailFollows, UsageFollows, UnderWay
  <2>3. CASE selected = calls[w].job
    <3>1. Becomes(w, Asked("usage", selected)) /\ detailPanel' = selected
      BY <1>3, <2>3 DEF DetailReturns
    <3>2. Asked("usage", selected) \in Calls
      BY <2>1, <2>3 DEF Asked, Calls
    <3>3. /\ calls' \in [Workers -> Calls] /\ calls'[w] = Asked("usage", selected)
          /\ \A v \in Workers \ {w} : calls'[v] = calls[v]
      BY <1>1, <3>1, <3>2, OthersUnderWay
    <3>4. Asks'
      BY <1>1, <2>1, <2>3, <3>3 DEF Asks, Asked
    <3>5. UnderWay({"detail", "usage"}, selected)'
      BY <2>1, <3>3 DEF UnderWay, Asked
    <3>6. DetailFollows' /\ UsageFollows'
      BY <2>1, <2>3, <3>1, <3>5, NamesAssumption DEF IInv, Follow, DetailFollows, UsageFollows
    <3>7. QED
      BY <2>1, <2>3, <3>1, <3>3, <3>4, <3>6 DEF IInv, Follow, PanelsOK
  <2>4. QED
    BY <2>2, <2>3
<1>4. ASSUME DetailFails(w)
      PROVE  Follow'
  <2>1. /\ calls[w].job \in Jobs /\ Becomes(w, Idle)
        /\ UNCHANGED <<selected, running, usage, usagePanel>>
        /\ detailPanel' = IF selected = calls[w].job THEN Unavailable ELSE detailPanel
    BY <1>1, <1>4 DEF DetailFails, Asks
  <2>2. /\ calls' \in [Workers -> Calls] /\ calls'[w] = Idle
        /\ \A v \in Workers \ {w} : calls'[v] = calls[v]
        /\ \A what : selected # calls[w].job /\ UnderWay(what, selected) => UnderWay(what, selected)'
    BY <1>1, <2>1, OthersUnderWay
  <2>3. Asks'
    BY <1>1, <2>2 DEF Asks, Idle
  <2>4. DetailFollows' /\ UsageFollows'
    BY <2>1, <2>2, NamesAssumption DEF IInv, Follow, DetailFollows, UsageFollows, UnderWay
  <2>5. QED
    BY <2>1, <2>2, <2>3, <2>4 DEF IInv, Follow, PanelsOK
<1>5. ASSUME UsageReturns(w) \/ UsageFails(w)
      PROVE  Follow'
  <2>1. /\ calls[w].job \in Jobs /\ calls[w].what = "usage" /\ Becomes(w, Idle)
        /\ UNCHANGED <<selected, running, detailPanel>>
    BY <1>1, <1>5 DEF UsageReturns, UsageFails, Asks
  <2>2. \/ selected # calls[w].job /\ usage' = usage /\ usagePanel' = usagePanel
        \/ /\ selected = calls[w].job /\ usage' \in {usage, selected}
           /\ usagePanel' \in {selected, Unavailable}
    BY <1>5 DEF UsageReturns, UsageFails
  <2>3. /\ calls' \in [Workers -> Calls] /\ calls'[w] = Idle
        /\ \A v \in Workers \ {w} : calls'[v] = calls[v]
        /\ UnderWay({"detail"}, selected) => UnderWay({"detail"}, selected)'
        /\ selected # calls[w].job /\ UnderWay({"detail", "usage"}, selected) =>
             UnderWay({"detail", "usage"}, selected)'
    BY <1>1, <2>1, OthersUnderWay
  <2>4. Asks'
    BY <1>1, <2>3 DEF Asks, Idle
  <2>5. DetailFollows'
    BY <2>1, <2>2, <2>3, NamesAssumption DEF IInv, Follow, DetailFollows
  <2>6. UsageFollows'
    BY <2>1, <2>2, <2>3, NamesAssumption DEF IInv, Follow, UsageFollows
  <2>7. QED
    BY <2>1, <2>2, <2>3, <2>4, <2>5, <2>6 DEF IInv, Follow, PanelsOK
<1>6. QED
  BY <1>0, <1>2, <1>3, <1>4, <1>5 DEF Answers, IInv

LEMMA AsksKeep ==
  ASSUME IInv, NEW w \in Workers, PollUsage(w) \/ ForceUsage(w)
  PROVE  IInv'
<1>1. /\ selected \in Jobs /\ calls[w] = Idle /\ Becomes(w, Asked("usage", selected))
      /\ UNCHANGED <<phase, listed, finished, tab, cursor>>
      /\ UNCHANGED <<selected, running, usage, detailPanel, usagePanel>>
  BY DEF PollUsage, ForceUsage, Ask, IInv, Follow, PanelsOK, tables, panels
<1>2. Asked("usage", selected) \in Calls /\ PanelsOK
  BY <1>1 DEF Asked, Calls, IInv, Follow
<1>3. /\ calls' \in [Workers -> Calls] /\ calls'[w] = Asked("usage", selected)
      /\ \A v \in Workers \ {w} : calls'[v] = calls[v]
  BY <1>1, <1>2, OthersUnderWay
<1>4. \A what, j : UnderWay(what, j) => UnderWay(what, j)'
  BY <1>1, <1>3 DEF UnderWay, Idle
<1>5. Asks'
  BY <1>1, <1>3 DEF IInv, Follow, Asks, Asked
<1>6. DetailFollows' /\ UsageFollows'
  BY <1>1, <1>4 DEF IInv, Follow, DetailFollows, UsageFollows
<1>7. QED
  BY <1>1, <1>3, <1>5, <1>6 DEF IInv, TablesOK, Follow, PanelsOK

LEMMA Invariance == Spec => []IInv
<1>1. Init => IInv
  BY InitIInv
<1>2. IInv /\ [Next]_vars => IInv'
  <2>1. ASSUME IInv, UNCHANGED vars
        PROVE  IInv'
    BY <2>1, FollowStutters DEF IInv, TablesOK, vars, tables
  <2>2. QED
    BY <2>1, TablesKeep, AnswersKeep, AsksKeep DEF Next
<1>3. QED
  BY <1>1, <1>2, PTL DEF Spec

-----------------------------------------------------------------------------
(* Theorems                                                                 *)

\* The attributes and panels keep to their kinds (app.py:103-106).
THEOREM Typing == Spec => []TypeOK
<1>1. IInv => TypeOK
  BY DEF IInv, TablesOK, Follow, PanelsOK, Calls, TypeOK
<1>2. QED
  BY <1>1, Invariance, PTL

\* The detail panel shows the selected job, or a note about it, unless its
\* detail is on the way (app.py:408-423).
THEOREM DetailDoesFollow == Spec => []DetailFollows
<1>1. IInv => DetailFollows
  BY DEF IInv, Follow
<1>2. QED
  BY <1>1, Invariance, PTL

\* No figures of another job are held, and none are displayed for long, in
\* whatever order the queries answer (app.py:405-406, 439-442).
THEOREM UsageDoesFollow == Spec => []UsageFollows
<1>1. IInv => UsageFollows
  BY DEF IInv, Follow
<1>2. QED
  BY <1>1, Invariance, PTL
=============================================================================
