-------------------------- MODULE HistoryViewProofs --------------------------
(* What holds of the windows of the History tab for any jobs, any width and *)
(* any limit: TypeOK, OnceEach, Covers and RecentStays, from one inductive  *)
(* invariant that says exactly which jobs each list holds.                  *)
EXTENDS HistoryView, TLAPS

\* Where the first extension ended: the start of the window that was loaded
\* first.
First == oldest + loaded * Width

\* A record of a job was added to `older` exactly if it ended in a window that
\* was loaded, and once.
OlderExact ==
  \A j \in Jobs :
    older[j] = IF /\ oldest # None /\ end[j] # None
                  /\ oldest <= end[j] /\ end[j] < First
               THEN 1 ELSE 0

\* The default window: what is in `base`, and where it lies.
BaseExact ==
  IF oldest = None THEN base = {} /\ loaded = 0
  ELSE /\ base = Ended(window.since, window.until)
       /\ window.since \in Times /\ window.until \in Times
       /\ First <= window.since /\ window.since <= clock - Width /\ window.until <= clock

\* A refresh under way moves the default window on, never back.
RefreshOK ==
  refresh.at # "idle" =>
    /\ refresh.since <= clock - Width
    /\ oldest # None => window.since <= refresh.since
    /\ refresh.at = "answered" =>
         /\ refresh.jobs = Ended(refresh.since, refresh.until) /\ refresh.until <= clock
         /\ oldest # None => window.until <= refresh.until

\* An extension under way is for the window before the oldest.
ExtendOK ==
  extend.at # "idle" =>
    /\ oldest # None /\ extend.until = oldest /\ extend.since = oldest - Width
    /\ extend.at = "answered" => extend.jobs = Ended(extend.since, extend.until)

\* What the message line tells is where the oldest window starts.
ClaimOK == claim # None => oldest # None /\ claim = oldest

IInv ==
  TypeOK /\ OlderExact /\ BaseExact /\ RefreshOK /\ ExtendOK /\ ClaimOK

-----------------------------------------------------------------------------
(* Windows                                                                  *)

\* One more window moves the start of the oldest back by its width, and leaves
\* the end of the first extension where it was (app.py:341-349).
LEMMA OneMoreWindow ==
  ASSUME NEW o \in Int, NEW n \in Nat
  PROVE  (o - Width) + (n + 1) * Width = o + n * Width
<1>1. Width \in Int /\ n \in Int
  BY WidthAssumption
<1>2. (n + 1) * Width = n * Width + Width
  BY <1>1
<1>3. n * Width \in Int
  BY <1>1
<1>4. QED
  BY <1>1, <1>2, <1>3

\* Times are integers, and so is where the first extension ended.
LEMMA TimesAreInt ==
  ASSUME TypeOK
  PROVE  /\ Times \subseteq Int /\ clock \in Nat /\ clock <= MaxTime
         /\ oldest # None => oldest \in Int /\ First \in Int /\ oldest <= First
<1>1. Times \subseteq Int /\ clock \in Nat /\ clock <= MaxTime
  BY WidthAssumption DEF TypeOK, Times
<1>2. ASSUME oldest # None
      PROVE  oldest \in Int /\ First \in Int /\ oldest <= First
  <2>1. oldest \in Int /\ loaded \in Nat /\ Width \in Nat
    BY <1>1, <1>2, WidthAssumption DEF TypeOK
  <2>2. loaded * Width \in Nat
    BY <2>1
  <2>3. QED
    BY <2>1, <2>2 DEF First
<1>3. QED
  BY <1>1, <1>2

\* What ended before now does not change when a job ends or time passes.
LEMMA PastStays ==
  ASSUME TypeOK, NEW from \in Int, NEW to \in Int, to <= clock,
         \/ \E j \in Jobs : Finish(j)
         \/ UNCHANGED end
  PROVE  Ended(from, to)' = Ended(from, to)
<1>1. CASE UNCHANGED end
  BY <1>1 DEF Ended
<1>2. ASSUME NEW j \in Jobs, Finish(j)
      PROVE  Ended(from, to)' = Ended(from, to)
  <2>1. end[j] = None /\ end' = [end EXCEPT ![j] = clock] /\ clock \in Int
    BY <1>2, TimesAreInt DEF Finish
  <2>2. \A k \in Jobs : end'[k] = IF k = j THEN clock ELSE end[k]
    BY <2>1 DEF TypeOK
  <2>3. ~(clock < to)
    BY <2>1
  <2>4. \A k \in Jobs : (end'[k] # None /\ from <= end'[k] /\ end'[k] < to)
                        <=> (end[k] # None /\ from <= end[k] /\ end[k] < to)
    BY <2>1, <2>2, <2>3
  <2>5. QED
    BY <2>4 DEF Ended
<1>3. QED
  BY <1>1, <1>2

-----------------------------------------------------------------------------
(* The actions                                                              *)

LEMMA InitIInv ==
  ASSUME Init
  PROVE  IInv
<1>1. TypeOK
  <2>1. 0 \in Times /\ PastEnds \subseteq Int
    BY WidthAssumption, PastAssumption DEF Times
  <2>2. Idle \in Calls
    BY <2>1 DEF Idle, Calls
  <2>3. clock \in 0..MaxTime
    BY WidthAssumption DEF Init
  <2>4. QED
    BY <2>1, <2>2, <2>3 DEF Init, TypeOK
<1>2. QED
  BY <1>1 DEF Init, IInv, OlderExact, BaseExact, RefreshOK, ExtendOK, ClaimOK, Idle

\* Time passes and jobs end behind every window that was asked for.
LEMMA ClusterKeeps ==
  ASSUME IInv, Tick \/ \E j \in Jobs : Finish(j)
  PROVE  IInv'
<1>1. /\ UNCHANGED <<base, older, oldest, loaded, window, refresh, extend>>
      /\ claim' = None /\ clock <= clock' /\ clock' \in 0..MaxTime
  BY TimesAreInt, WidthAssumption DEF IInv, TypeOK, Tick, Finish, shown
<1>2. end' \in [Jobs -> Int \cup {None}]
  BY TimesAreInt DEF IInv, TypeOK, Tick, Finish
<1>3. TypeOK'
  BY <1>1, <1>2 DEF IInv, TypeOK
<1>4. \A from, to \in Int : to <= clock => Ended(from, to)' = Ended(from, to)
  BY PastStays DEF IInv, Tick
<1>5. Times \subseteq Int /\ clock \in Int /\ clock' \in Int /\ Width \in Nat \ {0}
  BY <1>1, TimesAreInt, WidthAssumption DEF IInv
<1>6. First' = First
  BY <1>1 DEF First
<1>7. OlderExact'
  <2>1. CASE oldest = None
    BY <1>1, <2>1 DEF IInv, OlderExact
  <2>2. CASE oldest # None
    <3>1. oldest \in Int /\ First \in Int /\ First <= clock
      <4>1. First <= window.since /\ window.since <= clock - Width /\ window.since \in Int
        BY <1>5, <2>2 DEF IInv, BaseExact
      <4>2. oldest \in Int /\ First \in Int
        BY <2>2, TimesAreInt DEF IInv
      <4>3. QED
        BY <1>5, <4>1, <4>2
    <3>2. Ended(oldest, First)' = Ended(oldest, First)
      <4>1. PICK o \in Int, f \in Int : o = oldest /\ f = First
        BY <3>1
      <4>2. Ended(o, f)' = Ended(o, f)
        BY <1>4, <3>1, <4>1
      <4>3. QED
        BY <1>1, <1>6, <4>1, <4>2 DEF Ended
    <3>3. \A j \in Jobs : older[j] = IF j \in Ended(oldest, First) THEN 1 ELSE 0
      BY <2>2 DEF IInv, OlderExact, Ended
    <3>4. \A j \in Jobs : older'[j] = IF j \in Ended(oldest, First)' THEN 1 ELSE 0
      BY <1>1, <3>2, <3>3
    <3>5. QED
      BY <1>1, <2>2, <3>4 DEF OlderExact, Ended
  <2>3. QED
    BY <2>1, <2>2
<1>8. BaseExact'
  <2>1. CASE oldest = None
    BY <1>1, <2>1 DEF IInv, BaseExact
  <2>2. CASE oldest # None
    <3>1. /\ window.since \in Int /\ window.until \in Int /\ window.until <= clock
          /\ base = Ended(window.since, window.until)
      BY <1>5, <2>2 DEF IInv, BaseExact
    <3>2. Ended(window.since, window.until)' = Ended(window.since, window.until)
      <4>1. PICK s \in Int, u \in Int : s = window.since /\ u = window.until
        BY <3>1
      <4>2. Ended(s, u)' = Ended(s, u)
        BY <1>4, <3>1, <4>1
      <4>3. QED
        BY <1>1, <4>1, <4>2 DEF Ended
    <3>3. First \in Int
      BY <2>2, TimesAreInt DEF IInv
    <3>4. QED
      BY <1>1, <1>5, <1>6, <2>2, <3>1, <3>2, <3>3 DEF IInv, BaseExact
  <2>3. QED
    BY <2>1, <2>2
<1>9. RefreshOK'
  <2>1. SUFFICES ASSUME refresh.at # "idle"
                 PROVE  RefreshOK'
    BY <1>1 DEF RefreshOK
  <2>2. refresh.since \in Int /\ refresh.until \in Int
    BY <1>5 DEF IInv, TypeOK, Calls
  <2>3. refresh.at = "answered" =>
          Ended(refresh.since, refresh.until)' = Ended(refresh.since, refresh.until)
    <3>1. PICK s \in Int, u \in Int : s = refresh.since /\ u = refresh.until
      BY <2>2
    <3>2. u <= clock => Ended(s, u)' = Ended(s, u)
      BY <1>4
    <3>3. QED
      BY <1>1, <2>1, <3>1, <3>2 DEF IInv, RefreshOK, Ended
  <2>4. QED
    BY <1>1, <1>5, <2>1, <2>2, <2>3 DEF IInv, RefreshOK
<1>10. ExtendOK'
  <2>1. SUFFICES ASSUME extend.at # "idle"
                 PROVE  ExtendOK'
    BY <1>1 DEF ExtendOK
  <2>2. extend.since \in Int /\ extend.until \in Int /\ extend.until <= clock
    <3>1. extend.since \in Int /\ extend.until \in Int /\ extend.until = oldest /\ oldest # None
      BY <1>5, <2>1 DEF IInv, TypeOK, Calls, ExtendOK
    <3>2. First <= window.since /\ window.since <= clock - Width /\ window.since \in Int
      BY <1>5, <3>1 DEF IInv, BaseExact
    <3>3. First \in Int /\ oldest <= First
      BY <3>1, TimesAreInt DEF IInv
    <3>4. QED
      BY <1>5, <3>1, <3>2, <3>3
  <2>3. Ended(extend.since, extend.until)' = Ended(extend.since, extend.until)
    <3>1. PICK s \in Int, u \in Int : s = extend.since /\ u = extend.until
      BY <2>2
    <3>2. Ended(s, u)' = Ended(s, u)
      BY <1>4, <2>2, <3>1
    <3>3. QED
      BY <1>1, <3>1, <3>2 DEF Ended
  <2>4. QED
    BY <1>1, <2>1, <2>3 DEF IInv, ExtendOK
<1>11. QED
  BY <1>1, <1>3, <1>7, <1>8, <1>9, <1>10 DEF IInv, ClaimOK

LEMMA RefreshKeeps ==
  ASSUME IInv, RefreshBegins \/ RefreshServed \/ RefreshFails
  PROVE  IInv'
<1>1. /\ UNCHANGED <<clock, end, base, older, oldest, loaded, window, extend>>
      /\ claim' \in {claim, None}
  BY DEF RefreshBegins, RefreshServed, RefreshFails, shown
<1>2. Times \subseteq Int /\ clock \in 0..MaxTime /\ Width \in Nat \ {0} /\ MaxAge \in Nat
      /\ MaxTime \in Nat
  BY TimesAreInt, WidthAssumption DEF IInv, TypeOK
<1>3. 0 \in Times /\ clock \in Times /\ clock - Width \in Times
  BY <1>2 DEF Times
<1>4. refresh' \in Calls
  <2>1. CASE RefreshBegins
    BY <1>3, <2>1 DEF RefreshBegins, Query, Calls
  <2>2. CASE RefreshServed
    BY <1>3, <2>2 DEF RefreshServed, Calls, IInv, TypeOK, Ended
  <2>3. CASE RefreshFails
    BY <1>3, <2>3 DEF RefreshFails, Idle, Calls
  <2>4. QED
    BY <2>1, <2>2, <2>3
<1>5. TypeOK'
  BY <1>1, <1>4 DEF IInv, TypeOK
<1>6. OlderExact' /\ BaseExact' /\ ExtendOK' /\ ClaimOK'
  BY <1>1 DEF IInv, OlderExact, BaseExact, ExtendOK, ClaimOK, First, Ended
<1>7. RefreshOK'
  <2>1. CASE RefreshBegins
    <3>1. refresh' = Query(clock - Width, 0) /\ clock - Width \in Int
      BY <1>2, <2>1 DEF RefreshBegins
    <3>2. QED
      BY <1>1, <3>1 DEF IInv, RefreshOK, BaseExact, Query
  <2>2. CASE RefreshServed
    <3>1. /\ refresh.at = "asked" /\ refresh'.at = "answered" /\ refresh'.until = clock
          /\ refresh'.since = refresh.since /\ refresh'.jobs = Ended(refresh.since, clock)
      BY <2>2 DEF RefreshServed, IInv, TypeOK, Calls
    <3>2. refresh'.jobs = Ended(refresh.since, refresh.until)'
      BY <1>1, <3>1 DEF Ended
    <3>3. QED
      BY <1>1, <1>2, <3>1, <3>2 DEF IInv, RefreshOK, BaseExact
  <2>3. CASE RefreshFails
    BY <2>3 DEF RefreshFails, Idle, RefreshOK
  <2>4. QED
    BY <2>1, <2>2, <2>3
<1>8. QED
  BY <1>5, <1>6, <1>7 DEF IInv

\* The default window replaces the one that was shown; only the first one moves
\* the oldest (app.py:318-325).
LEMMA RefreshReturnsKeeps ==
  ASSUME IInv, RefreshReturns
  PROVE  IInv'
<1>1. /\ refresh.at = "answered" /\ refresh' = Idle
      /\ base' = refresh.jobs
      /\ window' = [since |-> refresh.since, until |-> refresh.until]
      /\ claim' = None
      /\ UNCHANGED <<clock, end, older, loaded, extend>>
  BY DEF RefreshReturns
<1>2. /\ Times \subseteq Int /\ clock \in Int /\ Width \in Nat \ {0}
      /\ MaxAge \in Nat /\ MaxTime \in Nat
  BY TimesAreInt, WidthAssumption DEF IInv
<1>3. /\ refresh.since \in Times /\ refresh.until \in Times /\ refresh.jobs \subseteq Jobs
      /\ refresh.since <= clock - Width /\ refresh.until <= clock
      /\ refresh.jobs = Ended(refresh.since, refresh.until)
  BY <1>1 DEF IInv, TypeOK, Calls, RefreshOK
<1>3a. refresh.since \in Int
  BY <1>2, <1>3
<1>4. Idle \in Calls
  BY <1>2 DEF Idle, Calls, Times
<1>5. oldest' = IF oldest = None THEN refresh.since ELSE oldest
  <2>1. ASSUME oldest # None
        PROVE  ~(oldest > refresh.since)
    <3>1. oldest \in Int /\ First \in Int /\ oldest <= First
      BY <2>1, TimesAreInt DEF IInv
    <3>2. First <= window.since /\ window.since <= refresh.since /\ window.since \in Int
      BY <1>1, <1>2, <2>1 DEF IInv, BaseExact, RefreshOK
    <3>3. QED
      BY <1>3a, <3>1, <3>2
  <2>2. QED
    BY <2>1 DEF RefreshReturns
<1>6. oldest' \in Times /\ oldest' # None
  BY <1>2, <1>3, <1>5, NoneAssumption DEF IInv, TypeOK
<1>7. TypeOK'
  BY <1>1, <1>3, <1>4, <1>6 DEF IInv, TypeOK
<1>8. base' = Ended(window.since, window.until)'
  BY <1>1, <1>3 DEF Ended
<1>9. First' <= refresh.since /\ (oldest = None => First' = oldest')
  <2>1. CASE oldest = None
    <3>1. loaded' = 0 /\ oldest' = refresh.since /\ oldest' \in Int
      BY <1>1, <1>2, <1>3, <1>5, <2>1 DEF IInv, BaseExact
    <3>2. oldest' + loaded' * Width = oldest'
      BY <1>2, <3>1
    <3>3. QED
      BY <1>2, <1>3, <3>1, <3>2 DEF First
  <2>2. CASE oldest # None
    <3>1. First' = First
      BY <1>1, <1>5, <2>2 DEF First
    <3>2. First \in Int /\ First <= window.since /\ window.since <= refresh.since
          /\ window.since \in Int
      BY <1>1, <1>2, <2>2, TimesAreInt DEF IInv, BaseExact, RefreshOK
    <3>3. QED
      BY <1>3a, <2>2, <3>1, <3>2
  <2>3. QED
    BY <2>1, <2>2
<1>10. BaseExact'
  BY <1>1, <1>3, <1>6, <1>8, <1>9 DEF BaseExact
<1>11. OlderExact'
  <2>1. CASE oldest = None
    <3>1. \A j \in Jobs : older'[j] = 0
      BY <1>1, <2>1 DEF IInv, OlderExact
    <3>2. First' = oldest' /\ oldest' \in Int
      BY <1>2, <1>6, <1>9, <2>1
    <3>3. \A j \in Jobs : end'[j] # None => ~(oldest' <= end'[j] /\ end'[j] < First')
      BY <1>7, <3>2 DEF TypeOK
    <3>4. QED
      BY <3>1, <3>3 DEF OlderExact
  <2>2. CASE oldest # None
    BY <1>1, <1>5, <2>2 DEF IInv, OlderExact, First
  <2>3. QED
    BY <2>1, <2>2
<1>12. RefreshOK' /\ ClaimOK'
  BY <1>1 DEF RefreshOK, ClaimOK, Idle
<1>13. ExtendOK'
  <2>1. SUFFICES ASSUME extend.at # "idle"
                 PROVE  ExtendOK'
    BY <1>1 DEF ExtendOK
  <2>2. oldest # None
    BY <2>1 DEF IInv, ExtendOK
  <2>3. QED
    BY <1>1, <1>5, <2>1, <2>2 DEF IInv, ExtendOK, Ended
<1>14. QED
  BY <1>7, <1>10, <1>11, <1>12, <1>13 DEF IInv

LEMMA ExtendKeeps ==
  ASSUME IInv, ExtendBegins \/ ExtendServed \/ ExtendFails
  PROVE  IInv'
<1>1. /\ UNCHANGED <<clock, end, base, older, oldest, loaded, window, refresh>>
      /\ claim' \in {claim, None}
  BY DEF ExtendBegins, ExtendServed, ExtendFails, shown
<1>2. /\ Times \subseteq Int /\ clock \in Nat /\ Width \in Nat \ {0}
      /\ MaxAge \in Nat /\ MaxTime \in Nat
  BY TimesAreInt, WidthAssumption DEF IInv
<1>3. extend' \in Calls
  <2>1. CASE ExtendBegins
    <3>1. oldest \in Times /\ clock - oldest <= MaxAge
      BY <2>1 DEF ExtendBegins, IInv, TypeOK
    <3>2. oldest - Width \in Times
      BY <1>2, <3>1 DEF Times
    <3>3. QED
      BY <2>1, <3>1, <3>2 DEF ExtendBegins, Query, Calls
  <2>2. CASE ExtendServed
    BY <2>2 DEF ExtendServed, Calls, IInv, TypeOK, Ended
  <2>3. CASE ExtendFails
    BY <1>2, <2>3 DEF ExtendFails, Idle, Calls, Times
  <2>4. QED
    BY <2>1, <2>2, <2>3
<1>4. TypeOK'
  BY <1>1, <1>3 DEF IInv, TypeOK
<1>5. OlderExact' /\ BaseExact' /\ RefreshOK' /\ ClaimOK'
  BY <1>1 DEF IInv, OlderExact, BaseExact, RefreshOK, ClaimOK, First, Ended
<1>6. ExtendOK'
  <2>1. CASE ExtendBegins
    BY <1>1, <2>1 DEF ExtendBegins, Query, ExtendOK
  <2>2. CASE ExtendServed
    <3>1. /\ extend.at = "asked" /\ extend'.at = "answered" /\ extend'.until = extend.until
          /\ extend'.since = extend.since /\ extend'.jobs = Ended(extend.since, extend.until)
      BY <2>2 DEF ExtendServed, IInv, TypeOK, Calls
    <3>2. extend'.jobs = Ended(extend.since, extend.until)'
      BY <1>1, <3>1 DEF Ended
    <3>3. QED
      BY <1>1, <3>1, <3>2 DEF IInv, ExtendOK
  <2>3. CASE ExtendFails
    BY <2>3 DEF ExtendFails, Idle, ExtendOK
  <2>4. QED
    BY <2>1, <2>2, <2>3
<1>7. QED
  BY <1>4, <1>5, <1>6 DEF IInv

\* What an extension adds ended before every window that was loaded, so it adds
\* no job twice (app.py:341-349).
LEMMA ExtendReturnsKeeps ==
  ASSUME IInv, ExtendReturns
  PROVE  IInv'
<1>1. /\ extend.at = "answered" /\ extend' = Idle
      /\ oldest' = extend.since /\ loaded' = loaded + 1
      /\ older' = [j \in Jobs |-> IF j \in extend.jobs THEN older[j] + 1 ELSE older[j]]
      /\ claim' \in {None, oldest'}
      /\ UNCHANGED <<clock, end, base, window, refresh>>
  BY DEF ExtendReturns
<1>2. /\ Times \subseteq Int /\ clock \in Int /\ Width \in Nat \ {0}
      /\ MaxAge \in Nat /\ MaxTime \in Nat
  BY TimesAreInt, WidthAssumption DEF IInv
<1>3. /\ oldest # None /\ extend.until = oldest /\ extend.since = oldest - Width
      /\ extend.since \in Times /\ extend.jobs = Ended(oldest - Width, oldest)
  BY <1>1 DEF IInv, ExtendOK, TypeOK, Calls
<1>4. oldest \in Int /\ First \in Int /\ oldest <= First /\ loaded \in Nat
  BY <1>3, TimesAreInt DEF IInv, TypeOK
<1>5. First' = First
  BY <1>1, <1>3, <1>4, OneMoreWindow DEF First
<1>6. TypeOK'
  <2>1. Idle \in Calls
    BY <1>2 DEF Idle, Calls, Times
  <2>2. older' \in [Jobs -> Nat]
    BY <1>1 DEF IInv, TypeOK
  <2>3. oldest' \in Times /\ loaded' \in Nat /\ claim' \in Times \cup {None}
    BY <1>1, <1>3, <1>4
  <2>4. QED
    BY <1>1, <2>1, <2>2, <2>3 DEF IInv, TypeOK
<1>7. oldest' = oldest - Width /\ oldest' # None
  BY <1>1, <1>2, <1>3, NoneAssumption
<1>8. OlderExact'
  <2>1. SUFFICES ASSUME NEW j \in Jobs
                 PROVE  older'[j] = IF /\ end[j] # None
                                       /\ oldest' <= end[j] /\ end[j] < First
                                    THEN 1 ELSE 0
    BY <1>1, <1>5, <1>7 DEF OlderExact
  <2>2. older[j] = IF /\ end[j] # None /\ oldest <= end[j] /\ end[j] < First
                   THEN 1 ELSE 0
    BY <1>3 DEF IInv, OlderExact
  <2>3. older'[j] = IF j \in extend.jobs THEN older[j] + 1 ELSE older[j]
    BY <1>1
  <2>4. j \in extend.jobs <=> end[j] # None /\ oldest - Width <= end[j] /\ end[j] < oldest
    BY <1>3 DEF Ended
  <2>5. end[j] \in Int \cup {None}
    BY DEF IInv, TypeOK
  <2>6. QED
    BY <1>2, <1>4, <1>7, <2>2, <2>3, <2>4, <2>5
<1>9. BaseExact'
  BY <1>1, <1>3, <1>5, <1>7 DEF IInv, BaseExact, Ended
<1>10. RefreshOK' /\ ExtendOK' /\ ClaimOK'
  BY <1>1, <1>3, <1>7 DEF IInv, RefreshOK, ExtendOK, ClaimOK, Idle, Ended
<1>11. QED
  BY <1>6, <1>8, <1>9, <1>10 DEF IInv

LEMMA Invariance == Spec => []IInv
<1>1. Init => IInv
  BY InitIInv
<1>2. IInv /\ [Next]_vars => IInv'
  <2>1. ASSUME IInv, UNCHANGED vars
        PROVE  IInv'
    BY <2>1 DEF vars, shown, IInv, TypeOK, OlderExact, BaseExact, RefreshOK, ExtendOK, ClaimOK,
       First, Ended
  <2>2. QED
    BY <2>1, ClusterKeeps, RefreshKeeps, RefreshReturnsKeeps, ExtendKeeps, ExtendReturnsKeeps
    DEF Next
<1>3. QED
  BY <1>1, <1>2, PTL DEF Spec

-----------------------------------------------------------------------------
(* Theorems                                                                 *)

\* The attributes keep to their kinds, and the windows reach no further back
\* than the limit allows (app.py:96-100, 337).
THEOREM Typing == Spec => []TypeOK
<1>1. IInv => TypeOK
  BY DEF IInv
<1>2. QED
  BY <1>1, Invariance, PTL

\* No job has two rows and the extensions leave no gap, however refreshes and
\* extensions overlap (queries.py:192-193, app.py:341-349).
THEOREM NoneTwice == Spec => []OnceEach
<1>1. IInv => OnceEach
  <2>1. SUFFICES ASSUME IInv, NEW j \in Jobs
                 PROVE  /\ older[j] + (IF j \in base THEN 1 ELSE 0) <= 1
                        /\ oldest # None /\ end[j] # None =>
                             (oldest <= end[j] /\ end[j] < First => older[j] = 1)
    BY DEF OnceEach, First
  <2>2. older[j] = IF /\ oldest # None /\ end[j] # None
                      /\ oldest <= end[j] /\ end[j] < First
                   THEN 1 ELSE 0
    BY <2>1 DEF IInv, OlderExact
  <2>3. ASSUME j \in base, older[j] = 1
        PROVE  FALSE
    <3>1. oldest # None /\ end[j] # None /\ end[j] < First
      BY <2>2, <2>3
    <3>2. window.since <= end[j] /\ First <= window.since /\ window.since \in Int
      BY <2>1, <2>3, <3>1, TimesAreInt DEF IInv, BaseExact, Ended
    <3>3. end[j] \in Int /\ First \in Int
      BY <2>1, <3>1, TimesAreInt DEF IInv, TypeOK
    <3>4. QED
      BY <3>1, <3>2, <3>3
  <2>4. QED
    BY <2>2, <2>3
<1>2. QED
  BY <1>1, Invariance, PTL

\* "history now covers N days" (app.py:352) tells the truth as long as the
\* default window starts where the first extension ends.
THEOREM ClaimIsTrue == Spec => []Covers
<1>1. IInv => Covers
  <2>1. SUFFICES ASSUME IInv, claim # None, window.since <= oldest + loaded * Width,
                        NEW j \in Ended(claim, window.until)
                 PROVE  j \in base \/ older[j] > 0
    BY DEF Covers
  <2>2. oldest # None /\ claim = oldest
    BY <2>1 DEF IInv, ClaimOK
  <2>3. /\ j \in Jobs /\ end[j] # None /\ end[j] \in Int
        /\ oldest <= end[j] /\ end[j] < window.until
    BY <2>1, <2>2 DEF Ended, IInv, TypeOK
  <2>4. /\ oldest \in Int /\ First \in Int /\ window.since \in Int /\ window.since <= First
        /\ base = Ended(window.since, window.until)
    BY <2>1, <2>2, TimesAreInt DEF IInv, BaseExact, First
  <2>5. CASE end[j] < First
    <3>1. older[j] = 1
      BY <2>1, <2>2, <2>3, <2>5 DEF IInv, OlderExact
    <3>2. QED
      BY <3>1
  <2>6. CASE ~(end[j] < First)
    <3>1. window.since <= end[j]
      BY <2>3, <2>4, <2>6
    <3>2. QED
      BY <2>3, <2>4, <3>1 DEF Ended
  <2>7. QED
    BY <2>5, <2>6
<1>2. QED
  BY <1>1, Invariance, PTL

\* A row whose job is still in the default window does not go away (app.py:318-325):
\* a refresh starts no later than that window and ends no earlier than the one shown.
THEOREM RecentRowsStay == Spec => RecentStays
<1>1. ASSUME IInv, [Next]_vars, NEW j \in base, end[j] >= clock - Width
      PROVE  j \in base'
  <2>1. CASE RefreshReturns
    <3>1. oldest # None /\ base = Ended(window.since, window.until)
      BY <1>1 DEF IInv, BaseExact
    <3>2. j \in Jobs /\ end[j] # None /\ end[j] \in Int /\ end[j] < window.until
      BY <1>1, <3>1 DEF Ended, IInv, TypeOK
    <3>3. /\ refresh.at = "answered" /\ base' = refresh.jobs
          /\ refresh.jobs = Ended(refresh.since, refresh.until)
          /\ refresh.since <= clock - Width /\ window.until <= refresh.until
      BY <1>1, <2>1, <3>1 DEF RefreshReturns, IInv, RefreshOK
    <3>4. /\ refresh.since \in Int /\ refresh.until \in Int /\ window.until \in Int
          /\ clock \in Int /\ Width \in Int
      BY <1>1, <3>1, TimesAreInt, WidthAssumption DEF IInv, TypeOK, Calls, BaseExact
    <3>5. refresh.since <= end[j] /\ end[j] < refresh.until
      BY <1>1, <3>2, <3>3, <3>4
    <3>6. QED
      BY <3>2, <3>3, <3>5 DEF Ended
  <2>2. CASE ~RefreshReturns
    <3>1. base' = base
      BY <1>1, <2>2 DEF Next, vars, shown, Tick, Finish, RefreshBegins, RefreshServed, RefreshFails,
         ExtendBegins, ExtendServed, ExtendReturns, ExtendFails
    <3>2. QED
      BY <1>1, <3>1
  <2>3. QED
    BY <2>1, <2>2
<1>2. IInv /\ [Next]_vars => [\A j \in base : end[j] >= clock - Width => j \in base']_vars
  BY <1>1
<1>3. QED
  BY <1>2, Invariance, PTL DEF Spec, RecentStays
=============================================================================
