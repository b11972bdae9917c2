---------------------------- MODULE SessionProofs ----------------------------
(* What holds of the session: with anyone calling reconnect_now and frames  *)
(* of another version (Typing, RetryInFlight); without them (OneOwner and a *)
(* single reconnect loop); as the TUI drives it (OneLink, NotRetried,       *)
(* ConnectedIsServed, StopLeavesNothingOpen); and of the application around *)
(* it, which is a refinement of it (BackOnlineIsFresh).                     *)
EXTENDS AppSession, SequenceTheorems, TLAPS

-----------------------------------------------------------------------------
(* Any session: types, and who retries                                      *)

\* Whoever is connecting or waiting has a transport, and a loop is cancelled by somebody
\* who waits for its end, or by stop().
Base ==
  /\ TypeOK
  /\ \A a \in Tasks : pc[a] \in {"connecting", "waiting"} => awaits[a] \in Links
  /\ \A l \in cancelled : Alive(l)
  /\ ~stopped => \A l \in cancelled : \E r \in Retriers : pc[r] = "cancelling" /\ awaits[r] = l
  /\ pc[Starter] = "idle" => ~stopped

\* Every handshake that arrives is one: start() raises nothing but
\* TransportErrors.
Understood == "malformed" \notin StartFailures

Retrying == Understood => RetryInFlight

\* No coroutine has two roles.
LEMMA AnyRoles ==
  /\ Connectors = {Starter} \cup Loops \cup Retriers
  /\ Tasks = {Starter, Stopper} \cup Loops \cup Retriers \cup Callers
  /\ Starter # Stopper /\ {Starter, Stopper} \cap (Callers \cup Loops \cup Retriers) = {}
  /\ Callers \cap (Loops \cup Retriers) = {} /\ Loops \cap (Retriers \cup Links) = {}
  /\ None \notin Links /\ None \notin Loops
  /\ StartFailures \subseteq Kinds \cup {"malformed"}
  /\ ExitKinds \subseteq {"transport", "auth", "bootstrap"}
BY RolesAssumption, StartFailuresAssumption, ExitKindsAssumption DEF Connectors, Tasks, Kinds

\* Before start().
LEMMA BaseStarts ==
  ASSUME Init
  PROVE  Base /\ Retrying
BY AnyRoles DEF Init, Base, Retrying, RetryInFlight, TypeOK, States, Kinds, LinkStatus, Places

\* A task that moves keeps the types.
LEMMA MovesKeeps ==
  ASSUME Base, NEW a \in Tasks, NEW p \in Places, NEW x \in Links \cup Loops \cup {None},
         Moves(a, p, x), p \in {"connecting", "waiting"} => x \in Links
  PROVE  /\ pc' \in [Tasks -> Places] /\ awaits' \in [Tasks -> Links \cup Loops \cup {None}]
         /\ \A b \in Tasks : pc'[b] \in {"connecting", "waiting"} => awaits'[b] \in Links
         /\ pc'[a] = p /\ awaits'[a] = x
         /\ \A b \in Tasks \ {a} : pc'[b] = pc[b] /\ awaits'[b] = awaits[b]
<1>1. pc \in [Tasks -> Places] /\ awaits \in [Tasks -> Links \cup Loops \cup {None}]
  BY DEF Base, TypeOK
<1>2. /\ pc'[a] = p /\ awaits'[a] = x
      /\ \A b \in Tasks \ {a} : pc'[b] = pc[b] /\ awaits'[b] = awaits[b]
  BY <1>1 DEF Moves
<1>3. pc' \in [Tasks -> Places] /\ awaits' \in [Tasks -> Links \cup Loops \cup {None}]
  BY <1>1 DEF Moves
<1>4. QED
  BY <1>2, <1>3 DEF Base

\* A step of a task that is no retrier and no loop: nobody else moves.
LEMMA OutsiderKeeps ==
  ASSUME Base, Retrying, TypeOK',
         NEW a \in Callers \cup {Starter, Stopper}, NEW p \in Places,
         NEW x \in Links \cup Loops \cup {None},
         Moves(a, p, x), p \in {"connecting", "waiting"} => x \in Links,
         state' = "reconnecting" => state = "reconnecting",
         ~stopped' => ~stopped, UNCHANGED cancelled,
         a = Starter => p # "idle", stopped' => stopped \/ pc[Starter] # "idle"
  PROVE  Base' /\ Retrying'
<1>1. a \in Tasks /\ a \notin Loops \cup Retriers /\ Loops \cup Retriers \subseteq Tasks /\ Starter \in Tasks
  BY AnyRoles
<1>2. /\ \A b \in Tasks : pc'[b] \in {"connecting", "waiting"} => awaits'[b] \in Links
      /\ \A b \in Loops \cup Retriers : pc'[b] = pc[b] /\ awaits'[b] = awaits[b]
  BY <1>1, MovesKeeps
<1>3. cancelled \subseteq Loops
  BY DEF Base, TypeOK
<1>4. pc'[Starter] = "idle" => pc[Starter] = "idle"
  BY <1>1, MovesKeeps
<1>5. Base'
  BY <1>2, <1>3, <1>4 DEF Base, Alive
<1>6. Retrying'
  BY <1>2 DEF Retrying, RetryInFlight, Alive
<1>7. QED
  BY <1>5, <1>6

\* A retrier or a loop that is not cancelled moves on.
LEMMA InsiderKeeps ==
  ASSUME Base, Retrying, TypeOK',
         NEW a \in Loops \cup Retriers, NEW p \in Places \ {"idle"},
         NEW x \in Links \cup Loops \cup {None},
         Moves(a, p, x), p \in {"connecting", "waiting"} => x \in Links,
         a \in Retriers => pc[a] # "cancelling" \/ pc[awaits[a]] = "idle",
         UNCHANGED <<stopped, cancelled>>
  PROVE  Base' /\ Retrying'
<1>1. a \in Tasks /\ Loops \cup Retriers \subseteq Tasks /\ Starter \in Tasks \ {a}
  BY AnyRoles
<1>2. /\ \A b \in Tasks : pc'[b] \in {"connecting", "waiting"} => awaits'[b] \in Links
      /\ pc'[a] = p /\ \A b \in Tasks \ {a} : pc'[b] = pc[b] /\ awaits'[b] = awaits[b]
  BY <1>1, MovesKeeps
<1>3. cancelled \subseteq Loops
  BY DEF Base, TypeOK
<1>4. \A l \in cancelled : Alive(l)'
  BY <1>1, <1>2, <1>3 DEF Base, Alive
<1>5. ASSUME ~stopped, NEW l \in cancelled
      PROVE  \E r \in Retriers : pc'[r] = "cancelling" /\ awaits'[r] = l
  <2>1. PICK r \in Retriers : pc[r] = "cancelling" /\ awaits[r] = l
    BY <1>5 DEF Base
  <2>2. Alive(l)
    BY DEF Base
  <2>3. r # a
    BY <2>1, <2>2 DEF Alive
  <2>4. QED
    BY <1>1, <1>2, <2>1, <2>3
<1>6. Base'
  BY <1>1, <1>2, <1>4, <1>5 DEF Base
<1>7. Retrying'
  BY <1>1, <1>2, AnyRoles DEF Retrying, RetryInFlight, Alive
<1>8. QED
  BY <1>6, <1>7

\* A retrier, or a loop that is not cancelled, ends: not in RECONNECTING.
LEMMA EndKeeps ==
  ASSUME Base, Retrying, TypeOK',
         NEW a \in Loops \cup Retriers, a \notin cancelled, Moves(a, "idle", None),
         a \in Retriers => pc[a] # "cancelling",
         stopped' \/ (Understood => state' # "reconnecting"),
         UNCHANGED <<stopped, cancelled>>
  PROVE  Base' /\ Retrying'
<1>1. a \in Tasks /\ Loops \cup Retriers \subseteq Tasks /\ "idle" \in Places /\ Starter \in Tasks \ {a}
  BY AnyRoles DEF Places
<1>2. /\ \A b \in Tasks : pc'[b] \in {"connecting", "waiting"} => awaits'[b] \in Links
      /\ \A b \in Tasks \ {a} : pc'[b] = pc[b] /\ awaits'[b] = awaits[b]
  BY <1>1, MovesKeeps
<1>3. cancelled \subseteq Loops
  BY DEF Base, TypeOK
<1>4. \A l \in cancelled : Alive(l)'
  BY <1>1, <1>2, <1>3 DEF Base, Alive
<1>5. ASSUME ~stopped, NEW l \in cancelled
      PROVE  \E r \in Retriers : pc'[r] = "cancelling" /\ awaits'[r] = l
  <2>1. PICK r \in Retriers : pc[r] = "cancelling" /\ awaits[r] = l
    BY <1>5 DEF Base
  <2>2. QED
    BY <1>1, <1>2, <2>1
<1>6. Base'
  BY <1>1, <1>2, <1>4, <1>5 DEF Base
<1>7. QED
  BY <1>6 DEF Retrying, RetryInFlight

\* A loop is created by a caller or a retrier that ends.
LEMMA SpawnKeeps ==
  ASSUME Base, Retrying, NEW a \in Callers \cup Retriers, Spawns(a), a \in Retriers => pc[a] # "cancelling",
         state' \in States, lastError' \in Kinds, UNCHANGED <<degraded, stopped, current, cancelled>>,
         link' \in [Links -> LinkStatus], UNCHANGED <<extension, exitErr>>
  PROVE  Base' /\ Retrying'
<1>1. PICK l \in Loops :
        /\ FreeLoop(l) /\ recTask' = l
        /\ pc' = [pc EXCEPT ![a] = "idle", ![l] = "created"]
        /\ awaits' = [awaits EXCEPT ![a] = None]
  BY DEF Spawns
<1>2. /\ pc \in [Tasks -> Places] /\ awaits \in [Tasks -> Links \cup Loops \cup {None}]
      /\ cancelled \subseteq Loops
  BY DEF Base, TypeOK
<1>3. a \in Tasks /\ l \in Tasks /\ a # l /\ Loops \cup Retriers \subseteq Tasks /\ Starter \in Tasks \ {a, l}
  BY AnyRoles
<1>4. /\ pc'[a] = "idle" /\ pc'[l] = "created"
      /\ \A b \in Tasks \ {a, l} : pc'[b] = pc[b]
      /\ \A b \in Tasks \ {a} : awaits'[b] = awaits[b]
  BY <1>1, <1>2, <1>3
<1>5. TypeOK'
  BY <1>1, <1>2, <1>3 DEF Base, TypeOK, Places
<1>6. l \notin cancelled
  BY <1>1 DEF FreeLoop, Base, Alive
<1>7. \A m \in cancelled : Alive(m)'
  BY <1>2, <1>3, <1>4, <1>6, AnyRoles DEF Base, Alive
<1>8. ASSUME ~stopped, NEW m \in cancelled
      PROVE  \E r \in Retriers : pc'[r] = "cancelling" /\ awaits'[r] = m
  <2>1. PICK r \in Retriers : pc[r] = "cancelling" /\ awaits[r] = m
    BY <1>8 DEF Base
  <2>2. r # a /\ r # l /\ r \in Tasks
    BY <1>3, <2>1, AnyRoles
  <2>3. QED
    BY <1>4, <2>1, <2>2
<1>9. Base'
  BY <1>3, <1>4, <1>5, <1>7, <1>8 DEF Base
<1>10. Retrying'
  BY <1>4 DEF Retrying, RetryInFlight, Alive
<1>11. QED
  BY <1>9, <1>10

-----------------------------------------------------------------------------
(* Each step keeps the types                                                *)

\* start() begins (session.py:123-127).
LEMMA StartIsBase ==
  ASSUME Base, Retrying, Start
  PROVE  Base' /\ Retrying'
<1>1. PICK t \in Links :
        /\ link' = [link EXCEPT ![t] = "starting"] /\ exitErr' = [exitErr EXCEPT ![t] = "none"]
        /\ Moves(Starter, "connecting", t)
  BY DEF Start, BeginConnect
<1>2. /\ pc[Starter] = "idle" /\ state' = "connecting" /\ stopped' = FALSE /\ ~stopped
      /\ UNCHANGED <<lastError, degraded, current, recTask, cancelled, extension>>
  BY DEF Start, BeginConnect, Base
<1>3. Starter \in Tasks /\ "connecting" \in Places
  BY AnyRoles DEF Places
<1>4. TypeOK'
  <2>1. pc' \in [Tasks -> Places] /\ awaits' \in [Tasks -> Links \cup Loops \cup {None}]
    BY <1>1, <1>3, MovesKeeps
  <2>2. link' \in [Links -> LinkStatus] /\ exitErr' \in [Links -> {"none", "transport", "auth", "bootstrap"}]
    BY <1>1 DEF Base, TypeOK, LinkStatus
  <2>3. QED
    BY <1>2, <2>1, <2>2 DEF Base, TypeOK, States
<1>5. QED
  BY <1>1, <1>2, <1>3, <1>4, OutsiderKeeps

\* _connect ends with an exception.
LEMMA RaisesIsBase ==
  ASSUME Base, Retrying, NEW a \in Connectors, a \notin cancelled,
         pc[a] \in {"connecting", "discarding"}, NEW kind \in StartFailures \cup {"mismatch"},
         ConnectRaises(a, kind), CloseEnds(awaits[a])
  PROVE  Base' /\ Retrying'
<1>1. /\ UNCHANGED <<degraded, stopped, current, cancelled, extension, exitErr>>
      /\ link' \in [Links -> LinkStatus] /\ kind \in Kinds \cup {"malformed"}
  BY AnyRoles DEF ConnectRaises, CloseEnds, Base, TypeOK, LinkStatus, Kinds
<1>2. state \in States /\ lastError \in Kinds \cup {"none"} /\ recTask \in Loops \cup {None}
  BY DEF Base, TypeOK
<1>3. ASSUME NEW p \in Places, Moves(a, p, None), p \notin {"connecting", "waiting"}, UNCHANGED recTask,
             state' \in States, lastError' \in Kinds \cup {"none"}
      PROVE  TypeOK'
  <2>1. pc' \in [Tasks -> Places] /\ awaits' \in [Tasks -> Links \cup Loops \cup {None}]
    BY <1>3, MovesKeeps, AnyRoles
  <2>2. QED
    BY <1>1, <1>3, <2>1 DEF Base, TypeOK
<1>4. CASE a = Starter
  <2>1. /\ Moves(a, "done", None) /\ UNCHANGED recTask /\ state' \in States
        /\ lastError' \in Kinds \cup {"none"} /\ (state' = "reconnecting" => state = "reconnecting")
    BY <1>1, <1>2, <1>4 DEF ConnectRaises, StartRaises, Finishes, Kinds, States
  <2>2. "done" \in Places
    BY DEF Places
  <2>3. TypeOK'
    BY <1>3, <2>1, <2>2
  <2>4. QED
    BY <1>1, <1>4, <2>1, <2>2, <2>3, OutsiderKeeps
<1>5. CASE a # Starter
  <2>1. a \in Loops \cup Retriers /\ a \notin {Starter, Stopper}
    BY <1>5, AnyRoles
  <2>2. TryConnectEnds(a, kind)
    BY <1>5 DEF ConnectRaises
  <2>3. CASE Moves(a, "idle", None) /\ UNCHANGED recTask /\ kind # "transport"
    <3>1. /\ state' \in States /\ lastError' \in Kinds \cup {"none"}
          /\ kind # "malformed" => state' # "reconnecting"
      BY <1>1, <1>2, <2>2, <2>3 DEF TryConnectEnds, Kinds, States
    <3>2. kind = "malformed" => ~Understood
      BY DEF Understood
    <3>3. TypeOK'
      BY <1>3, <2>3, <3>1 DEF Places
    <3>4. QED
      BY <1>1, <2>1, <2>3, <3>1, <3>2, <3>3, EndKeeps
  <2>4. CASE kind = "transport"
    <3>1. /\ lastError' = kind /\ UNCHANGED state
          /\ IF a \in Retriers THEN Spawns(a)
             ELSE (IF stopped THEN Finishes(a) ELSE Moves(a, "sleeping", None)) /\ UNCHANGED recTask
      BY <2>2, <2>4 DEF TryConnectEnds
    <3>2. CASE a \in Retriers
      BY <1>1, <1>2, <2>4, <3>1, <3>2, SpawnKeeps DEF Kinds
    <3>3. CASE a \notin Retriers /\ stopped
      <4>1. Moves(a, "idle", None) /\ stopped'
        BY <1>1, <2>1, <3>1, <3>3 DEF Finishes
      <4>2. TypeOK'
        BY <1>2, <1>3, <2>4, <3>1, <3>3, <4>1 DEF Places, Kinds
      <4>3. QED
        BY <1>1, <2>1, <3>3, <4>1, <4>2, EndKeeps
    <3>4. CASE a \notin Retriers /\ ~stopped
      <4>1. Moves(a, "sleeping", None)
        BY <3>1, <3>4
      <4>2. TypeOK'
        BY <1>2, <1>3, <2>4, <3>1, <3>4, <4>1 DEF Places, Kinds
      <4>3. QED
        BY <1>1, <2>1, <3>4, <4>1, <4>2, InsiderKeeps DEF Places
    <3>5. QED
      BY <3>2, <3>3, <3>4
  <2>5. kind # "transport" => Moves(a, "idle", None) /\ UNCHANGED recTask
    BY <1>1, <2>1, <2>2 DEF TryConnectEnds, Finishes, Kinds
  <2>6. QED
    BY <2>3, <2>4, <2>5
<1>6. QED
  BY <1>4, <1>5

\* _connect, whoever runs it (session.py:143-158).
LEMMA ConnectIsBase ==
  ASSUME Base, Retrying, NEW a \in Connectors, Connect(a)
  PROVE  Base' /\ Retrying'
<1>1. CASE ConnectFails(a) \/ DiscardReturns(a)
  BY <1>1, RaisesIsBase DEF ConnectFails, DiscardReturns
<1>2. CASE HandshakeRefused(a)
  <2>1. /\ pc[a] = "connecting" /\ Moves(a, "discarding", awaits[a])
        /\ link' = [link EXCEPT ![awaits[a]] = "closing"]
        /\ UNCHANGED <<state, lastError, degraded, stopped, current, recTask, extension, exitErr, cancelled>>
    BY <1>2 DEF HandshakeRefused, session
  <2>2. a \in Tasks /\ awaits[a] \in Links \cup Loops \cup {None} /\ "discarding" \in Places
    BY AnyRoles DEF Base, TypeOK, Places
  <2>3. TypeOK'
    <3>1. pc' \in [Tasks -> Places] /\ awaits' \in [Tasks -> Links \cup Loops \cup {None}]
      BY <2>1, <2>2, MovesKeeps
    <3>2. link' \in [Links -> LinkStatus]
      BY <2>1 DEF Base, TypeOK, LinkStatus
    <3>3. QED
      BY <2>1, <3>1, <3>2 DEF Base, TypeOK
  <2>4. CASE a = Starter
    BY <2>1, <2>2, <2>3, <2>4, OutsiderKeeps
  <2>5. CASE a # Starter
    <3>1. a \in Loops \cup Retriers
      BY <2>5, AnyRoles
    <3>2. QED
      BY <2>1, <2>2, <2>3, <3>1, InsiderKeeps
  <2>6. QED
    BY <2>4, <2>5
<1>3. CASE ConnectSucceeds(a)
  <2>1. PICK x \in BOOLEAN :
          extension' = [extension EXCEPT ![awaits[a]] = x] /\ degraded' = ~x
    BY <1>3 DEF ConnectSucceeds
  <2>2. /\ pc[a] = "connecting" /\ a \notin cancelled /\ Finishes(a)
        /\ current' = awaits[a] /\ lastError' = "none" /\ state' = "connected"
        /\ link' = [link EXCEPT ![awaits[a]] = "up"]
        /\ UNCHANGED <<stopped, recTask, exitErr, cancelled>>
    BY <1>3 DEF ConnectSucceeds
  <2>3. a \in Tasks /\ awaits[a] \in Links /\ {"idle", "done"} \subseteq Places
    BY <2>2, AnyRoles DEF Base, Places
  <2>4. Moves(a, IF a \in {Starter, Stopper} THEN "done" ELSE "idle", None)
    BY <2>2 DEF Finishes
  <2>5. TypeOK'
    <3>1. pc' \in [Tasks -> Places] /\ awaits' \in [Tasks -> Links \cup Loops \cup {None}]
      BY <2>3, <2>4, MovesKeeps
    <3>2. link' \in [Links -> LinkStatus] /\ extension' \in [Links -> BOOLEAN]
      BY <2>1, <2>2 DEF Base, TypeOK, LinkStatus
    <3>3. degraded' \in BOOLEAN
      BY <2>1
    <3>4. QED
      BY <2>2, <2>3, <3>1, <3>2, <3>3 DEF Base, TypeOK, States
  <2>6. CASE a = Starter
    BY <2>2, <2>3, <2>4, <2>5, <2>6, OutsiderKeeps
  <2>7. CASE a # Starter
    <3>1. a \in Loops \cup Retriers /\ a \notin {Starter, Stopper}
      BY <2>7, AnyRoles
    <3>2. Moves(a, "idle", None)
      BY <2>4, <3>1
    <3>3. QED
      BY <2>2, <2>5, <3>1, <3>2, EndKeeps
  <2>8. QED
    BY <2>6, <2>7
<1>4. QED
  BY <1>1, <1>2, <1>3 DEF Connect

\* _close_transport keeps the types.
LEMMA CloseCurrentTypes ==
  ASSUME Base, NEW a \in Tasks, NEW p \in Places, p \notin {"connecting", "waiting"}, CloseCurrent(a, p)
  PROVE  /\ current \in Links /\ current' = None /\ Moves(a, p, current)
         /\ pc' \in [Tasks -> Places] /\ awaits' \in [Tasks -> Links \cup Loops \cup {None}]
         /\ link' \in [Links -> LinkStatus] /\ UNCHANGED <<extension, exitErr>>
<1>1. /\ current \in Links /\ current' = None /\ Moves(a, p, current)
      /\ link' \in [Links -> LinkStatus] /\ UNCHANGED <<extension, exitErr>>
  BY DEF CloseCurrent, Base, TypeOK, LinkStatus
<1>2. QED
  BY <1>1, MovesKeeps

\* A connection that begins has a transport of its own.
LEMMA BeginConnectTypes ==
  ASSUME Base, NEW a \in Tasks, BeginConnect(a)
  PROVE  /\ \E t \in Links : Moves(a, "connecting", t)
         /\ pc' \in [Tasks -> Places] /\ awaits' \in [Tasks -> Links \cup Loops \cup {None}]
         /\ link' \in [Links -> LinkStatus] /\ UNCHANGED extension
         /\ exitErr' \in [Links -> {"none", "transport", "auth", "bootstrap"}]
<1>1. PICK t \in Links :
        /\ link' = [link EXCEPT ![t] = "starting"] /\ exitErr' = [exitErr EXCEPT ![t] = "none"]
        /\ Moves(a, "connecting", t) /\ UNCHANGED extension
  BY DEF BeginConnect
<1>2. /\ link' \in [Links -> LinkStatus]
      /\ exitErr' \in [Links -> {"none", "transport", "auth", "bootstrap"}]
  BY <1>1 DEF Base, TypeOK, LinkStatus
<1>3. "connecting" \in Places
  BY DEF Places
<1>4. QED
  BY <1>1, <1>2, <1>3, MovesKeeps

\* A request, from its call to its answer or failure (session.py:228-258).
LEMMA RequestIsBase ==
  ASSUME Base, Retrying, NEW c \in Callers, Call(c) \/ CallReturns(c)
  PROVE  Base' /\ Retrying'
<1>1. /\ c \in Tasks /\ c \notin {Starter, Stopper} \cup Loops \cup Retriers
      /\ {"idle", "waiting", "closing_auth", "closing_fatal"} \subseteq Places
  BY AnyRoles DEF Places
<1>2. ASSUME NEW p \in {"idle", "waiting"}, NEW x \in Links \cup {None}, Moves(c, p, x),
             p = "waiting" => x \in Links, UNCHANGED <<session, links, cancelled>>
      PROVE  Base' /\ Retrying'
  <2>1. pc' \in [Tasks -> Places] /\ awaits' \in [Tasks -> Links \cup Loops \cup {None}]
    BY <1>1, <1>2, MovesKeeps
  <2>2. TypeOK'
    BY <1>2, <2>1 DEF session, links, Base, TypeOK
  <2>3. QED
    BY <1>1, <1>2, <2>2, OutsiderKeeps DEF session
<1>3. CASE Call(c)
  BY <1>2, <1>3 DEF Call, Base, TypeOK
<1>4. CASE Answered(c)
  BY <1>1, <1>2, <1>4 DEF Answered, Finishes
<1>5. CASE CallerCloseReturns(c)
  <2>1. /\ state' \in {"auth_required", "disconnected"} /\ Moves(c, "idle", None)
        /\ link' \in [Links -> LinkStatus]
        /\ UNCHANGED <<extension, exitErr, lastError, degraded, stopped, current, recTask, cancelled>>
    BY <1>1, <1>5 DEF CallerCloseReturns, Finishes, CloseEnds, Base, TypeOK, LinkStatus
  <2>2. pc' \in [Tasks -> Places] /\ awaits' \in [Tasks -> Links \cup Loops \cup {None}]
    BY <1>1, <2>1, MovesKeeps
  <2>3. TypeOK'
    BY <2>1, <2>2 DEF Base, TypeOK, States
  <2>4. QED
    BY <1>1, <2>1, <2>3, OutsiderKeeps
<1>6. ASSUME NEW kind \in {"transport", "auth", "bootstrap", "mismatch"}, RequestRaises(c, kind)
      PROVE  Base' /\ Retrying'
  <2>1. CASE kind = "transport"
    <3>1. OnTransportFailure(c)
      BY <1>6, <2>1 DEF RequestRaises
    <3>2. UNCHANGED <<degraded, stopped, current, link, extension, exitErr, cancelled>>
      BY <3>1 DEF OnTransportFailure, links
    <3>3. CASE stopped \/ state = "reconnecting"
      <4>1. Moves(c, "idle", None) /\ UNCHANGED <<session, links, cancelled>>
        BY <1>1, <3>1, <3>2, <3>3 DEF OnTransportFailure, Finishes, session, links
      <4>2. QED
        BY <1>2, <4>1
    <3>4. CASE ~(stopped \/ state = "reconnecting")
      <4>1. /\ lastError' = "transport" /\ state' = "reconnecting" /\ Spawns(c)
            /\ link' \in [Links -> LinkStatus]
        BY <3>1, <3>2, <3>4 DEF OnTransportFailure, Base, TypeOK
      <4>2. QED
        BY <1>1, <3>2, <4>1, SpawnKeeps DEF Kinds, States
    <3>5. QED
      BY <3>3, <3>4
  <2>2. CASE kind # "transport"
    <3>1. PICK p \in {"closing_auth", "closing_fatal"}, final \in {"auth_required", "disconnected"} :
            FailsForGood(c, kind, p, final)
      <4>1. CASE kind = "auth"
        BY <1>6, <4>1 DEF RequestRaises
      <4>2. CASE kind \in {"bootstrap", "mismatch"}
        BY <1>6, <4>2 DEF RequestRaises
      <4>3. QED
        BY <2>2, <4>1, <4>2
    <3>2. lastError' = kind /\ UNCHANGED <<degraded, stopped, recTask, cancelled>>
      BY <3>1 DEF FailsForGood
    <3>3. CASE CloseCurrent(c, p) /\ UNCHANGED state
      <4>1. /\ current \in Links /\ current' = None /\ Moves(c, p, current)
            /\ pc' \in [Tasks -> Places] /\ awaits' \in [Tasks -> Links \cup Loops \cup {None}]
            /\ link' \in [Links -> LinkStatus] /\ UNCHANGED <<extension, exitErr>>
        BY <1>1, <3>3, CloseCurrentTypes
      <4>2. TypeOK'
        BY <3>2, <3>3, <4>1 DEF Base, TypeOK, Kinds
      <4>3. QED
        BY <1>1, <3>2, <3>3, <4>1, <4>2, OutsiderKeeps
    <3>4. CASE current = None /\ state' = final /\ Finishes(c) /\ UNCHANGED <<links, current>>
      <4>1. Moves(c, "idle", None)
        BY <1>1, <3>4 DEF Finishes
      <4>2. pc' \in [Tasks -> Places] /\ awaits' \in [Tasks -> Links \cup Loops \cup {None}]
        BY <1>1, <4>1, MovesKeeps
      <4>3. TypeOK'
        BY <3>2, <3>4, <4>2 DEF Base, TypeOK, Kinds, States, links
      <4>4. QED
        BY <1>1, <3>2, <3>4, <4>1, <4>3, OutsiderKeeps
    <3>5. QED
      BY <3>1, <3>3, <3>4 DEF FailsForGood
  <2>3. QED
    BY <2>1, <2>2
<1>7. CASE VersionFrame(c)
  BY <1>6, <1>7 DEF VersionFrame
<1>8. CASE RequestFails(c)
  <2>1. awaits[c] \in Links /\ exitErr[awaits[c]] \in {"none", "transport", "auth", "bootstrap"}
    BY <1>1, <1>8 DEF RequestFails, Base, TypeOK
  <2>2. QED
    BY <1>6, <1>8, <2>1 DEF RequestFails
<1>9. QED
  BY <1>3, <1>4, <1>5, <1>7, <1>8 DEF CallReturns

\* A cancelled loop goes on or ends: whoever cancelled it is still there.
LEMMA UncancelKeeps ==
  ASSUME Base, Retrying, TypeOK',
         NEW l \in Loops, l \in cancelled, cancelled' = cancelled \ {l},
         NEW p \in {"idle", "sleeping"}, Moves(l, p, None), UNCHANGED stopped
  PROVE  Base' /\ Retrying'
<1>1. l \in Tasks /\ p \in Places
  BY AnyRoles DEF Places
<1>2. /\ \A b \in Tasks : pc'[b] \in {"connecting", "waiting"} => awaits'[b] \in Links
      /\ \A b \in Tasks \ {l} : pc'[b] = pc[b] /\ awaits'[b] = awaits[b]
  BY <1>1, MovesKeeps
<1>3. Starter \in Tasks \ {l} /\ Retriers \subseteq Tasks \ {l} /\ Loops \subseteq Tasks
  BY AnyRoles
<1>4. cancelled \subseteq Loops
  BY DEF Base, TypeOK
<1>5. ASSUME ~stopped, NEW m \in cancelled
      PROVE  \E r \in Retriers : pc'[r] = "cancelling" /\ awaits'[r] = m
  <2>1. PICK r \in Retriers : pc[r] = "cancelling" /\ awaits[r] = m
    BY <1>5 DEF Base
  <2>2. QED
    BY <1>2, <1>3, <2>1
<1>6. Base'
  BY <1>2, <1>3, <1>4, <1>5 DEF Base, Alive
<1>7. Retrying'
  BY <1>5 DEF Retrying, RetryInFlight, Alive
<1>8. QED
  BY <1>6, <1>7

\* _reconnect_loop (session.py:184-212).
LEMMA LoopIsBase ==
  ASSUME Base, Retrying, NEW l \in Loops, LoopRuns(l)
  PROVE  Base' /\ Retrying'
<1>1. /\ l \in Tasks /\ l \notin {Starter, Stopper} \cup Retriers
      /\ {"idle", "sleeping", "closing", "connecting"} \subseteq Places
  BY AnyRoles DEF Places
<1>2. ASSUME NEW p \in {"idle", "sleeping"}, Moves(l, p, None), l \notin cancelled,
             p = "idle" => stopped, link' \in [Links -> LinkStatus],
             UNCHANGED <<session, cancelled, extension, exitErr>>
      PROVE  Base' /\ Retrying'
  <2>1. pc' \in [Tasks -> Places] /\ awaits' \in [Tasks -> Links \cup Loops \cup {None}]
    BY <1>1, <1>2, MovesKeeps
  <2>2. TypeOK'
    BY <1>2, <2>1 DEF session, Base, TypeOK
  <2>3. CASE p = "idle"
    BY <1>1, <1>2, <2>2, <2>3, EndKeeps DEF session
  <2>4. CASE p = "sleeping"
    BY <1>1, <1>2, <2>2, <2>4, InsiderKeeps DEF session
  <2>5. QED
    BY <2>3, <2>4
<1>3. ASSUME IF stopped THEN Finishes(l) ELSE Moves(l, "sleeping", None)
      PROVE  \E p \in {"idle", "sleeping"} : Moves(l, p, None) /\ (p = "idle" => stopped)
  BY <1>1, <1>3 DEF Finishes
<1>4. link \in [Links -> LinkStatus]
  BY DEF Base, TypeOK
<1>5. CASE LoopBegins(l)
  <2>1. CASE CloseCurrent(l, "closing")
    <3>1. /\ current \in Links /\ current' = None /\ Moves(l, "closing", current)
          /\ pc' \in [Tasks -> Places] /\ awaits' \in [Tasks -> Links \cup Loops \cup {None}]
          /\ link' \in [Links -> LinkStatus] /\ UNCHANGED <<extension, exitErr>>
      BY <1>1, <2>1, CloseCurrentTypes
    <3>2. UNCHANGED <<state, lastError, degraded, stopped, recTask, cancelled>>
      BY <1>5 DEF LoopBegins
    <3>3. TypeOK'
      BY <3>1, <3>2 DEF Base, TypeOK
    <3>4. QED
      BY <1>1, <3>1, <3>2, <3>3, InsiderKeeps
  <2>2. CASE ~CloseCurrent(l, "closing")
    <3>1. /\ IF stopped THEN Finishes(l) ELSE Moves(l, "sleeping", None)
          /\ l \notin cancelled /\ UNCHANGED <<session, links, cancelled>>
      BY <1>5, <2>2 DEF LoopBegins, session
    <3>2. QED
      BY <1>2, <1>3, <1>4, <3>1 DEF links
  <2>3. QED
    BY <2>1, <2>2
<1>6. CASE LoopCloseReturns(l)
  <2>1. /\ IF stopped THEN Finishes(l) ELSE Moves(l, "sleeping", None)
        /\ l \notin cancelled /\ UNCHANGED <<session, cancelled, extension, exitErr>>
        /\ link' \in [Links -> LinkStatus]
    BY <1>4, <1>6 DEF LoopCloseReturns, CloseEnds, LinkStatus
  <2>2. QED
    BY <1>2, <1>3, <2>1
<1>7. CASE SleepReturns(l)
  <2>1. CASE stopped
    <3>1. Moves(l, "idle", None) /\ l \notin cancelled /\ UNCHANGED <<session, links, cancelled>>
      BY <1>1, <1>7, <2>1 DEF SleepReturns, Finishes
    <3>2. QED
      BY <1>2, <1>4, <2>1, <3>1 DEF links
  <2>2. CASE ~stopped
    <3>1. BeginConnect(l) /\ UNCHANGED <<session, cancelled>>
      BY <1>7, <2>2 DEF SleepReturns
    <3>2. PICK t \in Links : Moves(l, "connecting", t)
      BY <3>1 DEF BeginConnect
    <3>3. TypeOK'
      BY <1>1, <3>1, BeginConnectTypes DEF session, Base, TypeOK
    <3>4. QED
      BY <1>1, <3>1, <3>2, <3>3, InsiderKeeps DEF session
  <2>3. QED
    BY <2>1, <2>2
<1>8. CASE LoopCancelled(l)
  <2>1. /\ l \in cancelled /\ cancelled' = cancelled \ {l} /\ Moves(l, "idle", None)
        /\ UNCHANGED <<state, lastError, degraded, stopped, current, recTask>>
    BY <1>1, <1>8 DEF LoopCancelled, Finishes, session
  <2>2. link' \in [Links -> LinkStatus] /\ UNCHANGED <<extension, exitErr>>
    BY <1>4, <1>8 DEF LoopCancelled, CloseEnds, CutShort, Leave, LinkStatus, links
  <2>3. pc' \in [Tasks -> Places] /\ awaits' \in [Tasks -> Links \cup Loops \cup {None}]
    BY <1>1, <2>1, MovesKeeps
  <2>4. TypeOK'
    BY <2>1, <2>2, <2>3 DEF Base, TypeOK
  <2>5. QED
    BY <2>1, <2>4, UncancelKeeps
<1>9. CASE CancelSwallowed(l)
  <2>1. /\ cancelled' = cancelled \ {l} /\ UNCHANGED <<pc, awaits, link, extension, exitErr>>
        /\ UNCHANGED <<state, lastError, degraded, stopped, current, recTask>>
    BY <1>9 DEF CancelSwallowed, session, links
  <2>2. Base'
    BY <2>1 DEF Base, TypeOK, Alive
  <2>3. Retrying'
    BY <2>1 DEF Retrying, RetryInFlight, Alive
  <2>4. QED
    BY <2>2, <2>3
<1>10. CASE StartSwallows(l)
  <2>1. PICK kind \in Kinds : TryConnectEnds(l, kind)
    BY <1>10, AnyRoles DEF StartSwallows
  <2>2. /\ l \in cancelled /\ cancelled' = cancelled \ {l}
        /\ UNCHANGED <<degraded, stopped, current, extension, exitErr>>
        /\ link' \in [Links -> LinkStatus]
    BY <1>4, <1>10 DEF StartSwallows, CloseEnds, LinkStatus
  <2>3. /\ lastError' \in Kinds /\ recTask' = recTask
        /\ state' \in {state, "auth_required", "disconnected"}
        /\ \E p \in {"idle", "sleeping"} : Moves(l, p, None)
    BY <1>1, <2>1 DEF TryConnectEnds, Finishes, Kinds
  <2>4. pc' \in [Tasks -> Places] /\ awaits' \in [Tasks -> Links \cup Loops \cup {None}]
    BY <1>1, <2>3, MovesKeeps
  <2>5. TypeOK'
    BY <2>2, <2>3, <2>4 DEF Base, TypeOK, States
  <2>6. QED
    BY <2>2, <2>3, <2>5, UncancelKeeps
<1>11. QED
  BY <1>5, <1>6, <1>7, <1>8, <1>9, <1>10 DEF LoopRuns

\* reconnect_now (session.py:214-226).
LEMMA RetrierIsBase ==
  ASSUME Base, Retrying, NEW r \in Retriers, ReconnectNow(r) \/ RetrierRuns(r)
  PROVE  Base' /\ Retrying'
<1>1. /\ r \in Tasks /\ r \notin {Starter, Stopper} \cup Loops
      /\ {"closing", "connecting", "cancelling"} \subseteq Places
      /\ Loops \cup Retriers \subseteq Tasks /\ Starter \in Tasks \ {r}
  BY AnyRoles DEF Places
<1>2. ASSUME RetrierCloses(r), UNCHANGED <<lastError, degraded, stopped, cancelled>>,
             recTask' \in Loops \cup {None}, pc[r] = "cancelling" => pc[awaits[r]] = "idle"
      PROVE  Base' /\ Retrying'
  <2>1. CASE CloseCurrent(r, "closing") /\ UNCHANGED state
    <3>1. /\ current \in Links /\ current' = None /\ Moves(r, "closing", current)
          /\ pc' \in [Tasks -> Places] /\ awaits' \in [Tasks -> Links \cup Loops \cup {None}]
          /\ link' \in [Links -> LinkStatus] /\ UNCHANGED <<extension, exitErr>>
      BY <1>1, <2>1, CloseCurrentTypes
    <3>2. TypeOK'
      BY <1>2, <2>1, <3>1 DEF Base, TypeOK
    <3>3. QED
      BY <1>1, <1>2, <3>1, <3>2, InsiderKeeps
  <2>2. CASE current = None /\ state' = "reconnecting" /\ BeginConnect(r) /\ UNCHANGED current
    <3>1. PICK t \in Links : Moves(r, "connecting", t)
      BY <2>2 DEF BeginConnect
    <3>2. TypeOK'
      BY <1>1, <1>2, <2>2, BeginConnectTypes DEF Base, TypeOK, States
    <3>3. QED
      BY <1>1, <1>2, <3>1, <3>2, InsiderKeeps
  <2>3. QED
    BY <1>2, <2>1, <2>2 DEF RetrierCloses
<1>3. CASE ReconnectNow(r)
  <2>1. pc[r] = "idle" /\ UNCHANGED <<lastError, degraded, stopped>> /\ recTask' = None
    BY <1>3 DEF ReconnectNow, CancelReconnect
  <2>2. CASE CancelReconnect(r) /\ UNCHANGED <<state, current, links>>
    <3>1. /\ recTask \in Loops /\ pc[recTask] # "idle" /\ cancelled' = cancelled \cup {recTask}
          /\ Moves(r, "cancelling", recTask)
          /\ UNCHANGED <<state, current, link, extension, exitErr>>
      BY <2>2 DEF CancelReconnect, Base, TypeOK, links
    <3>2. /\ pc' \in [Tasks -> Places] /\ awaits' \in [Tasks -> Links \cup Loops \cup {None}]
          /\ \A b \in Tasks : pc'[b] \in {"connecting", "waiting"} => awaits'[b] \in Links
          /\ pc'[r] = "cancelling" /\ awaits'[r] = recTask
          /\ \A b \in Tasks \ {r} : pc'[b] = pc[b] /\ awaits'[b] = awaits[b]
      BY <1>1, <3>1, MovesKeeps
    <3>3. TypeOK'
      BY <2>1, <3>1, <3>2 DEF Base, TypeOK
    <3>4. \A m \in cancelled' : Alive(m)'
      BY <1>1, <3>1, <3>2 DEF Base, TypeOK, Alive
    <3>5. ASSUME ~stopped, NEW m \in cancelled'
          PROVE  \E q \in Retriers : pc'[q] = "cancelling" /\ awaits'[q] = m
      <4>1. CASE m = recTask
        BY <3>2, <4>1
      <4>2. CASE m \in cancelled
        <5>1. PICK q \in Retriers : pc[q] = "cancelling" /\ awaits[q] = m
          BY <3>5, <4>2 DEF Base
        <5>2. q \in Tasks \ {r}
          BY <1>1, <2>1, <5>1
        <5>3. QED
          BY <3>2, <5>1, <5>2
      <4>3. QED
        BY <3>1, <4>1, <4>2
    <3>6. Base'
      BY <1>1, <2>1, <3>2, <3>3, <3>4, <3>5 DEF Base
    <3>7. Retrying'
      BY <3>2 DEF Retrying, RetryInFlight, Alive
    <3>8. QED
      BY <3>6, <3>7
  <2>3. CASE NoLoopToCancel /\ recTask' = None /\ UNCHANGED cancelled /\ RetrierCloses(r)
    BY <1>2, <2>1, <2>3
  <2>4. QED
    BY <1>3, <2>2, <2>3 DEF ReconnectNow
<1>4. CASE RetrierLoopEnded(r)
  <2>1. recTask' \in Loops \cup {None}
    BY <1>4 DEF RetrierLoopEnded, Base, TypeOK
  <2>2. QED
    BY <1>2, <1>4, <2>1 DEF RetrierLoopEnded
<1>5. CASE RetrierCloseReturns(r)
  <2>1. PICK t \in Links :
          /\ link' = [link EXCEPT ![awaits[r]] = "closed", ![t] = "starting"]
          /\ exitErr' = [exitErr EXCEPT ![t] = "none"]
          /\ Moves(r, "connecting", t)
    BY <1>5 DEF RetrierCloseReturns
  <2>2. /\ pc[r] = "closing" /\ state' = "reconnecting"
        /\ UNCHANGED <<lastError, degraded, stopped, current, recTask, extension, cancelled>>
    BY <1>5 DEF RetrierCloseReturns
  <2>3. pc' \in [Tasks -> Places] /\ awaits' \in [Tasks -> Links \cup Loops \cup {None}]
    BY <1>1, <2>1, MovesKeeps
  <2>4. /\ link' \in [Links -> LinkStatus]
        /\ exitErr' \in [Links -> {"none", "transport", "auth", "bootstrap"}]
    BY <2>1 DEF Base, TypeOK, LinkStatus
  <2>5. TypeOK'
    BY <2>2, <2>3, <2>4 DEF Base, TypeOK, States
  <2>6. QED
    BY <1>1, <2>1, <2>2, <2>5, InsiderKeeps
<1>6. QED
  BY <1>3, <1>4, <1>5 DEF RetrierRuns

\* stop() (session.py:137-141).
LEMMA StopIsBase ==
  ASSUME Base, Retrying, Stop \/ StopperRuns
  PROVE  Base' /\ Retrying'
<1>1. /\ Stopper \in Tasks /\ Stopper # Starter /\ Stopper \notin Loops \cup Retriers
      /\ {"closing", "done", "cancelling"} \subseteq Places
      /\ Loops \cup Retriers \subseteq Tasks /\ Starter \in Tasks \ {Stopper}
  BY AnyRoles DEF Places
<1>2. ASSUME StopperCloses, UNCHANGED <<lastError, degraded, cancelled>>,
             stopped' \in BOOLEAN, stopped' = stopped \/ (stopped' /\ pc[Starter] # "idle"),
             recTask' \in Loops \cup {None}
      PROVE  Base' /\ Retrying'
  <2>1. CASE CloseCurrent(Stopper, "closing") /\ UNCHANGED state
    <3>1. /\ current \in Links /\ current' = None /\ Moves(Stopper, "closing", current)
          /\ pc' \in [Tasks -> Places] /\ awaits' \in [Tasks -> Links \cup Loops \cup {None}]
          /\ link' \in [Links -> LinkStatus] /\ UNCHANGED <<extension, exitErr>>
      BY <1>1, <2>1, CloseCurrentTypes
    <3>2. TypeOK'
      BY <1>2, <2>1, <3>1 DEF Base, TypeOK
    <3>3. QED
      BY <1>1, <1>2, <2>1, <3>1, <3>2, OutsiderKeeps
  <2>2. CASE /\ current = None /\ state' = "disconnected"
             /\ Finishes(Stopper) /\ UNCHANGED <<links, current>>
    <3>1. Moves(Stopper, "done", None)
      BY <2>2 DEF Finishes
    <3>2. pc' \in [Tasks -> Places] /\ awaits' \in [Tasks -> Links \cup Loops \cup {None}]
      BY <1>1, <3>1, MovesKeeps
    <3>3. TypeOK'
      BY <1>2, <2>2, <3>2 DEF Base, TypeOK, States, links
    <3>4. QED
      BY <1>1, <1>2, <2>2, <3>1, <3>3, OutsiderKeeps
  <2>3. QED
    BY <1>2, <2>1, <2>2 DEF StopperCloses
<1>3. CASE Stop
  <2>1. /\ pc[Starter] # "idle" /\ stopped' = TRUE /\ recTask' = None
        /\ UNCHANGED <<lastError, degraded>>
    BY <1>3 DEF Stop, CancelReconnect
  <2>2. CASE CancelReconnect(Stopper) /\ UNCHANGED <<state, current, links>>
    <3>1. /\ recTask \in Loops /\ pc[recTask] # "idle" /\ cancelled' = cancelled \cup {recTask}
          /\ Moves(Stopper, "cancelling", recTask)
          /\ UNCHANGED <<state, current, link, extension, exitErr>>
      BY <2>2 DEF CancelReconnect, Base, TypeOK, links
    <3>2. /\ pc' \in [Tasks -> Places] /\ awaits' \in [Tasks -> Links \cup Loops \cup {None}]
          /\ \A b \in Tasks : pc'[b] \in {"connecting", "waiting"} => awaits'[b] \in Links
          /\ \A b \in Tasks \ {Stopper} : pc'[b] = pc[b] /\ awaits'[b] = awaits[b]
      BY <1>1, <3>1, MovesKeeps
    <3>3. TypeOK'
      BY <2>1, <3>1, <3>2 DEF Base, TypeOK
    <3>4. \A m \in cancelled' : Alive(m)'
      BY <1>1, <3>1, <3>2 DEF Base, TypeOK, Alive
    <3>5. Base'
      BY <1>1, <2>1, <3>2, <3>3, <3>4 DEF Base
    <3>6. Retrying'
      BY <2>1 DEF Retrying, RetryInFlight
    <3>7. QED
      BY <3>5, <3>6
  <2>3. CASE NoLoopToCancel /\ recTask' = None /\ UNCHANGED cancelled /\ StopperCloses
    BY <1>2, <2>1, <2>3
  <2>4. QED
    BY <1>3, <2>2, <2>3 DEF Stop
<1>4. CASE StopLoopEnded
  <2>1. recTask' \in Loops \cup {None} /\ stopped' \in BOOLEAN
    BY <1>4 DEF StopLoopEnded, Base, TypeOK
  <2>2. QED
    BY <1>2, <1>4, <2>1 DEF StopLoopEnded
<1>5. CASE StopCloseReturns
  <2>1. /\ state' = "disconnected" /\ Moves(Stopper, "done", None)
        /\ link' \in [Links -> LinkStatus] /\ UNCHANGED <<extension, exitErr>>
        /\ UNCHANGED <<lastError, degraded, stopped, current, recTask, cancelled>>
    BY <1>5 DEF StopCloseReturns, Finishes, CloseEnds, Base, TypeOK, LinkStatus
  <2>2. pc' \in [Tasks -> Places] /\ awaits' \in [Tasks -> Links \cup Loops \cup {None}]
    BY <1>1, <2>1, MovesKeeps
  <2>3. TypeOK'
    BY <2>1, <2>2 DEF Base, TypeOK, States
  <2>4. QED
    BY <1>1, <2>1, <2>3, OutsiderKeeps
<1>6. QED
  BY <1>3, <1>4, <1>5 DEF StopperRuns

\* Every step of the session.
LEMMA SessionIsBase ==
  ASSUME Base, Retrying, [Next]_vars
  PROVE  Base' /\ Retrying'
<1>1. CASE UNCHANGED vars
  BY <1>1 DEF vars, session, links, tasks, Base, TypeOK, Alive, Retrying, RetryInFlight
<1>2. ASSUME NEW t \in Links, LinkDies(t)
      PROVE  Base' /\ Retrying'
  <2>1. /\ exitErr' \in [Links -> {"none", "transport", "auth", "bootstrap"}]
        /\ link' \in [Links -> LinkStatus]
    BY <1>2, AnyRoles DEF LinkDies, Base, TypeOK, LinkStatus
  <2>2. QED
    BY <1>2, <2>1 DEF LinkDies, session, tasks, Base, TypeOK, Alive, Retrying, RetryInFlight
<1>3. ASSUME NEW t \in Links, LeftExits(t)
      PROVE  Base' /\ Retrying'
  <2>1. link' \in [Links -> LinkStatus] /\ UNCHANGED <<extension, exitErr>>
    BY <1>3 DEF LeftExits, CloseEnds, Base, TypeOK, LinkStatus
  <2>2. QED
    BY <1>3, <2>1 DEF LeftExits, session, tasks, Base, TypeOK, Alive, Retrying, RetryInFlight
<1>4. QED
  BY <1>1, <1>2, <1>3, StartIsBase, StopIsBase, ConnectIsBase, RequestIsBase, LoopIsBase, RetrierIsBase
  DEF Next

\* The types, and that a loop is alive while the session retries, hold of any session.
LEMMA AlwaysBase == Spec => [](Base /\ Retrying)
<1>1. Init => Base /\ Retrying
  BY BaseStarts
<1>2. Base /\ Retrying /\ [Next]_vars => (Base /\ Retrying)'
  BY SessionIsBase
<1>3. QED
  BY <1>1, <1>2, PTL DEF Spec

\* Every attribute of the session, transport and coroutine keeps to its type,
\* whoever calls what (session.py:96-104).
THEOREM Typing == Spec => []TypeOK
<1>1. Base => TypeOK
  BY DEF Base
<1>2. QED
  BY <1>1, AlwaysBase, PTL

\* However many coroutines request, retry by hand, start and stop, and however
\* links die: while the state says RECONNECTING and stop() was not called
\* somebody is at work on a connection (session.py:160-222).
THEOREM RetryInFlightHolds ==
  ASSUME Understood
  PROVE  Spec => []RetryInFlight
<1>1. Retrying => RetryInFlight
  BY DEF Retrying
<1>2. QED
  BY <1>1, AlwaysBase, PTL

\* Nothing leaves a transport half closed but the cancellation of the loop that
\* was starting or closing it.
LEMMA OnlyCancelLeaves ==
  ASSUME TypeOK, [Next]_vars, NEW t \in Links, link'[t] = "left", link[t] # "left"
  PROVE  \E l \in Loops : LoopCancelled(l) /\ awaits[l] = t
<1>1. link \in [Links -> LinkStatus] /\ link' # link
  BY DEF TypeOK
<1>2. SUFFICES ASSUME Next
               PROVE  \E l \in Loops : LoopCancelled(l) /\ awaits[l] = t
  BY <1>1 DEF vars, links
<1>3. ASSUME NEW a, BeginConnect(a)
      PROVE  FALSE
  BY <1>1, <1>3 DEF BeginConnect
<1>4. ASSUME NEW a, NEW p, CloseCurrent(a, p)
      PROVE  FALSE
  BY <1>1, <1>4 DEF CloseCurrent
<1>5. ASSUME NEW u, CloseEnds(u)
      PROVE  FALSE
  BY <1>1, <1>5 DEF CloseEnds
<1>6. ~StopperCloses /\ \A r \in Retriers : ~RetrierCloses(r)
  BY <1>1, <1>3, <1>4 DEF StopperCloses, RetrierCloses, links
<1>7. ~(Start \/ Stop \/ StopperRuns)
  BY <1>1, <1>3, <1>5, <1>6 DEF Start, Stop, StopperRuns, StopLoopEnded, StopCloseReturns, links
<1>8. ASSUME NEW a \in Connectors, Connect(a)
      PROVE  FALSE
  BY <1>1, <1>5, <1>8 DEF Connect, ConnectFails, HandshakeRefused, DiscardReturns, ConnectSucceeds
<1>9. ASSUME NEW c \in Callers, Call(c) \/ CallReturns(c)
      PROVE  FALSE
  <2>1. ASSUME NEW kind, NEW p, NEW final, FailsForGood(c, kind, p, final)
        PROVE  FALSE
    BY <1>1, <1>4, <2>1 DEF FailsForGood, links
  <2>2. ASSUME NEW kind, RequestRaises(c, kind)
        PROVE  FALSE
    BY <1>1, <2>1, <2>2 DEF RequestRaises, OnTransportFailure, links
  <2>3. QED
    BY <1>1, <1>5, <1>9, <2>2 DEF Call, CallReturns, Answered, VersionFrame, RequestFails,
       CallerCloseReturns, links
<1>10. ASSUME NEW r \in Retriers, ReconnectNow(r) \/ RetrierRuns(r)
       PROVE  FALSE
  BY <1>1, <1>6, <1>10 DEF ReconnectNow, RetrierRuns, RetrierLoopEnded, RetrierCloseReturns, links
<1>11. ASSUME NEW u \in Links, LinkDies(u) \/ LeftExits(u)
       PROVE  FALSE
  BY <1>1, <1>5, <1>11 DEF LinkDies, LeftExits
<1>12. ASSUME NEW l \in Loops, LoopRuns(l)
       PROVE  LoopCancelled(l) /\ awaits[l] = t
  <2>1. LoopCancelled(l)
    BY <1>1, <1>3, <1>4, <1>5, <1>12 DEF LoopRuns, LoopBegins, LoopCloseReturns, SleepReturns,
       CancelSwallowed, StartSwallows, links
  <2>2. awaits[l] = t
    BY <1>1, <1>5, <2>1 DEF LoopCancelled, CutShort, Leave, links
  <2>3. QED
    BY <2>1, <2>2
<1>13. QED
  BY <1>2, <1>7, <1>8, <1>9, <1>10, <1>11, <1>12 DEF Next
-----------------------------------------------------------------------------
(* One owner: the session without reconnect_now and version_mismatch frames *)

\* Nobody calls reconnect_now, as in the TUI, and a connected agent does not
\* answer a request with version_mismatch.
Plain == Retriers = {} /\ ~VersionFrames

\* a is starting or closing a transport, as a request that failed for good does.
Has(a) == pc[a] \in {"connecting", "discarding", "closing", "closing_auth", "closing_fatal"}
Closer(c) == pc[c] \in {"closing_auth", "closing_fatal"}

Courses ==
  /\ pc[Starter] \in {"idle", "connecting", "discarding", "done"}
  /\ pc[Stopper] \in {"idle", "cancelling", "closing", "done"}
  /\ pc[Stopper] # "idle" => stopped
  /\ \A c \in Callers : pc[c] \in {"idle", "waiting", "closing_auth", "closing_fatal"}
  /\ \A l \in Loops : pc[l] \in {"idle", "created", "closing", "sleeping", "connecting", "discarding"}

\* Who has which transport; one that is starting or up has not died.
Hands ==
  /\ \A a \in Tasks : Has(a) =>
       /\ awaits[a] \in Links /\ awaits[a] # current
       /\ link[awaits[a]] \in IF pc[a] = "connecting" THEN {"starting"} ELSE {"closing", "reaping"}
  /\ \A a, b \in Tasks : Has(a) /\ Has(b) /\ awaits[a] = awaits[b] => a = b
  /\ \A a \in Tasks : ~Has(a) /\ pc[a] # "waiting" => awaits[a] \notin Links
  /\ \A t \in Links : link[t] \in {"up", "dead"} <=> t = current
  /\ \A t \in Links : link[t] \in {"starting", "closing", "reaping"} =>
       \E a \in Tasks : Has(a) /\ awaits[a] = t
  /\ \A t \in Links : link[t] \in {"starting", "up"} => exitErr[t] = "none"

\* There is one loop at most, after start(), and while somebody connects there is
\* no current transport and no request under way.
Alone ==
  /\ \A l, m \in Loops : Alive(l) /\ Alive(m) => l = m
  /\ \A l \in Loops : Alive(l) => pc[Starter] = "done" /\ state # "connected"
  /\ \A a \in {Starter} \cup Loops :
       pc[a] \in {"connecting", "discarding", "sleeping", "closing"} => current = None
  /\ \A a \in {Starter} \cup Loops : pc[a] \in {"connecting", "discarding"} =>
       \A c \in Callers : pc[c] = "idle"
  /\ pc[Starter] = "idle" => current = None /\ \A c \in Callers : pc[c] = "idle"

\* All requests that wait, wait for the same transport: the current one, or the
\* last one, which one of them may be closing because it failed for good.
Calling ==
  /\ \A c \in Callers : pc[c] = "waiting" /\ current # None => awaits[c] = current
  /\ \A c, d \in Callers : pc[c] = "waiting" /\ pc[d] = "waiting" => awaits[c] = awaits[d]
  /\ \A c \in Callers : Closer(c) =>
       /\ current = None /\ link[awaits[c]] = "reaping"
       /\ exitErr[awaits[c]] \in {"auth", "bootstrap"}
       /\ \A d \in Callers : pc[d] = "waiting" => awaits[d] = awaits[c]

\* When the state has left RECONNECTING with the loop still there, all requests
\* under way will fail for good: none of them starts a second loop.
Spared ==
  \A l \in Loops : Alive(l) /\ ~stopped /\ state # "reconnecting" =>
    \A c \in Callers : pc[c] = "waiting" => exitErr[awaits[c]] \in {"auth", "bootstrap"}

OInv == Courses /\ Hands /\ Alone /\ Calling /\ Spared

\* Only stop() cancels a loop, and so leaves a transport half closed.
Abandoned == \A t \in Links : link[t] = "left" => stopped

\* The roles, and the transports they close, without reconnect_now.
LEMMA PlainRoles ==
  ASSUME Plain
  PROVE  /\ Connectors = {Starter} \cup Loops
         /\ Tasks = {Starter, Stopper} \cup Loops \cup Callers
         /\ Starter # Stopper /\ Starter \notin Callers \cup Loops
         /\ Stopper \notin Callers \cup Loops
         /\ Callers \cap Loops = {} /\ Links \cap Loops = {}
         /\ None \notin Links /\ None \notin Loops
BY RolesAssumption DEF Plain, Connectors, Tasks

\* Before start() nobody has a transport.
LEMMA OwnersStart ==
  ASSUME Plain, Init
  PROVE  OInv
BY PlainRoles DEF Init, OInv, Courses, Hands, Has, Alone, Calling, Closer, Spared, Alive

-----------------------------------------------------------------------------
(* Who has which transport, by what a step does with one                    *)

\* A fresh transport is started.
LEMMA HandsBegin ==
  ASSUME Plain, Base, Hands, NEW a \in Tasks, ~Has(a), NEW t \in Links, FreeLink(t),
         link' = [link EXCEPT ![t] = "starting"], exitErr' = [exitErr EXCEPT ![t] = "none"],
         Moves(a, "connecting", t), UNCHANGED current
  PROVE  Hands'
<1>1. "connecting" \in Places
  BY DEF Places
<1>2. /\ pc'[a] = "connecting" /\ awaits'[a] = t
      /\ \A b \in Tasks \ {a} : pc'[b] = pc[b] /\ awaits'[b] = awaits[b]
  BY <1>1, MovesKeeps
<1>3. /\ link'[t] = "starting" /\ exitErr'[t] = "none" /\ link[t] = "closed"
      /\ \A b \in Tasks : awaits[b] # t
      /\ \A u \in Links \ {t} : link'[u] = link[u] /\ exitErr'[u] = exitErr[u]
  BY DEF FreeLink, Base, TypeOK
<1>4. t # current
  BY <1>3 DEF Hands
<1>5. /\ \A b \in Tasks : Has(b)' =>
           /\ awaits'[b] \in Links /\ awaits'[b] # current
           /\ link'[awaits'[b]] \in IF pc'[b] = "connecting" THEN {"starting"} ELSE {"closing", "reaping"}
      /\ \A b, c \in Tasks : Has(b)' /\ Has(c)' /\ awaits'[b] = awaits'[c] => b = c
      /\ \A b \in Tasks : ~Has(b)' /\ pc'[b] # "waiting" => awaits'[b] \notin Links
  BY <1>2, <1>3, <1>4 DEF Hands, Has
<1>6. /\ \A u \in Links : link'[u] \in {"up", "dead"} <=> u = current
      /\ \A u \in Links : link'[u] \in {"starting", "up"} => exitErr'[u] = "none"
  BY <1>3, <1>4 DEF Hands
<1>7. \A u \in Links : link'[u] \in {"starting", "closing", "reaping"} =>
        \E b \in Tasks : Has(b)' /\ awaits'[b] = u
  BY <1>2, <1>3 DEF Hands, Has
<1>8. QED
  BY <1>5, <1>6, <1>7 DEF Hands

\* A close() has run to its end, or was cut short.
LEMMA HandsEnd ==
  ASSUME Plain, Base, Hands, NEW a \in Tasks, Has(a),
         NEW p \in {"idle", "done", "sleeping"}, Moves(a, p, None),
         CloseEnds(awaits[a]) \/ CutShort(awaits[a]) \/ Leave(awaits[a]),
         UNCHANGED current
  PROVE  Hands'
<1>1. p \in Places /\ None \notin Links
  BY PlainRoles DEF Places
<1>2. /\ pc'[a] = p /\ awaits'[a] = None
      /\ \A b \in Tasks \ {a} : pc'[b] = pc[b] /\ awaits'[b] = awaits[b]
  BY <1>1, MovesKeeps
<1>3. /\ awaits[a] \in Links /\ link'[awaits[a]] \in {"closed", "left"} /\ exitErr' = exitErr
      /\ \A u \in Links \ {awaits[a]} : link'[u] = link[u]
      /\ awaits[a] # current
  BY DEF CloseEnds, CutShort, Leave, Base, TypeOK, Hands
<1>4. /\ \A b \in Tasks : Has(b)' =>
           /\ awaits'[b] \in Links /\ awaits'[b] # current
           /\ link'[awaits'[b]] \in IF pc'[b] = "connecting" THEN {"starting"} ELSE {"closing", "reaping"}
      /\ \A b, c \in Tasks : Has(b)' /\ Has(c)' /\ awaits'[b] = awaits'[c] => b = c
      /\ \A b \in Tasks : ~Has(b)' /\ pc'[b] # "waiting" => awaits'[b] \notin Links
  BY <1>1, <1>2, <1>3 DEF Hands, Has
<1>5. /\ \A u \in Links : link'[u] \in {"up", "dead"} <=> u = current
      /\ \A u \in Links : link'[u] \in {"starting", "up"} => exitErr'[u] = "none"
  BY <1>3 DEF Hands
<1>6. \A u \in Links : link'[u] \in {"starting", "closing", "reaping"} =>
        \E b \in Tasks : Has(b)' /\ awaits'[b] = u
  BY <1>2, <1>3 DEF Hands, Has
<1>7. QED
  BY <1>4, <1>5, <1>6 DEF Hands

\* The transport is up and becomes the current one; there was none.
LEMMA HandsUp ==
  ASSUME Plain, Base, Hands, NEW a \in Tasks, pc[a] = "connecting", current = None,
         NEW p \in {"idle", "done"}, Moves(a, p, None),
         current' = awaits[a], link' = [link EXCEPT ![awaits[a]] = "up"], UNCHANGED exitErr
  PROVE  Hands'
<1>1. p \in Places /\ None \notin Links /\ Has(a)
  BY PlainRoles DEF Places, Has
<1>2. /\ pc'[a] = p /\ awaits'[a] = None
      /\ \A b \in Tasks \ {a} : pc'[b] = pc[b] /\ awaits'[b] = awaits[b]
  BY <1>1, MovesKeeps
<1>3. /\ awaits[a] \in Links /\ link[awaits[a]] = "starting" /\ link'[awaits[a]] = "up"
      /\ exitErr[awaits[a]] = "none"
      /\ \A u \in Links \ {awaits[a]} : link'[u] = link[u]
  BY <1>1 DEF Base, TypeOK, Hands
<1>4. \A u \in Links : link[u] \notin {"up", "dead"}
  BY <1>1 DEF Hands
<1>5. /\ \A b \in Tasks : Has(b)' =>
           /\ awaits'[b] \in Links /\ awaits'[b] # current'
           /\ link'[awaits'[b]] \in IF pc'[b] = "connecting" THEN {"starting"} ELSE {"closing", "reaping"}
      /\ \A b, c \in Tasks : Has(b)' /\ Has(c)' /\ awaits'[b] = awaits'[c] => b = c
      /\ \A b \in Tasks : ~Has(b)' /\ pc'[b] # "waiting" => awaits'[b] \notin Links
  BY <1>1, <1>2, <1>3 DEF Hands, Has
<1>6. /\ \A u \in Links : link'[u] \in {"up", "dead"} <=> u = current'
      /\ \A u \in Links : link'[u] \in {"starting", "up"} => exitErr'[u] = "none"
  BY <1>3, <1>4 DEF Hands
<1>7. \A u \in Links : link'[u] \in {"starting", "closing", "reaping"} =>
        \E b \in Tasks : Has(b)' /\ awaits'[b] = u
  BY <1>2, <1>3 DEF Hands, Has
<1>8. QED
  BY <1>5, <1>6, <1>7 DEF Hands

\* A refused transport begins to close.
LEMMA HandsDiscard ==
  ASSUME Plain, Base, Hands, NEW a \in Tasks, pc[a] = "connecting",
         Moves(a, "discarding", awaits[a]), link' = [link EXCEPT ![awaits[a]] = "closing"],
         UNCHANGED <<exitErr, current>>
  PROVE  Hands'
<1>1. "discarding" \in Places /\ Has(a) /\ awaits[a] \in Links
  BY DEF Places, Has, Base
<1>2. /\ pc'[a] = "discarding" /\ awaits'[a] = awaits[a]
      /\ \A b \in Tasks \ {a} : pc'[b] = pc[b] /\ awaits'[b] = awaits[b]
  BY <1>1, MovesKeeps
<1>3. /\ link[awaits[a]] = "starting" /\ link'[awaits[a]] = "closing" /\ awaits[a] # current
      /\ \A u \in Links \ {awaits[a]} : link'[u] = link[u]
  BY <1>1 DEF Base, TypeOK, Hands
<1>4. /\ \A b \in Tasks : Has(b)' =>
           /\ awaits'[b] \in Links /\ awaits'[b] # current
           /\ link'[awaits'[b]] \in IF pc'[b] = "connecting" THEN {"starting"} ELSE {"closing", "reaping"}
      /\ \A b, c \in Tasks : Has(b)' /\ Has(c)' /\ awaits'[b] = awaits'[c] => b = c
      /\ \A b \in Tasks : ~Has(b)' /\ pc'[b] # "waiting" => awaits'[b] \notin Links
  BY <1>1, <1>2, <1>3 DEF Hands, Has
<1>5. /\ \A u \in Links : link'[u] \in {"up", "dead"} <=> u = current
      /\ \A u \in Links : link'[u] \in {"starting", "up"} => exitErr'[u] = "none"
  BY <1>3 DEF Hands
<1>6. \A u \in Links : link'[u] \in {"starting", "closing", "reaping"} =>
        \E b \in Tasks : Has(b)' /\ awaits'[b] = u
  BY <1>1, <1>2, <1>3 DEF Hands, Has
<1>7. QED
  BY <1>4, <1>5, <1>6 DEF Hands

\* The current transport begins to close, and is current no more.
LEMMA HandsClose ==
  ASSUME Plain, Base, Hands, NEW a \in Tasks, ~Has(a),
         NEW p \in {"closing", "closing_auth", "closing_fatal"}, CloseCurrent(a, p)
  PROVE  /\ Hands' /\ current \in Links /\ current' = None /\ exitErr' = exitErr
         /\ link'[current] = IF link[current] = "dead" THEN "reaping" ELSE "closing"
         /\ \A u \in Links \ {current} : link'[u] = link[u]
         /\ pc'[a] = p /\ awaits'[a] = current
         /\ \A b \in Tasks \ {a} : pc'[b] = pc[b] /\ awaits'[b] = awaits[b]
<1>1. p \in Places /\ None \notin Links /\ p \notin {"connecting", "waiting"}
  BY PlainRoles DEF Places
<1>2. current \in Links /\ current' = None /\ Moves(a, p, current) /\ exitErr' = exitErr
  BY <1>1, CloseCurrentTypes
<1>3. /\ pc'[a] = p /\ awaits'[a] = current
      /\ \A b \in Tasks \ {a} : pc'[b] = pc[b] /\ awaits'[b] = awaits[b]
  BY <1>1, <1>2, MovesKeeps
<1>4. /\ link'[current] = IF link[current] = "dead" THEN "reaping" ELSE "closing"
      /\ \A u \in Links \ {current} : link'[u] = link[u]
  BY <1>2 DEF CloseCurrent, Base, TypeOK
<1>5. \A b \in Tasks : Has(b) => awaits[b] # current
  BY DEF Hands
<1>6. /\ \A b \in Tasks : Has(b)' =>
           /\ awaits'[b] \in Links /\ awaits'[b] # current'
           /\ link'[awaits'[b]] \in IF pc'[b] = "connecting" THEN {"starting"} ELSE {"closing", "reaping"}
      /\ \A b, c \in Tasks : Has(b)' /\ Has(c)' /\ awaits'[b] = awaits'[c] => b = c
      /\ \A b \in Tasks : ~Has(b)' /\ pc'[b] # "waiting" => awaits'[b] \notin Links
  BY <1>1, <1>2, <1>3, <1>4, <1>5 DEF Hands, Has
<1>7. /\ \A u \in Links : link'[u] \in {"up", "dead"} <=> u = current'
      /\ \A u \in Links : link'[u] \in {"starting", "up"} => exitErr'[u] = "none"
  BY <1>1, <1>2, <1>4 DEF Hands
<1>8. \A u \in Links : link'[u] \in {"starting", "closing", "reaping"} =>
        \E b \in Tasks : Has(b)' /\ awaits'[b] = u
  BY <1>3, <1>4 DEF Hands, Has
<1>9. Hands'
  BY <1>6, <1>7, <1>8 DEF Hands
<1>10. QED
  BY <1>2, <1>3, <1>4, <1>9

\* A step that leaves the transports alone.
LEMMA HandsMove ==
  ASSUME Plain, Base, Hands, NEW a \in Tasks, ~Has(a),
         NEW p \in Places, p \notin {"connecting", "discarding", "closing", "closing_auth", "closing_fatal"},
         NEW x \in Links \cup Loops \cup {None}, x \in Links <=> p = "waiting",
         Moves(a, p, x), UNCHANGED <<link, exitErr, current>>
  PROVE  Hands'
<1>1. /\ pc'[a] = p /\ awaits'[a] = x
      /\ \A b \in Tasks \ {a} : pc'[b] = pc[b] /\ awaits'[b] = awaits[b]
  BY MovesKeeps
<1>2. \A b \in Tasks : (Has(b)' <=> Has(b)) /\ (Has(b) => awaits'[b] = awaits[b] /\ pc'[b] = pc[b])
  BY <1>1 DEF Has
<1>3. \A b \in Tasks : ~Has(b)' /\ pc'[b] # "waiting" => awaits'[b] \notin Links
  BY <1>1, <1>2 DEF Hands
<1>4. QED
  BY <1>2, <1>3 DEF Hands

-----------------------------------------------------------------------------
(* Each step keeps one owner                                                *)

\* What is left when a task of the connecting kind moves.
LEMMA BeginsOwn ==
  ASSUME Plain, Base, OInv, NEW a \in {Starter} \cup Loops, ~Has(a), BeginConnect(a),
         UNCHANGED <<current, stopped>>, current = None,
         \A c \in Callers : pc[c] = "idle",
         IF a = Starter THEN pc[a] = "idle" ELSE Alive(a) /\ UNCHANGED state
  PROVE  OInv'
<1>1. PICK t \in Links :
        /\ FreeLink(t) /\ link' = [link EXCEPT ![t] = "starting"]
        /\ exitErr' = [exitErr EXCEPT ![t] = "none"] /\ Moves(a, "connecting", t)
  BY DEF BeginConnect
<1>2. a \in Tasks /\ "connecting" \in Places
  BY PlainRoles DEF Places
<1>3. /\ pc'[a] = "connecting"
      /\ \A b \in Tasks \ {a} : pc'[b] = pc[b] /\ awaits'[b] = awaits[b]
  BY <1>1, <1>2, MovesKeeps
<1>4. Hands'
  BY <1>1, <1>2, HandsBegin DEF OInv
<1>5. Courses'
  BY <1>3, PlainRoles DEF OInv, Courses
<1>6. \A l \in Loops : Alive(l)' => Alive(l)
  BY <1>3, PlainRoles DEF Alive
<1>7. Alone'
  <2>1. CASE a = Starter
    <3>1. \A l \in Loops : ~Alive(l)
      BY <2>1 DEF OInv, Alone
    <3>2. QED
      BY <1>3, <1>6, <2>1, <3>1, PlainRoles DEF OInv, Alone, Alive
  <2>2. CASE a # Starter
    BY <1>3, <1>6, <2>2, PlainRoles DEF OInv, Alone, Alive
  <2>3. QED
    BY <2>1, <2>2
<1>8. \A c \in Callers : pc'[c] = "idle"
  BY <1>3, PlainRoles
<1>9. Calling' /\ Spared'
  BY <1>8 DEF Calling, Spared, Closer
<1>10. QED
  BY <1>4, <1>5, <1>7, <1>9 DEF OInv

\* start() begins a connection (session.py:123-127).
LEMMA StartOwn ==
  ASSUME Plain, Base, OInv, Start
  PROVE  OInv'
<1>1. /\ pc[Starter] = "idle" /\ BeginConnect(Starter) /\ UNCHANGED current /\ ~stopped /\ ~stopped'
      /\ current = None /\ (\A c \in Callers : pc[c] = "idle") /\ ~Has(Starter)
  BY DEF Start, Base, OInv, Alone, Has
<1>2. stopped' = stopped
  BY <1>1 DEF Start, Base, TypeOK
<1>3. QED
  BY <1>1, <1>2, BeginsOwn

\* A coroutine that was starting or closing a transport has closed or left it.
LEMMA EndsOwn ==
  ASSUME Plain, Base, OInv, NEW a \in {Starter, Stopper} \cup Loops, Has(a),
         NEW p \in {"idle", "done", "sleeping"}, Moves(a, p, None),
         CloseEnds(awaits[a]) \/ CutShort(awaits[a]) \/ Leave(awaits[a]),
         UNCHANGED <<current, stopped>>,
         a = Starter => p = "done", a = Stopper => p = "done" /\ state' # "connected",
         a \in Loops => p # "done" /\ (p = "idle" \/ UNCHANGED state)
  PROVE  OInv'
<1>1. a \in Tasks /\ p \in Places
  BY PlainRoles DEF Places
<1>2. /\ pc'[a] = p /\ \A b \in Tasks \ {a} : pc'[b] = pc[b] /\ awaits'[b] = awaits[b]
  BY <1>1, MovesKeeps
<1>3. Hands'
  BY <1>1, HandsEnd DEF OInv
<1>4. Courses'
  BY <1>2, PlainRoles DEF OInv, Courses, Has
<1>5. a # Stopper => current = None
  BY PlainRoles DEF OInv, Alone, Has, Courses
<1>6. \A l \in Loops : Alive(l)' => Alive(l) /\ (UNCHANGED state \/ (stopped /\ state' # "connected"))
  <2>1. CASE a = Starter
    BY <1>2, <2>1, PlainRoles DEF OInv, Alone, Alive, Has
  <2>2. CASE a = Stopper
    BY <1>2, <2>2, PlainRoles DEF OInv, Courses, Alive, Has
  <2>3. CASE a \in Loops /\ p = "idle"
    BY <1>2, <2>3, PlainRoles DEF OInv, Alone, Alive, Has
  <2>4. CASE a \in Loops /\ p # "idle"
    BY <1>2, <2>4, PlainRoles DEF OInv, Alone, Alive, Has
  <2>5. QED
    BY <2>1, <2>2, <2>3, <2>4
<1>7. Alone'
  BY <1>2, <1>5, <1>6, PlainRoles DEF OInv, Alone, Alive, Has
<1>8. Calling'
  <2>1. \A c \in Callers : pc'[c] = pc[c] /\ awaits'[c] = awaits[c]
    BY <1>2, PlainRoles
  <2>2. exitErr' = exitErr
    BY DEF CloseEnds, CutShort, Leave
  <2>3. \A c \in Callers : Closer(c) => link'[awaits[c]] = link[awaits[c]]
    <3>1. ASSUME NEW c \in Callers, Closer(c)
          PROVE  awaits[c] # awaits[a] /\ awaits[c] \in Links
      BY <1>1, <3>1, PlainRoles DEF OInv, Hands, Has, Closer
    <3>2. QED
      BY <3>1 DEF CloseEnds, CutShort, Leave, Base, TypeOK
  <2>4. QED
    BY <2>1, <2>2, <2>3 DEF OInv, Calling, Closer
<1>9. Spared'
  <2>1. exitErr' = exitErr
    BY DEF CloseEnds, CutShort, Leave
  <2>2. \A c \in Callers : pc'[c] = pc[c] /\ awaits'[c] = awaits[c]
    BY <1>2, PlainRoles
  <2>3. QED
    BY <1>6, <2>1, <2>2 DEF OInv, Spared
<1>10. QED
  BY <1>3, <1>4, <1>7, <1>8, <1>9 DEF OInv

\* _connect, whoever runs it (session.py:143-158).
LEMMA ConnectOwn ==
  ASSUME Plain, Base, OInv, NEW a \in Connectors, Connect(a)
  PROVE  OInv'
<1>1. a \in {Starter} \cup Loops /\ a \in Tasks /\ a # Stopper /\ (a # Starter => a \in Loops)
  BY PlainRoles
<1>2. ASSUME NEW kind \in StartFailures \cup {"mismatch"}, ConnectRaises(a, kind), Has(a),
             CloseEnds(awaits[a])
      PROVE  OInv'
  <2>1. UNCHANGED <<current, stopped>> /\ kind \in Kinds \cup {"malformed"}
    BY <1>2, AnyRoles DEF ConnectRaises, Kinds
  <2>2. CASE a = Starter
    <3>1. Moves(a, "done", None)
      BY <1>2, <2>2 DEF ConnectRaises, StartRaises, Finishes
    <3>2. QED
      BY <1>1, <1>2, <2>1, <2>2, <3>1, PlainRoles, EndsOwn
  <2>3. CASE a # Starter
    <3>1. TryConnectEnds(a, kind)
      BY <1>2, <2>3 DEF ConnectRaises
    <3>2. Moves(a, "idle", None) \/ (Moves(a, "sleeping", None) /\ UNCHANGED state)
      BY <1>1, <2>1, <2>3, <3>1 DEF TryConnectEnds, Finishes, Kinds, Plain
    <3>3. QED
      BY <1>1, <1>2, <2>1, <2>3, <3>2, EndsOwn
  <2>4. QED
    BY <2>2, <2>3
<1>3. CASE ConnectFails(a) \/ DiscardReturns(a)
  BY <1>2, <1>3 DEF ConnectFails, DiscardReturns, Has
<1>4. CASE HandshakeRefused(a)
  <2>1. /\ pc[a] = "connecting" /\ Moves(a, "discarding", awaits[a])
        /\ link' = [link EXCEPT ![awaits[a]] = "closing"]
        /\ UNCHANGED <<state, stopped, current, exitErr>>
    BY <1>4 DEF HandshakeRefused, session
  <2>2. Hands'
    BY <1>1, <2>1, HandsDiscard DEF OInv
  <2>3. "discarding" \in Places /\ awaits[a] \in Links
    BY <1>1, <2>1 DEF Places, Base
  <2>4. /\ pc'[a] = "discarding"
        /\ \A b \in Tasks \ {a} : pc'[b] = pc[b] /\ awaits'[b] = awaits[b]
    BY <1>1, <2>1, <2>3, MovesKeeps
  <2>5. \A c \in Callers : pc'[c] = "idle"
    BY <1>1, <2>1, <2>4, PlainRoles DEF OInv, Alone
  <2>6. Calling' /\ Spared'
    BY <2>5 DEF Calling, Spared, Closer
  <2>7. Courses'
    BY <1>1, <2>1, <2>4, PlainRoles DEF OInv, Courses
  <2>8. Alone'
    BY <1>1, <2>1, <2>4, <2>5, PlainRoles DEF OInv, Alone, Alive
  <2>9. QED
    BY <2>2, <2>6, <2>7, <2>8 DEF OInv
<1>5. CASE ConnectSucceeds(a)
  <2>1. /\ pc[a] = "connecting" /\ current' = awaits[a]
        /\ link' = [link EXCEPT ![awaits[a]] = "up"] /\ state' = "connected"
        /\ Finishes(a) /\ UNCHANGED <<stopped, exitErr>>
    BY <1>5 DEF ConnectSucceeds
  <2>2. PICK p \in {"idle", "done"} : Moves(a, p, None) /\ (p = "done" <=> a = Starter)
    BY <1>1, <2>1 DEF Finishes
  <2>3. current = None
    BY <1>1, <2>1 DEF OInv, Alone
  <2>4. Hands'
    BY <1>1, <2>1, <2>2, <2>3, HandsUp DEF OInv
  <2>5. p \in Places
    BY DEF Places
  <2>6. /\ pc'[a] = p /\ \A b \in Tasks \ {a} : pc'[b] = pc[b] /\ awaits'[b] = awaits[b]
    BY <1>1, <2>2, <2>5, MovesKeeps
  <2>7. \A c \in Callers : pc'[c] = "idle"
    BY <1>1, <2>1, <2>6, PlainRoles DEF OInv, Alone
  <2>8. Calling' /\ Spared'
    BY <2>7 DEF Calling, Spared, Closer
  <2>9. Courses'
    BY <1>1, <2>1, <2>2, <2>6, PlainRoles DEF OInv, Courses
  <2>10. \A l \in Loops : ~Alive(l)'
    BY <1>1, <2>1, <2>2, <2>6, PlainRoles DEF OInv, Alone, Alive
  <2>11. pc'[Starter] = "done"
    BY <1>1, <2>1, <2>2, <2>6, PlainRoles DEF OInv, Alone, Alive
  <2>12. Alone'
    BY <2>7, <2>10, <2>11 DEF Alone, Alive
  <2>13. QED
    BY <2>4, <2>8, <2>9, <2>12 DEF OInv
<1>6. QED
  BY <1>3, <1>4, <1>5 DEF Connect

\* A request begins, or is over and nothing else happens.
LEMMA CallMovesOwn ==
  ASSUME Plain, Base, OInv, NEW c \in Callers, NEW p \in {"idle", "waiting"}, ~Has(c),
         NEW x \in Links \cup {None}, Moves(c, p, x), x \in Links <=> p = "waiting",
         p = "waiting" => state = "connected" /\ current # None /\ x = current,
         UNCHANGED <<link, exitErr, current, stopped>>,
         state' = state \/ (pc[c] = "waiting" /\ exitErr[awaits[c]] \in {"auth", "bootstrap"} /\ state' # "connected")
  PROVE  OInv'
<1>1. c \in Tasks /\ p \in Places
  BY PlainRoles DEF Places
<1>2. /\ pc'[c] = p /\ awaits'[c] = x
      /\ \A b \in Tasks \ {c} : pc'[b] = pc[b] /\ awaits'[b] = awaits[b]
  BY <1>1, MovesKeeps
<1>3. Hands'
  BY <1>1, HandsMove DEF OInv
<1>4. Courses'
  BY <1>2, PlainRoles DEF OInv, Courses
<1>5. \A a \in {Starter, Stopper} \cup Loops : pc'[a] = pc[a]
  BY <1>2, PlainRoles
<1>6. Alone'
  BY <1>2, <1>5, PlainRoles DEF OInv, Alone, Alive
<1>7. Calling'
  BY <1>2, PlainRoles DEF OInv, Calling, Closer, Has
<1>8. Spared'
  <2>1. SUFFICES ASSUME NEW l \in Loops, Alive(l), ~stopped, state' # "reconnecting",
                        NEW d \in Callers, pc'[d] = "waiting"
                 PROVE  exitErr[awaits'[d]] \in {"auth", "bootstrap"}
    BY <1>5 DEF Spared, Alive
  <2>2. d # c
    BY <1>2, <2>1 DEF OInv, Alone
  <2>3. pc[d] = "waiting" /\ awaits'[d] = awaits[d]
    BY <1>2, <2>1, <2>2, PlainRoles
  <2>4. QED
    BY <2>1, <2>3 DEF OInv, Spared, Calling
<1>9. QED
  BY <1>3, <1>4, <1>6, <1>7, <1>8 DEF OInv

\* A loop is created when there is none: all requests under way would have
\* failed for good if there were one.
LEMMA SpawnOwn ==
  ASSUME Plain, Base, OInv, NEW c \in Callers, pc[c] = "waiting", Spawns(c),
         exitErr[awaits[c]] \notin {"auth", "bootstrap"}, ~stopped, state # "reconnecting",
         state' = "reconnecting", UNCHANGED <<link, exitErr, current, stopped>>
  PROVE  OInv'
<1>1. PICK l \in Loops :
        /\ FreeLoop(l)
        /\ pc' = [pc EXCEPT ![c] = "idle", ![l] = "created"]
        /\ awaits' = [awaits EXCEPT ![c] = None]
  BY DEF Spawns
<1>2. c \in Tasks /\ l \in Tasks /\ c # l /\ pc[l] = "idle" /\ ~Has(l) /\ ~Has(c)
  BY <1>1, PlainRoles DEF FreeLoop, Has
<1>3. /\ pc'[c] = "idle" /\ pc'[l] = "created" /\ awaits'[c] = None
      /\ \A b \in Tasks \ {c, l} : pc'[b] = pc[b]
      /\ \A b \in Tasks \ {c} : awaits'[b] = awaits[b]
  BY <1>1, <1>2 DEF Base, TypeOK
<1>4. \A m \in Loops : ~Alive(m)
  BY DEF OInv, Spared
<1>5. \A m \in Loops : Alive(m)' => m = l
  BY <1>2, <1>3, <1>4, PlainRoles DEF Alive
<1>6. Hands'
  <2>1. \A b \in Tasks : (Has(b)' <=> Has(b)) /\ (Has(b) => awaits'[b] = awaits[b] /\ pc'[b] = pc[b])
    BY <1>2, <1>3 DEF Has
  <2>2. \A b \in Tasks : ~Has(b)' /\ pc'[b] # "waiting" => awaits'[b] \notin Links
    BY <1>2, <1>3, <2>1, PlainRoles DEF OInv, Hands
  <2>3. QED
    BY <2>1, <2>2 DEF OInv, Hands
<1>7. Courses'
  BY <1>3, PlainRoles DEF OInv, Courses
<1>8. pc[Starter] = "done"
  BY PlainRoles DEF OInv, Courses, Alone
<1>9. Alone'
  BY <1>3, <1>5, <1>8, PlainRoles DEF OInv, Alone, Alive
<1>10. Calling'
  BY <1>2, <1>3, PlainRoles DEF OInv, Calling, Closer
<1>11. Spared'
  BY DEF Spared
<1>12. QED
  BY <1>6, <1>7, <1>9, <1>10, <1>11 DEF OInv

\* A request that fails for good begins to close the current transport, of which
\* the process has exited: whoever else waits, waits for the same one.
LEMMA CallerClosesOwn ==
  ASSUME Plain, Base, OInv, NEW c \in Callers, pc[c] = "waiting",
         NEW p \in {"closing_auth", "closing_fatal"}, CloseCurrent(c, p),
         exitErr[awaits[c]] \in {"auth", "bootstrap"}, UNCHANGED <<state, stopped>>
  PROVE  OInv'
<1>1. c \in Tasks /\ ~Has(c)
  BY PlainRoles DEF Has
<1>2. /\ Hands' /\ current \in Links /\ current' = None /\ exitErr' = exitErr
      /\ link'[current] = IF link[current] = "dead" THEN "reaping" ELSE "closing"
      /\ \A u \in Links \ {current} : link'[u] = link[u]
      /\ pc'[c] = p /\ awaits'[c] = current
      /\ \A b \in Tasks \ {c} : pc'[b] = pc[b] /\ awaits'[b] = awaits[b]
  BY <1>1, HandsClose DEF OInv
<1>3. awaits[c] = current /\ current # None
  BY <1>2, PlainRoles DEF OInv, Calling
<1>4. link[current] = "dead"
  BY <1>2, <1>3 DEF OInv, Hands
<1>5. Courses'
  BY <1>2, PlainRoles DEF OInv, Courses
<1>6. \A a \in {Starter, Stopper} \cup Loops : pc'[a] = pc[a]
  BY <1>2, PlainRoles
<1>7. Alone'
  BY <1>2, <1>3, <1>6, PlainRoles DEF OInv, Alone, Alive
<1>8. \A d \in Callers \ {c} : pc'[d] = pc[d] /\ awaits'[d] = awaits[d] /\ ~Closer(d)
  BY <1>2, <1>3, PlainRoles DEF OInv, Calling
<1>9. Calling'
  BY <1>2, <1>3, <1>4, <1>8 DEF OInv, Calling, Closer
<1>10. Spared'
  BY <1>2, <1>6, <1>8 DEF OInv, Spared, Alive
<1>11. QED
  BY <1>2, <1>5, <1>7, <1>9, <1>10 DEF OInv

\* The transport is closed: the session settles.
LEMMA CallerCloseReturnsOwn ==
  ASSUME Plain, Base, OInv, NEW c \in Callers, CallerCloseReturns(c)
  PROVE  OInv'
<1>1. /\ Closer(c) /\ Has(c) /\ c \in Tasks /\ "idle" \in Places /\ Moves(c, "idle", None)
      /\ CloseEnds(awaits[c]) /\ state' # "connected" /\ UNCHANGED <<stopped, current>>
  BY PlainRoles DEF CallerCloseReturns, Closer, Has, Finishes, Places
<1>2. /\ pc'[c] = "idle" /\ \A b \in Tasks \ {c} : pc'[b] = pc[b] /\ awaits'[b] = awaits[b]
  BY <1>1, MovesKeeps
<1>3. Hands'
  BY <1>1, HandsEnd DEF OInv
<1>4. Courses'
  BY <1>1, <1>2, PlainRoles DEF OInv, Courses
<1>5. \A a \in {Starter, Stopper} \cup Loops : pc'[a] = pc[a]
  BY <1>2, PlainRoles
<1>6. current = None /\ exitErr' = exitErr /\ exitErr[awaits[c]] \in {"auth", "bootstrap"}
      /\ \A d \in Callers : pc[d] = "waiting" => awaits[d] = awaits[c]
  BY <1>1 DEF OInv, Calling, CloseEnds
<1>7. \A d \in Callers \ {c} : pc'[d] = pc[d] /\ awaits'[d] = awaits[d]
  BY <1>2, PlainRoles
<1>8. Alone'
  BY <1>1, <1>2, <1>5, <1>6, PlainRoles DEF OInv, Alone, Alive
<1>9. Calling'
  <2>1. \A d \in Callers \ {c} : Closer(d) => awaits[d] \in Links /\ awaits[d] # awaits[c]
    BY <1>1, PlainRoles DEF OInv, Hands, Has, Closer
  <2>2. \A d \in Callers \ {c} : Closer(d) => link'[awaits[d]] = link[awaits[d]]
    BY <1>1, <2>1 DEF CloseEnds, Base, TypeOK
  <2>3. QED
    BY <1>1, <1>2, <1>6, <1>7, <2>2 DEF OInv, Calling, Closer
<1>10. Spared'
  BY <1>2, <1>6, <1>7 DEF Spared
<1>11. QED
  BY <1>3, <1>4, <1>8, <1>9, <1>10 DEF OInv

\* A request, from its call to its answer or failure (session.py:228-258).
LEMMA RequestOwn ==
  ASSUME Plain, Base, OInv, NEW c \in Callers, Call(c) \/ CallReturns(c)
  PROVE  OInv'
<1>1. c \in Tasks /\ c \notin {Starter, Stopper} /\ None \notin Links
  BY PlainRoles
<1>2. CASE Call(c)
  <2>1. /\ pc[c] = "idle" /\ state = "connected" /\ current \in Links /\ current # None
        /\ Moves(c, "waiting", current) /\ UNCHANGED <<link, exitErr, current, stopped, state>>
    BY <1>2 DEF Call, Base, TypeOK, session, links
  <2>2. QED
    BY <2>1, CallMovesOwn DEF Has
<1>3. ASSUME Finishes(c), pc[c] = "waiting", UNCHANGED <<link, exitErr, current, stopped>>,
             state' = state \/ (exitErr[awaits[c]] \in {"auth", "bootstrap"} /\ state' # "connected")
      PROVE  OInv'
  <2>1. Moves(c, "idle", None) /\ ~Has(c)
    BY <1>1, <1>3 DEF Finishes, Has
  <2>2. QED
    BY <1>1, <1>3, <2>1, CallMovesOwn
<1>4. CASE Answered(c)
  BY <1>3, <1>4 DEF Answered, session, links
<1>5. CASE RequestFails(c)
  <2>1. pc[c] = "waiting" /\ awaits[c] \in Links
        /\ exitErr[awaits[c]] \in {"none", "transport", "auth", "bootstrap"}
    BY <1>1, <1>5 DEF RequestFails, Base, TypeOK
  <2>2. CASE exitErr[awaits[c]] \in {"auth", "bootstrap"}
    <3>1. PICK p \in {"closing_auth", "closing_fatal"}, final \in {"auth_required", "disconnected"},
               kind \in {"auth", "bootstrap"} : FailsForGood(c, kind, p, final)
      <4>1. CASE exitErr[awaits[c]] = "auth"
        BY <1>5, <4>1 DEF RequestFails, RequestRaises
      <4>2. CASE exitErr[awaits[c]] = "bootstrap"
        BY <1>5, <4>2 DEF RequestFails, RequestRaises
      <4>3. QED
        BY <2>2, <4>1, <4>2
    <3>2. CASE CloseCurrent(c, p) /\ UNCHANGED state
      BY <2>1, <2>2, <3>1, <3>2, CallerClosesOwn DEF FailsForGood
    <3>3. CASE current = None /\ state' = final /\ Finishes(c) /\ UNCHANGED <<links, current>>
      BY <1>3, <2>1, <2>2, <3>1, <3>3 DEF FailsForGood, links
    <3>4. QED
      BY <3>1, <3>2, <3>3 DEF FailsForGood
  <2>3. CASE exitErr[awaits[c]] \in {"none", "transport"}
    <3>1. OnTransportFailure(c)
      <4>1. CASE exitErr[awaits[c]] = "none"
        BY <1>5, <4>1 DEF RequestFails, RequestRaises
      <4>2. CASE exitErr[awaits[c]] = "transport"
        BY <1>5, <4>2 DEF RequestFails, RequestRaises
      <4>3. QED
        BY <2>3, <4>1, <4>2
    <3>2. UNCHANGED <<stopped, current, link, exitErr>>
      BY <3>1 DEF OnTransportFailure, links
    <3>3. CASE stopped \/ state = "reconnecting"
      BY <1>3, <2>1, <3>1, <3>2, <3>3 DEF OnTransportFailure
    <3>4. CASE ~(stopped \/ state = "reconnecting")
      <4>1. Spawns(c) /\ state' = "reconnecting"
        BY <3>1, <3>4 DEF OnTransportFailure
      <4>2. QED
        BY <2>1, <2>3, <3>2, <3>4, <4>1, SpawnOwn
    <3>5. QED
      BY <3>3, <3>4
  <2>4. QED
    BY <2>1, <2>2, <2>3
<1>6. ~VersionFrame(c)
  BY DEF VersionFrame, Plain
<1>7. QED
  BY <1>2, <1>4, <1>5, <1>6, CallerCloseReturnsOwn DEF CallReturns

\* The loop, or stop(), begins to close the current transport.
LEMMA ClosesOwn ==
  ASSUME Plain, Base, OInv, NEW a \in {Stopper} \cup Loops, ~Has(a), CloseCurrent(a, "closing"),
         UNCHANGED state, a \in Loops => Alive(a) /\ stopped' = stopped, a = Stopper => stopped'
  PROVE  OInv'
<1>1. a \in Tasks
  BY PlainRoles
<1>2. /\ Hands' /\ current \in Links /\ current' = None /\ exitErr' = exitErr
      /\ \A u \in Links \ {current} : link'[u] = link[u]
      /\ pc'[a] = "closing" /\ awaits'[a] = current
      /\ \A b \in Tasks \ {a} : pc'[b] = pc[b] /\ awaits'[b] = awaits[b]
  BY <1>1, HandsClose DEF OInv
<1>3. Courses'
  BY <1>2, PlainRoles DEF OInv, Courses
<1>4. \A c \in Callers : pc'[c] = pc[c] /\ awaits'[c] = awaits[c] /\ ~Closer(c)
  BY <1>2, PlainRoles DEF OInv, Calling
<1>5. \A l \in Loops : Alive(l)' <=> Alive(l)
  BY <1>2, PlainRoles DEF Alive
<1>6. Alone'
  BY <1>2, <1>4, <1>5, PlainRoles DEF OInv, Alone
<1>7. Calling'
  BY <1>2, <1>4 DEF OInv, Calling, Closer
<1>8. Spared'
  BY <1>2, <1>4, <1>5 DEF OInv, Spared
<1>9. QED
  BY <1>2, <1>3, <1>6, <1>7, <1>8 DEF OInv

\* A loop or stop() moves and leaves the transports alone.
LEMMA MovesOwn ==
  ASSUME Plain, Base, OInv, NEW a \in {Stopper} \cup Loops, ~Has(a),
         NEW p \in {"idle", "sleeping", "cancelling", "done"}, NEW x \in Loops \cup {None},
         Moves(a, p, x), UNCHANGED <<link, exitErr, current>>,
         IF a = Stopper THEN p \in {"cancelling", "done"} /\ stopped' /\ (state' = state \/ state' = "disconnected")
         ELSE p \in {"idle", "sleeping"} /\ Alive(a) /\ UNCHANGED <<state, stopped>>,
         p = "sleeping" => current = None
  PROVE  OInv'
<1>1. a \in Tasks /\ p \in Places /\ x \notin Links
  BY PlainRoles DEF Places
<1>2. pc'[a] = p /\ \A b \in Tasks \ {a} : pc'[b] = pc[b] /\ awaits'[b] = awaits[b]
  BY <1>1, MovesKeeps
<1>3. Hands'
  BY <1>1, HandsMove DEF OInv
<1>4. Courses'
  BY <1>2, PlainRoles DEF OInv, Courses
<1>5. \A c \in Callers : pc'[c] = pc[c] /\ awaits'[c] = awaits[c]
  BY <1>2, PlainRoles
<1>6. \A l \in Loops : Alive(l)' => Alive(l)
  BY <1>2, PlainRoles DEF Alive
<1>7. Alone'
  BY <1>2, <1>5, <1>6, PlainRoles DEF OInv, Alone, Alive
<1>8. Calling'
  BY <1>5 DEF OInv, Calling, Closer
<1>9. Spared'
  BY <1>5, <1>6, PlainRoles DEF OInv, Spared
<1>10. QED
  BY <1>3, <1>4, <1>7, <1>8, <1>9 DEF OInv

\* _reconnect_loop (session.py:184-212).
LEMMA LoopOwn ==
  ASSUME Plain, Base, OInv, Abandoned, NEW l \in Loops, LoopRuns(l)
  PROVE  OInv'
<1>1. l \in Tasks /\ l \notin {Starter, Stopper}
  BY PlainRoles
<1>2. ASSUME IF stopped THEN Finishes(l) ELSE Moves(l, "sleeping", None)
      PROVE  \E p \in {"idle", "sleeping"} : Moves(l, p, None)
  BY <1>1, <1>2 DEF Finishes
<1>3. CASE LoopBegins(l)
  <2>1. pc[l] = "created" /\ ~Has(l) /\ Alive(l) /\ UNCHANGED <<state, stopped>>
    BY <1>3 DEF LoopBegins, Has, Alive
  <2>2. CASE CloseCurrent(l, "closing")
    BY <1>1, <2>1, <2>2, ClosesOwn
  <2>3. CASE ~CloseCurrent(l, "closing")
    <3>1. current = None /\ UNCHANGED <<link, exitErr, current>>
          /\ \E p \in {"idle", "sleeping"} : Moves(l, p, None)
      BY <1>2, <1>3, <2>3 DEF LoopBegins, links
    <3>2. QED
      BY <1>1, <2>1, <3>1, MovesOwn
  <2>4. QED
    BY <2>2, <2>3
<1>4. CASE LoopCloseReturns(l)
  <2>1. Has(l) /\ CloseEnds(awaits[l]) /\ UNCHANGED <<state, stopped, current>>
        /\ \E p \in {"idle", "sleeping"} : Moves(l, p, None)
    BY <1>2, <1>4 DEF LoopCloseReturns, Has, session
  <2>2. QED
    BY <1>1, <2>1, EndsOwn
<1>5. CASE SleepReturns(l)
  <2>1. /\ pc[l] = "sleeping" /\ Settled /\ ~Has(l) /\ Alive(l)
        /\ UNCHANGED <<state, stopped, current>>
    BY <1>5 DEF SleepReturns, Has, Alive, session
  <2>2. current = None
    BY <2>1 DEF OInv, Alone
  <2>3. CASE stopped
    <3>1. Moves(l, "idle", None) /\ UNCHANGED <<link, exitErr>>
      BY <1>1, <1>5, <2>3 DEF SleepReturns, Finishes, links
    <3>2. QED
      BY <1>1, <2>1, <3>1, MovesOwn
  <2>4. CASE ~stopped
    <3>1. BeginConnect(l)
      BY <1>5, <2>4 DEF SleepReturns
    <3>2. ASSUME NEW c \in Callers
          PROVE  pc[c] = "idle"
      <4>1. c \in Tasks
        BY PlainRoles
      <4>2. pc[c] # "waiting"
        <5>1. SUFFICES ASSUME pc[c] = "waiting"
                       PROVE  FALSE
          OBVIOUS
        <5>2. awaits[c] \in Links /\ link[awaits[c]] = "up"
          BY <2>1, <2>4, <4>1, <5>1 DEF Settled, Woken, Base, Abandoned
        <5>3. QED
          BY <2>2, <5>2, PlainRoles DEF OInv, Hands
      <4>3. ~Closer(c)
        <5>1. SUFFICES ASSUME Closer(c)
                       PROVE  FALSE
          OBVIOUS
        <5>2. awaits[c] \in Links /\ link[awaits[c]] = "reaping"
          BY <4>1, <5>1 DEF OInv, Calling, Hands, Has, Closer
        <5>3. QED
          BY <2>1, <5>2 DEF Settled
      <4>4. QED
        BY <4>2, <4>3 DEF OInv, Courses, Closer
    <3>3. QED
      BY <1>1, <2>1, <2>2, <3>1, <3>2, BeginsOwn
  <2>5. QED
    BY <2>3, <2>4
<1>6. CASE LoopCancelled(l)
  <2>1. /\ Moves(l, "idle", None) /\ UNCHANGED <<state, stopped, current>>
        /\ CASE awaits[l] = None -> UNCHANGED links
             [] pc[l] = "connecting" -> CloseEnds(awaits[l]) \/ Leave(awaits[l])
             [] OTHER -> CutShort(awaits[l])
    BY <1>1, <1>6 DEF LoopCancelled, Finishes, session
  <2>2. Alive(l)
    BY <1>6 DEF LoopCancelled, Base
  <2>3. CASE Has(l)
    <3>1. awaits[l] # None
      BY <1>1, <2>3, PlainRoles DEF OInv, Hands
    <3>2. CloseEnds(awaits[l]) \/ CutShort(awaits[l]) \/ Leave(awaits[l])
      BY <2>1, <3>1
    <3>3. QED
      BY <1>1, <2>1, <2>3, <3>2, EndsOwn
  <2>4. CASE ~Has(l)
    <3>1. awaits[l] \notin Links
      BY <1>1, <2>4 DEF OInv, Hands, Courses
    <3>2. UNCHANGED <<link, exitErr>>
      BY <2>1, <3>1 DEF links, CloseEnds, CutShort, Leave, Base, TypeOK
    <3>3. QED
      BY <1>1, <2>1, <2>2, <2>4, <3>2, MovesOwn
  <2>5. QED
    BY <2>3, <2>4
<1>7. CASE CancelSwallowed(l)
  BY <1>7 DEF CancelSwallowed, session, links, OInv, Courses, Hands, Has, Alone, Calling, Closer,
     Spared, Alive
<1>8. CASE StartSwallows(l)
  <2>1. PICK kind \in Kinds : TryConnectEnds(l, kind)
    BY <1>8, AnyRoles DEF StartSwallows
  <2>2. Has(l) /\ CloseEnds(awaits[l]) /\ UNCHANGED <<stopped, current>>
    BY <1>8 DEF StartSwallows, Has
  <2>3. Moves(l, "idle", None) \/ (Moves(l, "sleeping", None) /\ UNCHANGED state)
    BY <1>1, <2>1 DEF TryConnectEnds, Finishes, Kinds, Plain
  <2>4. QED
    BY <1>1, <2>2, <2>3, EndsOwn
<1>9. QED
  BY <1>3, <1>4, <1>5, <1>6, <1>7, <1>8 DEF LoopRuns

\* stop() (session.py:137-141).
LEMMA StopOwn ==
  ASSUME Plain, Base, OInv, Stop \/ StopperRuns
  PROVE  OInv'
<1>1. ASSUME StopperCloses, stopped', pc[Stopper] \in {"idle", "cancelling"}
      PROVE  OInv'
  <2>1. ~Has(Stopper)
    BY <1>1 DEF Has
  <2>2. CASE CloseCurrent(Stopper, "closing") /\ UNCHANGED state
    BY <1>1, <2>1, <2>2, PlainRoles, ClosesOwn
  <2>3. CASE /\ current = None /\ state' = "disconnected"
             /\ Finishes(Stopper) /\ UNCHANGED <<links, current>>
    <3>1. Moves(Stopper, "done", None) /\ UNCHANGED <<link, exitErr, current>>
      BY <2>3 DEF Finishes, links
    <3>2. QED
      BY <1>1, <2>1, <2>3, <3>1, MovesOwn
  <2>4. QED
    BY <1>1, <2>2, <2>3 DEF StopperCloses
<1>2. CASE Stop
  <2>1. pc[Stopper] = "idle" /\ stopped' /\ ~Has(Stopper)
    BY <1>2 DEF Stop, Has
  <2>2. CASE CancelReconnect(Stopper) /\ UNCHANGED <<state, current, links>>
    <3>1. recTask \in Loops /\ Moves(Stopper, "cancelling", recTask)
          /\ UNCHANGED <<state, link, exitErr, current>>
      BY <2>2 DEF CancelReconnect, Base, TypeOK, links
    <3>2. QED
      BY <2>1, <3>1, MovesOwn
  <2>3. CASE NoLoopToCancel /\ recTask' = None /\ UNCHANGED cancelled /\ StopperCloses
    BY <1>1, <2>1, <2>3
  <2>4. QED
    BY <1>2, <2>2, <2>3 DEF Stop
<1>3. CASE StopLoopEnded
  <2>1. stopped'
    BY <1>3 DEF StopLoopEnded, OInv, Courses
  <2>2. QED
    BY <1>1, <1>3, <2>1 DEF StopLoopEnded
<1>4. CASE StopCloseReturns
  <2>1. /\ Has(Stopper) /\ Moves(Stopper, "done", None) /\ CloseEnds(awaits[Stopper])
        /\ state' = "disconnected" /\ UNCHANGED <<stopped, current>>
    BY <1>4 DEF StopCloseReturns, Has, Finishes
  <2>2. QED
    BY <2>1, PlainRoles, EndsOwn
<1>5. QED
  BY <1>2, <1>3, <1>4 DEF StopperRuns

\* The process behind a transport dies.
LEMMA DiesOwn ==
  ASSUME Plain, Base, OInv, NEW t \in Links, LinkDies(t)
  PROVE  OInv'
<1>1. PICK kind \in ExitKinds : exitErr' = [exitErr EXCEPT ![t] = kind]
  BY DEF LinkDies
<1>2. /\ link[t] = "up" \/ (link[t] = "closing" /\ exitErr[t] = "none")
      /\ link' = [link EXCEPT ![t] = IF link[t] = "up" THEN "dead" ELSE link[t]]
      /\ UNCHANGED <<state, current, stopped, pc, awaits>>
  BY DEF LinkDies, session, tasks
<1>3. /\ exitErr[t] = "none"
      /\ link'[t] = IF link[t] = "up" THEN "dead" ELSE "closing"
      /\ \A u \in Links \ {t} : link'[u] = link[u] /\ exitErr'[u] = exitErr[u]
  BY <1>1, <1>2 DEF OInv, Hands, Base, TypeOK
<1>4. Courses' /\ Alone'
  BY <1>2 DEF OInv, Courses, Alone, Alive
<1>5. Hands'
  <2>1. \A a \in Tasks : Has(a)' <=> Has(a)
    BY <1>2 DEF Has
  <2>2. \A a \in Tasks : Has(a) =>
          /\ awaits[a] \in Links /\ awaits[a] # current
          /\ link'[awaits[a]] \in IF pc[a] = "connecting" THEN {"starting"} ELSE {"closing", "reaping"}
    BY <1>2, <1>3 DEF OInv, Hands
  <2>3. \A u \in Links : link'[u] \in {"up", "dead"} <=> u = current
    BY <1>2, <1>3 DEF OInv, Hands
  <2>4. \A u \in Links : link'[u] \in {"starting", "closing", "reaping"} => link'[u] = link[u]
    BY <1>2, <1>3
  <2>5. \A u \in Links : link'[u] \in {"starting", "up"} => exitErr'[u] = "none"
    BY <1>2, <1>3 DEF OInv, Hands
  <2>6. QED
    BY <1>2, <2>1, <2>2, <2>3, <2>4, <2>5 DEF OInv, Hands
<1>6. \A c \in Callers : pc[c] # "idle" => awaits[c] \in Links
  BY PlainRoles DEF OInv, Courses, Hands, Has, Base
<1>7. Calling'
  <2>1. \A c \in Callers : Closer(c) => awaits[c] \in Links \ {t}
    BY <1>2, <1>6 DEF OInv, Calling, Closer
  <2>2. QED
    BY <1>2, <1>3, <2>1 DEF OInv, Calling, Closer
<1>8. Spared'
  BY <1>2, <1>3, <1>6 DEF OInv, Spared, Alive
<1>9. QED
  BY <1>4, <1>5, <1>7, <1>8 DEF OInv

\* A process that was left ends: no coroutine has to do with it.
LEMMA LeftExitsOwn ==
  ASSUME Plain, Base, OInv, NEW t \in Links, LeftExits(t)
  PROVE  OInv'
<1>1. /\ link[t] = "left" /\ link'[t] = "closed" /\ \A u \in Links \ {t} : link'[u] = link[u]
      /\ UNCHANGED <<state, stopped, current, exitErr, pc, awaits>>
  BY DEF LeftExits, CloseEnds, session, tasks, Base, TypeOK
<1>2. Courses' /\ Alone' /\ Spared'
  BY <1>1 DEF OInv, Courses, Alone, Spared, Alive
<1>3. \A a \in Tasks : (Has(a)' <=> Has(a)) /\ (Has(a) => awaits[a] # t)
  BY <1>1 DEF OInv, Hands, Has
<1>4. Hands'
  BY <1>1, <1>3 DEF OInv, Hands
<1>5. \A c \in Callers : Closer(c) => awaits[c] \in Links \ {t}
  BY <1>3, PlainRoles DEF OInv, Hands, Has, Closer
<1>6. Calling'
  BY <1>1, <1>5 DEF OInv, Calling, Closer
<1>7. QED
  BY <1>2, <1>4, <1>6 DEF OInv

\* Once stop() has begun there is no way back.
LEMMA AbandonedStays ==
  ASSUME Plain, Base, Abandoned, [Next]_vars
  PROVE  Abandoned'
<1>1. stopped => stopped'
  <2>1. CASE UNCHANGED stopped
    BY <2>1
  <2>2. CASE Start
    BY <2>2 DEF Start, Base
  <2>3. CASE Stop
    BY <2>3 DEF Stop
  <2>4. UNCHANGED stopped \/ Start \/ Stop
    BY DEF Next, StopperRuns, StopLoopEnded, StopCloseReturns, Connect, ConnectFails,
       HandshakeRefused, DiscardReturns, ConnectSucceeds, ConnectRaises, Call, CallReturns, Answered,
       VersionFrame, RequestFails, RequestRaises, FailsForGood, OnTransportFailure,
       CallerCloseReturns, LoopRuns, LoopBegins, LoopCloseReturns, SleepReturns, LoopCancelled,
       CancelSwallowed, StartSwallows, ReconnectNow, RetrierRuns, RetrierLoopEnded,
       RetrierCloseReturns, LinkDies, LeftExits, vars, session
  <2>5. QED
    BY <2>1, <2>2, <2>3, <2>4
<1>2. ASSUME NEW t \in Links, link'[t] = "left"
      PROVE  stopped'
  <2>1. CASE link[t] = "left"
    BY <1>1, <2>1 DEF Abandoned
  <2>2. CASE link[t] # "left"
    <3>1. PICK l \in Loops : l \in cancelled
      BY <1>2, <2>2, OnlyCancelLeaves DEF LoopCancelled, Base
    <3>2. stopped
      BY <3>1 DEF Base, Plain
    <3>3. QED
      BY <1>1, <3>2
  <2>3. QED
    BY <2>1, <2>2
<1>3. QED
  BY <1>2 DEF Abandoned

\* Every step of the session.
LEMMA OwnersStay ==
  ASSUME Plain, Base, OInv, Abandoned, [Next]_vars
  PROVE  OInv'
<1>1. CASE UNCHANGED vars
  BY <1>1 DEF vars, session, links, tasks, OInv, Courses, Hands, Has, Alone, Calling, Closer, Spared, Alive
<1>2. Retriers = {}
  BY DEF Plain
<1>3. QED
  BY <1>1, <1>2, StartOwn, StopOwn, ConnectOwn, RequestOwn, LoopOwn, DiesOwn, LeftExitsOwn DEF Next

\* The invariant holds of every such session.
LEMMA AlwaysOwned ==
  ASSUME Plain
  PROVE  Spec => [](OInv /\ Abandoned)
<1>1. Init => OInv /\ Abandoned
  BY OwnersStart DEF Init, Abandoned
<1>2. Base /\ OInv /\ Abandoned /\ [Next]_vars => OInv' /\ Abandoned'
  BY OwnersStay, AbandonedStays
<1>3. Spec => []Base
  BY AlwaysBase, PTL
<1>4. QED
  BY <1>1, <1>2, <1>3, PTL DEF Spec

\* However many requests, loops and transports there are, however links die and
\* whenever stop() is called: a transport is the current one or has one
\* coroutine that starts or closes it, and none is left behind but by the loop
\* that stop() cancels (session.py:143-158, 160-163, 165-172, 184-193).
THEOREM OneOwnerHolds ==
  ASSUME Plain
  PROVE  Spec => []OneOwner
<1>1. Base /\ OInv /\ Abandoned => OneOwner
  <2>1. SUFFICES ASSUME Base, OInv, Abandoned, NEW t \in Links
                 PROVE  /\ link[t] = "closed" => t # current /\ Owners(t) = {}
                        /\ link[t] \in {"up", "dead"} => t = current /\ Owners(t) = {}
                        /\ link[t] \in {"starting", "closing", "reaping"} =>
                             t # current /\ \E a \in Tasks : Owners(t) = {a}
                        /\ link[t] = "left" => stopped /\ t # current /\ Owners(t) = {}
    BY DEF OneOwner
  <2>2. \A a \in Owners(t) : a \in Tasks /\ Has(a) /\ awaits[a] = t
    BY <2>1 DEF Owners, OInv, Hands
  <2>3. \A a \in Tasks : Has(a) /\ awaits[a] = t => a \in Owners(t)
    BY DEF Owners, Has
  <2>4. link[t] \in {"closed", "up", "dead", "left"} => Owners(t) = {}
    BY <2>1, <2>2 DEF OInv, Hands
  <2>5. link[t] \in {"up", "dead"} <=> t = current
    BY <2>1 DEF OInv, Hands
  <2>6. ASSUME link[t] \in {"starting", "closing", "reaping"}
        PROVE  \E a \in Tasks : Owners(t) = {a}
    <3>1. PICK a \in Tasks : Has(a) /\ awaits[a] = t
      BY <2>1, <2>6 DEF OInv, Hands
    <3>2. \A b \in Owners(t) : b = a
      BY <2>1, <2>2, <3>1 DEF OInv, Hands
    <3>3. Owners(t) = {a}
      BY <2>3, <3>1, <3>2
    <3>4. QED
      BY <3>3
  <2>7. QED
    BY <2>1, <2>4, <2>5, <2>6 DEF Abandoned
<1>2. Spec => []Base
  BY AlwaysBase, PTL
<1>3. QED
  BY <1>1, <1>2, AlwaysOwned, PTL

\* And never two reconnect loops at a time: the first failure starts the loop
\* (session.py:176-182).
THEOREM OneLoop ==
  ASSUME Plain
  PROVE  Spec => [](\A l, m \in Loops : Alive(l) /\ Alive(m) => l = m)
<1>1. OInv => \A l, m \in Loops : Alive(l) /\ Alive(m) => l = m
  BY DEF OInv, Alone
<1>2. QED
  BY <1>1, AlwaysOwned, PTL

-----------------------------------------------------------------------------
(* The session as the TUI drives it                                         *)

\* The session as the TUI drives it: nobody calls reconnect_now, stop() follows
\* start(), and a link that was up dies in a way that is retried.
Tame ==
  Retriers = {} /\ ExitKinds \subseteq {"transport"} /\ ~VersionFrames /\ ~QuitDuringStart

\* The awaits each coroutine passes.
Paths ==
  /\ pc[Starter] \in {"idle", "connecting", "discarding", "done"}
  /\ pc[Stopper] \in {"idle", "cancelling", "closing", "done"}
  /\ \A c \in Callers : pc[c] \in {"idle", "waiting"}
  /\ \A l \in Loops : pc[l] \in {"idle", "created", "closing", "sleeping", "connecting", "discarding"}
  /\ \A c \in Callers : pc[c] = "waiting" => awaits[c] \in Links
  /\ \A t \in Links : exitErr[t] \in {"none", "transport"}

\* a is starting or closing a transport.
Holds(a) == pc[a] \in {"connecting", "discarding", "closing"}

\* What is not closed is the current transport, or the one that is being started
\* or closed, and only one coroutine does so, when there is no current one; or it
\* was left by a loop that stop() has cancelled.
Owned ==
  /\ \A a \in Tasks : Holds(a) =>
       /\ current = None /\ awaits[a] \in Links
       /\ link[awaits[a]] \in IF pc[a] = "connecting" THEN {"starting"} ELSE {"closing", "reaping"}
  /\ \A a, b \in Tasks : Holds(a) /\ Holds(b) => a = b
  /\ current # None => link[current] \in {"up", "dead"}
  /\ \A t \in Links : link[t] \notin {"closed", "left"} =>
       t = current \/ \E a \in Tasks : Holds(a) /\ awaits[a] = t

\* Until start() is over nobody else runs.
Starting ==
  pc[Starter] # "done" =>
    /\ current = None /\ recTask = None /\ ~stopped /\ pc[Stopper] = "idle"
    /\ \A a \in Callers \cup Loops : pc[a] = "idle"
    /\ state = IF pc[Starter] = "idle" THEN "disconnected" ELSE "connecting"

\* A loop runs alone, in RECONNECTING, and is on record, unless stop() has
\* cancelled it and waits for its end.
Looping ==
  /\ \A l \in Loops : Alive(l) =>
       /\ state = "reconnecting"
       /\ IF stopped
          THEN /\ pc[Stopper] = "cancelling" /\ awaits[Stopper] = l
               /\ l \in cancelled \/ pc[l] \in {"closing", "discarding"}
          ELSE recTask = l
  /\ \A l \in Loops : pc[l] \in {"idle", "created", "sleeping"} => awaits[l] = None
  /\ \A l \in Loops : pc[l] = "sleeping" => current = None
  /\ \A l \in cancelled : Alive(l) /\ stopped

Stopping ==
  /\ stopped <=> pc[Stopper] # "idle"
  /\ pc[Stopper] = "cancelling" => awaits[Stopper] \in Loops
  /\ pc[Stopper] = "done" => current = None /\ state \in {"auth_required", "disconnected"}

Served ==
  state = "connected" /\ ~stopped => current # None /\ degraded = ~extension[current] /\ lastError = "none"

IInv == TypeOK /\ Paths /\ Owned /\ Starting /\ Looping /\ Stopping /\ Served

\* Whoever leaves a transport half closed is the last to have one.
Leaving ==
  \A t \in Links : link[t] = "left" =>
    /\ stopped /\ current = None
    /\ \A a \in Tasks : ~Holds(a)
    /\ \A l \in Loops : ~Alive(l)
    /\ \A u \in Links : link[u] = "left" => u = t
-----------------------------------------------------------------------------
(* Facts about the roles                                                    *)

\* With no retrier the tasks are start(), stop(), the workers and the loops.
LEMMA Roles ==
  ASSUME Tame
  PROVE  /\ Connectors = {Starter} \cup Loops
         /\ Tasks = {Starter, Stopper} \cup Loops \cup Callers
         /\ Starter # Stopper /\ Starter \notin Callers \cup Loops
         /\ Stopper \notin Callers \cup Loops
         /\ Callers \cap Loops = {} /\ Links \cap Loops = {}
         /\ None \notin Links /\ None \notin Loops
  BY RolesAssumption DEF Tame, Connectors, Tasks

\* The initial state.
LEMMA InitIInv ==
  ASSUME Tame, Init
  PROVE  IInv
<1>1. TypeOK
  BY Roles DEF Init, TypeOK, States, Kinds, LinkStatus, Places
<1>2. Paths
  BY Roles DEF Init, Paths
<1>3. Owned
  BY Roles DEF Init, Owned, Holds
<1>4. Starting /\ Looping /\ Stopping /\ Served
  BY Roles DEF Init, Starting, Looping, Stopping, Served, Alive
<1>5. QED
  BY <1>1, <1>2, <1>3, <1>4 DEF IInv

\* start() up to its first await.
LEMMA StartKeeps ==
  ASSUME Tame, IInv, Start
  PROVE  IInv'
<1>1. PICK t \in Links :
        /\ link[t] = "closed"
        /\ link' = [link EXCEPT ![t] = "starting"]
        /\ exitErr' = [exitErr EXCEPT ![t] = "none"]
        /\ pc' = [pc EXCEPT ![Starter] = "connecting"]
        /\ awaits' = [awaits EXCEPT ![Starter] = t]
  BY DEF Start, BeginConnect, FreeLink, Moves
<1>2. TypeOK'
  BY <1>1, Roles DEF IInv, Start, BeginConnect, TypeOK, States, Kinds, LinkStatus, Places
<1>3. Paths'
  BY <1>1, Roles DEF IInv, TypeOK, Paths
<1>4. Owned'
  BY <1>1, Roles DEF IInv, TypeOK, Paths, Owned, Holds, Starting, Stopping, Start
<1>5. Starting'
  BY <1>1, Roles DEF IInv, TypeOK, Starting, Start
<1>6. Looping'
  BY <1>1, Roles DEF IInv, TypeOK, Starting, Looping, Start, Alive
<1>7. Stopping' /\ Served'
  BY <1>1, Roles DEF IInv, TypeOK, Starting, Stopping, Served, Start
<1>8. QED
  BY <1>2, <1>3, <1>4, <1>5, <1>6, <1>7 DEF IInv

-----------------------------------------------------------------------------
(* _connect                                                                 *)

\* start() ends with an exception: it is over, in a settled state.
LEMMA StarterRaisesKeeps ==
  ASSUME Tame, IInv, NEW kind \in Kinds \cup {"malformed"},
         pc[Starter] \in {"connecting", "discarding"},
         ConnectRaises(Starter, kind), CloseEnds(awaits[Starter])
  PROVE  IInv'
<1>1. /\ pc' = [pc EXCEPT ![Starter] = "done"] /\ awaits' = [awaits EXCEPT ![Starter] = None]
      /\ state' \in {"connecting", "auth_required", "disconnected"}
      /\ lastError' \in Kinds \cup {"none"}
      /\ UNCHANGED <<recTask, degraded, stopped, current, cancelled, extension, exitErr>>
      /\ link' = [link EXCEPT ![awaits[Starter]] = "closed"]
  BY Roles DEF ConnectRaises, StartRaises, Finishes, Moves, CloseEnds, Kinds, IInv, TypeOK, Starting
<1>2. TypeOK'
  BY <1>1, Roles DEF IInv, TypeOK, States, LinkStatus, Places
<1>3. Paths'
  BY <1>1, Roles DEF IInv, TypeOK, Paths
<1>4. Owned'
  BY <1>1, Roles DEF IInv, TypeOK, Paths, Owned, Holds, Starting
<1>5. Starting'
  BY <1>1, Roles DEF IInv, TypeOK, Starting
<1>6. Looping'
  BY <1>1, Roles DEF IInv, TypeOK, Starting, Looping, Alive
<1>7. Stopping' /\ Served'
  BY <1>1, Roles DEF IInv, TypeOK, Starting, Stopping, Served
<1>8. QED
  BY <1>2, <1>3, <1>4, <1>5, <1>6, <1>7 DEF IInv

\* An attempt of the loop ends with an exception: it sleeps again or is over.
LEMMA LoopRaisesKeeps ==
  ASSUME Tame, IInv, NEW l \in Loops, NEW kind \in Kinds \cup {"malformed"},
         pc[l] \in {"connecting", "discarding"},
         ConnectRaises(l, kind), CloseEnds(awaits[l]), l \notin cancelled
  PROVE  IInv'
<1>1. PICK p \in {"idle", "sleeping"} :
        /\ pc' = [pc EXCEPT ![l] = p] /\ awaits' = [awaits EXCEPT ![l] = None]
        /\ p = "sleeping" => ~stopped /\ UNCHANGED state
  BY Roles DEF ConnectRaises, TryConnectEnds, Finishes, Moves, Kinds, Tame
<1>2. /\ state' \in {state, "auth_required", "disconnected"}
      /\ lastError' \in Kinds \cup {"none"}
      /\ UNCHANGED <<recTask, degraded, stopped, current, cancelled, extension, exitErr>>
      /\ link' = [link EXCEPT ![awaits[l]] = "closed"]
  BY Roles DEF ConnectRaises, TryConnectEnds, Finishes, Moves, CloseEnds, Kinds, IInv, TypeOK, Tame
<1>3. state = "reconnecting" /\ current = None /\ awaits[l] \in Links /\ pc[Starter] = "done"
  BY Roles DEF IInv, Looping, Owned, Holds, Starting, Alive
<1>4. \A m \in Loops \ {l} : ~Alive(m)
  BY Roles DEF IInv, Looping, Alive, Stopping
<1>5. TypeOK'
  BY <1>1, <1>2, Roles DEF IInv, TypeOK, States, LinkStatus, Places
<1>6. Paths'
  BY <1>1, <1>2, Roles DEF IInv, TypeOK, Paths
<1>7. Owned'
  BY <1>1, <1>2, <1>3, Roles DEF IInv, TypeOK, Paths, Owned, Holds
<1>8. Starting'
  BY <1>1, <1>2, <1>3, Roles DEF IInv, TypeOK, Starting
<1>9. Looping'
  BY <1>1, <1>2, <1>3, <1>4, Roles DEF IInv, TypeOK, Looping, Alive, Stopping
<1>10. Stopping' /\ Served'
  BY <1>1, <1>2, <1>3, Roles DEF IInv, TypeOK, Looping, Stopping, Served, Alive
<1>11. QED
  BY <1>5, <1>6, <1>7, <1>8, <1>9, <1>10 DEF IInv

\* transport.start() fails, in the time of start() or of the loop.
LEMMA ConnectFailsKeeps ==
  ASSUME Tame, IInv, NEW a \in Connectors, ConnectFails(a)
  PROVE  IInv'
<1>1. PICK kind \in StartFailures : ConnectRaises(a, kind)
  BY DEF ConnectFails
<1>2. kind \in Kinds \cup {"malformed"}
  BY StartFailuresAssumption DEF Kinds
<1>3. pc[a] = "connecting" /\ a \notin cancelled /\ CloseEnds(awaits[a])
  BY DEF ConnectFails
<1>4. QED
  BY <1>1, <1>2, <1>3, Roles, StarterRaisesKeeps, LoopRaisesKeeps

\* The refused transport has been closed.
LEMMA DiscardReturnsKeeps ==
  ASSUME Tame, IInv, NEW a \in Connectors, DiscardReturns(a)
  PROVE  IInv'
<1>1. pc[a] = "discarding" /\ a \notin cancelled /\ CloseEnds(awaits[a])
  BY DEF DiscardReturns
<1>2. ConnectRaises(a, "mismatch") /\ "mismatch" \in Kinds
  BY DEF DiscardReturns, Kinds
<1>3. QED
  BY <1>1, <1>2, Roles, StarterRaisesKeeps, LoopRaisesKeeps

\* The handshake is refused: the new transport begins to close.
LEMMA HandshakeRefusedKeeps ==
  ASSUME Tame, IInv, NEW a \in Connectors, HandshakeRefused(a)
  PROVE  IInv'
<1>1. /\ pc[a] = "connecting" /\ a \notin cancelled
      /\ link' = [link EXCEPT ![awaits[a]] = "closing"]
      /\ pc' = [pc EXCEPT ![a] = "discarding"] /\ awaits' = [awaits EXCEPT ![a] = awaits[a]]
      /\ UNCHANGED <<state, lastError, degraded, stopped, current, recTask>>
      /\ UNCHANGED <<extension, exitErr, cancelled>>
  BY DEF HandshakeRefused, Moves, session
<1>2. awaits' = awaits /\ a \in Tasks
  <2>1. a \in Tasks /\ awaits \in [Tasks -> Links \cup Loops \cup {None}]
    BY Roles DEF IInv, TypeOK
  <2>2. QED
    BY <1>1, <2>1
<1>3. TypeOK'
  <2>1. link' \in [Links -> LinkStatus]
    BY <1>1 DEF IInv, TypeOK, LinkStatus
  <2>2. pc' \in [Tasks -> Places]
    BY <1>1 DEF IInv, TypeOK, Places
  <2>3. QED
    BY <1>1, <1>2, <2>1, <2>2 DEF IInv, TypeOK
<1>4. Paths'
  BY <1>1, <1>2, Roles DEF IInv, TypeOK, Paths
<1>5. Owned'
  BY <1>1, <1>2, Roles DEF IInv, TypeOK, Paths, Owned, Holds
<1>6. Starting'
  BY <1>1, <1>2, Roles DEF IInv, TypeOK, Starting
<1>7. Looping'
  BY <1>1, <1>2, Roles DEF IInv, TypeOK, Looping, Alive
<1>8. Stopping' /\ Served'
  BY <1>1, <1>2, Roles DEF IInv, TypeOK, Stopping, Served
<1>9. QED
  BY <1>3, <1>4, <1>5, <1>6, <1>7, <1>8 DEF IInv

\* A connection: nobody else has a transport, and the loop, if it was one that
\* connected, is over and was the only one.
LEMMA ConnectSucceedsKeeps ==
  ASSUME Tame, IInv, NEW a \in Connectors, ConnectSucceeds(a)
  PROVE  IInv'
<1>1. PICK x \in BOOLEAN :
        extension' = [extension EXCEPT ![awaits[a]] = x] /\ degraded' = ~x
  BY DEF ConnectSucceeds
<1>2. /\ pc[a] = "connecting" /\ a \notin cancelled
      /\ current' = awaits[a] /\ lastError' = "none" /\ state' = "connected"
      /\ link' = [link EXCEPT ![awaits[a]] = "up"]
      /\ pc' = [pc EXCEPT ![a] = IF a = Starter THEN "done" ELSE "idle"]
      /\ awaits' = [awaits EXCEPT ![a] = None]
      /\ UNCHANGED <<stopped, recTask, exitErr, cancelled>>
  BY Roles DEF ConnectSucceeds, Finishes, Moves
<1>3. a \in Tasks /\ Holds(a) /\ awaits[a] \in Links /\ ~stopped
  BY <1>2, Roles DEF IInv, Owned, Holds, Looping, Starting, Alive
<1>4. \A l \in Loops \ {a} : ~Alive(l)
  BY <1>2, <1>3, Roles DEF IInv, Looping, Starting, Alive
<1>5. TypeOK'
  BY <1>1, <1>2, <1>3, Roles DEF IInv, TypeOK, States, LinkStatus, Places
<1>6. Paths'
  BY <1>2, <1>3, Roles DEF IInv, TypeOK, Paths
<1>7. Owned'
  BY <1>2, <1>3, Roles DEF IInv, TypeOK, Paths, Owned, Holds
<1>8. Starting'
  BY <1>2, <1>3, Roles DEF IInv, TypeOK, Paths, Starting, Alive
<1>9. Looping'
  BY <1>2, <1>3, <1>4, Roles DEF IInv, TypeOK, Looping, Starting, Alive
<1>10. Stopping'
  BY <1>2, <1>3, Roles DEF IInv, TypeOK, Stopping
<1>11. Served'
  BY <1>1, <1>2, <1>3, Roles DEF IInv, TypeOK, Served
<1>12. QED
  BY <1>5, <1>6, <1>7, <1>8, <1>9, <1>10, <1>11 DEF IInv

-----------------------------------------------------------------------------
(* _call                                                                    *)

\* A request is sent over the current transport.
LEMMA CallKeeps ==
  ASSUME Tame, IInv, NEW c \in Callers, Call(c)
  PROVE  IInv'
<1>1. /\ pc[c] = "idle" /\ state = "connected" /\ current # None
      /\ pc' = [pc EXCEPT ![c] = "waiting"] /\ awaits' = [awaits EXCEPT ![c] = current]
      /\ UNCHANGED <<state, lastError, degraded, stopped, current, recTask>>
      /\ UNCHANGED <<link, extension, exitErr, cancelled>>
  BY DEF Call, Moves, session, links
<1>2. pc[Starter] = "done" /\ current \in Links
  BY <1>1, Roles DEF IInv, TypeOK, Starting
<1>3. TypeOK'
  BY <1>1, <1>2, Roles DEF IInv, TypeOK, Places
<1>4. Paths'
  BY <1>1, <1>2, Roles DEF IInv, TypeOK, Paths
<1>5. Owned'
  BY <1>1, <1>2, Roles DEF IInv, TypeOK, Owned, Holds
<1>6. Starting'
  BY <1>1, <1>2, Roles DEF IInv, TypeOK, Starting
<1>7. Looping'
  BY <1>1, <1>2, Roles DEF IInv, TypeOK, Looping, Alive
<1>8. Stopping' /\ Served'
  BY <1>1, <1>2, Roles DEF IInv, TypeOK, Stopping, Served
<1>9. QED
  BY <1>3, <1>4, <1>5, <1>6, <1>7, <1>8 DEF IInv

\* A request is over and changes nothing else.
LEMMA CallEndsKeeps ==
  ASSUME Tame, IInv, NEW c \in Callers, pc[c] = "waiting", Finishes(c),
         UNCHANGED <<session, links, cancelled>>
  PROVE  IInv'
<1>1. /\ pc' = [pc EXCEPT ![c] = "idle"] /\ awaits' = [awaits EXCEPT ![c] = None]
      /\ UNCHANGED <<state, lastError, degraded, stopped, current, recTask>>
      /\ UNCHANGED <<link, extension, exitErr, cancelled>>
  BY Roles DEF Finishes, Moves, session, links
<1>2. pc[Starter] = "done"
  BY Roles DEF IInv, Starting
<1>3. TypeOK'
  BY <1>1, <1>2, Roles DEF IInv, TypeOK, Places
<1>4. Paths'
  BY <1>1, <1>2, Roles DEF IInv, TypeOK, Paths
<1>5. Owned'
  BY <1>1, <1>2, Roles DEF IInv, TypeOK, Owned, Holds
<1>6. Starting'
  BY <1>1, <1>2, Roles DEF IInv, TypeOK, Starting
<1>7. Looping'
  BY <1>1, <1>2, Roles DEF IInv, TypeOK, Looping, Alive
<1>8. Stopping' /\ Served'
  BY <1>1, <1>2, Roles DEF IInv, TypeOK, Stopping, Served
<1>9. QED
  BY <1>3, <1>4, <1>5, <1>6, <1>7, <1>8 DEF IInv

\* A failed request: it only returns if the session stops or already
\* reconnects; else it leaves a loop behind, on record and the only one.
LEMMA RequestFailsKeeps ==
  ASSUME Tame, IInv, NEW c \in Callers, RequestFails(c)
  PROVE  IInv'
<1>1. pc[c] = "waiting" /\ OnTransportFailure(c)
  <2>1. pc[c] = "waiting" /\ exitErr[awaits[c]] \in {"none", "transport"}
    BY DEF RequestFails, IInv, Paths
  <2>2. QED
    BY <2>1 DEF RequestFails, RequestRaises
<1>2. CASE stopped \/ state = "reconnecting"
  <2>1. Finishes(c) /\ UNCHANGED <<session, links, cancelled>>
    BY <1>1, <1>2 DEF OnTransportFailure, session
  <2>2. QED
    BY <1>1, <2>1, CallEndsKeeps
<1>3. CASE ~stopped /\ state # "reconnecting"
  <2>1. PICK l \in Loops :
          /\ pc[l] = "idle"
          /\ pc' = [pc EXCEPT ![c] = "idle", ![l] = "created"]
          /\ awaits' = [awaits EXCEPT ![c] = None]
          /\ recTask' = l
    BY <1>1, <1>3 DEF OnTransportFailure, Spawns, FreeLoop
  <2>2. /\ lastError' = "transport" /\ state' = "reconnecting"
        /\ UNCHANGED <<degraded, stopped, current, cancelled>>
        /\ UNCHANGED <<link, extension, exitErr>>
    BY <1>1, <1>3 DEF OnTransportFailure, links
  <2>3. pc[Starter] = "done" /\ pc[Stopper] = "idle" /\ \A m \in Loops : ~Alive(m)
    BY <1>1, <1>3, Roles DEF IInv, Starting, Stopping, Looping
  <2>4. TypeOK'
    BY <2>1, <2>2, Roles DEF IInv, TypeOK, States, Kinds, Places
  <2>5. Paths'
    BY <2>1, <2>2, Roles DEF IInv, TypeOK, Paths
  <2>6. Owned'
    BY <2>1, <2>2, Roles, <1>1 DEF IInv, TypeOK, Owned, Holds
  <2>7. Starting'
    BY <2>1, <2>2, <2>3, Roles DEF IInv, TypeOK, Starting
  <2>8. Looping'
    BY <2>1, <2>2, <2>3, <1>3, Roles DEF IInv, TypeOK, Looping, Alive
  <2>9. Stopping' /\ Served'
    BY <2>1, <2>2, <2>3, <1>3, Roles DEF IInv, TypeOK, Stopping, Served
  <2>10. QED
    BY <2>4, <2>5, <2>6, <2>7, <2>8, <2>9 DEF IInv
<1>4. QED
  BY <1>2, <1>3

-----------------------------------------------------------------------------
(* _reconnect_loop                                                          *)

\* The loop closes what is left of the current transport, or finds none.
LEMMA LoopBeginsKeeps ==
  ASSUME Tame, IInv, NEW l \in Loops, LoopBegins(l)
  PROVE  IInv'
<1>1. /\ pc[l] = "created" /\ l \notin cancelled
      /\ UNCHANGED <<state, lastError, degraded, stopped, recTask, cancelled>>
  BY DEF LoopBegins
<1>2. /\ ~stopped /\ state = "reconnecting" /\ recTask = l /\ pc[Starter] = "done"
      /\ pc[Stopper] = "idle" /\ \A m \in Loops \ {l} : ~Alive(m)
  BY <1>1, Roles DEF IInv, Looping, Alive, Starting, Stopping
<1>3. CASE current # None
  <2>1. /\ current' = None
        /\ link' = [link EXCEPT ![current] = IF @ = "dead" THEN "reaping" ELSE "closing"]
        /\ pc' = [pc EXCEPT ![l] = "closing"] /\ awaits' = [awaits EXCEPT ![l] = current]
        /\ UNCHANGED <<extension, exitErr>>
    BY <1>3 DEF LoopBegins, CloseCurrent, Moves
  <2>2. current \in Links /\ \A a \in Tasks : ~Holds(a)
    BY <1>3 DEF IInv, TypeOK, Owned
  <2>3. TypeOK'
    BY <1>1, <2>1, <2>2, Roles DEF IInv, TypeOK, LinkStatus, Places
  <2>4. Paths'
    BY <1>1, <2>1, Roles DEF IInv, TypeOK, Paths
  <2>5. Owned'
    BY <1>1, <2>1, <2>2, Roles DEF IInv, TypeOK, Owned, Holds
  <2>6. Starting'
    BY <1>1, <1>2, <2>1, Roles DEF IInv, TypeOK, Starting
  <2>7. Looping'
    BY <1>1, <1>2, <2>1, Roles DEF IInv, TypeOK, Looping, Alive
  <2>8. Stopping' /\ Served'
    BY <1>1, <1>2, <2>1, Roles DEF IInv, TypeOK, Stopping, Served
  <2>9. QED
    BY <2>3, <2>4, <2>5, <2>6, <2>7, <2>8 DEF IInv
<1>4. CASE current = None
  <2>1. /\ pc' = [pc EXCEPT ![l] = "sleeping"] /\ awaits' = [awaits EXCEPT ![l] = None]
        /\ UNCHANGED <<current, link, extension, exitErr>>
    BY <1>2, <1>4 DEF LoopBegins, CloseCurrent, Moves, links
  <2>3. TypeOK'
    BY <1>1, <2>1, Roles DEF IInv, TypeOK, Places
  <2>4. Paths'
    BY <1>1, <2>1, Roles DEF IInv, TypeOK, Paths
  <2>5. Owned'
    BY <1>1, <2>1, Roles DEF IInv, TypeOK, Owned, Holds
  <2>6. Starting'
    BY <1>1, <1>2, <2>1, Roles DEF IInv, TypeOK, Starting
  <2>7. Looping'
    BY <1>1, <1>2, <1>4, <2>1, Roles DEF IInv, TypeOK, Looping, Alive
  <2>8. Stopping' /\ Served'
    BY <1>1, <1>2, <2>1, Roles DEF IInv, TypeOK, Stopping, Served
  <2>9. QED
    BY <2>3, <2>4, <2>5, <2>6, <2>7, <2>8 DEF IInv
<1>5. QED
  BY <1>3, <1>4

\* The transport is closed: the loop sleeps, or ends when the session stops.
LEMMA LoopCloseReturnsKeeps ==
  ASSUME Tame, IInv, NEW l \in Loops, LoopCloseReturns(l)
  PROVE  IInv'
<1>1. PICK p \in {"idle", "sleeping"} :
        /\ pc' = [pc EXCEPT ![l] = p] /\ awaits' = [awaits EXCEPT ![l] = None]
        /\ p = "sleeping" => ~stopped
        /\ p = "idle" => stopped
  BY Roles DEF LoopCloseReturns, Finishes, Moves
<1>2. /\ pc[l] = "closing" /\ l \notin cancelled
      /\ link' = [link EXCEPT ![awaits[l]] = "closed"]
      /\ UNCHANGED <<state, lastError, degraded, stopped, current, recTask>>
      /\ UNCHANGED <<extension, exitErr, cancelled>>
  BY DEF LoopCloseReturns, CloseEnds, session
<1>3. /\ state = "reconnecting" /\ current = None /\ awaits[l] \in Links /\ pc[Starter] = "done"
      /\ \A m \in Loops \ {l} : ~Alive(m)
  BY <1>2, Roles DEF IInv, Looping, Owned, Holds, Starting, Alive
<1>4. TypeOK'
  BY <1>1, <1>2, Roles DEF IInv, TypeOK, LinkStatus, Places
<1>5. Paths'
  BY <1>1, <1>2, Roles DEF IInv, TypeOK, Paths
<1>6. Owned'
  BY <1>1, <1>2, <1>3, Roles DEF IInv, TypeOK, Owned, Holds
<1>7. Starting'
  BY <1>1, <1>2, <1>3, Roles DEF IInv, TypeOK, Starting
<1>8. Looping'
  BY <1>1, <1>2, <1>3, Roles DEF IInv, TypeOK, Looping, Alive
<1>9. Stopping' /\ Served'
  BY <1>1, <1>2, <1>3, Roles DEF IInv, TypeOK, Stopping, Served
<1>10. QED
  BY <1>4, <1>5, <1>6, <1>7, <1>8, <1>9 DEF IInv

\* The loop starts a transport; only one that is not being stopped gets here.
LEMMA SleepReturnsKeeps ==
  ASSUME Tame, IInv, NEW l \in Loops, SleepReturns(l)
  PROVE  IInv'
<1>1. pc[l] = "sleeping" /\ l \notin cancelled /\ ~stopped
  BY DEF SleepReturns, IInv, Looping, Alive
<1>2. PICK t \in Links :
        /\ link[t] = "closed"
        /\ link' = [link EXCEPT ![t] = "starting"]
        /\ exitErr' = [exitErr EXCEPT ![t] = "none"]
        /\ pc' = [pc EXCEPT ![l] = "connecting"] /\ awaits' = [awaits EXCEPT ![l] = t]
        /\ UNCHANGED extension
  BY <1>1 DEF SleepReturns, BeginConnect, FreeLink, Moves
<1>3. UNCHANGED <<state, lastError, degraded, stopped, current, recTask, cancelled>>
  BY DEF SleepReturns, session
<1>4. /\ state = "reconnecting" /\ recTask = l /\ current = None
      /\ pc[Starter] = "done" /\ pc[Stopper] = "idle" /\ \A m \in Loops \ {l} : ~Alive(m)
  BY <1>1, Roles DEF IInv, Looping, Alive, Starting, Stopping
<1>5. \A a \in Tasks : ~Holds(a)
  BY <1>1, <1>4, Roles DEF IInv, Paths, Holds, Alive
<1>6. TypeOK'
  BY <1>2, <1>3, Roles DEF IInv, TypeOK, LinkStatus, Places
<1>7. Paths'
  BY <1>2, <1>3, Roles DEF IInv, TypeOK, Paths
<1>8. Owned'
  BY <1>2, <1>3, <1>4, <1>5, Roles DEF IInv, TypeOK, Owned, Holds
<1>9. Starting'
  BY <1>2, <1>3, <1>4, Roles DEF IInv, TypeOK, Starting
<1>10. Looping'
  BY <1>1, <1>2, <1>3, <1>4, Roles DEF IInv, TypeOK, Looping, Alive
<1>11. Stopping' /\ Served'
  BY <1>1, <1>2, <1>3, <1>4, Roles DEF IInv, TypeOK, Stopping, Served
<1>12. QED
  BY <1>6, <1>7, <1>8, <1>9, <1>10, <1>11 DEF IInv

\* A cancelled loop closes, or leaves, what it was starting or closing, and is over.
LEMMA CancelledEnds ==
  ASSUME Tame, IInv, NEW l \in Loops, l \in cancelled, cancelled' = cancelled \ {l},
         pc' = [pc EXCEPT ![l] = "idle"], awaits' = [awaits EXCEPT ![l] = None],
         state' \in {state, "auth_required", "disconnected"}, lastError' \in Kinds \cup {"none"},
         UNCHANGED <<degraded, stopped, current, recTask, extension, exitErr>>,
         IF Holds(l) THEN \E x \in {"closed", "left"} : link' = [link EXCEPT ![awaits[l]] = x]
         ELSE UNCHANGED link
  PROVE  IInv'
<1>1. /\ state = "reconnecting" /\ stopped /\ Alive(l)
      /\ pc[Starter] = "done" /\ pc[Stopper] = "cancelling" /\ \A m \in Loops \ {l} : ~Alive(m)
  BY Roles DEF IInv, Looping, Alive, Starting
<1>2. Holds(l) => awaits[l] \in Links /\ current = None
  BY Roles DEF IInv, Owned
<1>3. link' \in [Links -> LinkStatus]
  BY DEF IInv, TypeOK, LinkStatus
<1>4. TypeOK'
  BY <1>3, Roles DEF IInv, TypeOK, States, Places
<1>5. Paths'
  BY Roles DEF IInv, TypeOK, Paths
<1>6. Owned'
  BY <1>2, Roles DEF IInv, TypeOK, Owned, Holds
<1>7. Starting'
  BY <1>1, Roles DEF IInv, TypeOK, Starting
<1>8. Looping'
  BY <1>1, Roles DEF IInv, TypeOK, Looping, Alive
<1>9. Stopping' /\ Served'
  BY <1>1, Roles DEF IInv, TypeOK, Stopping, Served
<1>10. QED
  BY <1>4, <1>5, <1>6, <1>7, <1>8, <1>9 DEF IInv

LEMMA LoopCancelledKeeps ==
  ASSUME Tame, IInv, NEW l \in Loops, LoopCancelled(l)
  PROVE  IInv'
<1>1. /\ l \in cancelled /\ cancelled' = cancelled \ {l}
      /\ pc' = [pc EXCEPT ![l] = "idle"] /\ awaits' = [awaits EXCEPT ![l] = None]
      /\ UNCHANGED <<state, lastError, degraded, stopped, current, recTask>>
  BY Roles DEF LoopCancelled, Finishes, Moves, session
<1>2. IF Holds(l) THEN \E x \in {"closed", "left"} : link' = [link EXCEPT ![awaits[l]] = x]
      ELSE UNCHANGED link
  <2>1. CASE Holds(l)
    <3>1. awaits[l] \in Links /\ awaits[l] # None
      BY <2>1, Roles DEF IInv, Owned
    <3>2. CloseEnds(awaits[l]) \/ Leave(awaits[l]) \/ CutShort(awaits[l])
      BY <3>1 DEF LoopCancelled
    <3>3. PICK x \in {"closed", "left"} :
            CutShort(awaits[l]) => link' = [link EXCEPT ![awaits[l]] = x]
      <4>1. CASE link[awaits[l]] = "closing" /\ exitErr[awaits[l]] = "none"
        <5>1. CutShort(awaits[l]) => link' = [link EXCEPT ![awaits[l]] = "left"]
          BY <4>1 DEF CutShort
        <5>2. QED
          BY <5>1
      <4>2. CASE ~(link[awaits[l]] = "closing" /\ exitErr[awaits[l]] = "none")
        <5>1. CutShort(awaits[l]) => link' = [link EXCEPT ![awaits[l]] = "closed"]
          BY <4>2 DEF CutShort
        <5>2. QED
          BY <5>1
      <4>3. QED
        BY <4>1, <4>2
    <3>4. CASE CloseEnds(awaits[l])
      BY <2>1, <3>4 DEF CloseEnds
    <3>5. CASE Leave(awaits[l])
      BY <2>1, <3>5 DEF Leave
    <3>6. CASE CutShort(awaits[l])
      BY <2>1, <3>3, <3>6
    <3>7. QED
      BY <3>2, <3>4, <3>5, <3>6
  <2>2. CASE ~Holds(l)
    <3>1. awaits[l] = None /\ pc[l] # "connecting"
      BY <2>2, Roles DEF IInv, Paths, Looping, Holds
    <3>2. UNCHANGED links
      BY <3>1 DEF LoopCancelled
    <3>3. QED
      BY <2>2, <3>2 DEF links
  <2>3. QED
    BY <2>1, <2>2
<1>3. UNCHANGED <<extension, exitErr>>
  BY DEF LoopCancelled, CloseEnds, CutShort, Leave, links
<1>4. lastError \in Kinds \cup {"none"}
  BY DEF IInv, TypeOK
<1>5. QED
  BY <1>1, <1>2, <1>3, <1>4, CancelledEnds

\* A cancellation that start() swallows: the loop is over all the same.
LEMMA StartSwallowsKeeps ==
  ASSUME Tame, IInv, NEW l \in Loops, StartSwallows(l)
  PROVE  IInv'
<1>1. /\ l \in cancelled /\ pc[l] = "connecting" /\ cancelled' = cancelled \ {l}
      /\ CloseEnds(awaits[l]) /\ UNCHANGED <<degraded, stopped, current>>
  BY DEF StartSwallows
<1>2. PICK kind \in Kinds : TryConnectEnds(l, kind)
  BY AnyRoles DEF StartSwallows
<1>3. stopped
  BY <1>1 DEF IInv, Looping
<1>4. /\ pc' = [pc EXCEPT ![l] = "idle"] /\ awaits' = [awaits EXCEPT ![l] = None]
      /\ state' \in {state, "auth_required", "disconnected"} /\ lastError' \in Kinds
      /\ recTask' = recTask
  BY <1>2, <1>3, Roles DEF TryConnectEnds, Finishes, Moves, Kinds, Tame
<1>5. Holds(l) /\ link' = [link EXCEPT ![awaits[l]] = "closed"] /\ UNCHANGED <<extension, exitErr>>
  BY <1>1 DEF Holds, CloseEnds
<1>6. QED
  BY <1>1, <1>4, <1>5, CancelledEnds

\* A cancellation that close() swallows.
LEMMA CancelSwallowedKeeps ==
  ASSUME Tame, IInv, NEW l \in Loops, CancelSwallowed(l)
  PROVE  IInv'
<1>1. /\ pc[l] \in {"closing", "discarding"} /\ cancelled' = cancelled \ {l}
      /\ UNCHANGED <<state, lastError, degraded, stopped, current, recTask>>
      /\ UNCHANGED <<link, extension, exitErr, pc, awaits>>
  BY DEF CancelSwallowed, session, links
<1>2. TypeOK' /\ Paths' /\ Owned'
  BY <1>1 DEF IInv, TypeOK, Paths, Owned, Holds
<1>3. Starting' /\ Stopping' /\ Served'
  BY <1>1 DEF IInv, Starting, Stopping, Served
<1>4. Looping'
  BY <1>1 DEF IInv, Looping, Alive
<1>5. QED
  BY <1>2, <1>3, <1>4 DEF IInv

-----------------------------------------------------------------------------
(* stop()                                                                   *)

\* Without a loop, stop() closes the current transport or is over.
LEMMA StopperClosesKeeps ==
  ASSUME Tame, IInv, pc[Starter] = "done", pc[Stopper] \in {"idle", "cancelling"},
         \A l \in Loops : ~Alive(l), StopperCloses,
         stopped' = TRUE, recTask' \in {None, recTask},
         UNCHANGED <<lastError, degraded, cancelled>>
  PROVE  IInv'
<1>1. \A a \in Tasks : ~Holds(a)
  BY Roles DEF IInv, Paths, Holds, Alive
<1>2. cancelled = {}
  BY Roles DEF IInv, TypeOK, Looping
<1>3. CASE current # None
  <2>1. /\ current' = None /\ UNCHANGED state
        /\ link' = [link EXCEPT ![current] = IF @ = "dead" THEN "reaping" ELSE "closing"]
        /\ pc' = [pc EXCEPT ![Stopper] = "closing"] /\ awaits' = [awaits EXCEPT ![Stopper] = current]
        /\ UNCHANGED <<extension, exitErr>>
    BY <1>3 DEF StopperCloses, CloseCurrent, Moves
  <2>2. current \in Links
    BY <1>3 DEF IInv, TypeOK
  <2>3. TypeOK'
    BY <2>1, <2>2, Roles DEF IInv, TypeOK, LinkStatus, Places
  <2>4. Paths'
    BY <2>1, Roles DEF IInv, TypeOK, Paths
  <2>5. Owned'
    BY <1>1, <2>1, <2>2, Roles DEF IInv, TypeOK, Owned, Holds
  <2>6. Starting' /\ Stopping' /\ Served'
    BY <2>1, Roles DEF IInv, TypeOK, Starting, Stopping, Served
  <2>7. Looping'
    BY <1>2, <2>1, Roles DEF IInv, TypeOK, Looping, Alive
  <2>8. QED
    BY <2>3, <2>4, <2>5, <2>6, <2>7 DEF IInv
<1>4. CASE current = None
  <2>1. /\ pc' = [pc EXCEPT ![Stopper] = "done"] /\ awaits' = [awaits EXCEPT ![Stopper] = None]
        /\ state' = "disconnected" /\ UNCHANGED <<current, link, extension, exitErr>>
    BY <1>4 DEF StopperCloses, CloseCurrent, Finishes, Moves, links
  <2>3. TypeOK'
    BY <2>1, Roles DEF IInv, TypeOK, States, Places
  <2>4. Paths'
    BY <2>1, Roles DEF IInv, TypeOK, Paths
  <2>5. Owned'
    BY <1>1, <2>1, Roles DEF IInv, TypeOK, Owned, Holds
  <2>6. Starting' /\ Stopping' /\ Served'
    BY <1>4, <2>1, Roles DEF IInv, TypeOK, Starting, Stopping, Served
  <2>7. Looping'
    BY <1>2, <2>1, Roles DEF IInv, TypeOK, Looping, Alive
  <2>8. QED
    BY <2>3, <2>4, <2>5, <2>6, <2>7 DEF IInv
<1>5. QED
  BY <1>3, <1>4

\* stop() finds the loop on record, if one runs, and cancels it.
LEMMA StopKeeps ==
  ASSUME Tame, IInv, Stop
  PROVE  IInv'
<1>1. /\ pc[Stopper] = "idle" /\ pc[Starter] = "done" /\ ~stopped /\ stopped' = TRUE
      /\ UNCHANGED <<lastError, degraded>>
  BY DEF Stop, Tame, IInv, Stopping
<1>2. CASE CancelReconnect(Stopper) /\ UNCHANGED <<state, current, links>>
  <2>1. /\ recTask # None /\ recTask \in Loops /\ Alive(recTask)
        /\ recTask' = None /\ cancelled' = cancelled \cup {recTask}
        /\ pc' = [pc EXCEPT ![Stopper] = "cancelling"]
        /\ awaits' = [awaits EXCEPT ![Stopper] = recTask]
        /\ UNCHANGED <<state, current, link, extension, exitErr>>
    BY <1>2 DEF CancelReconnect, Moves, Alive, IInv, TypeOK, links
  <2>2. \A m \in Loops : Alive(m) => m = recTask
    BY <1>1 DEF IInv, Looping
  <2>3. TypeOK'
    BY <1>1, <2>1, Roles DEF IInv, TypeOK, Places
  <2>4. Paths'
    BY <1>1, <2>1, Roles DEF IInv, TypeOK, Paths
  <2>5. Owned'
    BY <1>1, <2>1, Roles DEF IInv, TypeOK, Owned, Holds
  <2>6. Starting' /\ Stopping' /\ Served'
    BY <1>1, <2>1, Roles DEF IInv, TypeOK, Starting, Stopping, Served
  <2>7. Looping'
    BY <1>1, <2>1, <2>2, Roles DEF IInv, TypeOK, Looping, Alive
  <2>8. QED
    BY <2>3, <2>4, <2>5, <2>6, <2>7 DEF IInv
<1>3. CASE NoLoopToCancel /\ recTask' = None /\ UNCHANGED cancelled /\ StopperCloses
  <2>1. \A l \in Loops : ~Alive(l)
    BY <1>1, <1>3, Roles DEF IInv, Looping, NoLoopToCancel, Alive
  <2>2. QED
    BY <1>1, <1>3, <2>1, StopperClosesKeeps
<1>4. QED
  BY <1>2, <1>3 DEF Stop

\* The cancelled loop is over.
LEMMA StopLoopEndedKeeps ==
  ASSUME Tame, IInv, StopLoopEnded
  PROVE  IInv'
<1>1. /\ pc[Stopper] = "cancelling" /\ pc[awaits[Stopper]] = "idle" /\ StopperCloses
      /\ UNCHANGED <<lastError, degraded, stopped, recTask, cancelled>>
  BY DEF StopLoopEnded
<1>2. stopped = TRUE /\ pc[Starter] = "done" /\ \A l \in Loops : ~Alive(l)
  BY <1>1, Roles DEF IInv, TypeOK, Stopping, Starting, Looping, Alive
<1>3. QED
  BY <1>1, <1>2, StopperClosesKeeps

\* The transport stop() was closing is closed.
LEMMA StopCloseReturnsKeeps ==
  ASSUME Tame, IInv, StopCloseReturns
  PROVE  IInv'
<1>1. /\ pc[Stopper] = "closing" /\ state' = "disconnected"
      /\ link' = [link EXCEPT ![awaits[Stopper]] = "closed"]
      /\ pc' = [pc EXCEPT ![Stopper] = "done"] /\ awaits' = [awaits EXCEPT ![Stopper] = None]
      /\ UNCHANGED <<lastError, degraded, stopped, current, recTask, cancelled>>
      /\ UNCHANGED <<extension, exitErr>>
  BY DEF StopCloseReturns, CloseEnds, Finishes, Moves
<1>2. /\ stopped /\ pc[Starter] = "done" /\ current = None /\ awaits[Stopper] \in Links
      /\ \A l \in Loops : ~Alive(l)
  BY <1>1, Roles DEF IInv, Stopping, Starting, Looping, Owned, Holds
<1>3. TypeOK'
  BY <1>1, Roles DEF IInv, TypeOK, States, LinkStatus, Places
<1>4. Paths'
  BY <1>1, Roles DEF IInv, TypeOK, Paths
<1>5. Owned'
  BY <1>1, <1>2, Roles DEF IInv, TypeOK, Owned, Holds
<1>6. Starting' /\ Stopping' /\ Served'
  BY <1>1, <1>2, Roles DEF IInv, TypeOK, Starting, Stopping, Served
<1>7. Looping'
  BY <1>1, <1>2, Roles DEF IInv, TypeOK, Looping, Alive
<1>8. QED
  BY <1>3, <1>4, <1>5, <1>6, <1>7 DEF IInv

-----------------------------------------------------------------------------
(* The process behind a link                                                *)

\* Only the current transport can be up; one that is being closed stays so.
LEMMA LinkDiesKeeps ==
  ASSUME Tame, IInv, NEW t \in Links, LinkDies(t)
  PROVE  IInv'
<1>1. PICK kind \in {"transport"} : exitErr' = [exitErr EXCEPT ![t] = kind]
  BY DEF LinkDies, Tame
<1>2. /\ link' = [link EXCEPT ![t] = IF link[t] = "up" THEN "dead" ELSE link[t]]
      /\ UNCHANGED <<state, lastError, degraded, stopped, current, recTask>>
      /\ UNCHANGED <<extension, pc, awaits, cancelled>>
  BY DEF LinkDies, session, tasks
<1>3. TypeOK' /\ Paths'
  BY <1>1, <1>2 DEF IInv, TypeOK, LinkStatus, Paths
<1>4. Owned'
  BY <1>1, <1>2 DEF IInv, TypeOK, Owned, Holds
<1>5. Starting' /\ Looping' /\ Stopping' /\ Served'
  BY <1>2 DEF IInv, Starting, Looping, Stopping, Served, Alive
<1>6. QED
  BY <1>3, <1>4, <1>5 DEF IInv

\* A process that was left ends.
LEMMA LeftExitsKeeps ==
  ASSUME Tame, IInv, NEW t \in Links, LeftExits(t)
  PROVE  IInv'
<1>1. /\ link[t] = "left" /\ link' = [link EXCEPT ![t] = "closed"] /\ UNCHANGED <<extension, exitErr>>
      /\ UNCHANGED <<state, lastError, degraded, stopped, current, recTask, pc, awaits, cancelled>>
  BY DEF LeftExits, CloseEnds, session, tasks
<1>2. TypeOK' /\ Paths'
  BY <1>1 DEF IInv, TypeOK, LinkStatus, Paths
<1>3. Owned'
  BY <1>1 DEF IInv, TypeOK, Owned, Holds
<1>4. Starting' /\ Looping' /\ Stopping' /\ Served'
  BY <1>1 DEF IInv, Starting, Looping, Stopping, Served, Alive
<1>5. QED
  BY <1>2, <1>3, <1>4 DEF IInv

-----------------------------------------------------------------------------
(* The invariant is inductive                                               *)

\* Every step keeps the invariant.
LEMMA NextKeeps ==
  ASSUME Tame, IInv, [Next]_vars
  PROVE  IInv'
<1>1. CASE UNCHANGED vars
  BY <1>1 DEF vars, session, links, tasks, IInv, TypeOK, Paths, Owned, Holds, Starting,
     Looping, Stopping, Served, Alive
<1>2. ASSUME NEW c \in Callers, CallReturns(c)
      PROVE  IInv'
  <2>1. CASE Answered(c)
    BY <2>1, CallEndsKeeps DEF Answered
  <2>2. CASE RequestFails(c)
    BY <2>2, RequestFailsKeeps
  <2>3. ~VersionFrame(c) /\ ~CallerCloseReturns(c)
    BY DEF VersionFrame, CallerCloseReturns, Tame, IInv, Paths
  <2>4. QED
    BY <1>2, <2>1, <2>2, <2>3 DEF CallReturns
<1>3. ASSUME NEW l \in Loops, LoopRuns(l)
      PROVE  IInv'
  BY <1>3, LoopBeginsKeeps, LoopCloseReturnsKeeps, SleepReturnsKeeps, LoopCancelledKeeps,
     CancelSwallowedKeeps, StartSwallowsKeeps DEF LoopRuns
<1>4. ASSUME NEW a \in Connectors, Connect(a)
      PROVE  IInv'
  BY <1>4, ConnectFailsKeeps, HandshakeRefusedKeeps, DiscardReturnsKeeps,
     ConnectSucceedsKeeps DEF Connect
<1>5. CASE Start \/ Stop \/ StopperRuns
  BY <1>5, StartKeeps, StopKeeps, StopLoopEndedKeeps, StopCloseReturnsKeeps DEF StopperRuns
<1>6. Retriers = {}
  BY DEF Tame
<1>7. QED
  BY <1>1, <1>2, <1>3, <1>4, <1>5, <1>6, CallKeeps, LinkDiesKeeps, LeftExitsKeeps DEF Next

\* Once a transport is left nobody can have one any more: all that still runs are
\* the requests that fail, and stop().
LEMMA AfterLeaving ==
  ASSUME Tame, IInv, Leaving, [Next]_vars, NEW t \in Links, link[t] = "left"
  PROVE  /\ stopped' /\ current' = None /\ \A a \in Tasks : ~Holds(a)'
         /\ \A l \in Loops : ~Alive(l)'
<1>1. /\ stopped /\ current = None /\ pc[Starter] = "done" /\ pc[Stopper] # "idle"
      /\ (\A a \in Tasks : ~Holds(a)) /\ \A l \in Loops : ~Alive(l)
  BY DEF Leaving, IInv, Starting, Stopping
<1>2. ASSUME NEW a \in {Stopper} \cup Callers, NEW p \in {"idle", "done"}, Moves(a, p, None),
             UNCHANGED <<stopped, current>>
      PROVE  /\ stopped' /\ current' = None /\ \A b \in Tasks : ~Holds(b)'
             /\ \A l \in Loops : ~Alive(l)'
  BY <1>1, <1>2, Roles DEF Moves, Holds, Alive, IInv, TypeOK
<1>3. CASE UNCHANGED <<stopped, current, pc>>
  BY <1>1, <1>3 DEF Holds, Alive
<1>4. CASE Start \/ Stop \/ StopperRuns
  <2>1. StopLoopEnded
    BY <1>1, <1>4, Roles DEF Start, Stop, StopperRuns, StopCloseReturns, Holds
  <2>2. Moves(Stopper, "done", None) /\ UNCHANGED <<stopped, current>>
    BY <1>1, <2>1 DEF StopLoopEnded, StopperCloses, CloseCurrent, Finishes
  <2>3. QED
    BY <1>2, <2>2
<1>5. ASSUME NEW c \in Callers, CallReturns(c)
      PROVE  Moves(c, "idle", None) /\ UNCHANGED <<stopped, current>>
  <2>1. CASE Answered(c)
    BY <2>1, Roles DEF Answered, Finishes, session
  <2>2. CASE RequestFails(c)
    <3>1. awaits[c] \in Links /\ exitErr[awaits[c]] \in {"none", "transport"}
      BY <2>2 DEF RequestFails, IInv, Paths
    <3>2. OnTransportFailure(c)
      BY <2>2, <3>1 DEF RequestFails, RequestRaises
    <3>3. QED
      BY <1>1, <3>2, Roles DEF OnTransportFailure, Finishes
  <2>3. ~VersionFrame(c) /\ ~CallerCloseReturns(c)
    BY DEF VersionFrame, CallerCloseReturns, Tame, IInv, Paths
  <2>4. QED
    BY <1>5, <2>1, <2>2, <2>3 DEF CallReturns
<1>6. \A c \in Callers : ~Call(c)
  BY <1>1 DEF Call
<1>7. \A a \in Connectors : ~Connect(a)
  BY <1>1, Roles DEF Connect, ConnectFails, HandshakeRefused, DiscardReturns, ConnectSucceeds, Holds
<1>8. \A l \in Loops : ~LoopRuns(l)
  BY <1>1 DEF LoopRuns, LoopBegins, LoopCloseReturns, SleepReturns, LoopCancelled, CancelSwallowed,
     StartSwallows, Alive, IInv, Looping
<1>9. ASSUME NEW u \in Links, LinkDies(u) \/ LeftExits(u)
      PROVE  UNCHANGED <<stopped, current, pc>>
  BY <1>9 DEF LinkDies, LeftExits, session, tasks
<1>10. UNCHANGED vars => UNCHANGED <<stopped, current, pc>>
  BY DEF vars, session, tasks
<1>11. QED
  BY <1>2, <1>3, <1>4, <1>5, <1>6, <1>7, <1>8, <1>9, <1>10 DEF Next, Tame

\* So it is with the one that leaves it.
LEMMA LeavingKeeps ==
  ASSUME Tame, IInv, Leaving, [Next]_vars
  PROVE  Leaving'
<1>1. ASSUME NEW t \in Links, link'[t] = "left"
      PROVE  /\ stopped' /\ current' = None /\ \A a \in Tasks : ~Holds(a)'
             /\ \A l \in Loops : ~Alive(l)'
             /\ \A u \in Links : link'[u] = "left" => u = t
  <2>1. CASE \E v \in Links : link[v] = "left"
    <3>1. PICK v \in Links : link[v] = "left"
      BY <2>1
    <3>2. /\ stopped' /\ current' = None /\ \A a \in Tasks : ~Holds(a)'
          /\ \A l \in Loops : ~Alive(l)'
      BY <3>1, AfterLeaving
    <3>3. \A l \in Loops : ~LoopCancelled(l)
      BY <3>1 DEF Leaving, LoopCancelled, IInv, Looping
    <3>4. \A u \in Links : link'[u] = "left" => link[u] = "left"
      BY <3>3, OnlyCancelLeaves DEF IInv
    <3>5. QED
      BY <1>1, <3>2, <3>4 DEF Leaving
  <2>2. CASE \A v \in Links : link[v] # "left"
    <3>1. PICK l \in Loops : LoopCancelled(l) /\ awaits[l] = t
      BY <1>1, <2>2, OnlyCancelLeaves DEF IInv
    <3>2. /\ l \in cancelled /\ pc' = [pc EXCEPT ![l] = "idle"]
          /\ UNCHANGED <<stopped, current>>
      BY <3>1, Roles DEF LoopCancelled, Finishes, Moves, session
    <3>3. stopped /\ \A m \in Loops \ {l} : ~Alive(m)
      BY <3>2, Roles DEF IInv, Looping, Alive
    <3>4. Holds(l)
      BY <3>1, Roles DEF IInv, Paths, Looping, Holds
    <3>5. current = None /\ \A a \in Tasks : Holds(a) => a = l
      BY <3>4, Roles DEF IInv, Owned
    <3>6. \A u \in Links : link'[u] = "left" => u = t
      BY <2>2, <3>1 DEF LoopCancelled, CloseEnds, CutShort, Leave, links, IInv, TypeOK
    <3>7. (\A a \in Tasks : ~Holds(a)') /\ \A m \in Loops : ~Alive(m)'
      BY <3>2, <3>3, <3>5, Roles DEF Holds, Alive, IInv, TypeOK
    <3>8. QED
      BY <3>2, <3>3, <3>5, <3>6, <3>7
  <2>3. QED
    BY <2>1, <2>2
<1>2. QED
  BY <1>1 DEF Leaving

\* It holds in every state the session reaches.
LEMMA Invariance ==
  ASSUME Tame
  PROVE  Spec => [](IInv /\ Leaving)
<1>1. Init => IInv /\ Leaving
  BY InitIInv DEF Init, Leaving
<1>2. IInv /\ Leaving /\ [Next]_vars => IInv' /\ Leaving'
  BY NextKeeps, LeavingKeeps
<1>3. QED
  BY <1>1, <1>2, PTL DEF Spec

-----------------------------------------------------------------------------
(* Theorems                                                                 *)

\* However many transports, workers and loops there are, at most one transport
\* is starting, open, closing or left running by a cancelled close: _connect is
\* entered only after _close_transport has returned (session.py:145-158, 174-212).
THEOREM OneLinkHolds ==
  ASSUME Tame
  PROVE  Spec => []OneLink
<1>1. IInv /\ Leaving => OneLink
  BY Roles DEF IInv, Owned, Leaving, Holds, OneLink
<1>2. QED
  BY <1>1, Invariance, PTL

\* Once the session has settled in AUTH_REQUIRED or DISCONNECTED no loop is left
\* that would try again (session.py:184-212).
THEOREM NotRetriedHolds ==
  ASSUME Tame
  PROVE  Spec => []NotRetried
<1>1. IInv => NotRetried
  BY DEF Tame, IInv, Looping, NotRetried
<1>2. QED
  BY <1>1, Invariance, PTL

\* CONNECTED stands for an open transport with its own handshake
\* (session.py:145-158, 228-255).
THEOREM ConnectedIsServedHolds ==
  ASSUME Tame
  PROVE  Spec => []ConnectedIsServed
<1>1. IInv => ConnectedIsServed
  BY DEF IInv, Owned, Served, ConnectedIsServed
<1>2. QED
  BY <1>1, Invariance, PTL

\* After stop() no loop runs, the session has no transport, and all transports are
\* closed but those whose close() was cut short by the cancellation of the loop
\* (by OneLinkHolds one at most): there the process has been told to end, and was
\* neither awaited nor killed (session.py:137-141, subprocess.py:271-282).
THEOREM StopLeavesNothingOpenHolds ==
  ASSUME Tame
  PROVE  Spec => []StopLeavesNothingOpen
<1>1. IInv => StopLeavesNothingOpen
  BY Roles DEF IInv, Paths, Owned, Holds, Starting, Looping, Stopping, Alive, StopLeavesNothingOpen
<1>2. QED
  BY <1>1, Invariance, PTL

-----------------------------------------------------------------------------
(* The application implements the session                                   *)

\* Every step of the application is one of the session or leaves it alone.
LEMMA AppStepIsStep ==
  ASSUME [AppNext]_allVars
  PROVE  [Next]_vars
<1>1. CASE UNCHANGED allVars
  BY <1>1 DEF allVars
<1>2. CASE Tick
  BY <1>2 DEF Tick
<1>3. CASE Quits
  BY <1>3 DEF Quits, Next
<1>4. CASE Background
  BY <1>4 DEF Background, Next, Connect
<1>5. ASSUME NEW c \in Callers, Works(c)
      PROVE  [Next]_vars
  <2>1. CASE SetReady(c) \/ Skip(c)
    BY <2>1 DEF SetReady, Skip
  <2>2. CASE Refresh(c)
    BY <2>2 DEF Refresh, Next
  <2>3. CASE Returns(c)
    BY <2>3 DEF Returns, Next, CallReturns
  <2>4. CASE Fails(c)
    BY <2>4 DEF Fails, Next, CallReturns
  <2>5. QED
    BY <1>5, <2>1, <2>2, <2>3, <2>4 DEF Works
<1>6. ASSUME NEW a \in Connectors, Connects(a) \/ ConnectFailsIn(a)
      PROVE  [Next]_vars
  BY <1>6 DEF Connects, ConnectFailsIn, Next, Connect
<1>7. QED
  BY <1>1, <1>2, <1>3, <1>4, <1>5, <1>6 DEF AppNext

\* The application uses its session as session.py provides it: whatever holds of
\* ClientSession's Spec holds of the session inside the application
\* (tui/app.py:153-198, 233-357).
THEOREM AppDrivesSession == AppSpec => Spec
<1>1. AppInit => Init
  BY DEF AppInit
<1>2. [AppNext]_allVars => [Next]_vars
  BY AppStepIsStep
<1>3. QED
  BY <1>1, <1>2, PTL DEF AppSpec, Spec

-----------------------------------------------------------------------------
(* The inductive invariant of the application                               *)

Jobs == Tables \cup {"usage", "ready"}
In(s, w) == \E i \in 1 .. Len(s) : s[i] = w
Planned(w) == \E c \in Callers : In(plan[c], w)

AppTypeOK ==
  /\ plan \in [Callers -> Seq(Jobs)] /\ inflight \subseteq Tables
  /\ ready \in BOOLEAN /\ exited \in BOOLEAN

\* A worker that waits for an answer is refreshing the head of its plan.
Waiting == \A c \in Callers : pc[c] = "waiting" => plan[c] # <<>> /\ Head(plan[c]) # "ready"

\* A table in flight is being waited for.
InFlight == \A w \in inflight : \E c \in Callers : pc[c] = "waiting" /\ Head(plan[c]) = w

\* Once there was a connection the first worker has set `ready` or is to do so.
ReadyToCome ==
  state \in {"connected", "reconnecting"} \/ (\E c \in Callers : pc[c] = "waiting")
    => ready \/ Planned("ready")

\* Over a connection every table was answered or is still to be asked for.
Reloading ==
  state = "connected" /\ ~stopped => \A w \in Tables : w \in loaded \cup refused \/ Planned(w)

AInv == AppTypeOK /\ Waiting /\ InFlight /\ ReadyToCome /\ Reloading

\* Leaving out the head of a plan keeps the others in it.
LEMMA TailKeeps ==
  ASSUME NEW s \in Seq(Jobs), s # <<>>
  PROVE  /\ Head(s) \in Jobs /\ In(s, Head(s)) /\ Tail(s) \in Seq(Jobs)
         /\ \A w : In(s, w) /\ w # Head(s) => In(Tail(s), w)
<1>1. /\ Head(s) \in Jobs /\ Tail(s) \in Seq(Jobs) /\ Len(Tail(s)) = Len(s) - 1
      /\ \A i \in 1 .. Len(Tail(s)) : Tail(s)[i] = s[i + 1]
  BY HeadTailProperties
<1>2. Len(s) \in Nat \ {0} /\ Head(s) = s[1]
  BY EmptySeq
<1>3. ASSUME NEW w, In(s, w), w # Head(s)
      PROVE  In(Tail(s), w)
  <2>1. PICK i \in 1 .. Len(s) : s[i] = w
    BY <1>3 DEF In
  <2>2. i - 1 \in 1 .. Len(Tail(s)) /\ Tail(s)[i - 1] = s[i]
    BY <1>1, <1>2, <1>3, <2>1
  <2>3. QED
    BY <2>1, <2>2 DEF In
<1>4. In(s, Head(s))
  BY <1>2 DEF In
<1>5. QED
  BY <1>1, <1>3, <1>4

\* Putting the history in place of the head keeps the others in it.
LEMMA RewriteKeeps ==
  ASSUME NEW s \in Seq(Jobs), s # <<>>
  PROVE  /\ [s EXCEPT ![1] = "history"] \in Seq(Jobs)
         /\ \A w : In(s, w) /\ w # Head(s) => In([s EXCEPT ![1] = "history"], w)
<1>1. Len(s) \in Nat \ {0} /\ Head(s) = s[1] /\ "history" \in Jobs
  BY EmptySeq DEF Jobs, Tables
<1>2. /\ [s EXCEPT ![1] = "history"] \in Seq(Jobs)
      /\ Len([s EXCEPT ![1] = "history"]) = Len(s)
      /\ \A j \in 1 .. Len(s) : [s EXCEPT ![1] = "history"][j] = IF j = 1 THEN "history" ELSE s[j]
  BY <1>1, ExceptSeq
<1>3. QED
  BY <1>1, <1>2 DEF In

\* What the plans of the application ask for.
LEMMA PlansHave ==
  /\ Startup \in Seq(Jobs) /\ In(Startup, "active") /\ In(Startup, "history") /\ In(Startup, "ready")
  /\ RefreshAll \in Seq(Jobs) /\ In(RefreshAll, "active") /\ In(RefreshAll, "history")
  /\ \A p \in Ticks : p \in Seq(Jobs)
<1>1. Len(Startup) = 3 /\ Startup[1] = "active" /\ Startup[2] = "history" /\ Startup[3] = "ready"
  BY DEF Startup
<1>2. Len(RefreshAll) = 3 /\ RefreshAll[1] = "active" /\ RefreshAll[2] = "history"
  BY DEF RefreshAll
<1>3. Startup \in Seq(Jobs) /\ RefreshAll \in Seq(Jobs)
  BY DEF Startup, RefreshAll, Jobs, Tables
<1>4. \A p \in Ticks : p \in Seq(Jobs)
  <2>1. "active" \in Jobs /\ "history" \in Jobs /\ "usage" \in Jobs
    BY DEF Jobs, Tables
  <2>2. /\ <<"active">> \in Seq(Jobs) /\ <<"history">> \in Seq(Jobs) /\ <<"usage">> \in Seq(Jobs)
        /\ <<"active", "usage">> \in Seq(Jobs) /\ <<"history", "usage">> \in Seq(Jobs)
    BY <2>1
  <2>3. QED
    BY <2>2 DEF Ticks
<1>5. QED
  BY <1>1, <1>2, <1>3, <1>4 DEF In

-----------------------------------------------------------------------------
(* The steps of the session that no worker takes                            *)

\* What such a step does to what the application looks at.
Quiet ==
  /\ \A c \in Callers : pc'[c] = pc[c]
  /\ state' \in {"connected", "reconnecting"} => state' = state
  /\ state' = "connected" /\ ~stopped' => ~stopped

\* A connection that fails changes nothing for the application.
LEMMA ConnectFailsIsQuiet ==
  ASSUME Tame, IInv, NEW a \in Connectors, ConnectFails(a) \/ DiscardReturns(a)
  PROVE  Quiet
<1>1. PICK kind \in Kinds \cup {"malformed"} : ConnectRaises(a, kind)
  BY StartFailuresAssumption DEF ConnectFails, DiscardReturns, Kinds
<1>2. /\ \A c \in Callers : pc'[c] = pc[c]
      /\ state' \in {state, "auth_required", "disconnected"} /\ UNCHANGED stopped
  <2>1. CASE a = Starter
    BY <1>1, <2>1, Roles DEF ConnectRaises, StartRaises, Finishes, Moves, IInv, TypeOK, Kinds
  <2>2. CASE a \in Loops
    BY <1>1, <2>2, Roles DEF ConnectRaises, TryConnectEnds, Finishes, Moves, IInv, TypeOK, Kinds, Tame
  <2>3. QED
    BY <2>1, <2>2, Roles
<1>3. QED
  BY <1>2 DEF Quiet

\* Nor does a handshake that is refused,
LEMMA HandshakeRefusedIsQuiet ==
  ASSUME Tame, IInv, NEW a \in Connectors, HandshakeRefused(a)
  PROVE  Quiet
  BY Roles DEF HandshakeRefused, Moves, session, IInv, TypeOK, Quiet

\* nor the loop, before it has connected,
LEMMA LoopRunsIsQuiet ==
  ASSUME Tame, IInv, NEW l \in Loops, LoopRuns(l)
  PROVE  Quiet
<1>1. CASE ~StartSwallows(l)
  <2>1. UNCHANGED <<state, stopped>>
    BY <1>1 DEF LoopRuns, LoopBegins, LoopCloseReturns, SleepReturns, LoopCancelled, CancelSwallowed,
       session
  <2>2. PICK p : pc' = [pc EXCEPT ![l] = p] \/ pc' = pc
    BY <1>1 DEF LoopRuns, LoopBegins, LoopCloseReturns, SleepReturns, LoopCancelled, CancelSwallowed,
       CloseCurrent, BeginConnect, Finishes, Moves
  <2>3. QED
    BY <2>1, <2>2, Roles DEF IInv, TypeOK, Quiet
<1>2. CASE StartSwallows(l)
  <2>1. PICK kind \in Kinds : TryConnectEnds(l, kind)
    BY <1>2, AnyRoles DEF StartSwallows
  <2>2. UNCHANGED stopped /\ state' \in {state, "auth_required", "disconnected"}
    BY <1>2, <2>1, Roles DEF StartSwallows, TryConnectEnds, Tame, Kinds
  <2>3. \A c \in Callers : pc'[c] = pc[c]
    BY <2>1, Roles DEF TryConnectEnds, Finishes, Moves, IInv, TypeOK, Tame, Kinds
  <2>4. QED
    BY <2>2, <2>3 DEF Quiet
<1>3. QED
  BY <1>1, <1>2

\* nor start() and stop(),
LEMMA StarterAndStopperAreQuiet ==
  ASSUME Tame, IInv, Start \/ Stop \/ StopperRuns
  PROVE  Quiet
<1>1. CASE Start
  BY <1>1, Roles DEF Start, BeginConnect, Moves, IInv, TypeOK, Quiet
<1>2. CASE Stop \/ StopperRuns
  <2>1. PICK p : pc' = [pc EXCEPT ![Stopper] = p]
    <3>1. StopperCloses => \E p : pc' = [pc EXCEPT ![Stopper] = p]
      BY DEF StopperCloses, CloseCurrent, Finishes, Moves
    <3>2. CancelReconnect(Stopper) => \E p : pc' = [pc EXCEPT ![Stopper] = p]
      BY DEF CancelReconnect, Moves
    <3>3. StopCloseReturns => \E p : pc' = [pc EXCEPT ![Stopper] = p]
      BY DEF StopCloseReturns, Finishes, Moves
    <3>4. QED
      BY <1>2, <3>1, <3>2, <3>3 DEF Stop, StopperRuns, StopLoopEnded
  <2>2. state' = state \/ state' = "disconnected"
    BY <1>2 DEF Stop, StopperRuns, StopLoopEnded, StopCloseReturns, StopperCloses
  <2>3. ~stopped' => ~stopped
    BY <1>2 DEF Stop, StopperRuns, StopLoopEnded, StopCloseReturns
  <2>4. \A c \in Callers : pc'[c] = pc[c]
    BY <2>1, Roles DEF IInv, TypeOK
  <2>5. QED
    BY <2>2, <2>3, <2>4 DEF Quiet
<1>3. QED
  BY <1>1, <1>2

\* nor the end of a process.
LEMMA LinkDiesIsQuiet ==
  ASSUME NEW t \in Links, LinkDies(t) \/ LeftExits(t)
  PROVE  Quiet
  BY DEF LinkDies, LeftExits, session, tasks, Quiet

\* A quiet step keeps the invariant if it only gives idle workers a plan.
LEMMA QuietKeeps ==
  ASSUME AInv, Quiet, plan' \in [Callers -> Seq(Jobs)],
         \A c \in Callers : plan'[c] = plan[c] \/ (plan[c] = <<>> /\ pc[c] = "idle"),
         exited' \in BOOLEAN, UNCHANGED <<inflight, ready, loaded, refused>>
  PROVE  AInv'
<1>1. AppTypeOK'
  BY DEF AInv, AppTypeOK
<1>2. \A c \in Callers : pc[c] = "waiting" => plan'[c] = plan[c]
  OBVIOUS
<1>3. Waiting' /\ InFlight'
  BY <1>2 DEF AInv, Quiet, Waiting, InFlight
<1>4. \A w : Planned(w) => Planned(w)'
  BY DEF Planned, In
<1>5. ReadyToCome'
  BY <1>4 DEF AInv, Quiet, ReadyToCome
<1>6. Reloading'
  BY <1>4 DEF AInv, Quiet, Reloading
<1>7. QED
  BY <1>1, <1>3, <1>5, <1>6 DEF AInv

\* An idle worker that is given a plan.
LEMMA LaunchesGives ==
  ASSUME AInv, NEW p \in Seq(Jobs), Launches(p)
  PROVE  /\ plan' \in [Callers -> Seq(Jobs)]
         /\ \A c \in Callers : plan'[c] = plan[c] \/ (plan[c] = <<>> /\ pc[c] = "idle")
         /\ \A w : In(p, w) => Planned(w)'
<1>1. PICK c \in Callers : Idle(c) /\ plan' = [plan EXCEPT ![c] = p]
  BY DEF Launches
<1>2. plan \in [Callers -> Seq(Jobs)]
  BY DEF AInv, AppTypeOK
<1>3. plan'[c] = p
  BY <1>1, <1>2
<1>4. QED
  BY <1>1, <1>2, <1>3 DEF Idle, Planned, In

\* The session by itself.
LEMMA BackgroundKeeps ==
  ASSUME Tame, IInv, AInv, Background
  PROVE  AInv'
<1>1. Quiet
  BY StarterAndStopperAreQuiet, HandshakeRefusedIsQuiet, LoopRunsIsQuiet, LinkDiesIsQuiet
     DEF Background
<1>2. QED
  BY <1>1, QuietKeeps DEF Background, app, AInv, AppTypeOK

\* The application quits (app.py:183-187).
LEMMA QuitsKeeps ==
  ASSUME Tame, IInv, AInv, Quits
  PROVE  AInv'
<1>1. Quiet
  BY StarterAndStopperAreQuiet DEF Quits
<1>2. exited' \in BOOLEAN
  BY DEF Quits, AInv, AppTypeOK
<1>3. QED
  BY <1>1, <1>2, QuietKeeps DEF Quits, AInv, AppTypeOK

\* A timer or a key launches a worker.
LEMMA TickKeeps ==
  ASSUME AInv, Tick
  PROVE  AInv'
<1>1. PICK p \in Ticks : Launches(p)
  BY DEF Tick
<1>2. p \in Seq(Jobs)
  BY PlansHave
<1>3. Quiet
  BY DEF Tick, vars, session, tasks, Quiet
<1>4. QED
  BY <1>1, <1>2, <1>3, LaunchesGives, QuietKeeps DEF Tick, AInv, AppTypeOK

\* A connection fails under the start worker or the loop.
LEMMA ConnectFailsInKeeps ==
  ASSUME Tame, IInv, AInv, NEW a \in Connectors, ConnectFailsIn(a)
  PROVE  AInv'
<1>1. Quiet
  BY ConnectFailsIsQuiet DEF ConnectFailsIn
<1>2. exited' \in BOOLEAN /\ UNCHANGED <<inflight, ready, loaded, refused>>
  BY DEF ConnectFailsIn, AInv, AppTypeOK
<1>3. UNCHANGED plan \/ Launches(Startup)
  BY DEF ConnectFailsIn
<1>4. QED
  BY <1>1, <1>2, <1>3, PlansHave, LaunchesGives, QuietKeeps DEF AInv, AppTypeOK

-----------------------------------------------------------------------------
(* A new connection                                                         *)

\* When a handshake ends no worker is in the middle of its plan.
LEMMA WorkersAtRest ==
  ASSUME Tame, IInv, Leaving, AInv, ~exited, NEW a \in Connectors, ConnectSucceeds(a), Prompt
  PROVE  \A c \in Callers : pc[c] = "idle" /\ plan[c] = <<>>
<1>1. a \in Tasks /\ pc[a] = "connecting" /\ Settled
  BY Roles DEF ConnectSucceeds
<1>2. current = None /\ link[awaits[a]] = "starting" /\ \A b \in Tasks : Holds(b) => b = a
  BY <1>1 DEF IInv, Owned, Holds
<1>3. \A t \in Links : link[t] \notin {"up", "left"}
  BY <1>1, <1>2, Roles DEF IInv, Owned, Leaving, Holds
<1>4. ASSUME NEW c \in Callers
      PROVE  pc[c] = "idle" /\ plan[c] = <<>>
  <2>1. pc[c] # "waiting"
    BY <1>1, <1>3 DEF Settled, Woken, IInv, Paths
  <2>2. pc[c] = "idle"
    BY <2>1 DEF IInv, Paths
  <2>3. QED
    BY <2>2 DEF Prompt, Turn
<1>5. QED
  BY <1>4

\* A new connection launches the workers that reload the tables.
LEMMA ConnectsKeeps ==
  ASSUME Tame, IInv, Leaving, AInv, ~exited, NEW a \in Connectors, Connects(a)
  PROVE  AInv'
<1>1. \A c \in Callers : pc[c] = "idle" /\ plan[c] = <<>>
  BY WorkersAtRest DEF Connects
<1>2. inflight = {} /\ ~Planned("ready")
  BY <1>1 DEF AInv, InFlight, Planned, In
<1>3. /\ \A c \in Callers : pc'[c] = "idle"
      /\ UNCHANGED <<inflight, ready, exited>>
  BY <1>1, Roles DEF Connects, ConnectSucceeds, Finishes, Moves, IInv, TypeOK
<1>4. a # Starter => state = "reconnecting"
  BY Roles DEF Connects, ConnectSucceeds, IInv, Looping, Alive
<1>5. a # Starter => ready
  BY <1>2, <1>4 DEF AInv, ReadyToCome
<1>6. PICK p \in Seq(Jobs) : /\ Launches(p) /\ In(p, "active") /\ In(p, "history")
                             /\ ready \/ In(p, "ready")
  BY <1>5, PlansHave DEF Connects
<1>7. plan' \in [Callers -> Seq(Jobs)] /\ \A w : In(p, w) => Planned(w)'
  BY <1>6, LaunchesGives
<1>8. AppTypeOK' /\ Waiting' /\ InFlight'
  BY <1>2, <1>3, <1>7 DEF AInv, AppTypeOK, Waiting, InFlight
<1>9. ReadyToCome' /\ Reloading'
  BY <1>3, <1>6, <1>7 DEF ReadyToCome, Reloading, Tables
<1>10. QED
  BY <1>8, <1>9 DEF AInv

-----------------------------------------------------------------------------
(* The steps of a worker                                                    *)

\* Dropping the head of its plan, a worker keeps the rest of it.
LEMMA RestKeeps ==
  ASSUME AInv, NEW c \in Callers, plan[c] # <<>>, plan' = Rest(c)
  PROVE  /\ plan' \in [Callers -> Seq(Jobs)] /\ Head(plan[c]) \in Jobs
         /\ \A d \in Callers \ {c} : plan'[d] = plan[d]
         /\ \A w : Planned(w) /\ w # Head(plan[c]) => Planned(w)'
<1>1. plan \in [Callers -> Seq(Jobs)] /\ plan[c] \in Seq(Jobs)
  BY DEF AInv, AppTypeOK
<1>2. /\ Head(plan[c]) \in Jobs /\ Tail(plan[c]) \in Seq(Jobs)
      /\ \A w : In(plan[c], w) /\ w # Head(plan[c]) => In(Tail(plan[c]), w)
  BY <1>1, TailKeeps
<1>3. plan' = [plan EXCEPT ![c] = Tail(plan[c])]
  BY DEF Rest
<1>4. plan' \in [Callers -> Seq(Jobs)] /\ plan'[c] = Tail(plan[c])
      /\ \A d \in Callers \ {c} : plan'[d] = plan[d]
  BY <1>1, <1>2, <1>3
<1>5. ASSUME NEW w, Planned(w), w # Head(plan[c])
      PROVE  Planned(w)'
  <2>1. PICK d \in Callers : In(plan[d], w)
    BY <1>5 DEF Planned
  <2>2. CASE d = c
    <3>1. In(Tail(plan[c]), w)
      BY <1>2, <1>5, <2>1, <2>2
    <3>2. In(plan'[c], w)
      BY <1>4, <3>1
    <3>3. QED
      BY <3>2 DEF Planned, In
  <2>3. CASE d # c
    BY <1>4, <2>1, <2>3 DEF Planned, In
  <2>4. QED
    BY <2>2, <2>3
<1>6. QED
  BY <1>2, <1>4, <1>5

\* The start worker is done.
LEMMA SetReadyKeeps ==
  ASSUME AInv, NEW c \in Callers, SetReady(c)
  PROVE  AInv'
<1>1. /\ plan[c] # <<>> /\ Head(plan[c]) = "ready" /\ ready' = TRUE /\ plan' = Rest(c)
      /\ pc[c] = "idle" /\ UNCHANGED <<state, stopped, pc, inflight, exited, loaded, refused>>
  BY DEF SetReady, Turn, vars, session, tasks
<1>2. /\ plan' \in [Callers -> Seq(Jobs)] /\ \A d \in Callers \ {c} : plan'[d] = plan[d]
      /\ \A w \in Tables : Planned(w) => Planned(w)'
  BY <1>1, RestKeeps DEF Tables
<1>3. AppTypeOK' /\ Waiting' /\ InFlight'
  BY <1>1, <1>2 DEF AInv, AppTypeOK, Waiting, InFlight
<1>4. ReadyToCome' /\ Reloading'
  BY <1>1, <1>2 DEF AInv, ReadyToCome, Reloading
<1>5. QED
  BY <1>3, <1>4 DEF AInv

\* A refresh that is left out because its table is in flight is made by the
\* worker that has it in flight.
LEMMA SkipKeeps ==
  ASSUME IInv, AInv, NEW c \in Callers, Skip(c)
  PROVE  AInv'
<1>1. /\ plan[c] # <<>> /\ Head(plan[c]) # "ready" /\ plan' = Rest(c) /\ pc[c] = "idle"
      /\ Head(plan[c]) \in inflight \/ state # "connected" \/ current = None
      /\ UNCHANGED <<state, stopped, pc, inflight, ready, exited, loaded, refused>>
  BY DEF Skip, Turn, vars, session, tasks
<1>2. /\ plan' \in [Callers -> Seq(Jobs)] /\ \A d \in Callers \ {c} : plan'[d] = plan[d]
      /\ \A w : Planned(w) /\ w # Head(plan[c]) => Planned(w)'
  BY <1>1, RestKeeps
<1>3. AppTypeOK' /\ Waiting' /\ InFlight'
  BY <1>1, <1>2 DEF AInv, AppTypeOK, Waiting, InFlight
<1>4. ReadyToCome'
  BY <1>1, <1>2 DEF AInv, ReadyToCome
<1>5. ASSUME state = "connected", ~stopped, NEW w, w = Head(plan[c])
      PROVE  Planned(w)'
  <2>1. Head(plan[c]) \in inflight
    BY <1>1, <1>5 DEF IInv, Served
  <2>2. PICK d \in Callers : pc[d] = "waiting" /\ Head(plan[d]) = w
    BY <1>5, <2>1 DEF AInv, InFlight
  <2>3. d # c /\ plan[d] # <<>> /\ plan[d] \in Seq(Jobs) /\ plan'[d] = plan[d]
    BY <1>1, <1>2, <2>2 DEF AInv, Waiting, AppTypeOK
  <2>4. In(plan'[d], w)
    BY <2>2, <2>3, TailKeeps
  <2>5. QED
    BY <2>4 DEF Planned, In
<1>6. Reloading'
  BY <1>1, <1>2, <1>5 DEF AInv, Reloading
<1>7. QED
  BY <1>3, <1>4, <1>6 DEF AInv

\* A refresh of a table that is not in flight is sent.
LEMMA RefreshKeeps ==
  ASSUME Tame, IInv, AInv, NEW c \in Callers, Refresh(c)
  PROVE  AInv'
<1>1. /\ plan[c] # <<>> /\ Head(plan[c]) # "ready" /\ state = "connected"
      /\ pc' = [pc EXCEPT ![c] = "waiting"]
      /\ inflight' = inflight \cup ({Head(plan[c])} \cap Tables)
      /\ UNCHANGED <<state, stopped, plan, ready, exited, loaded, refused>>
  BY DEF Refresh, Turn, Call, Moves, session
<1>2. \A d \in Callers : pc'[d] = IF d = c THEN "waiting" ELSE pc[d]
  BY <1>1, Roles DEF IInv, TypeOK
<1>3. AppTypeOK' /\ Waiting'
  BY <1>1, <1>2 DEF AInv, AppTypeOK, Waiting
<1>4. InFlight'
  BY <1>1, <1>2 DEF AInv, InFlight
<1>5. ReadyToCome' /\ Reloading'
  BY <1>1 DEF AInv, ReadyToCome, Reloading, Planned
<1>6. QED
  BY <1>3, <1>4, <1>5 DEF AInv

\* An answer: the table is loaded, or refused, and the plan goes on.
LEMMA ReturnsKeeps ==
  ASSUME Tame, IInv, AInv, NEW c \in Callers, Returns(c)
  PROVE  AInv'
<1>1. /\ pc[c] = "waiting" /\ pc' = [pc EXCEPT ![c] = "idle"]
      /\ inflight' = inflight \ {Head(plan[c])}
      /\ UNCHANGED <<state, stopped, ready, exited>>
  BY Roles DEF Returns, Answered, Finishes, Moves, session
<1>2. \A d \in Callers : pc'[d] = IF d = c THEN "idle" ELSE pc[d]
  BY <1>1, Roles DEF IInv, TypeOK
<1>3. plan \in [Callers -> Seq(Jobs)] /\ plan[c] # <<>> /\ Head(plan[c]) # "ready" /\ plan[c] \in Seq(Jobs)
  BY <1>1 DEF AInv, Waiting, AppTypeOK
<1>4. /\ plan' \in [Callers -> Seq(Jobs)] /\ \A d \in Callers \ {c} : plan'[d] = plan[d]
      /\ \A w : Planned(w) /\ w # Head(plan[c]) => Planned(w)'
  <2>1. plan' = Rest(c) \/ plan' = [plan EXCEPT ![c][1] = "history"]
    BY DEF Returns
  <2>2. CASE plan' = Rest(c)
    BY <1>3, <2>2, RestKeeps
  <2>3. CASE plan' = [plan EXCEPT ![c][1] = "history"]
    <3>1. /\ plan' = [plan EXCEPT ![c] = [plan[c] EXCEPT ![1] = "history"]]
          /\ [plan[c] EXCEPT ![1] = "history"] \in Seq(Jobs)
      BY <1>3, <2>3, RewriteKeeps
    <3>2. /\ plan' \in [Callers -> Seq(Jobs)] /\ plan'[c] = [plan[c] EXCEPT ![1] = "history"]
          /\ \A d \in Callers \ {c} : plan'[d] = plan[d]
      BY <1>3, <3>1
    <3>3. ASSUME NEW w, Planned(w), w # Head(plan[c])
          PROVE  Planned(w)'
      <4>1. PICK d \in Callers : In(plan[d], w)
        BY <3>3 DEF Planned
      <4>2. In(plan'[d], w)
        <5>1. CASE d = c
          BY <1>3, <3>2, <3>3, <4>1, <5>1, RewriteKeeps
        <5>2. CASE d # c
          BY <3>2, <4>1, <5>2
        <5>3. QED
          BY <5>1, <5>2
      <4>3. QED
        BY <4>2 DEF Planned, In
    <3>4. QED
      BY <3>2, <3>3
  <2>4. QED
    BY <2>1, <2>2, <2>3
<1>5. /\ loaded \subseteq loaded' /\ refused \subseteq refused'
      /\ Head(plan[c]) \in Tables => Head(plan[c]) \in loaded' \cup refused'
  BY DEF Returns
<1>6. AppTypeOK' /\ Waiting' /\ InFlight'
  <2>1. AppTypeOK'
    BY <1>1, <1>4 DEF AInv, AppTypeOK
  <2>2. Waiting'
    BY <1>2, <1>4 DEF AInv, Waiting
  <2>3. InFlight'
    BY <1>1, <1>2, <1>4 DEF AInv, InFlight
  <2>4. QED
    BY <2>1, <2>2, <2>3
<1>7. ReadyToCome'
  BY <1>1, <1>2, <1>3, <1>4 DEF AInv, ReadyToCome
<1>8. Reloading'
  BY <1>1, <1>4, <1>5 DEF AInv, Reloading
<1>9. QED
  BY <1>6, <1>7, <1>8 DEF AInv

\* A failure: the session is not connected any more, or is about to stop.
LEMMA FailsKeeps ==
  ASSUME Tame, IInv, AInv, NEW c \in Callers, Fails(c)
  PROVE  AInv'
<1>1. RequestFails(c)
  BY DEF Fails, VersionFrame, CallerCloseReturns, Tame, IInv, Paths
<1>2. pc[c] = "waiting" /\ OnTransportFailure(c)
  <2>1. pc[c] = "waiting" /\ exitErr[awaits[c]] \in {"none", "transport"}
    BY <1>1 DEF RequestFails, IInv, Paths
  <2>2. QED
    BY <1>1, <2>1 DEF RequestFails, RequestRaises
<1>3. state' # "connected" \/ stopped'
  BY <1>2 DEF OnTransportFailure
<1>4. /\ pc'[c] = "idle" /\ \A d \in Callers \ {c} : pc'[d] = pc[d]
  <2>1. \/ pc' = [pc EXCEPT ![c] = "idle"]
        \/ \E l \in Loops : pc' = [pc EXCEPT ![c] = "idle", ![l] = "created"]
    BY <1>2, Roles DEF OnTransportFailure, Spawns, Finishes, Moves
  <2>2. QED
    BY <2>1, Roles DEF IInv, TypeOK
<1>5. /\ plan' = Rest(c) /\ inflight' = inflight \ {Head(plan[c])}
      /\ UNCHANGED <<ready, exited, loaded, refused>>
  BY <1>4 DEF Fails
<1>6. plan[c] # <<>> /\ Head(plan[c]) # "ready"
  BY <1>2 DEF AInv, Waiting
<1>7. /\ plan' \in [Callers -> Seq(Jobs)] /\ \A d \in Callers \ {c} : plan'[d] = plan[d]
      /\ \A w : Planned(w) /\ w # Head(plan[c]) => Planned(w)'
  BY <1>5, <1>6, RestKeeps
<1>8. AppTypeOK' /\ Waiting' /\ InFlight'
  BY <1>4, <1>5, <1>7 DEF AInv, AppTypeOK, Waiting, InFlight
<1>9. ReadyToCome'
  BY <1>2, <1>5, <1>6, <1>7 DEF AInv, ReadyToCome
<1>10. Reloading'
  BY <1>3 DEF Reloading
<1>11. QED
  BY <1>8, <1>9, <1>10 DEF AInv

-----------------------------------------------------------------------------
(* The invariant is inductive                                               *)

\* Before on_mount.
LEMMA AppInitAInv ==
  ASSUME AppInit
  PROVE  AInv
<1>1. \A c \in Callers : pc[c] = "idle"
  BY DEF AppInit, Init, Tasks
<1>2. AppTypeOK
  BY EmptySeq DEF AppInit, AppTypeOK
<1>3. QED
  BY <1>1, <1>2 DEF AppInit, Init, AInv, Waiting, InFlight, ReadyToCome, Reloading

\* Every step of the application.
LEMMA AppNextKeeps ==
  ASSUME Tame, IInv, Leaving, AInv, [AppNext]_allVars
  PROVE  AInv'
<1>1. CASE UNCHANGED allVars
  BY <1>1 DEF allVars, vars, session, tasks, app, AInv, AppTypeOK, Waiting, InFlight,
     ReadyToCome, Reloading, Planned
<1>2. CASE Tick \/ Quits \/ Background
  BY <1>2, TickKeeps, QuitsKeeps, BackgroundKeeps
<1>3. ASSUME NEW c \in Callers, Works(c)
      PROVE  AInv'
  BY <1>3, SetReadyKeeps, SkipKeeps, RefreshKeeps, ReturnsKeeps, FailsKeeps DEF Works
<1>4. ASSUME ~exited, NEW a \in Connectors, Connects(a) \/ ConnectFailsIn(a)
      PROVE  AInv'
  BY <1>4, ConnectsKeeps, ConnectFailsInKeeps
<1>5. QED
  BY <1>1, <1>2, <1>3, <1>4 DEF AppNext

-----------------------------------------------------------------------------
(* Theorems                                                                 *)

\* When every worker has come to its end, both tables show what the agent sent
\* over this connection, or it refused to send them: no reload is lost, however
\* many workers, timers and reconnections there are (tui/app.py:237-239, 251-256).
THEOREM BackOnlineIsFreshHolds ==
  ASSUME Tame
  PROVE  AppSpec => []BackOnlineIsFresh
<1>1. AppInit => AInv
  BY AppInitAInv
<1>2. IInv /\ Leaving /\ AInv /\ [AppNext]_allVars => AInv'
  BY AppNextKeeps
<1>3. IInv /\ AInv => BackOnlineIsFresh
  BY DEF AInv, Reloading, Planned, In, BackOnlineIsFresh
<1>4. AppSpec => [](IInv /\ Leaving)
  BY AppDrivesSession, Invariance, PTL
<1>5. QED
  BY <1>1, <1>2, <1>3, <1>4, PTL DEF AppSpec

\* The session inside the application keeps its promises (session.py:137-212).
THEOREM AppKeepsSession ==
  ASSUME Tame
  PROVE  AppSpec => [](OneLink /\ OneOwner /\ NotRetried /\ ConnectedIsServed /\ StopLeavesNothingOpen)
<1>1. Plain
  BY DEF Tame, Plain
<1>2. QED
  BY <1>1, AppDrivesSession, OneLinkHolds, OneOwnerHolds, NotRetriedHolds,
     ConnectedIsServedHolds, StopLeavesNothingOpenHolds, PTL
=============================================================================
