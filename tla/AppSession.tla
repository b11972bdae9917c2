----------------------------- MODULE AppSession -----------------------------
(* The application around its session (tui/app.py 153-198, 233-357,         *)
(* 515-520): the workers that start the session, refresh the tables on      *)
(* timers and keys, and reload them when the connection is back.  Callers   *)
(* are the workers; what a request of theirs does to the session, and what  *)
(* it waits for, is module ClientSession.                                   *)
EXTENDS ClientSession, Sequences

VARIABLES
  plan,      \* the refreshes each worker has still to await, the one under way first
  inflight,  \* the tables with _active_inflight or _history_inflight set
  ready,     \* self.ready is set
  exited,    \* self.exit() was called
  loaded,    \* the tables loaded since the session connected last
  refused    \* the tables the agent refused to send since then

app == <<plan, inflight, ready, exited, loaded, refused>>
allVars == <<vars, app>>

Tables == {"active", "history"}
Startup == <<"active", "history", "ready">>       \* the rest of _start_session
RefreshAll == <<"active", "history", "usage">>
\* The timers and the key r, by the tab in front.
Ticks == {<<"active">>, <<"history">>, <<"usage">>, <<"active", "usage">>, <<"history", "usage">>}

AppInit ==
  /\ Init /\ plan = [c \in Callers |-> <<>>] /\ inflight = {} /\ ready = FALSE
  /\ exited = FALSE /\ loaded = {} /\ refused = {}

Idle(c) == pc[c] = "idle" /\ plan[c] = <<>>
Launches(p) == \E c \in Callers : Idle(c) /\ plan' = [plan EXCEPT ![c] = p]

\* Timers run from on_mount on, before the session has connected too.
Tick ==
  /\ ~exited /\ pc[Starter] # "idle" /\ \E p \in Ticks : Launches(p)
  /\ UNCHANGED <<vars, inflight, ready, exited, loaded, refused>>

-----------------------------------------------------------------------------
(* What a worker does at the head of its plan                               *)

Turn(c) == ~exited /\ pc[c] = "idle" /\ plan[c] # <<>>
Rest(c) == [plan EXCEPT ![c] = Tail(@)]

SetReady(c) ==
  /\ Turn(c) /\ Head(plan[c]) = "ready" /\ ready' = TRUE /\ plan' = Rest(c)
  /\ UNCHANGED <<vars, inflight, exited, loaded, refused>>

\* A table that is being refreshed is not refreshed again; without a
\* connection the refresh fails at once.
Skip(c) ==
  /\ Turn(c) /\ Head(plan[c]) # "ready"
  /\ Head(plan[c]) \in inflight \/ state # "connected" \/ current = None
  /\ plan' = Rest(c)
  /\ UNCHANGED <<vars, inflight, ready, exited, loaded, refused>>

Refresh(c) ==
  /\ Turn(c) /\ Head(plan[c]) \notin inflight \cup {"ready"} /\ Call(c)
  /\ inflight' = inflight \cup ({Head(plan[c])} \cap Tables)
  /\ UNCHANGED <<plan, ready, exited, loaded, refused>>

\* A result, or an AgentError.  Jobs that are gone from the active table are
\* looked for in the history first.
Returns(c) ==
  /\ Answered(c) /\ inflight' = inflight \ {Head(plan[c])}
  /\ \/ /\ loaded' = loaded \cup ({Head(plan[c])} \cap Tables) /\ UNCHANGED refused
        /\ plan' \in {Rest(c)} \cup
             (IF Head(plan[c]) = "active" THEN {[plan EXCEPT ![c][1] = "history"]} ELSE {})
     \/ /\ refused' = refused \cup ({Head(plan[c])} \cap Tables) /\ UNCHANGED loaded
        /\ plan' = Rest(c)
  /\ UNCHANGED <<ready, exited>>

\* Mutant: a refresh that fails leaves its table in flight.
Fails_StaysInFlight(c) ==
  /\ VersionFrame(c) \/ RequestFails(c) \/ CallerCloseReturns(c)
  /\ plan' = IF pc'[c] = "idle" THEN Rest(c) ELSE plan
  /\ UNCHANGED <<inflight, ready, exited, loaded, refused>>

\* A TransportError; until it is raised the session may be closing the link.
Fails(c) ==
  /\ VersionFrame(c) \/ RequestFails(c) \/ CallerCloseReturns(c)
  /\ IF pc'[c] = "idle" THEN plan' = Rest(c) /\ inflight' = inflight \ {Head(plan[c])}
     ELSE UNCHANGED <<plan, inflight>>
  /\ UNCHANGED <<ready, exited, loaded, refused>>

Works(c) == SetReady(c) \/ Skip(c) \/ Refresh(c) \/ Returns(c) \/ Fails(c)

-----------------------------------------------------------------------------
(* The session as the application sees it                                   *)

\* A worker that awaits nothing runs before a handshake ends (as in Settled).
Prompt == \A c \in Callers : ~Turn(c)

\* Mutant: the tables wait for their timers.
Connects_NoReload(a) ==
  /\ ConnectSucceeds(a) /\ Prompt /\ loaded' = {} /\ refused' = {}
  /\ IF a = Starter THEN Launches(Startup) ELSE UNCHANGED plan
  /\ UNCHANGED <<inflight, ready, exited>>

\* _start_session goes on; _on_session_state(CONNECTED) reloads everything.
Connects(a) ==
  /\ ConnectSucceeds(a) /\ Prompt /\ loaded' = {} /\ refused' = {}
  /\ IF a = Starter THEN Launches(Startup)
     ELSE IF ready THEN Launches(RefreshAll) ELSE UNCHANGED plan
  /\ UNCHANGED <<inflight, ready, exited>>

\* A first connection that fails: the application leaves with the instruction,
\* or goes on with a message, or the worker ends on an exception of another kind.
ConnectFailsIn(a) ==
  /\ ConnectFails(a) \/ DiscardReturns(a)
  /\ IF a # Starter THEN UNCHANGED <<plan, exited>>
     ELSE \/ /\ lastError' \in {"auth", "bootstrap", "mismatch"}
             /\ exited' = TRUE /\ UNCHANGED plan
          \/ lastError' = "transport" /\ Launches(Startup) /\ UNCHANGED exited
          \/ lastError' = "none" /\ UNCHANGED <<plan, exited>>
  /\ UNCHANGED <<inflight, ready, loaded, refused>>

\* action_quit; exit() follows stop().
Quits ==
  /\ Stop \/ StopperRuns
  /\ exited' = (exited \/ pc'[Stopper] = "done")
  /\ UNCHANGED <<plan, inflight, ready, loaded, refused>>

Background ==
  /\ Start \/ (\E a \in Connectors : HandshakeRefused(a)) \/ (\E l \in Loops : LoopRuns(l))
     \/ (\E t \in Links : LinkDies(t) \/ LeftExits(t))
  /\ UNCHANGED app

AppNext ==
  /\ ~exited
  /\ \/ Tick \/ Quits \/ Background
     \/ \E c \in Callers : Works(c)
     \/ \E a \in Connectors : Connects(a) \/ ConnectFailsIn(a)

AppSpec == AppInit /\ [][AppNext]_allVars
-----------------------------------------------------------------------------
(* Properties                                                               *)

\* Once the session is connected again and every worker has come to its end,
\* both tables show what the agent sent over this connection, unless it sent no
\* table: a reload is neither forgotten nor swallowed by a refresh that was
\* under way when the link broke (app.py:237-239, 251-256).
BackOnlineIsFresh ==
  state = "connected" /\ ready /\ ~stopped /\ (\A c \in Callers : plan[c] = <<>>)
    => Tables \subseteq loaded \cup refused
=============================================================================
