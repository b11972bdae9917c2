--------------------------- MODULE ClientSession ---------------------------
(* The connection state machine of session.py: one ClientSession shared by  *)
(* the coroutines of one asyncio event loop.  A step is what a coroutine    *)
(* does between two awaits; pc[a] says which await coroutine a is at and    *)
(* awaits[a] what it waits for (a transport, or a cancelled loop task).     *)
(* Transports are the contract of transport/__init__.py as implemented by   *)
(* SubprocessTransport (module SubprocessTransport has the detail).         *)
EXTENDS Naturals

CONSTANTS
  Starter,         \* the coroutine that runs start()
  Stopper,         \* the coroutine that runs stop()
  Callers,         \* coroutines that issue requests: the TUI's workers
  Retriers,        \* coroutines that run reconnect_now(); the TUI has none
  Loops,           \* reconnect-loop tasks; an identity is reused once finished
  Links,           \* transports; an identity is reused once closed and forgotten
  None,
  StartFailures,   \* how transport.start() may fail
  ExitKinds,       \* how classify_exit may classify the death of a live link
  VersionFrames,   \* may a connected agent answer with version_mismatch?
  QuitDuringStart  \* may stop() be called while start() is still running?

ASSUME StartFailuresAssumption ==
  StartFailures \subseteq {"transport", "auth", "bootstrap", "mismatch", "malformed"}
ASSUME ExitKindsAssumption == ExitKinds \subseteq {"transport", "auth", "bootstrap"}
ASSUME SwitchAssumption == VersionFrames \in BOOLEAN /\ QuitDuringStart \in BOOLEAN
ASSUME RolesAssumption ==
  /\ Starter # Stopper
  /\ {Starter, Stopper} \cap (Callers \cup Retriers \cup Loops) = {}
  /\ Callers \cap (Retriers \cup Loops) = {}
  /\ Retriers \cap Loops = {}
  /\ Links \cap Loops = {}
  /\ None \notin Links \cup Loops

Connectors == {Starter} \cup Loops \cup Retriers   \* who may call _connect
Tasks == Connectors \cup Callers \cup {Stopper}

VARIABLES
  state,      \* ClientSession.state
  lastError,  \* the exception behind ClientSession.last_error, or "none"
  degraded,   \* ClientSession.degraded
  stopped,    \* ClientSession._stopped
  current,    \* ClientSession._transport
  recTask,    \* ClientSession._reconnect_task
  link,       \* the status of each transport and its process
  extension,  \* the extension_available of each transport's handshake
  exitErr,    \* the error a dead transport's process was classified as
  pc, awaits,
  cancelled   \* loop tasks with a cancellation not delivered yet

session == <<state, lastError, degraded, stopped, current, recTask>>
links == <<link, extension, exitErr>>
tasks == <<pc, awaits, cancelled>>
vars == <<session, links, tasks>>

Init ==
  /\ state = "disconnected" /\ lastError = "none"
  /\ degraded = FALSE /\ stopped = FALSE
  /\ current = None /\ recTask = None
  /\ link = [t \in Links |-> "closed"]
  /\ extension = [t \in Links |-> FALSE]
  /\ exitErr = [t \in Links |-> "none"]
  /\ pc = [a \in Tasks |-> "idle"]
  /\ awaits = [a \in Tasks |-> None]
  /\ cancelled = {}

-----------------------------------------------------------------------------
Moves(a, p, x) ==
  /\ pc' = [pc EXCEPT ![a] = p]
  /\ awaits' = [awaits EXCEPT ![a] = x]

Finishes(a) == Moves(a, IF a \in {Starter, Stopper} THEN "done" ELSE "idle", None)

FreeLink(t) == link[t] = "closed" /\ \A a \in Tasks : awaits[a] # t
FreeLoop(l) == pc[l] = "idle" /\ \A a \in Tasks : awaits[a] # l

\* What is short on the scale of a backoff delay or a handshake is over before
\* one ends: a caller whose future has been resolved with an error runs as soon
\* as the ready queue is drained, and closing a process that has exited waits at
\* most for the end of its stderr.  A close() cut short may have resolved nothing.
Woken(c) == pc[c] = "waiting" /\ link[awaits[c]] \notin {"up", "left"}
Settled == (\A c \in Callers : ~Woken(c)) /\ (\A t \in Links : link[t] # "reaping")

\* Mutant: the failing coroutine records itself as the reconnect task.
Spawns_RecordsCaller(a) ==
  \E l \in Loops :
    /\ FreeLoop(l)
    /\ pc' = [pc EXCEPT ![a] = "idle", ![l] = "created"]
    /\ awaits' = [awaits EXCEPT ![a] = None]
    /\ recTask' = a

\* a ends, having created a reconnect loop task.
Spawns(a) ==
  \E l \in Loops :
    /\ FreeLoop(l)
    /\ pc' = [pc EXCEPT ![a] = "idle", ![l] = "created"]
    /\ awaits' = [awaits EXCEPT ![a] = None]
    /\ recTask' = l

\* _connect up to its first await: a fresh transport, start() called.
BeginConnect(a) ==
  \E t \in Links :
    /\ FreeLink(t)
    /\ link' = [link EXCEPT ![t] = "starting"]
    /\ exitErr' = [exitErr EXCEPT ![t] = "none"]
    /\ Moves(a, "connecting", t)
    /\ UNCHANGED extension

\* Mutant: _close_transport closes the transport without forgetting it.
CloseCurrent_KeepsIt(a, p) ==
  /\ current # None
  /\ UNCHANGED current
  /\ link' = [link EXCEPT ![current] = IF @ = "dead" THEN "reaping" ELSE "closing"]
  /\ Moves(a, p, current)
  /\ UNCHANGED <<extension, exitErr>>

\* _close_transport up to its await, when there is a transport to close.
CloseCurrent(a, p) ==
  /\ current # None
  /\ current' = None
  /\ link' = [link EXCEPT ![current] = IF @ = "dead" THEN "reaping" ELSE "closing"]
  /\ Moves(a, p, current)
  /\ UNCHANGED <<extension, exitErr>>

CloseEnds(t) ==
  link' = [link EXCEPT ![t] = "closed"] /\ UNCHANGED <<extension, exitErr>>

-----------------------------------------------------------------------------
(* start() and _connect().                                                   *)

Start ==
  /\ pc[Starter] = "idle"
  /\ state' = "connecting" /\ stopped' = FALSE
  /\ BeginConnect(Starter)
  /\ UNCHANGED <<lastError, degraded, current, recTask, cancelled>>

\* start(): the exception is recorded and propagates; nothing retries.
StartRaises(kind) ==
  /\ CASE kind = "auth" -> lastError' = "auth" /\ state' = "auth_required"
       [] kind = "malformed" -> UNCHANGED <<lastError, state>>
       [] OTHER -> lastError' = kind /\ state' = "disconnected"
  /\ Finishes(Starter)
  /\ UNCHANGED recTask

\* Mutants: an AuthError does not end the loop; a transport failure does.
TryConnectEnds_AuthRetries(a, kind) ==
  CASE kind = "auth" ->
         lastError' = "auth" /\ state' = "auth_required"
         /\ Moves(a, "sleeping", None) /\ UNCHANGED recTask
    [] OTHER -> lastError' = kind /\ state' = "disconnected" /\ Finishes(a) /\ UNCHANGED recTask

TryConnectEnds_GivesUp(a, kind) ==
  /\ lastError' = kind /\ Finishes(a) /\ UNCHANGED recTask
  /\ state' = IF kind = "auth" THEN "auth_required"
              ELSE IF kind = "transport" THEN state ELSE "disconnected"

\* _try_connect and what its caller does with the answer: a loop goes on to its
\* next delay, reconnect_now creates a loop.  An exception that is not a
\* TransportError ("malformed") leaves the coroutine with the state untouched.
TryConnectEnds(a, kind) ==
  CASE kind = "auth" ->
         lastError' = "auth" /\ state' = "auth_required" /\ Finishes(a) /\ UNCHANGED recTask
    [] kind \in {"bootstrap", "mismatch"} ->
         lastError' = kind /\ state' = "disconnected" /\ Finishes(a) /\ UNCHANGED recTask
    [] kind = "malformed" ->
         Finishes(a) /\ UNCHANGED <<lastError, state, recTask>>
    [] OTHER ->
         /\ lastError' = kind /\ UNCHANGED state
         /\ IF a \in Retriers THEN Spawns(a)
            ELSE /\ IF stopped THEN Finishes(a) ELSE Moves(a, "sleeping", None)
                 /\ UNCHANGED recTask

ConnectRaises(a, kind) ==
  /\ IF a = Starter THEN StartRaises(kind) ELSE TryConnectEnds(a, kind)
  /\ UNCHANGED <<degraded, stopped, current, cancelled>>

\* transport.start() raised: SubprocessTransport has closed itself by then.
ConnectFails(a) ==
  /\ pc[a] = "connecting" /\ a \notin cancelled /\ Settled
  /\ \E kind \in StartFailures : ConnectRaises(a, kind)
  /\ CloseEnds(awaits[a])

\* check_handshake refused the handshake: _connect closes the new transport ...
HandshakeRefused(a) ==
  /\ pc[a] = "connecting" /\ a \notin cancelled /\ Settled
  /\ link' = [link EXCEPT ![awaits[a]] = "closing"]
  /\ Moves(a, "discarding", awaits[a])
  /\ UNCHANGED <<session, extension, exitErr, cancelled>>

\* ... and then raises VersionMismatch.
DiscardReturns(a) ==
  /\ pc[a] = "discarding" /\ a \notin cancelled
  /\ ConnectRaises(a, "mismatch")
  /\ CloseEnds(awaits[a])

\* Mutant: `degraded` is read from the first handshake only.
ConnectSucceeds_KeepsDegraded(a) ==
  /\ pc[a] = "connecting" /\ a \notin cancelled /\ Settled
  /\ \E x \in BOOLEAN :
       /\ extension' = [extension EXCEPT ![awaits[a]] = x]
       /\ degraded' = IF a = Starter THEN ~x ELSE degraded
  /\ current' = awaits[a] /\ lastError' = "none" /\ state' = "connected"
  /\ link' = [link EXCEPT ![awaits[a]] = "up"]
  /\ Finishes(a)
  /\ UNCHANGED <<stopped, recTask, exitErr, cancelled>>

ConnectSucceeds(a) ==
  /\ pc[a] = "connecting" /\ a \notin cancelled /\ Settled
  /\ \E x \in BOOLEAN :
       /\ extension' = [extension EXCEPT ![awaits[a]] = x]
       /\ degraded' = ~x
  /\ current' = awaits[a] /\ lastError' = "none" /\ state' = "connected"
  /\ link' = [link EXCEPT ![awaits[a]] = "up"]
  /\ Finishes(a)
  /\ UNCHANGED <<stopped, recTask, exitErr, cancelled>>

Connect(a) ==
  ConnectFails(a) \/ HandshakeRefused(a) \/ DiscardReturns(a) \/ ConnectSucceeds(a)

-----------------------------------------------------------------------------
(* _call.  A call on a session that is not connected raises at once and      *)
(* changes nothing, so it is no step.                                        *)

Call(c) ==
  /\ pc[c] = "idle" /\ state = "connected" /\ current # None
  /\ Moves(c, "waiting", current)
  /\ UNCHANGED <<session, links, cancelled>>

\* A result, or an error frame that only concerns this request.
Answered(c) ==
  /\ pc[c] = "waiting" /\ link[awaits[c]] = "up"
  /\ Finishes(c)
  /\ UNCHANGED <<session, links, cancelled>>

\* _on_transport_failure: the first failure starts the loop.
OnTransportFailure(c) ==
  /\ IF stopped \/ state = "reconnecting"
     THEN Finishes(c) /\ UNCHANGED <<lastError, state, recTask>>
     ELSE lastError' = "transport" /\ state' = "reconnecting" /\ Spawns(c)
  /\ UNCHANGED <<degraded, stopped, current, links, cancelled>>

\* AuthError, and _fail_permanently: last_error first, then close, then state.
FailsForGood(c, kind, p, final) ==
  /\ lastError' = kind
  /\ \/ CloseCurrent(c, p) /\ UNCHANGED state
     \/ current = None /\ state' = final /\ Finishes(c) /\ UNCHANGED <<links, current>>
  /\ UNCHANGED <<degraded, stopped, recTask, cancelled>>

RequestRaises(c, kind) ==
  CASE kind = "auth" -> FailsForGood(c, kind, "closing_auth", "auth_required")
    [] kind \in {"bootstrap", "mismatch"} ->
         FailsForGood(c, kind, "closing_fatal", "disconnected")
    [] OTHER -> OnTransportFailure(c)

VersionFrame(c) ==
  /\ VersionFrames
  /\ pc[c] = "waiting" /\ link[awaits[c]] \in {"up", "closing"}
  /\ RequestRaises(c, "mismatch")

\* Mutant: close() does not resolve the requests still pending.
RequestFails_NotOnClose(c) ==
  /\ pc[c] = "waiting" /\ link[awaits[c]] \in {"up", "dead"}
  /\ RequestRaises(c, IF exitErr[awaits[c]] = "none" THEN "transport" ELSE exitErr[awaits[c]])

\* A timeout or a failed write on a live link; the classified exit of a dead
\* one; "transport closed" on one that is being, or has been, closed.
RequestFails(c) ==
  /\ pc[c] = "waiting"
  /\ RequestRaises(c, IF exitErr[awaits[c]] = "none" THEN "transport" ELSE exitErr[awaits[c]])

CallerCloseReturns(c) ==
  /\ pc[c] \in {"closing_auth", "closing_fatal"}
  /\ state' = IF pc[c] = "closing_auth" THEN "auth_required" ELSE "disconnected"
  /\ CloseEnds(awaits[c])
  /\ Finishes(c)
  /\ UNCHANGED <<lastError, degraded, stopped, current, recTask, cancelled>>

-----------------------------------------------------------------------------
(* _reconnect_loop                                                           *)

\* Mutant: the loop does not close the failed transport before it reconnects.
LoopBegins_LeavesOpen(l) ==
  /\ pc[l] = "created" /\ l \notin cancelled
  /\ IF stopped THEN Finishes(l) ELSE Moves(l, "sleeping", None)
  /\ UNCHANGED <<session, links, cancelled>>

LoopBegins(l) ==
  /\ pc[l] = "created" /\ l \notin cancelled
  /\ \/ CloseCurrent(l, "closing")
     \/ /\ current = None
        /\ IF stopped THEN Finishes(l) ELSE Moves(l, "sleeping", None)
        /\ UNCHANGED <<links, current>>
  /\ UNCHANGED <<state, lastError, degraded, stopped, recTask, cancelled>>

LoopCloseReturns(l) ==
  /\ pc[l] = "closing" /\ l \notin cancelled
  /\ IF stopped THEN Finishes(l) ELSE Moves(l, "sleeping", None)
  /\ CloseEnds(awaits[l])
  /\ UNCHANGED <<session, cancelled>>

SleepReturns(l) ==
  /\ pc[l] = "sleeping" /\ l \notin cancelled /\ Settled
  /\ IF stopped THEN Finishes(l) /\ UNCHANGED links ELSE BeginConnect(l)
  /\ UNCHANGED <<session, cancelled>>

\* A close() that is cut short has told the process (EOF on its stdin) and does
\* not wait for its end, nor kill it; one that was only waiting for the stderr of
\* a process that had ended has done its work.
CutShort(t) ==
  /\ link' = [link EXCEPT ![t] =
                IF @ = "closing" /\ exitErr[t] = "none" THEN "left" ELSE "closed"]
  /\ UNCHANGED <<extension, exitErr>>

Leave(t) == link' = [link EXCEPT ![t] = "left"] /\ UNCHANGED <<extension, exitErr>>

\* CancelledError arrives at the loop's await and ends the task.  It cuts short
\* the close() that is under way; a start() that was under way calls close(),
\* unless that is where it was.
LoopCancelled(l) ==
  /\ l \in cancelled
  /\ cancelled' = cancelled \ {l}
  /\ CASE awaits[l] = None -> UNCHANGED links
       [] pc[l] = "connecting" -> CloseEnds(awaits[l]) \/ Leave(awaits[l])
       [] OTHER -> CutShort(awaits[l])
  /\ Finishes(l)
  /\ UNCHANGED session

\* start() swallows a cancellation that arrives while it waits for the stderr of
\* an agent that exited before its handshake; it raises what the exit says.
StartSwallows(l) ==
  /\ l \in cancelled /\ pc[l] = "connecting"
  /\ cancelled' = cancelled \ {l}
  /\ \E kind \in StartFailures \ {"mismatch", "malformed"} : TryConnectEnds(l, kind)
  /\ CloseEnds(awaits[l])
  /\ UNCHANGED <<degraded, stopped, current>>

\* SubprocessTransport.close() swallows a cancellation that arrives while it
\* awaits its reader: the loop goes on as if nothing had happened.
CancelSwallowed(l) ==
  /\ l \in cancelled /\ pc[l] \in {"closing", "discarding"}
  /\ cancelled' = cancelled \ {l}
  /\ UNCHANGED <<session, links, pc, awaits>>

\* _cancel_reconnect: forget the task; if it still runs, cancel and await it.
CancelReconnect(a) ==
  /\ recTask' = None
  /\ recTask # None /\ pc[recTask] # "idle"
  /\ cancelled' = cancelled \cup {recTask}
  /\ Moves(a, "cancelling", recTask)

NoLoopToCancel == IF recTask = None THEN TRUE ELSE pc[recTask] = "idle"

-----------------------------------------------------------------------------
(* reconnect_now()                                                           *)

\* _close_transport, then RECONNECTING, then the first await of _try_connect.
RetrierCloses(r) ==
  \/ CloseCurrent(r, "closing") /\ UNCHANGED state
  \/ current = None /\ state' = "reconnecting" /\ BeginConnect(r) /\ UNCHANGED current

ReconnectNow(r) ==
  /\ pc[r] = "idle" /\ ~stopped /\ pc[Starter] = "done"
  /\ \/ CancelReconnect(r) /\ UNCHANGED <<state, current, links>>
     \/ NoLoopToCancel /\ recTask' = None /\ UNCHANGED cancelled /\ RetrierCloses(r)
  /\ UNCHANGED <<lastError, degraded, stopped>>

RetrierLoopEnded(r) ==
  /\ pc[r] = "cancelling" /\ pc[awaits[r]] = "idle"
  /\ RetrierCloses(r)
  /\ UNCHANGED <<lastError, degraded, stopped, recTask, cancelled>>

RetrierCloseReturns(r) ==
  /\ pc[r] = "closing"
  /\ state' = "reconnecting"
  /\ \E t \in Links :
       /\ FreeLink(t)
       /\ link' = [link EXCEPT ![awaits[r]] = "closed", ![t] = "starting"]
       /\ exitErr' = [exitErr EXCEPT ![t] = "none"]
       /\ Moves(r, "connecting", t)
  /\ UNCHANGED <<lastError, degraded, stopped, current, recTask, extension, cancelled>>

-----------------------------------------------------------------------------
(* stop()                                                                    *)

StopperCloses ==
  \/ CloseCurrent(Stopper, "closing") /\ UNCHANGED state
  \/ /\ current = None /\ state' = "disconnected"
     /\ Finishes(Stopper) /\ UNCHANGED <<links, current>>

\* Mutant: stop() does not cancel the loop.
Stop_LeavesLoop ==
  /\ pc[Stopper] = "idle" /\ pc[Starter] # "idle"
  /\ QuitDuringStart \/ pc[Starter] = "done"
  /\ stopped' = TRUE /\ StopperCloses
  /\ UNCHANGED <<lastError, degraded, recTask, cancelled>>

Stop ==
  /\ pc[Stopper] = "idle" /\ pc[Starter] # "idle"
  /\ QuitDuringStart \/ pc[Starter] = "done"
  /\ stopped' = TRUE
  /\ \/ CancelReconnect(Stopper) /\ UNCHANGED <<state, current, links>>
     \/ NoLoopToCancel /\ recTask' = None /\ UNCHANGED cancelled /\ StopperCloses
  /\ UNCHANGED <<lastError, degraded>>

StopLoopEnded ==
  /\ pc[Stopper] = "cancelling" /\ pc[awaits[Stopper]] = "idle"
  /\ StopperCloses
  /\ UNCHANGED <<lastError, degraded, stopped, recTask, cancelled>>

StopCloseReturns ==
  /\ pc[Stopper] = "closing"
  /\ state' = "disconnected"
  /\ CloseEnds(awaits[Stopper])
  /\ Finishes(Stopper)
  /\ UNCHANGED <<lastError, degraded, stopped, current, recTask, cancelled>>

-----------------------------------------------------------------------------
\* A process that a cancelled close() has left ends by itself, which nobody sees.
LeftExits(t) ==
  /\ link[t] = "left" /\ \A a \in Tasks : awaits[a] # t
  /\ CloseEnds(t)
  /\ UNCHANGED <<session, tasks>>

\* The process behind a link ends and the reader classifies its exit; it may
\* still do so when close() has already begun.
LinkDies(t) ==
  /\ link[t] = "up" \/ (link[t] = "closing" /\ exitErr[t] = "none")
  /\ \E kind \in ExitKinds : exitErr' = [exitErr EXCEPT ![t] = kind]
  /\ link' = [link EXCEPT ![t] = IF link[t] = "up" THEN "dead" ELSE link[t]]
  /\ UNCHANGED <<session, extension, tasks>>

CallReturns(c) ==
  Answered(c) \/ VersionFrame(c) \/ RequestFails(c) \/ CallerCloseReturns(c)
LoopRuns(l) ==
  \/ LoopBegins(l) \/ LoopCloseReturns(l) \/ SleepReturns(l)
  \/ LoopCancelled(l) \/ CancelSwallowed(l) \/ StartSwallows(l)
RetrierRuns(r) == RetrierLoopEnded(r) \/ RetrierCloseReturns(r)
StopperRuns == StopLoopEnded \/ StopCloseReturns

Next ==
  \/ Start \/ Stop \/ StopperRuns
  \/ \E a \in Connectors : Connect(a)
  \/ \E c \in Callers : Call(c) \/ CallReturns(c)
  \/ \E l \in Loops : LoopRuns(l)
  \/ \E r \in Retriers : ReconnectNow(r) \/ RetrierRuns(r)
  \/ \E t \in Links : LinkDies(t) \/ LeftExits(t)

Spec == Init /\ [][Next]_vars

\* asyncio runs every ready coroutine; requests, start() and close() are bounded
\* by the transport's own timeouts, the sleeps by the backoff.
Fairness ==
  /\ WF_vars(StopperRuns)
  /\ \A a \in Connectors : WF_vars(Connect(a))
  /\ \A c \in Callers : WF_vars(CallReturns(c))
  /\ \A l \in Loops : WF_vars(LoopRuns(l))
  /\ \A r \in Retriers : WF_vars(RetrierRuns(r))

FairSpec == Spec /\ Fairness

\* The cluster can be reached again and again: who keeps trying gets a
\* connection, or a refusal, in the end.
ClusterAnswers == \A a \in Loops \cup Retriers : SF_vars(ConnectSucceeds(a))
RecoverySpec == FairSpec /\ ClusterAnswers

\* The user goes on asking for refreshes: r is a request (tui/app.py:515-520).
PressSpec == RecoverySpec /\ \A c \in Callers : SF_vars(Call(c))
-----------------------------------------------------------------------------
(* Properties                                                                *)

States == {"disconnected", "connecting", "connected", "reconnecting", "auth_required"}
Kinds == {"transport", "auth", "bootstrap", "mismatch"}
LinkStatus == {"closed", "starting", "up", "dead", "closing", "reaping", "left"}
Places == {"idle", "done", "waiting", "closing_auth", "closing_fatal", "created",
           "sleeping", "connecting", "discarding", "closing", "cancelling"}

\* Every attribute of the session, every transport and every coroutine has a
\* value of its kind; the loop on record is a loop (session.py:96-104).
TypeOK ==
  /\ state \in States /\ lastError \in Kinds \cup {"none"}
  /\ degraded \in BOOLEAN /\ stopped \in BOOLEAN
  /\ current \in Links \cup {None} /\ recTask \in Loops \cup {None}
  /\ link \in [Links -> LinkStatus] /\ extension \in [Links -> BOOLEAN]
  /\ exitErr \in [Links -> {"none", "transport", "auth", "bootstrap"}]
  /\ pc \in [Tasks -> Places] /\ awaits \in [Tasks -> Links \cup Loops \cup {None}]
  /\ cancelled \subseteq Loops

Alive(a) == pc[a] # "idle"

\* The session drives one ssh process at a time (README.md:3, ssh.py:1): a new
\* transport is started only when the previous one is closed, and never beside a
\* process that a cancelled close() has left running.
OneLink ==
  \A t, u \in Links :
    {link[t], link[u]} \subseteq {"starting", "up", "closing", "left"} => t = u

\* A transport has one owner: it is the session's current one, or exactly one
\* coroutine is starting or closing it.  So none is closed twice, none is used
\* while being closed, and none is left open by a coroutine that has moved on,
\* but by the loop that quitting cancels (session.py:137-141, 165-172).
Owners(t) == {a \in Tasks : pc[a] # "waiting" /\ awaits[a] = t}
OneOwner ==
  \A t \in Links :
    /\ link[t] = "closed" => t # current /\ Owners(t) = {}
    /\ link[t] \in {"up", "dead"} => t = current /\ Owners(t) = {}
    /\ link[t] \in {"starting", "closing", "reaping"} => t # current /\ \E a \in Tasks : Owners(t) = {a}
    /\ link[t] = "left" => stopped /\ t # current /\ Owners(t) = {}

\* While the state says RECONNECTING somebody is working on it: the state is
\* never left behind by a loop that ended (session.py:9-11, 184-212).
RetryInFlight ==
  state = "reconnecting" /\ ~stopped =>
    \/ \E l \in Loops : Alive(l)
    \/ \E r \in Retriers : Alive(r)

\* AuthError, BootstrapRequired and VersionMismatch are not retryable
\* (transport/__init__.py:22-31): once the session has settled in
\* AUTH_REQUIRED or DISCONNECTED no coroutine is about to connect again.
NotRetried ==
  state \in {"auth_required", "disconnected"} /\ pc[Starter] = "done" =>
    \A a \in Loops \cup Retriers : ~Alive(a)

\* A session that says CONNECTED serves from an open transport, and what it
\* says of it is that transport's handshake (session.py:14, 152-157).
ConnectedIsServed ==
  state = "connected" /\ ~stopped =>
    /\ current # None /\ link[current] \in {"up", "dead"}
    /\ degraded = ~extension[current]
    /\ lastError = "none"

\* When stop() has returned the session runs no more: no loop, no transport it
\* could use, no live state.  Every transport is closed but one whose close() the
\* cancellation of the loop cut short: its process has been told to end and is
\* not waited for, so it may outlive stop() (session.py:137-141, subprocess.py:271-282).
StopLeavesNothingOpen ==
  pc[Stopper] = "done" =>
    /\ state \notin {"connecting", "connected", "reconnecting"}
    /\ current = None
    /\ \A t \in Links : link[t] \in {"closed", "left"}
    /\ \A l \in Loops : ~Alive(l)

\* RECONNECTING is left in the end: the retries do not die out and no
\* interleaving of requests with the loop wedges it (session.py:184-212).
Recovers == (state = "reconnecting" /\ ~stopped) ~> (state # "reconnecting" \/ stopped)

\* "complete authentication, then press r to reconnect" (session.py:59-62): with
\* the cluster answering and the user asking again, AUTH_REQUIRED is left.
PressReconnects == (state = "auth_required" /\ ~stopped) ~> (state # "auth_required" \/ stopped)

\* Every request returns to its caller, whatever happens to its transport
\* (session.py:228-255), and stop() returns even if the loop it cancels swallows
\* the cancellation or is connecting (session.py:137-141, 165-172).
OperationsReturn ==
  /\ \A c \in Callers : pc[c] # "idle" ~> pc[c] = "idle"
  /\ pc[Stopper] # "idle" ~> pc[Stopper] = "done"
=============================================================================
