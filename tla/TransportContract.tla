------------------------- MODULE TransportContract -------------------------
(* What ClientSession relies on of a transport (transport/__init__.py:44-64 *)
(* and the classes that implement it): one life from start() to close(),    *)
(* and for every request exactly one return, with the answer to the         *)
(* question that was asked or with a failure.                               *)
EXTENDS Naturals

CONSTANTS Callers, Questions, None

VARIABLES
  status,   \* "new", "starting", "up", "dead", "closing" or "closed"
  request,  \* the question each caller is waiting on, or None
  got       \* what each caller's last request returned

vars == <<status, request, got>>

\* A return carries the answer of the agent or tells of a failure.
Answer(q) == [kind |-> "answer", body |-> q]
Failure == [kind |-> "failure", body |-> None]

Init ==
  /\ status = "new"
  /\ request = [c \in Callers |-> None]
  /\ got = [c \in Callers |-> Failure]

Live == {"starting", "up", "dead"}

Advance(from, to) == status \in from /\ status' = to /\ UNCHANGED <<request, got>>

Start == Advance({"new"}, "starting")
Handshake == Advance({"starting"}, "up")
Die == Advance({"up"}, "dead")
Close == Advance(Live, "closing")
Closed == Advance({"new", "closing"}, "closed")

\* A transport that is not open, or known to be dead, refuses at once: that
\* call changes nothing here.
Ask(c, q) ==
  /\ status = "up" /\ request[c] = None
  /\ request' = [request EXCEPT ![c] = q]
  /\ UNCHANGED <<status, got>>

Return(c) ==
  /\ request[c] # None
  /\ \E r \in {Answer(request[c]), Failure} : got' = [got EXCEPT ![c] = r]
  /\ request' = [request EXCEPT ![c] = None]
  /\ UNCHANGED status

Next ==
  \/ Start \/ Handshake \/ Die \/ Close \/ Closed
  \/ \E c \in Callers : Return(c) \/ \E q \in Questions : Ask(c, q)

\* What a transport never does, and what it owes: every request returns.
Safety == Init /\ [][Next]_vars
Spec == Safety /\ \A c \in Callers : WF_vars(Return(c))
=============================================================================
