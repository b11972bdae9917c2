---------------------------- MODULE MCArrayRows ----------------------------
(* ArrayRows for TLC and for the proofs, which take it beside the other     *)
(* modules of core/: an instance, so that its names stay apart from theirs. *)
EXTENDS Naturals

CONSTANTS
  Size,     \* tasks of the array
  Solo,     \* the plain job
  NoTarget  \* None of ArrayRows

ASSUME SizeAssumption == Size \in Nat \ {0} /\ Solo \notin Nat /\ NoTarget \notin Nat

VARIABLES
  state, ids, snapshot, expanded, displayed, handedOff, renderPending, history, dialog, cancel,
  shown, meant

A == INSTANCE ArrayRows WITH None <- NoTarget

RowsSpec == A!Spec

\* See ArrayRows: a snapshot shows every live task once and counts them right, a
\* target may be cancelled exactly if something of its row is live, and a
\* cancellation kills nothing else than its row stood for.
RowsExact == A!RowsExact
DecisionExact == A!DecisionExact
KillsWhatWasConfirmed == A!KillsWhatWasConfirmed
=============================================================================
