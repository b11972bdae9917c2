----------------------------- MODULE TaskRange -----------------------------
(* task_range_from_bitmask of core/normalize.py (267-284): the loop that    *)
(* renders the waiting tasks of an array, which slurmdbd stores as a mask   *)
(* of bits, as the ranges the controller writes.  A step is an iteration.   *)
EXTENDS Integers, Sequences

CONSTANT Length  \* bits.bit_length() is at most this

ASSUME LengthAssumption == Length \in Nat

VARIABLES
  bits,    \* the positions of the bits that are set
  t,       \* the position the loop is at
  ranges,  \* the ranges written, each with its first and last task
  start,   \* the range being read, or -1
  prev

vars == <<bits, t, ranges, start, prev>>
None == -1
Span(r) == r.lo..r.hi

Init ==
  /\ bits \in SUBSET (0..(Length - 1))
  /\ t = 0 /\ ranges = <<>> /\ start = None /\ prev = None

Skip ==
  /\ t < Length /\ t \notin bits /\ t' = t + 1
  /\ UNCHANGED <<bits, ranges, start, prev>>

Opens ==
  /\ t < Length /\ t \in bits /\ start = None
  /\ start' = t /\ prev' = t /\ t' = t + 1
  /\ UNCHANGED <<bits, ranges>>

Extends ==
  /\ t < Length /\ t \in bits /\ start # None /\ t = prev + 1
  /\ prev' = t /\ t' = t + 1
  /\ UNCHANGED <<bits, ranges, start>>

\* Mutants: the range being read is cut by one; every task is written alone.
Splits_Short ==
  /\ t < Length /\ t \in bits /\ start # None /\ t # prev + 1
  /\ ranges' = Append(ranges, [lo |-> start, hi |-> prev - 1])
  /\ start' = t /\ prev' = t /\ t' = t + 1
  /\ UNCHANGED bits

Splits_Alone ==
  /\ t < Length /\ t \in bits /\ start # None
  /\ ranges' = Append(ranges, [lo |-> start, hi |-> prev])
  /\ start' = t /\ prev' = t /\ t' = t + 1
  /\ UNCHANGED bits

Splits ==
  /\ t < Length /\ t \in bits /\ start # None /\ t # prev + 1
  /\ ranges' = Append(ranges, [lo |-> start, hi |-> prev])
  /\ start' = t /\ prev' = t /\ t' = t + 1
  /\ UNCHANGED bits

\* After the loop the range being read is written.
Ends ==
  /\ t = Length /\ t' = Length + 1
  /\ ranges' = IF start = None THEN ranges ELSE Append(ranges, [lo |-> start, hi |-> prev])
  /\ UNCHANGED <<bits, start, prev>>

Next == Skip \/ Opens \/ Extends \/ Splits \/ Ends

Spec == Init /\ [][Next]_vars
-----------------------------------------------------------------------------
(* Properties                                                               *)

Written == UNION {Span(ranges[k]) : k \in DOMAIN ranges}
Reading == IF start = None \/ t > Length THEN {} ELSE start..prev

\* Positions are numbers, and ranges have a first and a last task.
TypeOK ==
  /\ bits \subseteq 0..(Length - 1) /\ t \in 0..(Length + 1)
  /\ ranges \in Seq([lo : Nat, hi : Nat])
  /\ start \in Nat \cup {None} /\ prev \in Nat \cup {None}

\* The text names the tasks whose bits are set and no others
\* (core/normalize.py:268-269), up to the position the loop has reached.
Denotes == Written \cup Reading = {b \in bits : b < t}

\* The ranges are the longest there are, in ascending order: "the way the
\* controller does" (core/normalize.py:269).
Maximal ==
  \A k \in DOMAIN ranges :
    /\ ranges[k].lo <= ranges[k].hi
    /\ k > 1 => ranges[k - 1].hi + 1 < ranges[k].lo
=============================================================================
