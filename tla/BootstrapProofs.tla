--------------------------- MODULE BootstrapProofs ---------------------------
(* A single script run at a time, whose rm -rf runs to its end, never       *)
(* leaves a partial environment: however many parts an environment has and  *)
(* however often the script fails or is killed.                             *)
EXTENDS Bootstrap, TLAPS

\* Where a script is tells what both directories hold.
Stage(s) ==
  /\ pc[s] \in Ended \cup {"prepare", "clean", "build", "replace"} => dir \in {Absent, Parts}
  /\ pc[s] \in {"prepare", "clean"} => part[s] = 0
  /\ pc[s] = "build" => tmp = part[s] /\ part[s] < Parts
  /\ pc[s] \in {"replace", "removing", "move"} => tmp = Parts
  /\ pc[s] \in {"prepare", "clean", "build", "replace"} => force[s] \/ dir = Absent
  /\ pc[s] = "removing" => dir # Parts
  /\ pc[s] = "move" => dir = Absent
  /\ pc[s] \in {"report", "ready"} => dir = Parts
  /\ pc[s] = "failed" => tmp = Absent

IInv == TypeOK /\ \A s \in Scripts : Stage(s)

Alone == CutOffs = FALSE /\ \E s \in Scripts : Scripts = {s}

USE DEF Directories, Running, Ended, At

-----------------------------------------------------------------------------
LEMMA InitIInv == Init => IInv
  BY BoundsAssumption, AbsentAssumption DEF Init, IInv, TypeOK, Stage

LEMMA StepIInv ==
  ASSUME Alone, IInv, [Next]_vars
  PROVE  IInv'
<1>c. Parts \in Nat \ {0} /\ MaxRuns \in Nat /\ Absent \notin Nat /\ CutOffs = FALSE
  BY BoundsAssumption, AbsentAssumption DEF Alone
<1>1. CASE Next
  <2>1. PICK s \in Scripts :
          \/ \E f \in BOOLEAN : Start(s, f)
          \/ Prepare(s) \/ Clean(s) \/ Build(s) \/ Replace(s) \/ Removed(s) \/ Move(s) \/ Report(s)
          \/ Fails(s) \/ Dies(s)
    BY <1>1 DEF Next
  <2>2. Scripts = {s}
    BY DEF Alone
  <2>3. TypeOK /\ Stage(s)
    BY DEF IInv
  <2> SUFFICES TypeOK' /\ Stage(s)'
    BY <2>2 DEF IInv
  <2>4. ASSUME NEW f \in BOOLEAN, Start(s, f) PROVE TypeOK' /\ Stage(s)'
    BY <2>3, <2>4, <1>c DEF TypeOK, Stage, Start
  <2>5. CASE Prepare(s)
    BY <2>3, <2>5, <1>c DEF TypeOK, Stage, Prepare
  <2>6. CASE Clean(s)
    BY <2>3, <2>6, <1>c DEF TypeOK, Stage, Clean
  <2>7. CASE Build(s)
    <3>1. tmp = part[s] /\ tmp' = part[s] + 1 /\ part'[s] = part[s] + 1 /\ part[s] \in 0..(Parts - 1)
      BY <2>3, <2>7, <1>c DEF TypeOK, Stage, Build
    <3>2. pc'[s] = IF part[s] + 1 = Parts THEN "replace" ELSE "build"
      BY <2>3, <2>7, <3>1 DEF TypeOK, Build
    <3>3. TypeOK'
      BY <2>3, <2>7, <3>1, <1>c DEF TypeOK, Build
    <3>4. Stage(s)'
      BY <2>3, <2>7, <3>1, <3>2, <1>c DEF Stage, Build
    <3> QED
      BY <3>3, <3>4
  <2>8. CASE Replace(s)
    BY <2>3, <2>8, <1>c DEF TypeOK, Stage, Replace
  <2>9. CASE Removed(s)
    BY <2>3, <2>9, <1>c DEF TypeOK, Stage, Removed
  <2>10. CASE Move(s)
    BY <2>3, <2>10, <1>c DEF TypeOK, Stage, Move
  <2>11. CASE Report(s)
    BY <2>3, <2>11, <1>c DEF TypeOK, Stage, Report
  <2>12. CASE Fails(s)
    BY <2>3, <2>12, <1>c DEF TypeOK, Stage, Fails
  <2>13. CASE Dies(s)
    BY <2>3, <2>13, <1>c DEF TypeOK, Stage, Dies
  <2> QED
    BY <2>1, <2>4, <2>5, <2>6, <2>7, <2>8, <2>9, <2>10, <2>11, <2>12, <2>13
<1>2. CASE UNCHANGED vars
  BY <1>2 DEF vars, IInv, TypeOK, Stage
<1> QED
  BY <1>1, <1>2

LEMMA Inductive == Alone => (Spec => []IInv)
<1> SUFFICES ASSUME Alone PROVE Spec => []IInv
  OBVIOUS
<1>1. Init => IInv
  BY InitIInv
<1>2. IInv /\ [Next]_vars => IInv'
  BY StepIInv
<1> QED
  BY <1>1, <1>2, PTL DEF Spec

-----------------------------------------------------------------------------
\* "a broken build never leaves a partial environment behind" (bootstrap.py:13-14),
\* for one script at a time that is not stopped inside its rm -rf.
THEOREM Whole == Alone => (Spec => []NoPartialEnvironment)
<1> SUFFICES ASSUME Alone PROVE Spec => []NoPartialEnvironment
  OBVIOUS
<1>1. IInv => NoPartialEnvironment
  BY DEF Alone, IInv, Stage, NoPartialEnvironment
<1> QED
  BY <1>1, Inductive, PTL

\* A run that ends well leaves an environment to start the agent from.
THEOREM Reported == Alone => (Spec => []EndsAsReported)
<1> SUFFICES ASSUME Alone PROVE Spec => []EndsAsReported
  OBVIOUS
<1>1. IInv => EndsAsReported
  BY DEF IInv, Stage, EndsAsReported
<1> QED
  BY <1>1, Inductive, PTL

\* An environment in place is touched only once its successor is complete
\* (bootstrap.py:111).
THEOREM Outlives == Alone => (Spec => OnlyAtTheEnd)
<1> SUFFICES ASSUME Alone PROVE Spec => OnlyAtTheEnd
  OBVIOUS
<1> DEFINE Rightly == tmp = Parts /\ \E s \in Scripts : force[s] /\ pc[s] = "replace"
<1>1. IInv /\ [Next]_vars => [dir = Parts /\ dir' # dir => Rightly]_vars
  <2> SUFFICES ASSUME IInv, [Next]_vars, dir = Parts, dir' # dir PROVE Rightly
    OBVIOUS
  <2>1. PICK s \in Scripts : Replace(s) \/ Removed(s) \/ Move(s)
    BY DEF Next, vars, Start, Prepare, Clean, Build, Report, Fails, Dies
  <2>2. Stage(s) /\ Parts # Absent
    BY BoundsAssumption, AbsentAssumption DEF IInv
  <2>3. Replace(s)
    BY <2>1, <2>2 DEF Stage, Removed, Move
  <2> QED
    BY <2>2, <2>3 DEF Stage, Replace
<1> QED
  BY <1>1, Inductive, PTL DEF Spec, OnlyAtTheEnd
=============================================================================
