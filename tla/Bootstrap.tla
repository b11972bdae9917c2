----------------------------- MODULE Bootstrap -----------------------------
(* The script of bootstrap.py (96-195), which builds the agent environment  *)
(* in $AGENT_DIR.tmp and moves it into its place.  A step is a command of   *)
(* the script; commands may fail, and the script may be cut off.            *)
EXTENDS Naturals

CONSTANTS
  Scripts,  \* script runs at the same time
  Parts,    \* parts of an environment; the last one is its manifest
  MaxRuns,  \* bound on the runs begun
  CutOffs,  \* whether removing $AGENT_DIR may stop half way
  Absent

ASSUME BoundsAssumption == Parts \in Nat \ {0} /\ MaxRuns \in Nat /\ CutOffs \in BOOLEAN
ASSUME AbsentAssumption == Absent \notin Nat

VARIABLES
  dir,    \* how many parts $AGENT_DIR has, if it is there
  tmp,    \* the same of $AGENT_DIR.tmp
  pc,     \* the command each script is at, or how it ended
  force,  \* $FORCE
  part,   \* how many parts the script has built
  runs    \* number of runs begun

vars == <<dir, tmp, pc, force, part, runs>>

Directories == {Absent} \cup 0..Parts
Running == {"prepare", "clean", "build", "replace", "removing", "move", "report"}
Ended == {"idle", "ready", "failed", "dead"}

Init ==
  /\ dir \in {Absent, Parts} /\ tmp = Absent
  /\ pc = [s \in Scripts |-> "idle"]
  /\ force = [s \in Scripts |-> FALSE] /\ part = [s \in Scripts |-> 0]
  /\ runs = 0

-----------------------------------------------------------------------------
At(s, here, next) == pc[s] = here /\ pc' = [pc EXCEPT ![s] = next]

\* With an environment in place there is nothing to do, except by force.
Start(s, f) ==
  /\ pc[s] \in Ended /\ runs < MaxRuns /\ runs' = runs + 1
  /\ force' = [force EXCEPT ![s] = f] /\ part' = [part EXCEPT ![s] = 0]
  /\ pc' = [pc EXCEPT ![s] = IF dir # Absent /\ ~f THEN "ready" ELSE "prepare"]
  /\ UNCHANGED <<dir, tmp>>

\* Mutant: the old environment is removed first.
Prepare_RemovesOld(s) ==
  /\ At(s, "prepare", "clean") /\ dir' = Absent
  /\ UNCHANGED <<tmp, force, part, runs>>

\* uv is found, or installed.
Prepare(s) ==
  /\ At(s, "prepare", "clean")
  /\ UNCHANGED <<dir, tmp, force, part, runs>>

Clean(s) ==
  /\ At(s, "clean", "build") /\ tmp' = 0
  /\ UNCHANGED <<dir, force, part, runs>>

\* Mutant: the last part is not waited for.
Build_TooShort(s) ==
  /\ pc[s] = "build"
  /\ tmp # Absent /\ tmp >= part[s]
  /\ part' = [part EXCEPT ![s] = @ + 1]
  /\ tmp' = IF tmp = part[s] THEN tmp + 1 ELSE tmp
  /\ pc' = [pc EXCEPT ![s] = IF part'[s] >= Parts - 1 THEN "replace" ELSE "build"]
  /\ UNCHANGED <<dir, force, runs>>

\* The virtual environment, the packages, the extension, the manifest: each
\* needs what comes before it.
Build(s) ==
  /\ pc[s] = "build"
  /\ tmp # Absent /\ tmp >= part[s]
  /\ part' = [part EXCEPT ![s] = @ + 1]
  /\ tmp' = IF tmp = part[s] THEN tmp + 1 ELSE tmp
  /\ pc' = [pc EXCEPT ![s] = IF part'[s] = Parts THEN "replace" ELSE "build"]
  /\ UNCHANGED <<dir, force, runs>>

\* rm -rf of the old environment has begun.
Replace(s) ==
  /\ IF dir = Absent THEN At(s, "replace", "move") /\ UNCHANGED dir
     ELSE At(s, "replace", "removing") /\ dir' \in 0..(Parts - 1)
  /\ UNCHANGED <<tmp, force, part, runs>>

Removed(s) ==
  /\ At(s, "removing", "move") /\ dir' = Absent
  /\ UNCHANGED <<tmp, force, part, runs>>

\* mv moves the directory into one that has come to be there.
Move(s) ==
  /\ At(s, "move", "report") /\ tmp # Absent
  /\ tmp' = Absent /\ dir' = IF dir = Absent THEN tmp ELSE dir
  /\ UNCHANGED <<force, part, runs>>

\* cat of the manifest ends the script.
Report(s) ==
  /\ At(s, "report", "ready") /\ dir = Parts
  /\ UNCHANGED <<dir, tmp, force, part, runs>>

\* Mutant: the trap is not set.
Fails_NoTrap(s) ==
  /\ pc[s] \in Running /\ (pc[s] = "removing" => CutOffs)
  /\ pc' = [pc EXCEPT ![s] = "failed"]
  /\ UNCHANGED <<dir, tmp, force, part, runs>>

\* A command fails: set -e ends the script and the trap cleans up.
Fails(s) ==
  /\ pc[s] \in Running /\ (pc[s] = "removing" => CutOffs)
  /\ pc' = [pc EXCEPT ![s] = "failed"] /\ tmp' = Absent
  /\ UNCHANGED <<dir, force, part, runs>>

\* The script is killed, and its trap does not run.
Dies(s) ==
  /\ pc[s] \in Running /\ (pc[s] = "removing" => CutOffs)
  /\ pc' = [pc EXCEPT ![s] = "dead"]
  /\ UNCHANGED <<dir, tmp, force, part, runs>>

-----------------------------------------------------------------------------
Next ==
  \E s \in Scripts :
    \/ \E f \in BOOLEAN : Start(s, f)
    \/ Prepare(s) \/ Clean(s) \/ Build(s) \/ Replace(s) \/ Removed(s) \/ Move(s) \/ Report(s)
    \/ Fails(s) \/ Dies(s)

Spec == Init /\ [][Next]_vars
-----------------------------------------------------------------------------
(* Properties                                                               *)

\* Both directories and the scripts have values of their kinds.
TypeOK ==
  /\ dir \in Directories /\ tmp \in Directories
  /\ pc \in [Scripts -> Running \cup Ended] /\ force \in [Scripts -> BOOLEAN]
  /\ part \in [Scripts -> 0..Parts] /\ runs \in 0..MaxRuns

\* "a broken build never leaves a partial environment behind" (bootstrap.py:13-14):
\* when no script runs, however each of them ended, $AGENT_DIR is whole or absent.
NoPartialEnvironment ==
  (\A s \in Scripts : pc[s] \in Ended) => dir \in {Absent, Parts}

\* What a run says of itself when it ends is true.  "A trap removes
\* $AGENT_DIR.tmp on any failure" (bootstrap.py:13): nothing is left of a run
\* that failed, nor of an earlier one that was killed.  A run that ends well
\* leaves an environment to start the agent from, also when it only found one
\* (bootstrap.py:121-125, 191-194).
EndsAsReported ==
  \A s \in Scripts :
    /\ pc[s] = "failed" => tmp = Absent
    /\ pc[s] = "ready" => dir = Parts

\* "$AGENT_DIR itself is only touched at the very end" (bootstrap.py:111): an
\* environment that is in place outlives every build that does not complete;
\* and only a forced run replaces it (bootstrap.py:8).
OnlyAtTheEnd ==
  [][dir = Parts /\ dir' # dir =>
       tmp = Parts /\ \E s \in Scripts : force[s] /\ pc[s] = "replace"]_vars
=============================================================================
