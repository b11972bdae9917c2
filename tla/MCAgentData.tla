---------------------------- MODULE MCAgentData ----------------------------
(* What the agent makes of Slurm's records (JobRecords, with TaskRange) and *)
(* what its recordings keep of its answers (Recording): two machines that   *)
(* share no state, of which a behaviour runs one.                           *)
EXTENDS JobRecords

CONSTANTS Jobs, Tasks, MaxCalls, MaxRuns

VARIABLES
  side,  \* the machine that runs
  dir, agent, refuses, writing, calls, runs, told, cut,
  fixture, asked, index, failNext, served

R == INSTANCE Recording

recordings == <<dir, agent, refuses, writing, calls, runs, told, cut,
                fixture, asked, index, failNext, served>>

DataInit ==
  /\ RecordsInit /\ R!Init /\ side \in {"records", "recordings"}
  /\ side = "records" => dir[R!Active] = R!Absent
  /\ side = "recordings" \/ ~ (bits \subseteq {0, 1}) =>
       named = [out |-> {}, err |-> {}] /\ keeps = "used"
  /\ side = "recordings" => kind = "plain"

DataNext ==
  /\ UNCHANGED side
  /\ \/ side = "records" /\ RecordsNext /\ UNCHANGED recordings
     \/ side = "recordings" /\ R!Next /\ UNCHANGED <<vars, records>>

DataSpec == DataInit /\ [][DataNext]_<<side, vars, records, recordings>>

\* See Recording: what was answered is in the files, a directory loads unless a
\* write was interrupted, and a replay repeats what was answered.
NothingLost == R!NothingLost
LoadsWhole == R!LoadsWhole
ReplaysInOrder == R!ReplaysInOrder
=============================================================================
