# slurm-monitor: a verification project in TLA+

slurm-monitor is a terminal UI that runs on a workstation and shows the Slurm
jobs of a user on a cluster. It starts one `ssh` process, which runs an agent on
the login node; the two exchange one JSON frame per line. Everything on the
client runs in one asyncio event loop: its coroutines interleave at every
`await`, and that is where most of what can go wrong goes wrong.

Source paths below are relative to `src/slurm_monitor/` in the repository.

## 1. The system

| Part | State it keeps | Operations | Hard behaviour | What makes it correct |
|---|---|---|---|---|
| **Client session** `session.py` | connection state, last error, `degraded`, current transport, reconnect task, `_stopped` | `start`, `stop`, `reconnect_now`, one `_call` per request, the reconnect loop | several requests fail at once while a loop sleeps, connects or is cancelled; final failures against retryable ones | one connection, one owner per transport, RECONNECTING is worked on and left, final failures are not retried, every request and `stop()` return |
| **Subprocess transport** `transport/subprocess.py` (`ssh.py` builds its arguments) | child process, reader task, stderr task, `_pending`, `_next_id`, `_exit_error` | `start`, `request`, `close`, the reader | concurrent requests on one pipe, child death, late answers, timeouts, `close()` against the reader, swallowed cancellations | each request gets its own answer or a failure, exactly once; no entry leaks; a closed transport is at rest |
| **Agent** `agent.py`, `protocol.py` | none between requests | greet, one answer per request line, in order | may die or be killed at any time | answers carry the id of their request |
| **Local transport** `transport/local.py` | the core | same contract | threads, no timeouts | same contract |
| **Fixture transport** `transport/fixture.py` | the loaded files, a position in each list, `_fail_next` | same contract, `fail_next` | a torn file, the end of a list, a failure between two answers | a replay repeats what the agent answered, in order |
| **TUI application** `tui/app.py` | `ready`, snapshot, displayed ids, handoff ids, frozen flag, in-flight flags, history windows, selection, usage | timers, refreshes, tab, expand, select, cancel with confirmation, quit | a refresh, a timer, a dialog and a handoff interleave at each await; answers arrive after the selection moved; the link breaks under a refresh | no job vanishes, the tables are fresh once the connection is back, no action on something else than what was confirmed, panels show the selected job |
| **Array rows** `core/arrays.py` | none | collapse and expand job arrays, decide whether a target may be cancelled | sparse task ranges, `%` limits | no task lost or shown twice |
| **Queries** `core/queries.py` | none | controller/accounting queries and their fallbacks, cancel | one source failing, a job between the two | active and history partition the jobs |
| **Normalisation, models** `core/normalize.py`, `models.py` | none | states, times, arrays, paths, task ranges, TRES and usage | two sources, one late; guessed and unset times, task 0 | both sources give one job; a time that was shown stays |
| **Recording** `core/recording.py` | files | append, overwrite, each by rewriting the file | death in the middle of a write, several agents one after the other | a file that can be read has every answer, in order |
| **Bootstrap** `bootstrap.py` | the agent directory | remote script | cut off between two steps, run twice | an agent directory is complete or absent |
| **Configuration, CLI, bindings** `config.py`, `cli.py`, `ext/`, `core/environment.py` | none | | sequential | |

How they interact: the TUI calls only `ClientSession`; the session creates a
fresh transport for every connection and calls `start`, `request` and `close` on
it; the transport writes request frames to the child and its reader task
resolves the futures of the requests by frame id; the agent calls the queries
through `core/__init__.py`. The session calls the TUI back on every change of
its state. `PROJECT.json` lists the components and the hazards, each at its line.

## 2. The modules

### ClientSession

Models `session.py`. A step is what one coroutine does between two awaits.
`pc[a]` says at which await coroutine `a` is, `awaits[a]` what it waits for (a
transport, or a cancelled loop task). The coroutines are the one that runs
`start()` (`Starter`), the one that runs `stop()` (`Stopper`), the workers that
issue requests (`Callers`), those that run `reconnect_now()` (`Retriers`: the TUI
has none) and the reconnect-loop tasks (`Loops`). `Links` are transports; an
identity is reused when nobody refers to it, which is sound because the code
never compares transports or tasks across their lives.

| Code | Actions |
|---|---|
| `start`, `_connect` | `Start`, `ConnectFails`, `HandshakeRefused`, `DiscardReturns`, `ConnectSucceeds` |
| `_call` and its except branches | `Call`, `Answered`, `VersionFrame`, `RequestFails`, `CallerCloseReturns` |
| `_reconnect_loop`, `_try_connect` | `LoopBegins`, `LoopCloseReturns`, `SleepReturns`, `TryConnectEnds` |
| cancellation of the loop | `CancelReconnect`, `LoopCancelled`, `CancelSwallowed`, `StartSwallows` |
| the end of a process that a cancelled `close()` left | `LeftExits` |
| `reconnect_now` | `ReconnectNow`, `RetrierLoopEnded`, `RetrierCloseReturns` |
| `stop` | `Stop`, `StopLoopEnded`, `StopCloseReturns` |
| the process behind a transport dies | `LinkDies` |

A cancellation can arrive at any await of the loop. It ends a sleep or a
handshake (`start()` then closes its process), is swallowed by a `close()` that
awaits its reader and by a `start()` that reads the stderr of an agent that has
exited, or cuts a `close()` short: `SubprocessTransport.close` has set `_proc` to
None by then, the session `_transport`, so nobody calls it again, and neither
`proc.kill()` nor `_fail_pending` runs (`subprocess.py:263, 279-289`). The process
has had EOF on its stdin and ends when it likes: its link is `left`, until
`LeftExits` closes it.

Constants switch environment behaviours on: how a connection attempt may fail
(`StartFailures`; `"malformed"` is a handshake that pydantic rejects), how the
exit of a live process may be classified (`ExitKinds`), whether a connected agent
may answer `version_mismatch` (`VersionFrames`) and whether the user may quit
while `start()` is running (`QuitDuringStart`). A `version_mismatch` frame after
an accepted handshake needs an agent whose comparison differs from the client's
`check_handshake`; the agent in this repository makes the same comparison, so
runs with `VersionFrames = TRUE` examine the session's own handling, which
`tests/test_session.py` exercises too.

`Settled` is the only timing assumption: before a handshake or a backoff delay
ends, coroutines whose future is already resolved have run and a process that
has exited has been reaped. Handshakes and delays take seconds, the others are
the ready queue of the loop.

Left out: `last_success`, the text of errors (the *kind* of the last error is
kept), the length of delays, and the cancellation of requests by Textual, which
happens only when the application exits.

### AppSession, MCAppSession and SessionProofs

The application around the session (`tui/app.py` 153-198, 233-357, 515-520): a
composition, because `AppSession` extends `ClientSession` and every action of it
is one of the session's with what the application does in the same stretch
between two awaits, or one that leaves the session alone. The theorem
`AppDrivesSession` says so. `SessionProofs` has the proofs about both modules.

A worker of Textual is a caller of the session with a plan: the refreshes it has
still to await, the one under way first. `_start_session` goes on with
`<<active, history, ready>>`; `_on_session_state(CONNECTED)` starts a worker with
`<<active, history, usage>>`; timers and the key `r` start one for the tab in
front. A plan is longer by one history refresh when an active refresh finds jobs
gone.

| Code | Actions |
|---|---|
| `on_mount`, `_tick_*`, `action_refresh` | `Tick` |
| in-flight checks and refusals without a connection | `Skip` |
| the await of a refresh, its answer or `AgentError`, its `TransportError` | `Refresh`, `Returns`, `Fails` |
| `_start_session`, `_on_session_state` | `Connects`, `ConnectFailsIn`, `SetReady` |
| `action_quit` | `Quits` |
| the session's own coroutines | `Background` |

`loaded` and `refused` are the tables answered since the last connection.
`Prompt` is `Settled` seen from the application: a worker that awaits nothing has
run before a handshake ends. The instance keeps `ExitKinds = {"transport"}`:
after an authentication failure the application has no way back
(`session_press_r`).

### TransportContract and SubprocessTransport

`TransportContract` is what a session relies on (`transport/__init__.py:44-64`):
a transport lives once, from `start()` to `close()`, and each request returns
exactly once, with the answer to its own question or a failure: that is `Safety`.
`Spec` adds that every request returns.

`SubprocessTransport` models `transport/subprocess.py` with its child: two pipes
(`stdin`, `stdout`), the reader task, the futures by id, `start()` reading the
handshake, `close()` in its stages, `request()` in its two awaits (`drain`, then
the future), timeouts, and the child's death at any point. Answers to requests
that timed out stay in the pipe and arrive later. A write to a child that has
exited is lost or raises. `ReaderClassifies` also stands for the
cancellation that `_exit_error_after_eof` swallows (`subprocess.py:240-244`).
`CloseCancelled` is the session's cancellation of the task that awaits `close()`,
or the `start()` that calls it: the rest of `close()` does not run, and for the
contract the transport is still closing for as long as its process runs.
The session calls `close()` only after `start()` has returned; `start()` closes
the transport itself before it raises.

Abstracted: what is in a frame besides its id and whether it answers or fails
(`asked[i]` stands for the content of request and answer), stderr and the
patterns of `classify_exit` (its outcome is any of `ExitKinds`).

`Contract == INSTANCE TransportContract WITH status <- Status, request <- ...`
is the refinement mapping: the status is read off `start()`, `close()` and the
exit error, the request of a caller is what was asked under its id.

### ActiveView

The Active tab of `tui/app.py` (248-284, 309-331, 457-500): `refresh_active` and
`refresh_history` with their in-flight flags, the dialog that freezes the table,
`perform_cancel`, and the handoff of jobs that have left the table. A refresh is
split at its query (`RefreshActive`, `ServeActive`, `ActiveReturns`,
`ActiveFails`), so that jobs, timers, callbacks and the user move between the
question and the answer. `cluster` is the job as Slurm has it: `active`, `over`
(ended, not in slurmdbd yet) and `stored`. `fired` counts how often the
disappearance of a job was acted on, and `HandedOffOnce` says both that it is
never two and that no step takes a job off the table while it is zero.

Left out: arrays (module `ArrayRows`), the windows of History (`HistoryView`), and
the return of a job to the table (requeue). `ActiveViewProofs` has the proofs.

### HistoryView

The windows of the History tab: `refresh_history` replaces `history_base` by the
last `Width` ticks, `extend_history` adds the window before `history_oldest`.
Time is a counter; jobs end at a tick. The agent's clock, which ends the default
window, is taken to be the client's, and a record is stored as soon as its job
has ended: both only remove differences that would hide jobs for reasons outside
this code. `claim` is the coverage the message line announces (`app.py:352`).
`HistoryViewProofs` has the proofs.

### SidePanels

Selection and side panels (`app.py:377-443, 504-520`). Every change of a table,
of a cursor or of the tab ends with `_sync_selection` (`Sync`), and the restored
cursor may be on any row when its old row is gone. `load_detail` and
`refresh_usage` are workers whose answers arrive in any order, late or not at
all. Panels are modelled by the job whose data they show, not by the data.
`SidePanelsProofs` has the proofs.

### ArrayRows

How the records of the controller become rows (`_array_fields`,
`expand_task_range`, `collapse_arrays`), what a row addresses when it is cancelled
(`target_is_cancellable`, `queries.py:425-431`) and which ids the handoff
compares. The controller is external: waiting tasks share one record with a set
of ranges (the longest ones, or one with a step); a task that starts gets an id
of its own, the last one keeps the id of the array; task 0 arrives as `None`.
`shown` and `meant` remember which jobs a snapshot and a confirmed row stood for.
One array and one plain job; a refresh is one step with its query (`ActiveView`
has the two apart); one cancellation at a time. `MCArrayRows` is an instance of it
with names of its own, for the run and for the proofs in `DataProofs`.

### TaskRange

`task_range_from_bitmask` (`core/normalize.py:267-284`), a step per iteration of
its loop and one for what follows it.

### JobRecords

The life of one job as slurmctld and slurmdbd record it, and what
`controller_summary`, `accounting_summary` and the two details make of the
records: state, start, end, elapsed time, array fields, output paths
(`core/normalize.py`, `models.py`). Both daemons and pyslurm are external:
slurmdbd stores late, the controller gives a deadline as end time and a guess as
start time, pyslurm turns task 0 into `None`, and slurmdbd keeps waiting tasks as
the mask that `TaskRange`, which this module extends, renders. A path is the place
that names it, or the default of Slurm. What slurmdbd stores of the paths is left
open (`keeps`): the one in use, the default included, as in the recorded fixtures;
those that were named, as `normalize.py:439` says; or none. The instance varies
the paths of waiting tasks for masks of two bits, and of all other jobs; a job is
requeued at most once.

### Recording

The files of `agent --record` and their replay: every file is its form (`absent`,
`one`, `list`, `torn`) and the results in it. An answer is in its file before it
is sent; a file is truncated and rewritten as a whole, so that a death in
between, or a failing write, leaves it torn. `agent` is where `serve()` is, with
its handshake and the refusal of a version mismatch (`agent.py`). `Load`,
`StartReplay`, `Replay`, `FailNext` and `CloseReplay` are `FixtureTransport` on
the directory. Left out: agents that record into one directory at the same time
(`ssh_argv` passes no `--record`; a recording is made by hand), and
`record_raw`, which writes files nothing reads.

### MCAgentData and DataProofs

`MCAgentData` checks `JobRecords` and `Recording`, two machines that share no
state, in one instance: a behaviour runs one of the two. `DataProofs` extends it
with the proofs about both and about `TaskRange`, and takes in `MCArrayRows`, whose
constants and variables are its own, for those about `ArrayRows`.

### Queries

`job_detail`, `job_usage` and `cancel` of `core/queries.py` as sequences of RPCs,
one RPC with the code up to the next per step, against a job that starts, ends,
is stored by slurmdbd with a delay and is purged by the controller once stored.
`array` says that the id is an array's, of which the controller holds several
records (`queries.py:255-259`); `library` whether `libslurmfull` is found. Threads
run queries at once (`transport/local.py:55`); every RPC may fail. `QueriesProofs` has
the proofs.

### Bootstrap and BootstrapProofs

The script of `bootstrap.py` (96-195), one command or group of commands per step,
over `$AGENT_DIR` and `$AGENT_DIR.tmp`. An environment is the number of parts that
are in place. A command may fail (`set -e` and the trap), and the script may be
killed (no trap). `CutOffs` allows the removal of the old environment to stop half
way; `Scripts` are scripts that run at the same time.

### SubprocessTransportProofs

The proofs about `SubprocessTransport`; see section 4.

## 3. What is checked with TLC

| Run | Properties | Bounds |
|---|---|---|
| `session_app` | `OneLink`, `NotRetried`, `ConnectedIsServed`, `StopLeavesNothingOpen`, `BackOnlineIsFresh`: the application on its session, links dying in retryable ways | 2 workers, 2 loops, 3 transports |
| `session_faults` | `OneOwner`, `OperationsReturn`, `Recovers`: authentication failures of a live link, quit at any time | 3 requests at once, 2 loops, 3 transports |
| `session_manual` | `RetryInFlight`: `reconnect_now` against the loop, a request, `start` and `stop` | 1 retrier, 1 request, 2 loops, 3 transports |
| `session_press_r` | `PressReconnects`, violated (below) | 1 request, 2 transports |
| `transport` | `PendingExact`, `Correlated`, `ClosedIsQuiet`, `CloseReturns`, and `KeepsContract`: `SubprocessTransport` implements `TransportContract`, liveness included | 2 callers, 2 questions, 3 requests, 2 lines in the pipe |
| `active` | `TableFollows`, `TargetOnScreen`, `HandedOffOnce`, `Arrives` | 2 jobs, 2 cancel workers |
| `history_windows` | `OnceEach`, `Covers`, `RecentStays` | 2 jobs, 3 ticks, windows of 2 ticks, 3 ticks back |
| `panels` | `DetailFollows`, `UsageFollows`, `FiguresArrive` | 2 jobs, 2 queries under way |
| `queries` | `Found`, `DetailNotBehind`, `CancelTellsTruth` | 2 threads, 3 queries |
| `bootstrap_runs` | `NoPartialEnvironment`, `EndsAsReported`, `OnlyAtTheEnd` | 4 runs one after the other, 3 parts |
| `array_rows` | `RowsExact`, `DecisionExact`, `KillsWhatWasConfirmed` | 3 tasks and a plain job |
| `agent_data` | `Denotes`, `Maximal`, `SourcesAgree`, `TimesAreFinal`: masks and records; `NothingLost`, `LoadsWhole`, `ReplaysInOrder`: recordings | every mask of 8 bits, a clock of 4 ticks, one requeue; one job, one task, 4 results over 2 launches |

Why the bounds are enough. Two requests fail differently on one transport, one
while the other has already started a loop, and a third one may come in after
both; two loops are what a race needs, and three transports are the one being
closed, the one being started and one that would be too many. Three requests of two callers let an answer arrive after its
request timed out and its caller has asked again. Two jobs are the one confirmed
and the one that moves meanwhile; two workers let an answer cross another. Three
ticks let the default window slide past the start of the first extension. Three
tasks have a gap in the middle, a step of two, and a last waiting task; three
queries a cancel that overtakes another. Four script runs are a failing, a
killed, a forced and a plain one. Two workers of the application are one whose
refresh fails and one that finds its table in flight. Four ticks are a start, an
end and a requeued start with one to spare. Four results over two launches let
a second agent find files of the first, torn or not, and a list grow past one
item; the files of a directory do not touch each other, so a replay follows any
one of them.

Types are checked where they are proved: the modules with a proofs module state
`TypeOK` as part of the inductive invariant there. In the others it is a
statement for the reader, and no run spends a property on it.

Symmetry is used in safety runs only. The runs `active`, `history_windows` and
`panels` check deadlock: the application never stops by itself. The others do
not, because a session may be stopped, an application left, a transport closed,
and the bounds on request ids, queries, script runs, tasks, results and the clock
end every behaviour.

Fairness. asyncio runs every ready task, so every coroutine's continuation is
weakly fair. Requests, `start()` and `close()` are bounded by their timeouts
(`subprocess.py:36-38, 149, 279, 317`), which makes them return. `drain()` has no
timeout; its fairness assumes the child or the kernel empties the pipe. Nothing
is assumed of the child, of the user and of new requests. `RecoverySpec` adds that
whoever tries to connect again and again is answered in the end (strong fairness
of `ConnectSucceeds`), which is what "the cluster can be reached" means. `Recovers`
is checked under it in `session_faults`.
`ActiveView` and `SidePanels` assume that the timers tick (`app.py:160-165`) and
that a query asked again and again is answered in the end, which is `Recovers` of
the session.

One run shows where the program departs from what it tells the user.
`session_press_r`: after an AuthError the session says "complete authentication,
then press r to reconnect" (`session.py:59-62`), but `r` only refreshes
(`app.py:515-520`), `_call` refuses every request of a session that is not
CONNECTED, and nothing in the TUI calls `reconnect_now`.

Other disagreements, met while modelling and kept out of the properties by the
conditions named here (`PROJECT.json` has each as a hazard, with its line):

* An AuthError in one request after another has started the reconnect loop
  leaves AUTH_REQUIRED with the loop still retrying (`session.py:12, 238-242`).
  `ExitKinds = {"auth"}` breaks `NotRetried`.
* A handshake that pydantic rejects ends the loop task with RECONNECTING set
  (`session.py:192-212`): `"malformed"` in `session_manual` breaks
  `RetryInFlight`.
* A final failure closes the transport while the state is still CONNECTED, so
  that another pending request starts a loop (`session.py:251-255`):
  `VersionFrames = TRUE` breaks `NotRetried`. With three requests the state is set
  back to VERSION_MISMATCH over that loop, the third request starts a second loop,
  and a transport is left that nobody closes: `OneOwner` fails too, and is checked
  and proved without these frames.
* `reconnect_now` with a request pending may lead to two connected agents
  (`session.py:219`): `OneLink` fails in `session_manual`.
* After the reader task died of an exception requests are still accepted and can
  only time out (`subprocess.py:207-210`).
* The handoff of a job is recorded even if the history query it was to begin was
  skipped because one was in flight (`app.py:91, 275-276, 314`).
* Once the default window of History has slid past the start of the first
  extension, jobs between the two are in neither list, and the announced
  coverage is not there (`app.py:318-352`): `Covers` without its second condition
  fails.
* The usage panel keeps the figures of the job selected before when the detail of
  the new one fails (`app.py:405-419`): the condition in `UsageFollows`. Figures
  taken while a job ran stay when the user moves to its row in History (402, 431).
* `job_usage` of a finished job reports a record of slurmdbd that is behind
  (`queries.py:289-294`); a failed load of the TRES ids is kept (389).
* Without `libslurmfull` a cancel of a job that has just ended, or of a finished
  array, is reported as done (`queries.py:469-484`): the condition `library` of
  `CancelTellsTruth`.
* A script cut off inside `rm -rf` (`CutOffs = TRUE`) and two scripts at once break
  `NoPartialEnvironment`.
* A waiting array task that starts and ends between two refreshes leaves the table
  without any id leaving it, so History is not asked (`app.py:266`).
* A first connection that fails with a plain TransportError is shown and never
  tried again; one that fails with an exception of another kind ends the worker,
  and `ready` is never set (`app.py:172-198`).
* Where a path is named both by an `#SBATCH` line and on the command line and
  slurmdbd stored none, accounting shows the script's, the controller the other
  (`normalize.py:213-228`): the condition `OneName` of `SourcesAgree`.
* The record of waiting tasks has the default path `slurm-%A_4294967294.out` for
  the controller (`array-range` under `tests/fixtures/recorded`). Where slurmdbd
  has not stored it, accounting guesses `slurm-%j.out` (`normalize.py:248-249`):
  the condition `DefaultKnown`. The recorded accounting records do have it,
  although `normalize.py:439` says that only named paths are stored.
* "EOF on stdin lets the agent exit on its own; kill if it does not"
  (`subprocess.py:272`): a `close()` that the cancellation of the reconnect loop
  cuts short does not kill, so `stop()` may return with the process still running
  (`session.py:137-141`). `StopLeavesNothingOpen`, `OneOwner` and `OneLink` name that
  process: it is the only one, and nothing in the session refers to it.
* A recording file that was cut short stays so: every later request it is read
  back for is answered with an error, and the directory does not load
  (`recording.py:88`, `fixture.py:57`). A cancel whose recording fails is answered
  with an error although it took effect (`recording.py:71`).

Each property of a passing run is broken by a mutant (definitions named
`<Action>_<Fault>` before the action they change): a plausible bug of the code
that the property catches.

## 4. What is proved

The theorems are checked by TLAPS and hold for every value of the constants that
the named assumptions of the modules allow; what a theorem assumes beyond them is
said here. Every safety property of a passing run is the statement of one of
them. All proofs have one form: the property is implied by an inductive
invariant, of which each action preserves each part it can disturb.

### Transport: `SubprocessTransportProofs`

For any set of callers and questions, any number of requests and any capacity of
the pipe.

| Theorem | Statement |
|---|---|
| `Typing` | `Spec => []TypeOK` |
| `Correlation` | `Spec => []Correlated` |
| `ExactPending` | `Spec => []PendingExact` |
| `Quiet` | `Spec => []ClosedIsQuiet` |
| `ExitIsFinal` | `Spec => ExitErrorIsFinal` |
| `ImplementsContract` | `Spec => Contract!Safety` |

*Correlation.* `Correlated` speaks of futures only, but a future gets its value
from a line of stdout, and that line from a question read from stdin. The
inductive invariant `IInv` therefore adds what is in the pipes: every id in them
has been given out (`< nextId`), and every answer in stdout answers what was
asked under its id. An id is given out once, with its question, and the question
never changes afterwards: a line that was right stays right. `IInv` has three
parts that depend on different variables (`LifeOK`, `DataInv`, `PipesInv`).

*ExactPending* is inductive given `IInv`: distinct requests have distinct ids, so
taking an entry out ends the wait of one caller only.

*Quiet* needs the order of `start`, `close` and the reader (`LifeInv`): the
reader runs only between a finished `start()` and the end of `close()`'s wait for
it, a cancellation is outstanding only while `close()` waits, and no request is
registered once `close()` has begun. With `PendingExact`, an empty map means that
nobody waits on an open future.

*ImplementsContract.* Each action is mapped, in a lemma of its own, to a step of
the contract or a stutter: `IInv` shows that what a request returns answers what
its caller asked, `LifeInv` that the status read off `start()`, `close()` and the
exit error moves forward only. That every request does return is the fair part
of the contract and stays with the run (`KeepsContract`).

### Session and application: `SessionProofs`

For any number of requests, loops and transports. The code does not keep every
property whoever calls it, so the theorems differ in what they assume of the
environment:

| Theorem | Assumes | Statement |
|---|---|---|
| `Typing` | nothing | `Spec => []TypeOK` |
| `AppDrivesSession` | nothing | `AppSpec => Spec` |
| `RetryInFlightHolds` | `Understood` | `Spec => []RetryInFlight` |
| `OneOwnerHolds` | `Plain` | `Spec => []OneOwner` |
| `OneLoop` | `Plain` | never two live reconnect loops |
| `OneLinkHolds` | `Tame` | `Spec => []OneLink` |
| `NotRetriedHolds` | `Tame` | `Spec => []NotRetried` |
| `ConnectedIsServedHolds` | `Tame` | `Spec => []ConnectedIsServed` |
| `StopLeavesNothingOpenHolds` | `Tame` | `Spec => []StopLeavesNothingOpen` |
| `AppKeepsSession` | `Tame` | these four and `OneOwner`, inside the application |
| `BackOnlineIsFreshHolds` | `Tame` | `AppSpec => []BackOnlineIsFresh` |

`Understood`: no handshake is rejected by pydantic. `Plain`: nobody calls
`reconnect_now` (the TUI does not) and a connected agent sends no
`version_mismatch` frame (the agent of this repository does not); links may fail
for good, several requests at once, and the user may quit at any time. `Tame`:
`Plain`, `stop()` follows `start()`, and a live link dies in a way that is
retried; it is the application of `session_app`. Each is needed: without it there
are the counterexamples listed in section 3 and, for `stop()` during `start()`,
under the hazards.

*RetryInFlight* is inductive with little else (`Base`): a cancelled loop has
somebody who waits for its end, and whoever connects or waits has a transport.

*A process left by a cancelled `close()`*: only a cancelled loop leaves one (`OnlyCancelLeaves`), only `stop()`
cancels a loop under `Plain`, and `stopped` stays (`Abandoned`). `Leaving` adds, under
`Tame`, that it is the only one and that no transport is opened beside it
afterwards (`AfterLeaving`), which `OneLink` needs.

*OneOwner* has to say who holds what in a session that may fail for good while a
loop is being started. `Hands`: a transport that is starting or closing is held
by one coroutine and is not the current one. `Alone`: there is one loop at most,
and none while the session is connected. What makes `Alone` inductive is
`Calling` and `Spared`: all requests under way await the same transport, and once
the state has left RECONNECTING over a live loop all of them will fail for good,
so that none starts a second one. These two are where `version_mismatch` frames
break the argument.

*Under `Tame`*, `IInv` says who is responsible. `Owned`: whatever is not closed or left
is the current transport, or the one that the only coroutine that starts or closes
one holds, and then there is no current one; `OneLink` follows. `Looping`: a live
loop is the only one, runs in RECONNECTING, and is on record, or else `stop()` has
cancelled it and waits for it; `NotRetried` follows, and with `Stopping` and
`Owned` so does `StopLeavesNothingOpen`. `Starting` keeps everybody else out until
`start()` is over.

*The application.* Each step of it is one of the session or a stutter
(`AppDrivesSession`), which carries the session's theorems over. `AInv` says that
a table in flight is awaited by a worker that has it at the head of its plan
(`InFlight`), that a connected application has set `ready` or has a worker that
will (`ReadyToCome`), and that over a connection each table was answered or is
still in some plan (`Reloading`). A refresh skipped because its table is in flight
is then no loss, and `WorkersAtRest` shows that no request of the old connection
is left when the new one comes up.

### The views: `ActiveViewProofs`, `HistoryViewProofs`, `SidePanelsProofs`

For any jobs and any number of queries under way, each with its `Typing`.

`TableDoesFollow`, `TargetStays`, `HandedOff`: `Fired` is the core. A job that was
acted on is over, is in no snapshot and no answer under way, and is in
`handoffDone` as long as it is on the screen. With `NotMissed` (a job the snapshot
has lost was acted on) no step takes a job off the table without a handoff
(`LeavesActedOn`): the unfrozen refresh hands over what it removes, and the dialog
closes over jobs that were handed over while it was open.

`NoneTwice` (`OnceEach`), `ClaimIsTrue` (`Covers`), `RecentRowsStay`
(`RecentStays`): the invariant says exactly what each list holds. `older` has a
job once if it ended between `oldest` and `First`, the start of the first
extension, and not otherwise (`OlderExact`: no induction over the windows is
needed, since they tile that span); `base` has the jobs of a window that starts at
or after `First` and only moves on (`BaseExact`, `RefreshOK`); an extension under
way is for the window before `oldest` (`ExtendOK`). `Covers` keeps its condition
that the default window has not slid past `First`: without it TLC finds the gap.

`DetailDoesFollow`, `UsageDoesFollow`: both are inductive together with `Asks`,
because an answer is compared with the selection before it is shown
(`app.py:411-443`), whatever the selection was when it was asked for.

### The agent: `QueriesProofs`, `BootstrapProofs`

`QueriesProofs` proves `Typing`, `IsFound`, `NotBehind` and `CancelIsTrue` for any
number of threads and queries, under `BoundsAssumption`: a job only moves on,
slurmdbd is behind slurmctld and has what slurmctld dropped (`Database`), so a
question the controller refuses is one the database can answer (`Placed`).

`BootstrapProofs` proves, for any number of parts and of runs, under `Alone` (one
script at a time, whose `rm -rf` runs to its end) and the two assumptions of the
module: `Whole` (`[]NoPartialEnvironment`), `Reported` (`[]EndsAsReported`) and
`Outlives` (`OnlyAtTheEnd`). `Stage(s)` says what both directories hold at each
command: the temporary one has exactly the parts built so far, the final one is
whole or absent until the removal and absent before the move, and an unforced run
has found none. `Alone` is needed: without it TLC finds counterexamples.

### Data: `DataProofs`

*Masks*, of every length: `RangesDenote` (`Denotes`), `RangesMaximal` (`Maximal`).
The invariant `RangesInv` adds that nothing is written before the first task, that
the range being read ends before `t` (`ReadingOK`), and that a gap is between it
and the last written one (`BehindOK`). `AppendSpan` and `AppendMaximal` are the
lemmas about appending a range.

*Records*, for every mask and any length of life: `SourcesDoAgree`, `TimesStay`.
The database's record of a run has the controller's times or none (`Behind`), and
what the two details make of the array fields is the mask, by `Denotes`. `SamePaths`
goes through what slurmdbd may store of the paths.
`RecordsBeside` carries masks and records over to the machine the run checks,
`DataSpec`.

*Recordings*, for any jobs, calls, launches and interruptions: `NothingIsLost`
(`NothingLost`), `WholeUnlessCut` (`LoadsWhole`), `ReplayFollows`
(`ReplaysInOrder`). `FilesInv`: a file that is not torn holds what was told of it,
in the order of the calls (`AllHeld`); the result in hand is of the latest call
and is on disk before it is told (`InHand`); a torn file is being written or was
cut (`TornIsCut`); what a replay served last is where its index says
(`Replaying`).

*Rows*, for an array of any size (`SizeAssumption`):
`RowsAreExact`, `DecisionIsExact`, `KillsOnlyConfirmed`. The controller writes the
waiting tasks as any set of ranges it may choose; `ExpandRuns` and `ExpandStepped`
show that expanding them gives these tasks (the least task of a set exists by
`Least`, a well-founded argument), so that a snapshot has each live task in one
record (`SnapshotOf`) and the rows counted over it are exact (`RowsCounted`).
Tasks only end: what a confirmed row stood for covers what it addresses
(`Stands`), however old the table is. `SameNumber` compares the tasks killed with
the number the dialog announced.

### Only model-checked

* Liveness, for the provers have neither ENABLED nor fairness: `OperationsReturn`,
  `Recovers`, `CloseReturns`, `Arrives`, `FiguresArrive` and the fair part of
  `KeepsContract`.
* The session outside the hypotheses above: there the properties fail, and the
  runs show how far they hold.

## 5. Plan

What is left, the most important first. A new question joins a run of its module
or replaces a weaker one.

1. The safety properties of the session under weaker hypotheses than `Tame`: what
   of `OneLink` and `StopLeavesNothingOpen` holds when a live link may also fail for
   good.
2. Arrays in the handoff and in the selection of the application.
3. `Usage`: TRES strings and the arithmetic of the usage figures in
   `core/normalize.py`; `Config`: the precedence of settings.

## 6. Not modelled

* Rendering (`tui/widgets`, `tui/format.py`), the status bar and the messages of
  the application, other than the coverage message.
* Configuration and command line (`config.py`, `cli.py`): sequential start-up.
* The C bindings (`ext/`) and the probing of the environment
  (`core/environment.py`): outside this project.
* TRES strings, usage arithmetic and the expansion of path patterns: functions of
  one string each, which unit tests reach.
* `start()` and `close()` of the local transport, one assignment each; the frame
  format and lines the agent cannot parse; packing and streaming in
  `bootstrap.py`.
