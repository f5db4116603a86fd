# A formal model of the StateFork environment managers

StateFork gives a search program (an agent, a tree search over shell commands) an
environment it can snapshot, restore and, over some backends, fork. This directory models
the managers under `src/controller` and `src/decider`, and the clients that drive them from
`src/interface` and `src/scripts`, in TLA+, checks them with TLC and proves properties of the
sequential manager, its backends, the forkable manager, the managers of a Waypoint session and the
search script with TLAPS.

## 1. The system

| Component | State it keeps | Operations | What is hard |
|---|---|---|---|
| Sequential manager, `base_env_manager.py` | `snapshot_graph` (nodes with parent, children, `is_virtual`, `replay_commands`), `snapshots` (id to physical resource), one `BranchState` per branch: position, `command_log`, `cumulative_exec_time`, `active`, a lock | `snapshot`, `restore`, `exec_command`, `copy_in`/`copy_out`, `list_snapshots`, `print_snapshot_tree`, `cleanup` | virtual snapshots are replayed through the same `exec_command` that records them; executions that raise; a restore that fails half way |
| Deciders, `decider.py` | a threshold | `decide(cumulative_time)` | what the manager reports as cumulative time |
| Forkable manager, `forkable_env_manager.py` | `_live_branches`, `_branches`, `_current_branch_id` | `snapshot_branch`, `exec_on_branch`, `copy_*_branch`, `fork`, `discard_branch`, `park_branch`, `list_branches`, `restore` | three kinds of locks, several threads, a registry that mirrors what the backend says, names that are reused |
| Waypoint backend, `waypoint_env_manager.py` | the session of the `waypoint` program: forks and checkpoints | the `_core_*` hooks, building, attaching, `sync_snapshot_tree`, cleanup and the destructor | managers in several processes work on one session; output that cannot be read; who ends the session |
| Container, CRIU, hybrid, gVisor, Firecracker backends | a container, process or virtual machine | `_core_snapshot`, `_core_restore`, `_core_exec`, `_core_cleanup` | the old environment is removed before the new one runs |
| Dummy Docker backend, `dummy_docker_env_manager.py` | containers by branch | the forkable hooks | a park commits, then removes; labels are fixed when a container is made |
| Benchmark, `benchmark.py` | the log, a sequence counter, a lock | `add_entry`, statistics, history | called by several threads |
| Factory, `controller/__init__.py` | none | `get_env_manager` | none |
| Shell, `interface/shell.py` | none of its own | one command per line | exit codes, end of input, Ctrl-C in the start, an operation or a cleanup |
| Search workflow, `scripts/search_workflow_demo.py` | the generations of a search | prepare, fork, run, score, seal, park, discard, backtrack, export, clean up | its exit code is a verdict on the managers; who ends the session that it keeps |
| Benchmark scripts, sample programs | none | clients of the managers | none |

How they interact. A client calls a manager. The manager asks its decider whether to take a
physical snapshot, calls a `_core_*` hook of its backend, and records the result in the tree and
in the state of a branch. A restore walks from the target to its nearest physical ancestor, calls
`_core_restore` there and replays the commands of the virtual snapshots on the way. In the forkable
manager `_core_restore` forks the checkpoint, switches to the new branch and retires the one it
leaves; the Waypoint snapshot hook calls `_list_branches` in the middle of a snapshot. Managers of one Waypoint session are processes of their own and meet in
the session only; the threads of a manager also meet in its `BenchmarkStats`.

What makes each component correct:

- sequential manager: the tree stays a tree; what a snapshot needs for its restore is recorded; a
  restore ends on what the target held; a snapshot is never altered; a restore comes back;
- deciders: a physical snapshot is taken when it is due, and not before;
- forkable manager: operations on one fork exclude each other, a call that waited for a lock still
  finds its branch, the current branch is always usable, the registries agree with the backend at
  rest, positions and recorded parents are the backend's, no deadlock, every snapshot is recorded;
- Waypoint session: an attached manager has the whole history and the forks of the session, falls
  behind only where somebody else has changed a fork, and the session is released in the end;
- backends: a failed call leaves no registration and a usable environment, `True` means usable;
- benchmark: sequence numbers are unique, without gaps and in the order of the log;
- search: an exit code of 0 proves that the search was done, no sound run is reported as a failure.

The hazards, each at its line of the source with the properties that would catch it going wrong,
are listed in `PROJECT.json`.

## 2. Modules

| Module | Models |
|---|---|
| `SnapshotStore` | the abstract promise: a content and a growing list of saved contents; a snapshot saves, a restore brings back, each in one step |
| `EnvManager` | the sequential manager, its decider and the outcomes of its backend |
| `EnvManager_proofs` | theorems about `EnvManager` and their proofs |
| `ForkableManager` | the forkable manager over Waypoint or Docker: threads, locks, registries |
| `ForkableManager_proofs` | who holds which lock, whatever fails and whoever else works on the session |
| `OnlyManager_proofs` | the safety properties of a forkable manager that has its session to itself |
| `BranchPool` | the abstract promise of the forkable manager: a pool of branches, each call that changes it in one step |
| `Pool_proofs` | a forkable manager implements `BranchPool`, step by step |
| `WaypointSession` | the managers of one Waypoint session, from building it to the exit of the shell |
| `WaypointSession_proofs` | theorems about `WaypointSession` and their proofs |
| `Benchmark` | the log of records and its lock |
| `SearchWorkflow` | the search script, with `Benchmark` for the records of its manager |
| `SearchWorkflow_proofs` | what holds in the search script whatever has failed: the winners, the log, the way to the target |
| `SearchVerdict_proofs` | what the exit code of the search script is worth |
| `Backends` | the life cycle of the container, process or machine behind each of the five sequential backends |
| `Backends_proofs` | theorems about `Backends` and their proofs |
| `MC_EnvManager`, `MC_Forkable`, `MC_Backends`, `MC_Session`, `MC_Search` | instances for TLC |

Definitions named after a *Mutant* comment are altered forms of the definition that follows
them. No specification uses them: each is there to check that a property fails when the code
is changed in that way.

### EnvManager

The content of an environment is the sequence of commands that had an effect on it. This is the
finest content a deterministic program can have, so two contents that must be equal are equal for
every deterministic program. `snapshot`, `exec_command` and `restore` each hold
`_current_branch_lock` throughout, so there is one actor. `snapshot` and `exec_command` are one
step each; the restore is one step for every round of its walk (`Walk`), for the backend's restore
(`CoreRestore`), for each replayed command (`Replay`) and for the new position (`RestoreFinish`),
with `pc`, `anc`, `pending` and `visited` for its local variables. Replay goes through
`exec_command`, so it adds to the log and the time of the branch; `RestoreFinish` then clears both.

`graph` is the dictionary in insertion order; fresh ids are its indexes, and 0 is no parent.
`sealed` is a history variable, the content at the time of each snapshot; no action reads it.
`life` says whether the environment runs commands, is paused or is gone. `running` is a command
that is still at work in it after its call has come back, and `frozen` the ones that a physical snapshot holds
in the middle of their work. The constant `Faults` chooses which failures may happen:

- `exec_lost`: an execution raises and had no effect (`_exec_branch` logs the command all the same);
- `exec_timeout`: the caller gives up and the backend raises, and the command has run by the next call;
- `exec_late`: the time-out ends the client of the execution only (`container_env_manager.py:153-166`); the command
  takes effect at any later moment, or never (`ExecLate`, `Land`). So does a command for the background;
- `snapshot_stalls`: Firecracker pauses, the snapshot is refused and the machine stays paused, with its content; the
  next snapshot that succeeds resumes it;
- `restore_fails`: the backend's restore returns False or raises, before or after the old
  environment has been removed;
- `restore_unseen`: the backend's restore answers True and there is no environment (CRIU, Firecracker);
- `restore_ignored`: it answers True and the old environment, which could not be stopped, runs on (gVisor);
- `replay_fails`: a replayed command fails without effect, is reported and skipped.

After `exec_late` and `restore_ignored` the environment holds what is neither at the position of the branch nor in its log.
`astray` says so, until a physical snapshot stores it or a restore replaces it, and `strays` are the
virtual snapshots taken meanwhile: history variables that no action reads but to keep them. `NoEffectLost` is about every
other snapshot, and section 5 (6) shows what becomes of these. That an environment ends up
paused or empty is no such case: commands in it have no effect, and the log has them all the same.

`Policy` is the decider. `"random"` contains the behaviours of every other one, so what holds
for it holds for any decider; `"threshold"` is used for what only a `ThresholdDecider` does. Time is in whole
units and `Duration[c]` is the time of a command.

### ForkableManager

`at[t]` is where thread `t` stands, with its local variables. A step ends where another thread may
come in: before a lock is taken, before a call of the backend, and around a block under
`_state_lock`. `C` is `_current_branch_lock`, `R` is `_branch_registry_lock` and `O[o]` is the
`operation_lock` of the state object `o`; all three are reentrant. `_state_lock` is held for short
blocks that call nothing, each of which is one step. What a thread does under `R` between two calls of
the backend is one step, except in `_list_branches`: `Apply` compares the vanished branches with
the current one and `Prune` removes them afterwards, because the current branch changes under `C`,
not under `R`. A `BranchState` object has an identity (`State`), so that a thread may wait for the
lock of an object that has been replaced under the same name; `Gen` is the number of objects per
name, and an object is reused when nothing refers to it any more.

`backend` is the Waypoint session: the live forks and the checkpoint each is based on. `origin[s]`
is the true parent of checkpoint `s`. The contents of the branches are abstracted to their base
checkpoint. The Waypoint snapshot hook lists the branches after a snapshot: `Query`, `Apply` and
`Prune` are therefore steps of `snapshot` too, with the operation lock held. The inherited `restore`
never meets a virtual snapshot here (the Waypoint manager always takes physical ones), so the walk is
the single test of `LockDeparting`.

A fork may be made whose answer cannot be parsed (`"output_lost"` in `Faults`): `Forked` makes it, `Materialize` and
`MaterializeFails` leave it out of the answer, and the history variable `unlisted` has it until a
listing that the backend has answered is applied, which brings it in like any other. Its name is taken meanwhile.
A restore whose only fork is such a one returns False (`MaterializeFails`).
`Departs` is when a restore destroys the branch that it leaves: not main, not the one it has come to, and registered.

`"other_manager"` in `Faults` lets somebody else seal, destroy and make forks of the same session,
as a second `WaypointAttachManager` does.

`kind` is the backend, chosen at the start from `Kinds` and never changed. Over Docker a snapshot is a
`docker commit` that does not list the containers afterwards (`Commit`); a listing reads positions from
labels, which a container keeps from its start, and gives the manager its own positions back
(`Containers`); a park is a commit followed by a removal, and is undone when the removal fails
(`CommitPark`, `RemoveParked`, `UndoCommit`); nobody else attaches. What holds of positions and parents
over Waypoint only says so (`PositionsTrue`, `LineageTrue`); section 5 has the case over Docker.

`cleanup` takes the lifecycle lock alone: `CleanUp` begins whenever no other cleanup is going on, and `TearDown` ends
the session (`Ended`) under whatever operations are in flight, whose commands then fail. The flag
`is_cleaned_up` decides only what the destructor does and is in `WaypointSession`; the removal of Docker's containers is not modelled.

`ImplementsPool` maps this state to `BranchPool`. A branch that a restore has made is not in the pool before the restore
has switched to it, a parked branch is no longer current once it is gone, a checkpoint counts when its resource is registered, and
after a cleanup nothing is current. A restore takes effect at `Switch`, a fork at `Materialize`, a seal at the
backend's answer, a discard at `Destroy`. `BranchPool` lets everything but a cleanup fail silently, so it says what
a call may do, and `CallsReturn` that it ends.

### WaypointSession

`ForkableManager` looks into one manager; `WaypointSession` at several that share a session and its life.
They are separate processes, so one step is one `waypoint` command with what the manager makes of the
answer before its next command. Each manager has one client thread, `pc`, with the local variables of
a snapshot in `job`. `Owner` is the `WaypointBuildManager` of the shell, the others attach.

- Construction: `Build`; `Attach`, or `ProbeFails`; then `AttachSync` (the tree), `AttachList` (the forks),
  `AttachSeal` (the first snapshot) and `AttachRecord`. Each can fail, and between any two of them the
  others may snapshot, fork, destroy or end the session.
- Calls: `Snapshot` and `SnapshotRecord` (the listing in the hook comes between), `Sync`, `List`,
  `ForkFrom`, `Discard`. A name is free for a manager when it knows no fork of that name.
- The end: `CleanUp`, after a failure `ForceCleanUp`, after another `ForceFails`; `Finalize` is the destructor,
  which cleans up unless `cleaned` (`is_cleaned_up`). `Drop` is a program that lets go of its manager.
  `Exit`, `Interrupt`, `InterruptStart` and `Crash` are the ways out of the shell, with `code` its exit code.
- A cleanup that is left by Ctrl-C or by an exception that `_core_cleanup` does not expect (`CleanUpBreaks`): from the
  `exit` command the handler of `main` cleans up again, from there the destructor, and a destructor has nothing behind
  it (`"abandoned"`). The `waypoint` command may have removed the session or not (`MaybeRemoved`).

`Faults` names the commands that may fail although the session is there, two whose effect
takes place and whose output cannot be read (`unparsed_build`, `unparsed_fork`), and the cleanups that are left (`broken`).
Without a session every command fails. A build whose output cannot be read, or that Ctrl-C meets, leaves a session that no
object knows: the place `"lost"`. `SessionReleased` is about the sessions that were learnt of, and `NothingLeftBehind`,
which fails, about these.

`heard`, `missed` and `blind` are history: the checkpoints of the last tree that was read, the forks that
somebody else has changed since the manager last listed them, and the checkpoints it sealed on such a fork. They are
what makes `HistoryInherited`, `RegistryCurrent` and `LineageTrue` exact: a manager may be
behind only where one of them says so.

### Benchmark and SearchWorkflow

`Benchmark` has the two statements that `add_entry` executes under its lock and the copy that
the statistics are made from. An entry is its number.

`SearchWorkflow` is the script with every assertion it makes, from the arguments (`plan`) to the exit code. The
calls of its manager are atomic, as for the only client of a `ForkableManager`, and up to `MaxFaults` of them fail;
`AnswerLost` is a reading call that gives no answer, `Raise` a manager that raises, whatever the script is doing. The
candidates of a generation run at the same time, each in a thread (`worker`), and meet in the manager's
log. `forks` and `saved` hold what is in a fork or a checkpoint, as far as an assertion can tell it apart:
whether the prepared shell state and files are there, the value, who wrote it and the last move. The log has
the entries of the candidates only. `failed` is the set of assertions that failed.
`session` is `"live"` during the search. `Cleanup` is the `finally`: with `--keep-session` it leaves the session
`"open"`, and so does an exception or Ctrl-C in the manager's cleanup; otherwise the session is `"gone"`, or `"failed"` when the
cleanup returned False. `WriteSummary` may raise. `Destructor` is what happens when `main` is left and the manager with
it: it knows nothing of `--keep-session` and cleans up whatever is still open, so that it ends `"gone"` or, when that
does not work either, `"left"`. A build that fails may have made a session, which is then in one of these states too.

### Backends

`EnvManager` takes the outcomes of a backend as faults. `Backends` has the hooks `_core_snapshot`,
`_core_restore` and `_core_cleanup` themselves, split at the calls of external programs (`pc`), together
with what the templates do with their results: `position`, `snapshots`, `released` (`is_cleaned_up`).
`kind` selects the backend. `instance` is the container, process or machine, `holds` the snapshot whose
state it is in, or `Changed`, and `stored` the images that are complete. Every program may fail at every
call. What a hook does not look at is not looked at: whether the old container has been removed, what
`criu restore` ends with, every answer of Firecracker but 400 or 204. `failed`, `said` and `leaked`
are history: whether an external program failed during the call, what the call answered, and whether the last
cleanup left something. One client calls one operation after the other.

The backends do not promise the same. `ContainerRestored` holds where the new container takes the
name of the old one, because a failed removal makes the start fail; over gVisor `docker start` of a
container that has not stopped succeeds and does nothing (`StartNothing`). `RestoreRecovers` holds over all
three kinds of containers; over CRIU a restore that has failed leaves no process to kill and every later one
raises (`NoSuchProcess`), and over Firecracker no machine to reach (`Unreachable`).

## 3. Runs

| Run | Instance | Shows |
|---|---|---|
| `env_random` | any mixture of snapshot kinds, time-outs; 4 snapshots, 1 command between two, fair | type invariant, faithful replay, the environment on its position, refinement of `SnapshotStore`; a restore always comes back |
| `env_faults` | any mixture of snapshot kinds, every failure, 3 snapshots, 2 commands between two | the tree survives whatever fails; the reported time is never too large; no effect that a snapshot held is missing from what its restore rebuilds, but for the snapshots of an astray environment |
| `fork_safe` | both backends, 2 threads, main and 2 names, 5 calls, every failure of the backend, forks whose answer is lost included | the seven safety invariants of the forkable manager, refinement of `BranchPool` |
| `fork_live` | the same with 3 calls, every failure and another manager on Waypoint, fair | every call returns; every snapshot gets its node |
| `backends` | the five backends, 4 snapshots, every program may fail | what a hook answers and leaves behind, and what the next one makes of it |
| `session` | an owner and an attached manager, main and one name, 3 checkpoints, 3 calls, every command may fail and every cleanup be left, fair | the inherited history, parents and registries of both managers; what a cleanup may answer; the session is released; attaching ends |
| `search` | 2 or 3 candidates, 1 or 2 generations, targets -1, 0, 1 and 5, up to 2 failures, fair | what exit code 0 proves, no false alarm, winners survive, the target is approached, the log is in order, the script settles its session |
| `env_cost`, `fork_tree`, `fork_lost_current`, `backends_unseen`, `session_owner` | the least instance that shows it | five disagreements between the code and what it documents (section 5) |

Bounds, and why they are enough for what is asked.

- `MaxSnapshots = 4` with `MaxLog = 1`: a physical root, a chain of three virtual snapshots, a
  branch from the middle of a chain, and a physical snapshot below a virtual one all occur, and
  the restore prepends the commands of several nodes. A longer log would only
  make each segment longer; two different commands tell every order apart. The theorems have no bounds.
- `env_faults` has one command: what is lost is told by how many effects there are, and with `MaxLog = 2` a late one can
  land before, between and after two others. That the order of different commands is kept whatever fails is part of the
  theorem `NoEffectIsLost`, not of the run. One command at a time is late (`running`), which the code does not limit; the
  environments that `restore_ignored` leaves are bounded by `MaxEnv`.
- `MaxCalls = 5`: restore, fork, discard, fork of the same name and an operation that has been
  waiting for the first object; or three calls of one thread between two of the other. The mutants
  show that the cases the properties are about occur.
- `Gen = 0..2`: three objects of one name; a name registered twice while two threads hold older
  objects needs three.
- `MaxSnapshots = 4` in `backends`: the position, the target, an image lost in a failed cleanup and a new
  snapshot can all be different.
- `MaxCheckpoints = 3` in `session`: both managers' first snapshots and one between, before or after
  them, on main or on a fork. `MaxCalls = 3`: one manager forks or destroys, the other works on what it remembers, and lists.
- `search`: with targets -1, 0, 1 and 5 the target is behind, already reached, nearer than there are candidates, or
  ahead with and without a remainder. A second generation is the first that has a frontier fork;
  further ones repeat it. Two failures: one and another in its handling.
- Symmetry of threads and of names is used in safety runs only.
- `CHECK_DEADLOCK FALSE`: clients may stop calling, and the bounds make them stop.
  That nothing hangs is said by `RestoreTerminates`, `CallsReturn`, `AttachEnds`, `SessionReleased` and `AlwaysSettles`.

Fairness. `EnvManager`: `WF_vars(RestoreStep)`, a restore that was begun is a call in progress and
its thread goes on. `ForkableManager`: `WF_vars(Continue(t))` for each thread. `WaypointSession`: `WF_vars(Continue(m))` for each
manager: a constructor, call or cleanup that has begun goes on, and a process that ends runs its destructors; clients
and users of the shell do what they like. `SearchWorkflow`: `WF_vars(Next)`, one program with its thread pool, no step of
which waits for anybody outside. Beginning a call is never fair. Python's `RLock` is not first-come-first-served; weak fairness of a step that waits for a lock
is what the code gives as long as finitely many calls are ahead of it, and the calls are bounded.

## 4. Proofs

`EnvManager_proofs` holds for all values of the constants (`EnvAssumption` only), in particular for
any number of snapshots and any decider.

- **Whatever fails.** `TreeInv` is the inductive invariant: types, parents older than their
  children (`ParentsOlder`), a resource exactly for the physical snapshots (`ResourcesMatch`),
  children that exist (`ChildrenRecorded`), and the walk going down in the order of the snapshots
  (`WalkClimbs`). None of the checked invariants is inductive alone: that the walk never meets a
  cycle follows from the order, which the code never states. `TypeCorrect`, `TreeIsLinked` and
  `AncestryHolds` follow from it.
- **With a reliable backend** (`Reliable`: nothing fails but time-outs). `FaithfulInv` adds that
  the recorded commands lead from parent to child, that the environment is its position's content and the log in every
  state except during replay, and restore's loop invariant. `EnvironmentOnRecord` and `RecordedCommandsFaithful`
  follow, and `Implementation`: every step is a step of `SnapshotStore` or a stutter. The restore
  takes effect abstractly at `CoreRestore`, where the commands still to be replayed are
  counted in. The assumption is necessary: section 5 has a counterexample for each failure left out.

- **Time and effects, whatever fails.** `TimeInv` says that the reported time is at most the cost of a restore
  except during replay, whose end resets it; `TimeNeverOverstated` follows, and, for a `ThresholdDecider`
  (`Policy = "threshold"`), `PhysicalOnlyWhenDue`, which no run checks; its converse is false (`env_cost`). `EffectInv` says that what was saved, the environment and what a running restore still
  has to replay are all found, in order, in what a restore rebuilds, except what is astray or one of the `strays`; it
  yields `NoEffectLost` for every failure there is in `Faults`. The exception is necessary (section 5, 6).
  These properties compute over the tree and over the log. The induction theorems of the library take an
  operator as a parameter, which the provers cannot instantiate; `EverySmallerOne` is induction for a property
  written as a set, from the well-founded order of the numbers (`WFMin`). `ValuesDescend` then gives the
  values of a recursion along the parents, `CostsExist` and `ImagesExist` those of the model, and
  `WithinEmbeds` that the greedy matching of `Embeds` finds whatever can be found.

`Backends_proofs` holds for any set of backends and any number of snapshots (`BackendsAssumption`).
`BackendsInv` adds to the checked properties which places belong to which backend, in which state of
the environment each place is reached (`Midway`: the start of a new container meets no old one unless a
program has failed, CRIU is never launched after a cleanup that left nothing), and that a cleanup which
could remove everything left nothing. `ContainerRestored` is not inductive without it: what the answer
says follows from the state in which the start was tried.

`ForkableManager_proofs`, `OnlyManager_proofs` and `Pool_proofs` hold for any set of threads and of names, any
number of calls and of state objects, both backends and every failure of theirs (`ForkableAssumption`).

- **The locks** (`LocksInv`), also when others work on the same session: the place where a thread stands
  says which locks it holds and which objects and checkpoints it speaks of (`ThreadInv`), so that no two threads are
  in places that need the same lock. The types and
  every later invariant rest on it.
- **One manager on the session** (the assumption `Alone`: no `"other_manager"` in `Faults`). `AloneInv` says what each place of a call
  has established and no other thread can take away. None of `OneOperationPerBranch`, `CurrentUsable`,
  `RegistriesAgree`, `PositionsTrue`, `LineageTrue` and `RestoreLands` is inductive: the registries differ
  from the backend while some thread is between its call of the backend and its block under `_state_lock`, so `InStep`
  and `InService` say who is, and that it alone owns the branch; the forks in `unlisted` are the session's and no
  thread's, and their names stay taken until a listing shows them. That a
  restore cannot lose the branch it is about to switch to follows from ownership of a state object
  that is registered and not in service yet (`Pending`).
  The assumption is necessary: another manager shares none of the locks, and section 5 (12) shows the parent it spoils.
- **The pool** (`PoolImplemented`): every step of the manager is a step of `BranchPool` or a stutter.
  `PoolInv` adds that a call makes one checkpoint at most and that what is forked is a registered snapshot.

`WaypointSession_proofs` holds for any set of managers and of forks, any number of checkpoints and calls, and every
failure of a command (`SessionAssumption`). `SessionInv` has, for each manager, what it
believes of the forks nobody has changed behind its back (`Tracks`), what is known between a seal and its
record (`JobOK`: the checkpoint is listed before its node exists), and that nobody has a session before its owner has
built it (`Unbuilt`). `RegistryCurrent` is not inductive alone: a
manager in the middle of a snapshot has the position of the checkpoint it has not recorded.

`SearchWorkflow_proofs` and `SearchVerdict_proofs` hold for any fanouts, numbers of generations, targets and numbers of
failing calls (`SearchAssumption`; that `Nobody` is neither a name nor a number stands for Python's `None`).

- **Whatever has failed.** `SearchInv` adds to `WinnersSurvive` that forks are named after the generation they belong
  to (`ForksOK`), which candidates are at work (`WorkOK`) and which checkpoints a generation must have had
  (`RoundsOK`). `WinnersSurvive` is not inductive without them: that a discard, a park or a restore never meets
  a winner follows from the names alone. `BenchOK` says that the lock is held by the candidate between
  drawing a number and entering it, which gives `EntriesInOrder` for any number of candidates.
  `ProgressTowardsTarget` rests on the choice of the winner (`FirstIsLeast`) and on the arithmetic of the steps
  that the candidates offer (`NearestIsBefore`).
- **What 0 proves.** `VerdictInv` says what has been established as long as no assertion has failed: the winners are a
  chain (`ChainOK`), and the log has an entry for every candidate that is through (`CountOK`, an argument about
  cardinalities). A step either records a failure or adds its part, so `ExitZeroMeansDone` holds at the end.
- **No false alarm.** `SoundInv` says what forks and checkpoints hold as long as no call has failed: which
  forks exist (`ForksExact`), what the candidates have answered (`AnswersOK`), what the checkpoints that are
  returned to hold (`HeldOK`). Every assertion of the script follows; that the winner is the one the script
  expects is `FirstUnique`: the first of a set depends on the values, never on the order of the answers.

Only model-checked: liveness (`RestoreTerminates`, `CallsReturn`, `SnapshotsRecorded`, `AttachEnds`,
`SessionReleased`, `AlwaysSettles`), which needs ENABLED and is beyond the prover.

## 5. Disagreements found

With a run each:

1. `env_cost`: a restore of a virtual snapshot resets the time since the last physical one
   (`base_env_manager.py:147`), so chains of virtual snapshots exceed the threshold without bound.
2. `fork_tree`: a new id can be forked before its node is in the graph; a child sealed meanwhile
   is never linked and never printed (`base_env_manager.py:211-217`).
3. `fork_lost_current`: a listing checks and removes in two steps; a restore in between loses the
   state of the current branch for good (`forkable_env_manager.py:425-429`).
4. `backends_unseen`: every answer of Firecracker but 400, or none, is a successful restore
   (`firecracker_env_manager.py:196`); `criu restore` is not waited for either
   (`criu_env_manager.py:115-122`).
5. `session_owner`: a manager that could not attach is finalized like any other, and its destructor cleans
   up the session of the owner (`waypoint_env_manager.py:277-279`, `base_env_manager.py:84-88`); only a failed probe is exempt.

Without one, to be reproduced by adding the named invariant to the named configuration:

6. A time-out ends the client and not the command (`container_env_manager.py:153-166`). When the command takes
   effect after the next snapshot, no log has it where a virtual snapshot would need it, although its `replay_commands` are
   the "commands needed to reach THIS snapshot from its parent" (`base_env_manager.py:30`): `env_faults` with `SnapshotsReachable`.
7. A replayed command that fails is skipped and restore returns True (`base_env_manager.py:369-372`), where
   `controller/README.md:32` says "returns True if successful": `env_random` with `Faults` = {"replay_fails"} violates
   `EnvMatchesPosition`.
8. A fork whose answer cannot be parsed is left out of the result and running (`waypoint_env_manager.py:399-402`), where
   the template says "clean up their partial backend resources" (`forkable_env_manager.py:241-242`): `fork_safe` with `FailedForksAreGone`.
9. When the output of `waypoint build` cannot be split, the session has been built, and neither the constructor nor a
   destructor removes it (`waypoint_env_manager.py:665-667`, `:679-681`), where the comment of the probe says that no half-built
   session is left behind (`:642-643`): `session` with `NothingLeftBehind`.
10. With `--keep-session` the search script makes no cleanup, and the destructor of its manager removes the session when
    `main` returns (`search_workflow_demo.py:446-447`, `base_env_manager.py:84-88`), where the help says "skip cleanup"
    (`:382`): `search` with `KeptSessionStays`.
11. A command that raised without having run is recorded as needed for the snapshot
    (`base_env_manager.py:463-466`): `env_random` with `Faults` = {"exec_lost"} violates `ReplayFaithful`.
12. The parent of a snapshot is the remembered position, which another manager on the session makes
    stale (`base_env_manager.py:241`): `fork_safe` with `Faults` = {"other_manager"} violates `LineageTrue`. `WaypointSession`
    says exactly which parents may be wrong (`blind`).
13. Over Docker a listing that was read before a snapshot and is applied after it sets the container back to its old
    base, because the label cannot be changed (`dummy_docker_env_manager.py:257`): `fork_safe` with `Kinds <- Docker`,
    three calls and the invariant `ParentIsBase`.

In words: `controller/README.md:52` says a `ThresholdDecider` is physical when the time "exceeds" the threshold; the code says
`>=` (`decider.py:55`), and so do `Decisions` and `PhysicalOnlyWhenDue`.

## 6. Not modelled

- Formatting, logging, colours, timing measurements, the sample programs, the scripts that measure.
- Looking for binaries and parsing the text that external programs print.
- The factory: a table without state.
- Building images, containers and machines before a manager is attached, and the size statistics.
- The shell's dispatch of lines to calls. A process that is killed outright: it runs no handler and no destructor,
  and its session stays.
- `cleanup` of the sequential backends by a second thread inside an operation (in `Backends` it comes between the calls), and
  `sync_snapshot_tree` by a second thread.
- The removal of containers and images by the Docker backend. As the code reads, a listing that fails counts as an empty
  one there (`dummy_docker_env_manager.py:152`), so a cleanup may answer True with containers left.
- The benchmark scripts (`benchmark_exec_gap.py` and the others): sequential clients that measure and plot,
  without a decision that depends on an answer.

## 7. Plan

In this order; 1 to 10 are done.

1. `SnapshotStore`, `EnvManager`: the core, with its runs.
2. `EnvManager_proofs`: `TreeInv`, `FaithfulInv`, the refinement, `TimeInv`, `EffectInv`.
3. `ForkableManager`: threads and locks, safety and liveness.
4. The disagreements, each with the least instance.
5. `Backends` and `Backends_proofs`: the steps of `_core_snapshot`, `_core_restore` and `_core_cleanup` of
   each sequential backend, which justify the faults of `EnvManager`.
6. `WaypointSession`: building, attaching and synchronising against a session that changes between the
   queries, forks whose output is lost, names used again, cleanup, the destructor and the exits of the shell.
7. Docker as a second `kind` of `ForkableManager`.
8. `Benchmark` and `SearchWorkflow`: the search script as the client, its verdict and its concurrent candidates;
   `BranchPool` and its refinement, `cleanup` racing the operations of a forkable manager.
9. Proofs: `LocksInv`, `AloneInv` and the refinement of `BranchPool` for `ForkableManager`; `SessionInv` for
   `WaypointSession`; for `SearchWorkflow` and `Benchmark` `EntriesInOrder`, `WinnersSurvive`,
   `ProgressTowardsTarget`, `NoFalseAlarm` and `ExitZeroMeansDone`.
10. Late commands, restores that are ignored, forks whose answer is lost, cleanups that are broken off
    and the destructor after the search script, each with the disagreement it shows.
11. `SearchWorkflow` over `BranchPool` instead of its own atomic calls.
12. `EnvManager` composed with `Backends`, so that the faults of the first are the behaviours of the second
    (a refinement of `EnvManager`'s backend steps).
