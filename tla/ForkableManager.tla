-------------------------- MODULE ForkableManager --------------------------
(***************************************************************************)
(* The forkable manager of controller/forkable_env_manager.py over the     *)
(* Waypoint backend or over the sketch of a Docker one: threads that       *)
(* snapshot, restore, execute on, fork, discard, park and list the live    *)
(* branches of one session.                                                *)
(*                                                                         *)
(* A step is what happens between two points where another thread may come *)
(* in: the acquisition of a lock, a call of the backend, or a block under  *)
(* the state lock.  Locks are held until the call returns, unless a step   *)
(* says otherwise.  The content of a branch is abstracted to the snapshot  *)
(* it is based on, which Waypoint remembers and Docker does not.           *)
(***************************************************************************)
EXTENDS Integers, Sequences

CONSTANTS
    Thread,     \* client threads of the manager
    NoThread,   \* holder of a free lock
    Branch,     \* branch identifiers
    Main,       \* DEFAULT_BRANCH_ID
    Gen,        \* bound: BranchState objects that may exist for a branch id
    Kinds,      \* which backends
    Faults,     \* which failures of the backend may happen
    MaxCalls    \* bound: calls made by all the threads together

FaultKinds ==
    {"snapshot_fails", "fork_fails", "discard_fails", "park_fails",
     "list_fails", "cleanup_fails",
     "output_lost",     \* waypoint makes a fork and its answer cannot be read
     "other_manager"}   \* somebody else works on the same session

ASSUME ForkableAssumption ==
    /\ NoThread \notin Thread
    /\ Main \in Branch
    /\ Gen # {}
    /\ Kinds \subseteq {"waypoint", "docker"}
    /\ Faults \subseteq FaultKinds
    /\ MaxCalls \in Nat

VARIABLES
    kind,       \* the backend of the session
    backend,    \* live fork or container -> the checkpoint it is based on
    unlisted,   \* history: forks whose making was not answered, until a listing
                \* shows them
    origin,     \* what each checkpoint was made from, in order of creation
    snapshots,  \* ids in the dictionary snapshots
    graph,      \* snapshot_graph: id -> parent and children
    live,       \* ids in _live_branches
    branches,   \* _branches: id -> BranchState object
    st,         \* the fields of each BranchState object
    current,    \* _current_branch_id
    C, R,       \* holders of _current_branch_lock and _branch_registry_lock
    O,          \* holder of each object's operation_lock
    at,         \* where each thread stands, and its local variables
    calls       \* calls made so far

backendVars == <<backend, unlisted, origin>>
treeVars == <<snapshots, graph>>
registryVars == <<live, branches, st, current>>
lockVars == <<C, R, O>>
vars == <<kind, backend, unlisted, origin, snapshots, graph, live, branches, st, current,
          C, R, O, at, calls>>

NoSnapshot == 0
State == [branch : Branch, gen : Gen]   \* identities of BranchState objects
FirstState == [branch |-> Main, gen |-> CHOOSE g \in Gen : TRUE]

Places ==
    {"idle", "exec", "run", "seal", "core", "refresh", "apply", "prune",
     "record", "departing", "materialize", "register", "switch", "position",
     "retire", "check", "destroy", "forget",
     "park", "park_check", "park_core", "park_remove", "park_record",
     "cleanup"}

\* A thread between two calls.
Idle == [pc |-> "idle", op |-> "none", br |-> Main, ob |-> FirstState,
         dob |-> FirstState, base |-> NoSnapshot, sid |-> NoSnapshot,
         ids |-> {}, view |-> << >>]

Ids == 1 .. Len(origin)
NewId == Len(origin) + 1

InUse == {branches[b] : b \in DOMAIN branches}
         \cup {at[t].ob : t \in Thread} \cup {at[t].dob : t \in Thread}

\* The object of b: the registered one, or else the one that _register_branch
\* creates.
Unused(b) == {o \in State : o.branch = b} \ InUse
StateOf(b) == IF b \in DOMAIN branches THEN branches[b]
              ELSE CHOOSE o \in Unused(b) : TRUE
Registrable(bs) == \A b \in bs : b \in DOMAIN branches \/ Unused(b) # {}

\* main is never discarded, so it goes with the session only.
Ended == Main \notin DOMAIN backend

At(t, place) == at[t].pc = place
Goto(t, place) == at' = [at EXCEPT ![t].pc = place]

\* The locks are reentrant.
Free(lock, t) == lock \in {NoThread, t}
Released(lock, t) == IF lock = t THEN NoThread ELSE lock

\* The call ends, and the with-statements release what it holds.
Return(t) ==
    /\ at' = [at EXCEPT ![t] = Idle]
    /\ C' = Released(C, t)
    /\ R' = Released(R, t)
    /\ O' = [o \in State |-> Released(O[o], t)]

Call(t, locals) ==
    /\ At(t, "idle")
    /\ calls < MaxCalls
    /\ calls' = calls + 1
    /\ at' = [at EXCEPT ![t] = locals]

\* g with a node for s below p.  A parent that is not in g is not told.
RecordNode(g, s, p) ==
    [x \in DOMAIN g \cup {s} |->
        IF x = s THEN [parent |-> p, children |-> {}]
        ELSE IF x = p THEN [g[x] EXCEPT !.children = @ \cup {s}]
        ELSE g[x]]

Without(f, keys) == [x \in DOMAIN f \ keys |-> f[x]]

-----------------------------------------------------------------------------
(* A manager that has attached to a fresh session and sealed it once, or   *)
(* has started a container from the base image.                            *)
Init ==
    /\ kind \in Kinds
    /\ backend = [b \in {Main} |-> 1]
    /\ unlisted = {}
    /\ origin = << NoSnapshot >>
    /\ snapshots = {1}
    /\ graph = [s \in {1} |-> [parent |-> NoSnapshot, children |-> {}]]
    /\ live = {Main}
    /\ branches = [b \in {Main} |-> FirstState]
    /\ st = [o \in State |-> IF o = FirstState
                             THEN [pos |-> 1, active |-> TRUE]
                             ELSE [pos |-> NoSnapshot, active |-> FALSE]]
    /\ current = Main
    /\ C = NoThread
    /\ R = NoThread
    /\ O = [o \in State |-> NoThread]
    /\ at = [t \in Thread |-> Idle]
    /\ calls = 0

-----------------------------------------------------------------------------
(* exec_command, copy_in and copy_out, on the current or on a named branch. *)
(* An unknown branch returns at once and changes nothing.  The object is   *)
(* looked up before its lock is waited for.                                *)

OnCurrent(t, place, op) ==
    /\ C = NoThread
    /\ current \in DOMAIN branches
    /\ Call(t, [Idle EXCEPT !.pc = place, !.op = op, !.br = current,
                            !.ob = branches[current]])
    /\ C' = t
    /\ UNCHANGED <<kind, backendVars, treeVars, registryVars, R, O>>

OnBranch(t, b, place, op) ==
    /\ b \in live \cap DOMAIN branches
    /\ Call(t, [Idle EXCEPT !.pc = place, !.op = op, !.br = b,
                            !.ob = branches[b]])
    /\ UNCHANGED <<kind, backendVars, treeVars, registryVars, lockVars>>

Exec(t) == OnCurrent(t, "exec", "exec")
ExecOnBranch(t, b) == OnBranch(t, b, "exec", "exec")

Copy(t) == OnCurrent(t, "exec", "copy")
CopyBranch(t, b) == OnBranch(t, b, "exec", "copy")

Refused(t) ==
    /\ At(t, "exec") \/ At(t, "seal")
    /\ Free(O[at[t].ob], t)
    /\ ~st[at[t].ob].active
    /\ Return(t)
    /\ UNCHANGED <<kind, backendVars, treeVars, registryVars, calls>>

LockExec(t) ==
    /\ At(t, "exec")
    /\ Free(O[at[t].ob], t)
    /\ st[at[t].ob].active
    /\ O' = [O EXCEPT ![at[t].ob] = t]
    /\ Goto(t, "run")
    /\ UNCHANGED <<kind, backendVars, treeVars, registryVars, C, R, calls>>

\* The command or the copy ends, and the log entry is made.
Run(t) ==
    /\ At(t, "run")
    /\ Return(t)
    /\ UNCHANGED <<kind, backendVars, treeVars, registryVars, calls>>

-----------------------------------------------------------------------------
(* snapshot and snapshot_branch.                                           *)

Snapshot(t) == OnCurrent(t, "seal", "snapshot")
SnapshotBranch(t, b) == OnBranch(t, b, "seal", "snapshot")

LockSeal(t) ==
    /\ At(t, "seal")
    /\ Free(O[at[t].ob], t)
    /\ st[at[t].ob].active
    /\ O' = [O EXCEPT ![at[t].ob] = t]
    /\ at' = [at EXCEPT ![t].pc = "core", ![t].base = st[at[t].ob].pos]
    /\ UNCHANGED <<kind, backendVars, treeVars, registryVars, C, R, calls>>

\* Mutant: the hook does not register the resource.
CoreSnapshotUnregistered(t) ==
    /\ At(t, "core")
    /\ at[t].br \in DOMAIN backend
    /\ backend' = [backend EXCEPT ![at[t].br] = NewId]
    /\ origin' = Append(origin, backend[at[t].br])
    /\ at' = [at EXCEPT ![t].pc = "refresh", ![t].sid = NewId]
    /\ UNCHANGED <<kind, unlisted, treeVars, registryVars, lockVars, calls>>

\* waypoint snapshot; the checkpoint becomes the base of the fork, and the
\* branches are listed again.
CoreSnapshot(t) ==
    /\ kind = "waypoint"
    /\ At(t, "core")
    /\ at[t].br \in DOMAIN backend
    /\ backend' = [backend EXCEPT ![at[t].br] = NewId]
    /\ origin' = Append(origin, backend[at[t].br])
    /\ snapshots' = snapshots \cup {NewId}
    /\ at' = [at EXCEPT ![t].pc = "refresh", ![t].sid = NewId]
    /\ UNCHANGED <<kind, unlisted, graph, registryVars, lockVars, calls>>

\* docker commit: the container goes on from the image, and nothing is listed.
Commit(t) ==
    /\ kind = "docker"
    /\ At(t, "core")
    /\ at[t].br \in DOMAIN backend
    /\ backend' = [backend EXCEPT ![at[t].br] = NewId]
    /\ origin' = Append(origin, backend[at[t].br])
    /\ snapshots' = snapshots \cup {NewId}
    /\ at' = [at EXCEPT ![t].pc = "record", ![t].sid = NewId]
    /\ UNCHANGED <<kind, unlisted, graph, registryVars, lockVars, calls>>

SnapshotFails(t) ==
    /\ At(t, "core")
    /\ at[t].br \notin DOMAIN backend \/ "snapshot_fails" \in Faults
    /\ Return(t)
    /\ UNCHANGED <<kind, backendVars, treeVars, registryVars, calls>>

\* Mutant: the parent is read again, after the backend's hook.
RecordLate(t) ==
    /\ At(t, "record")
    /\ graph' = RecordNode(graph, at[t].sid, st[at[t].ob].pos)
    /\ st' = [st EXCEPT ![at[t].ob].pos = at[t].sid]
    /\ Return(t)
    /\ UNCHANGED <<kind, backendVars, snapshots, live, branches, current, calls>>

\* _record_snapshot_node with the parent captured under the operation lock,
\* and the branch position.
Record(t) ==
    /\ At(t, "record")
    /\ graph' = RecordNode(graph, at[t].sid, at[t].base)
    /\ st' = [st EXCEPT ![at[t].ob].pos = at[t].sid]
    /\ Return(t)
    /\ UNCHANGED <<kind, backendVars, snapshots, live, branches, current, calls>>

-----------------------------------------------------------------------------
(* list_branches, called by clients and by the Waypoint snapshot hook.     *)

List(t) ==
    /\ Call(t, [Idle EXCEPT !.pc = "refresh", !.op = "list"])
    /\ UNCHANGED <<kind, backendVars, treeVars, registryVars, lockVars>>

\* docker ps and inspect tell which containers there are.  A label tells what
\* one was started from only, so the position that the manager has is given
\* instead; every container is registered while R is free.
Containers ==
    [b \in DOMAIN backend |->
        IF b \in DOMAIN branches THEN st[branches[b]].pos ELSE NoSnapshot]

View == IF kind = "docker" THEN Containers ELSE backend

\* Mutant: the backend is queried before the registry lock is taken.
QueryUnlocked(t) ==
    /\ At(t, "refresh")
    /\ ~Ended
    /\ at' = [at EXCEPT ![t].pc = "apply", ![t].view = View]
    /\ UNCHANGED <<kind, backendVars, treeVars, registryVars, lockVars, calls>>

Query(t) ==
    /\ At(t, "refresh")
    /\ Free(R, t)
    /\ ~Ended
    /\ R' = t
    /\ at' = [at EXCEPT ![t].pc = "apply", ![t].view = View]
    /\ UNCHANGED <<kind, backendVars, treeVars, registryVars, C, O, calls>>

\* Mutant: a snapshot whose listing fails is given up.
QueryFailsSnapshot(t) ==
    /\ At(t, "refresh")
    /\ Free(R, t)
    /\ Ended \/ "list_fails" \in Faults
    /\ Return(t)
    /\ UNCHANGED <<kind, backendVars, treeVars, registryVars, calls>>

\* The cached registry is kept.
QueryFails(t) ==
    /\ At(t, "refresh")
    /\ Free(R, t)
    /\ Ended \/ "list_fails" \in Faults
    /\ IF at[t].op = "list"
       THEN Return(t)
       ELSE Goto(t, "record") /\ UNCHANGED lockVars
    /\ UNCHANGED <<kind, backendVars, treeVars, registryVars, calls>>

\* The answer replaces _live_branches; a branch whose base has moved is
\* repositioned.  What has disappeared is noted, unless main or current.
Apply(t) ==
    LET view == at[t].view
        known == DOMAIN view \cap DOMAIN branches
        listed(o) == o.branch \in DOMAIN view /\ o = StateOf(o.branch)
        moved(o) == o.branch \in known => st[o].pos # view[o.branch]
    IN  /\ At(t, "apply")
        /\ Registrable(DOMAIN view)
        /\ live' = DOMAIN view
        /\ branches' = [b \in DOMAIN branches \cup DOMAIN view |-> StateOf(b)]
        /\ st' = [o \in State |->
                    IF listed(o) /\ moved(o)
                    THEN [pos |-> view[o.branch], active |-> TRUE]
                    ELSE st[o]]
        /\ at' = [at EXCEPT
                    ![t].pc = "prune",
                    ![t].view = << >>,
                    ![t].ids = live \ (DOMAIN view \cup {Main, current})]
        /\ unlisted' = unlisted \ DOMAIN view
        /\ UNCHANGED <<kind, backend, origin, treeVars, current, lockVars, calls>>

\* _remove_branch of what has disappeared; R is given back.
Prune(t) ==
    LET stale == at[t].ids \cap DOMAIN branches
    IN  /\ At(t, "prune")
        /\ st' = [o \in State |->
                    IF o \in {branches[b] : b \in stale}
                    THEN [st[o] EXCEPT !.active = FALSE] ELSE st[o]]
        /\ branches' = Without(branches, stale)
        /\ IF at[t].op = "list"
           THEN Return(t)
           ELSE /\ at' = [at EXCEPT ![t].pc = "record", ![t].ids = {}]
                /\ R' = NoThread
                /\ UNCHANGED <<C, O>>
        /\ UNCHANGED <<kind, backendVars, treeVars, live, current, calls>>

-----------------------------------------------------------------------------
(* fork, with given ids or with ids that the backend chooses, and the       *)
(* materialization it shares with restore.                                 *)

Fork(t, s, ids) ==
    /\ R = NoThread
    /\ s \in snapshots
    /\ ids \cap (live \cup {Main}) = {}
    /\ Call(t, [Idle EXCEPT !.pc = "materialize", !.base = s, !.ids = ids,
                            !.op = IF ids = {} THEN "fork_auto" ELSE "fork"])
    /\ R' = t
    /\ UNCHANGED <<kind, backendVars, treeVars, registryVars, C, O>>

\* The sets of forks that the backend may be asked to make: the ids of the call,
\* a number of forks that it names itself, or the one that a restore wants.
Requests(t) ==
    CASE at[t].op = "fork" -> {at[t].ids \ DOMAIN backend}
      [] at[t].op = "fork_auto" -> (SUBSET (Branch \ DOMAIN backend)) \ {{}}
      [] OTHER -> {{b} : b \in Branch \ DOMAIN backend}

\* The session makes new and lost, out of the forks asked for; the answers about
\* lost cannot be parsed, and these forks are left as they are.
Forked(t, new, lost) ==
    /\ \E want \in Requests(t) :
          /\ new \cup lost \subseteq want
          /\ "fork_fails" \in Faults \/ new \cup lost = want
    /\ new \cap lost = {}
    /\ lost # {} => kind = "waypoint" /\ "output_lost" \in Faults
    /\ backend' = [b \in DOMAIN backend \cup new \cup lost |->
                      IF b \in new \cup lost THEN at[t].base ELSE backend[b]]
    /\ unlisted' = unlisted \cup lost

\* _core_fork; forks that fail or are not understood are left out of the answer.
Materialize(t) ==
    /\ At(t, "materialize")
    /\ Free(R, t)
    /\ ~Ended
    /\ \E new \in (SUBSET Branch) \ {{}}, lost \in SUBSET Branch :
          /\ Forked(t, new, lost)
          /\ Registrable(new)
          /\ at' = [at EXCEPT ![t].pc = "register", ![t].ids = new]
    /\ R' = t
    /\ UNCHANGED <<kind, origin, treeVars, registryVars, C, O, calls>>

\* No fork is answered: fork returns no branch, restore returns False.
MaterializeFails(t) ==
    /\ At(t, "materialize")
    /\ Free(R, t)
    /\ \/ /\ Ended \/ Requests(t) = {}
          /\ UNCHANGED <<backend, unlisted>>
       \/ /\ ~Ended
          /\ \E lost \in SUBSET Branch : Forked(t, {}, lost)
    /\ Return(t)
    /\ UNCHANGED <<kind, origin, treeVars, registryVars, calls>>

\* Mutant: the branch of a restore is in service at once.
RegisterActive(t) ==
    LET new == at[t].ids
    IN  /\ At(t, "register")
        /\ Registrable(new)
        /\ branches' = [b \in DOMAIN branches \cup new |-> StateOf(b)]
        /\ st' = [o \in State |->
                    IF o.branch \in new /\ o = StateOf(o.branch)
                    THEN [pos |-> IF o.branch \in DOMAIN branches
                                  THEN st[o].pos ELSE at[t].base,
                          active |-> TRUE]
                    ELSE st[o]]
        /\ live' = live \cup new
        /\ IF at[t].op = "restore"
           THEN Goto(t, "switch") /\ R' = NoThread /\ UNCHANGED <<C, O>>
           ELSE Return(t)
        /\ UNCHANGED <<kind, backendVars, treeVars, current, calls>>

\* Registration of what was made.  A state that is still registered under the
\* id is kept as it is; the branch of a restore stays inactive.
Register(t) ==
    LET new == at[t].ids
    IN  /\ At(t, "register")
        /\ Registrable(new)
        /\ branches' = [b \in DOMAIN branches \cup new |-> StateOf(b)]
        /\ st' = [o \in State |->
                    IF o.branch \in new /\ o = StateOf(o.branch)
                    THEN [pos |-> IF o.branch \in DOMAIN branches
                                  THEN st[o].pos ELSE at[t].base,
                          active |-> at[t].op # "restore"]
                    ELSE st[o]]
        /\ live' = live \cup new
        /\ IF at[t].op = "restore"
           THEN Goto(t, "switch") /\ R' = NoThread /\ UNCHANGED <<C, O>>
           ELSE Return(t)
        /\ UNCHANGED <<kind, backendVars, treeVars, current, calls>>

-----------------------------------------------------------------------------
(* restore: materialize, switch, retire the departing branch.              *)

Restore(t, s) ==
    /\ C = NoThread
    /\ current \in DOMAIN branches
    /\ Call(t, [Idle EXCEPT !.pc = "departing", !.op = "restore",
                            !.br = current, !.ob = branches[current],
                            !.base = s])
    /\ C' = t
    /\ UNCHANGED <<kind, backendVars, treeVars, registryVars, R, O>>

LockDeparting(t) ==
    /\ At(t, "departing")
    /\ Free(O[at[t].ob], t)
    /\ IF at[t].base \in DOMAIN graph
       THEN /\ O' = [O EXCEPT ![at[t].ob] = t]
            /\ Goto(t, "materialize")
            /\ UNCHANGED <<C, R>>
       ELSE Return(t)
    /\ UNCHANGED <<kind, backendVars, treeVars, registryVars, calls>>

\* A restore takes out the branch that it has departed from, unless that is main,
\* or the one it has come to, or gone.
Departs(t) ==
    /\ at[t].br # Main
    /\ at[t].br \notin at[t].ids
    /\ at[t].br \in live \cap DOMAIN branches

\* _set_current_branch, which raises KeyError when the new branch has been
\* removed meanwhile; then the lookups of _discard_branch.
Switch(t) ==
    /\ At(t, "switch")
    /\ IF at[t].ids \subseteq DOMAIN branches
       THEN /\ current' = CHOOSE b \in Branch : at[t].ids = {b}
            /\ IF Departs(t)
               THEN at' = [at EXCEPT ![t].pc = "retire",
                                     ![t].dob = branches[at[t].br]]
               ELSE Goto(t, "position")
            /\ UNCHANGED lockVars
       ELSE Return(t) /\ UNCHANGED current
    /\ UNCHANGED <<kind, backendVars, treeVars, live, branches, st, calls>>

\* _set_branch_position of the branch that is current, which registers it if
\* need be; restore returns True.
Position(t) ==
    /\ At(t, "position")
    /\ Registrable({current})
    /\ branches' = [b \in DOMAIN branches \cup {current} |-> StateOf(b)]
    /\ st' = [st EXCEPT ![StateOf(current)] =
                            [pos |-> at[t].base, active |-> TRUE]]
    /\ Return(t)
    /\ UNCHANGED <<kind, backendVars, treeVars, live, current, calls>>

-----------------------------------------------------------------------------
(* discard_branch, and its use by restore.                                 *)

\* Mutant: discard_branch does not take the current-branch lock.
DiscardUnlocked(t, b) ==
    /\ b \notin {Main, current}
    /\ b \in live \cap DOMAIN branches
    /\ Call(t, [Idle EXCEPT !.pc = "retire", !.op = "discard", !.br = b,
                            !.dob = branches[b]])
    /\ UNCHANGED <<kind, backendVars, treeVars, registryVars, lockVars>>

Discard(t, b) ==
    /\ C = NoThread
    /\ b \notin {Main, current}
    /\ b \in live \cap DOMAIN branches
    /\ Call(t, [Idle EXCEPT !.pc = "retire", !.op = "discard", !.br = b,
                            !.dob = branches[b]])
    /\ C' = t
    /\ UNCHANGED <<kind, backendVars, treeVars, registryVars, R, O>>

\* Back from _discard_branch: restore goes on, whatever became of it.
Retired(t) ==
    IF at[t].op = "restore"
    THEN /\ at' = [at EXCEPT ![t].pc = "position", ![t].dob = FirstState]
         /\ R' = Released(R, t)
         /\ O' = [o \in State |->
                    IF o = at[t].dob /\ o # at[t].ob THEN Released(O[o], t)
                    ELSE O[o]]
         /\ UNCHANGED C
    ELSE Return(t)

\* Mutant: the registry lock is taken before the operation lock.
LockRetiringRegistryFirst(t) ==
    /\ At(t, "retire")
    /\ \/ R # t /\ Free(R, t) /\ R' = t
          /\ UNCHANGED <<O, at>>
       \/ R = t /\ Free(O[at[t].dob], t)
          /\ O' = [O EXCEPT ![at[t].dob] = t]
          /\ Goto(t, "check") /\ UNCHANGED R
    /\ UNCHANGED <<kind, backendVars, treeVars, registryVars, C, calls>>

LockRetiring(t) ==
    /\ At(t, "retire")
    /\ Free(O[at[t].dob], t)
    /\ O' = [O EXCEPT ![at[t].dob] = t]
    /\ Goto(t, "check")
    /\ UNCHANGED <<kind, backendVars, treeVars, registryVars, C, R, calls>>

\* The second look, now under both locks.
CheckRetiring(t) ==
    /\ At(t, "check")
    /\ Free(R, t)
    /\ IF at[t].br \in live /\ st[at[t].dob].active
       THEN /\ R' = t
            /\ Goto(t, "destroy")
            /\ UNCHANGED <<C, O>>
       ELSE Retired(t)
    /\ UNCHANGED <<kind, backendVars, treeVars, registryVars, calls>>

Destroy(t) ==
    /\ At(t, "destroy")
    /\ at[t].br \in DOMAIN backend
    /\ backend' = Without(backend, {at[t].br})
    /\ Goto(t, "forget")
    /\ UNCHANGED <<kind, unlisted, origin, treeVars, registryVars, lockVars, calls>>

DestroyFails(t) ==
    /\ At(t, "destroy")
    /\ at[t].br \notin DOMAIN backend \/ "discard_fails" \in Faults
    /\ Retired(t)
    /\ UNCHANGED <<kind, backendVars, treeVars, registryVars, calls>>

\* b is taken off both registries; its state object is put out of service.
RemoveBranch(b) ==
    /\ live' = live \ {b}
    /\ branches' = Without(branches, {b})
    /\ st' = [o \in State |->
                IF b \in DOMAIN branches /\ o = branches[b]
                THEN [st[o] EXCEPT !.active = FALSE] ELSE st[o]]

\* Mutant: the state object of the removed branch is left active.
ForgetActive(t) ==
    /\ At(t, "forget")
    /\ live' = live \ {at[t].br}
    /\ branches' = Without(branches, {at[t].br})
    /\ Retired(t)
    /\ UNCHANGED <<kind, backendVars, treeVars, st, current, calls>>

Forget(t) ==
    /\ At(t, "forget")
    /\ RemoveBranch(at[t].br)
    /\ Retired(t)
    /\ UNCHANGED <<kind, backendVars, treeVars, current, calls>>

-----------------------------------------------------------------------------
(* park_branch.                                                            *)

Park(t, b) ==
    /\ C = NoThread
    /\ b # Main
    /\ b \in live \cap DOMAIN branches
    /\ Call(t, [Idle EXCEPT !.pc = "park", !.op = "park", !.br = b,
                            !.ob = branches[b]])
    /\ C' = t
    /\ UNCHANGED <<kind, backendVars, treeVars, registryVars, R, O>>

LockPark(t) ==
    /\ At(t, "park")
    /\ Free(O[at[t].ob], t)
    /\ O' = [O EXCEPT ![at[t].ob] = t]
    /\ Goto(t, "park_check")
    /\ UNCHANGED <<kind, backendVars, treeVars, registryVars, C, R, calls>>

CheckPark(t) ==
    /\ At(t, "park_check")
    /\ Free(R, t)
    /\ IF at[t].br \in live /\ st[at[t].ob].active
       THEN /\ R' = t
            /\ at' = [at EXCEPT ![t].pc = "park_core",
                                ![t].base = st[at[t].ob].pos]
            /\ UNCHANGED <<C, O>>
       ELSE Return(t)
    /\ UNCHANGED <<kind, backendVars, treeVars, registryVars, calls>>

\* waypoint snapshot --park: a checkpoint, and the fork is gone.
CorePark(t) ==
    /\ kind = "waypoint"
    /\ At(t, "park_core")
    /\ at[t].br \in DOMAIN backend
    /\ backend' = Without(backend, {at[t].br})
    /\ origin' = Append(origin, backend[at[t].br])
    /\ snapshots' = snapshots \cup {NewId}
    /\ at' = [at EXCEPT ![t].pc = "park_record", ![t].sid = NewId]
    /\ UNCHANGED <<kind, unlisted, graph, registryVars, lockVars, calls>>

\* Mutant: the image is registered before the container is removed.
CommitParkRegisters(t) ==
    /\ kind = "docker"
    /\ At(t, "park_core")
    /\ at[t].br \in DOMAIN backend
    /\ origin' = Append(origin, backend[at[t].br])
    /\ snapshots' = snapshots \cup {NewId}
    /\ at' = [at EXCEPT ![t].pc = "park_remove", ![t].sid = NewId]
    /\ UNCHANGED <<kind, backend, unlisted, graph, registryVars, lockVars, calls>>

\* Docker commits, then removes the container; the image is registered after
\* both, and removed again when the container stays.
CommitPark(t) ==
    /\ kind = "docker"
    /\ At(t, "park_core")
    /\ at[t].br \in DOMAIN backend
    /\ origin' = Append(origin, backend[at[t].br])
    /\ at' = [at EXCEPT ![t].pc = "park_remove", ![t].sid = NewId]
    /\ UNCHANGED <<kind, backend, unlisted, treeVars, registryVars, lockVars, calls>>

RemoveParked(t) ==
    /\ At(t, "park_remove")
    /\ backend' = Without(backend, {at[t].br})
    /\ snapshots' = snapshots \cup {at[t].sid}
    /\ Goto(t, "park_record")
    /\ UNCHANGED <<kind, unlisted, origin, graph, registryVars, lockVars, calls>>

UndoCommit(t) ==
    /\ At(t, "park_remove")
    /\ "discard_fails" \in Faults
    /\ Return(t)
    /\ UNCHANGED <<kind, backendVars, treeVars, registryVars, calls>>

ParkFails(t) ==
    /\ At(t, "park_core")
    /\ at[t].br \notin DOMAIN backend \/ "park_fails" \in Faults
    /\ Return(t)
    /\ UNCHANGED <<kind, backendVars, treeVars, registryVars, calls>>

\* Parking the current branch falls back to main.
RecordPark(t) ==
    /\ At(t, "park_record")
    /\ graph' = RecordNode(graph, at[t].sid, at[t].base)
    /\ current' = IF current = at[t].br THEN Main ELSE current
    /\ RemoveBranch(at[t].br)
    /\ Return(t)
    /\ UNCHANGED <<kind, backendVars, snapshots, calls>>

-----------------------------------------------------------------------------
(* cleanup of a Waypoint session, under the lifecycle lock alone: it waits  *)
(* for no operation, and from then on every command fails.                 *)

CleanUp(t) ==
    /\ kind = "waypoint"
    /\ \A u \in Thread : ~At(u, "cleanup")
    /\ Call(t, [Idle EXCEPT !.pc = "cleanup", !.op = "cleanup"])
    /\ UNCHANGED <<kind, backendVars, treeVars, registryVars, lockVars>>

TearDown(t) ==
    /\ At(t, "cleanup")
    /\ ~Ended
    /\ backend' = Without(backend, DOMAIN backend)
    /\ unlisted' = {}
    /\ Return(t)
    /\ UNCHANGED <<kind, origin, treeVars, registryVars, calls>>

\* Neither waypoint cleanup nor the forced one succeeds.
TearDownFails(t) ==
    /\ At(t, "cleanup")
    /\ Ended \/ "cleanup_fails" \in Faults
    /\ Return(t)
    /\ UNCHANGED <<kind, backendVars, treeVars, registryVars, calls>>

-----------------------------------------------------------------------------
(* Another manager attached to the same session: it shares none of the     *)
(* locks.  It seals a fork, destroys one, or makes one.  Nobody attaches   *)
(* to the containers of a Docker manager.                                  *)

OthersMay ==
    /\ kind = "waypoint"
    /\ "other_manager" \in Faults
    /\ ~Ended
    /\ calls < MaxCalls
    /\ calls' = calls + 1

OtherSeals(b) ==
    /\ OthersMay
    /\ b \in DOMAIN backend
    /\ backend' = [backend EXCEPT ![b] = NewId]
    /\ origin' = Append(origin, backend[b])
    /\ UNCHANGED <<kind, unlisted, treeVars, registryVars, lockVars, at>>

OtherDestroys(b) ==
    /\ OthersMay
    /\ b \in DOMAIN backend \ {Main}
    /\ backend' = Without(backend, {b})
    /\ unlisted' = unlisted \ {b}
    /\ UNCHANGED <<kind, origin, treeVars, registryVars, lockVars, at>>

OtherForks(b, s) ==
    /\ OthersMay
    /\ b \notin DOMAIN backend
    /\ backend' = [x \in DOMAIN backend \cup {b} |-> IF x = b THEN s ELSE backend[x]]
    /\ UNCHANGED <<kind, unlisted, origin, treeVars, registryVars, lockVars, at>>

Others ==
    \E b \in Branch :
        OtherSeals(b) \/ OtherDestroys(b) \/ \E s \in Ids : OtherForks(b, s)

-----------------------------------------------------------------------------
Begin(t) ==
    \/ Exec(t) \/ Copy(t) \/ Snapshot(t) \/ List(t) \/ CleanUp(t)
    \/ \E b \in Branch :
          \/ ExecOnBranch(t, b) \/ CopyBranch(t, b) \/ SnapshotBranch(t, b)
          \/ Discard(t, b) \/ Park(t, b)
    \/ \E s \in Ids : Restore(t, s)
    \/ \E s \in Ids, ids \in SUBSET Branch : Fork(t, s, ids)

\* A call that has begun goes on.
Continue(t) ==
    \/ Refused(t)
    \/ LockExec(t) \/ Run(t)
    \/ LockSeal(t) \/ CoreSnapshot(t) \/ Commit(t) \/ SnapshotFails(t)
    \/ Query(t) \/ QueryFails(t) \/ Apply(t) \/ Prune(t) \/ Record(t)
    \/ LockDeparting(t) \/ Materialize(t) \/ MaterializeFails(t)
    \/ Register(t) \/ Switch(t) \/ Position(t)
    \/ LockRetiring(t) \/ CheckRetiring(t)
    \/ Destroy(t) \/ DestroyFails(t) \/ Forget(t)
    \/ LockPark(t) \/ CheckPark(t) \/ CorePark(t)
    \/ CommitPark(t) \/ RemoveParked(t) \/ UndoCommit(t)
    \/ ParkFails(t) \/ RecordPark(t)
    \/ TearDown(t) \/ TearDownFails(t)

Next == (\E t \in Thread : Begin(t) \/ Continue(t)) \/ Others

Spec == Init /\ [][Next]_vars

\* The scheduler runs every thread; a free lock is not withheld forever from a
\* thread that waits for it, since the calls in the way are finitely many.
FairSpec == Spec /\ \A t \in Thread : WF_vars(Continue(t))

-----------------------------------------------------------------------------
(* Properties.                                                             *)

Operations == {"none", "exec", "copy", "snapshot", "list", "fork", "fork_auto",
               "restore", "discard", "park", "cleanup"}

\* A partial function from the branches to D.
IsMap(f, D) == DOMAIN f \subseteq Branch /\ f \in [DOMAIN f -> D]

LocalsOK(l) ==
    /\ l.pc \in Places
    /\ l.op \in Operations
    /\ l.br \in Branch
    /\ l.ob \in State /\ l.dob \in State
    /\ l.base \in Nat /\ l.sid \in Nat
    /\ l.ids \subseteq Branch
    /\ IsMap(l.view, Nat)

\* The one type invariant of the module.  The graph has nodes for registered
\* snapshots only.
TypeOK ==
    /\ kind \in Kinds
    /\ IsMap(backend, Ids)
    /\ unlisted \subseteq Branch
    /\ origin \in Seq(Nat)
    /\ snapshots \subseteq Ids
    /\ DOMAIN graph \subseteq snapshots
    /\ graph \in [DOMAIN graph -> [parent : Nat, children : SUBSET Ids]]
    /\ live \subseteq Branch
    /\ IsMap(branches, State)
    /\ st \in [State -> [pos : Nat, active : BOOLEAN]]
    /\ current \in Branch
    /\ {C, R} \subseteq Thread \cup {NoThread}
    /\ O \in [State -> Thread \cup {NoThread}]
    /\ DOMAIN at = Thread /\ \A t \in Thread : LocalsOK(at[t])
    /\ calls \in 0 .. MaxCalls

\* Threads that are inside a call of the backend for one branch.
Working(t) == at[t].pc \in {"run", "core", "destroy", "park_core", "park_remove"}

\* "Commands on the same fork serialize" (controller/README.md:88): the backend
\* never works on one fork for two callers, although the lock belongs to a
\* state object and a name that was discarded may be forked again; and a call
\* that has got its lock finds the branch it was made for, which nobody has
\* discarded or parked between the look at the registries and the lock.
OneOperationPerBranch ==
    \A t \in Thread : Working(t) =>
        /\ Ended \/ at[t].br \in DOMAIN backend
        /\ at[t].br \in DOMAIN branches
        /\ \A u \in Thread \ {t} : Working(u) => at[u].br # at[t].br

\* Whenever no restore or park is going on, the inherited operations have a
\* branch to act on, in service and alive until cleanup.
CurrentUsable ==
    C = NoThread =>
        /\ Ended \/ current \in DOMAIN backend
        /\ current \in DOMAIN branches
        /\ st[branches[current]].active

\* Whenever nobody changes the registries, they agree with each other and, until
\* cleanup, with the backend: what they name is alive, and a fork that they do
\* not name is one whose making was not answered and that no listing has shown
\* since (waypoint_env_manager.py, lines 399 to 402).
RegistriesAgree ==
    R = NoThread =>
        /\ DOMAIN branches = live
        /\ Ended \/ live = DOMAIN backend \ unlisted

\* "Omit failed requests and clean up their partial backend resources" (the
\* comment of _core_fork, controller/forkable_env_manager.py:241): a fork that
\* is not answered to the client is not left in the session either.  False:
\* Waypoint's hook leaves one out whose answer it cannot parse, and lets it run.
FailedForksAreGone == R = NoThread /\ ~Ended => DOMAIN backend \subseteq live

\* A branch of a Waypoint session at rest is positioned on the checkpoint it is
\* based on, however listings, snapshots and restores overlap: an answer of the
\* backend is never applied after the position has moved on.
PositionsTrue ==
    kind = "waypoint" =>
        \A b \in DOMAIN branches :
            (R = NoThread /\ O[branches[b]] = NoThread /\ b \in DOMAIN backend)
                => st[branches[b]].pos = backend[b]

\* "A child of f's previous base in the tree" (controller/README.md:78): the
\* recorded parent of a snapshot is the checkpoint its branch was based on.
ParentIsBase ==
    \A s \in DOMAIN graph : graph[s].parent = origin[s]

\* That holds of one manager on a Waypoint session.
LineageTrue == kind = "waypoint" => ParentIsBase

\* A restore that is about to return True has made current a branch that
\* stands on the target, and nobody else has advanced it.
RestoreLands ==
    \A t \in Thread :
        At(t, "position") /\ ~Ended =>
            /\ current \in DOMAIN backend
            /\ backend[current] = at[t].base

\* The branches that a restore has made and not yet switched to.
Materializing ==
    UNION {at[t].ids : t \in {u \in Thread : at[u].op = "restore"
                                            /\ at[u].pc \in {"register", "switch"}}}

\* A branch that has been parked stops being current with the same call.
Parked(b) == \E t \in Thread : At(t, "park_record") /\ at[t].br = b

Pool == INSTANCE BranchPool WITH
    Checkpoint <- 1 .. MaxCalls + 1,
    pool <- [b \in DOMAIN backend \ Materializing |-> backend[b]],
    lineage <- [s \in snapshots |-> origin[s]],
    current <- IF Ended \/ Parked(current) THEN Main ELSE current

\* "Multiple live instances of one snapshot" (controller/README.md:69) used by
\* several clients: every call that changes the set of branches takes effect in
\* one step, whatever fails and however calls overlap, a cleanup included.  A
\* half-made restore is invisible, what is current is never taken away from it,
\* and a checkpoint descends from what its branch was based on.
ImplementsPool == Pool!Spec

\* print_snapshot_tree shows every snapshot: each is a root or a child of its
\* parent's node.
TreeComplete ==
    \A s \in DOMAIN graph :
        graph[s].parent # NoSnapshot =>
            /\ graph[s].parent \in DOMAIN graph
            /\ s \in graph[graph[s].parent].children

\* The operations that are inherited from EnvironmentManager always find the
\* state of the current branch.
CurrentRegistered == C = NoThread => current \in DOMAIN branches

\* Every call returns: no cycle of waiting for C, O and R, none for a lock that
\* somebody keeps.
CallsReturn == \A t \in Thread : ~At(t, "idle") ~> At(t, "idle")

\* Every checkpoint whose resource was registered gets its node in the graph,
\* whatever fails afterwards.
SnapshotsRecorded ==
    \A s \in 1 .. MaxCalls + 1 : s \in snapshots ~> s \in DOMAIN graph

=============================================================================
