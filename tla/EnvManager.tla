---------------------------- MODULE EnvManager ----------------------------
(***************************************************************************)
(* The sequential manager of controller/base_env_manager.py with its       *)
(* decider: the snapshot tree, the physical images, the bookkeeping of the *)
(* default branch, and the restore template that walks to the nearest      *)
(* physical ancestor and replays the commands recorded on the way.         *)
(*                                                                         *)
(* _current_branch_lock makes snapshot, exec_command and restore atomic    *)
(* towards each other, so there is one actor.  An environment's content is *)
(* the sequence of commands that had an effect on it, and a command's      *)
(* effect depends on that content alone.  Snapshot ids are fresh; snapshot *)
(* s is the s-th entry of the dictionary, which keeps insertion order.     *)
(***************************************************************************)
EXTENDS Integers, Sequences

CONSTANTS
    Command,        \* the commands a client executes
    Duration,       \* Duration[c]: the time an execution of c takes
    Policy,         \* the decider attached to the manager
    Threshold,      \* ThresholdDecider.threshold
    Faults,         \* which failures of the backend may happen
    MaxSnapshots,   \* bound: entries of the snapshot graph
    MaxLog,         \* bound: commands executed between two snapshots
    MaxEnv          \* bound: commands in an environment that a restore leaves

Policies == {"always_true", "always_false", "random", "threshold"}

FaultKinds ==
    {"exec_lost",       \* an execution raises and had no effect
     "exec_timeout",    \* an execution raises although it took effect
     "exec_late",       \* an execution ends while the command still runs
     "snapshot_stalls", \* a snapshot fails and leaves the machine paused
     "restore_fails",   \* a restore fails, before or after the teardown
     "restore_unseen",  \* a restore fails and the backend says it did not
     "restore_ignored", \* the same, and the old environment still runs
     "replay_fails"}    \* a replayed command fails without effect

ASSUME EnvAssumption ==
    /\ Duration \in [Command -> Nat]
    /\ Policy \in Policies
    /\ Threshold \in Nat
    /\ Faults \subseteq FaultKinds
    /\ MaxSnapshots \in Nat
    /\ MaxLog \in Nat
    /\ MaxEnv \in Nat

VARIABLES
    graph,      \* snapshot_graph, in insertion order
    snapshots,  \* physical snapshot id -> the content its resource stores
    position,   \* current_snapshot_id and last_snapshot_id of the branch
    log,        \* its command_log
    cum,        \* its cumulative_exec_time
    env,        \* content of the live environment, nothing when there is none
    life,       \* "running", "paused" (has its content, runs nothing) or "gone"
    running,    \* commands whose execution has ended but which still run in it
    frozen,     \* <<s, c>>: command c was running when resource s was stored
    pc,         \* where a running restore stands: "idle", "walk" or "replay"
    target,     \* its argument
    anc,        \* its physical_ancestor
    pending,    \* its replay_commands not yet executed
    visited,    \* its visited set
    sealed,     \* history: the content at the time snapshot s was taken
    astray,     \* history: a late command or an ignored restore has brought
                \* about what env holds
    strays      \* history: the virtual snapshots taken of such an env

branchVars == <<position, log, cum>>
treeVars == <<graph, snapshots, frozen, sealed, strays>>
envVars == <<env, life, running, astray>>
restoreVars == <<pc, target, anc, pending, visited>>
vars == <<graph, snapshots, position, log, cum, env, life, running, frozen,
          pc, target, anc, pending, visited, sealed, astray, strays>>

Content == Seq(Command)
NoParent == 0

Node == [parent : Nat, children : SUBSET Nat, virtual : BOOLEAN, replay : Content]

PhysicalNode(p) ==
    [parent |-> p, children |-> {}, virtual |-> FALSE, replay |-> << >>]
\* Mutant: the parent is not noted.
VirtualOrphan(p, cmds) ==
    [parent |-> NoParent, children |-> {}, virtual |-> TRUE, replay |-> cmds]
VirtualNode(p, cmds) ==
    [parent |-> p, children |-> {}, virtual |-> TRUE, replay |-> cmds]

Ids == DOMAIN graph
NextId == Len(graph) + 1

\* g once its node p lists s as a child.
Linked(g, p, s) ==
    [i \in DOMAIN g |->
        IF i = p THEN [g[i] EXCEPT !.children = @ \cup {s}] ELSE g[i]]

\* Mutants: the node is stored but not linked; it is linked but not stored.
RecordUnlinked(g, n) == Append(g, n)
RecordDropped(g, n) == Linked(g, n.parent, Len(g) + 1)

RecordNode(g, n) == Append(Linked(g, n.parent, Len(g) + 1), n)

Registered(s, content) ==
    [i \in DOMAIN snapshots \cup {s} |-> IF i = s THEN content ELSE snapshots[i]]

-----------------------------------------------------------------------------
(* An attach or build manager registers a physical snapshot of the         *)
(* environment it starts with and positions the branch on it.              *)
Init ==
    /\ graph = << PhysicalNode(NoParent) >>
    /\ snapshots = [s \in {1} |-> << >>]
    /\ position = 1
    /\ log = << >>
    /\ cum = 0
    /\ env = << >>
    /\ life = "running"
    /\ running = {} /\ frozen = {}
    /\ pc = "idle"
    /\ target = 1
    /\ anc = 1
    /\ pending = << >>
    /\ visited = {}
    /\ sealed = << << >> >>
    /\ astray = FALSE /\ strays = {}

-----------------------------------------------------------------------------
(* exec_command.  Every outcome puts the command into the log.             *)
MayExec == pc = "idle" /\ Len(log) < MaxLog

\* Mutant: the command is not logged.
ExecUnlogged(c) ==
    /\ MayExec /\ life = "running"
    /\ env' = Append(env, c)
    /\ cum' = cum + Duration[c]
    /\ UNCHANGED <<treeVars, restoreVars, position, log, life, running, astray>>

\* The command runs and returns, with whatever return code.
Exec(c) ==
    /\ MayExec /\ life = "running"
    /\ env' = Append(env, c)
    /\ log' = Append(log, c)
    /\ cum' = cum + Duration[c]
    /\ UNCHANGED <<treeVars, restoreVars, position, life, running, astray>>

\* The command has no effect: the backend raises, or nothing is there to run it.
\* Only a return, not an exception, adds to the cumulative time.
ExecLost(c) ==
    /\ MayExec
    /\ life # "running" \/ "exec_lost" \in Faults
    /\ log' = Append(log, c)
    /\ cum' \in {cum, cum + Duration[c]}
    /\ UNCHANGED <<treeVars, restoreVars, envVars, position>>

\* Mutant: an execution that raised is not logged.
ExecTimeoutUnlogged(c) ==
    /\ MayExec /\ life = "running"
    /\ "exec_timeout" \in Faults
    /\ env' = Append(env, c)
    /\ UNCHANGED <<treeVars, restoreVars, branchVars, life, running, astray>>

\* The backend gives up waiting and raises, but the command did run.
ExecTimeout(c) ==
    /\ MayExec /\ life = "running"
    /\ "exec_timeout" \in Faults
    /\ env' = Append(env, c)
    /\ log' = Append(log, c)
    /\ UNCHANGED <<treeVars, restoreVars, position, cum, life, running, astray>>

\* The time-out ends the client of the execution and not the command, a command
\* for the background is answered at once, a paused machine has it waiting:
\* the command goes on after the call.
ExecLate(c) ==
    /\ MayExec /\ life # "gone"
    /\ "exec_late" \in Faults
    /\ running = {}                     \* bound: one at a time
    /\ running' = {c}
    /\ log' = Append(log, c)
    /\ cum' \in {cum, cum + Duration[c]}
    /\ UNCHANGED <<treeVars, restoreVars, position, env, life, astray>>

\* It takes effect at any time while the environment runs.
Land(c) ==
    /\ c \in running /\ life = "running"
    /\ env' = Append(env, c)
    /\ running' = {}
    /\ astray' = TRUE
    /\ UNCHANGED <<treeVars, restoreVars, branchVars, life>>

-----------------------------------------------------------------------------
(* snapshot.                                                               *)

\* What the decider may answer to a cumulative time of c: TRUE is physical.
Decisions(c) ==
    CASE Policy = "always_true"  -> {TRUE}
      [] Policy = "always_false" -> {FALSE}
      [] Policy = "random"       -> BOOLEAN
      [] Policy = "threshold"    -> {c >= Threshold}

MaySnapshot == pc = "idle" /\ Len(graph) < MaxSnapshots

\* A machine that an earlier snapshot left paused is resumed with it.  Whether
\* the resource holds the running commands or only their files is the backend's.
SnapshotPhysical ==
    /\ MaySnapshot /\ life # "gone"
    /\ TRUE \in Decisions(cum)
    /\ graph' = RecordNode(graph, PhysicalNode(position))
    /\ snapshots' = Registered(NextId, env)
    /\ frozen' = frozen \cup ({NextId} \X running)
    /\ sealed' = Append(sealed, env)
    /\ position' = NextId
    /\ log' = << >>
    /\ cum' = 0
    /\ life' = "running"
    /\ astray' = FALSE
    /\ UNCHANGED <<restoreVars, env, running, strays>>

StrayIfAstray == IF astray THEN strays \cup {NextId} ELSE strays

\* Mutant: the log survives the snapshot.
SnapshotVirtualKeepsLog ==
    /\ MaySnapshot
    /\ FALSE \in Decisions(cum)
    /\ graph' = RecordNode(graph, VirtualNode(position, log))
    /\ sealed' = Append(sealed, env)
    /\ strays' = StrayIfAstray
    /\ position' = NextId
    /\ UNCHANGED <<restoreVars, envVars, snapshots, frozen, log, cum>>

SnapshotVirtual ==
    /\ MaySnapshot
    /\ FALSE \in Decisions(cum)
    /\ graph' = RecordNode(graph, VirtualNode(position, log))
    /\ sealed' = Append(sealed, env)
    /\ strays' = StrayIfAstray
    /\ position' = NextId
    /\ log' = << >>
    /\ UNCHANGED <<restoreVars, envVars, snapshots, frozen, cum>>

\* Firecracker pauses the machine first; when the snapshot or the resume is
\* refused, the call returns None and the machine stays paused.
SnapshotStalls ==
    /\ MaySnapshot /\ life # "gone"
    /\ "snapshot_stalls" \in Faults
    /\ TRUE \in Decisions(cum)
    /\ life' = "paused"
    /\ UNCHANGED <<treeVars, restoreVars, branchVars, env, running, astray>>

-----------------------------------------------------------------------------
(* restore.  An unknown id returns False at once and changes nothing.      *)
RestoreBegin(s) ==
    /\ pc = "idle"
    /\ pc' = "walk"
    /\ target' = s
    /\ anc' = s
    /\ pending' = << >>
    /\ visited' = {}
    /\ UNCHANGED <<treeVars, branchVars, envVars>>

\* The three errors of the walk: a cycle, a virtual root, a missing parent.
BrokenAncestry ==
    /\ graph[anc].virtual
    /\ \/ anc \in visited
       \/ graph[anc].parent = NoParent
       \/ graph[anc].parent \notin Ids

\* Mutant: the loop does not go to the parent.
WalkStays ==
    /\ pc = "walk"
    /\ graph[anc].virtual
    /\ UNCHANGED vars

\* One round of the loop: prepend the node's commands and go to its parent.
Walk ==
    /\ pc = "walk"
    /\ graph[anc].virtual
    /\ ~BrokenAncestry
    /\ visited' = visited \cup {anc}
    /\ pending' = graph[anc].replay \o pending
    /\ anc' = graph[anc].parent
    /\ UNCHANGED <<treeVars, branchVars, envVars, pc, target>>

RestoreRefused ==
    \/ BrokenAncestry
    \/ ~graph[anc].virtual /\ anc \notin DOMAIN snapshots
    \/ ~graph[anc].virtual /\ "restore_fails" \in Faults

\* The call returns, and its locals are forgotten.
RestoreEnds ==
    /\ pc' = "idle"
    /\ target' = 1 /\ anc' = 1
    /\ pending' = << >> /\ visited' = {}

\* The old environment is removed, with what still ran in it.
EnvGone ==
    /\ env' = << >>
    /\ life' = "gone"
    /\ running' = {}
    /\ astray' = FALSE

\* The restore returns False or raises; the old environment may be gone by
\* then, and the branch position stays what it was.
RestoreFails ==
    /\ pc = "walk"
    /\ RestoreRefused
    /\ RestoreEnds
    /\ \/ UNCHANGED envVars
       \/ ~BrokenAncestry /\ EnvGone
    /\ UNCHANGED <<treeVars, branchVars>>

MayRestore ==
    /\ pc = "walk"
    /\ ~graph[anc].virtual
    /\ anc \in DOMAIN snapshots

CoreRestore ==
    /\ MayRestore
    /\ env' = snapshots[anc]
    /\ life' = "running"
    /\ running' \in {{}, {c \in Command : <<anc, c>> \in frozen}}
    /\ astray' = FALSE
    /\ pc' = "replay"
    /\ UNCHANGED <<treeVars, branchVars, target, anc, pending, visited>>

\* CRIU starts its restore and does not wait for it, Firecracker takes most
\* answers for a success: nothing runs, and the restore goes on.
CoreRestoreUnseen ==
    /\ MayRestore
    /\ "restore_unseen" \in Faults
    /\ EnvGone
    /\ pc' = "replay"
    /\ UNCHANGED <<treeVars, branchVars, target, anc, pending, visited>>

\* gVisor does not look whether docker stop stopped the container; docker start
\* does nothing to one that runs and answers that all is well.
CoreRestoreIgnored ==
    /\ MayRestore
    /\ "restore_ignored" \in Faults
    /\ life = "running"
    /\ Len(env) + Len(pending) <= MaxEnv
    /\ astray' = TRUE
    /\ pc' = "replay"
    /\ UNCHANGED <<treeVars, branchVars, env, life, running, target, anc, pending, visited>>

\* Replay goes through exec_command: the branch's old log and time grow.
Replay ==
    /\ pc = "replay" /\ life = "running"
    /\ pending # << >>
    /\ env' = Append(env, Head(pending))
    /\ log' = Append(log, Head(pending))
    /\ cum' = cum + Duration[Head(pending)]
    /\ pending' = Tail(pending)
    /\ UNCHANGED <<treeVars, position, life, running, astray, pc, target, anc, visited>>

\* A command that fails during replay is reported in the log and skipped.
ReplayFails ==
    /\ pc = "replay"
    /\ pending # << >>
    /\ life # "running" \/ "replay_fails" \in Faults
    /\ log' = Append(log, Head(pending))
    /\ cum' \in {cum, cum + Duration[Head(pending)]}
    /\ pending' = Tail(pending)
    /\ UNCHANGED <<treeVars, envVars, position, pc, target, anc, visited>>

\* Mutants: the replayed commands stay in the log; the time is not reset.
FinishKeepsLog ==
    /\ pc = "replay"
    /\ pending = << >>
    /\ position' = target
    /\ cum' = 0
    /\ RestoreEnds
    /\ UNCHANGED <<treeVars, envVars, log>>
FinishKeepsTime ==
    /\ pc = "replay"
    /\ pending = << >>
    /\ position' = target
    /\ log' = << >>
    /\ RestoreEnds
    /\ UNCHANGED <<treeVars, envVars, cum>>

\* _set_branch_position, and the restore returns True.
RestoreFinish ==
    /\ pc = "replay"
    /\ pending = << >>
    /\ position' = target
    /\ log' = << >>
    /\ cum' = 0
    /\ RestoreEnds
    /\ UNCHANGED <<treeVars, envVars>>

-----------------------------------------------------------------------------
RestoreStep ==
    \/ Walk \/ RestoreFails
    \/ CoreRestore \/ CoreRestoreUnseen \/ CoreRestoreIgnored
    \/ Replay \/ ReplayFails \/ RestoreFinish

Next ==
    \/ \E c \in Command :
            Exec(c) \/ ExecLost(c) \/ ExecTimeout(c) \/ ExecLate(c) \/ Land(c)
    \/ SnapshotPhysical \/ SnapshotVirtual \/ SnapshotStalls
    \/ \E s \in Ids : RestoreBegin(s)
    \/ RestoreStep

Spec == Init /\ [][Next]_vars

\* A restore that was begun is a call in progress: its thread goes on.
FairSpec == Spec /\ WF_vars(RestoreStep)

-----------------------------------------------------------------------------
(* Properties.                                                             *)

\* The one type invariant of the module.
TypeOK ==
    /\ graph \in Seq(Node)
    /\ DOMAIN snapshots \subseteq Ids
    /\ snapshots \in [DOMAIN snapshots -> Content]
    /\ position \in Ids /\ target \in Ids /\ anc \in Ids
    /\ log \in Content /\ env \in Content /\ pending \in Content
    /\ cum \in Nat
    /\ life \in {"running", "paused", "gone"}
    /\ running \subseteq Command /\ frozen \subseteq Ids \X Command
    /\ pc \in {"idle", "walk", "replay"}
    /\ visited \subseteq Ids
    /\ sealed \in Seq(Content)
    /\ Len(sealed) = Len(graph)
    /\ astray \in BOOLEAN /\ strays \subseteq Ids

\* The walk of restore (331-351) always ends at a physical snapshot whose
\* resource is registered: none of its three error returns is ever taken,
\* however snapshots of both kinds and restores follow each other.
AncestryIntact ==
    /\ pc = "walk" => ~BrokenAncestry
    /\ \A s \in Ids : ~graph[s].virtual => s \in DOMAIN snapshots

\* print_snapshot_tree (608-647) follows children from the roots: each
\* snapshot has been recorded in the children of its parent, and nowhere else.
TreeLinked ==
    \A s, p \in Ids : (s \in graph[p].children) <=> (graph[s].parent = p)

\* "Commands needed to reach THIS snapshot from its parent" (30): replaying
\* the recorded commands on the parent's content gives the content that the
\* snapshot was taken of.
ReplayFaithful ==
    \A s \in Ids :
        graph[s].virtual =>
            /\ graph[s].parent \in Ids
            /\ sealed[s] = sealed[graph[s].parent] \o graph[s].replay

\* Between two calls, the environment is what its branch position says: the
\* content of that snapshot followed by the logged commands.  It is what makes
\* the next virtual snapshot correct, and what a restore that returned True
\* has promised.
EnvMatchesPosition ==
    (pc = "idle" /\ life # "gone") => env = sealed[position] \o log

\* The loop invariant of restore: what is still to be replayed leads from the
\* ancestor reached so far, or from the environment, to the target's content.
RestoreOnTrack ==
    /\ pc = "walk" => sealed[target] = sealed[anc] \o pending
    /\ pc = "replay" => sealed[target] = env \o pending

\* s is a subsequence of t: matched[j] counts what of s the first j elements of
\* t provide.
Embeds(s, t) ==
    LET matched[j \in 0 .. Len(t)] ==
            IF j = 0 THEN 0
            ELSE LET m == matched[j - 1]
                 IN  IF m < Len(s) /\ s[m + 1] = t[j] THEN m + 1 ELSE m
    IN  matched[Len(t)] = Len(s)

\* What a restore of s brings back when no replayed command fails.
Image(s) ==
    LET image[i \in 1 .. s] ==
            IF graph[i].virtual /\ graph[i].parent \in 1 .. i - 1
            THEN image[graph[i].parent] \o graph[i].replay
            ELSE IF i \in DOMAIN snapshots THEN snapshots[i] ELSE << >>
    IN  image[s]

\* Why the exception path of _exec_branch logs the command (463-466): a restore
\* may bring back more than the snapshot held, when an execution had failed,
\* but no effect that the snapshot held is missing, and none out of order.
\* What had failed before does not matter - executions, replayed commands,
\* restores that left nothing, a machine that was paused, took commands and was
\* resumed by the next snapshot - with one exception, the strays: a virtual
\* snapshot of an environment in which a command had landed after its call, or
\* which a restore that answered True had never replaced.  What such an
\* environment holds is neither in the log nor at the branch position, until
\* the next physical snapshot stores it or the next restore replaces it.
NoEffectLost == \A s \in Ids \ strays : Embeds(sealed[s], Image(s))

\* "Commands needed to reach THIS snapshot from its parent" (30), of any virtual
\* snapshot: to replay them is enough to have all that the snapshot held.
SnapshotsReachable == \A s \in Ids : Embeds(sealed[s], Image(s))

\* Every restore comes back to its caller.
RestoreTerminates == pc # "idle" ~> pc = "idle"

\* The manager implements the abstract store: a restore takes effect when the
\* ancestor is back, with the commands still to be replayed counted in.
Store == INSTANCE SnapshotStore WITH
    content <- IF pc = "replay" THEN env \o pending ELSE env,
    saved <- sealed
ImplementsStore == Store!Spec

-----------------------------------------------------------------------------
(* The cost of a restore, which ThresholdDecider is there to bound.        *)
CostOf(cmds) ==
    LET total[i \in 0 .. Len(cmds)] ==
            IF i = 0 THEN 0 ELSE total[i - 1] + Duration[cmds[i]]
    IN  total[Len(cmds)]

\* The time to replay snapshot s on its nearest physical ancestor.
ReplayCost(s) ==
    LET cost[i \in 1 .. s] ==
            IF graph[i].virtual
            THEN CostOf(graph[i].replay)
                 + (IF graph[i].parent \in 1 .. i - 1 THEN cost[graph[i].parent] ELSE 0)
            ELSE 0
    IN  cost[s]

\* The decider is never told of more time than a restore of the present state
\* would have to replay: it takes no physical snapshot before it is due.
TimeNeverOverstated ==
    pc = "idle" => cum <= ReplayCost(position) + CostOf(log)

\* ThresholdDecider takes a physical snapshot only when a restore of the state
\* it captures would otherwise replay for Threshold or longer.  (The code takes
\* one at the threshold, decider.py:55; controller/README.md:52 says "exceeds".)
PhysicalOnlyWhenDue ==
    [][ Len(graph') > Len(graph) /\ ~graph'[NextId].virtual
          => ReplayCost(position) + CostOf(log) >= Threshold ]_vars

\* "physical when cumulative exec time since the last physical snapshot
\* exceeds a threshold" (controller/README.md:52): so a virtual snapshot is
\* within the threshold of its physical ancestor.
ReplayCostBounded ==
    \A s \in Ids : graph[s].virtual => ReplayCost(s) <= Threshold
=============================================================================
