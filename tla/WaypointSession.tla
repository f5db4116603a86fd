-------------------------- MODULE WaypointSession --------------------------
(***************************************************************************)
(* The life of one Waypoint session and of the managers that share it      *)
(* (controller/waypoint_env_manager.py): the owner builds the session and  *)
(* works on it from the interactive shell, the other managers attach.      *)
(*                                                                         *)
(* Managers are in processes of their own and meet in the session only, so *)
(* a step is one waypoint command together with what the manager makes of  *)
(* the answer before its next command.  Each manager has one client thread *)
(* here and works on main and on named forks; locks, restore and park are  *)
(* in ForkableManager.                                                     *)
(***************************************************************************)
EXTENDS Integers, Sequences

CONSTANTS
    Manager,        \* the managers of the session
    Owner,          \* the WaypointBuildManager, run by the shell
    Fork,           \* names of forks
    Main,           \* MAIN_FORK_ID
    Faults,         \* which commands may fail although the session is there
    MaxCheckpoints, \* bound: checkpoints of the session
    MaxCalls        \* bound: calls of the clients after construction

FaultKinds ==
    {"build", "probe", "list", "snapshot", "fork", "destroy", "cleanup",
     "unparsed_build", "unparsed_fork",   \* done, and the output is not read
     "broken"}                            \* a cleanup raises, or meets Ctrl-C

ASSUME SessionAssumption ==
    /\ Owner \in Manager
    /\ Main \in Fork
    /\ Faults \subseteq FaultKinds
    /\ MaxCheckpoints \in Nat
    /\ MaxCalls \in Nat

VARIABLES
    up,         \* the session exists
    forks,      \* Waypoint: live fork -> the checkpoint it is based on
    parent,     \* Waypoint: the parent of each checkpoint
    pc,         \* where each manager's client thread stands
    job,        \* its local variables: branch, parent, new checkpoint
    snapshots,  \* ids in the dictionary snapshots of each manager
    graph,      \* snapshot_graph: id -> parent and children
    live,       \* _live_branches: fork -> base_snapshot_id
    pos,        \* _branches: fork -> position
    life,       \* where the cleanup of each manager stands
    cleaned,    \* is_cleaned_up
    said,       \* what the last cleanup answered
    code,       \* exit code of the shell, or none yet
    calls,      \* calls made so far
    heard,      \* history: checkpoints of the last tree that was read
    missed,     \* history: forks changed behind the manager's back
    blind       \* history: checkpoints a manager sealed on a fork it had missed

sessionVars == <<up, forks, parent>>
recordVars == <<snapshots, graph, live, pos>>
lifeVars == <<life, cleaned, said, code>>
historyVars == <<heard, missed, blind>>
vars == <<up, forks, parent, pc, job, snapshots, graph, live, pos,
          life, cleaned, said, code, calls, heard, missed, blind>>

NoSnapshot == 0
NoJob == [br |-> Main, base |-> NoSnapshot, sid |-> NoSnapshot]
NoForks == [f \in {} |-> NoSnapshot]

Ids == 1 .. Len(parent)
NewId == Len(parent) + 1

Constructing == {"sync", "list", "seal", "relist"}
Working == {"ready", "refresh"}
Ending == {"raised", "dropped", "exiting", "interrupted", "crashed"}
Places == {"absent", "gone", "lost", "abandoned"} \cup Constructing \cup Working \cup Ending

At(m, place) == pc[m] = place
Goto(m, place) == pc' = [pc EXCEPT ![m] = place]

\* A command of waypoint fails when the session is gone, or for its own reasons.
MayFail(command) == ~up \/ command \in Faults

With(f, k, v) == [x \in DOMAIN f \cup {k} |-> IF x = k THEN v ELSE f[x]]
Without(f, keys) == [x \in DOMAIN f \ keys |-> f[x]]

\* Fork f has changed, and m, if anybody, knows.
Missed(m, f) == [n \in Manager |-> IF n = m THEN missed[n] ELSE missed[n] \cup {f}]

NoRecords ==
    /\ snapshots = [m \in Manager |-> {}]
    /\ graph = [m \in Manager |-> << >>]
    /\ live = [m \in Manager |-> NoForks]
    /\ pos = [m \in Manager |-> [f \in {Main} |-> NoSnapshot]]
    /\ job = [m \in Manager |-> NoJob]
    /\ heard = [m \in Manager |-> {}]
    /\ missed = [m \in Manager |-> Fork]
    /\ blind = [m \in Manager |-> {}]

\* Nobody uses the records of m any more: its constructor has raised, or its
\* program has let go of it.
Forget(m) ==
    /\ snapshots' = [snapshots EXCEPT ![m] = {}]
    /\ graph' = [graph EXCEPT ![m] = << >>]
    /\ live' = [live EXCEPT ![m] = NoForks]
    /\ pos' = [pos EXCEPT ![m] = [f \in {Main} |-> NoSnapshot]]
    /\ job' = [job EXCEPT ![m] = NoJob]
    /\ heard' = [heard EXCEPT ![m] = {}]
    /\ missed' = [missed EXCEPT ![m] = Fork]
    /\ blind' = [blind EXCEPT ![m] = {}]

-----------------------------------------------------------------------------
Init ==
    /\ up = FALSE
    /\ forks = NoForks
    /\ parent = << >>
    /\ pc = [m \in Manager |-> "absent"]
    /\ NoRecords
    /\ life = [m \in Manager |-> "rest"]
    /\ cleaned = [m \in Manager |-> FALSE]
    /\ said = [m \in Manager |-> "nothing"]
    /\ code = "none"
    /\ calls = 0

-----------------------------------------------------------------------------
(* Building a session, and attaching to one.                               *)

\* waypoint build or init --shell.  When the output cannot be read, or Ctrl-C comes
\* first, the base constructor has not run, so is_cleaned_up does not exist and the
\* destructor does nothing: the session stays.
Build ==
    /\ At(Owner, "absent")
    /\ up' = TRUE
    /\ forks' = [f \in {Main} |-> NoSnapshot]
    /\ \/ Goto(Owner, "sync") /\ UNCHANGED code
       \/ /\ "unparsed_build" \in Faults
          /\ Goto(Owner, "lost")
          /\ code' \in {"2", "130"}
    /\ UNCHANGED <<parent, job, recordVars, life, cleaned, said, calls, historyVars>>

\* The program cannot fork, the decider is refused or the build fails: nothing
\* has been created.
BuildFails ==
    /\ At(Owner, "absent")
    /\ {"build", "probe"} \cap Faults # {}
    /\ Goto(Owner, "gone")
    /\ code' = "2"
    /\ UNCHANGED <<sessionVars, job, recordVars, life, cleaned, said, calls, historyVars>>

Attach(m) ==
    /\ m # Owner
    /\ At(m, "absent")
    /\ up
    /\ Goto(m, "sync")
    /\ UNCHANGED <<sessionVars, job, recordVars, lifeVars, calls, historyVars>>

ProbeFails(m) ==
    /\ m # Owner
    /\ At(m, "absent")
    /\ up
    /\ "probe" \in Faults
    /\ Goto(m, "raised")
    /\ cleaned' = [cleaned EXCEPT ![m] = TRUE]
    /\ UNCHANGED <<sessionVars, job, recordVars, life, said, code, calls, historyVars>>

-----------------------------------------------------------------------------
(* The two readings of waypoint list --json.                               *)

\* Mutant: a node is linked to its parent only when it is new and the parent is
\* known already.
HydrateOnce(g) ==
    LET p(s) == IF s \in DOMAIN g THEN g[s].parent ELSE parent[s]
    IN  [s \in DOMAIN g \cup Ids |->
            IF s \in DOMAIN g
            THEN [g[s] EXCEPT !.children = @ \cup {x \in Ids \ DOMAIN g : p(x) = s}]
            ELSE [parent |-> p(s), children |-> {}]]

\* sync_snapshot_tree on g: nodes for the unknown checkpoints, then links for all
\* that were listed.  Known nodes keep the parent they have.
Hydrate(g) ==
    LET p(s) == IF s \in DOMAIN g THEN g[s].parent ELSE parent[s]
        c(s) == IF s \in DOMAIN g THEN g[s].children ELSE {}
    IN  [s \in DOMAIN g \cup Ids |->
            [parent |-> p(s), children |-> c(s) \cup {x \in Ids : p(x) = s}]]

\* Mutant: the checkpoints that are listed are not registered.
SyncTreeUnregistered(m) ==
    \/ /\ up
       /\ graph' = [graph EXCEPT ![m] = Hydrate(@)]
       /\ heard' = [heard EXCEPT ![m] = Ids]
       /\ UNCHANGED snapshots
    \/ /\ MayFail("list")
       /\ UNCHANGED <<graph, snapshots, heard>>

SyncTree(m) ==
    \/ /\ up
       /\ graph' = [graph EXCEPT ![m] = Hydrate(@)]
       /\ snapshots' = [snapshots EXCEPT ![m] = @ \cup Ids]
       /\ heard' = [heard EXCEPT ![m] = Ids]
    \/ /\ MayFail("list")
       /\ UNCHANGED <<graph, snapshots, heard>>

\* The base of a fork in an answer: the one that is reported, or the known one.
Base(m, f) == IF forks[f] # NoSnapshot THEN forks[f]
              ELSE IF f \in DOMAIN live[m] THEN live[m][f] ELSE NoSnapshot

\* _list_branches with the answer of _core_list_branches: the records, and the
\* positions of the branches.
Listed(m) == [f \in DOMAIN forks |-> Base(m, f)]

\* Mutant: the positions of known branches are kept.
RepositionedNever(m) ==
    LET stale == DOMAIN live[m] \ (DOMAIN forks \cup {Main})
    IN  [f \in (DOMAIN pos[m] \ stale) \cup DOMAIN forks |->
            IF f \in DOMAIN pos[m] THEN pos[m][f] ELSE Base(m, f)]

Repositioned(m) ==
    LET stale == DOMAIN live[m] \ (DOMAIN forks \cup {Main})
    IN  [f \in (DOMAIN pos[m] \ stale) \cup DOMAIN forks |->
            IF f \in DOMAIN forks /\ (Base(m, f) # NoSnapshot \/ f \notin DOMAIN pos[m])
            THEN Base(m, f) ELSE pos[m][f]]

-----------------------------------------------------------------------------
(* The constructor of WaypointAttachManager.                               *)

AttachSync(m) ==
    /\ At(m, "sync")
    /\ SyncTree(m)
    /\ Goto(m, "list")
    /\ UNCHANGED <<sessionVars, job, live, pos, lifeVars, calls, missed, blind>>

\* Mutant: the constructor lists until it gets an answer.
AttachListRetries(m) ==
    /\ At(m, "list")
    /\ up
    /\ live' = [live EXCEPT ![m] = Listed(m)]
    /\ pos' = [pos EXCEPT ![m] = Repositioned(m)]
    /\ job' = [job EXCEPT ![m].base = IF Main \in DOMAIN forks
                                      THEN Base(m, Main) ELSE NoSnapshot]
    /\ missed' = [missed EXCEPT ![m] = {}]
    /\ Goto(m, "seal")
    /\ UNCHANGED <<sessionVars, snapshots, graph, lifeVars, calls, heard, blind>>

\* list_branches, then the parent of the initial snapshot.
AttachList(m) ==
    /\ At(m, "list")
    /\ \/ /\ up
          /\ live' = [live EXCEPT ![m] = Listed(m)]
          /\ pos' = [pos EXCEPT ![m] = Repositioned(m)]
          /\ job' = [job EXCEPT ![m].base = IF Main \in DOMAIN forks
                                            THEN Base(m, Main) ELSE NoSnapshot]
          /\ missed' = [missed EXCEPT ![m] = {}]
       \/ /\ MayFail("list")
          /\ UNCHANGED <<live, pos, job, missed>>
    /\ Goto(m, "seal")
    /\ UNCHANGED <<sessionVars, snapshots, graph, lifeVars, calls, heard, blind>>

\* waypoint snapshot: a new checkpoint below the base of f, which it becomes.
Checkpoint(m, f) ==
    /\ up
    /\ f \in DOMAIN forks
    /\ NewId <= MaxCheckpoints
    /\ forks' = [forks EXCEPT ![f] = NewId]
    /\ parent' = Append(parent, forks[f])
    /\ snapshots' = [snapshots EXCEPT ![m] = @ \cup {NewId}]
    /\ missed' = Missed(m, f)
    /\ blind' = [blind EXCEPT ![m] = IF f \in missed[m] THEN @ \cup {NewId} ELSE @]
    /\ UNCHANGED up

CannotCheckpoint(f) == MayFail("snapshot") \/ f \notin DOMAIN forks

AttachSeal(m) ==
    /\ At(m, "seal")
    /\ Checkpoint(m, Main)
    /\ job' = [job EXCEPT ![m].sid = NewId]
    /\ Goto(m, "relist")
    /\ UNCHANGED <<graph, live, pos, lifeVars, calls, heard>>

\* The constructor raises when its snapshot fails.
AttachFails(m) ==
    /\ At(m, "seal")
    /\ CannotCheckpoint(Main)
    /\ Goto(m, "raised")
    /\ code' = IF m = Owner THEN "2" ELSE code
    /\ Forget(m)
    /\ UNCHANGED <<sessionVars, life, cleaned, said, calls>>

\* g with a node for s below p.
RecordNode(g, s, p) ==
    [x \in DOMAIN g \cup {s} |->
        IF x = s THEN [parent |-> p, children |-> {}]
        ELSE IF x = p THEN [g[x] EXCEPT !.children = @ \cup {s}]
        ELSE g[x]]

\* What the listing in the snapshot hook of checkpoint s of fork f may leave: the live
\* records, the positions and the missed forks. The branch is then put at s, so a fork
\* that has moved on is missed again.
Refreshed(m, f, s) ==
    LET moved(p) == IF f \in DOMAIN p THEN With(p, f, s) ELSE p
        answered == [live |-> Listed(m), pos |-> moved(Repositioned(m)),
                     missed |-> IF f \in DOMAIN forks /\ forks[f] # s THEN {f} ELSE {}]
        unanswered == [live |-> live[m], pos |-> moved(pos[m]), missed |-> missed[m]]
    IN  (IF up THEN {answered} ELSE {}) \cup (IF MayFail("list") THEN {unanswered} ELSE {})

\* The snapshot hook ends: the records of r, and l for the live ones.
Refresh(m, r, l) ==
    /\ live' = [live EXCEPT ![m] = l]
    /\ pos' = [pos EXCEPT ![m] = r.pos]
    /\ missed' = [missed EXCEPT ![m] = r.missed]

\* Node and position of the initial snapshot; main gets a minimal record if it
\* is not listed.
AttachRecord(m) ==
    LET s == job[m].sid
        Minimal(l) == IF Main \in DOMAIN l THEN l ELSE With(l, Main, s)
    IN  /\ At(m, "relist")
        /\ \E r \in Refreshed(m, Main, s) : Refresh(m, r, Minimal(r.live))
        /\ graph' = [graph EXCEPT ![m] =
                        IF s \in DOMAIN @ THEN @ ELSE RecordNode(@, s, job[m].base)]
        /\ Goto(m, "ready")
        /\ job' = [job EXCEPT ![m] = NoJob]
        /\ UNCHANGED <<sessionVars, snapshots, lifeVars, calls, heard, blind>>

-----------------------------------------------------------------------------
(* The operations of a client, on main or on a fork the manager knows.     *)

Call(m) == At(m, "ready") /\ calls < MaxCalls /\ calls' = calls + 1

Known(m) == DOMAIN live[m] \cap DOMAIN pos[m]

\* snapshot and snapshot_branch, up to the backend's answer.
Snapshot(m, f) ==
    /\ Call(m)
    /\ f = Main \/ f \in Known(m)
    /\ \/ /\ Checkpoint(m, f)
          /\ job' = [job EXCEPT ![m] = [br |-> f, base |-> pos[m][f], sid |-> NewId]]
          /\ Goto(m, "refresh")
       \/ /\ CannotCheckpoint(f)
          /\ UNCHANGED <<sessionVars, job, pc, snapshots, missed, blind>>
    /\ UNCHANGED <<graph, live, pos, lifeVars, heard>>

\* Mutant: the parent is the position after the refresh.
SnapshotRecordLate(m) ==
    LET s == job[m].sid
        f == job[m].br
        Based(l) == IF f \in DOMAIN l THEN With(l, f, s) ELSE l
    IN  /\ At(m, "refresh")
        /\ \E r \in Refreshed(m, f, s) : Refresh(m, r, Based(r.live))
        /\ graph' = [graph EXCEPT ![m] =
                        RecordNode(@, s, IF f \in DOMAIN forks THEN forks[f] ELSE job[m].base)]
        /\ cleaned' = [cleaned EXCEPT ![m] = FALSE]
        /\ Goto(m, "ready")
        /\ job' = [job EXCEPT ![m] = NoJob]
        /\ UNCHANGED <<sessionVars, snapshots, life, said, code, calls, heard, blind>>

\* The refresh, the node, the position, and is_cleaned_up, which a snapshot resets.
SnapshotRecord(m) ==
    LET s == job[m].sid
        f == job[m].br
        Based(l) == IF f \in DOMAIN l THEN With(l, f, s) ELSE l
    IN  /\ At(m, "refresh")
        /\ \E r \in Refreshed(m, f, s) : Refresh(m, r, Based(r.live))
        /\ graph' = [graph EXCEPT ![m] = RecordNode(@, s, job[m].base)]
        /\ cleaned' = [cleaned EXCEPT ![m] = FALSE]
        /\ Goto(m, "ready")
        /\ job' = [job EXCEPT ![m] = NoJob]
        /\ UNCHANGED <<sessionVars, snapshots, life, said, code, calls, heard, blind>>

Sync(m) ==
    /\ Call(m)
    /\ SyncTree(m)
    /\ UNCHANGED <<sessionVars, pc, job, live, pos, lifeVars, missed, blind>>

List(m) ==
    /\ Call(m)
    /\ \/ /\ up
          /\ live' = [live EXCEPT ![m] = Listed(m)]
          /\ pos' = [pos EXCEPT ![m] = Repositioned(m)]
          /\ missed' = [missed EXCEPT ![m] = {}]
       \/ /\ MayFail("list")
          /\ UNCHANGED <<live, pos, missed>>
    /\ UNCHANGED <<sessionVars, pc, job, snapshots, graph, lifeVars, heard, blind>>

\* fork of a known checkpoint under a name that the manager takes for free.  The
\* fork is registered if its output line can be parsed; a state that is still
\* registered under the name is kept.
ForkFrom(m, s, f) ==
    /\ Call(m)
    /\ s \in snapshots[m]
    /\ f \notin DOMAIN live[m] \cup {Main}
    /\ \/ /\ up
          /\ f \notin DOMAIN forks
          /\ forks' = With(forks, f, s)
          /\ \/ /\ live' = [live EXCEPT ![m] = With(@, f, s)]
                /\ pos' = [pos EXCEPT ![m] = IF f \in DOMAIN @ THEN @ ELSE With(@, f, s)]
                /\ missed' = Missed(m, f)
             \/ /\ "unparsed_fork" \in Faults
                /\ missed' = [n \in Manager |-> missed[n] \cup {f}]
                /\ UNCHANGED <<live, pos>>
       \/ /\ MayFail("fork") \/ f \in DOMAIN forks
          /\ UNCHANGED <<forks, live, pos, missed>>
    /\ UNCHANGED <<up, parent, pc, job, snapshots, graph, lifeVars, heard, blind>>

\* discard_branch: the records go when waypoint has destroyed the fork.
Discard(m, f) ==
    /\ Call(m)
    /\ f \in Known(m) \ {Main}
    /\ \/ /\ up
          /\ f \in DOMAIN forks
          /\ forks' = Without(forks, {f})
          /\ live' = [live EXCEPT ![m] = Without(@, {f})]
          /\ pos' = [pos EXCEPT ![m] = Without(@, {f})]
          /\ missed' = Missed(m, f)
       \/ /\ MayFail("destroy") \/ f \notin DOMAIN forks
          /\ UNCHANGED <<forks, live, pos, missed>>
    /\ UNCHANGED <<up, parent, pc, job, snapshots, graph, lifeVars, heard, blind>>

-----------------------------------------------------------------------------
(* The end of a manager: cleanup, the destructor, the shell's main.        *)

\* waypoint cleanup succeeds for m: the session is gone for everyone.
TearDown(m) ==
    /\ up
    /\ up' = FALSE
    /\ forks' = NoForks
    /\ missed' = [n \in Manager |-> Fork]
    /\ life' = [life EXCEPT ![m] = "rest"]
    /\ cleaned' = [cleaned EXCEPT ![m] = TRUE]
    /\ said' = [said EXCEPT ![m] = "yes"]
    /\ UNCHANGED <<parent, pc, job, recordVars, code, calls, heard, blind>>

CleanUp(m) == life[m] = "cleaning" /\ TearDown(m)

\* The first attempt has failed.
CleanUpFails(m) ==
    /\ life[m] = "cleaning"
    /\ MayFail("cleanup")
    /\ life' = [life EXCEPT ![m] = "forcing"]
    /\ UNCHANGED <<sessionVars, pc, job, recordVars, cleaned, said, code, calls, historyVars>>

ForceCleanUp(m) == life[m] = "forcing" /\ TearDown(m)

\* Mutant: the answer of the forced cleanup is not looked at.
ForceFailsUnseen(m) ==
    /\ life[m] = "forcing"
    /\ MayFail("cleanup")
    /\ life' = [life EXCEPT ![m] = "rest"]
    /\ cleaned' = [cleaned EXCEPT ![m] = TRUE]
    /\ said' = [said EXCEPT ![m] = "yes"]
    /\ UNCHANGED <<sessionVars, pc, job, recordVars, code, calls, historyVars>>

\* cleanup returns False, and the manager counts as cleaned up all the same.
ForceFails(m) ==
    /\ life[m] = "forcing"
    /\ MayFail("cleanup")
    /\ life' = [life EXCEPT ![m] = "rest"]
    /\ cleaned' = [cleaned EXCEPT ![m] = TRUE]
    /\ said' = [said EXCEPT ![m] = "no"]
    /\ UNCHANGED <<sessionVars, pc, job, recordVars, code, calls, historyVars>>

\* The program of an attached manager is done with it.
Drop(m) ==
    /\ m # Owner
    /\ At(m, "ready")
    /\ life[m] = "rest"
    /\ Goto(m, "dropped")
    /\ Forget(m)
    /\ UNCHANGED <<sessionVars, lifeVars, calls>>

\* Mutant: the destructor leaves a manager that has not been constructed alone.
FinalizeConstructedOnly(m) ==
    /\ pc[m] \in Ending
    /\ life[m] = "rest"
    /\ IF cleaned[m] \/ At(m, "raised")
       THEN /\ Goto(m, "gone")
            /\ code' = IF At(m, "exiting") THEN "0" ELSE code
            /\ UNCHANGED life
       ELSE /\ life' = [life EXCEPT ![m] = "cleaning"]
            /\ UNCHANGED <<pc, code>>
    /\ UNCHANGED <<sessionVars, job, recordVars, cleaned, said, calls, historyVars>>

\* The destructor, at the latest when the process ends: it cleans up unless that
\* has been done.
Finalize(m) ==
    /\ pc[m] \in Ending
    /\ life[m] = "rest"
    /\ IF cleaned[m]
       THEN /\ Goto(m, "gone")
            /\ code' = IF At(m, "exiting") THEN "0" ELSE code
            /\ UNCHANGED life
       ELSE /\ life' = [life EXCEPT ![m] = "cleaning"]
            /\ UNCHANGED <<pc, code>>
    /\ UNCHANGED <<sessionVars, job, recordVars, cleaned, said, calls, historyVars>>

\* The shell reads exit or the end of its input.
Exit ==
    /\ At(Owner, "ready")
    /\ life[Owner] = "rest"
    /\ Goto(Owner, "exiting")
    /\ life' = [life EXCEPT ![Owner] = "cleaning"]
    /\ Forget(Owner)
    /\ UNCHANGED <<sessionVars, cleaned, said, code, calls>>

\* Ctrl-C in an operation or at the prompt: clean up, then exit 1.
Interrupt ==
    /\ pc[Owner] \in Working
    /\ Goto(Owner, "interrupted")
    /\ life' = [life EXCEPT ![Owner] = "cleaning"]
    /\ code' = "1"
    /\ Forget(Owner)
    /\ UNCHANGED <<sessionVars, cleaned, said, calls>>

\* Ctrl-C while the manager is constructed: no handler, the destructor is left.
InterruptStart ==
    /\ pc[Owner] \in Constructing
    /\ Goto(Owner, "raised")
    /\ code' = "130"
    /\ Forget(Owner)
    /\ UNCHANGED <<sessionVars, life, cleaned, said, calls>>

\* waypoint has removed the session, or has not got that far.
MaybeRemoved ==
    \/ UNCHANGED <<sessionVars, missed>>
    \/ /\ up
       /\ up' = FALSE
       /\ forks' = NoForks
       /\ missed' = [n \in Manager |-> Fork]
       /\ UNCHANGED parent

\* A cleanup ends in Ctrl-C or in an exception that _core_cleanup does not expect:
\* is_cleaned_up is not set, and nothing is answered.
CleanUpBreaks(m) ==
    /\ life[m] # "rest"
    /\ "broken" \in Faults
    /\ MaybeRemoved
    /\ \/ /\ At(m, "exiting")       \* Ctrl-C: the handler of main cleans up
          /\ Goto(m, "interrupted")
          /\ life' = [life EXCEPT ![m] = "cleaning"]
          /\ code' = "1"
       \/ /\ pc[m] \in {"exiting", "interrupted"}   \* the destructor is left
          /\ Goto(m, "crashed")
          /\ life' = [life EXCEPT ![m] = "rest"]
          /\ code' \in {"1", "130"}
       \/ /\ pc[m] \in {"raised", "dropped", "crashed"}   \* ignored in a destructor
          /\ Goto(m, "abandoned")
          /\ life' = [life EXCEPT ![m] = "rest"]
          /\ UNCHANGED code
    /\ UNCHANGED <<job, recordVars, cleaned, said, calls, heard, blind>>

\* An exception that the shell does not expect: exit 1 without a cleanup.
Crash ==
    /\ pc[Owner] \in Working
    /\ Goto(Owner, "crashed")
    /\ code' = "1"
    /\ Forget(Owner)
    /\ UNCHANGED <<sessionVars, life, cleaned, said, calls>>

-----------------------------------------------------------------------------
Begin(m) ==
    \/ Attach(m) \/ ProbeFails(m)
    \/ Sync(m) \/ List(m)
    \/ \E f \in Fork : Snapshot(m, f) \/ Discard(m, f)
    \/ \E s \in Ids, f \in Fork : ForkFrom(m, s, f)
    \/ Drop(m)

Continue(m) ==
    \/ AttachSync(m) \/ AttachList(m) \/ AttachSeal(m) \/ AttachFails(m)
    \/ AttachRecord(m)
    \/ SnapshotRecord(m)
    \/ CleanUp(m) \/ CleanUpFails(m) \/ ForceCleanUp(m) \/ ForceFails(m)
    \/ CleanUpBreaks(m) \/ Finalize(m)

Shell == Build \/ BuildFails \/ Exit \/ Interrupt \/ InterruptStart \/ Crash

Next == (\E m \in Manager : Begin(m) \/ Continue(m)) \/ Shell

Spec == Init /\ [][Next]_vars

\* A constructor, a call or a cleanup that has begun goes on, and a process that
\* ends runs its destructors.  What the clients call is not fair.
FairSpec == Spec /\ \A m \in Manager : WF_vars(Continue(m))

-----------------------------------------------------------------------------
(* Properties.                                                             *)

IsMap(f, K, D) == DOMAIN f \subseteq K /\ f \in [DOMAIN f -> D]

\* The one type invariant of the module.
TypeOK ==
    /\ up \in BOOLEAN
    /\ IsMap(forks, Fork, 0 .. MaxCheckpoints)
    /\ parent \in Seq(0 .. MaxCheckpoints) /\ Len(parent) <= MaxCheckpoints
    /\ pc \in [Manager -> Places]
    /\ job \in [Manager -> [br : Fork, base : Nat, sid : Nat]]
    /\ code \in {"none", "0", "1", "2", "130"}
    /\ calls \in 0 .. MaxCalls
    /\ \A m \in Manager :
          /\ snapshots[m] \subseteq Ids /\ heard[m] \subseteq Ids /\ blind[m] \subseteq Ids
          /\ IsMap(graph[m], snapshots[m], [parent : Nat, children : SUBSET Ids])
          /\ IsMap(live[m], Fork, Nat) /\ IsMap(pos[m], Fork, Nat)
          /\ missed[m] \subseteq Fork
          /\ life[m] \in {"rest", "cleaning", "forcing"}
          /\ cleaned[m] \in BOOLEAN
          /\ said[m] \in {"nothing", "yes", "no"}

\* "Inherits its full history (parent links included)" (controller/README.md:98):
\* every checkpoint that the last reading of the tree reported can be forked, has
\* a node, and hangs below its parent's, in whatever order the session's managers
\* have sealed, recorded and read.
HistoryInherited ==
    \A m \in Manager : \A s \in heard[m] :
        /\ s \in snapshots[m]
        /\ s \in DOMAIN graph[m]
        /\ LET p == graph[m][s].parent
           IN  p # NoSnapshot => p \in DOMAIN graph[m] /\ s \in graph[m][p].children

\* A recorded parent is the true one, but for a checkpoint that the manager made
\* on a fork which somebody else had changed since it last listed the forks.
LineageTrue ==
    \A m \in Manager : \A s \in DOMAIN graph[m] \ blind[m] :
        graph[m][s].parent = parent[s]

\* What a manager at rest believes of a fork is right, unless somebody else has
\* changed the fork since the last listing, or its output could not be read.
RegistryCurrent ==
    \A m \in Manager : At(m, "ready") =>
        \A f \in Fork \ missed[m] :
            /\ f \in DOMAIN live[m] <=> f \in DOMAIN forks
            /\ f \in DOMAIN forks => f \in DOMAIN pos[m] /\ pos[m][f] = forks[f]

\* cleanup answers True only when the session is gone.
CleanupTruthful == \A m \in Manager : said[m] = "yes" => ~up

\* A session whose id the owner has learnt goes when the owner ends: by exit, by a
\* constructor that raises, by an exception or Ctrl-C, in the cleanups of the shell
\* too; unless a cleanup has said that it stays, or the destructor, which is the last
\* resort, has itself been broken off.  NothingLeftBehind is about the other sessions;
\* a process that is killed outright runs no destructor and is not modelled.
SessionReleased ==
    pc[Owner] \in Ending ~> (~up \/ said[Owner] = "no" \/ At(Owner, "abandoned"))

\* "Probe before creating anything so an incompatible binary cannot leave a half-built
\* session behind" (waypoint_env_manager.py:642-643): a start that fails, with exit
\* code 2, leaves no session, unless a cleanup has said so.
NothingLeftBehind ==
    code = "2" /\ pc[Owner] \in {"gone", "lost"} => ~up \/ said[Owner] = "no"

\* A constructor returns or raises, whatever the others do to the session.
AttachEnds == \A m \in Manager : At(m, "sync") ~> pc[m] \notin Constructing

\* "Only the owner of a session should call" cleanup (controller/README.md:101): a
\* session is there until its owner has begun to end it.
SessionOutlivesAttachers ==
    pc[Owner] \in Working /\ life[Owner] = "rest" => up

=============================================================================
