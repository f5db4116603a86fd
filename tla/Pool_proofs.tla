---------------------------- MODULE Pool_proofs ----------------------------
(***************************************************************************)
(* A forkable manager that has its session to itself implements the pool   *)
(* of branches of BranchPool, for any set of threads and of branches, any  *)
(* number of calls, both backends and every failure of theirs.             *)
(***************************************************************************)
EXTENDS OnlyManager_proofs, FiniteSets, FiniteSetTheorems

\* The threads that may still make a checkpoint with the call that they are in.
Sealers == {t \in Thread : at[t].pc \in {"seal", "core", "park", "park_check", "park_core"}}

\* A call makes one checkpoint at most.
CheckpointsCounted ==
    /\ IsFiniteSet(Sealers)
    /\ Len(origin) + Cardinality(Sealers) <= calls + 1

\* What is forked is a registered snapshot; and Docker's image of a container
\* that is about to be removed is not registered yet, and is of that container.
SourceOf(t) ==
    /\ at[t].op \in {"fork", "fork_auto"} => at[t].base \in snapshots
    /\ at[t].op = "restore" /\ at[t].pc # "departing" => at[t].base \in snapshots
    /\ at[t].pc = "park_remove" =>
        at[t].sid \notin snapshots /\ backend[at[t].br] = origin[at[t].sid]
    /\ at[t].pc = "cleanup" => kind = "waypoint"

PoolInv ==
    /\ AloneInv
    /\ kind = "docker" => ~Ended
    /\ CheckpointsCounted
    /\ \A t \in Thread : SourceOf(t)

\* What the pool shows of the manager.
PoolNow == [b \in DOMAIN backend \ Materializing |-> backend[b]]
LineageNow == [s \in snapshots |-> origin[s]]
CurrentNow == IF Ended \/ Parked(current) THEN Main ELSE current

\* A restore that has made a branch and not switched to it.
Halfway(t) == at[t].op = "restore" /\ at[t].pc \in {"register", "switch"}

-----------------------------------------------------------------------------
(* Steps that the pool does not show.                                      *)

\* Materializing, by its elements.
LEMMA MaterializingOf ==
    ASSUME NEW b
    PROVE  /\ b \in Materializing <=> \E u \in Thread : Halfway(u) /\ b \in at[u].ids
           /\ b \in Materializing' <=> \E u \in Thread : Halfway(u)' /\ b \in at'[u].ids
  BY DEF Materializing, Halfway

\* A step of a thread that neither makes a branch for a restore nor switches to it.
LEMMA MaterializingKept ==
    ASSUME NEW t \in Thread, ~Halfway(t), ~Halfway(t)', \A u \in Thread \ {t} : at'[u] = at[u]
    PROVE  Materializing' = Materializing
<1>1. \A u \in Thread : Halfway(u)' <=> Halfway(u)
  BY DEF Halfway
<1>2. \A b : b \in Materializing' <=> b \in Materializing
  BY <1>1, MaterializingOf
<1> QED
  BY <1>2

\* A step of t that moves neither a branch, a restore nor a park.
Quietly(t) ==
    /\ UNCHANGED <<kind, backend, snapshots, current>>
    /\ \A i \in Ids : origin'[i] = origin[i]
    /\ \A u \in Thread \ {t} : at'[u] = at[u]
    /\ ~Halfway(t) /\ ~Halfway(t)'
    /\ at[t].pc # "park_record" /\ at'[t].pc # "park_record"

\* Such a step changes nothing that the pool shows.
LEMMA QuietShown ==
    ASSUME AloneInv, NEW t \in Thread, Quietly(t)
    PROVE  /\ PoolNow' = PoolNow /\ LineageNow' = LineageNow
           /\ CurrentNow' = CurrentNow
<1>1. Materializing' = Materializing
  BY MaterializingKept DEF Quietly
<1>2. Parked(current)' <=> Parked(current)
  BY DEF Quietly, Parked, At
<1>3. snapshots \subseteq Ids
  BY DEF AloneInv, LocksInv, Globals
<1> QED
  BY <1>1, <1>2, <1>3 DEF Quietly, PoolNow, LineageNow, CurrentNow, Ended

\* A checkpoint has been counted when its call began.
LEMMA CountKept ==
    ASSUME PoolInv, origin' = origin, calls' = calls, Sealers' \subseteq Sealers
    PROVE  CheckpointsCounted'
<1>1. IsFiniteSet(Sealers) /\ Len(origin) + Cardinality(Sealers) <= calls + 1
  BY DEF PoolInv, CheckpointsCounted
<1>2. IsFiniteSet(Sealers') /\ Cardinality(Sealers') <= Cardinality(Sealers)
  BY <1>1, FS_Subset
<1>3. Cardinality(Sealers) \in Nat /\ Cardinality(Sealers') \in Nat
  BY <1>1, <1>2, FS_CardinalityType
<1>4. Len(origin) \in Nat /\ calls \in Nat
  BY ForkableAssumption DEF PoolInv, AloneInv, LocksInv, Globals
<1> QED
  BY <1>1, <1>2, <1>3, <1>4 DEF CheckpointsCounted

\* A call that begins may make one checkpoint.
LEMMA CountBegun ==
    ASSUME PoolInv, NEW t \in Thread, origin' = origin, calls' = calls + 1,
           Sealers' \subseteq Sealers \cup {t}
    PROVE  CheckpointsCounted'
<1>1. IsFiniteSet(Sealers) /\ Len(origin) + Cardinality(Sealers) <= calls + 1
  BY DEF PoolInv, CheckpointsCounted
<1>2. /\ IsFiniteSet(Sealers \cup {t})
      /\ Cardinality(Sealers \cup {t}) \in {Cardinality(Sealers), Cardinality(Sealers) + 1}
  BY <1>1, FS_AddElement
<1>3. IsFiniteSet(Sealers') /\ Cardinality(Sealers') <= Cardinality(Sealers \cup {t})
  BY <1>2, FS_Subset
<1>4. /\ Cardinality(Sealers) \in Nat /\ Cardinality(Sealers') \in Nat
      /\ Cardinality(Sealers \cup {t}) \in Nat
  BY <1>1, <1>2, <1>3, FS_CardinalityType
<1>5. Len(origin) \in Nat /\ calls \in Nat
  BY ForkableAssumption DEF PoolInv, AloneInv, LocksInv, Globals
<1> QED
  BY <1>1, <1>2, <1>3, <1>4, <1>5 DEF CheckpointsCounted

\* A checkpoint of a call has been counted, and has an id in the bounds.
LEMMA CountSealed ==
    ASSUME PoolInv, NEW t \in Sealers, NEW s \in Nat, origin' = Append(origin, s),
           calls' = calls, Sealers' \subseteq Sealers \ {t}
    PROVE  CheckpointsCounted' /\ NewId \in 1 .. MaxCalls + 1
<1>1. IsFiniteSet(Sealers) /\ Len(origin) + Cardinality(Sealers) <= calls + 1
  BY DEF PoolInv, CheckpointsCounted
<1>2. /\ IsFiniteSet(Sealers \ {t})
      /\ Cardinality(Sealers \ {t}) = Cardinality(Sealers) - 1
  BY <1>1, FS_RemoveElement
<1>3. IsFiniteSet(Sealers') /\ Cardinality(Sealers') <= Cardinality(Sealers \ {t})
  BY <1>2, FS_Subset
<1>4. /\ Cardinality(Sealers) \in Nat /\ Cardinality(Sealers') \in Nat
      /\ Cardinality(Sealers \ {t}) \in Nat
  BY <1>1, <1>2, <1>3, FS_CardinalityType
<1>5. Len(origin) \in Nat /\ calls \in Nat /\ calls <= MaxCalls /\ MaxCalls \in Nat
  BY ForkableAssumption DEF PoolInv, AloneInv, LocksInv, Globals
<1>6. Len(origin') = Len(origin) + 1
  BY DEF PoolInv, AloneInv, LocksInv, Globals
<1>7. CheckpointsCounted'
  BY <1>1, <1>2, <1>3, <1>4, <1>5, <1>6 DEF CheckpointsCounted
<1> QED
  BY <1>1, <1>2, <1>4, <1>5, <1>7 DEF NewId

\* What the threads that do not move know of their sources.
LEMMA SourcesKept ==
    ASSUME PoolInv, NEW t \in Thread, NEW u \in Thread \ {t}, at'[u] = at[u],
           kind' = kind, snapshots \subseteq snapshots',
           at[u].pc = "park_remove" =>
               /\ at[u].sid \notin snapshots' \/ snapshots' = snapshots
               /\ backend'[at[u].br] = backend[at[u].br],
           \A i \in Ids : origin'[i] = origin[i]
    PROVE  SourceOf(u)'
<1>1. SourceOf(u) /\ (at[u].pc = "park_remove" => at[u].sid \in Ids)
  BY DEF PoolInv, AloneInv, LocksInv, ThreadInv, CheckpointsKnown
<1> QED
  BY <1>1 DEF SourceOf

\* The places that a quiet step of a call leads to.
Onward(t) ==
    \/ at'[t].pc = "idle" /\ at'[t].op = "none"
    \/ /\ at'[t].op = at[t].op
       /\ at'[t].pc \notin {"idle", "cleanup", "register", "switch", "park_remove",
                           "park_record"}
       /\ at'[t].pc \in {"seal", "core", "park", "park_check", "park_core"} => t \in Sealers
       /\ at[t].op \notin {"snapshot", "park"} => at'[t].base = at[t].base
       /\ at[t].pc = "departing" => at[t].base \in snapshots

\* A step of a thread between two places of its call that changes no record.
LEMMA QuietPool ==
    ASSUME PoolInv, AloneInv', NEW t \in Thread,
           UNCHANGED <<kind, backend, origin, snapshots, current, calls>>,
           \A u \in Thread \ {t} : at'[u] = at[u],
           ~Halfway(t), at[t].pc # "park_record", Onward(t)
    PROVE  PoolInv' /\ Quietly(t)
<1>1. Quietly(t)
  BY DEF Quietly, Onward, Halfway
<1>2. Sealers' \subseteq Sealers
  BY DEF Sealers, Onward
<1>3. SourceOf(t)'
  <2>1. SourceOf(t)
    BY DEF PoolInv
  <2> QED
    BY <2>1 DEF SourceOf, Onward
<1>4. ASSUME NEW u \in Thread \ {t} PROVE SourceOf(u)'
  BY SourcesKept
<1> QED
  BY <1>1, <1>2, <1>3, <1>4, CountKept DEF PoolInv, Ended

\* exec_command, listings, and the first steps of snapshot.
LEMMA ExecQuiet ==
    ASSUME PoolInv, AloneInv', NEW t \in Thread,
           \/ Refused(t) \/ LockExec(t) \/ Run(t) \/ LockSeal(t) \/ SnapshotFails(t)
           \/ Query(t) \/ QueryFails(t) \/ Apply(t) \/ Prune(t) \/ Record(t)
    PROVE  PoolInv' /\ Quietly(t)
<1>0. /\ LocksInv /\ ThreadInv(t)
      /\ at[t].pc \in {"exec", "run", "seal", "core", "refresh", "apply", "prune", "record"}
      /\ at[t].op \in {"exec", "copy", "snapshot", "list"}
  BY DEF PoolInv, AloneInv, LocksInv, ThreadInv, PlaceOfCall, Refused, LockExec, Run, LockSeal,
         SnapshotFails, Query, QueryFails, Apply, Prune, Record, At
<1>1. /\ UNCHANGED <<kind, backend, origin, snapshots, current, calls>>
      /\ ~Halfway(t) /\ at[t].pc # "park_record"
  BY <1>0 DEF Halfway, Refused, LockExec, Run, LockSeal, SnapshotFails, Query, QueryFails,
              Apply, Prune, Record, backendVars, treeVars, registryVars
<1>2. ASSUME Return(t) PROVE Onward(t) /\ OnlyBy(t)
  BY <1>0, <1>2, Returns DEF Returned, Onward
<1>3. Onward(t) /\ OnlyBy(t)
  <2>1. CASE Refused(t) \/ Run(t) \/ SnapshotFails(t) \/ Record(t)
    BY <1>2, <2>1 DEF Refused, Run, SnapshotFails, Record
  <2>2. CASE LockExec(t)
    BY <1>0, <2>2, LockExecMoves DEF Moved, Onward, LockExec, At
  <2>3. CASE LockSeal(t)
    <3>1. t \in Sealers /\ at[t].op = "snapshot"
      BY <1>0, <2>3 DEF LockSeal, At, Sealers, ThreadInv, PlaceOfCall
    <3> QED
      BY <1>0, <2>3, <3>1, LockSealMoves DEF Moved, Onward, LockSeal, At
  <2>4. CASE Query(t)
    BY <1>0, <2>4, QueryMoves DEF Moved, Onward, Query, At
  <2>5. CASE QueryFails(t)
    BY <1>0, <1>2, <2>5, QueryFailsMoves DEF Moved, Onward, QueryFails, At
  <2>6. CASE Apply(t)
    BY <1>0, <2>6, ApplyMoves DEF Moved, Onward, Apply, At
  <2>7. CASE Prune(t)
    BY <1>0, <1>2, <2>7, PruneMoves DEF Moved, Onward, Prune, At
  <2> QED
    BY <2>1, <2>2, <2>3, <2>4, <2>5, <2>6, <2>7
<1> QED
  BY <1>1, <1>3, QuietPool DEF OnlyBy

\* A branch that cannot be made, and the ends of a restore.
LEMMA RestoreQuiet ==
    ASSUME PoolInv, AloneInv', NEW t \in Thread,
           \/ LockDeparting(t) \/ Position(t)
           \/ MaterializeFails(t) /\ UNCHANGED backend
           \/ Register(t) /\ at[t].op # "restore"
    PROVE  PoolInv' /\ Quietly(t)
<1>0. /\ LocksInv /\ ThreadInv(t)
      /\ at[t].pc \in {"departing", "materialize", "position", "register"}
      /\ at[t].op \in {"fork", "fork_auto", "restore"}
  BY DEF PoolInv, AloneInv, LocksInv, ThreadInv, PlaceOfCall, LockDeparting, MaterializeFails,
         Position, Register, At
<1>1. /\ UNCHANGED <<kind, backend, origin, snapshots, current, calls>>
      /\ ~Halfway(t) /\ at[t].pc # "park_record"
  BY <1>0 DEF Halfway, LockDeparting, MaterializeFails, Position, Register, At,
              backendVars, treeVars, registryVars
<1>2. ASSUME Return(t) PROVE Onward(t) /\ OnlyBy(t)
  BY <1>0, <1>2, Returns DEF Returned, Onward
<1>3. Onward(t) /\ OnlyBy(t)
  <2>1. CASE MaterializeFails(t) \/ Position(t) \/ (Register(t) /\ at[t].op # "restore")
    BY <1>2, <2>1 DEF MaterializeFails, Position, Register
  <2>2. CASE LockDeparting(t) /\ at[t].base \in DOMAIN graph
    <3>1. at[t].base \in snapshots
      BY <1>0, <2>2 DEF LocksInv, Globals
    <3> QED
      BY <1>0, <2>2, <3>1, LockDepartingMoves DEF Moved, Onward
  <2>3. CASE LockDeparting(t) /\ at[t].base \notin DOMAIN graph
    BY <1>2, <2>3 DEF LockDeparting
  <2> QED
    BY <2>1, <2>2, <2>3
<1> QED
  BY <1>1, <1>3, QuietPool DEF OnlyBy

\* A branch is gone when the backend has destroyed it.
LEMMA RetireQuiet ==
    ASSUME PoolInv, AloneInv', NEW t \in Thread,
           LockRetiring(t) \/ CheckRetiring(t) \/ DestroyFails(t) \/ Forget(t)
    PROVE  PoolInv' /\ Quietly(t)
<1>0. /\ LocksInv /\ ThreadInv(t)
      /\ at[t].pc \in {"retire", "check", "destroy", "forget"}
      /\ at[t].op \in {"discard", "restore"}
  BY DEF PoolInv, AloneInv, LocksInv, ThreadInv, PlaceOfCall, LockRetiring, CheckRetiring,
         DestroyFails, Forget, At
<1>1. /\ UNCHANGED <<kind, backend, origin, snapshots, current, calls>>
      /\ ~Halfway(t) /\ at[t].pc # "park_record"
  BY <1>0 DEF Halfway, LockRetiring, CheckRetiring, DestroyFails, Forget,
              backendVars, treeVars, registryVars
<1>2. ASSUME Retired(t) PROVE Onward(t) /\ OnlyBy(t)
  <2>1. CASE at[t].op = "restore"
    BY <1>0, <1>2, <2>1, RetiredMoves DEF Moved, Onward
  <2>2. CASE at[t].op # "restore"
    BY <1>0, <1>2, <2>2, Returns DEF Retired, Returned, Onward
  <2> QED
    BY <2>1, <2>2
<1>3. Onward(t) /\ OnlyBy(t)
  <2>1. CASE DestroyFails(t) \/ Forget(t)
    BY <1>2, <2>1 DEF DestroyFails, Forget
  <2>2. CASE LockRetiring(t)
    BY <1>0, <2>2, LockRetiringMoves DEF Moved, Onward
  <2>3. CASE CheckRetiring(t)
    BY <1>0, <1>2, <2>3, CheckRetiringMoves DEF Moved, Onward, CheckRetiring
  <2> QED
    BY <2>1, <2>2, <2>3
<1> QED
  BY <1>1, <1>3, QuietPool DEF OnlyBy

\* A branch that is not parked after all, and a session that is not cleaned up.
LEMMA ParkQuiet ==
    ASSUME PoolInv, AloneInv', NEW t \in Thread,
           LockPark(t) \/ CheckPark(t) \/ UndoCommit(t) \/ ParkFails(t) \/ TearDownFails(t)
    PROVE  PoolInv' /\ Quietly(t)
<1>0. /\ LocksInv /\ ThreadInv(t)
      /\ at[t].pc \in {"park", "park_check", "park_core", "park_remove", "cleanup"}
      /\ at[t].op \in {"park", "cleanup"}
  BY DEF PoolInv, AloneInv, LocksInv, ThreadInv, PlaceOfCall, LockPark, CheckPark,
         UndoCommit, ParkFails, TearDownFails, At
<1>1. /\ UNCHANGED <<kind, backend, origin, snapshots, current, calls>>
      /\ ~Halfway(t) /\ at[t].pc # "park_record"
  BY <1>0 DEF Halfway, LockPark, CheckPark, UndoCommit, ParkFails, TearDownFails,
              backendVars, treeVars, registryVars
<1>2. ASSUME Return(t) PROVE Onward(t) /\ OnlyBy(t)
  BY <1>0, <1>2, Returns DEF Returned, Onward
<1>3. Onward(t) /\ OnlyBy(t)
  <2>1. CASE UndoCommit(t) \/ ParkFails(t) \/ TearDownFails(t)
    BY <1>2, <2>1 DEF UndoCommit, ParkFails, TearDownFails
  <2>2. CASE LockPark(t)
    <3>1. t \in Sealers
      BY <2>2 DEF LockPark, At, Sealers
    <3> QED
      BY <1>0, <2>2, <3>1, LockParkMoves DEF Moved, Onward, LockPark, At
  <2>3. CASE CheckPark(t)
    <3>1. t \in Sealers /\ at[t].op = "park"
      BY <1>0, <2>3 DEF CheckPark, At, Sealers, ThreadInv, PlaceOfCall
    <3> QED
      BY <1>0, <1>2, <2>3, <3>1, CheckParkMoves DEF Moved, Onward, CheckPark, At
  <2> QED
    BY <2>1, <2>2, <2>3
<1> QED
  BY <1>1, <1>3, QuietPool DEF OnlyBy

\* A call that begins.
LEMMA BeginQuiet ==
    ASSUME PoolInv, AloneInv', NEW t \in Thread, Begin(t)
    PROVE  PoolInv' /\ Quietly(t)
<1>0. LocksInv /\ PlaceOfCall(t)
  BY DEF PoolInv, AloneInv, LocksInv, ThreadInv
<1>1. calls' = calls + 1
  BY DEF Begin, Exec, Copy, Snapshot, List, CleanUp, ExecOnBranch, CopyBranch, SnapshotBranch,
         Discard, Park, Restore, Fork, OnCurrent, OnBranch, Call
<1>2. ASSUME OnlyBy(t), DataKept, at[t].pc = "idle",
             at'[t].pc \notin {"register", "switch", "park_remove", "park_record"},
             at'[t].op \in {"fork", "fork_auto"} => at'[t].base \in snapshots,
             at'[t].op = "restore" => at'[t].pc = "departing",
             at'[t].pc = "cleanup" => kind = "waypoint"
      PROVE  PoolInv' /\ Quietly(t)
  <2>1. /\ UNCHANGED <<kind, backend, origin, snapshots, current>>
        /\ \A u \in Thread \ {t} : at'[u] = at[u]
    BY <1>2 DEF DataKept, OnlyBy, backendVars, treeVars, registryVars
  <2>2. Quietly(t)
    BY <1>0, <1>2, <2>1 DEF Quietly, Halfway, PlaceOfCall
  <2>3. Sealers' \subseteq Sealers \cup {t}
    BY <2>1 DEF Sealers
  <2>4. SourceOf(t)'
    BY <1>2, <2>1 DEF SourceOf
  <2>5. ASSUME NEW u \in Thread \ {t} PROVE SourceOf(u)'
    BY <2>1, SourcesKept
  <2> QED
    BY <1>1, <2>1, <2>2, <2>3, <2>4, <2>5, CountBegun DEF PoolInv, Ended
<1>3. CASE Exec(t) \/ Copy(t) \/ Snapshot(t)
  <2>1. PICK place \in {"exec", "seal"}, op \in {"exec", "copy", "snapshot"} :
          OnCurrent(t, place, op)
    BY <1>3 DEF Exec, Copy, Snapshot
  <2> QED
    BY <1>0, <1>2, <2>1, OnCurrentBegan DEF Began
<1>4. CASE \E b \in Branch : ExecOnBranch(t, b) \/ CopyBranch(t, b) \/ SnapshotBranch(t, b)
  <2>1. PICK b \in Branch, place \in {"exec", "seal"}, op \in {"exec", "copy", "snapshot"} :
          OnBranch(t, b, place, op)
    BY <1>4 DEF ExecOnBranch, CopyBranch, SnapshotBranch
  <2> QED
    BY <1>0, <1>2, <2>1, OnBranchBegan DEF Began
<1>5. CASE List(t)
  BY <1>0, <1>2, <1>5, ListBegan DEF Began
<1>6. CASE CleanUp(t)
  BY <1>0, <1>2, <1>6, CleanUpBegan DEF Began, CleanUp
<1>7. ASSUME NEW b \in Branch, Discard(t, b) PROVE PoolInv' /\ Quietly(t)
  BY <1>0, <1>2, <1>7, DiscardBegan DEF Began
<1>8. ASSUME NEW b \in Branch, Park(t, b) PROVE PoolInv' /\ Quietly(t)
  BY <1>0, <1>2, <1>8, ParkBegan DEF Began
<1>9. ASSUME NEW s \in Ids, Restore(t, s) PROVE PoolInv' /\ Quietly(t)
  BY <1>0, <1>2, <1>9, RestoreBegan DEF Began
<1>10. ASSUME NEW s \in Ids, NEW ids \in SUBSET Branch, Fork(t, s, ids)
       PROVE  PoolInv' /\ Quietly(t)
  <2>1. PICK op \in {"fork", "fork_auto"} :
          Began(t, "materialize", op, Main, FirstState, FirstState, s, ids)
    BY <1>0, <1>10, ForkBegan
  <2>2. s \in snapshots
    BY <1>10 DEF Fork
  <2> QED
    BY <1>0, <1>2, <1>10, <2>1, <2>2, ForkBegan DEF Began
<1> QED
  BY <1>3, <1>4, <1>5, <1>6, <1>7, <1>8, <1>9, <1>10 DEF Begin

-----------------------------------------------------------------------------
(* The branches that the pool does not show yet.                           *)

\* They are nobody's, and alive until cleanup.
LEMMA Apart ==
    ASSUME AloneInv
    PROVE  /\ Main \notin Materializing
           /\ \A t \in Thread : Inside(t) \/ Removing(t) => at[t].br \notin Materializing
           /\ \A t \in Thread : HoldsC(t) /\ ~Halfway(t) => Materializing = {}
           /\ \A t \in Thread : Halfway(t) => Materializing = at[t].ids
<1>1. ASSUME NEW u \in Thread, Halfway(u), NEW b \in at[u].ids
      PROVE  /\ b # Main
             /\ \A t \in Thread : Inside(t) \/ Removing(t) => at[t].br # b
  <2>1. CASE at[u].pc = "register"
    <3>1. b \notin live
      BY <1>1, <2>1 DEF AloneInv, ThreadAlone, ChangeOf
    <3> QED
      BY <3>1, Owners DEF AloneInv, InStep
  <2>2. CASE at[u].pc = "switch"
    <3>1. b # Main /\ ~st[branches[b]].active
      BY <1>1, <2>2 DEF AloneInv, ThreadAlone, ServiceOf, Halfway, Pending, Made
    <3> QED
      BY <3>1, Owners
  <2> QED
    BY <1>1, <2>1, <2>2 DEF Halfway
<1>2. ASSUME NEW t \in Thread, HoldsC(t), NEW u \in Thread, Halfway(u) PROVE u = t
  BY <1>2, OneHolder DEF AloneInv, Halfway, HoldsC
<1>3. ASSUME NEW t \in Thread, HoldsC(t), ~Halfway(t) PROVE Materializing = {}
  <2>1. \A u \in Thread : ~Halfway(u)
    BY <1>2, <1>3
  <2>2. \A b : b \notin Materializing
    BY <2>1, MaterializingOf
  <2> QED
    BY <2>2
<1>4. ASSUME NEW t \in Thread, Halfway(t) PROVE Materializing = at[t].ids
  <2>1. \A u \in Thread : Halfway(u) => u = t
    BY <1>2, <1>4 DEF Halfway, HoldsC
  <2>2. \A b : b \in Materializing <=> b \in at[t].ids
    BY <1>4, <2>1, MaterializingOf
  <2> QED
    BY <2>2
<1>5. Main \notin Materializing
  BY <1>1, MaterializingOf
<1>6. ASSUME NEW t \in Thread, Inside(t) \/ Removing(t) PROVE at[t].br \notin Materializing
  BY <1>1, <1>6, MaterializingOf
<1> QED
  BY <1>3, <1>4, <1>5, <1>6

\* Until cleanup the pool has main.
LEMMA MainShown ==
    ASSUME AloneInv, ~Ended
    PROVE  Main \in DOMAIN PoolNow
  BY Apart DEF PoolNow, Ended

-----------------------------------------------------------------------------
(* Steps of the pool.                                                      *)

\* A step that gives branch b a new checkpoint s seals it.
LEMMA ShowsSeal ==
    ASSUME NEW b \in DOMAIN PoolNow, NEW s \in (1 .. MaxCalls + 1) \ DOMAIN LineageNow,
           LineageNow' = Pool!Extended(LineageNow, {s}, PoolNow[b]),
           PoolNow' = Pool!Extended(PoolNow, {b}, s), CurrentNow' = CurrentNow
    PROVE  Pool!Next
<1>1. Pool!Seal(b)
  BY DEF Pool!Seal, PoolNow, LineageNow, CurrentNow
<1> QED
  BY <1>1 DEF Pool!Next, PoolNow

\* A step that makes branches from one checkpoint forks it.
LEMMA ShowsFork ==
    ASSUME Main \in DOMAIN PoolNow, NEW s \in DOMAIN LineageNow,
           NEW new \in SUBSET (Branch \ DOMAIN PoolNow), new # {},
           PoolNow' = Pool!Extended(PoolNow, new, s),
           LineageNow' = LineageNow, CurrentNow' = CurrentNow
    PROVE  Pool!Next
<1>1. Pool!Fork(s, new)
  BY DEF Pool!Fork, PoolNow, LineageNow, CurrentNow
<1> QED
  BY <1>1 DEF Pool!Next, PoolNow, LineageNow

\* A step that makes one branch and switches to it restores a checkpoint.
LEMMA ShowsRestore ==
    ASSUME Main \in DOMAIN PoolNow, NEW s \in DOMAIN LineageNow,
           NEW b \in Branch \ DOMAIN PoolNow, CurrentNow' = b,
           PoolNow' = Pool!Extended(PoolNow, {b}, s), LineageNow' = LineageNow
    PROVE  Pool!Next
<1>1. Pool!Restore(s, b)
  BY DEF Pool!Restore, PoolNow, LineageNow, CurrentNow
<1> QED
  BY <1>1 DEF Pool!Next, PoolNow, LineageNow

\* A step that removes a branch that is not current discards it.
LEMMA ShowsDiscard ==
    ASSUME NEW b \in DOMAIN PoolNow, b \notin {Main, CurrentNow},
           PoolNow' = Pool!Without(PoolNow, {b}),
           LineageNow' = LineageNow, CurrentNow' = CurrentNow
    PROVE  Pool!Next
<1>1. Pool!Discard(b)
  BY DEF Pool!Discard, PoolNow, LineageNow, CurrentNow
<1> QED
  BY <1>1 DEF Pool!Next, PoolNow

\* A step that turns a branch into a checkpoint parks it.
LEMMA ShowsPark ==
    ASSUME NEW b \in DOMAIN PoolNow, b # Main,
           NEW s \in (1 .. MaxCalls + 1) \ DOMAIN LineageNow,
           LineageNow' = Pool!Extended(LineageNow, {s}, PoolNow[b]),
           PoolNow' = Pool!Without(PoolNow, {b}),
           CurrentNow' = IF CurrentNow = b THEN Main ELSE CurrentNow
    PROVE  Pool!Next
<1>1. Pool!Park(b)
  BY DEF Pool!Park, PoolNow, LineageNow, CurrentNow
<1> QED
  BY <1>1 DEF Pool!Next, PoolNow

\* A step after which no branch is left cleans up.
LEMMA ShowsCleanUp ==
    ASSUME DOMAIN backend' = {}, LineageNow' = LineageNow, CurrentNow' = Main
    PROVE  Pool!Next
<1>1. PoolNow' = Pool!Without(PoolNow, DOMAIN PoolNow)
  BY DEF PoolNow, Pool!Without
<1>2. Pool!CleanUp
  BY <1>1 DEF Pool!CleanUp, PoolNow, LineageNow, CurrentNow
<1> QED
  BY <1>2 DEF Pool!Next

\* snapshot: a branch goes on from the checkpoint it has made.
LEMMA SealPool ==
    ASSUME PoolInv, AloneInv', NEW t \in Thread, CoreSnapshot(t) \/ Commit(t)
    PROVE  PoolInv' /\ Pool!Next
<1>0. /\ AloneInv /\ LocksInv /\ Globals
      /\ at[t].pc = "core" /\ at[t].op = "snapshot" /\ at[t].br \in DOMAIN backend
  BY DEF PoolInv, AloneInv, LocksInv, ThreadInv, PlaceOfCall, CoreSnapshot, Commit, At
<1>1. /\ UNCHANGED <<kind, current, calls>>
      /\ backend' = [backend EXCEPT ![at[t].br] = NewId]
      /\ origin' = Append(origin, backend[at[t].br])
      /\ snapshots' = snapshots \cup {NewId}
  BY DEF CoreSnapshot, Commit, registryVars
<1>2. /\ DOMAIN backend' = DOMAIN backend /\ Ended' = Ended
      /\ backend'[at[t].br] = NewId
      /\ \A b \in DOMAIN backend \ {at[t].br} : backend'[b] = backend[b]
      /\ \A i \in Ids : origin'[i] = origin[i]
      /\ origin'[NewId] = backend[at[t].br] /\ backend[at[t].br] \in Nat
      /\ NewId \notin Ids /\ snapshots \subseteq Ids
  <2>1. backend[at[t].br] \in Nat
    BY <1>0 DEF Globals, IsMap, Ids
  <2>2. /\ \A i \in Ids : origin'[i] = origin[i]
        /\ origin'[NewId] = backend[at[t].br] /\ NewId \notin Ids
    BY <1>0, <1>1, <2>1, Grown
  <2> QED
    BY <1>0, <1>1, <2>1, <2>2 DEF Ended, Globals
<1>3. /\ at'[t].pc \in {"refresh", "record"} /\ at'[t].op = "snapshot"
      /\ \A u \in Thread \ {t} : at'[u] = at[u]
  <2>1. CASE CoreSnapshot(t)
    BY <1>0, <2>1, CoreSnapshotMoves DEF Moved, OnlyBy
  <2>2. CASE Commit(t)
    BY <1>0, <2>2, CommitMoves DEF Moved, OnlyBy
  <2> QED
    BY <2>1, <2>2
<1>4. Inside(t) /\ t \in Sealers /\ Sealers' \subseteq Sealers \ {t}
  BY <1>0, <1>3 DEF Inside, Sealers
<1>5. CheckpointsCounted' /\ NewId \in 1 .. MaxCalls + 1
  BY <1>1, <1>2, <1>4, CountSealed
<1>6. ASSUME NEW u \in Thread PROVE SourceOf(u)'
  <2>1. CASE u = t
    BY <1>3, <2>1 DEF SourceOf
  <2>2. CASE u # t
    <3>1. ASSUME at[u].pc = "park_remove"
          PROVE  at[u].sid \notin snapshots' /\ backend'[at[u].br] = backend[at[u].br]
      <4>1. at[u].sid \in Ids /\ at[u].sid \notin snapshots /\ kind = "docker"
        <5>1. at[u].sid \in Ids
          BY <3>1 DEF PoolInv, AloneInv, LocksInv, ThreadInv, CheckpointsKnown
        <5>2. kind # "waypoint" /\ kind \in Kinds
          BY <1>0, <3>1 DEF AloneInv, ThreadAlone, BaseOf, Globals
        <5> QED
          BY <3>1, <5>1, <5>2, ForkableAssumption DEF PoolInv, SourceOf
      <4>2. at[u].br # at[t].br /\ at[u].br \in live
        BY <1>0, <1>4, <2>2, <3>1, OneOwner, Owners DEF Inside
      <4>3. at[u].br \in DOMAIN backend
        <5>1. \A v \in Thread : at[v].pc \in {"forget", "park_record"} => at[v].br # at[u].br
          BY <1>0, <2>2, <3>1, OneOwner DEF Inside, Removing
        <5> QED
          BY <1>0, <4>1, <4>2, <5>1, Alive DEF PoolInv
      <4> QED
        BY <1>1, <1>2, <4>1, <4>2, <4>3
    <3> QED
      BY <1>1, <1>2, <1>3, <2>2, <3>1, SourcesKept
  <2> QED
    BY <2>1, <2>2
<1>7. Materializing' = Materializing /\ (Parked(current)' <=> Parked(current))
  BY <1>0, <1>1, <1>3, MaterializingKept DEF Halfway, Parked, At
<1>8. at[t].br \in DOMAIN PoolNow /\ PoolNow[at[t].br] = backend[at[t].br]
  BY <1>0, <1>4, Apart DEF PoolNow
<1>9. PoolNow' = Pool!Extended(PoolNow, {at[t].br}, NewId)
  BY <1>2, <1>7, <1>8 DEF PoolNow, Pool!Extended
<1>10. LineageNow' = Pool!Extended(LineageNow, {NewId}, PoolNow[at[t].br])
  BY <1>1, <1>2, <1>8 DEF LineageNow, Pool!Extended
<1>11. CurrentNow' = CurrentNow
  BY <1>1, <1>2, <1>7 DEF CurrentNow
<1>12. NewId \notin DOMAIN LineageNow
  BY <1>2 DEF LineageNow
<1>13. Pool!Next
  BY <1>5, <1>8, <1>9, <1>10, <1>11, <1>12, ShowsSeal
<1> QED
  BY <1>1, <1>2, <1>5, <1>6, <1>13 DEF PoolInv

\* park_branch: a branch leaves a checkpoint behind, and main is current for it.
LEMMA ParkPool ==
    ASSUME PoolInv, AloneInv', NEW t \in Thread, CorePark(t) \/ RemoveParked(t)
    PROVE  PoolInv' /\ Pool!Next
<1> DEFINE s == IF at[t].pc = "park_core" THEN NewId ELSE at[t].sid
<1>0. /\ AloneInv /\ LocksInv /\ Globals /\ at[t].br # Main
      /\ at[t].pc \in {"park_core", "park_remove"} /\ at[t].op = "park"
      /\ Inside(t) /\ HoldsC(t) /\ HoldsR(t) /\ ~Halfway(t)
  BY DEF PoolInv, AloneInv, LocksInv, ThreadInv, PlaceOfCall, CorePark, RemoveParked, At,
         Inside, HoldsC, HoldsR, Halfway, ThreadAlone, CurrentKept
<1>1. /\ UNCHANGED <<kind, current, calls>> /\ Ended' = Ended
      /\ DOMAIN backend' = DOMAIN backend \ {at[t].br}
      /\ \A b \in DOMAIN backend' : backend'[b] = backend[b]
      /\ snapshots' = snapshots \cup {s}
  BY <1>0 DEF CorePark, RemoveParked, At, Without, registryVars, Ended
<1>2. /\ at'[t].pc = "park_record" /\ at'[t].op = "park" /\ at'[t].br = at[t].br
      /\ \A u \in Thread \ {t} : at'[u] = at[u]
  <2>1. CASE CorePark(t)
    BY <1>0, <2>1, CoreParkMoves DEF Moved, OnlyBy
  <2>2. CASE RemoveParked(t)
    BY <1>0, <2>2, RemoveParkedMoves DEF Moved, OnlyBy
  <2> QED
    BY <2>1, <2>2
<1>3. \A u \in Thread \ {t} : at[u].pc \notin {"park_remove", "park_record"}
  BY <1>0, OneHolder DEF HoldsR
<1>4. /\ \A i \in Ids : origin'[i] = origin[i]
      /\ origin'[s] = backend[at[t].br] /\ s \notin snapshots
      /\ s \in 1 .. MaxCalls + 1 /\ CheckpointsCounted'
  <2>1. CASE CorePark(t)
    <3>1. at[t].pc = "park_core" /\ backend[at[t].br] \in Nat
      BY <1>0, <2>1 DEF CorePark, At, Globals, IsMap, Ids
    <3>2. /\ \A i \in Ids : origin'[i] = origin[i]
          /\ origin'[NewId] = backend[at[t].br] /\ NewId \notin snapshots
      BY <1>0, <2>1, <3>1, Grown DEF CorePark, Globals
    <3>3. t \in Sealers /\ Sealers' \subseteq Sealers \ {t}
      BY <1>2, <3>1 DEF Sealers
    <3>4. NewId \in 1 .. MaxCalls + 1 /\ CheckpointsCounted'
      BY <1>1, <2>1, <3>1, <3>3, CountSealed DEF CorePark
    <3> QED
      BY <3>1, <3>2, <3>4
  <2>2. CASE RemoveParked(t)
    <3>1. at[t].pc = "park_remove" /\ origin' = origin
      BY <2>2 DEF RemoveParked, At
    <3>2. Sealers' \subseteq Sealers
      BY <1>2 DEF Sealers
    <3>3. CheckpointsCounted'
      BY <1>1, <3>1, <3>2, CountKept
    <3>4. /\ at[t].sid \notin snapshots /\ backend[at[t].br] = origin[at[t].sid]
          /\ at[t].sid \in Ids
      BY <3>1 DEF PoolInv, SourceOf, AloneInv, LocksInv, ThreadInv, CheckpointsKnown
    <3>5. Ids \subseteq 1 .. MaxCalls + 1
      <4>1. IsFiniteSet(Sealers) /\ Len(origin) + Cardinality(Sealers) <= calls + 1
        BY DEF PoolInv, CheckpointsCounted
      <4>2. Cardinality(Sealers) \in Nat
        BY <4>1, FS_CardinalityType
      <4>3. Len(origin) \in Nat /\ calls \in Nat /\ calls <= MaxCalls /\ MaxCalls \in Nat
        BY <1>0, ForkableAssumption DEF Globals
      <4> QED
        BY <4>1, <4>2, <4>3 DEF Ids
    <3> QED
      BY <3>1, <3>3, <3>4, <3>5
  <2> QED
    BY <2>1, <2>2
<1>5. ASSUME NEW u \in Thread PROVE SourceOf(u)'
  <2>1. CASE u = t
    BY <1>2, <2>1 DEF SourceOf
  <2>2. CASE u # t
    BY <1>1, <1>2, <1>3, <1>4, <2>2, SourcesKept
  <2> QED
    BY <2>1, <2>2
<1>6. Materializing = {} /\ Materializing' = {}
  <2>1. ~Halfway(t)'
    BY <1>2 DEF Halfway
  <2> QED
    BY <1>0, <1>2, <2>1, Apart, MaterializingKept
<1>7. at[t].br \in DOMAIN backend /\ ~Ended
  <2>1. CASE CorePark(t)
    BY <1>0, <2>1 DEF CorePark, AloneInv, InStep
  <2>2. CASE RemoveParked(t)
    <3>1. kind \in Kinds /\ kind # "waypoint"
      BY <1>0, <2>2 DEF RemoveParked, At, AloneInv, ThreadAlone, BaseOf, Globals
    <3>2. ~Ended
      BY <3>1, ForkableAssumption DEF PoolInv
    <3>3. \A u \in Thread : at[u].pc \in {"forget", "park_record"} => at[u].br # at[t].br
      BY <1>0, OneHolder DEF HoldsR
    <3>4. at[t].br \in live
      BY <1>0, Owners
    <3> QED
      BY <1>0, <3>2, <3>3, <3>4, Alive
  <2> QED
    BY <2>1, <2>2
<1>8. /\ at[t].br \in DOMAIN PoolNow /\ PoolNow[at[t].br] = backend[at[t].br]
      /\ PoolNow' = Pool!Without(PoolNow, {at[t].br})
  BY <1>1, <1>6, <1>7 DEF PoolNow, Pool!Without
<1>9. LineageNow' = Pool!Extended(LineageNow, {s}, PoolNow[at[t].br])
  <2>1. snapshots \subseteq Ids
    BY <1>0 DEF Globals
  <2> QED
    BY <1>1, <1>4, <1>8, <2>1 DEF LineageNow, Pool!Extended
<1>10. CurrentNow' = IF CurrentNow = at[t].br THEN Main ELSE CurrentNow
  <2>1. ~Parked(current)
    BY <1>0, <1>3 DEF Parked, At
  <2>2. Parked(current)' <=> current = at[t].br
    BY <1>1, <1>2, <1>3 DEF Parked, At
  <2> QED
    BY <1>1, <1>7, <2>1, <2>2 DEF CurrentNow
<1>11. s \notin DOMAIN LineageNow
  BY <1>4 DEF LineageNow
<1>12. Pool!Next
  BY <1>0, <1>4, <1>8, <1>9, <1>10, <1>11, ShowsPark
<1> QED
  BY <1>1, <1>4, <1>5, <1>12 DEF PoolInv

\* Docker's image is not a snapshot until its container is removed.
LEMMA CommitQuiet ==
    ASSUME PoolInv, AloneInv', NEW t \in Thread, CommitPark(t)
    PROVE  PoolInv' /\ Quietly(t)
<1>0. /\ LocksInv /\ Globals
      /\ at[t].pc = "park_core" /\ at[t].op = "park" /\ at[t].br \in DOMAIN backend
  BY DEF PoolInv, AloneInv, LocksInv, ThreadInv, PlaceOfCall, CommitPark, At
<1>1. /\ UNCHANGED <<kind, backend, snapshots, current, calls>> /\ Ended' = Ended
      /\ origin' = Append(origin, backend[at[t].br]) /\ backend[at[t].br] \in Nat
  BY <1>0 DEF CommitPark, treeVars, registryVars, Ended, Globals, IsMap, Ids
<1>2. /\ \A i \in Ids : origin'[i] = origin[i]
      /\ origin'[NewId] = backend[at[t].br] /\ NewId \notin snapshots
  BY <1>0, <1>1, Grown DEF Globals
<1>3. /\ at'[t].pc = "park_remove" /\ at'[t].op = "park" /\ at'[t].br = at[t].br
      /\ at'[t].sid = NewId /\ \A u \in Thread \ {t} : at'[u] = at[u]
  BY <1>0, CommitParkMoves DEF Moved, OnlyBy
<1>4. t \in Sealers /\ Sealers' \subseteq Sealers \ {t}
  BY <1>0, <1>3 DEF Sealers
<1>5. CheckpointsCounted'
  BY <1>1, <1>4, CountSealed
<1>6. Quietly(t)
  BY <1>0, <1>1, <1>2, <1>3 DEF Quietly, Halfway
<1>7. ASSUME NEW u \in Thread PROVE SourceOf(u)'
  <2>1. CASE u = t
    BY <1>1, <1>2, <1>3, <2>1 DEF SourceOf
  <2>2. CASE u # t
    BY <1>1, <1>2, <1>3, <2>2, SourcesKept
  <2> QED
    BY <2>1, <2>2
<1> QED
  BY <1>1, <1>5, <1>6, <1>7 DEF PoolInv

\* The parked branch stops being current with the call that has parked it.
LEMMA RecordParkShown ==
    ASSUME PoolInv, AloneInv', NEW t \in Thread, RecordPark(t)
    PROVE  /\ PoolInv'
           /\ PoolNow' = PoolNow /\ LineageNow' = LineageNow
           /\ CurrentNow' = CurrentNow
<1>0. /\ LocksInv /\ at[t].pc = "park_record" /\ at[t].op = "park" /\ HoldsR(t)
  BY DEF PoolInv, AloneInv, LocksInv, ThreadInv, PlaceOfCall, RecordPark, At, HoldsR
<1>1. /\ UNCHANGED <<kind, backend, origin, snapshots, calls>> /\ Ended' = Ended
      /\ current' = IF current = at[t].br THEN Main ELSE current
  BY DEF RecordPark, backendVars, Ended
<1>2. Returned(t) /\ \A u \in Thread \ {t} : at'[u] = at[u]
  BY <1>0, Returns DEF RecordPark, OnlyBy
<1>3. \A u \in Thread \ {t} : at[u].pc \notin {"park_remove", "park_record"}
  BY <1>0, OneHolder DEF HoldsR
<1>4. Sealers' \subseteq Sealers
  BY <1>2 DEF Sealers, Returned
<1>5. ASSUME NEW u \in Thread PROVE SourceOf(u)'
  <2>1. CASE u = t
    BY <1>2, <2>1 DEF SourceOf, Returned
  <2>2. CASE u # t
    BY <1>1, <1>2, <2>2, SourcesKept
  <2> QED
    BY <2>1, <2>2
<1>6. PoolInv'
  BY <1>1, <1>4, <1>5, CountKept DEF PoolInv
<1>7. Materializing' = Materializing
  BY <1>0, <1>2, MaterializingKept DEF Halfway, Returned
<1>8. (Parked(current) <=> current = at[t].br) /\ ~Parked(current)'
  BY <1>0, <1>2, <1>3 DEF Parked, At, Returned
<1> QED
  BY <1>1, <1>6, <1>7, <1>8 DEF PoolNow, LineageNow, CurrentNow

\* The pool has the forks of a request, those included that are not listed.
LEMMA PoolForks ==
    ASSUME NEW t \in Thread, NEW new \in SUBSET Branch, NEW lost \in SUBSET Branch,
           ForksNew(t, new, lost), Materializing' = Materializing,
           Materializing \cap (new \cup lost) = {}
    PROVE  PoolNow' = Pool!Extended(PoolNow, new \cup lost, at[t].base)
<1>1. DOMAIN PoolNow' = DOMAIN PoolNow \cup (new \cup lost)
  BY DEF ForksNew, PoolNow
<1>2. ASSUME NEW b \in DOMAIN PoolNow'
      PROVE  PoolNow'[b] = IF b \in new \cup lost THEN at[t].base ELSE PoolNow[b]
  BY DEF ForksNew, PoolNow
<1>3. PoolNow' = [b \in DOMAIN PoolNow' |-> PoolNow'[b]]
  BY DEF PoolNow
<1> QED
  BY <1>1, <1>2, <1>3 DEF Pool!Extended

\* A request whose forks are all unlisted is a fork of the pool.
LEMMA UnlistedPool ==
    ASSUME PoolInv, AloneInv', NEW t \in Thread, MaterializeFails(t), ~UNCHANGED backend
    PROVE  PoolInv' /\ Pool!Next
<1>0. /\ AloneInv /\ LocksInv /\ Globals /\ ThreadInv(t) /\ SourceOf(t) /\ Return(t)
      /\ at[t].pc = "materialize" /\ at[t].op \in {"fork", "fork_auto", "restore"}
      /\ R \in {NoThread, t} /\ ~Halfway(t) /\ at[t].base \in Ids
      /\ UNCHANGED <<kind, origin, snapshots, live, current, calls>>
  BY DEF PoolInv, AloneInv, LocksInv, ThreadInv, PlaceOfCall, CheckpointsKnown,
         MaterializeFails, At, Free, Halfway, treeVars, registryVars
<1>1. ~Ended /\ \E lost \in SUBSET Branch : Forked(t, {}, lost)
  BY DEF MaterializeFails
<1>2. PICK lost \in SUBSET Branch : Forked(t, {}, lost)
  BY <1>1
<1>3. ForksNew(t, {}, lost) /\ ForksMade(t, {}, lost)
  BY <1>0, <1>1, <1>2, ForkedForks, ForksAlone
<1>4. lost # {}
  <2>1. ASSUME lost = {} PROVE FALSE
    <3>1. DOMAIN backend' = DOMAIN backend /\ \A b \in DOMAIN backend : backend'[b] = backend[b]
      BY <1>3, <2>1 DEF ForksNew
    <3>2. backend = [b \in DOMAIN backend |-> backend[b]]
      BY <1>0 DEF Globals, IsMap
    <3>3. backend' = [b \in DOMAIN backend' |-> backend'[b]]
      BY <1>3 DEF ForksNew, IsMap
    <3> QED
      BY <3>1, <3>2, <3>3
  <2> QED
    BY <2>1
<1>5. Returned(t) /\ \A u \in Thread \ {t} : at'[u] = at[u]
  BY <1>0, Returns DEF OnlyBy
<1>6. at[t].base \in snapshots
  BY <1>0 DEF SourceOf
<1>7. PoolInv'
  <2>1. Sealers' \subseteq Sealers
    BY <1>5 DEF Sealers, Returned
  <2>2. SourceOf(t)'
    BY <1>5 DEF SourceOf, Returned
  <2>3. ASSUME NEW u \in Thread \ {t} PROVE SourceOf(u)'
    <3>1. at[u].pc # "park_remove"
      BY <1>0, Types DEF LocksInv, ThreadInv, LocksHeld, HoldsR
    <3> QED
      BY <1>0, <1>5, <3>1, SourcesKept
  <2> QED
    BY <1>0, <1>3, <2>1, <2>2, <2>3, CountKept DEF PoolInv, ForksMade
<1>8. LineageNow' = LineageNow
  BY <1>0 DEF LineageNow
<1>9. CurrentNow' = CurrentNow
  <2>1. Parked(current)' <=> Parked(current)
    BY <1>0, <1>5 DEF Parked, At, Returned
  <2> QED
    BY <1>0, <1>1, <1>3, <2>1 DEF CurrentNow, ForksMade
<1>10. Materializing' = Materializing
  BY <1>0, <1>5, MaterializingKept DEF Halfway, Returned
<1>11. Materializing \cap lost = {}
  <2>1. ASSUME NEW u \in Thread, Halfway(u), NEW b \in at[u].ids PROVE b \in DOMAIN backend
    <3>1. u # t
      BY <1>0, <2>1
    <3>2. Pending(u)
      BY <1>3, <2>1, <3>1 DEF Halfway, Pending, Made, ForksMade, Changing
    <3>3. DOMAIN backend = live \cup unlisted
      BY <1>0, <1>1, Agreement DEF Changing
    <3>4. b \in live
      BY <1>0, <2>1, <3>2 DEF AloneInv, InStep, ThreadAlone, ServiceOf
    <3> QED
      BY <3>3, <3>4
  <2> QED
    BY <1>3, <2>1, MaterializingOf DEF ForksNew
<1>12. PoolNow' = Pool!Extended(PoolNow, lost, at[t].base)
  <2>1. {} \cup lost = lost /\ {} \in SUBSET Branch
    OBVIOUS
  <2>2. PoolNow' = Pool!Extended(PoolNow, {} \cup lost, at[t].base)
    BY <1>3, <1>10, <1>11, <2>1, PoolForks
  <2> QED
    BY <2>1, <2>2
<1>13. lost \in SUBSET (Branch \ DOMAIN PoolNow)
  BY <1>3 DEF PoolNow, ForksNew
<1>14. Main \in DOMAIN PoolNow /\ at[t].base \in DOMAIN LineageNow
  BY <1>0, <1>1, <1>6, MainShown DEF LineageNow
<1>15. Pool!Next
  BY <1>4, <1>8, <1>9, <1>12, <1>13, <1>14, ShowsFork
<1> QED
  BY <1>7, <1>15

\* fork makes its branches at once; the one of a restore is not shown yet.
LEMMA MaterializePool ==
    ASSUME PoolInv, AloneInv', NEW t \in Thread, Materialize(t)
    PROVE  /\ PoolInv'
           /\ \/ Pool!Next
              \/ PoolNow' = PoolNow /\ LineageNow' = LineageNow /\ CurrentNow' = CurrentNow
<1>0. /\ AloneInv /\ LocksInv /\ Globals /\ ThreadInv(t) /\ SourceOf(t)
      /\ at[t].pc = "materialize" /\ at[t].op \in {"fork", "fork_auto", "restore"}
      /\ ~Halfway(t) /\ DOMAIN branches = live /\ ~Ended
  BY DEF PoolInv, AloneInv, InStep, LocksInv, ThreadInv, PlaceOfCall, Materialize, At, Halfway
<1>1. UNCHANGED <<kind, origin, snapshots, live, current, calls>>
  BY DEF Materialize, treeVars, registryVars
<1>2. PICK new \in SUBSET Branch, lost \in SUBSET Branch :
              /\ Moved(t, "register", at[t].dob, at[t].base, at[t].sid, new, at[t].view)
              /\ OnlyBy(t)
              /\ O' = O /\ R' = t /\ R \in {NoThread, t} /\ C' = C
              /\ new # {} /\ Forked(t, new, lost)
  BY <1>0, MaterializeMoves
<1>3. ForksNew(t, new, lost) /\ ForksMade(t, new, lost)
  <2>1. at[t].base \in Ids
    BY <1>0 DEF ThreadInv, PlaceOfCall, CheckpointsKnown
  <2> QED
    BY <1>0, <1>2, <2>1, ForkedForks, ForksAlone
<1>4. /\ at'[t].pc = "register" /\ at'[t].op = at[t].op
      /\ at'[t].base = at[t].base /\ at'[t].ids = new
      /\ \A u \in Thread \ {t} : at'[u] = at[u]
      /\ \A u \in Thread \ {t} : at[u].pc \notin Changing /\ at[u].pc # "park_remove"
  <2>1. \A u \in Thread \ {t} : ~HoldsR(u)
    BY <1>0, <1>2, Types DEF LocksInv, ThreadInv, LocksHeld
  <2> QED
    BY <1>2, <2>1 DEF Moved, OnlyBy, HoldsR, Changing
<1>5. at[t].base \in snapshots
  BY <1>0 DEF SourceOf
<1>6. PoolInv'
  <2>1. Sealers' \subseteq Sealers
    BY <1>4 DEF Sealers
  <2>2. SourceOf(t)'
    BY <1>1, <1>4, <1>5 DEF SourceOf
  <2>3. ASSUME NEW u \in Thread \ {t} PROVE SourceOf(u)'
    BY <1>1, <1>4, SourcesKept
  <2> QED
    BY <1>1, <1>3, <2>1, <2>2, <2>3, CountKept DEF PoolInv, ForksMade
<1>7. LineageNow' = LineageNow
  BY <1>1 DEF LineageNow
<1>8. CurrentNow' = CurrentNow
  <2>1. Parked(current)' <=> Parked(current)
    BY <1>0, <1>1, <1>4 DEF Parked, At
  <2> QED
    BY <1>0, <1>1, <1>3, <2>1 DEF CurrentNow, ForksMade
<1>9. Materializing \cap (new \cup lost) = {}
  <2>1. ASSUME NEW u \in Thread, Halfway(u), NEW b \in at[u].ids PROVE b \in DOMAIN backend
    <3>1. Pending(u)
      BY <1>0, <1>4, <2>1 DEF Halfway, Pending, Made, Changing
    <3> QED
      BY <1>0, <1>2, <2>1, <3>1, Agreement DEF AloneInv, ThreadAlone, ServiceOf, Changing
  <2> QED
    BY <1>3, <2>1, MaterializingOf DEF ForksNew
<1>10. CASE at[t].op # "restore"
  <2>1. Materializing' = Materializing
    BY <1>0, <1>4, <1>10, MaterializingKept DEF Halfway
  <2>2. PoolNow' = Pool!Extended(PoolNow, new \cup lost, at[t].base)
    BY <1>3, <1>9, <2>1, PoolForks
  <2>3. new \cup lost \in SUBSET (Branch \ DOMAIN PoolNow)
    BY <1>3 DEF PoolNow, ForksNew
  <2>4. Main \in DOMAIN PoolNow /\ at[t].base \in DOMAIN LineageNow
    BY <1>0, <1>5, MainShown DEF LineageNow
  <2>5. Pool!Next
    BY <1>2, <1>7, <1>8, <2>2, <2>3, <2>4, ShowsFork
  <2> QED
    BY <1>6, <2>5
<1>11. CASE at[t].op = "restore"
  <2>1. \A u \in Thread \ {t} : ~Halfway(u)
    BY <1>0, <1>11, OneHolder DEF Halfway, HoldsC
  <2>2. Halfway(t)'
    BY <1>4, <1>11 DEF Halfway
  <2>3. \A u \in Thread \ {t} : ~Halfway(u)'
    BY <1>4, <2>1 DEF Halfway
  <2>4. \A b : b \notin Materializing
    BY <1>0, <2>1, MaterializingOf
  <2>5. \A b : b \in Materializing' <=> b \in new
    BY <1>4, <2>2, <2>3, MaterializingOf
  <2>6. lost = {}
    BY <1>2, <1>3, <1>11 DEF ForksNew
  <2>7. PoolNow' = PoolNow
    BY <1>3, <2>4, <2>5, <2>6 DEF PoolNow, ForksNew
  <2> QED
    BY <1>6, <1>7, <1>8, <2>7
<1> QED
  BY <1>10, <1>11

\* A restore has registered its branch.
LEMMA RegisterShown ==
    ASSUME PoolInv, AloneInv', NEW t \in Thread, Register(t), at[t].op = "restore"
    PROVE  /\ PoolInv'
           /\ PoolNow' = PoolNow /\ LineageNow' = LineageNow /\ CurrentNow' = CurrentNow
<1>0. AloneInv /\ LocksInv /\ at[t].pc = "register" /\ SourceOf(t)
  BY DEF PoolInv, AloneInv, Register, At
<1>1. UNCHANGED <<kind, backend, origin, snapshots, current, calls>> /\ Ended' = Ended
  BY DEF Register, backendVars, treeVars, Ended
<1>2. /\ at'[t].pc = "switch" /\ at'[t].op = "restore" /\ at'[t].ids = at[t].ids
      /\ at'[t].base = at[t].base /\ \A u \in Thread \ {t} : at'[u] = at[u]
  BY <1>0, RegisterMoves DEF Moved, OnlyBy
<1>3. PoolInv'
  <2>1. Sealers' \subseteq Sealers
    BY <1>2 DEF Sealers
  <2>2. SourceOf(t)'
    BY <1>0, <1>1, <1>2 DEF SourceOf
  <2>3. ASSUME NEW u \in Thread \ {t} PROVE SourceOf(u)'
    BY <1>1, <1>2, SourcesKept
  <2> QED
    BY <1>1, <2>1, <2>2, <2>3, CountKept DEF PoolInv
<1>4. Materializing' = Materializing
  <2>1. \A u \in Thread : (Halfway(u)' <=> Halfway(u)) /\ at'[u].ids = at[u].ids
    BY <1>0, <1>2 DEF Halfway
  <2>2. \A b : b \in Materializing' <=> b \in Materializing
    BY <2>1, MaterializingOf
  <2> QED
    BY <2>2
<1>5. Parked(current)' <=> Parked(current)
  BY <1>0, <1>1, <1>2 DEF Parked, At
<1> QED
  BY <1>1, <1>3, <1>4, <1>5 DEF PoolNow, LineageNow, CurrentNow

\* restore takes effect when it makes its branch the current one.
LEMMA SwitchPool ==
    ASSUME PoolInv, AloneInv', NEW t \in Thread, Switch(t)
    PROVE  /\ PoolInv'
           /\ \/ Pool!Next
              \/ PoolNow' = PoolNow /\ LineageNow' = LineageNow /\ CurrentNow' = CurrentNow
<1>0. /\ AloneInv /\ LocksInv /\ ThreadInv(t) /\ ThreadAlone(t) /\ SourceOf(t)
      /\ at[t].pc = "switch" /\ at[t].op = "restore" /\ Pending(t) /\ Halfway(t) /\ HoldsC(t)
      /\ DOMAIN branches = live
  BY DEF PoolInv, AloneInv, InStep, LocksInv, ThreadInv, PlaceOfCall, Switch, At, Pending, Made,
         Halfway, HoldsC
<1>1. PICK b \in Branch : at[t].ids = {b}
  BY <1>0 DEF ThreadInv, CheckpointsKnown, Made
<1>2. /\ b \in live /\ at[t].ids \subseteq DOMAIN branches /\ ~st[branches[b]].active
      /\ b \in DOMAIN backend => backend[b] = at[t].base
  BY <1>0, <1>1 DEF ThreadAlone, ServiceOf
<1>3. UNCHANGED <<kind, backend, origin, snapshots, calls>> /\ Ended' = Ended /\ current' = b
  <2>1. current' = CHOOSE c \in Branch : at[t].ids = {c}
    BY <1>2 DEF Switch
  <2>2. current' = b
    BY <1>1, <2>1
  <2> QED
    BY <2>2 DEF Switch, backendVars, treeVars, Ended
<1>4. /\ \A u \in Thread \ {t} : at'[u] = at[u]
      /\ at'[t].pc \in {"retire", "position"}
      /\ at'[t].op = "restore" /\ at'[t].base = at[t].base
  <2>1. CASE Departs(t)
    BY <1>0, <1>2, <2>1, SwitchRetires DEF Moved, OnlyBy
  <2>2. CASE ~Departs(t)
    BY <1>0, <1>2, <2>2, SwitchPositions DEF Moved, OnlyBy
  <2> QED
    BY <2>1, <2>2
<1>5. PoolInv'
  <2>1. Sealers' \subseteq Sealers
    BY <1>4 DEF Sealers
  <2>2. SourceOf(t)'
    BY <1>0, <1>3, <1>4 DEF SourceOf
  <2>3. ASSUME NEW u \in Thread \ {t} PROVE SourceOf(u)'
    BY <1>3, <1>4, SourcesKept
  <2> QED
    BY <1>3, <2>1, <2>2, <2>3, CountKept DEF PoolInv
<1>6. LineageNow' = LineageNow
  BY <1>3 DEF LineageNow
<1>7. Materializing = {b} /\ Materializing' = {}
  <2>1. ~Halfway(t)'
    BY <1>4 DEF Halfway
  <2>2. \A u \in Thread \ {t} : ~Halfway(u)
    BY <1>0, OneHolder DEF Halfway, HoldsC
  <2>3. \A u \in Thread \ {t} : ~Halfway(u)'
    BY <1>4, <2>2 DEF Halfway
  <2>4. \A c : c \notin Materializing'
    BY <2>1, <2>3, MaterializingOf
  <2> QED
    BY <1>0, <1>1, <2>4, Apart
<1>8. CASE Ended
  <2>1. DOMAIN backend = {}
    BY <1>0, <1>8 DEF AloneInv, InStep
  <2>2. PoolNow' = PoolNow
    BY <1>3, <2>1 DEF PoolNow
  <2>3. CurrentNow' = CurrentNow
    BY <1>3, <1>8 DEF CurrentNow
  <2> QED
    BY <1>5, <1>6, <2>2, <2>3
<1>9. CASE ~Ended
  <2>1. \A u \in Thread : at[u].pc \in {"forget", "park_record"} => at[u].br # b
    BY <1>0, <1>2, Owners DEF Inside, Removing
  <2>2. b \in DOMAIN backend /\ backend[b] = at[t].base
    BY <1>0, <1>2, <1>9, <2>1, Alive
  <2>3. ~Parked(current)'
    <3>1. \A u \in Thread \ {t} : at[u].pc # "park_record"
      BY <1>0, OneHolder DEF AloneInv, LocksInv, ThreadInv, PlaceOfCall, HoldsC
    <3> QED
      BY <1>4, <3>1 DEF Parked, At
  <2>4. CurrentNow' = b
    BY <1>3, <1>9, <2>3 DEF CurrentNow
  <2>5. PoolNow' = Pool!Extended(PoolNow, {b}, at[t].base)
    BY <1>3, <1>7, <2>2 DEF PoolNow, Pool!Extended
  <2>6. b \in Branch \ DOMAIN PoolNow
    BY <1>7 DEF PoolNow
  <2>7. Main \in DOMAIN PoolNow /\ at[t].base \in DOMAIN LineageNow
    BY <1>0, <1>9, MainShown DEF LineageNow, SourceOf
  <2>8. Pool!Next
    BY <1>6, <2>4, <2>5, <2>6, <2>7, ShowsRestore
  <2> QED
    BY <1>5, <2>8
<1> QED
  BY <1>8, <1>9

\* discard_branch, and the end of the branch that a restore departs from.
LEMMA DestroyPool ==
    ASSUME PoolInv, AloneInv', NEW t \in Thread, Destroy(t)
    PROVE  PoolInv' /\ Pool!Next
<1>0. /\ AloneInv /\ LocksInv /\ ThreadAlone(t) /\ SourceOf(t)
      /\ at[t].pc = "destroy" /\ at[t].op \in {"restore", "discard"}
      /\ HoldsC(t) /\ HoldsR(t) /\ ~Halfway(t) /\ at[t].br \in DOMAIN backend
  BY DEF PoolInv, AloneInv, LocksInv, ThreadInv, PlaceOfCall, HoldsR, HoldsC, Halfway,
         Destroy, At
<1>1. at[t].br \notin {Main, current} /\ ~Ended
  BY <1>0 DEF ThreadAlone, CurrentKept, AloneInv, InStep
<1>2. /\ UNCHANGED <<kind, origin, snapshots, current, calls>> /\ Ended' = Ended
      /\ DOMAIN backend' = DOMAIN backend \ {at[t].br}
      /\ \A b \in DOMAIN backend' : backend'[b] = backend[b]
  BY <1>1 DEF Destroy, Without, treeVars, registryVars, Ended
<1>3. /\ at'[t].pc = "forget" /\ at'[t].op = at[t].op /\ at'[t].base = at[t].base
      /\ \A u \in Thread \ {t} : at'[u] = at[u]
      /\ \A u \in Thread \ {t} : at[u].pc \notin {"park_remove", "park_record"}
  BY <1>0, DestroyMoves, OneHolder DEF Moved, OnlyBy, HoldsR
<1>4. PoolInv'
  <2>1. Sealers' \subseteq Sealers
    BY <1>3 DEF Sealers
  <2>2. SourceOf(t)'
    BY <1>0, <1>2, <1>3 DEF SourceOf
  <2>3. ASSUME NEW u \in Thread \ {t} PROVE SourceOf(u)'
    BY <1>2, <1>3, SourcesKept
  <2> QED
    BY <1>2, <2>1, <2>2, <2>3, CountKept DEF PoolInv
<1>5. Materializing = {} /\ Materializing' = {}
  <2>1. ~Halfway(t)'
    BY <1>3 DEF Halfway
  <2> QED
    BY <1>0, <1>3, <2>1, Apart, MaterializingKept
<1>6. at[t].br \in DOMAIN PoolNow /\ PoolNow' = Pool!Without(PoolNow, {at[t].br})
  BY <1>0, <1>2, <1>5 DEF PoolNow, Pool!Without
<1>7. LineageNow' = LineageNow
  BY <1>2 DEF LineageNow
<1>8. CurrentNow = current /\ CurrentNow' = current
  BY <1>0, <1>1, <1>2, <1>3 DEF CurrentNow, Parked, At
<1> QED
  BY <1>1, <1>4, <1>6, <1>7, <1>8, ShowsDiscard

\* cleanup takes every branch, and whatever a call has made and not shown.
LEMMA TearDownPool ==
    ASSUME PoolInv, AloneInv', NEW t \in Thread, TearDown(t)
    PROVE  PoolInv' /\ Pool!Next
<1>0. /\ AloneInv /\ LocksInv /\ Globals /\ at[t].pc = "cleanup" /\ kind = "waypoint"
  BY DEF PoolInv, AloneInv, LocksInv, SourceOf, TearDown, At
<1>1. /\ UNCHANGED <<kind, origin, snapshots, current, calls>> /\ Ended'
      /\ DOMAIN backend' = {}
  BY DEF TearDown, Without, registryVars, treeVars, Ended
<1>2. Returned(t) /\ \A u \in Thread \ {t} : at'[u] = at[u]
  BY <1>0, Returns DEF TearDown, OnlyBy
<1>3. PoolInv'
  <2>1. Sealers' \subseteq Sealers
    BY <1>2 DEF Sealers, Returned
  <2>2. SourceOf(t)'
    BY <1>2 DEF SourceOf, Returned
  <2>3. ASSUME NEW u \in Thread \ {t} PROVE SourceOf(u)'
    <3>1. at[u].pc # "park_remove"
      BY <1>0 DEF AloneInv, ThreadAlone, BaseOf
    <3> QED
      BY <1>1, <1>2, <3>1, SourcesKept
  <2> QED
    BY <1>0, <1>1, <2>1, <2>2, <2>3, CountKept DEF PoolInv
<1>4. LineageNow' = LineageNow /\ CurrentNow' = Main
  BY <1>1 DEF LineageNow, CurrentNow
<1> QED
  BY <1>1, <1>3, <1>4, ShowsCleanUp

-----------------------------------------------------------------------------
(* The refinement.                                                         *)

\* A step that shows nothing stutters.
LEMMA ShowsNothing ==
    ASSUME PoolNow' = PoolNow, LineageNow' = LineageNow, CurrentNow' = CurrentNow
    PROVE  UNCHANGED Pool!vars
  BY DEF PoolNow, LineageNow, CurrentNow, Pool!vars

\* A new manager has main, at its initial checkpoint.
LEMMA InitPool == Init => PoolInv /\ Pool!Init
<1> SUFFICES ASSUME Init PROVE PoolInv /\ Pool!Init
  OBVIOUS
<1>1. /\ AloneInv /\ DOMAIN backend = {Main} /\ backend[Main] = 1 /\ ~Ended
      /\ snapshots = {1} /\ origin = <<0>> /\ current = Main /\ calls = 0
  BY InitAlone DEF Init, Ended, NoSnapshot
<1>2. \A t \in Thread : at[t].pc = "idle" /\ at[t].op = "none"
  BY DEF Init, Idle
<1>3. CheckpointsCounted
  <2>1. Sealers = {}
    BY <1>2 DEF Sealers
  <2>2. IsFiniteSet(Sealers) /\ Cardinality(Sealers) = 0
    BY <2>1, FS_EmptySet
  <2> QED
    BY <1>1, <2>2 DEF CheckpointsCounted
<1>4. \A t \in Thread : SourceOf(t)
  BY <1>2 DEF SourceOf
<1>5. \A b : b \notin Materializing
  BY <1>2, MaterializingOf DEF Halfway
<1>6. PoolNow = [b \in {Main} |-> 1]
  BY <1>1, <1>5 DEF PoolNow
<1>7. LineageNow = [s \in {1} |-> 0]
  BY <1>1 DEF LineageNow
<1>8. CurrentNow = Main
  BY <1>1, <1>2 DEF CurrentNow
<1>9. Pool!Init
  BY <1>6, <1>7, <1>8 DEF Pool!Init, PoolNow, LineageNow, CurrentNow
<1> QED
  BY <1>1, <1>3, <1>4, <1>9 DEF PoolInv

\* Every step of the manager is a step of the pool, or one that it does not show.
LEMMA PoolStep ==
    Alone /\ PoolInv /\ [Next]_vars => PoolInv' /\ [Pool!Next]_(Pool!vars)
<1> SUFFICES ASSUME Alone, PoolInv, [Next]_vars
             PROVE  PoolInv' /\ [Pool!Next]_(Pool!vars)
  OBVIOUS
<1>0. AloneInv /\ AloneInv'
  BY NextAlone DEF PoolInv
<1>1. ASSUME NEW t \in Thread, PoolInv' /\ Quietly(t)
      PROVE  PoolInv' /\ [Pool!Next]_(Pool!vars)
  BY <1>0, <1>1, QuietShown, ShowsNothing
<1>2. ASSUME NEW t \in Thread, Begin(t) PROVE PoolInv' /\ [Pool!Next]_(Pool!vars)
  BY <1>0, <1>1, <1>2, BeginQuiet
<1>3. ASSUME NEW t \in Thread, Continue(t) PROVE PoolInv' /\ [Pool!Next]_(Pool!vars)
  <2>1. CASE \/ Refused(t) \/ LockExec(t) \/ Run(t) \/ LockSeal(t) \/ SnapshotFails(t)
             \/ Query(t) \/ QueryFails(t) \/ Apply(t) \/ Prune(t) \/ Record(t)
    BY <1>0, <1>1, <2>1, ExecQuiet
  <2>2. CASE CoreSnapshot(t) \/ Commit(t)
    BY <1>0, <2>2, SealPool
  <2>3. CASE \/ LockDeparting(t) \/ Position(t)
             \/ MaterializeFails(t) /\ UNCHANGED backend
             \/ Register(t) /\ at[t].op # "restore"
    BY <1>0, <1>1, <2>3, RestoreQuiet
  <2>4. CASE Register(t) /\ at[t].op = "restore"
    BY <1>0, <2>4, RegisterShown, ShowsNothing
  <2>5. CASE Materialize(t)
    BY <1>0, <2>5, MaterializePool, ShowsNothing
  <2>6. CASE Switch(t)
    BY <1>0, <2>6, SwitchPool, ShowsNothing
  <2>7. CASE LockRetiring(t) \/ CheckRetiring(t) \/ DestroyFails(t) \/ Forget(t)
    BY <1>0, <1>1, <2>7, RetireQuiet
  <2>8. CASE Destroy(t)
    BY <1>0, <2>8, DestroyPool
  <2>9. CASE LockPark(t) \/ CheckPark(t) \/ UndoCommit(t) \/ ParkFails(t) \/ TearDownFails(t)
    BY <1>0, <1>1, <2>9, ParkQuiet
  <2>10. CASE CorePark(t) \/ RemoveParked(t)
    BY <1>0, <2>10, ParkPool
  <2>11. CASE CommitPark(t)
    BY <1>0, <1>1, <2>11, CommitQuiet
  <2>12. CASE RecordPark(t)
    BY <1>0, <2>12, RecordParkShown, ShowsNothing
  <2>13. CASE TearDown(t)
    BY <1>0, <2>13, TearDownPool
  <2>14. CASE MaterializeFails(t) /\ ~UNCHANGED backend
    BY <1>0, <2>14, UnlistedPool
  <2> QED
    BY <1>3, <2>1, <2>2, <2>3, <2>4, <2>5, <2>6, <2>7, <2>8, <2>9, <2>10, <2>11, <2>12,
       <2>13, <2>14 DEF Continue
<1>4. CASE Others
  BY <1>4 DEF Alone, Others, OtherSeals, OtherDestroys, OtherForks, OthersMay
<1>5. CASE UNCHANGED vars
  <2>1. UNCHANGED <<kind, backend, origin, snapshots, current, calls, at>> /\ Ended' = Ended
    BY <1>5 DEF vars, Ended
  <2>2. Sealers' \subseteq Sealers
    BY <2>1 DEF Sealers
  <2>3. ASSUME NEW t \in Thread PROVE SourceOf(t)'
    <3>1. SourceOf(t)
      BY DEF PoolInv
    <3> QED
      BY <2>1, <3>1 DEF SourceOf
  <2>4. PoolInv'
    BY <1>0, <2>1, <2>2, <2>3, CountKept DEF PoolInv
  <2>5. Materializing' = Materializing /\ (Parked(current)' <=> Parked(current))
    BY <2>1 DEF Materializing, Parked, At
  <2>6. UNCHANGED Pool!vars
    BY <2>1, <2>5, ShowsNothing DEF PoolNow, LineageNow, CurrentNow
  <2> QED
    BY <2>4, <2>6
<1> QED
  BY <1>2, <1>3, <1>4, <1>5 DEF Next

\* The bookkeeping of the refinement holds in every reachable state: a call makes
\* one checkpoint at most, what is forked is a registered snapshot, and an image
\* of Docker is not registered before its container is removed.
THEOREM PoolInvariant == ASSUME Alone PROVE Spec => []PoolInv
<1>1. Init => PoolInv
  BY InitPool
<1>2. PoolInv /\ [Next]_vars => PoolInv'
  BY PoolStep
<1> QED
  BY <1>1, <1>2, PTL DEF Spec

\* "Multiple live instances of one snapshot": snapshot, fork, restore, discard,
\* park and cleanup take effect in one step each, whatever the backend fails to do
\* and however the calls of all the threads overlap.
THEOREM PoolImplemented == ASSUME Alone PROVE Spec => ImplementsPool
<1>1. Init => Pool!Init
  BY InitPool
<1>2. PoolInv /\ [Next]_vars => [Pool!Next]_(Pool!vars)
  BY PoolStep
<1> QED
  BY <1>1, <1>2, PoolInvariant, PTL DEF Spec, ImplementsPool, Pool!Spec
=============================================================================
