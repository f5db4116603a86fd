------------------------ MODULE OnlyManager_proofs ------------------------
(***************************************************************************)
(* Theorems about the forkable manager when nobody else works on its       *)
(* session, for any set of threads and of branches, any number of calls,   *)
(* both backends and every failure of theirs.                              *)
(***************************************************************************)
EXTENDS ForkableManager_proofs

Alone == "other_manager" \notin Faults

\* A thread works on a branch that it has taken the operation lock of, and found
\* in service.
Inside(t) ==
    \/ at[t].pc \in {"run", "core", "park_core", "park_remove", "park_record"}
    \/ Sealing(t)
Removing(t) == at[t].pc \in {"destroy", "forget"}

\* A branch that a restore has registered and not yet positioned.
Pending(t) == Made(t) /\ at[t].pc # "register"

\* The registries and the backend, in the middle of a change as well.  A fork that
\* is unlisted is in the session and in neither registry.
Changing == {"register", "forget", "park_record"}
InStep ==
    /\ Ended => DOMAIN backend = {}
    /\ DOMAIN branches = live
    /\ {Main, current} \subseteq live
    /\ unlisted \subseteq DOMAIN backend \ live
    /\ unlisted # {} => kind = "waypoint"
    /\ ~Ended /\ (\A t \in Thread : at[t].pc \notin Changing)
          => DOMAIN backend = live \cup unlisted

\* The state objects in service are the registered ones, but for a pending one.
InService ==
    /\ \A o \in State :
        st[o].active => o.branch \in DOMAIN branches /\ branches[o.branch] = o
    /\ \A b \in DOMAIN branches :
        st[branches[b]].active \/ \E t \in Thread : Pending(t) /\ b \in at[t].ids

\* Positions over Waypoint: a branch that is being sealed is ahead of its own.
Positioned ==
    kind = "waypoint" =>
        \A b \in DOMAIN branches \cap DOMAIN backend :
            \/ st[branches[b]].pos = backend[b]
            \/ \E t \in Thread : Sealing(t) /\ at[t].br = b

\* How far a change of the registries has come.
ChangeOf(t) ==
    /\ at[t].pc = "register" =>
        /\ ~Ended => DOMAIN backend = live \cup at[t].ids \cup unlisted
        /\ at[t].ids \cap (live \cup unlisted) = {}
        /\ \A b \in at[t].ids \cap DOMAIN backend : backend[b] = at[t].base
    /\ at[t].pc \in {"forget", "park_record"} =>
        (~Ended => DOMAIN backend = (live \ {at[t].br}) \cup unlisted)

\* Nobody takes main away, and only a park takes what is current.
CurrentKept(t) ==
    /\ at[t].op = "discard" => at[t].br \notin {Main, current}
    /\ at[t].op = "park" => at[t].br # Main
    /\ at[t].op = "restore" =>
        IF at[t].pc \in {"departing", "materialize", "register", "switch"}
        THEN at[t].br = current /\ (at[t].pc = "switch" => current \notin at[t].ids)
        ELSE at[t].ids = {current}
    /\ at[t].pc \in {"retire", "check", "destroy", "forget"}
          => at[t].br \notin {Main, current}

\* The objects that a thread works on, and the branch that a restore has made.
ServiceOf(t) ==
    /\ Inside(t) => st[at[t].ob].active
    /\ Removing(t) => st[at[t].dob].active
    /\ Pending(t) =>
        \A b \in at[t].ids :
            /\ b # Main
            /\ b \in DOMAIN branches
            /\ ~st[branches[b]].active
            /\ st[branches[b]].pos = at[t].base
            /\ b \in DOMAIN backend => backend[b] = at[t].base

\* An answer of the backend that is about to be applied.
AnswerCurrent(t) ==
    /\ at[t].pc = "apply" =>
        /\ live \subseteq DOMAIN at[t].view
        /\ ~Ended => DOMAIN at[t].view = live \cup unlisted
        /\ \A b \in DOMAIN at[t].view \ live :
              kind = "waypoint" /\ b \in DOMAIN backend => at[t].view[b] = backend[b]
        /\ \A b \in live :
            /\ st[branches[b]].active \/ at[t].view[b] = st[branches[b]].pos
            /\ kind = "waypoint" /\ b \in DOMAIN backend =>
                \/ at[t].view[b] = backend[b]
                \/ /\ at[t].view[b] = st[branches[b]].pos
                   /\ \A u \in Thread : at[u].pc = "record" => at[u].br # b
    /\ at[t].pc = "prune" => at[t].ids = {}

\* What a thread has read of its branch's base over Waypoint.
BaseOf(t) ==
    kind = "waypoint" =>
        /\ at[t].pc # "park_remove"
        /\ at[t].pc \in {"core", "park_core"} /\ at[t].br \in DOMAIN backend
              => at[t].base = backend[at[t].br]
        /\ Sealing(t) /\ at[t].br \in DOMAIN backend => at[t].sid = backend[at[t].br]
        /\ Sealing(t) \/ at[t].pc = "park_record" => at[t].base = origin[at[t].sid]

ThreadAlone(t) ==
    ChangeOf(t) /\ CurrentKept(t) /\ ServiceOf(t) /\ AnswerCurrent(t) /\ BaseOf(t)

AloneInv ==
    /\ LocksInv
    /\ InStep
    /\ InService
    /\ Positioned
    /\ LineageTrue
    /\ \A t \in Thread : ThreadAlone(t)

-----------------------------------------------------------------------------
(* Who owns what.                                                          *)

\* The branch that a thread works on is registered, in service, and its own.
LEMMA Owners ==
    ASSUME AloneInv, NEW t \in Thread, Inside(t) \/ Removing(t)
    PROVE  /\ at[t].br \in live /\ at[t].br \in DOMAIN branches
           /\ branches[at[t].br] \in State
           /\ O[branches[at[t].br]] = t
           /\ st[branches[at[t].br]].active
           /\ Inside(t) => at[t].ob = branches[at[t].br]
           /\ Removing(t) => at[t].dob = branches[at[t].br]
<1>0. /\ LocksInv /\ ThreadInv(t) /\ ThreadAlone(t) /\ at[t].ob \in State
      /\ at[t].dob \in State
  BY Types DEF AloneInv, LocksInv
<1>1. /\ \A o \in State : st[o].active => o.branch \in DOMAIN branches /\ branches[o.branch] = o
      /\ DOMAIN branches = live
  BY DEF AloneInv, InService, InStep
<1>2. CASE Inside(t)
  <2>1. st[at[t].ob].active
    BY <1>0, <1>2 DEF ThreadAlone, ServiceOf
  <2>2. O[at[t].ob] = t /\ at[t].ob.branch = at[t].br
    BY <1>0, <1>2
       DEF Inside, Sealing, ThreadInv, PlaceOfCall, LocksHeld, HoldsOb, ObjectsNamed
  <2>3. ~Removing(t)
    BY <1>2 DEF Inside, Sealing, Removing
  <2> QED
    BY <1>0, <1>1, <2>1, <2>2, <2>3
<1>3. CASE Removing(t)
  <2>1. st[at[t].dob].active
    BY <1>0, <1>3 DEF ThreadAlone, ServiceOf
  <2>2. O[at[t].dob] = t /\ at[t].dob.branch = at[t].br
    BY <1>0, <1>3 DEF Removing, ThreadInv, LocksHeld, HoldsDob, ObjectsNamed
  <2>3. ~Inside(t)
    BY <1>3 DEF Inside, Sealing, Removing
  <2> QED
    BY <1>0, <1>1, <2>1, <2>2, <2>3
<1> QED
  BY <1>2, <1>3

\* Two threads never work on one branch.
LEMMA OneOwner ==
    ASSUME AloneInv, NEW t \in Thread, NEW u \in Thread \ {t},
           Inside(t) \/ Removing(t), Inside(u) \/ Removing(u)
    PROVE  at[t].br # at[u].br
  BY Owners

\* One thread at a time holds the registry lock, and one the current-branch lock.
LEMMA OneHolder ==
    ASSUME LocksInv, NEW t \in Thread, NEW u \in Thread \ {t}
    PROVE  ~(HoldsR(t) /\ HoldsR(u)) /\ ~(HoldsC(t) /\ HoldsC(u))
  BY DEF LocksInv, ThreadInv, LocksHeld

\* While no other thread changes the registries they agree with the backend, but
\* for the unlisted forks.
LEMMA Agreement ==
    ASSUME AloneInv, NEW t \in Thread, R \in {NoThread, t}, at[t].pc \notin Changing, ~Ended
    PROVE  DOMAIN backend = live \cup unlisted
<1>1. ASSUME NEW u \in Thread PROVE at[u].pc \notin Changing
  <2>1. u # t => ~HoldsR(u)
    BY Types DEF AloneInv, LocksInv, ThreadInv, LocksHeld
  <2> QED
    BY <2>1 DEF HoldsR, Changing
<1> QED
  BY <1>1 DEF AloneInv, InStep

\* A branch is alive unless the thread that takes it away has done so.
LEMMA Alive ==
    ASSUME AloneInv, ~Ended, NEW b \in live,
           \A u \in Thread : at[u].pc \in {"forget", "park_record"} => at[u].br # b
    PROVE  b \in DOMAIN backend
<1>1. CASE \A t \in Thread : at[t].pc \notin Changing
  BY <1>1 DEF AloneInv, InStep
<1>2. CASE \E t \in Thread : at[t].pc \in Changing
  <2>1. PICK t \in Thread : at[t].pc \in Changing
    BY <1>2
  <2> QED
    BY <2>1 DEF AloneInv, ThreadAlone, ChangeOf, Changing
<1> QED
  BY <1>1, <1>2

-----------------------------------------------------------------------------
(* Steps that leave the registries and the backend alone.                  *)

\* A step of t that changes its place, its locks and what it knows.
LEMMA QuietAlone ==
    ASSUME AloneInv, LocksInv', NEW t \in Thread, OnlyBy(t), DataKept,
           at[t].pc \notin Changing, at'[t].pc \notin Changing,
           Pending(t) => Pending(t)' /\ at'[t].ids = at[t].ids,
           Sealing(t) => Sealing(t)' /\ at'[t].br = at[t].br,
           at'[t].pc = "record" => \A u \in Thread \ {t} : at[u].pc # "apply",
           ThreadAlone(t)'
    PROVE  AloneInv'
<1>0. /\ kind' = kind /\ backend' = backend /\ unlisted' = unlisted
      /\ origin' = origin /\ graph' = graph
      /\ live' = live /\ branches' = branches /\ st' = st /\ current' = current
      /\ Ended' = Ended
      /\ \A u \in Thread \ {t} : at'[u] = at[u]
  BY DEF DataKept, backendVars, treeVars, registryVars, OnlyBy, Ended
<1>1. InStep'
  BY <1>0 DEF AloneInv, InStep
<1>2. InService'
  <2>1. ASSUME NEW u \in Thread, NEW b \in Branch, Pending(u), b \in at[u].ids
        PROVE  Pending(u)' /\ b \in at'[u].ids
    BY <1>0, <2>1 DEF Pending, Made
  <2>2. DOMAIN branches \subseteq Branch
    BY DEF AloneInv, LocksInv, Globals, IsMap
  <2> QED
    BY <1>0, <2>1, <2>2 DEF AloneInv, InService
<1>3. Positioned'
  <2>1. ASSUME NEW u \in Thread, Sealing(u)
        PROVE  Sealing(u)' /\ at'[u].br = at[u].br
    BY <1>0, <2>1 DEF Sealing
  <2> QED
    BY <1>0, <2>1 DEF AloneInv, Positioned
<1>4. LineageTrue'
  BY <1>0 DEF AloneInv, LineageTrue, ParentIsBase
<1>5. ASSUME NEW u \in Thread PROVE ThreadAlone(u)'
  <2>1. CASE u = t
    BY <2>1
  <2>2. CASE u # t
    <3>0. ThreadAlone(u) /\ at'[u] = at[u]
      BY <1>0, <2>2 DEF AloneInv
    <3>1. ChangeOf(u)' /\ CurrentKept(u)' /\ ServiceOf(u)' /\ BaseOf(u)'
      BY <1>0, <3>0 DEF ThreadAlone, ChangeOf, CurrentKept, ServiceOf, BaseOf, Inside,
                        Removing, Pending, Made, Sealing
    <3>2. AnswerCurrent(u)'
      <4>1. ASSUME NEW v \in Thread, at[u].pc = "apply", at'[v].pc = "record"
            PROVE  at'[v] = at[v]
        BY <1>0, <2>2, <4>1
      <4> QED
        BY <1>0, <3>0, <4>1 DEF ThreadAlone, AnswerCurrent
    <3> QED
      BY <3>1, <3>2 DEF ThreadAlone
  <2> QED
    BY <2>1, <2>2
<1> QED
  BY <1>1, <1>2, <1>3, <1>4, <1>5 DEF AloneInv

\* A call begins on a branch that it may touch.
LEMMA BeginAlone ==
    ASSUME AloneInv, NEW t \in Thread, Begin(t)
    PROVE  AloneInv'
<1>0. LocksInv /\ LocksInv' /\ ThreadInv(t)
  BY BeginLocks DEF AloneInv, LocksInv
<1>1. ASSUME OnlyBy(t), DataKept, at[t].pc = "idle",
             at'[t].pc \in {"exec", "seal", "refresh", "cleanup", "departing", "materialize", "retire", "park"},
             at'[t].pc = "refresh" => at'[t].op = "list",
             at'[t].op = "restore" => at'[t].pc = "departing", CurrentKept(t)'
      PROVE  AloneInv'
  <2>1. ~Pending(t) /\ ~Sealing(t) /\ at[t].pc \notin Changing
    BY <1>0, <1>1 DEF Pending, Made, Sealing, ThreadInv, PlaceOfCall, Changing
  <2>2. at'[t].pc \notin Changing /\ at'[t].pc # "record"
    BY <1>1 DEF Changing
  <2>3. ThreadAlone(t)'
    BY <1>1 DEF ThreadAlone, ChangeOf, ServiceOf, AnswerCurrent, BaseOf, Inside, Removing,
                Pending, Made, Sealing
  <2> QED
    BY <1>0, <1>1, <2>1, <2>2, <2>3, QuietAlone
<1>2. CASE Exec(t) \/ Copy(t) \/ Snapshot(t)
  <2>1. PICK place \in {"exec", "seal"}, op \in {"exec", "copy", "snapshot"} : OnCurrent(t, place, op)
    BY <1>2 DEF Exec, Copy, Snapshot
  <2> QED
    BY <1>0, <1>1, <2>1, OnCurrentBegan DEF Began, CurrentKept
<1>3. CASE \E b \in Branch : ExecOnBranch(t, b) \/ CopyBranch(t, b) \/ SnapshotBranch(t, b)
  <2>1. PICK b \in Branch, place \in {"exec", "seal"}, op \in {"exec", "copy", "snapshot"} :
          OnBranch(t, b, place, op)
    BY <1>3 DEF ExecOnBranch, CopyBranch, SnapshotBranch
  <2> QED
    BY <1>0, <1>1, <2>1, OnBranchBegan DEF Began, CurrentKept
<1>4. CASE List(t)
  BY <1>0, <1>1, <1>4, ListBegan DEF Began, CurrentKept
<1>5. CASE CleanUp(t)
  BY <1>0, <1>1, <1>5, CleanUpBegan DEF Began, CurrentKept
<1>6. ASSUME NEW b \in Branch, Discard(t, b) PROVE AloneInv'
  <2>1. b \notin {Main, current} /\ current' = current
    BY <1>6 DEF Discard, registryVars
  <2> QED
    BY <1>0, <1>1, <1>6, <2>1, DiscardBegan DEF Began, CurrentKept
<1>7. ASSUME NEW b \in Branch, Park(t, b) PROVE AloneInv'
  <2>1. b # Main
    BY <1>7 DEF Park
  <2> QED
    BY <1>0, <1>1, <1>7, <2>1, ParkBegan DEF Began, CurrentKept
<1>8. ASSUME NEW s \in Ids, Restore(t, s) PROVE AloneInv'
  <2>1. current' = current
    BY <1>8 DEF Restore, registryVars
  <2> QED
    BY <1>0, <1>1, <1>8, <2>1, RestoreBegan DEF Began, CurrentKept
<1>9. ASSUME NEW s \in Ids, NEW ids \in SUBSET Branch, Fork(t, s, ids) PROVE AloneInv'
  <2>1. PICK op \in {"fork", "fork_auto"} :
          Began(t, "materialize", op, Main, FirstState, FirstState, s, ids)
    BY <1>0, <1>9, ForkBegan
  <2> QED
    BY <1>0, <1>1, <1>9, <2>1, ForkBegan DEF Began, CurrentKept
<1> QED
  BY <1>2, <1>3, <1>4, <1>5, <1>6, <1>7, <1>8, <1>9 DEF Begin

\* A call ends that has nothing half done.
LEMMA ReturnAlone ==
    ASSUME AloneInv, LocksInv', NEW t \in Thread, Return(t), DataKept,
           at[t].pc \notin Changing, ~Pending(t), ~Sealing(t)
    PROVE  AloneInv'
<1>1. Returned(t) /\ OnlyBy(t)
  BY Returns DEF AloneInv
<1>2. ThreadAlone(t)'
  BY <1>1
     DEF Returned, ThreadAlone, ChangeOf, CurrentKept, ServiceOf, AnswerCurrent, BaseOf,
              Inside, Removing, Pending, Made, Sealing
<1> QED
  BY <1>1, <1>2, QuietAlone DEF Returned, Changing

\* Taking locks and looking.
LEMMA ExecAlone ==
    ASSUME AloneInv, NEW t \in Thread,
           Refused(t) \/ LockExec(t) \/ Run(t) \/ LockSeal(t) \/ SnapshotFails(t)
    PROVE  AloneInv'
<1>0. LocksInv /\ LocksInv' /\ ThreadInv(t) /\ ThreadAlone(t)
  BY ExecLocks DEF AloneInv, LocksInv
<1>1. CASE Refused(t) \/ Run(t) \/ SnapshotFails(t)
  <2>1. Return(t) /\ DataKept /\ at[t].pc \in {"exec", "seal", "run", "core"}
    BY <1>1 DEF Refused, Run, SnapshotFails, DataKept, At
  <2>2. at[t].pc \notin Changing /\ ~Pending(t) /\ ~Sealing(t)
    BY <1>0, <2>1 DEF Changing, Pending, Made, Sealing, ThreadInv, PlaceOfCall
  <2> QED
    BY <1>0, <2>1, <2>2, ReturnAlone
<1>2. CASE LockExec(t)
  <2>0. /\ at[t].pc = "exec" /\ at[t].op \in {"exec", "copy"} /\ DataKept
        /\ st[at[t].ob].active
    BY <1>0, <1>2 DEF LockExec, DataKept, At, ThreadInv, PlaceOfCall
  <2>1. ThreadAlone(t)'
    BY <1>0, <1>2, <2>0, LockExecMoves
       DEF DataKept, registryVars, Moved, ThreadAlone, ChangeOf, CurrentKept, ServiceOf,
           AnswerCurrent, BaseOf,
           Inside, Removing, Pending, Made, Sealing
  <2>2. /\ at[t].pc \notin Changing /\ at'[t].pc \notin Changing /\ ~Pending(t)
        /\ ~Sealing(t)
        /\ at'[t].pc # "record"
    BY <1>0, <1>2, <2>0, LockExecMoves DEF Changing, Pending, Made, Sealing, Moved
  <2> QED
    BY <1>0, <1>2, <2>0, <2>1, <2>2, LockExecMoves, QuietAlone
<1>3. CASE LockSeal(t)
  <2>0. at[t].pc = "seal" /\ at[t].op = "snapshot" /\ DataKept /\ st[at[t].ob].active
    BY <1>0, <1>3 DEF LockSeal, DataKept, At, ThreadInv, PlaceOfCall
  <2>1. at[t].ob.branch = at[t].br /\ at[t].ob \in State /\ O[at[t].ob] \in {NoThread, t}
    BY <1>0, <1>3, <2>0, Types DEF ThreadInv, ObjectsNamed, LockSeal, Free
  <2>2. at[t].br \in DOMAIN branches /\ branches[at[t].br] = at[t].ob
    BY <2>0, <2>1 DEF AloneInv, InService
  <2>3. ASSUME NEW u \in Thread, Sealing(u) PROVE at[u].br # at[t].br
    <3>1. u # t
      BY <2>0, <2>3 DEF Sealing
    <3> QED
      BY <2>1, <2>2, <2>3, <3>1, Owners, Types DEF Inside, AloneInv
  <2>4. kind = "waypoint" /\ at[t].br \in DOMAIN backend => st[at[t].ob].pos = backend[at[t].br]
    BY <2>2, <2>3 DEF AloneInv, Positioned
  <2>5. ThreadAlone(t)'
    BY <1>0, <1>3, <2>0, <2>4, LockSealMoves
       DEF DataKept, registryVars, backendVars, Moved, ThreadAlone, ChangeOf, CurrentKept,
           ServiceOf,
           AnswerCurrent, BaseOf, Inside, Removing, Pending, Made, Sealing
  <2>6. /\ at[t].pc \notin Changing /\ at'[t].pc \notin Changing /\ ~Pending(t)
        /\ ~Sealing(t)
        /\ at'[t].pc # "record"
    BY <1>0, <1>3, <2>0, LockSealMoves DEF Changing, Pending, Made, Sealing, Moved
  <2> QED
    BY <1>0, <1>3, <2>0, <2>5, <2>6, LockSealMoves, QuietAlone
<1> QED
  BY <1>1, <1>2, <1>3

\* Locks taken, second looks, and failures of the backend.
LEMMA LookAlone ==
    ASSUME AloneInv, NEW t \in Thread,
           \/ LockDeparting(t) \/ LockRetiring(t) \/ CheckRetiring(t) \/ DestroyFails(t)
           \/ LockPark(t) \/ CheckPark(t) \/ UndoCommit(t) \/ ParkFails(t) \/ TearDownFails(t)
    PROVE  AloneInv'
<1>0. LocksInv /\ LocksInv' /\ ThreadInv(t) /\ ThreadAlone(t)
  BY RestoreLocks, RetireLocks, ParkLocks, CleanupLocks DEF AloneInv, LocksInv
<1> USE DEF ThreadAlone, ChangeOf, CurrentKept, ServiceOf, AnswerCurrent, BaseOf,
            Inside, Removing, Pending, Made, Sealing
<1>1. CASE LockDeparting(t)
  <2>0. at[t].pc = "departing" /\ at[t].op = "restore" /\ DataKept
    BY <1>0, <1>1 DEF LockDeparting, DataKept, At, ThreadInv, PlaceOfCall
  <2>1. CASE at[t].base \in DOMAIN graph
    <3>1. ThreadAlone(t)'
      BY <1>0, <1>1, <2>0, <2>1, LockDepartingMoves DEF DataKept, registryVars, Moved
    <3>2. at'[t].pc = "materialize" /\ OnlyBy(t)
      BY <1>0, <1>1, <2>1, LockDepartingMoves DEF Moved
    <3> QED
      BY <1>0, <2>0, <3>1, <3>2, QuietAlone DEF Changing
  <2>2. CASE at[t].base \notin DOMAIN graph
    BY <1>0, <1>1, <2>0, <2>2, ReturnAlone DEF LockDeparting, Changing
  <2> QED
    BY <2>1, <2>2
<1>2. CASE UndoCommit(t) \/ ParkFails(t) \/ TearDownFails(t)
  <2>1. /\ Return(t) /\ DataKept
        /\ at[t].pc \in {"park_remove", "park_core", "cleanup"}
    BY <1>2 DEF UndoCommit, ParkFails, TearDownFails, DataKept, At
  <2>2. at[t].pc \notin Changing /\ ~Pending(t) /\ ~Sealing(t)
    BY <1>0, <2>1 DEF Changing, ThreadInv, PlaceOfCall
  <2> QED
    BY <1>0, <2>1, <2>2, ReturnAlone
<1>3. CASE LockRetiring(t)
  <2>0. at[t].pc = "retire" /\ at[t].op \in {"restore", "discard"} /\ DataKept
    BY <1>0, <1>3 DEF LockRetiring, DataKept, At, ThreadInv, PlaceOfCall
  <2>1. ThreadAlone(t)'
    BY <1>0, <1>3, <2>0, LockRetiringMoves DEF DataKept, registryVars, backendVars, Moved
  <2>2. /\ at'[t].pc = "check" /\ at'[t].op = at[t].op /\ at'[t].ids = at[t].ids
        /\ OnlyBy(t)
    BY <1>0, <1>3, LockRetiringMoves DEF Moved
  <2> QED
    BY <1>0, <2>0, <2>1, <2>2, QuietAlone DEF Changing
<1>4. ASSUME Retired(t), DataKept, at[t].pc \in {"check", "destroy"}, at[t].op \in {"restore", "discard"}
      PROVE  AloneInv'
  <2>1. CASE at[t].op = "restore"
    <3>1. ThreadAlone(t)'
      BY <1>0, <1>4, <2>1, RetiredMoves DEF DataKept, registryVars, backendVars, Moved
    <3>2. /\ at'[t].pc = "position" /\ at'[t].op = at[t].op /\ at'[t].ids = at[t].ids
          /\ OnlyBy(t)
      BY <1>0, <1>4, <2>1, RetiredMoves DEF Moved
    <3> QED
      BY <1>0, <1>4, <2>1, <3>1, <3>2, QuietAlone DEF Changing
  <2>2. CASE at[t].op # "restore"
    <3>1. Return(t)
      BY <1>4, <2>2 DEF Retired
    <3> QED
      BY <1>0, <1>4, <2>2, <3>1, ReturnAlone DEF Changing
  <2> QED
    BY <2>1, <2>2
<1>5. CASE CheckRetiring(t)
  <2>0. at[t].pc = "check" /\ at[t].op \in {"restore", "discard"} /\ DataKept
    BY <1>0, <1>5 DEF CheckRetiring, DataKept, At, ThreadInv, PlaceOfCall
  <2>1. CASE at[t].br \in live /\ st[at[t].dob].active
    <3>1. ThreadAlone(t)'
      BY <1>0, <1>5, <2>0, <2>1, CheckRetiringMoves
         DEF DataKept, registryVars, backendVars, Moved
    <3>2. /\ at'[t].pc = "destroy" /\ at'[t].op = at[t].op /\ at'[t].ids = at[t].ids
          /\ OnlyBy(t)
      BY <1>0, <1>5, <2>1, CheckRetiringMoves DEF Moved
    <3> QED
      BY <1>0, <2>0, <3>1, <3>2, QuietAlone DEF Changing
  <2>2. CASE ~(at[t].br \in live /\ st[at[t].dob].active)
    BY <1>4, <1>5, <2>0, <2>2 DEF CheckRetiring
  <2> QED
    BY <2>1, <2>2
<1>6. CASE DestroyFails(t)
  <2>0. /\ at[t].pc = "destroy" /\ at[t].op \in {"restore", "discard"} /\ DataKept
        /\ Retired(t)
    BY <1>0, <1>6 DEF DestroyFails, DataKept, At, ThreadInv, PlaceOfCall
  <2> QED
    BY <1>4, <2>0
<1>7. CASE LockPark(t)
  <2>0. at[t].pc = "park" /\ at[t].op = "park" /\ DataKept
    BY <1>0, <1>7 DEF LockPark, DataKept, At, ThreadInv, PlaceOfCall
  <2>1. ThreadAlone(t)'
    BY <1>0, <1>7, <2>0, LockParkMoves DEF DataKept, registryVars, backendVars, Moved
  <2>2. at'[t].pc = "park_check" /\ OnlyBy(t)
    BY <1>0, <1>7, LockParkMoves DEF Moved
  <2> QED
    BY <1>0, <2>0, <2>1, <2>2, QuietAlone DEF Changing
<1>8. CASE CheckPark(t)
  <2>0. at[t].pc = "park_check" /\ at[t].op = "park" /\ DataKept
    BY <1>0, <1>8 DEF CheckPark, DataKept, At, ThreadInv, PlaceOfCall
  <2>1. CASE at[t].br \in live /\ st[at[t].ob].active
    <3>1. at[t].ob.branch = at[t].br /\ at[t].ob \in State /\ O[at[t].ob] = t
      BY <1>0, <2>0, Types DEF ThreadInv, ObjectsNamed, LocksHeld, HoldsOb
    <3>2. at[t].br \in DOMAIN branches /\ branches[at[t].br] = at[t].ob
      BY <2>1, <3>1 DEF AloneInv, InService
    <3>3. ASSUME NEW u \in Thread, Sealing(u) PROVE at[u].br # at[t].br
      <4>1. u # t
        BY <2>0, <3>3
      <4> QED
        BY <3>1, <3>2, <3>3, <4>1, Owners
    <3>4. kind = "waypoint" /\ at[t].br \in DOMAIN backend => st[at[t].ob].pos = backend[at[t].br]
      BY <3>2, <3>3 DEF AloneInv, Positioned
    <3>5. ThreadAlone(t)'
      BY <1>0, <1>8, <2>0, <2>1, <3>4, CheckParkMoves
         DEF DataKept, registryVars, backendVars, Moved
    <3>6. at'[t].pc = "park_core" /\ OnlyBy(t)
      BY <1>0, <1>8, <2>1, CheckParkMoves DEF Moved
    <3> QED
      BY <1>0, <2>0, <3>5, <3>6, QuietAlone DEF Changing
  <2>2. CASE ~(at[t].br \in live /\ st[at[t].ob].active)
    BY <1>0, <1>8, <2>0, <2>2, ReturnAlone DEF CheckPark, Changing
  <2> QED
    BY <2>1, <2>2
<1> QED
  BY <1>1, <1>2, <1>3, <1>5, <1>6, <1>7, <1>8

\* What a listing reads is what the branches are based on, or the positions.
LEMMA ViewFresh ==
    ASSUME AloneInv, ~Ended, DOMAIN backend = live \cup unlisted
    PROVE  /\ DOMAIN View = live \cup unlisted
           /\ \A b \in live : st[branches[b]].active \/ View[b] = st[branches[b]].pos
           /\ kind = "waypoint" => View = backend
<1>1. DOMAIN View = live \cup unlisted
  BY ViewTypes DEF AloneInv
<1>2. ASSUME NEW b \in live, kind = "docker" PROVE View[b] = st[branches[b]].pos
  BY <1>2 DEF View, Containers, AloneInv, InStep
<1>3. kind = "waypoint" => View = backend
  BY DEF View
<1>4. ASSUME NEW b \in live, kind = "waypoint"
      PROVE  st[branches[b]].active \/ View[b] = st[branches[b]].pos
  <2>1. CASE ~st[branches[b]].active
    <3>1. PICK u \in Thread : Pending(u) /\ b \in at[u].ids
      BY <2>1 DEF AloneInv, InService, InStep
    <3> QED
      BY <1>3, <1>4, <3>1 DEF AloneInv, ThreadAlone, ServiceOf
  <2> QED
    BY <2>1
<1>5. kind \in {"waypoint", "docker"}
  BY ForkableAssumption DEF AloneInv, LocksInv, Globals
<1> QED
  BY <1>1, <1>2, <1>3, <1>4, <1>5

\* An answer is asked for under the registry lock.
LEMMA QueryAlone ==
    ASSUME AloneInv, NEW t \in Thread, Query(t) \/ QueryFails(t)
    PROVE  AloneInv'
<1>0. /\ LocksInv /\ LocksInv' /\ ThreadInv(t) /\ ThreadAlone(t)
      /\ at[t].pc = "refresh" /\ at[t].op \in {"snapshot", "list"}
  BY ListLocks DEF AloneInv, LocksInv, ThreadInv, PlaceOfCall, Query, QueryFails, At
<1> USE DEF ThreadAlone, ChangeOf, CurrentKept, ServiceOf, AnswerCurrent, BaseOf,
            Inside, Removing, Pending, Made, Sealing
<1>1. CASE Query(t)
  <2>1. DataKept /\ ~Ended /\ R \in {NoThread, t}
    BY <1>1 DEF Query, DataKept, Free
  <2>2. DOMAIN backend = live \cup unlisted
    BY <1>0, <2>1, Agreement DEF Changing
  <2>3. /\ at'[t].view = View /\ at'[t].pc = "apply" /\ at'[t].op = at[t].op
        /\ at'[t].br = at[t].br /\ OnlyBy(t)
    BY <1>0, <1>1, QueryMoves DEF Moved
  <2>4. AnswerCurrent(t)'
    BY <2>1, <2>2, <2>3, ViewFresh DEF DataKept, registryVars, backendVars
  <2>5. ThreadAlone(t)'
    BY <1>0, <1>1, <2>1, <2>4, QueryMoves DEF DataKept, registryVars, backendVars, Moved
  <2> QED
    BY <1>0, <2>1, <2>3, <2>5, QuietAlone DEF Changing
<1>2. CASE QueryFails(t)
  <2>1. DataKept /\ R \in {NoThread, t}
    BY <1>2 DEF QueryFails, DataKept, Free
  <2>2. CASE at[t].op = "list"
    <3>1. Return(t)
      BY <1>2, <2>2 DEF QueryFails
    <3> QED
      BY <1>0, <2>1, <2>2, <3>1, ReturnAlone DEF Changing
  <2>3. CASE at[t].op # "list"
    <3>1. /\ at'[t].pc = "record" /\ at'[t].op = at[t].op /\ at'[t].br = at[t].br
          /\ OnlyBy(t)
      BY <1>0, <1>2, <2>3, QueryFailsMoves DEF Moved
    <3>2. ThreadAlone(t)'
      BY <1>0, <1>2, <2>1, <2>3, QueryFailsMoves
         DEF DataKept, registryVars, backendVars, Moved
    <3>3. \A u \in Thread \ {t} : at[u].pc # "apply"
      BY <1>0, <2>1, Types DEF LocksInv, ThreadInv, LocksHeld, HoldsR
    <3> QED
      BY <1>0, <2>1, <3>1, <3>2, <3>3, QuietAlone DEF Changing
  <2> QED
    BY <2>2, <2>3
<1> QED
  BY <1>1, <1>2

\* Nothing has disappeared since the last listing.
LEMMA PruneAlone ==
    ASSUME AloneInv, NEW t \in Thread, Prune(t)
    PROVE  AloneInv'
<1>0. /\ LocksInv /\ LocksInv' /\ ThreadInv(t) /\ ThreadAlone(t)
      /\ at[t].pc = "prune" /\ at[t].op \in {"snapshot", "list"}
  BY ListLocks DEF AloneInv, LocksInv, ThreadInv, PlaceOfCall, Prune, At
<1>1. at[t].ids = {}
  BY <1>0 DEF ThreadAlone, AnswerCurrent
<1>2. DataKept
  <2>1. branches' = branches
    BY <1>1 DEF Prune, Without, AloneInv, LocksInv, Globals, IsMap
  <2>2. st' = st
    BY <1>1 DEF Prune, AloneInv, LocksInv, Globals
  <2> QED
    BY <2>1, <2>2 DEF Prune, DataKept, registryVars
<1> USE DEF ThreadAlone, ChangeOf, CurrentKept, ServiceOf, AnswerCurrent, BaseOf,
            Inside, Removing, Pending, Made, Sealing
<1>3. CASE at[t].op = "list"
  <2>1. Return(t)
    BY <1>3 DEF Prune
  <2> QED
    BY <1>0, <1>2, <1>3, <2>1, ReturnAlone DEF Changing
<1>4. CASE at[t].op # "list"
  <2>1. /\ at'[t].pc = "record" /\ at'[t].op = at[t].op /\ at'[t].br = at[t].br /\ OnlyBy(t)
    BY <1>0, <1>4, PruneMoves DEF Moved
  <2>2. ThreadAlone(t)'
    BY <1>0, <1>2, <1>4, PruneMoves DEF DataKept, registryVars, backendVars, Moved
  <2>3. \A u \in Thread \ {t} : at[u].pc # "apply"
    BY <1>0, Types DEF LocksInv, ThreadInv, LocksHeld, HoldsR
  <2> QED
    BY <1>0, <1>2, <2>1, <2>2, <2>3, QuietAlone DEF Changing
<1> QED
  BY <1>3, <1>4

\* A listing moves positions, and registers the unlisted forks with objects that
\* nobody uses.
LEMMA ApplyEffect ==
    ASSUME AloneInv, NEW t \in Thread, Apply(t)
    PROVE  /\ UNCHANGED <<kind, backend, origin, graph, current>>
           /\ live' = DOMAIN at[t].view /\ DOMAIN branches' = live' /\ unlisted' = {}
           /\ \A b \in live : branches'[b] = branches[b]
           /\ \A o \in InUse \cap State :
                /\ st'[o].active = st[o].active
                /\ ~st[o].active => st'[o] = st[o]
           /\ \A b \in live' :
                /\ branches'[b] \in State /\ branches'[b].branch = b
                /\ st'[branches'[b]].pos = at[t].view[b]
           /\ \A b \in live' \ live : st'[branches'[b]].active
           /\ \A o \in State : st'[o] = st[o] \/ (o.branch \in live' /\ o = branches'[o.branch])
           /\ at'[t].ids = {}
<1>0. /\ LocksInv /\ LocksInv' /\ ThreadAlone(t) /\ at[t].pc = "apply"
      /\ IsMap(branches, State) /\ DOMAIN branches = live
      /\ DOMAIN at[t].view \in SUBSET Branch
  <2>1. at[t].view \in Views
    BY Types DEF AloneInv
  <2> QED
    BY <2>1, ListLocks DEF AloneInv, InStep, LocksInv, Globals, Apply, At, Views
<1>1. /\ live \subseteq DOMAIN at[t].view
      /\ \A b \in live : st[branches[b]].active \/ at[t].view[b] = st[branches[b]].pos
  BY <1>0 DEF ThreadAlone, AnswerCurrent
<1>2. /\ Registrable(DOMAIN at[t].view)
      /\ live' = DOMAIN at[t].view
      /\ branches' = [b \in DOMAIN branches \cup DOMAIN at[t].view |-> StateOf(b)]
      /\ st' = [o \in State |->
                    IF /\ o.branch \in DOMAIN at[t].view /\ o = StateOf(o.branch)
                       /\ o.branch \in DOMAIN at[t].view \cap DOMAIN branches
                             => st[o].pos # at[t].view[o.branch]
                    THEN [pos |-> at[t].view[o.branch], active |-> TRUE]
                    ELSE st[o]]
      /\ unlisted' = unlisted \ DOMAIN at[t].view
      /\ UNCHANGED <<kind, backend, origin, graph, current>>
  BY DEF Apply, treeVars
<1>3. \A b \in live : StateOf(b) = branches[b] /\ branches[b] \in State /\ branches[b].branch = b
  BY <1>0 DEF StateOf, IsMap, LocksInv, BranchesNamed
<1>4. \A b \in live' : StateOf(b) \in State /\ StateOf(b).branch = b
                       /\ (b \notin live => StateOf(b) \notin InUse)
  BY <1>0, <1>2, StateOfBranch DEF Registrable
<1>5. /\ DOMAIN branches' = live' /\ \A b \in live' : branches'[b] = StateOf(b)
      /\ \A b \in live : branches'[b] = branches[b]
  BY <1>0, <1>1, <1>2, <1>3
<1>6. unlisted' = {}
  <2>1. CASE Ended
    BY <1>2, <2>1 DEF AloneInv, InStep
  <2>2. CASE ~Ended
    BY <1>0, <1>2, <2>2 DEF ThreadAlone, AnswerCurrent
  <2> QED
    BY <2>1, <2>2
<1>7. ASSUME NEW b \in live'
      PROVE  /\ st'[StateOf(b)].pos = at[t].view[b]
             /\ st'[StateOf(b)].active = (b \notin live \/ st[StateOf(b)].active)
             /\ b \in live /\ ~st[StateOf(b)].active => st'[StateOf(b)] = st[StateOf(b)]
  <2>1. StateOf(b) \in State /\ StateOf(b).branch = b
    BY <1>4
  <2>2. CASE b \in live /\ st[StateOf(b)].pos = at[t].view[b]
    <3>1. st'[StateOf(b)] = st[StateOf(b)]
      BY <1>0, <1>1, <1>2, <2>1, <2>2
    <3>2. st[StateOf(b)].active \in BOOLEAN
      BY <1>0, <2>1 DEF LocksInv, Globals
    <3> QED
      BY <2>2, <3>1, <3>2
  <2>3. CASE ~(b \in live /\ st[StateOf(b)].pos = at[t].view[b])
    <3>1. st'[StateOf(b)] = [pos |-> at[t].view[b], active |-> TRUE]
      BY <1>0, <1>2, <2>1, <2>3
    <3>2. b \in live => st[StateOf(b)].active = TRUE
      <4>1. ASSUME b \in live PROVE st[StateOf(b)].active
        BY <1>1, <1>3, <2>3, <4>1
      <4>2. st[StateOf(b)].active \in BOOLEAN
        BY <1>0, <2>1 DEF LocksInv, Globals
      <4> QED
        BY <4>1, <4>2
    <3>3. st'[StateOf(b)].active = TRUE /\ st'[StateOf(b)].pos = at[t].view[b]
      BY <3>1
    <3> QED
      BY <3>2, <3>3
  <2> QED
    BY <2>2, <2>3
<1>8. \A o \in State : st'[o] = st[o] \/ (o.branch \in live' /\ o = StateOf(o.branch))
  BY <1>2
<1>9. ASSUME NEW o \in InUse \cap State
      PROVE  st'[o].active = st[o].active /\ (~st[o].active => st'[o] = st[o])
  <2>1. CASE st'[o] = st[o]
    BY <2>1
  <2>2. CASE o.branch \in live' /\ o = StateOf(o.branch)
    <3>1. o.branch \in live
      BY <1>4, <2>2
    <3>2. st[o].active \in BOOLEAN
      BY <1>0 DEF LocksInv, Globals
    <3> QED
      BY <1>7, <2>2, <3>1, <3>2
  <2> QED
    BY <1>8, <2>1, <2>2
<1>10. at'[t].ids = {}
  BY <1>0, <1>1, ApplyMoves DEF Moved
<1>11. \A b \in live' \ live : st'[branches'[b]].active
  BY <1>5, <1>7
<1>12. \A b \in live' : branches'[b] \in State /\ branches'[b].branch = b
                        /\ st'[branches'[b]].pos = at[t].view[b]
  BY <1>4, <1>5, <1>7
<1>13. \A o \in State : st'[o] = st[o] \/ (o.branch \in live' /\ o = branches'[o.branch])
  BY <1>5, <1>8
<1> QED
  BY <1>2, <1>5, <1>6, <1>9, <1>10, <1>11, <1>12, <1>13

\* An answer repositions the branches in service, puts the unlisted forks in
\* service, and unregisters none.
LEMMA ApplyAlone ==
    ASSUME AloneInv, NEW t \in Thread, Apply(t)
    PROVE  AloneInv'
<1>0. /\ LocksInv /\ LocksInv' /\ ThreadInv(t) /\ ThreadAlone(t)
      /\ at[t].pc = "apply" /\ at[t].op \in {"snapshot", "list"}
      /\ IsMap(branches, State) /\ DOMAIN branches = live /\ {Main, current} \subseteq live
      /\ live \subseteq DOMAIN at[t].view
  BY ListLocks
     DEF AloneInv, InStep, LocksInv, Globals, ThreadInv, PlaceOfCall, Apply, At,
         ThreadAlone, AnswerCurrent
<1>1. /\ UNCHANGED <<kind, backend, origin, graph, current>> /\ Ended' = Ended
      /\ live \subseteq live' /\ live' = DOMAIN at[t].view /\ DOMAIN branches' = live'
      /\ unlisted' = {}
      /\ \A b \in live : branches'[b] = branches[b] /\ branches[b] \in State
      /\ \A b \in live : branches[b] \in InUse
  BY <1>0, ApplyEffect DEF Ended, InUse, IsMap
<1>2. /\ \A o \in InUse \cap State : st'[o].active = st[o].active
      /\ \A o \in InUse \cap State : ~st[o].active => st'[o] = st[o]
      /\ \A b \in live' : st'[branches'[b]].pos = at[t].view[b]
      /\ \A b \in live' \ live : st'[branches'[b]].active
      /\ \A o \in State : st'[o] = st[o] \/ (o.branch \in live' /\ o = branches'[o.branch])
  BY ApplyEffect
<1>3. /\ at'[t].pc = "prune" /\ at'[t].op = at[t].op /\ at'[t].br = at[t].br
      /\ at'[t].ids = {}
      /\ at'[t].base = at[t].base /\ at'[t].sid = at[t].sid
      /\ at'[t].ob = at[t].ob /\ at[t].ob \in State /\ at[t].ob \in InUse
      /\ OnlyBy(t) /\ \A u \in Thread \ {t} : at'[u] = at[u]
  BY <1>0, ApplyMoves, ApplyEffect, Types DEF Moved, OnlyBy, InUse
<1>4. \A u \in Thread \ {t} : at[u].pc \notin Changing /\ at[u].pc # "apply"
  BY <1>0, OneHolder DEF HoldsR, Changing
<1>5. InStep'
  <2>1. ~Ended => DOMAIN backend = live'
    <3>1. \A u \in Thread : at[u].pc \notin Changing
      BY <1>0, <1>4 DEF Changing
    <3>2. ~Ended => DOMAIN backend = live \cup unlisted /\ live' = live \cup unlisted
      BY <1>0, <1>1, <3>1 DEF AloneInv, InStep, ThreadAlone, AnswerCurrent
    <3> QED
      BY <3>2
  <2> QED
    BY <1>0, <1>1, <2>1 DEF AloneInv, InStep
<1>6. InService'
  <2>1. ASSUME NEW u \in Thread, Pending(u)
        PROVE  Pending(u)' /\ at'[u].ids = at[u].ids
    BY <1>0, <1>3, <2>1 DEF Pending, Made
  <2>2. ASSUME NEW o \in State, st'[o].active
        PROVE  o.branch \in DOMAIN branches' /\ branches'[o.branch] = o
    BY <1>0, <1>1, <1>2, <2>2 DEF AloneInv, InService
  <2>3. ASSUME NEW b \in live
        PROVE  st'[branches'[b]].active \/ \E u \in Thread : Pending(u)' /\ b \in at'[u].ids
    <3>1. st[branches[b]].active \/ \E u \in Thread : Pending(u) /\ b \in at[u].ids
      BY <1>0 DEF AloneInv, InService
    <3>2. branches'[b] = branches[b] /\ (st[branches[b]].active => st'[branches[b]].active)
      BY <1>1, <1>2
    <3> QED
      BY <2>1, <3>1, <3>2
  <2> QED
    BY <1>1, <1>2, <2>2, <2>3 DEF InService
<1>7. Positioned'
  <2>1. ASSUME NEW u \in Thread, Sealing(u)
        PROVE  Sealing(u)' /\ at'[u].br = at[u].br
    BY <1>0, <1>3, <2>1 DEF Sealing
  <2>2. ASSUME kind = "waypoint", NEW b \in live \cap DOMAIN backend
        PROVE  at[t].view[b] = backend[b] \/ at[t].view[b] = st[branches[b]].pos
    BY <1>0, <2>2 DEF ThreadAlone, AnswerCurrent
  <2>3. ASSUME kind = "waypoint", NEW b \in (live' \ live) \cap DOMAIN backend
        PROVE  at[t].view[b] = backend[b]
    BY <1>0, <1>1, <2>3 DEF ThreadAlone, AnswerCurrent
  <2>4. ASSUME kind = "waypoint", NEW b \in live' \cap DOMAIN backend
        PROVE  st'[branches'[b]].pos = backend[b] \/ \E u \in Thread : Sealing(u)' /\ at'[u].br = b
    <3>1. CASE b \in live
      <4>1. st[branches[b]].pos = backend[b] \/ \E u \in Thread : Sealing(u) /\ at[u].br = b
        BY <1>0, <2>4, <3>1 DEF AloneInv, Positioned
      <4> QED
        BY <1>2, <2>1, <2>2, <2>4, <3>1, <4>1
    <3>2. CASE b \notin live
      BY <1>2, <2>3, <2>4, <3>2
    <3> QED
      BY <3>1, <3>2
  <2> QED
    BY <1>1, <2>4 DEF Positioned
<1>8. LineageTrue'
  BY <1>1 DEF AloneInv, LineageTrue, ParentIsBase
<1>9. ThreadAlone(t)'
  <2>1. Inside(t)' => Inside(t)
    BY <1>0, <1>3 DEF Inside, Sealing
  <2> QED
    BY <1>0, <1>1, <1>2, <1>3, <2>1
       DEF ThreadAlone, ChangeOf, CurrentKept, ServiceOf, AnswerCurrent, BaseOf,
           Removing, Pending, Made, Sealing
<1>10. ASSUME NEW u \in Thread \ {t} PROVE ThreadAlone(u)'
  <2>0. /\ ThreadAlone(u) /\ at'[u] = at[u] /\ at[u].pc \notin Changing /\ at[u].pc # "apply"
        /\ at[u].ob \in InUse \cap State /\ at[u].dob \in InUse \cap State
    BY <1>0, <1>3, <1>4, Types DEF AloneInv, InUse
  <2>1. ChangeOf(u)' /\ CurrentKept(u)' /\ AnswerCurrent(u)' /\ BaseOf(u)'
    BY <1>1, <2>0
       DEF ThreadAlone, ChangeOf, CurrentKept, AnswerCurrent, BaseOf, Sealing, Changing
  <2>2. ServiceOf(u)'
    <3>1. ASSUME Pending(u), NEW b \in at[u].ids
          PROVE  /\ b # Main /\ b \in DOMAIN branches' /\ ~st'[branches'[b]].active
                 /\ st'[branches'[b]].pos = at[u].base
                 /\ b \in DOMAIN backend' => backend'[b] = at[u].base
      <4>1. /\ b # Main /\ b \in live /\ ~st[branches[b]].active
            /\ st[branches[b]].pos = at[u].base
            /\ b \in DOMAIN backend => backend[b] = at[u].base
        BY <1>0, <2>0, <3>1 DEF ThreadAlone, ServiceOf
      <4>2. branches'[b] = branches[b] /\ st'[branches[b]] = st[branches[b]]
        BY <1>1, <1>2, <4>1
      <4> QED
        BY <1>1, <4>1, <4>2
    <3> QED
      BY <1>1, <1>2, <2>0, <3>1
         DEF ThreadAlone, ServiceOf, Inside, Removing, Pending, Made, Sealing
  <2> QED
    BY <2>1, <2>2 DEF ThreadAlone
<1> QED
  BY <1>0, <1>5, <1>6, <1>7, <1>8, <1>9, <1>10 DEF AloneInv

\* A checkpoint of a live branch.
LEMMA SealAlone ==
    ASSUME AloneInv, NEW t \in Thread, CoreSnapshot(t) \/ Commit(t)
    PROVE  AloneInv'
<1>0. /\ LocksInv /\ LocksInv' /\ ThreadInv(t) /\ ThreadAlone(t)
      /\ at[t].pc = "core" /\ at[t].op = "snapshot" /\ at[t].br \in DOMAIN backend
      /\ IsMap(branches, State) /\ DOMAIN branches = live
  BY CheckpointLocks
     DEF AloneInv, InStep, LocksInv, Globals, ThreadInv, PlaceOfCall, CoreSnapshot, Commit,
         At
<1>1. /\ UNCHANGED <<kind, unlisted, graph, live, branches, st, current>>
      /\ backend' = [backend EXCEPT ![at[t].br] = NewId]
      /\ origin' = Append(origin, backend[at[t].br])
  BY DEF CoreSnapshot, Commit, registryVars
<1>2. /\ DOMAIN backend' = DOMAIN backend /\ Ended' = Ended
      /\ backend'[at[t].br] = NewId
      /\ \A b \in DOMAIN backend \ {at[t].br} : backend'[b] = backend[b]
      /\ \A i \in Ids : origin'[i] = origin[i]
      /\ origin'[NewId] = backend[at[t].br]
  <2>1. backend[at[t].br] \in Nat
    BY <1>0 DEF LocksInv, Globals, IsMap, Ids
  <2>2. \A i \in Ids : origin'[i] = origin[i]
    BY <1>0, <1>1, <2>1, Grown
  <2>3. origin'[NewId] = backend[at[t].br]
    BY <1>0, <1>1, <2>1, Grown
  <2> QED
    BY <1>0, <1>1, <2>2, <2>3 DEF Ended
<1>3. /\ at'[t].pc = IF kind = "waypoint" THEN "refresh" ELSE "record"
      /\ at'[t].op = "snapshot" /\ at'[t].br = at[t].br /\ at'[t].ob = at[t].ob
      /\ at'[t].base = at[t].base /\ at'[t].sid = NewId /\ at'[t].ids = at[t].ids
      /\ OnlyBy(t) /\ \A u \in Thread \ {t} : at'[u] = at[u]
  <2>1. CASE CoreSnapshot(t)
    BY <1>0, <2>1, CoreSnapshotMoves DEF CoreSnapshot, Moved, OnlyBy
  <2>2. CASE Commit(t)
    BY <1>0, <2>2, CommitMoves DEF Commit, Moved, OnlyBy
  <2> QED
    BY <2>1, <2>2
<1>4. /\ at[t].br \in live /\ st[branches[at[t].br]].active
      /\ \A u \in Thread \ {t} : Inside(u) \/ Removing(u) => at[u].br # at[t].br
  BY <1>0, Owners, OneOwner DEF Inside
<1>5. InStep'
  BY <1>0, <1>1, <1>2, <1>3 DEF AloneInv, InStep, Changing
<1>6. InService'
  <2>1. ASSUME NEW u \in Thread, Pending(u)
        PROVE  Pending(u)' /\ at'[u].ids = at[u].ids
    BY <1>0, <1>3, <2>1 DEF Pending, Made
  <2> QED
    BY <1>0, <1>1, <2>1 DEF AloneInv, InService
<1>7. Positioned'
  <2>1. ASSUME NEW u \in Thread, Sealing(u)
        PROVE  Sealing(u)' /\ at'[u].br = at[u].br
    BY <1>0, <1>3, <2>1 DEF Sealing
  <2>2. kind = "waypoint" => Sealing(t)'
    BY <1>3 DEF Sealing
  <2> QED
    BY <1>1, <1>2, <1>3, <2>1, <2>2 DEF AloneInv, Positioned
<1>8. LineageTrue'
  BY <1>0, <1>1, <1>2 DEF AloneInv, LineageTrue, ParentIsBase, LocksInv, Globals
<1>9. ThreadAlone(t)'
  BY <1>0, <1>1, <1>2, <1>3
     DEF ThreadAlone, ChangeOf, CurrentKept, ServiceOf, AnswerCurrent, BaseOf,
         Inside, Removing, Pending, Made, Sealing
<1>10. ASSUME NEW u \in Thread \ {t} PROVE ThreadAlone(u)'
  <2>0. ThreadAlone(u) /\ at'[u] = at[u] /\ ThreadInv(u)
    BY <1>3 DEF AloneInv, LocksInv
  <2>1. ChangeOf(u)'
    BY <1>1, <1>2, <1>4, <2>0 DEF ThreadAlone, ChangeOf
  <2>2. CurrentKept(u)'
    BY <1>1, <2>0 DEF ThreadAlone, CurrentKept
  <2>3. ServiceOf(u)'
    BY <1>1, <1>2, <1>4, <2>0
       DEF ThreadAlone, ServiceOf, Inside, Removing, Pending, Made, Sealing
  <2>4. AnswerCurrent(u)'
    <3>1. kind = "waypoint" => st[branches[at[t].br]].pos = backend[at[t].br]
      <4>1. \A v \in Thread : Sealing(v) => at[v].br # at[t].br
        BY <1>0, <1>4 DEF Sealing, Inside
      <4> QED
        BY <1>0, <1>4, <4>1 DEF AloneInv, Positioned
    <3>2. \A v \in Thread : at[v].pc = "record" => Sealing(v)
      BY DEF AloneInv, LocksInv, ThreadInv, PlaceOfCall, Sealing
    <3>3. ASSUME kind = "waypoint", NEW v \in Thread, at'[v].pc = "record"
          PROVE  at[v].pc = "record" /\ at'[v].br = at[v].br /\ at[v].br # at[t].br
      <4>1. v # t
        BY <1>3, <3>3
      <4> QED
        BY <1>3, <1>4, <3>2, <3>3, <4>1 DEF Inside
    <3>4. AnswerCurrent(u)
      BY <2>0 DEF ThreadAlone
    <3> QED
      BY <1>1, <1>2, <1>4, <2>0, <3>1, <3>3, <3>4 DEF AnswerCurrent
  <2>5. BaseOf(u)'
    <3>1. Sealing(u) \/ at[u].pc = "park_record" => at[u].sid \in Ids
      BY <1>0, <2>0 DEF ThreadInv, CheckpointsKnown, LocksInv, Globals
    <3>2. at[u].pc \in {"core", "park_core"} \/ Sealing(u) => at[u].br # at[t].br
      BY <1>4 DEF Inside
    <3> QED
      BY <1>1, <1>2, <2>0, <3>1, <3>2 DEF ThreadAlone, BaseOf, Sealing
  <2> QED
    BY <2>1, <2>2, <2>3, <2>4, <2>5 DEF ThreadAlone
<1> QED
  BY <1>0, <1>5, <1>6, <1>7, <1>8, <1>9, <1>10 DEF AloneInv

\* The last step of snapshot.
LEMMA RecordAlone ==
    ASSUME AloneInv, NEW t \in Thread, Record(t)
    PROVE  AloneInv'
<1>0. /\ LocksInv /\ LocksInv' /\ ThreadInv(t) /\ ThreadAlone(t) /\ Globals
      /\ at[t].pc = "record" /\ at[t].op = "snapshot" /\ Sealing(t)
      /\ at[t].sid \in snapshots
      /\ IsMap(branches, State) /\ DOMAIN branches = live
  BY RecordLocks
     DEF AloneInv, InStep, LocksInv, Globals, ThreadInv, PlaceOfCall, CheckpointsKnown,
         Sealing, Record, At
<1>1. /\ UNCHANGED <<kind, backend, unlisted, origin, live, branches, current>>
      /\ Ended' = Ended
      /\ graph' = RecordNode(graph, at[t].sid, at[t].base)
      /\ st' = [st EXCEPT ![at[t].ob].pos = at[t].sid]
  BY DEF Record, backendVars, Ended
<1>2. Return(t) /\ Returned(t) /\ OnlyBy(t) /\ \A u \in Thread \ {t} : at'[u] = at[u]
  BY <1>0, Returns DEF Record, OnlyBy
<1>3. /\ at[t].br \in live /\ at[t].ob = branches[at[t].br] /\ at[t].ob \in State
      /\ st[at[t].ob].active
      /\ at[t].ob.branch = at[t].br
      /\ \A u \in Thread \ {t} : Inside(u) \/ Removing(u) => at[u].br # at[t].br
  BY <1>0, Owners, OneOwner DEF Inside, LocksInv, BranchesNamed
<1>4. /\ st'[at[t].ob].pos = at[t].sid
      /\ \A o \in State : st'[o].active = st[o].active
      /\ \A o \in State \ {at[t].ob} : st'[o] = st[o]
  BY <1>0, <1>1, <1>3 DEF Globals
<1>5. \A b \in live : branches[b] \in State /\ (branches[b] = at[t].ob => b = at[t].br)
  BY <1>0, <1>3 DEF IsMap, LocksInv, BranchesNamed
<1>6. InStep'
  BY <1>0, <1>1, <1>2 DEF AloneInv, InStep, Changing, Returned
<1>7. InService'
  <2>1. ASSUME NEW u \in Thread, Pending(u)
        PROVE  Pending(u)' /\ at'[u].ids = at[u].ids
    BY <1>0, <1>2, <2>1 DEF Pending, Made
  <2> QED
    BY <1>0, <1>1, <1>4, <1>5, <2>1 DEF AloneInv, InService
<1>8. Positioned'
  <2>1. ASSUME kind = "waypoint", at[t].br \in DOMAIN backend
        PROVE  at[t].sid = backend[at[t].br]
    BY <1>0, <2>1 DEF ThreadAlone, BaseOf
  <2>2. ASSUME NEW u \in Thread, Sealing(u), at[u].br # at[t].br
        PROVE  Sealing(u)' /\ at'[u].br = at[u].br
    BY <1>2, <2>2 DEF Sealing
  <2> QED
    BY <1>0, <1>1, <1>3, <1>4, <1>5, <2>1, <2>2 DEF AloneInv, Positioned
<1>9. LineageTrue'
  <2>1. kind = "waypoint" => at[t].base = origin[at[t].sid]
    BY <1>0 DEF ThreadAlone, BaseOf
  <2>2. /\ DOMAIN graph' = DOMAIN graph \cup {at[t].sid}
        /\ \A x \in DOMAIN graph' :
             graph'[x].parent = IF x = at[t].sid THEN at[t].base ELSE graph[x].parent
    <3>1. at[t].sid \in snapshots /\ at[t].base \in Nat
      BY <1>0, Types
    <3>2. LET g == RecordNode(graph, at[t].sid, at[t].base)
          IN  /\ DOMAIN g = DOMAIN graph \cup {at[t].sid}
              /\ \A x \in DOMAIN graph \cup {at[t].sid} :
                    g[x].parent = IF x = at[t].sid THEN at[t].base ELSE graph[x].parent
      BY <1>0, <3>1, RecordNodeTypes
    <3> QED
      BY <1>1, <3>2
  <2> QED
    BY <1>1, <2>1, <2>2 DEF AloneInv, LineageTrue, ParentIsBase
<1>10. ThreadAlone(t)'
  BY <1>2
     DEF Returned, ThreadAlone, ChangeOf, CurrentKept, ServiceOf, AnswerCurrent, BaseOf,
              Inside, Removing, Pending, Made, Sealing
<1>11. ASSUME NEW u \in Thread \ {t} PROVE ThreadAlone(u)'
  <2>0. ThreadAlone(u) /\ at'[u] = at[u] /\ at[u].ob \in State /\ at[u].dob \in State
    BY <1>0, <1>2, Types DEF AloneInv
  <2>1. ChangeOf(u)' /\ CurrentKept(u)' /\ BaseOf(u)'
    BY <1>1, <2>0 DEF ThreadAlone, ChangeOf, CurrentKept, BaseOf, Sealing
  <2>2. ServiceOf(u)'
    BY <1>0, <1>1, <1>3, <1>4, <1>5, <2>0
       DEF ThreadAlone, ServiceOf, Inside, Removing, Pending, Made, Sealing
  <2>3. AnswerCurrent(u)'
    <3>1. AnswerCurrent(u)
      BY <2>0 DEF ThreadAlone
    <3>2. \A v \in Thread : at'[v].pc = "record" => at[v].pc = "record" /\ at'[v].br = at[v].br
      BY <1>2 DEF Returned
    <3>3. CASE at[u].pc = "apply"
      <4>1. /\ live \subseteq DOMAIN at[u].view
            /\ ~Ended => DOMAIN at[u].view = live \cup unlisted
            /\ \A b \in DOMAIN at[u].view \ live :
                  kind = "waypoint" /\ b \in DOMAIN backend => at[u].view[b] = backend[b]
        BY <3>1, <3>3 DEF AnswerCurrent
      <4>2. ASSUME NEW b \in live
            PROVE  /\ st'[branches[b]].active \/ at[u].view[b] = st'[branches[b]].pos
                   /\ kind = "waypoint" /\ b \in DOMAIN backend =>
                       \/ at[u].view[b] = backend[b]
                       \/ /\ at[u].view[b] = st'[branches[b]].pos
                          /\ \A v \in Thread : at'[v].pc = "record" => at'[v].br # b
        <5>1. CASE b = at[t].br
          BY <1>0, <1>3, <1>4, <3>1, <3>3, <5>1 DEF AnswerCurrent
        <5>2. CASE b # at[t].br
          <6>1. st'[branches[b]] = st[branches[b]]
            BY <1>4, <1>5, <5>2
          <6> QED
            BY <3>1, <3>2, <3>3, <6>1 DEF AnswerCurrent
        <5> QED
          BY <5>1, <5>2
      <4> QED
        BY <1>1, <2>0, <3>3, <4>1, <4>2 DEF AnswerCurrent
    <3>4. CASE at[u].pc # "apply"
      BY <2>0, <3>1, <3>4 DEF AnswerCurrent
    <3> QED
      BY <3>3, <3>4
  <2> QED
    BY <2>1, <2>2, <2>3 DEF ThreadAlone
<1> QED
  BY <1>0, <1>6, <1>7, <1>8, <1>9, <1>10, <1>11 DEF AloneInv

\* New forks: their ids are unknown to the registries, and were to the session.
ForksMade(t, new, lost) ==
    /\ ~Ended' /\ DOMAIN backend' = live \cup new \cup unlisted'
    /\ unlisted' = unlisted \cup lost /\ (unlisted' # {} => kind = "waypoint")
    /\ (new \cup lost) \cap (live \cup unlisted) = {} /\ new \cap lost = {}
    /\ \A b \in live : b \in DOMAIN backend' /\ backend'[b] = backend[b]
    /\ \A b \in new : backend'[b] = at[t].base
    /\ \A u \in Thread \ {t} : at[u].pc \notin Changing /\ at[u].pc # "apply"

LEMMA ForksAlone ==
    ASSUME AloneInv, NEW t \in Thread, at[t].pc = "materialize", ~Ended, R \in {NoThread, t},
           NEW new \in SUBSET Branch, NEW lost \in SUBSET Branch, Forked(t, new, lost)
    PROVE  ForksMade(t, new, lost)
<1>0. LocksInv /\ at[t].base \in Ids /\ ForksNew(t, new, lost)
  <2>1. LocksInv /\ at[t].base \in Ids
    BY DEF AloneInv, LocksInv, ThreadInv, PlaceOfCall, CheckpointsKnown
  <2> QED
    BY <2>1, ForkedForks
<1>1. DOMAIN backend = live \cup unlisted
  BY Agreement DEF Changing
<1>2. /\ (new \cup lost) \cap DOMAIN backend = {} /\ new \cap lost = {}
      /\ lost # {} => kind = "waypoint"
      /\ unlisted' = unlisted \cup lost
  BY <1>0 DEF ForksNew
<1>3. unlisted # {} => kind = "waypoint"
  BY DEF AloneInv, InStep
<1>4. /\ DOMAIN backend' = DOMAIN backend \cup new \cup lost
      /\ \A b \in DOMAIN backend : backend'[b] = backend[b]
      /\ \A b \in new \cup lost : backend'[b] = at[t].base
  BY <1>0 DEF ForksNew
<1>5. \A u \in Thread \ {t} : at[u].pc \notin Changing /\ at[u].pc # "apply"
  <2>1. \A u \in Thread \ {t} : ~HoldsR(u)
    BY <1>0, Types DEF LocksInv, ThreadInv, LocksHeld
  <2> QED
    BY <2>1 DEF HoldsR, Changing
<1> QED
  BY <1>1, <1>2, <1>3, <1>4, <1>5 DEF Ended, ForksMade

\* The shared parts, and what the other threads know, when forks have been made.
LEMMA ForksShared ==
    ASSUME AloneInv, LocksInv', NEW t \in Thread, at[t].pc = "materialize", ~Ended, ~Ended',
           UNCHANGED <<kind, origin, graph, live, branches, st, current>>,
           \A b \in live : b \in DOMAIN backend' /\ backend'[b] = backend[b],
           \A u \in Thread \ {t} : /\ at'[u] = at[u]
                                   /\ at[u].pc \notin Changing /\ at[u].pc # "apply",
           InStep', ThreadAlone(t)'
    PROVE  AloneInv'
<1>0. /\ LocksInv /\ IsMap(branches, State) /\ DOMAIN branches = live
      /\ ~Pending(t) /\ ~Sealing(t)
  BY DEF AloneInv, InStep, LocksInv, Globals, Pending, Made, Sealing
<1>1. /\ \A b \in live : b \in DOMAIN backend
  <2>1. /\ \A u \in Thread : at[u].pc \notin {"forget", "park_record"}
    BY DEF Changing
  <2> QED
    BY <2>1, Alive
<1>2. InService'
  <2>1. ASSUME NEW u \in Thread, Pending(u)
        PROVE  Pending(u)' /\ at'[u].ids = at[u].ids
    BY <1>0, <2>1 DEF Pending, Made
  <2> QED
    BY <1>0, <2>1 DEF AloneInv, InService
<1>3. Positioned'
  <2>1. ASSUME NEW u \in Thread, Sealing(u)
        PROVE  Sealing(u)' /\ at'[u].br = at[u].br
    BY <1>0, <2>1 DEF Sealing
  <2> QED
    BY <1>0, <1>1, <2>1 DEF AloneInv, Positioned
<1>4. LineageTrue'
  BY DEF AloneInv, LineageTrue, ParentIsBase
<1>5. ASSUME NEW u \in Thread \ {t} PROVE ThreadAlone(u)'
  <2>0. ThreadAlone(u) /\ at'[u] = at[u] /\ at[u].pc \notin Changing /\ at[u].pc # "apply"
    BY DEF AloneInv
  <2>1. ChangeOf(u)' /\ CurrentKept(u)' /\ AnswerCurrent(u)'
    BY <2>0 DEF ThreadAlone, ChangeOf, CurrentKept, AnswerCurrent, Changing
  <2>2. ServiceOf(u)'
    BY <1>0, <1>1, <2>0
       DEF ThreadAlone, ServiceOf, Inside, Removing, Pending, Made, Sealing
  <2>3. BaseOf(u)'
    <3>1. at[u].pc \in {"core", "park_core"} \/ Sealing(u) => at[u].br \in live
      BY Owners DEF Inside
    <3> QED
      BY <1>1, <2>0, <3>1 DEF ThreadAlone, BaseOf, Sealing
  <2> QED
    BY <2>1, <2>2, <2>3 DEF ThreadAlone
<1> QED
  BY <1>2, <1>3, <1>4, <1>5 DEF AloneInv

\* The forks of a call that has an answer.
LEMMA MaterializeAlone ==
    ASSUME AloneInv, NEW t \in Thread, Materialize(t)
    PROVE  AloneInv'
<1>0. /\ LocksInv /\ LocksInv' /\ ThreadInv(t) /\ ThreadAlone(t)
      /\ at[t].pc = "materialize" /\ at[t].op \in {"fork", "fork_auto", "restore"}
      /\ ~Ended
  BY RestoreLocks
     DEF AloneInv, LocksInv, Globals, ThreadInv, PlaceOfCall, Materialize, At
<1>1. UNCHANGED <<kind, origin, graph, live, branches, st, current>>
  BY DEF Materialize, treeVars, registryVars
<1>2. PICK new \in SUBSET Branch, lost \in SUBSET Branch :
              /\ Moved(t, "register", at[t].dob, at[t].base, at[t].sid, new, at[t].view)
              /\ OnlyBy(t)
              /\ R \in {NoThread, t}
              /\ Forked(t, new, lost)
  BY <1>0, MaterializeMoves
<1>3. /\ at'[t].pc = "register" /\ at'[t].op = at[t].op /\ at'[t].br = at[t].br
      /\ at'[t].base = at[t].base /\ at'[t].ids = new
      /\ \A u \in Thread \ {t} : at'[u] = at[u]
  BY <1>2 DEF Moved, OnlyBy
<1>4. ForksMade(t, new, lost)
  BY <1>0, <1>2, ForksAlone
<1>5. InStep'
  <2>1. unlisted' \subseteq DOMAIN backend' \ live
    BY <1>4 DEF ForksMade, AloneInv, InStep
  <2> QED
    BY <1>1, <1>3, <1>4, <2>1 DEF ForksMade, AloneInv, InStep, Changing
<1>6. ThreadAlone(t)'
  BY <1>0, <1>1, <1>3, <1>4
     DEF ForksMade, ThreadAlone, ChangeOf, CurrentKept, ServiceOf, AnswerCurrent, BaseOf,
         Inside, Removing, Pending, Made, Sealing
<1> QED
  BY <1>0, <1>1, <1>3, <1>4, <1>5, <1>6, ForksShared DEF ForksMade

\* A call that has none may leave forks behind.
LEMMA MaterializeFailsAlone ==
    ASSUME AloneInv, NEW t \in Thread, MaterializeFails(t)
    PROVE  AloneInv'
<1>0. /\ LocksInv /\ LocksInv' /\ ThreadInv(t) /\ Return(t)
      /\ at[t].pc = "materialize" /\ R \in {NoThread, t}
      /\ UNCHANGED <<kind, origin, snapshots, graph, live, branches, st, current>>
  BY RestoreLocks
     DEF AloneInv, LocksInv, MaterializeFails, At, Free, treeVars, registryVars
<1>1. at[t].pc \notin Changing /\ ~Pending(t) /\ ~Sealing(t)
  BY <1>0 DEF Changing, Pending, Made, Sealing
<1>2. CASE UNCHANGED <<backend, unlisted>>
  <2>1. DataKept
    BY <1>0, <1>2 DEF DataKept, backendVars, treeVars, registryVars
  <2> QED
    BY <1>0, <1>1, <2>1, ReturnAlone
<1>3. CASE ~Ended /\ \E lost \in SUBSET Branch : Forked(t, {}, lost)
  <2>1. PICK lost \in SUBSET Branch : Forked(t, {}, lost)
    BY <1>3
  <2>2. ForksMade(t, {}, lost)
    BY <1>0, <1>3, <2>1, ForksAlone
  <2>3. Returned(t) /\ \A u \in Thread \ {t} : at'[u] = at[u]
    BY <1>0, Returns DEF OnlyBy
  <2>4. InStep'
    <3>1. unlisted' \subseteq DOMAIN backend' \ live
      BY <2>2 DEF ForksMade, AloneInv, InStep
    <3> QED
      BY <1>0, <2>2, <2>3, <3>1 DEF ForksMade, AloneInv, InStep
  <2>5. ThreadAlone(t)'
    BY <2>3
       DEF Returned, ThreadAlone, ChangeOf, CurrentKept, ServiceOf, AnswerCurrent, BaseOf,
           Inside, Removing, Pending, Made, Sealing
  <2> QED
    BY <1>0, <1>3, <2>2, <2>3, <2>4, <2>5, ForksShared DEF ForksMade
<1> QED
  BY <1>2, <1>3 DEF MaterializeFails

\* The new branches are registered with objects that nobody uses.
LEMMA RegisterEffect ==
    ASSUME AloneInv, NEW t \in Thread, Register(t)
    PROVE  /\ UNCHANGED <<kind, backend, unlisted, origin, graph, current>>
           /\ live' = live \cup at[t].ids /\ DOMAIN branches' = live'
           /\ \A b \in live : branches'[b] = branches[b]
           /\ \A o \in InUse : o \in State => st'[o] = st[o]
           /\ \A b \in at[t].ids :
                /\ branches'[b] \in State /\ branches'[b].branch = b
                /\ st'[branches'[b]].pos = at[t].base
                /\ st'[branches'[b]].active <=> at[t].op # "restore"
           /\ \A o \in State : st'[o] = st[o] \/ (o.branch \in at[t].ids /\ o = branches'[o.branch])
<1>0. /\ LocksInv /\ at[t].ids \in SUBSET Branch /\ DOMAIN branches = live
      /\ at[t].ids \cap live = {} /\ IsMap(branches, State)
  BY Types DEF AloneInv, InStep, ThreadAlone, ChangeOf, Register, At, LocksInv, Globals
<1>1. /\ Registrable(at[t].ids)
      /\ branches' = [b \in DOMAIN branches \cup at[t].ids |-> StateOf(b)]
      /\ st' = [o \in State |->
                    IF o.branch \in at[t].ids /\ o = StateOf(o.branch)
                    THEN [pos |-> IF o.branch \in DOMAIN branches
                                  THEN st[o].pos ELSE at[t].base,
                          active |-> at[t].op # "restore"]
                    ELSE st[o]]
      /\ live' = live \cup at[t].ids
      /\ UNCHANGED <<kind, backend, unlisted, origin, graph, current>>
  BY DEF Register, backendVars, treeVars
<1>2. \A b \in live : StateOf(b) = branches[b]
  BY <1>0 DEF StateOf
<1>3. \A b \in at[t].ids : StateOf(b) \in State /\ StateOf(b).branch = b /\ StateOf(b) \notin InUse
  BY <1>0, <1>1, StateOfBranch DEF Registrable
<1>4. DOMAIN branches' = live' /\ \A b \in live' : branches'[b] = StateOf(b)
  BY <1>0, <1>1
<1>5. \A o \in State : o.branch \in at[t].ids /\ o = StateOf(o.branch)
         => st'[o] = [pos |-> at[t].base, active |-> at[t].op # "restore"]
  BY <1>0, <1>1
<1>6. \A o \in State : ~(o.branch \in at[t].ids /\ o = StateOf(o.branch)) => st'[o] = st[o]
  BY <1>1
<1>7. ASSUME NEW b \in at[t].ids
      PROVE  /\ branches'[b] \in State /\ branches'[b].branch = b
             /\ st'[branches'[b]].pos = at[t].base
             /\ st'[branches'[b]].active <=> at[t].op # "restore"
  <2>1. branches'[b] = StateOf(b)
    BY <1>1, <1>4
  <2>2. st'[StateOf(b)] = [pos |-> at[t].base, active |-> at[t].op # "restore"]
    BY <1>3, <1>5
  <2>3. st'[branches'[b]].pos = at[t].base
    BY <2>1, <2>2
  <2>4. st'[branches'[b]].active = (at[t].op # "restore")
    BY <2>1, <2>2
  <2> QED
    BY <1>3, <2>1, <2>3, <2>4
<1>8. ASSUME NEW o \in State
      PROVE  st'[o] = st[o] \/ (o.branch \in at[t].ids /\ o = branches'[o.branch])
  BY <1>1, <1>4, <1>6
<1>9. \A o \in InUse : o \in State => st'[o] = st[o]
  BY <1>3, <1>6
<1> QED
  BY <1>1, <1>2, <1>4, <1>7, <1>8, <1>9

\* A fork puts them in service, a restore leaves its own out.
LEMMA RegisterAlone ==
    ASSUME AloneInv, NEW t \in Thread, Register(t)
    PROVE  AloneInv'
<1>0. /\ LocksInv /\ LocksInv' /\ ThreadInv(t) /\ ThreadAlone(t)
      /\ at[t].pc = "register" /\ at[t].op \in {"fork", "fork_auto", "restore"}
      /\ IsMap(branches, State) /\ DOMAIN branches = live /\ {Main, current} \subseteq live
  BY RestoreLocks
     DEF AloneInv, InStep, LocksInv, Globals, ThreadInv, PlaceOfCall, Register, At
<1>1. /\ at[t].ids \cap (live \cup unlisted) = {}
      /\ ~Ended => DOMAIN backend = live \cup at[t].ids \cup unlisted
      /\ \A b \in at[t].ids \cap DOMAIN backend : backend[b] = at[t].base
  BY <1>0 DEF ThreadAlone, ChangeOf
<1>2. /\ UNCHANGED <<kind, backend, unlisted, origin, graph, current>> /\ Ended' = Ended
      /\ live' = live \cup at[t].ids /\ DOMAIN branches' = live'
      /\ \A b \in live : branches'[b] = branches[b] /\ branches[b] \in State
      /\ \A o \in InUse : o \in State => st'[o] = st[o]
      /\ \A b \in live : branches[b] \in InUse
  BY <1>0, RegisterEffect DEF Ended, InUse, IsMap
<1>3. /\ \A b \in at[t].ids :
            /\ branches'[b] \in State /\ branches'[b].branch = b
            /\ st'[branches'[b]].pos = at[t].base
            /\ st'[branches'[b]].active <=> at[t].op # "restore"
      /\ \A o \in State : st'[o] = st[o] \/ (o.branch \in at[t].ids /\ o = branches'[o.branch])
  BY RegisterEffect
<1>4. /\ OnlyBy(t) /\ \A u \in Thread \ {t} : at'[u] = at[u]
      /\ at'[t].pc \notin Changing /\ at'[t].pc \notin {"apply", "record", "prune"}
      /\ at[t].op = "restore" =>
            /\ at'[t].pc = "switch" /\ at'[t].op = "restore" /\ at'[t].ids = at[t].ids
            /\ at'[t].br = at[t].br /\ at'[t].base = at[t].base
      /\ at[t].op # "restore" => Returned(t)
  <2>1. CASE at[t].op = "restore"
    BY <1>0, <2>1, RegisterMoves DEF Moved, OnlyBy, Changing
  <2>2. CASE at[t].op # "restore"
    BY <1>0, <2>2, Returns DEF Register, Returned, OnlyBy, Changing
  <2> QED
    BY <2>1, <2>2
<1>5. \A u \in Thread \ {t} : at[u].pc \notin Changing /\ at[u].pc # "apply"
  BY <1>0, OneHolder DEF HoldsR, Changing
<1>6. InStep'
  <2>1. ~Ended => DOMAIN backend = live' \cup unlisted
    BY <1>1, <1>2
  <2> QED
    BY <1>0, <1>1, <1>2, <2>1 DEF AloneInv, InStep
<1>7. InService'
  <2>1. ASSUME NEW o \in State, st'[o].active
        PROVE  o.branch \in DOMAIN branches' /\ branches'[o.branch] = o
    BY <1>0, <1>2, <1>3, <2>1 DEF AloneInv, InService
  <2>2. ASSUME NEW b \in live
        PROVE  st'[branches'[b]].active \/ \E u \in Thread : Pending(u)' /\ b \in at'[u].ids
    <3>1. ASSUME NEW u \in Thread, Pending(u) PROVE Pending(u)' /\ at'[u].ids = at[u].ids
      BY <1>0, <1>4, <3>1 DEF Pending, Made
    <3> QED
      BY <1>0, <1>2, <3>1 DEF AloneInv, InService
  <2>3. ASSUME NEW b \in at[t].ids
        PROVE  st'[branches'[b]].active \/ \E u \in Thread : Pending(u)' /\ b \in at'[u].ids
    <3>1. CASE at[t].op = "restore"
      BY <1>4, <3>1 DEF Pending, Made
    <3>2. CASE at[t].op # "restore"
      BY <1>3, <3>2
    <3> QED
      BY <3>1, <3>2
  <2> QED
    BY <1>2, <2>1, <2>2, <2>3 DEF InService
<1>8. Positioned'
  <2>1. ASSUME NEW u \in Thread, Sealing(u) PROVE Sealing(u)' /\ at'[u].br = at[u].br
    BY <1>0, <1>4, <2>1 DEF Sealing
  <2>2. ASSUME kind = "waypoint", NEW b \in live \cap DOMAIN backend
        PROVE  st'[branches'[b]].pos = backend[b] \/ \E u \in Thread : Sealing(u)' /\ at'[u].br = b
    BY <1>0, <1>2, <2>1, <2>2 DEF AloneInv, Positioned
  <2>3. ASSUME NEW b \in at[t].ids \cap DOMAIN backend
        PROVE  st'[branches'[b]].pos = backend[b]
    BY <1>1, <1>3
  <2> QED
    BY <1>2, <2>2, <2>3 DEF Positioned
<1>9. LineageTrue'
  BY <1>2 DEF AloneInv, LineageTrue, ParentIsBase
<1>10. ThreadAlone(t)'
  <2>1. CASE at[t].op = "restore"
    <3>1. at[t].br = current /\ current \notin at[t].ids
      BY <1>0, <1>1, <2>1 DEF ThreadAlone, CurrentKept
    <3>2. ServiceOf(t)'
      BY <1>0, <1>1, <1>2, <1>3, <1>4, <2>1
         DEF ServiceOf, Inside, Removing, Pending, Made, Sealing
    <3> QED
      BY <1>2, <1>4, <2>1, <3>1, <3>2
         DEF ThreadAlone, ChangeOf, CurrentKept, AnswerCurrent, BaseOf, Sealing
  <2>2. CASE at[t].op # "restore"
    BY <1>4, <2>2
       DEF Returned, ThreadAlone, ChangeOf, CurrentKept, ServiceOf, AnswerCurrent, BaseOf,
           Inside, Removing, Pending, Made, Sealing
  <2> QED
    BY <2>1, <2>2
<1>11. ASSUME NEW u \in Thread \ {t} PROVE ThreadAlone(u)'
  <2>0. /\ ThreadAlone(u) /\ at'[u] = at[u] /\ at[u].pc \notin Changing
        /\ at[u].pc # "apply"
        /\ at[u].ob \in State /\ at[u].ob \in InUse /\ at[u].dob \in State
        /\ at[u].dob \in InUse
    BY <1>0, <1>4, <1>5, Types DEF AloneInv, InUse
  <2>1. ChangeOf(u)' /\ CurrentKept(u)' /\ AnswerCurrent(u)' /\ BaseOf(u)'
    BY <1>2, <2>0
       DEF ThreadAlone, ChangeOf, CurrentKept, AnswerCurrent, BaseOf, Sealing, Changing
  <2>2. ServiceOf(u)'
    BY <1>0, <1>2, <2>0 DEF ThreadAlone, ServiceOf, Inside, Removing, Pending, Made, Sealing
  <2> QED
    BY <2>1, <2>2 DEF ThreadAlone
<1> QED
  BY <1>0, <1>6, <1>7, <1>8, <1>9, <1>10, <1>11 DEF AloneInv

\* A restore switches to the branch it has made: nobody has removed it meanwhile.
LEMMA SwitchAlone ==
    ASSUME AloneInv, NEW t \in Thread, Switch(t)
    PROVE  AloneInv'
<1>0. /\ LocksInv /\ LocksInv' /\ ThreadInv(t) /\ ThreadAlone(t)
      /\ at[t].pc = "switch" /\ at[t].op = "restore" /\ Pending(t)
      /\ DOMAIN branches = live
  BY RestoreLocks
     DEF AloneInv, InStep, LocksInv, ThreadInv, PlaceOfCall, Switch, At, Pending, Made
<1>1. PICK b \in Branch : at[t].ids = {b}
  BY <1>0 DEF ThreadInv, CheckpointsKnown, Made
<1>2. b \in live /\ at[t].ids \subseteq DOMAIN branches /\ at[t].br = current /\ current # b
  BY <1>0, <1>1 DEF ThreadAlone, ServiceOf, CurrentKept
<1>3. /\ UNCHANGED <<kind, backend, unlisted, origin, graph, live, branches, st>>
      /\ Ended' = Ended
      /\ current' = b
  <2>1. current' = CHOOSE c \in Branch : at[t].ids = {c}
    BY <1>2 DEF Switch
  <2>2. current' = b
    BY <1>1, <2>1
  <2> QED
    BY <2>2 DEF Switch, backendVars, treeVars, Ended
<1>4. /\ OnlyBy(t) /\ \A u \in Thread \ {t} : at'[u] = at[u]
      /\ at'[t].pc \in {"retire", "position"} /\ (at'[t].pc = "retire" => at[t].br # Main)
      /\ at'[t].op = "restore" /\ at'[t].ids = at[t].ids
      /\ at'[t].br = at[t].br /\ at'[t].base = at[t].base
  <2>1. CASE Departs(t)
    BY <1>0, <1>2, <2>1, SwitchRetires DEF Moved, OnlyBy, Departs
  <2>2. CASE ~Departs(t)
    BY <1>0, <1>2, <2>2, SwitchPositions DEF Moved, OnlyBy
  <2> QED
    BY <2>1, <2>2
<1>5. InStep'
  BY <1>0, <1>2, <1>3, <1>4 DEF AloneInv, InStep, Changing
<1>6. InService'
  <2>1. ASSUME NEW u \in Thread, Pending(u) PROVE Pending(u)' /\ at'[u].ids = at[u].ids
    BY <1>0, <1>4, <2>1 DEF Pending, Made
  <2> QED
    BY <1>3, <2>1 DEF AloneInv, InService
<1>7. Positioned'
  <2>1. ASSUME NEW u \in Thread, Sealing(u) PROVE Sealing(u)' /\ at'[u].br = at[u].br
    BY <1>0, <1>4, <2>1 DEF Sealing
  <2> QED
    BY <1>3, <2>1 DEF AloneInv, Positioned
<1>8. LineageTrue'
  BY <1>3 DEF AloneInv, LineageTrue, ParentIsBase
<1>9. ThreadAlone(t)'
  BY <1>0, <1>1, <1>2, <1>3, <1>4
     DEF ThreadAlone, ChangeOf, CurrentKept, ServiceOf, AnswerCurrent, BaseOf,
         Inside, Removing, Pending, Made, Sealing
<1>10. ASSUME NEW u \in Thread \ {t} PROVE ThreadAlone(u)'
  <2>0. ThreadAlone(u) /\ at'[u] = at[u] /\ PlaceOfCall(u)
    BY <1>4 DEF AloneInv, LocksInv, ThreadInv
  <2>1. at[u].op \notin {"restore", "discard", "park"}
    BY <1>0, OneHolder DEF HoldsC
  <2>2. ChangeOf(u)' /\ CurrentKept(u)' /\ ServiceOf(u)' /\ BaseOf(u)'
    BY <1>3, <2>0, <2>1
       DEF ThreadAlone, ChangeOf, CurrentKept, ServiceOf, BaseOf, PlaceOfCall,
           Inside, Removing, Pending, Made, Sealing
  <2>3. AnswerCurrent(u)'
    <3>1. \A v \in Thread : at'[v].pc = "record" => at'[v] = at[v]
      BY <1>4
    <3> QED
      BY <1>3, <2>0, <3>1 DEF ThreadAlone, AnswerCurrent
  <2> QED
    BY <2>2, <2>3 DEF ThreadAlone
<1> QED
  BY <1>0, <1>5, <1>6, <1>7, <1>8, <1>9, <1>10 DEF AloneInv

\* A restore puts the branch it has made in service.
LEMMA PositionAlone ==
    ASSUME AloneInv, NEW t \in Thread, Position(t)
    PROVE  AloneInv'
<1>0. /\ LocksInv /\ LocksInv' /\ ThreadInv(t) /\ ThreadAlone(t) /\ Globals /\ BranchesNamed
      /\ at[t].pc = "position" /\ at[t].op = "restore" /\ Pending(t)
      /\ IsMap(branches, State) /\ DOMAIN branches = live /\ current \in live
  BY RestoreLocks
     DEF AloneInv, InStep, LocksInv, Globals, ThreadInv, PlaceOfCall, Position, At,
         Pending, Made
<1>1. at[t].ids = {current}
  BY <1>0 DEF ThreadAlone, CurrentKept
<1>2. /\ branches[current] \in State /\ branches[current].branch = current
      /\ ~st[branches[current]].active /\ st[branches[current]].pos = at[t].base
  BY <1>0, <1>1 DEF ThreadAlone, ServiceOf, IsMap, BranchesNamed
<1>3. /\ UNCHANGED <<kind, backend, unlisted, origin, graph, live, current>>
      /\ Ended' = Ended
      /\ branches' = branches
      /\ st' = [st EXCEPT ![branches[current]] = [pos |-> at[t].base, active |-> TRUE]]
  <2>1. StateOf(current) = branches[current]
    BY <1>0 DEF StateOf
  <2>2. branches' = [b \in DOMAIN branches |-> branches[b]]
    BY <1>0 DEF Position, StateOf
  <2> QED
    BY <1>0, <2>1, <2>2 DEF Position, IsMap, backendVars, treeVars, Ended
<1>4. /\ Returned(t) /\ OnlyBy(t) /\ \A u \in Thread \ {t} : at'[u] = at[u]
  BY <1>0, Returns DEF Position, OnlyBy
<1>5. /\ st'[branches[current]].active /\ st'[branches[current]].pos = at[t].base
      /\ \A o \in State : st'[o].pos = st[o].pos
      /\ \A o \in State \ {branches[current]} : st'[o] = st[o]
  <2>1. st'[branches[current]] = [pos |-> at[t].base, active |-> TRUE]
    BY <1>0, <1>2, <1>3 DEF Globals
  <2>2. \A o \in State \ {branches[current]} : st'[o] = st[o]
    BY <1>0, <1>2, <1>3 DEF Globals
  <2>3. st'[branches[current]].active /\ st'[branches[current]].pos = at[t].base
    BY <2>1
  <2> QED
    BY <1>2, <2>2, <2>3
<1>6. InStep'
  BY <1>0, <1>3, <1>4 DEF AloneInv, InStep, Changing, Returned
<1>7. InService'
  <2>1. ASSUME NEW o \in State, st'[o].active
        PROVE  o.branch \in DOMAIN branches' /\ branches'[o.branch] = o
    BY <1>0, <1>2, <1>3, <1>5, <2>1 DEF AloneInv, InService
  <2>2. ASSUME NEW b \in live
        PROVE  st'[branches[b]].active \/ \E u \in Thread : Pending(u)' /\ b \in at'[u].ids
    <3>1. ASSUME NEW u \in Thread \ {t}, Pending(u)
          PROVE  Pending(u)' /\ at'[u].ids = at[u].ids
      BY <1>0, <1>4, <3>1 DEF Pending, Made
    <3>2. CASE b = current
      BY <1>5, <3>2
    <3>3. CASE b # current
      <4>1. branches[b] \in State /\ branches[b] # branches[current]
        BY <1>0, <1>2, <3>3 DEF IsMap, BranchesNamed
      <4>2. st[branches[b]].active \/ \E u \in Thread : Pending(u) /\ b \in at[u].ids
        BY <1>0 DEF AloneInv, InService
      <4> QED
        BY <1>1, <1>5, <3>1, <3>3, <4>1, <4>2
    <3> QED
      BY <3>2, <3>3
  <2> QED
    BY <1>0, <1>3, <2>1, <2>2 DEF InService
<1>8. Positioned'
  <2>1. ASSUME NEW u \in Thread, Sealing(u) PROVE Sealing(u)' /\ at'[u].br = at[u].br
    BY <1>0, <1>4, <2>1 DEF Sealing
  <2> QED
    BY <1>0, <1>3, <1>5, <2>1 DEF AloneInv, Positioned, IsMap
<1>9. LineageTrue'
  BY <1>3 DEF AloneInv, LineageTrue, ParentIsBase
<1>10. ThreadAlone(t)'
  BY <1>4
     DEF Returned, ThreadAlone, ChangeOf, CurrentKept, ServiceOf, AnswerCurrent, BaseOf,
              Inside, Removing, Pending, Made, Sealing
<1>11. ASSUME NEW u \in Thread \ {t} PROVE ThreadAlone(u)'
  <2>0. /\ ThreadAlone(u) /\ at'[u] = at[u] /\ at[u].op # "restore"
        /\ at[u].ob \in State /\ at[u].dob \in State
    BY <1>0, <1>4, OneHolder, Types DEF AloneInv, HoldsC
  <2>1. ChangeOf(u)' /\ CurrentKept(u)' /\ BaseOf(u)'
    BY <1>3, <2>0 DEF ThreadAlone, ChangeOf, CurrentKept, BaseOf, Sealing
  <2>2. ServiceOf(u)'
    BY <1>5, <2>0 DEF ThreadAlone, ServiceOf, Inside, Removing, Pending, Made, Sealing
  <2>3. AnswerCurrent(u)'
    <3>1. \A v \in Thread : at'[v].pc = "record" => at'[v] = at[v]
      BY <1>4 DEF Returned
    <3>2. \A b \in live : branches[b] \in State /\ (st[branches[b]].active => st'[branches[b]].active)
                          /\ st'[branches[b]].pos = st[branches[b]].pos
      BY <1>0, <1>5 DEF IsMap
    <3> QED
      BY <1>3, <2>0, <3>1, <3>2 DEF ThreadAlone, AnswerCurrent
  <2> QED
    BY <2>1, <2>2, <2>3 DEF ThreadAlone
<1> QED
  BY <1>0, <1>6, <1>7, <1>8, <1>9, <1>10, <1>11 DEF AloneInv

\* The backend destroys a branch that is neither main nor current.
LEMMA DestroyAlone ==
    ASSUME AloneInv, NEW t \in Thread, Destroy(t)
    PROVE  AloneInv'
<1>0. /\ LocksInv /\ LocksInv' /\ ThreadInv(t) /\ ThreadAlone(t)
      /\ at[t].pc = "destroy" /\ at[t].op \in {"restore", "discard"} /\ HoldsR(t) /\ R = t
  BY RetireLocks
     DEF AloneInv, LocksInv, ThreadInv, PlaceOfCall, LocksHeld, HoldsR, Destroy, At
<1>1. at[t].br \notin {Main, current} /\ at[t].br \in live
  BY <1>0, Owners DEF ThreadAlone, CurrentKept, Removing
<1>2. /\ UNCHANGED <<kind, unlisted, origin, graph, live, branches, st, current>>
      /\ Ended' = Ended
      /\ DOMAIN backend' = DOMAIN backend \ {at[t].br}
      /\ \A b \in DOMAIN backend' : backend'[b] = backend[b]
  BY <1>1 DEF Destroy, Without, treeVars, registryVars, Ended
<1>3. /\ at'[t].pc = "forget" /\ at'[t].op = at[t].op /\ at'[t].br = at[t].br
      /\ at'[t].ids = at[t].ids /\ at'[t].base = at[t].base /\ at'[t].dob = at[t].dob
      /\ OnlyBy(t) /\ \A u \in Thread \ {t} : at'[u] = at[u]
      /\ \A u \in Thread \ {t} : at[u].pc \notin Changing /\ at[u].pc # "apply"
  BY <1>0, DestroyMoves, OneHolder DEF Moved, OnlyBy, HoldsR, Changing
<1>4. InStep'
  BY <1>1, <1>2, <1>3 DEF AloneInv, InStep, Changing
<1>5. InService'
  <2>1. ASSUME NEW u \in Thread, Pending(u) PROVE Pending(u)' /\ at'[u].ids = at[u].ids
    BY <1>0, <1>3, <2>1 DEF Pending, Made
  <2> QED
    BY <1>2, <2>1 DEF AloneInv, InService
<1>6. Positioned'
  <2>1. ASSUME NEW u \in Thread, Sealing(u) PROVE Sealing(u)' /\ at'[u].br = at[u].br
    BY <1>0, <1>3, <2>1 DEF Sealing
  <2> QED
    BY <1>2, <2>1 DEF AloneInv, Positioned
<1>7. LineageTrue'
  BY <1>2 DEF AloneInv, LineageTrue, ParentIsBase
<1>8. ThreadAlone(t)'
  <2>1. ~Ended => DOMAIN backend' = (live \ {at[t].br}) \cup unlisted
    <3>1. ~Ended => DOMAIN backend = live \cup unlisted
      BY <1>0, Agreement DEF Changing
    <3> QED
      BY <1>1, <1>2, <3>1 DEF AloneInv, InStep
  <2> QED
    BY <1>0, <1>2, <1>3, <2>1
       DEF ThreadAlone, ChangeOf, CurrentKept, ServiceOf, AnswerCurrent, BaseOf,
           Inside, Removing, Pending, Made, Sealing
<1>9. ASSUME NEW u \in Thread \ {t} PROVE ThreadAlone(u)'
  <2>0. ThreadAlone(u) /\ at'[u] = at[u] /\ at[u].pc \notin Changing /\ at[u].pc # "apply"
    BY <1>3 DEF AloneInv
  <2> QED
    BY <1>2, <2>0
       DEF ThreadAlone, ChangeOf, CurrentKept, ServiceOf, AnswerCurrent, BaseOf, Changing,
           Inside, Removing, Pending, Made, Sealing
<1> QED
  BY <1>0, <1>4, <1>5, <1>6, <1>7, <1>8, <1>9 DEF AloneInv

\* A branch that its thread owns is taken off the registries.
LEMMA RemoveEffect ==
    ASSUME AloneInv, NEW t \in Thread, RemoveBranch(at[t].br),
           at[t].pc \in {"forget", "park_record"}
    PROVE  /\ live' = live \ {at[t].br} /\ DOMAIN branches' = live'
           /\ \A b \in live' : branches'[b] = branches[b]
           /\ \A o \in State : st'[o].pos = st[o].pos
           /\ \A o \in State \ {branches[at[t].br]} : st'[o] = st[o]
           /\ ~st'[branches[at[t].br]].active
<1>1. at[t].br \in live /\ branches[at[t].br] \in State /\ DOMAIN branches = live
  BY Owners DEF Inside, Removing, AloneInv, InStep
<1>2. /\ live' = live \ {at[t].br} /\ branches' = Without(branches, {at[t].br})
      /\ st' = [o \in State |-> IF at[t].br \in DOMAIN branches /\ o = branches[at[t].br]
                                THEN [st[o] EXCEPT !.active = FALSE] ELSE st[o]]
  BY DEF RemoveBranch
<1>3. st'[branches[at[t].br]] = [st[branches[at[t].br]] EXCEPT !.active = FALSE]
  BY <1>1, <1>2
<1>4. st[branches[at[t].br]] \in [pos : Nat, active : BOOLEAN]
  BY <1>1 DEF AloneInv, LocksInv, Globals
<1>5. /\ st'[branches[at[t].br]].pos = st[branches[at[t].br]].pos
      /\ ~st'[branches[at[t].br]].active
  BY <1>3, <1>4
<1> QED
  BY <1>1, <1>2, <1>5 DEF Without

\* What the other threads know stays true when t takes its branch away.
LEMMA RemoveKeeps ==
    ASSUME AloneInv, NEW t \in Thread, RemoveBranch(at[t].br),
           at[t].pc \in {"forget", "park_record"},
           UNCHANGED <<kind, backend, unlisted, origin>>, Ended' = Ended,
           NEW u \in Thread \ {t}, at'[u] = at[u], CurrentKept(u)'
    PROVE  ThreadAlone(u)'
<1>1. ThreadAlone(u) /\ at[u].ob \in State /\ at[u].dob \in State
  BY Types DEF AloneInv
<1>2. at[u].pc \notin Changing /\ at[u].pc # "apply"
  BY OneHolder DEF AloneInv, HoldsR, Changing
<1>3. /\ st[branches[at[t].br]].active
      /\ Inside(u) => at[u].ob = branches[at[u].br] /\ at[u].br # at[t].br
                      /\ branches[at[u].br].branch = at[u].br
      /\ Removing(u) => at[u].dob = branches[at[u].br] /\ at[u].br # at[t].br
                        /\ branches[at[u].br].branch = at[u].br
      /\ branches[at[t].br].branch = at[t].br
  BY Owners, OneOwner DEF Inside, Removing, AloneInv, LocksInv, BranchesNamed
<1>4. ServiceOf(u)'
  <2>1. Inside(u)' => st'[at'[u].ob].active
    BY <1>1, <1>3, RemoveEffect DEF ThreadAlone, ServiceOf, Inside, Sealing
  <2>2. Removing(u)' => st'[at'[u].dob].active
    BY <1>1, <1>3, RemoveEffect DEF ThreadAlone, ServiceOf, Removing
  <2>3. ASSUME Pending(u), NEW b \in at[u].ids
        PROVE  /\ b # Main /\ b \in DOMAIN branches' /\ ~st'[branches'[b]].active
               /\ st'[branches'[b]].pos = at[u].base
               /\ b \in DOMAIN backend' => backend'[b] = at[u].base
    <3>1. /\ b # Main /\ b \in DOMAIN branches /\ ~st[branches[b]].active
          /\ st[branches[b]].pos = at[u].base
          /\ b \in DOMAIN backend => backend[b] = at[u].base
      BY <1>1, <2>3 DEF ThreadAlone, ServiceOf
    <3>2. b # at[t].br /\ branches[b] # branches[at[t].br]
      BY <1>3, <3>1
    <3>3. b \in live' /\ branches[b] \in State
      BY <3>1, <3>2, RemoveEffect DEF AloneInv, InStep, LocksInv, Globals, IsMap
    <3> QED
      BY <3>1, <3>2, <3>3, RemoveEffect
  <2>4. Pending(u)' <=> Pending(u)
    BY DEF Pending, Made
  <2> QED
    BY <2>1, <2>2, <2>3, <2>4 DEF ServiceOf
<1>5. ChangeOf(u)' /\ AnswerCurrent(u)' /\ BaseOf(u)'
  BY <1>1, <1>2 DEF ThreadAlone, ChangeOf, AnswerCurrent, BaseOf, Sealing, Changing
<1> QED
  BY <1>4, <1>5 DEF ThreadAlone

\* What all the threads share stays true as well.
LEMMA RemoveShared ==
    ASSUME AloneInv, NEW t \in Thread, RemoveBranch(at[t].br),
           at[t].pc \in {"forget", "park_record"}, at[t].br # Main,
           UNCHANGED <<kind, backend, unlisted>>, Ended' = Ended,
           current' \in live \ {at[t].br},
           at'[t].pc \notin Changing,
           Pending(t) => Pending(t)' /\ at'[t].ids = at[t].ids,
           \A u \in Thread \ {t} : at'[u] = at[u]
    PROVE  InStep' /\ InService' /\ Positioned'
<1>1. /\ live' = live \ {at[t].br} /\ DOMAIN branches' = live' /\ DOMAIN branches = live
      /\ \A b \in live' : branches'[b] = branches[b] /\ branches[b] \in State /\ branches[b].branch = b
      /\ branches[at[t].br] \in State /\ branches[at[t].br].branch = at[t].br
  <2>1. DOMAIN branches = live /\ \A b \in live : branches[b] \in State /\ branches[b].branch = b
    BY DEF AloneInv, InStep, LocksInv, Globals, IsMap, BranchesNamed
  <2>2. at[t].br \in live
    BY Owners DEF Inside, Removing
  <2> QED
    BY <2>1, <2>2, RemoveEffect
<1>2. InStep'
  <2>1. ~Ended => DOMAIN backend = live' \cup unlisted
    BY <1>1 DEF AloneInv, ThreadAlone, ChangeOf
  <2> QED
    BY <1>1, <2>1 DEF AloneInv, InStep
<1>3. InService'
  <2>1. ASSUME NEW o \in State, st'[o].active
        PROVE  o.branch \in DOMAIN branches' /\ branches'[o.branch] = o
    <3>1. o # branches[at[t].br] /\ st[o].active
      BY <2>1, RemoveEffect
    <3>2. o.branch \in live /\ branches[o.branch] = o
      BY <3>1 DEF AloneInv, InService, InStep
    <3> QED
      BY <1>1, <3>1, <3>2
  <2>2. ASSUME NEW b \in live'
        PROVE  st'[branches'[b]].active \/ \E u \in Thread : Pending(u)' /\ b \in at'[u].ids
    <3>1. ASSUME NEW u \in Thread, Pending(u) PROVE Pending(u)' /\ at'[u].ids = at[u].ids
      BY <3>1 DEF Pending, Made
    <3>2. st[branches[b]].active \/ \E u \in Thread : Pending(u) /\ b \in at[u].ids
      BY <1>1 DEF AloneInv, InService
    <3>3. branches'[b] = branches[b] /\ st'[branches[b]] = st[branches[b]]
      BY <1>1, RemoveEffect
    <3> QED
      BY <3>1, <3>2, <3>3
  <2> QED
    BY <1>1, <2>1, <2>2 DEF InService
<1>4. Positioned'
  <2>1. ~Sealing(t)
    BY DEF Sealing
  <2>2. ASSUME NEW u \in Thread, Sealing(u) PROVE Sealing(u)' /\ at'[u].br = at[u].br
    BY <2>1, <2>2 DEF Sealing
  <2>3. \A b \in live' : st'[branches'[b]].pos = st[branches[b]].pos
    BY <1>1, RemoveEffect
  <2> QED
    BY <1>1, <2>2, <2>3 DEF AloneInv, Positioned
<1> QED
  BY <1>2, <1>3, <1>4

\* The branch that a discard or a restore has destroyed is forgotten.
LEMMA ForgetAlone ==
    ASSUME AloneInv, NEW t \in Thread, Forget(t)
    PROVE  AloneInv'
<1>0. /\ LocksInv /\ LocksInv' /\ ThreadInv(t) /\ ThreadAlone(t) /\ at[t].pc = "forget"
      /\ at[t].op \in {"restore", "discard"} /\ HoldsC(t) /\ ~Sealing(t)
  BY RetireLocks
     DEF AloneInv, LocksInv, ThreadInv, PlaceOfCall, HoldsC, Forget, At, Sealing
<1>1. at[t].br \notin {Main, current} /\ (at[t].op = "restore" => at[t].ids = {current})
  BY <1>0 DEF ThreadAlone, CurrentKept
<1>2. /\ RemoveBranch(at[t].br) /\ Retired(t)
      /\ UNCHANGED <<kind, backend, unlisted, origin, graph, current>> /\ Ended' = Ended
  BY DEF Forget, backendVars, treeVars, Ended
<1>3. /\ OnlyBy(t) /\ \A u \in Thread \ {t} : at'[u] = at[u]
      /\ at[t].op = "restore" =>
            /\ at'[t].pc = "position" /\ at'[t].op = "restore"
            /\ at'[t].br = at[t].br /\ at'[t].base = at[t].base /\ at'[t].ids = at[t].ids
      /\ at[t].op # "restore" => Returned(t)
  <2>1. CASE at[t].op = "restore"
    BY <1>0, <1>2, <2>1, RetiredMoves DEF Moved, OnlyBy
  <2>2. CASE at[t].op # "restore"
    BY <1>0, <1>2, <2>2, Returns DEF Retired, Returned, OnlyBy
  <2> QED
    BY <2>1, <2>2
<1>4. InStep' /\ InService' /\ Positioned'
  <2>1. at'[t].pc \notin Changing
    BY <1>0, <1>3 DEF Changing, Returned
  <2>2. Pending(t) => Pending(t)' /\ at'[t].ids = at[t].ids
    BY <1>0, <1>3 DEF Pending, Made
  <2>3. current' \in live \ {at[t].br}
    BY <1>1, <1>2 DEF AloneInv, InStep
  <2> QED
    BY <1>0, <1>1, <1>2, <1>3, <2>1, <2>2, <2>3, RemoveShared
<1>5. LineageTrue'
  BY <1>2 DEF AloneInv, LineageTrue, ParentIsBase
<1>6. ThreadAlone(t)'
  <2>1. CASE at[t].op = "restore"
    <3>1. Pending(t) /\ current \in live \ {at[t].br}
      BY <1>0, <1>1, <2>1 DEF Pending, Made, AloneInv, InStep
    <3>2. /\ current # Main /\ ~st[branches[current]].active
          /\ st[branches[current]].pos = at[t].base
          /\ current \in DOMAIN backend => backend[current] = at[t].base
      BY <1>0, <1>1, <2>1, <3>1 DEF ThreadAlone, ServiceOf
    <3>3. /\ live' = live \ {at[t].br} /\ DOMAIN branches' = live'
          /\ branches'[current] = branches[current]
          /\ ~st'[branches[current]].active /\ st'[branches[current]].pos = at[t].base
      <4>1. /\ live' = live \ {at[t].br} /\ DOMAIN branches' = live'
            /\ branches'[current] = branches[current]
        BY <1>0, <1>2, <3>1, RemoveEffect
      <4>2. branches[current] \in State /\ branches[current] # branches[at[t].br]
        BY <1>0, <3>1, <3>2, Owners DEF Removing, AloneInv, InStep, LocksInv, Globals, IsMap
      <4>3. st'[branches[current]] = st[branches[current]]
        BY <1>0, <1>2, <4>2, RemoveEffect
      <4> QED
        BY <3>2, <4>1, <4>3
    <3> QED
      BY <1>1, <1>2, <1>3, <2>1, <3>1, <3>2, <3>3
         DEF ThreadAlone, ChangeOf, CurrentKept, ServiceOf, AnswerCurrent, BaseOf,
             Inside, Removing, Pending, Made, Sealing
  <2>2. CASE at[t].op # "restore"
    BY <1>3, <2>2
       DEF Returned, ThreadAlone, ChangeOf, CurrentKept, ServiceOf, AnswerCurrent,
                      BaseOf, Inside, Removing, Pending, Made, Sealing
  <2> QED
    BY <2>1, <2>2
<1>7. ASSUME NEW u \in Thread \ {t} PROVE ThreadAlone(u)'
  <2>1. at'[u] = at[u] /\ CurrentKept(u)'
    BY <1>2, <1>3 DEF AloneInv, ThreadAlone, CurrentKept
  <2> QED
    BY <1>0, <1>2, <2>1, RemoveKeeps
<1> QED
  BY <1>0, <1>4, <1>5, <1>6, <1>7 DEF AloneInv

\* A parked branch is forgotten, its checkpoint recorded, and main made current
\* in its place.
LEMMA RecordParkAlone ==
    ASSUME AloneInv, NEW t \in Thread, RecordPark(t)
    PROVE  AloneInv'
<1>0. /\ LocksInv /\ LocksInv' /\ Globals /\ ThreadInv(t) /\ ThreadAlone(t)
      /\ at[t].pc = "park_record" /\ at[t].op = "park" /\ HoldsC(t) /\ ~Pending(t)
      /\ at[t].sid \in snapshots /\ at[t].br # Main
  BY RecordLocks
     DEF AloneInv, LocksInv, ThreadInv, PlaceOfCall, CheckpointsKnown, HoldsC, RecordPark,
         At, Pending, Made, ThreadAlone, CurrentKept
<1>1. /\ RemoveBranch(at[t].br) /\ Return(t)
      /\ graph' = RecordNode(graph, at[t].sid, at[t].base)
      /\ current' = IF current = at[t].br THEN Main ELSE current
      /\ UNCHANGED <<kind, backend, unlisted, origin>> /\ Ended' = Ended
  BY DEF RecordPark, backendVars, Ended
<1>2. Returned(t) /\ OnlyBy(t) /\ \A u \in Thread \ {t} : at'[u] = at[u]
  BY <1>0, <1>1, Returns DEF OnlyBy
<1>3. InStep' /\ InService' /\ Positioned'
  <2>1. current' \in live \ {at[t].br}
    BY <1>0, <1>1 DEF AloneInv, InStep
  <2>2. at'[t].pc \notin Changing
    BY <1>2 DEF Returned, Changing
  <2> QED
    BY <1>0, <1>1, <1>2, <2>1, <2>2, RemoveShared
<1>4. LineageTrue'
  <2>1. kind = "waypoint" => at[t].base = origin[at[t].sid]
    BY <1>0 DEF ThreadAlone, BaseOf
  <2>2. LET g == RecordNode(graph, at[t].sid, at[t].base)
        IN  /\ DOMAIN g = DOMAIN graph \cup {at[t].sid}
            /\ \A x \in DOMAIN graph \cup {at[t].sid} :
                  g[x].parent = IF x = at[t].sid THEN at[t].base ELSE graph[x].parent
    BY <1>0, Types, RecordNodeTypes
  <2> QED
    BY <1>1, <2>1, <2>2 DEF AloneInv, LineageTrue, ParentIsBase
<1>5. ThreadAlone(t)'
  BY <1>2
     DEF Returned, ThreadAlone, ChangeOf, CurrentKept, ServiceOf, AnswerCurrent, BaseOf,
              Inside, Removing, Pending, Made, Sealing
<1>6. ASSUME NEW u \in Thread \ {t} PROVE ThreadAlone(u)'
  <2>1. at'[u] = at[u] /\ at[u].op \notin {"restore", "discard", "park"} /\ PlaceOfCall(u)
    BY <1>0, <1>2, OneHolder DEF HoldsC, LocksInv, ThreadInv
  <2>2. CurrentKept(u)'
    BY <2>1 DEF CurrentKept, PlaceOfCall
  <2> QED
    BY <1>0, <1>1, <2>1, <2>2, RemoveKeeps
<1> QED
  BY <1>0, <1>3, <1>4, <1>5, <1>6 DEF AloneInv

\* The backend takes a parked branch, over Waypoint together with its checkpoint.
LEMMA ParkAlone ==
    ASSUME AloneInv, NEW t \in Thread, CorePark(t) \/ RemoveParked(t)
    PROVE  AloneInv'
<1>0. /\ LocksInv /\ LocksInv' /\ Globals /\ ThreadInv(t) /\ ThreadAlone(t)
      /\ at[t].pc \in {"park_core", "park_remove"} /\ at[t].op = "park" /\ HoldsR(t)
      /\ R = t
      /\ at[t].br # Main /\ at[t].br \in live
  <2>1. /\ at[t].pc \in {"park_core", "park_remove"} /\ LocksInv' /\ LocksInv
    BY CheckpointLocks, ParkLocks DEF AloneInv, CorePark, RemoveParked, At
  <2>2. at[t].br \in live
    BY <2>1, Owners DEF Inside
  <2> QED
    BY <2>1, <2>2
       DEF AloneInv, LocksInv, ThreadInv, PlaceOfCall, LocksHeld, HoldsR, ThreadAlone,
           CurrentKept
<1>1. /\ UNCHANGED <<kind, unlisted, graph, live, branches, st, current>> /\ Ended' = Ended
      /\ DOMAIN backend' = DOMAIN backend \ {at[t].br}
      /\ \A b \in DOMAIN backend' : backend'[b] = backend[b]
  BY <1>0 DEF CorePark, RemoveParked, Without, registryVars, Ended
<1>2. \A i \in Ids : origin'[i] = origin[i]
  <2>1. CASE CorePark(t)
    <3>1. backend[at[t].br] \in Nat
      BY <1>0, <2>1 DEF CorePark, Globals, IsMap, Ids
    <3> QED
      BY <1>0, <2>1, <3>1, Grown DEF CorePark
  <2>2. CASE RemoveParked(t)
    BY <2>2 DEF RemoveParked
  <2> QED
    BY <2>1, <2>2
<1>3. /\ at'[t].pc = "park_record" /\ at'[t].op = "park" /\ at'[t].br = at[t].br
      /\ at'[t].ob = at[t].ob
      /\ OnlyBy(t) /\ \A u \in Thread \ {t} : at'[u] = at[u]
      /\ \A u \in Thread \ {t} : at[u].pc \notin Changing /\ at[u].pc # "apply"
  <2>1. CASE CorePark(t)
    BY <1>0, <2>1, CoreParkMoves, OneHolder DEF Moved, OnlyBy, HoldsR, Changing
  <2>2. CASE RemoveParked(t)
    BY <1>0, <2>2, RemoveParkedMoves, OneHolder DEF Moved, OnlyBy, HoldsR, Changing
  <2> QED
    BY <2>1, <2>2
<1>4. kind = "waypoint" => at'[t].base = origin'[at'[t].sid]
  <2>1. CASE CorePark(t)
    <3>1. at[t].base = backend[at[t].br] /\ backend[at[t].br] \in Nat
      BY <1>0, <2>1 DEF CorePark, At, ThreadAlone, BaseOf, Globals, IsMap, Ids
    <3>2. origin'[NewId] = backend[at[t].br]
      BY <1>0, <2>1, <3>1, Grown DEF CorePark
    <3> QED
      BY <1>0, <2>1, <3>1, <3>2, CoreParkMoves DEF Moved
  <2>2. CASE RemoveParked(t)
    BY <1>0, <2>2 DEF RemoveParked, At, ThreadAlone, BaseOf
  <2> QED
    BY <2>1, <2>2
<1>5. InStep'
  BY <1>0, <1>1, <1>3 DEF AloneInv, InStep, Changing
<1>6. InService'
  <2>1. ASSUME NEW u \in Thread, Pending(u) PROVE Pending(u)' /\ at'[u].ids = at[u].ids
    BY <1>0, <1>3, <2>1 DEF Pending, Made
  <2> QED
    BY <1>1, <2>1 DEF AloneInv, InService
<1>7. Positioned'
  <2>1. ASSUME NEW u \in Thread, Sealing(u) PROVE Sealing(u)' /\ at'[u].br = at[u].br
    BY <1>0, <1>3, <2>1 DEF Sealing
  <2> QED
    BY <1>1, <2>1 DEF AloneInv, Positioned
<1>8. LineageTrue'
  BY <1>0, <1>1, <1>2 DEF AloneInv, LineageTrue, ParentIsBase, Globals
<1>9. ThreadAlone(t)'
  <2>1. ~Ended => DOMAIN backend' = (live \ {at[t].br}) \cup unlisted
    <3>1. ~Ended => DOMAIN backend = live \cup unlisted
      BY <1>0, Agreement DEF Changing
    <3> QED
      BY <1>0, <1>1, <3>1 DEF AloneInv, InStep
  <2>2. st[at[t].ob].active
    BY <1>0 DEF ThreadAlone, ServiceOf, Inside
  <2> QED
    BY <1>0, <1>1, <1>3, <1>4, <2>1, <2>2
       DEF ThreadAlone, ChangeOf, CurrentKept, ServiceOf, AnswerCurrent, BaseOf,
           Inside, Removing, Pending, Made, Sealing
<1>10. ASSUME NEW u \in Thread \ {t} PROVE ThreadAlone(u)'
  <2>0. /\ ThreadAlone(u) /\ at'[u] = at[u] /\ ThreadInv(u)
        /\ at[u].pc \notin Changing /\ at[u].pc # "apply"
    BY <1>3 DEF AloneInv, LocksInv
  <2>1. ChangeOf(u)' /\ CurrentKept(u)' /\ ServiceOf(u)' /\ AnswerCurrent(u)'
    BY <1>1, <2>0
       DEF ThreadAlone, ChangeOf, CurrentKept, ServiceOf, AnswerCurrent, Changing,
           Inside, Removing, Pending, Made, Sealing
  <2>2. BaseOf(u)'
    <3>1. Sealing(u) => at[u].sid \in Ids
      BY <1>0, <2>0 DEF ThreadInv, CheckpointsKnown, Globals
    <3> QED
      BY <1>1, <1>2, <2>0, <3>1 DEF ThreadAlone, BaseOf, Sealing, Changing
  <2> QED
    BY <2>1, <2>2 DEF ThreadAlone
<1> QED
  BY <1>0, <1>5, <1>6, <1>7, <1>8, <1>9, <1>10 DEF AloneInv

\* Docker commits a container before it is removed.
LEMMA CommitParkAlone ==
    ASSUME AloneInv, NEW t \in Thread, CommitPark(t)
    PROVE  AloneInv'
<1>0. /\ LocksInv /\ LocksInv' /\ ThreadInv(t) /\ ThreadAlone(t)
      /\ at[t].pc = "park_core" /\ at[t].op = "park" /\ kind = "docker"
  BY CheckpointLocks DEF AloneInv, LocksInv, ThreadInv, PlaceOfCall, CommitPark, At
<1>1. /\ UNCHANGED <<kind, backend, unlisted, graph, live, branches, st, current>>
      /\ Ended' = Ended
  BY DEF CommitPark, registryVars, treeVars, Ended
<1>2. /\ at'[t].pc = "park_remove" /\ at'[t].op = "park" /\ at'[t].br = at[t].br
      /\ at'[t].ob = at[t].ob
      /\ OnlyBy(t) /\ \A u \in Thread \ {t} : at'[u] = at[u]
  BY <1>0, CommitParkMoves DEF Moved, OnlyBy
<1>3. InStep'
  BY <1>0, <1>1, <1>2 DEF AloneInv, InStep, Changing
<1>4. InService'
  <2>1. ASSUME NEW u \in Thread, Pending(u) PROVE Pending(u)' /\ at'[u].ids = at[u].ids
    BY <1>0, <1>2, <2>1 DEF Pending, Made
  <2> QED
    BY <1>1, <2>1 DEF AloneInv, InService
<1>5. Positioned' /\ LineageTrue'
  BY <1>0, <1>1 DEF Positioned, LineageTrue
<1>6. ThreadAlone(t)'
  BY <1>0, <1>1, <1>2
     DEF ThreadAlone, ChangeOf, CurrentKept, ServiceOf, AnswerCurrent, BaseOf,
         Inside, Removing, Pending, Made, Sealing
<1>7. ASSUME NEW u \in Thread \ {t} PROVE ThreadAlone(u)'
  <2>0. ThreadAlone(u) /\ at'[u] = at[u]
    BY <1>2 DEF AloneInv
  <2> QED
    BY <1>0, <1>1, <2>0
       DEF ThreadAlone, ChangeOf, CurrentKept, ServiceOf, AnswerCurrent, BaseOf,
           Inside, Removing, Pending, Made, Sealing
<1> QED
  BY <1>0, <1>3, <1>4, <1>5, <1>6, <1>7 DEF AloneInv

\* Cleanup takes every branch at once, whoever works on one.
LEMMA TearDownAlone ==
    ASSUME AloneInv, NEW t \in Thread, TearDown(t)
    PROVE  AloneInv'
<1>0. /\ LocksInv /\ LocksInv' /\ ThreadInv(t)
      /\ at[t].pc = "cleanup" /\ at[t].op = "cleanup"
  BY CleanupLocks DEF AloneInv, LocksInv, ThreadInv, PlaceOfCall, TearDown, At
<1>1. /\ UNCHANGED <<kind, origin, graph, live, branches, st, current>> /\ Ended'
      /\ DOMAIN backend' = {} /\ unlisted' = {}
  BY DEF TearDown, Without, registryVars, treeVars, Ended
<1>2. Returned(t) /\ OnlyBy(t) /\ \A u \in Thread \ {t} : at'[u] = at[u]
  BY <1>0, Returns DEF TearDown, OnlyBy
<1>3. InStep'
  BY <1>1 DEF AloneInv, InStep
<1>4. InService'
  <2>1. ASSUME NEW u \in Thread, Pending(u) PROVE Pending(u)' /\ at'[u].ids = at[u].ids
    BY <1>0, <1>2, <2>1 DEF Pending, Made, ThreadInv, PlaceOfCall
  <2> QED
    BY <1>1, <2>1 DEF AloneInv, InService
<1>5. Positioned' /\ LineageTrue'
  BY <1>1 DEF AloneInv, Positioned, LineageTrue, ParentIsBase
<1>6. ThreadAlone(t)'
  BY <1>2
     DEF Returned, ThreadAlone, ChangeOf, CurrentKept, ServiceOf, AnswerCurrent, BaseOf,
              Inside, Removing, Pending, Made, Sealing
<1>7. ASSUME NEW u \in Thread \ {t} PROVE ThreadAlone(u)'
  <2>0. ThreadAlone(u) /\ at'[u] = at[u]
    BY <1>2 DEF AloneInv
  <2> QED
    BY <1>1, <2>0
       DEF ThreadAlone, ChangeOf, CurrentKept, ServiceOf, AnswerCurrent, BaseOf,
           Inside, Removing, Pending, Made, Sealing
<1> QED
  BY <1>0, <1>3, <1>4, <1>5, <1>6, <1>7 DEF AloneInv

-----------------------------------------------------------------------------
(* The invariant of a manager that has the session to itself.              *)

\* A manager that has just attached.
LEMMA InitAlone == Init => AloneInv
<1> SUFFICES ASSUME Init PROVE AloneInv
  OBVIOUS
<1>1. LocksInv
  BY InitLocks
<1>2. /\ FirstState \in State /\ FirstState.branch = Main
      /\ DOMAIN backend = {Main} /\ backend[Main] = 1
      /\ DOMAIN branches = {Main} /\ branches[Main] = FirstState
      /\ live = {Main} /\ current = Main /\ ~Ended /\ unlisted = {}
  BY IdleTypes DEF Init, FirstState, Ended
<1>3. /\ st[FirstState].active /\ st[FirstState].pos = 1
      /\ \A o \in State : st[o].active => o = FirstState
  BY <1>2 DEF Init
<1>4. \A t \in Thread : at[t].pc = "idle" /\ at[t].op = "none"
  BY DEF Init, Idle
<1>5. InStep /\ InService /\ Positioned
  BY <1>2, <1>3 DEF InStep, InService, Positioned
<1>6. LineageTrue
  BY DEF Init, LineageTrue, ParentIsBase, NoSnapshot
<1>7. \A t \in Thread : ThreadAlone(t)
  BY <1>4 DEF ThreadAlone, ChangeOf, CurrentKept, ServiceOf, AnswerCurrent, BaseOf,
              Inside, Removing, Pending, Made, Sealing
<1> QED
  BY <1>1, <1>5, <1>6, <1>7 DEF AloneInv

\* Every step of every thread.
LEMMA NextAlone == Alone /\ AloneInv /\ [Next]_vars => AloneInv'
<1> SUFFICES ASSUME Alone, AloneInv, [Next]_vars PROVE AloneInv'
  OBVIOUS
<1>1. ASSUME NEW t \in Thread, Begin(t) PROVE AloneInv'
  BY <1>1, BeginAlone
<1>2. ASSUME NEW t \in Thread, Continue(t) PROVE AloneInv'
  <2>1. CASE Refused(t) \/ LockExec(t) \/ Run(t) \/ LockSeal(t) \/ SnapshotFails(t)
    BY <2>1, ExecAlone
  <2>2. CASE CoreSnapshot(t) \/ Commit(t)
    BY <2>2, SealAlone
  <2>3. CASE Query(t) \/ QueryFails(t)
    BY <2>3, QueryAlone
  <2>4. CASE Apply(t)
    BY <2>4, ApplyAlone
  <2>5. CASE Prune(t)
    BY <2>5, PruneAlone
  <2>6. CASE Record(t)
    BY <2>6, RecordAlone
  <2>7. CASE \/ LockDeparting(t) \/ LockRetiring(t) \/ CheckRetiring(t) \/ DestroyFails(t)
             \/ LockPark(t) \/ CheckPark(t) \/ UndoCommit(t) \/ ParkFails(t) \/ TearDownFails(t)
    BY <2>7, LookAlone
  <2>8. CASE Materialize(t) \/ MaterializeFails(t)
    BY <2>8, MaterializeAlone, MaterializeFailsAlone
  <2>9. CASE Register(t)
    BY <2>9, RegisterAlone
  <2>10. CASE Switch(t)
    BY <2>10, SwitchAlone
  <2>11. CASE Position(t)
    BY <2>11, PositionAlone
  <2>12. CASE Destroy(t)
    BY <2>12, DestroyAlone
  <2>13. CASE Forget(t)
    BY <2>13, ForgetAlone
  <2>14. CASE CorePark(t) \/ RemoveParked(t)
    BY <2>14, ParkAlone
  <2>15. CASE CommitPark(t)
    BY <2>15, CommitParkAlone
  <2>16. CASE RecordPark(t)
    BY <2>16, RecordParkAlone
  <2>17. CASE TearDown(t)
    BY <2>17, TearDownAlone
  <2> QED
    BY <1>2, <2>1, <2>2, <2>3, <2>4, <2>5, <2>6, <2>7, <2>8, <2>9, <2>10, <2>11, <2>12,
       <2>13, <2>14, <2>15, <2>16, <2>17 DEF Continue
<1>3. CASE Others
  BY <1>3 DEF Alone, Others, OtherSeals, OtherDestroys, OtherForks, OthersMay
<1>4. CASE UNCHANGED vars
  <2>0. /\ UNCHANGED <<kind, backend, unlisted, origin, graph, live, branches, st, current, at>>
        /\ LocksInv' /\ Ended' = Ended
    BY <1>4, NextLocks DEF vars, AloneInv, Ended
  <2>1. InStep' /\ InService' /\ Positioned' /\ LineageTrue'
    BY <2>0 DEF AloneInv, InStep, InService, Positioned, LineageTrue, ParentIsBase,
                Pending, Made, Sealing
  <2>2. ASSUME NEW t \in Thread PROVE ThreadAlone(t)'
    <3>1. ThreadAlone(t)
      BY DEF AloneInv
    <3> QED
      BY <2>0, <3>1
         DEF ThreadAlone, ChangeOf, CurrentKept, ServiceOf, AnswerCurrent, BaseOf,
             Inside, Removing, Pending, Made, Sealing
  <2> QED
    BY <2>0, <2>1, <2>2 DEF AloneInv
<1> QED
  BY <1>1, <1>2, <1>3, <1>4 DEF Next

\* What AloneInv says of the registries, of the backend and of what each thread
\* knows of them holds in every reachable state, however the calls overlap and
\* whatever the backend fails to do.
THEOREM AloneInvariant == ASSUME Alone PROVE Spec => []AloneInv
<1>1. Init => AloneInv
  BY InitAlone
<1>2. AloneInv /\ [Next]_vars => AloneInv'
  BY NextAlone
<1> QED
  BY <1>1, <1>2, PTL DEF Spec

-----------------------------------------------------------------------------
(* What the invariant is for.                                              *)

\* A working thread owns its branch, and the branch is alive until cleanup.
LEMMA WorkersOwn == AloneInv => OneOperationPerBranch
<1> SUFFICES ASSUME AloneInv, NEW t \in Thread, Working(t)
             PROVE  /\ Ended \/ at[t].br \in DOMAIN backend
                    /\ at[t].br \in DOMAIN branches
                    /\ \A u \in Thread \ {t} : Working(u) => at[u].br # at[t].br
  BY DEF OneOperationPerBranch
<1>1. \A u \in Thread : Working(u) => Inside(u) \/ Removing(u)
  BY DEF Working, Inside, Removing
<1>2. at[t].br \in live /\ at[t].br \in DOMAIN branches
  BY <1>1, Owners
<1>3. \A u \in Thread \ {t} : Inside(u) \/ Removing(u) => at[u].br # at[t].br
  BY <1>1, OneOwner
<1>4. \A u \in Thread : at[u].pc \in {"forget", "park_record"} => u # t /\ at[u].br # at[t].br
  BY <1>3 DEF Working, Inside, Removing
<1>5. Ended \/ at[t].br \in DOMAIN backend
  BY <1>2, <1>4, Alive
<1> QED
  BY <1>1, <1>2, <1>3, <1>5

\* With the current-branch lock free no restore has a branch out of service, and
\* nobody is taking one away.
LEMMA CurrentServes == AloneInv => CurrentUsable
<1> SUFFICES ASSUME AloneInv, C = NoThread
             PROVE  /\ Ended \/ current \in DOMAIN backend
                    /\ current \in DOMAIN branches
                    /\ st[branches[current]].active
  BY DEF CurrentUsable
<1>1. \A t \in Thread : ~HoldsC(t)
  BY ForkableAssumption DEF AloneInv, LocksInv, ThreadInv, LocksHeld
<1>2. \A t \in Thread : ~Pending(t) /\ at[t].pc \notin {"forget", "park_record"}
  BY <1>1 DEF AloneInv, LocksInv, ThreadInv, PlaceOfCall, HoldsC, Pending, Made
<1>3. current \in live /\ current \in DOMAIN branches
  BY DEF AloneInv, InStep
<1>4. st[branches[current]].active
  BY <1>2, <1>3 DEF AloneInv, InService
<1>5. Ended \/ current \in DOMAIN backend
  BY <1>2, <1>3, Alive
<1> QED
  BY <1>3, <1>4, <1>5

\* Every change of the registries is made under the registry lock.
LEMMA RegistriesMeet == AloneInv => RegistriesAgree
<1> SUFFICES ASSUME AloneInv, R = NoThread
             PROVE  /\ DOMAIN branches = live
                    /\ Ended \/ live = DOMAIN backend \ unlisted
  BY DEF RegistriesAgree
<1>1. \A t \in Thread : at[t].pc \notin Changing
  BY ForkableAssumption DEF AloneInv, LocksInv, ThreadInv, LocksHeld, HoldsR, Changing
<1> QED
  BY <1>1 DEF AloneInv, InStep

\* A branch whose lock is free is not being sealed.
LEMMA PositionsMeet == AloneInv => PositionsTrue
<1> SUFFICES ASSUME AloneInv, kind = "waypoint", NEW b \in DOMAIN branches,
                    O[branches[b]] = NoThread, b \in DOMAIN backend
             PROVE  st[branches[b]].pos = backend[b]
  BY DEF PositionsTrue
<1>1. ASSUME NEW u \in Thread, Sealing(u) PROVE at[u].br # b
  BY <1>1, Owners, ForkableAssumption DEF Inside
<1> QED
  BY <1>1 DEF AloneInv, Positioned

\* The branch of a restore is not in service, so nobody can have sealed it or
\* taken it away.
LEMMA RestoresMeet == AloneInv => RestoreLands
<1> SUFFICES ASSUME AloneInv, NEW t \in Thread, At(t, "position"), ~Ended
             PROVE  current \in DOMAIN backend /\ backend[current] = at[t].base
  BY DEF RestoreLands
<1>1. Pending(t) /\ at[t].ids = {current} /\ ~st[branches[current]].active
  BY DEF AloneInv, LocksInv, ThreadInv, PlaceOfCall, ThreadAlone, CurrentKept, ServiceOf,
         Pending, Made, At
<1>2. \A u \in Thread : at[u].pc \in {"forget", "park_record"} => at[u].br # current
  BY <1>1, Owners DEF Inside, Removing
<1>3. current \in DOMAIN backend
  BY <1>2, Alive DEF AloneInv, InStep
<1> QED
  BY <1>1, <1>3 DEF AloneInv, ThreadAlone, ServiceOf

\* "Commands on the same fork serialize": the backend works on a branch for one
\* caller at a time, and on branches that are registered and alive only.
THEOREM OperationsSerialize == ASSUME Alone PROVE Spec => []OneOperationPerBranch
  BY AloneInvariant, WorkersOwn, PTL

\* Between restores, discards and parks the current branch is registered, alive
\* and in service.
THEOREM CurrentIsUsable == ASSUME Alone PROVE Spec => []CurrentUsable
  BY AloneInvariant, CurrentServes, PTL

\* Whenever the registry lock is free, _live_branches, _branches and the backend
\* agree.
THEOREM RegistriesAreInStep == ASSUME Alone PROVE Spec => []RegistriesAgree
  BY AloneInvariant, RegistriesMeet, PTL

\* No listing puts a branch back to a checkpoint that it has left.
THEOREM PositionsAreTrue == ASSUME Alone PROVE Spec => []PositionsTrue
  BY AloneInvariant, PositionsMeet, PTL

\* The snapshot graph says of every checkpoint what it was made from.
THEOREM LineageIsTrue == ASSUME Alone PROVE Spec => []LineageTrue
<1>1. AloneInv => LineageTrue
  BY DEF AloneInv
<1> QED
  BY <1>1, AloneInvariant, PTL

\* A restore that returns True leaves the manager on a live branch that stands on
\* its target.
THEOREM RestoresLand == ASSUME Alone PROVE Spec => []RestoreLands
  BY AloneInvariant, RestoresMeet, PTL
=============================================================================
