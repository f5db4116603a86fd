---------------------- MODULE ForkableManager_proofs ----------------------
(***************************************************************************)
(* Theorems about the forkable manager that hold whatever fails and        *)
(* whoever else works on the session, for any set of threads and of        *)
(* branches, any number of calls and both backends: the types of the       *)
(* variables, and which thread holds which lock at which place.            *)
(***************************************************************************)
EXTENDS ForkableManager, TLAPS

Views == UNION {[bs -> Nat] : bs \in SUBSET Branch}
Locals == [pc : Places, op : Operations, br : Branch, ob : State, dob : State,
           base : Nat, sid : Nat, ids : SUBSET Branch, view : Views]

\* The types of the variables, but for the threads' places.
Globals ==
    /\ kind \in Kinds
    /\ IsMap(backend, Ids)
    /\ origin \in Seq(Nat)
    /\ snapshots \subseteq Ids
    /\ DOMAIN graph \subseteq snapshots
    /\ graph \in [DOMAIN graph -> [parent : Nat, children : SUBSET Ids]]
    /\ live \subseteq Branch
    /\ IsMap(branches, State)
    /\ st \in [State -> [pos : Nat, active : BOOLEAN]]
    /\ current \in Branch
    /\ {C, R} \subseteq Thread \cup {NoThread}
    /\ O \in [State -> Thread \cup {NoThread}]
    /\ calls \in 0 .. MaxCalls

\* A snapshot of its branch that has been taken and not yet recorded.
Sealing(t) ==
    at[t].op = "snapshot" /\ at[t].pc \in {"refresh", "apply", "prune", "record"}

\* The branch that a restore has made.
Made(t) ==
    at[t].op = "restore" /\ at[t].pc \notin {"departing", "materialize"}

\* Which calls come to which places.
PlaceOfCall(t) ==
    /\ at[t].pc = "idle" <=> at[t].op = "none"
    /\ at[t].pc \in {"exec", "run"} => at[t].op \in {"exec", "copy"}
    /\ at[t].pc \in {"seal", "core", "record"} => at[t].op = "snapshot"
    /\ at[t].pc \in {"refresh", "apply", "prune"} => at[t].op \in {"snapshot", "list"}
    /\ at[t].pc \in {"materialize", "register"}
          => at[t].op \in {"fork", "fork_auto", "restore"}
    /\ at[t].pc \in {"departing", "switch", "position"} => at[t].op = "restore"
    /\ at[t].pc \in {"retire", "check", "destroy", "forget"}
          => at[t].op \in {"restore", "discard"}
    /\ at[t].pc \in {"park", "park_check", "park_core", "park_remove", "park_record"}
          => at[t].op = "park"
    /\ at[t].pc = "cleanup" => at[t].op = "cleanup"

\* Where a thread holds which lock.
HoldsR(t) ==
    \/ at[t].pc \in {"apply", "prune", "register", "destroy", "forget",
                     "park_core", "park_remove", "park_record"}
    \/ at[t].pc = "materialize" /\ at[t].op # "restore"
HoldsC(t) == at[t].op \in {"restore", "discard", "park"}
HoldsOb(t) ==
    \/ at[t].pc \in {"run", "core"}
    \/ Sealing(t)
    \/ at[t].op = "restore" /\ at[t].pc # "departing"
    \/ at[t].op = "park" /\ at[t].pc # "park"
HoldsDob(t) == at[t].pc \in {"check", "destroy", "forget"}

LocksHeld(t) ==
    /\ R = t <=> HoldsR(t)
    /\ HoldsC(t) => C = t
    /\ HoldsOb(t) => O[at[t].ob] = t
    /\ HoldsDob(t) => O[at[t].dob] = t

\* A thread works on the state objects of its branch.
ObjectsNamed(t) ==
    /\ at[t].op \in {"exec", "copy", "snapshot", "restore", "park"}
          => at[t].ob.branch = at[t].br
    /\ HoldsDob(t) \/ at[t].pc = "retire" => at[t].dob.branch = at[t].br

\* The checkpoints that a thread speaks of exist.
CheckpointsKnown(t) ==
    /\ at[t].op \in {"fork", "fork_auto", "restore"} => at[t].base \in Ids
    /\ Made(t) => \E b \in Branch : at[t].ids = {b}
    /\ at[t].pc = "park_remove" => at[t].sid \in Ids
    /\ Sealing(t) \/ at[t].pc = "park_record" => at[t].sid \in snapshots

ThreadInv(t) ==
    PlaceOfCall(t) /\ LocksHeld(t) /\ ObjectsNamed(t) /\ CheckpointsKnown(t)

\* The registered state objects are those of their branches.
BranchesNamed == \A b \in DOMAIN branches : branches[b].branch = b

LocksInv ==
    /\ Globals
    /\ at \in [Thread -> Locals]
    /\ BranchesNamed
    /\ \A t \in Thread : ThreadInv(t)

-----------------------------------------------------------------------------
(* What a step does to the places and to the locks.                        *)

\* t is the only thread that moves, and the only one that takes or gives back.
OnlyBy(t) ==
    \A u \in Thread \ {t} :
        /\ at'[u] = at[u]
        /\ R' = u <=> R = u
        /\ C' = u <=> C = u
        /\ \A o \in State : O'[o] = u <=> O[o] = u

\* The registries, the graph and the backend stay as they are.
DataKept == UNCHANGED <<kind, backendVars, treeVars, registryVars>>

Moved(t, place, dob, base, sid, ids, view) ==
    /\ at' \in [Thread -> Locals]
    /\ at'[t].pc = place
    /\ at'[t].op = at[t].op /\ at'[t].br = at[t].br /\ at'[t].ob = at[t].ob
    /\ at'[t].dob = dob /\ at'[t].base = base /\ at'[t].sid = sid
    /\ at'[t].ids = ids /\ at'[t].view = view

Began(t, place, op, br, ob, dob, base, ids) ==
    /\ at' \in [Thread -> Locals]
    /\ at[t].pc = "idle"
    /\ at'[t].pc = place /\ at'[t].op = op /\ at'[t].br = br /\ at'[t].ob = ob
    /\ at'[t].dob = dob /\ at'[t].base = base /\ at'[t].ids = ids

Returned(t) ==
    /\ at' \in [Thread -> Locals]
    /\ at'[t].pc = "idle" /\ at'[t].op = "none" /\ at'[t].ids = {}
    /\ R' # t /\ C' # t /\ \A o \in State : O'[o] # t

\* The two halves of the types together are the type invariant of the module.
LEMMA TypesOf ==
    ASSUME Globals, unlisted \subseteq Branch, at \in [Thread -> Locals]
    PROVE  TypeOK
<1>1. \A t \in Thread : LocalsOK(at[t])
  <2> SUFFICES ASSUME NEW t \in Thread PROVE LocalsOK(at[t])
    OBVIOUS
  <2>1. at[t] \in Locals
    OBVIOUS
  <2>2. IsMap(at[t].view, Nat)
    BY <2>1 DEF Locals, Views, IsMap
  <2> QED
    BY <2>1, <2>2 DEF Locals, LocalsOK
<1> QED
  BY <1>1 DEF Globals, TypeOK

\* The types of a thread's local variables and of the locks, unfolded.
LEMMA Types ==
    ASSUME LocksInv, NEW t \in Thread
    PROVE  /\ at \in [Thread -> Locals]
           /\ at[t].pc \in Places /\ at[t].op \in Operations /\ at[t].br \in Branch
           /\ at[t].ob \in State /\ at[t].dob \in State
           /\ at[t].base \in Nat /\ at[t].sid \in Nat
           /\ at[t].ids \in SUBSET Branch /\ at[t].view \in Views
           /\ R \in Thread \cup {NoThread} /\ C \in Thread \cup {NoThread}
           /\ O \in [State -> Thread \cup {NoThread}]
           /\ NoThread \notin Thread
  BY ForkableAssumption DEF LocksInv, Globals, Locals

\* A thread that has asked for no answer holds an empty one.
LEMMA NoView == << >> \in Views
<1>1. << >> \in [{} -> Nat]
  OBVIOUS
<1> QED
  BY <1>1 DEF Views

\* A thread between two calls has well-typed locals.
LEMMA IdleTypes == FirstState \in State /\ Idle \in Locals
<1>1. (CHOOSE g \in Gen : TRUE) \in Gen
  BY ForkableAssumption
<1>2. FirstState \in State
  BY <1>1, ForkableAssumption DEF FirstState, State
<1> QED
  BY <1>2, NoView, ForkableAssumption DEF Idle, Locals, Places, Operations, NoSnapshot

\* The threads that do not move keep what they hold and know.
LEMMA Frame ==
    ASSUME LocksInv, NEW t \in Thread, OnlyBy(t),
           origin' \in Seq(Nat), Len(origin) <= Len(origin'), snapshots \subseteq snapshots'
    PROVE  \A u \in Thread \ {t} : ThreadInv(u)'
<1> SUFFICES ASSUME NEW u \in Thread, u # t PROVE ThreadInv(u)'
  OBVIOUS
<1>0. ThreadInv(u) /\ at'[u] = at[u] /\ at[u].ob \in State /\ at[u].dob \in State
  BY Types DEF LocksInv, OnlyBy
<1>1. PlaceOfCall(u)'
  BY <1>0 DEF ThreadInv, PlaceOfCall
<1>2. LocksHeld(u)'
  BY <1>0 DEF ThreadInv, LocksHeld, OnlyBy, HoldsR, HoldsC, HoldsOb, HoldsDob, Sealing
<1>3. ObjectsNamed(u)'
  BY <1>0 DEF ThreadInv, ObjectsNamed, HoldsDob
<1>4. Ids \subseteq Ids'
  BY DEF LocksInv, Globals, Ids
<1>5. CheckpointsKnown(u)'
  BY <1>0, <1>4 DEF ThreadInv, CheckpointsKnown, Sealing, Made
<1> QED
  BY <1>1, <1>2, <1>3, <1>5 DEF ThreadInv

\* A step that only moves the place.
LEMMA Goes ==
    ASSUME LocksInv, NEW t \in Thread, NEW p \in Places, Goto(t, p)
    PROVE  /\ Moved(t, p, at[t].dob, at[t].base, at[t].sid, at[t].ids, at[t].view)
           /\ \A u \in Thread \ {t} : at'[u] = at[u]
  BY DEF Goto, Locals, Moved, LocksInv

\* A call that ends gives back what it holds, and nothing of anybody else's.
LEMMA Returns ==
    ASSUME LocksInv, NEW t \in Thread, Return(t)
    PROVE  Returned(t) /\ OnlyBy(t)
<1>1. at' \in [Thread -> Locals] /\ at'[t] = Idle /\ \A u \in Thread \ {t} : at'[u] = at[u]
  BY IdleTypes DEF Return, LocksInv
<1>2. at'[t].pc = "idle" /\ at'[t].op = "none" /\ at'[t].ids = {}
  BY <1>1 DEF Idle
<1>3. \A o \in State : O'[o] = Released(O[o], t)
  BY DEF Return
<1>4. R' = Released(R, t) /\ C' = Released(C, t)
  BY DEF Return
<1> QED
  BY <1>1, <1>2, <1>3, <1>4, Types DEF Returned, OnlyBy, Released

\* The thread that has returned knows nothing and holds nothing.
LEMMA ReturnKeeps ==
    ASSUME LocksInv, NEW t \in Thread, Return(t)
    PROVE  /\ ThreadInv(t)'
           /\ {C', R'} \subseteq Thread \cup {NoThread}
           /\ O' \in [State -> Thread \cup {NoThread}]
<1>1. Returned(t)
  BY Returns
<1>2. ThreadInv(t)'
  BY <1>1 DEF Returned, ThreadInv, PlaceOfCall, LocksHeld, HoldsR, HoldsC, HoldsOb,
              HoldsDob, Sealing, ObjectsNamed, CheckpointsKnown, Made
<1> QED
  BY <1>2, Types DEF Return, Released

\* A step that leaves the data alone keeps their types.
LEMMA GlobalsKept ==
    ASSUME Globals, calls' \in 0 .. MaxCalls,
           DataKept,
           {C', R'} \subseteq Thread \cup {NoThread},
           O' \in [State -> Thread \cup {NoThread}]
    PROVE  Globals'
  BY DEF DataKept, Globals, backendVars, treeVars, registryVars, IsMap, Ids

\* Putting the parts together for a step of t.
LEMMA Together ==
    ASSUME LocksInv, NEW t \in Thread, OnlyBy(t), at' \in [Thread -> Locals],
           Globals', BranchesNamed', ThreadInv(t)',
           Len(origin) <= Len(origin'), snapshots \subseteq snapshots'
    PROVE  LocksInv'
<1>1. origin' \in Seq(Nat)
  BY DEF Globals
<1>2. \A u \in Thread \ {t} : ThreadInv(u)'
  BY <1>1, Frame
<1> QED
  BY <1>2 DEF LocksInv

\* The same, for a step that leaves the data alone.
LEMMA Unmoved ==
    ASSUME LocksInv, NEW t \in Thread, OnlyBy(t), at' \in [Thread -> Locals],
           calls' \in 0 .. MaxCalls,
           DataKept,
           {C', R'} \subseteq Thread \cup {NoThread},
           O' \in [State -> Thread \cup {NoThread}],
           ThreadInv(t)'
    PROVE  LocksInv'
<1>1. Globals'
  BY GlobalsKept DEF LocksInv
<1>2. BranchesNamed'
  BY DEF LocksInv, BranchesNamed, DataKept, registryVars
<1>3. Len(origin) <= Len(origin') /\ snapshots \subseteq snapshots'
  BY DEF LocksInv, Globals, DataKept, backendVars, treeVars
<1> QED
  BY <1>1, <1>2, <1>3, Together

-----------------------------------------------------------------------------
(* The calls.                                                              *)

\* A call begins at an idle thread and is counted.
LEMMA Counted ==
    ASSUME LocksInv, NEW t \in Thread, NEW l \in Locals, Call(t, l)
    PROVE  /\ calls' \in 0 .. MaxCalls /\ at[t].pc = "idle"
           /\ at' \in [Thread -> Locals] /\ at'[t] = l
           /\ \A u \in Thread \ {t} : at'[u] = at[u]
  BY ForkableAssumption DEF Call, At, LocksInv, Globals

\* exec_command, copy_in, copy_out and snapshot on the current branch.
LEMMA OnCurrentBegan ==
    ASSUME LocksInv, NEW t \in Thread, NEW place \in {"exec", "seal"},
           NEW op \in {"exec", "copy", "snapshot"}, OnCurrent(t, place, op)
    PROVE  /\ Began(t, place, op, current, branches[current], FirstState, NoSnapshot, {})
           /\ C' = t /\ R' = R /\ O' = O /\ DataKept
           /\ OnlyBy(t) /\ calls' \in 0 .. MaxCalls
<1> DEFINE l == [Idle EXCEPT !.pc = place, !.op = op, !.br = current,
                             !.ob = branches[current]]
<1>1. /\ l \in Locals /\ l.pc = place /\ l.op = op /\ l.br = current
      /\ l.ob = branches[current]
      /\ l.dob = FirstState /\ l.base = NoSnapshot /\ l.ids = {}
  <2>1. branches[current] \in State /\ current \in Branch
    BY DEF OnCurrent, LocksInv, Globals, IsMap
  <2> QED
    BY <2>1, IdleTypes DEF Locals, Idle, Places, Operations
<1>2. Call(t, l)
  BY DEF OnCurrent
<1> HIDE DEF l
<1>3. /\ calls' \in 0 .. MaxCalls /\ at[t].pc = "idle" /\ at' \in [Thread -> Locals]
      /\ at'[t] = l
      /\ \A u \in Thread \ {t} : at'[u] = at[u]
  BY <1>1, <1>2, Counted
<1>4. OnlyBy(t)
  BY <1>3, Types DEF OnCurrent, OnlyBy
<1>5. C' = t /\ R' = R /\ O' = O /\ DataKept
  BY DEF OnCurrent, DataKept, lockVars
<1> QED
  BY <1>5, <1>1, <1>3, <1>4 DEF Began

\* The same on a named branch, without the current-branch lock.
LEMMA OnBranchBegan ==
    ASSUME LocksInv, NEW t \in Thread, NEW b \in Branch, NEW place \in {"exec", "seal"},
           NEW op \in {"exec", "copy", "snapshot"}, OnBranch(t, b, place, op)
    PROVE  /\ Began(t, place, op, b, branches[b], FirstState, NoSnapshot, {})
           /\ C' = C /\ R' = R /\ O' = O /\ DataKept
           /\ OnlyBy(t) /\ calls' \in 0 .. MaxCalls
<1> DEFINE l == [Idle EXCEPT !.pc = place, !.op = op, !.br = b, !.ob = branches[b]]
<1>1. l \in Locals /\ l.pc = place /\ l.op = op /\ l.br = b /\ l.ob = branches[b]
      /\ l.dob = FirstState /\ l.base = NoSnapshot /\ l.ids = {}
  <2>1. branches[b] \in State
    BY DEF OnBranch, LocksInv, Globals, IsMap
  <2> QED
    BY <2>1, IdleTypes DEF Locals, Idle, Places, Operations
<1>2. Call(t, l)
  BY DEF OnBranch
<1> HIDE DEF l
<1>3. /\ calls' \in 0 .. MaxCalls /\ at[t].pc = "idle" /\ at' \in [Thread -> Locals]
      /\ at'[t] = l
      /\ \A u \in Thread \ {t} : at'[u] = at[u]
  BY <1>1, <1>2, Counted
<1>4. OnlyBy(t)
  BY <1>3, Types DEF OnBranch, lockVars, OnlyBy
<1>5. C' = C /\ R' = R /\ O' = O /\ DataKept
  BY DEF OnBranch, DataKept, lockVars
<1> QED
  BY <1>5, <1>1, <1>3, <1>4 DEF Began

\* list_branches takes no lock when it begins.
LEMMA ListBegan ==
    ASSUME LocksInv, NEW t \in Thread, List(t)
    PROVE  /\ Began(t, "refresh", "list", Main, FirstState, FirstState, NoSnapshot, {})
           /\ C' = C /\ R' = R /\ O' = O /\ DataKept
           /\ OnlyBy(t) /\ calls' \in 0 .. MaxCalls
<1> DEFINE l == [Idle EXCEPT !.pc = "refresh", !.op = "list"]
<1>1. l \in Locals /\ l.pc = "refresh" /\ l.op = "list" /\ l.br = Main /\ l.ob = FirstState
      /\ l.dob = FirstState /\ l.base = NoSnapshot /\ l.ids = {}
  BY IdleTypes DEF Locals, Idle, Places, Operations
<1>2. Call(t, l)
  BY DEF List
<1> HIDE DEF l
<1>3. /\ calls' \in 0 .. MaxCalls /\ at[t].pc = "idle" /\ at' \in [Thread -> Locals]
      /\ at'[t] = l
      /\ \A u \in Thread \ {t} : at'[u] = at[u]
  BY <1>1, <1>2, Counted
<1>4. OnlyBy(t)
  BY <1>3, Types DEF List, lockVars, OnlyBy
<1>5. C' = C /\ R' = R /\ O' = O /\ DataKept
  BY DEF List, DataKept, lockVars
<1> QED
  BY <1>5, <1>1, <1>3, <1>4 DEF Began

\* Neither does cleanup.
LEMMA CleanUpBegan ==
    ASSUME LocksInv, NEW t \in Thread, CleanUp(t)
    PROVE  /\ Began(t, "cleanup", "cleanup", Main, FirstState, FirstState, NoSnapshot, {})
           /\ C' = C /\ R' = R /\ O' = O /\ DataKept
           /\ OnlyBy(t) /\ calls' \in 0 .. MaxCalls
<1> DEFINE l == [Idle EXCEPT !.pc = "cleanup", !.op = "cleanup"]
<1>1. /\ l \in Locals /\ l.pc = "cleanup" /\ l.op = "cleanup" /\ l.br = Main
      /\ l.ob = FirstState
      /\ l.dob = FirstState /\ l.base = NoSnapshot /\ l.ids = {}
  BY IdleTypes DEF Locals, Idle, Places, Operations
<1>2. Call(t, l)
  BY DEF CleanUp
<1> HIDE DEF l
<1>3. /\ calls' \in 0 .. MaxCalls /\ at[t].pc = "idle" /\ at' \in [Thread -> Locals]
      /\ at'[t] = l
      /\ \A u \in Thread \ {t} : at'[u] = at[u]
  BY <1>1, <1>2, Counted
<1>4. OnlyBy(t)
  BY <1>3, Types DEF CleanUp, lockVars, OnlyBy
<1>5. C' = C /\ R' = R /\ O' = O /\ DataKept
  BY DEF CleanUp, DataKept, lockVars
<1> QED
  BY <1>5, <1>1, <1>3, <1>4 DEF Began

\* fork takes the registry lock.
LEMMA ForkBegan ==
    ASSUME LocksInv, NEW t \in Thread, NEW s \in Ids, NEW ids \in SUBSET Branch, Fork(t, s, ids)
    PROVE  /\ \E op \in {"fork", "fork_auto"} :
                Began(t, "materialize", op, Main, FirstState, FirstState, s, ids)
           /\ C' = C /\ R' = t /\ O' = O /\ DataKept
           /\ OnlyBy(t) /\ calls' \in 0 .. MaxCalls
<1> DEFINE op == IF ids = {} THEN "fork_auto" ELSE "fork"
           l == [Idle EXCEPT !.pc = "materialize", !.base = s, !.ids = ids, !.op = op]
<1>0. op \in {"fork", "fork_auto"}
  OBVIOUS
<1>2. Call(t, l)
  BY DEF Fork
<1> HIDE DEF op
<1>1. l \in Locals /\ l.pc = "materialize" /\ l.op = op /\ l.br = Main /\ l.ob = FirstState
      /\ l.dob = FirstState /\ l.base = s /\ l.ids = ids
  <2>1. s \in Nat
    BY DEF Ids
  <2> QED
    BY <1>0, <2>1, IdleTypes DEF Locals, Idle, Places, Operations
<1> HIDE DEF l
<1>3. /\ calls' \in 0 .. MaxCalls /\ at[t].pc = "idle" /\ at' \in [Thread -> Locals]
      /\ at'[t] = l
      /\ \A u \in Thread \ {t} : at'[u] = at[u]
  BY <1>1, <1>2, Counted
<1>4. OnlyBy(t)
  BY <1>3, Types DEF Fork, OnlyBy
<1>5. C' = C /\ R' = t /\ O' = O /\ DataKept
  BY DEF Fork, DataKept, lockVars
<1> QED
  BY <1>5, <1>0, <1>1, <1>3, <1>4 DEF Began

\* restore takes the current-branch lock and names the departing branch.
LEMMA RestoreBegan ==
    ASSUME LocksInv, NEW t \in Thread, NEW s \in Ids, Restore(t, s)
    PROVE  /\ Began(t, "departing", "restore", current, branches[current], FirstState, s, {})
           /\ C' = t /\ R' = R /\ O' = O /\ DataKept
           /\ OnlyBy(t) /\ calls' \in 0 .. MaxCalls
<1> DEFINE l == [Idle EXCEPT !.pc = "departing", !.op = "restore", !.br = current,
                             !.ob = branches[current], !.base = s]
<1>1. l \in Locals /\ l.pc = "departing" /\ l.op = "restore" /\ l.br = current
      /\ l.ob = branches[current] /\ l.dob = FirstState /\ l.base = s /\ l.ids = {}
  <2>1. branches[current] \in State /\ current \in Branch
    BY DEF Restore, LocksInv, Globals, IsMap
  <2>2. s \in Nat
    BY DEF Ids
  <2> QED
    BY <2>1, <2>2, IdleTypes DEF Locals, Idle, Places, Operations
<1>2. Call(t, l)
  BY DEF Restore
<1> HIDE DEF l
<1>3. /\ calls' \in 0 .. MaxCalls /\ at[t].pc = "idle" /\ at' \in [Thread -> Locals]
      /\ at'[t] = l
      /\ \A u \in Thread \ {t} : at'[u] = at[u]
  BY <1>1, <1>2, Counted
<1>4. OnlyBy(t)
  BY <1>3, Types DEF Restore, OnlyBy
<1>5. C' = t /\ R' = R /\ O' = O /\ DataKept
  BY DEF Restore, DataKept, lockVars
<1> QED
  BY <1>5, <1>1, <1>3, <1>4 DEF Began

\* discard_branch takes the current-branch lock and names the object to retire.
LEMMA DiscardBegan ==
    ASSUME LocksInv, NEW t \in Thread, NEW b \in Branch, Discard(t, b)
    PROVE  /\ Began(t, "retire", "discard", b, FirstState, branches[b], NoSnapshot, {})
           /\ C' = t /\ R' = R /\ O' = O /\ DataKept
           /\ OnlyBy(t) /\ calls' \in 0 .. MaxCalls
<1> DEFINE l == [Idle EXCEPT !.pc = "retire", !.op = "discard", !.br = b,
                             !.dob = branches[b]]
<1>1. l \in Locals /\ l.pc = "retire" /\ l.op = "discard" /\ l.br = b
      /\ l.ob = FirstState /\ l.dob = branches[b] /\ l.base = NoSnapshot /\ l.ids = {}
  <2>1. branches[b] \in State
    BY DEF Discard, LocksInv, Globals, IsMap
  <2> QED
    BY <2>1, IdleTypes DEF Locals, Idle, Places, Operations
<1>2. Call(t, l)
  BY DEF Discard
<1> HIDE DEF l
<1>3. /\ calls' \in 0 .. MaxCalls /\ at[t].pc = "idle" /\ at' \in [Thread -> Locals]
      /\ at'[t] = l
      /\ \A u \in Thread \ {t} : at'[u] = at[u]
  BY <1>1, <1>2, Counted
<1>4. OnlyBy(t)
  BY <1>3, Types DEF Discard, OnlyBy
<1>5. C' = t /\ R' = R /\ O' = O /\ DataKept
  BY DEF Discard, DataKept, lockVars
<1> QED
  BY <1>5, <1>1, <1>3, <1>4 DEF Began

\* park_branch takes the current-branch lock.
LEMMA ParkBegan ==
    ASSUME LocksInv, NEW t \in Thread, NEW b \in Branch, Park(t, b)
    PROVE  /\ Began(t, "park", "park", b, branches[b], FirstState, NoSnapshot, {})
           /\ C' = t /\ R' = R /\ O' = O /\ DataKept
           /\ OnlyBy(t) /\ calls' \in 0 .. MaxCalls
<1> DEFINE l == [Idle EXCEPT !.pc = "park", !.op = "park", !.br = b, !.ob = branches[b]]
<1>1. l \in Locals /\ l.pc = "park" /\ l.op = "park" /\ l.br = b
      /\ l.ob = branches[b] /\ l.dob = FirstState /\ l.base = NoSnapshot /\ l.ids = {}
  <2>1. branches[b] \in State
    BY DEF Park, LocksInv, Globals, IsMap
  <2> QED
    BY <2>1, IdleTypes DEF Locals, Idle, Places, Operations
<1>2. Call(t, l)
  BY DEF Park
<1> HIDE DEF l
<1>3. /\ calls' \in 0 .. MaxCalls /\ at[t].pc = "idle" /\ at' \in [Thread -> Locals]
      /\ at'[t] = l
      /\ \A u \in Thread \ {t} : at'[u] = at[u]
  BY <1>1, <1>2, Counted
<1>4. OnlyBy(t)
  BY <1>3, Types DEF Park, OnlyBy
<1>5. C' = t /\ R' = R /\ O' = O /\ DataKept
  BY DEF Park, DataKept, lockVars
<1> QED
  BY <1>5, <1>1, <1>3, <1>4 DEF Began

\* A call begins with the locks that its first place needs.
LEMMA BeginLocks ==
    ASSUME LocksInv, NEW t \in Thread, Begin(t)
    PROVE  LocksInv'
<1>0. PlaceOfCall(t) /\ LocksHeld(t) /\ BranchesNamed
  BY DEF LocksInv, ThreadInv
<1> USE DEF ThreadInv, PlaceOfCall, LocksHeld, HoldsR, HoldsC, HoldsOb, HoldsDob,
            Sealing, ObjectsNamed, CheckpointsKnown, Made, Began
<1>1. ASSUME NEW place \in {"exec", "seal"}, NEW op \in {"exec", "copy", "snapshot"},
             place = "exec" <=> op \in {"exec", "copy"}, OnCurrent(t, place, op)
      PROVE  LocksInv'
  <2>1. ThreadInv(t)'
    BY <1>0, <1>1, OnCurrentBegan DEF OnCurrent, BranchesNamed
  <2> QED
    BY <1>1, <2>1, OnCurrentBegan, Unmoved, Types
<1>2. ASSUME NEW place \in {"exec", "seal"}, NEW op \in {"exec", "copy", "snapshot"},
             place = "exec" <=> op \in {"exec", "copy"},
             NEW b \in Branch, OnBranch(t, b, place, op)
      PROVE  LocksInv'
  <2>1. ThreadInv(t)'
    BY <1>0, <1>2, OnBranchBegan DEF OnBranch, BranchesNamed
  <2> QED
    BY <1>2, <2>1, OnBranchBegan, Unmoved, Types
<1>3. CASE Exec(t) \/ Copy(t) \/ Snapshot(t)
  BY <1>1, <1>3 DEF Exec, Copy, Snapshot
<1>4. CASE \E b \in Branch : ExecOnBranch(t, b) \/ CopyBranch(t, b) \/ SnapshotBranch(t, b)
  BY <1>2, <1>4 DEF ExecOnBranch, CopyBranch, SnapshotBranch
<1>5. CASE List(t)
  <2>1. ThreadInv(t)'
    BY <1>0, <1>5, ListBegan
  <2> QED
    BY <1>5, <2>1, ListBegan, Unmoved, Types
<1>6. CASE CleanUp(t)
  <2>1. ThreadInv(t)'
    BY <1>0, <1>6, CleanUpBegan
  <2> QED
    BY <1>6, <2>1, CleanUpBegan, Unmoved, Types
<1>7. ASSUME NEW b \in Branch, Discard(t, b) PROVE LocksInv'
  <2>1. ThreadInv(t)'
    BY <1>0, <1>7, DiscardBegan DEF Discard, BranchesNamed
  <2> QED
    BY <1>7, <2>1, DiscardBegan, Unmoved, Types
<1>8. ASSUME NEW b \in Branch, Park(t, b) PROVE LocksInv'
  <2>1. ThreadInv(t)'
    BY <1>0, <1>8, ParkBegan DEF Park, BranchesNamed
  <2> QED
    BY <1>8, <2>1, ParkBegan, Unmoved, Types
<1>9. ASSUME NEW s \in Ids, Restore(t, s) PROVE LocksInv'
  <2>1. ThreadInv(t)'
    BY <1>0, <1>9, RestoreBegan DEF Restore, BranchesNamed, DataKept, backendVars, Ids
  <2> QED
    BY <1>9, <2>1, RestoreBegan, Unmoved, Types
<1>10. ASSUME NEW s \in Ids, NEW ids \in SUBSET Branch, Fork(t, s, ids) PROVE LocksInv'
  <2>1. ThreadInv(t)'
    BY <1>0, <1>10, ForkBegan DEF DataKept, backendVars, Ids
  <2> QED
    BY <1>10, <2>1, ForkBegan, Unmoved, Types
<1> QED
  BY <1>3, <1>4, <1>5, <1>6, <1>7, <1>8, <1>9, <1>10 DEF Begin


-----------------------------------------------------------------------------
(* The moves of a call that has begun.                                     *)

\* What the backend answers to a listing, Waypoint's or Docker's.
LEMMA ViewTypes ==
    ASSUME LocksInv
    PROVE  View \in Views /\ DOMAIN View = DOMAIN backend
<1>1. IsMap(backend, Ids) /\ Ids \subseteq Nat /\ IsMap(branches, State)
      /\ st \in [State -> [pos : Nat, active : BOOLEAN]]
  BY DEF LocksInv, Globals, Ids
<1>2. backend \in [DOMAIN backend -> Nat] /\ DOMAIN backend \in SUBSET Branch
  BY <1>1 DEF IsMap
<1>3. Containers \in [DOMAIN backend -> Nat]
  <2>1. ASSUME NEW b \in DOMAIN backend
        PROVE  (IF b \in DOMAIN branches THEN st[branches[b]].pos ELSE NoSnapshot) \in Nat
    BY <1>1 DEF IsMap, NoSnapshot
  <2> QED
    BY <2>1 DEF Containers
<1> QED
  BY <1>2, <1>3 DEF View, Views

\* From here to RetiredMoves, where each step leads and which lock it moves.
LEMMA LockExecMoves ==
    ASSUME LocksInv, NEW t \in Thread, LockExec(t)
    PROVE  /\ Moved(t, "run", at[t].dob, at[t].base, at[t].sid, at[t].ids, at[t].view)
           /\ OnlyBy(t)
           /\ O' = [O EXCEPT ![at[t].ob] = t] /\ O[at[t].ob] \in {NoThread, t} /\ R' = R
           /\ C' = C
<1>1. O' = [O EXCEPT ![at[t].ob] = t] /\ O[at[t].ob] \in {NoThread, t} /\ R' = R /\ C' = C
  BY DEF LockExec, Free
<1>2. Goto(t, "run") /\ "run" \in Places
  BY DEF LockExec, Places
<1> QED
  BY <1>1, <1>2, Goes, Types DEF OnlyBy

LEMMA LockSealMoves ==
    ASSUME LocksInv, NEW t \in Thread, LockSeal(t)
    PROVE  /\ Moved(t, "core", at[t].dob, st[at[t].ob].pos, at[t].sid, at[t].ids, at[t].view)
           /\ OnlyBy(t)
           /\ O' = [O EXCEPT ![at[t].ob] = t] /\ O[at[t].ob] \in {NoThread, t} /\ R' = R
           /\ C' = C
<1>1. O' = [O EXCEPT ![at[t].ob] = t] /\ O[at[t].ob] \in {NoThread, t} /\ R' = R /\ C' = C
  BY DEF LockSeal, Free
<1>2. /\ Moved(t, "core", at[t].dob, st[at[t].ob].pos, at[t].sid, at[t].ids, at[t].view)
      /\ \A u \in Thread \ {t} : at'[u] = at[u]
  <2>1. "core" \in Places /\ st[at[t].ob].pos \in Nat
    BY Types DEF LocksInv, Globals, Places
  <2> QED
    BY <2>1 DEF LockSeal, Moved, Locals, LocksInv
<1> QED
  BY <1>1, <1>2, Types DEF OnlyBy

LEMMA CoreSnapshotMoves ==
    ASSUME LocksInv, NEW t \in Thread, CoreSnapshot(t)
    PROVE  /\ Moved(t, "refresh", at[t].dob, at[t].base, NewId, at[t].ids, at[t].view)
           /\ OnlyBy(t)
           /\ O' = O /\ R' = R /\ C' = C
<1>1. O' = O /\ R' = R /\ C' = C
  BY DEF CoreSnapshot, lockVars
<1>2. /\ Moved(t, "refresh", at[t].dob, at[t].base, NewId, at[t].ids, at[t].view)
      /\ \A u \in Thread \ {t} : at'[u] = at[u]
  <2>1. "refresh" \in Places /\ NewId \in Nat
    BY DEF LocksInv, Globals, Places, NewId
  <2> QED
    BY <2>1 DEF CoreSnapshot, Moved, Locals, LocksInv
<1> QED
  BY <1>1, <1>2, Types DEF OnlyBy

LEMMA CommitMoves ==
    ASSUME LocksInv, NEW t \in Thread, Commit(t)
    PROVE  /\ Moved(t, "record", at[t].dob, at[t].base, NewId, at[t].ids, at[t].view)
           /\ OnlyBy(t)
           /\ O' = O /\ R' = R /\ C' = C
<1>1. O' = O /\ R' = R /\ C' = C
  BY DEF Commit, lockVars
<1>2. /\ Moved(t, "record", at[t].dob, at[t].base, NewId, at[t].ids, at[t].view)
      /\ \A u \in Thread \ {t} : at'[u] = at[u]
  <2>1. "record" \in Places /\ NewId \in Nat
    BY DEF LocksInv, Globals, Places, NewId
  <2> QED
    BY <2>1 DEF Commit, Moved, Locals, LocksInv
<1> QED
  BY <1>1, <1>2, Types DEF OnlyBy

LEMMA CoreParkMoves ==
    ASSUME LocksInv, NEW t \in Thread, CorePark(t)
    PROVE  /\ Moved(t, "park_record", at[t].dob, at[t].base, NewId, at[t].ids, at[t].view)
           /\ OnlyBy(t)
           /\ O' = O /\ R' = R /\ C' = C
<1>1. O' = O /\ R' = R /\ C' = C
  BY DEF CorePark, lockVars
<1>2. /\ Moved(t, "park_record", at[t].dob, at[t].base, NewId, at[t].ids, at[t].view)
      /\ \A u \in Thread \ {t} : at'[u] = at[u]
  <2>1. "park_record" \in Places /\ NewId \in Nat
    BY DEF LocksInv, Globals, Places, NewId
  <2> QED
    BY <2>1 DEF CorePark, Moved, Locals, LocksInv
<1> QED
  BY <1>1, <1>2, Types DEF OnlyBy

LEMMA CommitParkMoves ==
    ASSUME LocksInv, NEW t \in Thread, CommitPark(t)
    PROVE  /\ Moved(t, "park_remove", at[t].dob, at[t].base, NewId, at[t].ids, at[t].view)
           /\ OnlyBy(t)
           /\ O' = O /\ R' = R /\ C' = C
<1>1. O' = O /\ R' = R /\ C' = C
  BY DEF CommitPark, lockVars
<1>2. /\ Moved(t, "park_remove", at[t].dob, at[t].base, NewId, at[t].ids, at[t].view)
      /\ \A u \in Thread \ {t} : at'[u] = at[u]
  <2>1. "park_remove" \in Places /\ NewId \in Nat
    BY DEF LocksInv, Globals, Places, NewId
  <2> QED
    BY <2>1 DEF CommitPark, Moved, Locals, LocksInv
<1> QED
  BY <1>1, <1>2, Types DEF OnlyBy

LEMMA QueryMoves ==
    ASSUME LocksInv, NEW t \in Thread, Query(t)
    PROVE  /\ Moved(t, "apply", at[t].dob, at[t].base, at[t].sid, at[t].ids, View)
           /\ OnlyBy(t)
           /\ O' = O /\ R' = t /\ R \in {NoThread, t} /\ C' = C
<1>1. O' = O /\ R' = t /\ R \in {NoThread, t} /\ C' = C
  BY DEF Query, Free
<1>2. /\ Moved(t, "apply", at[t].dob, at[t].base, at[t].sid, at[t].ids, View)
      /\ \A u \in Thread \ {t} : at'[u] = at[u]
  <2>1. "apply" \in Places /\ View \in Views
    BY ViewTypes DEF LocksInv, Globals, Places
  <2> QED
    BY <2>1 DEF Query, Moved, Locals, LocksInv
<1> QED
  BY <1>1, <1>2, Types DEF OnlyBy

LEMMA QueryFailsMoves ==
    ASSUME LocksInv, NEW t \in Thread, QueryFails(t), at[t].op # "list"
    PROVE  /\ Moved(t, "record", at[t].dob, at[t].base, at[t].sid, at[t].ids, at[t].view)
           /\ OnlyBy(t)
           /\ O' = O /\ R' = R /\ C' = C
<1>1. O' = O /\ R' = R /\ C' = C
  BY DEF QueryFails, lockVars
<1>2. Goto(t, "record") /\ "record" \in Places
  BY DEF QueryFails, Places
<1> QED
  BY <1>1, <1>2, Goes, Types DEF OnlyBy

LEMMA ApplyMoves ==
    ASSUME LocksInv, NEW t \in Thread, Apply(t)
    PROVE  /\ Moved(t, "prune", at[t].dob, at[t].base, at[t].sid,
                    live \ (DOMAIN at[t].view \cup {Main, current}), << >>)
           /\ OnlyBy(t)
           /\ O' = O /\ R' = R /\ C' = C
<1>1. O' = O /\ R' = R /\ C' = C
  BY DEF Apply, lockVars
<1>2. /\ Moved(t, "prune", at[t].dob, at[t].base, at[t].sid,
                    live \ (DOMAIN at[t].view \cup {Main, current}), << >>)
      /\ \A u \in Thread \ {t} : at'[u] = at[u]
  <2>1. "prune" \in Places /\ live \in SUBSET Branch /\ << >> \in Views
    BY NoView DEF LocksInv, Globals, Places
  <2> QED
    BY <2>1 DEF Apply, Moved, Locals, LocksInv
<1> QED
  BY <1>1, <1>2, Types DEF OnlyBy

LEMMA PruneMoves ==
    ASSUME LocksInv, NEW t \in Thread, Prune(t), at[t].op # "list"
    PROVE  /\ Moved(t, "record", at[t].dob, at[t].base, at[t].sid, {}, at[t].view)
           /\ OnlyBy(t)
           /\ O' = O /\ R = t /\ R' = NoThread /\ C' = C
<1>1. O' = O /\ R = t /\ R' = NoThread /\ C' = C
  BY DEF Prune, LocksInv, ThreadInv, LocksHeld, HoldsR, At
<1>2. /\ Moved(t, "record", at[t].dob, at[t].base, at[t].sid, {}, at[t].view)
      /\ \A u \in Thread \ {t} : at'[u] = at[u]
  <2>1. "record" \in Places
    BY DEF LocksInv, Globals, Places
  <2> QED
    BY <2>1 DEF Prune, Moved, Locals, LocksInv
<1> QED
  BY <1>1, <1>2, Types DEF OnlyBy

LEMMA LockDepartingMoves ==
    ASSUME LocksInv, NEW t \in Thread, LockDeparting(t), at[t].base \in DOMAIN graph
    PROVE  /\ Moved(t, "materialize", at[t].dob, at[t].base, at[t].sid, at[t].ids, at[t].view)
           /\ OnlyBy(t)
           /\ O' = [O EXCEPT ![at[t].ob] = t] /\ O[at[t].ob] \in {NoThread, t} /\ R' = R
           /\ C' = C
<1>1. O' = [O EXCEPT ![at[t].ob] = t] /\ O[at[t].ob] \in {NoThread, t} /\ R' = R /\ C' = C
  BY DEF LockDeparting, Free
<1>2. Goto(t, "materialize") /\ "materialize" \in Places
  BY DEF LockDeparting, Places
<1> QED
  BY <1>1, <1>2, Goes, Types DEF OnlyBy

LEMMA RegisterMoves ==
    ASSUME LocksInv, NEW t \in Thread, Register(t), at[t].op = "restore"
    PROVE  /\ Moved(t, "switch", at[t].dob, at[t].base, at[t].sid, at[t].ids, at[t].view)
           /\ OnlyBy(t)
           /\ O' = O /\ R = t /\ R' = NoThread /\ C' = C
<1>1. O' = O /\ R = t /\ R' = NoThread /\ C' = C
  BY DEF Register, LocksInv, ThreadInv, LocksHeld, HoldsR, At
<1>2. Goto(t, "switch") /\ "switch" \in Places
  BY DEF Register, Places
<1> QED
  BY <1>1, <1>2, Goes, Types DEF OnlyBy

LEMMA SwitchRetires ==
    ASSUME LocksInv, NEW t \in Thread, Switch(t), at[t].ids \subseteq DOMAIN branches,
           Departs(t)
    PROVE  /\ Moved(t, "retire", branches[at[t].br], at[t].base, at[t].sid, at[t].ids, at[t].view)
           /\ OnlyBy(t)
           /\ O' = O /\ R' = R /\ C' = C
<1>1. O' = O /\ R' = R /\ C' = C
  BY DEF Switch, lockVars
<1>2. /\ Moved(t, "retire", branches[at[t].br], at[t].base, at[t].sid, at[t].ids, at[t].view)
      /\ \A u \in Thread \ {t} : at'[u] = at[u]
  <2>1. "retire" \in Places /\ branches[at[t].br] \in State
    BY DEF LocksInv, Globals, Places, IsMap, Departs
  <2> QED
    BY <2>1 DEF Switch, Moved, Locals, LocksInv
<1> QED
  BY <1>1, <1>2, Types DEF OnlyBy

LEMMA SwitchPositions ==
    ASSUME LocksInv, NEW t \in Thread, Switch(t), at[t].ids \subseteq DOMAIN branches,
           ~Departs(t)
    PROVE  /\ Moved(t, "position", at[t].dob, at[t].base, at[t].sid, at[t].ids, at[t].view)
           /\ OnlyBy(t)
           /\ O' = O /\ R' = R /\ C' = C
<1>1. O' = O /\ R' = R /\ C' = C
  BY DEF Switch, lockVars
<1>2. Goto(t, "position") /\ "position" \in Places
  BY DEF Switch, Places
<1> QED
  BY <1>1, <1>2, Goes, Types DEF OnlyBy

LEMMA LockRetiringMoves ==
    ASSUME LocksInv, NEW t \in Thread, LockRetiring(t)
    PROVE  /\ Moved(t, "check", at[t].dob, at[t].base, at[t].sid, at[t].ids, at[t].view)
           /\ OnlyBy(t)
           /\ O' = [O EXCEPT ![at[t].dob] = t] /\ O[at[t].dob] \in {NoThread, t} /\ R' = R
           /\ C' = C
<1>1. O' = [O EXCEPT ![at[t].dob] = t] /\ O[at[t].dob] \in {NoThread, t} /\ R' = R /\ C' = C
  BY DEF LockRetiring, Free
<1>2. Goto(t, "check") /\ "check" \in Places
  BY DEF LockRetiring, Places
<1> QED
  BY <1>1, <1>2, Goes, Types DEF OnlyBy

LEMMA CheckRetiringMoves ==
    ASSUME LocksInv, NEW t \in Thread, CheckRetiring(t), at[t].br \in live /\ st[at[t].dob].active
    PROVE  /\ Moved(t, "destroy", at[t].dob, at[t].base, at[t].sid, at[t].ids, at[t].view)
           /\ OnlyBy(t)
           /\ O' = O /\ R' = t /\ R \in {NoThread, t} /\ C' = C
<1>1. O' = O /\ R' = t /\ R \in {NoThread, t} /\ C' = C
  BY DEF CheckRetiring, Free
<1>2. Goto(t, "destroy") /\ "destroy" \in Places
  BY DEF CheckRetiring, Places
<1> QED
  BY <1>1, <1>2, Goes, Types DEF OnlyBy

LEMMA DestroyMoves ==
    ASSUME LocksInv, NEW t \in Thread, Destroy(t)
    PROVE  /\ Moved(t, "forget", at[t].dob, at[t].base, at[t].sid, at[t].ids, at[t].view)
           /\ OnlyBy(t)
           /\ O' = O /\ R' = R /\ C' = C
<1>1. O' = O /\ R' = R /\ C' = C
  BY DEF Destroy, lockVars
<1>2. Goto(t, "forget") /\ "forget" \in Places
  BY DEF Destroy, Places
<1> QED
  BY <1>1, <1>2, Goes, Types DEF OnlyBy

LEMMA LockParkMoves ==
    ASSUME LocksInv, NEW t \in Thread, LockPark(t)
    PROVE  /\ Moved(t, "park_check", at[t].dob, at[t].base, at[t].sid, at[t].ids, at[t].view)
           /\ OnlyBy(t)
           /\ O' = [O EXCEPT ![at[t].ob] = t] /\ O[at[t].ob] \in {NoThread, t} /\ R' = R
           /\ C' = C
<1>1. O' = [O EXCEPT ![at[t].ob] = t] /\ O[at[t].ob] \in {NoThread, t} /\ R' = R /\ C' = C
  BY DEF LockPark, Free
<1>2. Goto(t, "park_check") /\ "park_check" \in Places
  BY DEF LockPark, Places
<1> QED
  BY <1>1, <1>2, Goes, Types DEF OnlyBy

LEMMA CheckParkMoves ==
    ASSUME LocksInv, NEW t \in Thread, CheckPark(t), at[t].br \in live /\ st[at[t].ob].active
    PROVE  /\ Moved(t, "park_core", at[t].dob, st[at[t].ob].pos, at[t].sid, at[t].ids, at[t].view)
           /\ OnlyBy(t)
           /\ O' = O /\ R' = t /\ R \in {NoThread, t} /\ C' = C
<1>1. O' = O /\ R' = t /\ R \in {NoThread, t} /\ C' = C
  BY DEF CheckPark, Free
<1>2. /\ Moved(t, "park_core", at[t].dob, st[at[t].ob].pos, at[t].sid, at[t].ids, at[t].view)
      /\ \A u \in Thread \ {t} : at'[u] = at[u]
  <2>1. "park_core" \in Places /\ st[at[t].ob].pos \in Nat
    BY Types DEF LocksInv, Globals, Places
  <2> QED
    BY <2>1 DEF CheckPark, Moved, Locals, LocksInv
<1> QED
  BY <1>1, <1>2, Types DEF OnlyBy

LEMMA RemoveParkedMoves ==
    ASSUME LocksInv, NEW t \in Thread, RemoveParked(t)
    PROVE  /\ Moved(t, "park_record", at[t].dob, at[t].base, at[t].sid, at[t].ids, at[t].view)
           /\ OnlyBy(t)
           /\ O' = O /\ R' = R /\ C' = C
<1>1. O' = O /\ R' = R /\ C' = C
  BY DEF RemoveParked, lockVars
<1>2. Goto(t, "park_record") /\ "park_record" \in Places
  BY DEF RemoveParked, Places
<1> QED
  BY <1>1, <1>2, Goes, Types DEF OnlyBy

\* The backend answers a request to fork with new branches.
LEMMA MaterializeMoves ==
    ASSUME LocksInv, NEW t \in Thread, Materialize(t)
    PROVE  \E new, lost \in SUBSET Branch :
              /\ Moved(t, "register", at[t].dob, at[t].base, at[t].sid, new, at[t].view)
              /\ OnlyBy(t)
              /\ O' = O /\ R' = t /\ R \in {NoThread, t} /\ C' = C
              /\ new # {} /\ Registrable(new)
              /\ Forked(t, new, lost)
<1>1. PICK new \in (SUBSET Branch) \ {{}}, lost \in SUBSET Branch :
          /\ Forked(t, new, lost)
          /\ Registrable(new)
          /\ at' = [at EXCEPT ![t].pc = "register", ![t].ids = new]
  BY DEF Materialize
<1>2. "register" \in Places /\ new \in SUBSET Branch /\ new # {}
  <2>1. "register" \in Places
    BY DEF Places
  <2> QED
    BY <2>1
<1>3. /\ Moved(t, "register", at[t].dob, at[t].base, at[t].sid, new, at[t].view)
      /\ \A u \in Thread \ {t} : at'[u] = at[u]
  BY <1>1, <1>2 DEF Moved, Locals, LocksInv
<1>4. O' = O /\ R' = t /\ R \in {NoThread, t} /\ C' = C
  BY DEF Materialize, Free
<1>5. OnlyBy(t)
  BY <1>3, <1>4, Types DEF OnlyBy
<1> QED
  BY <1>1, <1>2, <1>3, <1>4, <1>5

\* What making the forks `new` and `lost` does to the backend.
ForksNew(t, new, lost) ==
    /\ (new \cup lost) \cap DOMAIN backend = {} /\ new \cap lost = {}
    /\ at[t].op = "restore" => \A b, c \in new \cup lost : b = c
    /\ at[t].op = "fork" => new \cup lost \subseteq at[t].ids
    /\ lost # {} => kind = "waypoint" /\ "output_lost" \in Faults
    /\ DOMAIN backend' = DOMAIN backend \cup new \cup lost
    /\ \A b \in DOMAIN backend : backend'[b] = backend[b]
    /\ \A b \in new \cup lost : backend'[b] = at[t].base
    /\ IsMap(backend', Ids)
    /\ unlisted' = unlisted \cup lost

\* The forks of one request are new to the session, as many as were asked for at
\* most, and stand on the snapshot that was named.
LEMMA ForkedForks ==
    ASSUME LocksInv, NEW t \in Thread, at[t].base \in Ids,
           NEW new \in SUBSET Branch, NEW lost \in SUBSET Branch, Forked(t, new, lost)
    PROVE  ForksNew(t, new, lost)
<1>1. PICK want \in Requests(t) : new \cup lost \subseteq want
  BY DEF Forked
<1>2. want \cap DOMAIN backend = {}
      /\ (at[t].op = "restore" => \E b \in Branch : want = {b})
      /\ (at[t].op = "fork" => want \subseteq at[t].ids)
  <2>1. CASE at[t].op = "fork"
    BY <2>1, Types DEF Requests
  <2>2. CASE at[t].op = "fork_auto"
    BY <2>2 DEF Requests
  <2>3. CASE at[t].op \notin {"fork", "fork_auto"}
    BY <2>3 DEF Requests
  <2> QED
    BY <2>1, <2>2, <2>3
<1>3. backend' = [b \in DOMAIN backend \cup new \cup lost |->
                     IF b \in new \cup lost THEN at[t].base ELSE backend[b]]
  BY DEF Forked
<1>4. IsMap(backend', Ids)
  BY <1>3 DEF LocksInv, Globals, IsMap
<1>5. /\ DOMAIN backend' = DOMAIN backend \cup new \cup lost
      /\ \A b \in DOMAIN backend : backend'[b] = backend[b]
      /\ \A b \in new \cup lost : backend'[b] = at[t].base
  BY <1>1, <1>2, <1>3
<1> QED
  BY <1>1, <1>2, <1>4, <1>5 DEF Forked, ForksNew

\* restore goes on with its locks, but for those of the departed branch.
LEMMA RetiredMoves ==
    ASSUME LocksInv, NEW t \in Thread, Retired(t), at[t].op = "restore"
    PROVE  /\ Moved(t, "position", FirstState, at[t].base, at[t].sid, at[t].ids, at[t].view)
           /\ OnlyBy(t)
           /\ C' = C /\ R' = Released(R, t) /\ O' \in [State -> Thread \cup {NoThread}]
           /\ O'[at[t].ob] = O[at[t].ob]
<1>1. /\ C' = C /\ R' = Released(R, t)
      /\ O' = [o \in State |->
                    IF o = at[t].dob /\ o # at[t].ob THEN Released(O[o], t)
                    ELSE O[o]]
  BY DEF Retired
<1>2. /\ Moved(t, "position", FirstState, at[t].base, at[t].sid, at[t].ids, at[t].view)
      /\ \A u \in Thread \ {t} : at'[u] = at[u]
  <2>1. "position" \in Places /\ FirstState \in State
    BY IdleTypes DEF Places
  <2> QED
    BY <2>1 DEF Retired, Moved, Locals, LocksInv
<1>3. O' \in [State -> Thread \cup {NoThread}] /\ O'[at[t].ob] = O[at[t].ob]
  BY <1>1, Types DEF Released
<1>4. OnlyBy(t)
  BY <1>1, <1>2, Types DEF OnlyBy, Released
<1> QED
  BY <1>1, <1>2, <1>3, <1>4

-----------------------------------------------------------------------------
(* The locks, step by step.                                                *)

\* The object of a branch: the registered one, or one that nobody uses.
LEMMA StateOfBranch ==
    ASSUME LocksInv, NEW b \in Branch, b \in DOMAIN branches \/ Unused(b) # {}
    PROVE  /\ StateOf(b) \in State /\ StateOf(b).branch = b
           /\ b \in DOMAIN branches => StateOf(b) = branches[b]
           /\ b \notin DOMAIN branches => StateOf(b) \notin InUse
<1>1. CASE b \in DOMAIN branches
  BY <1>1 DEF StateOf, LocksInv, Globals, IsMap, BranchesNamed
<1>2. CASE b \notin DOMAIN branches
  <2>1. StateOf(b) \in Unused(b)
    BY <1>2 DEF StateOf
  <2> QED
    BY <1>2, <2>1 DEF Unused
<1> QED
  BY <1>1, <1>2

\* Registration keeps what is registered and adds objects of their own branches.
LEMMA RegistrationTypes ==
    ASSUME LocksInv, NEW bs \in SUBSET Branch, Registrable(bs),
           branches' = [b \in DOMAIN branches \cup bs |-> StateOf(b)]
    PROVE  IsMap(branches', State) /\ BranchesNamed'
<1>1. \A b \in DOMAIN branches \cup bs : StateOf(b) \in State /\ StateOf(b).branch = b
  BY StateOfBranch DEF Registrable, LocksInv, Globals, IsMap
<1>2. DOMAIN branches \subseteq Branch
  BY DEF LocksInv, Globals, IsMap
<1> QED
  BY <1>1, <1>2 DEF IsMap, BranchesNamed

\* A recorded node adds itself to the graph and changes no other parent.
LEMMA RecordNodeTypes ==
    ASSUME Globals, NEW s \in snapshots, NEW p \in Nat
    PROVE  /\ DOMAIN RecordNode(graph, s, p) = DOMAIN graph \cup {s}
           /\ RecordNode(graph, s, p) \in
                [DOMAIN graph \cup {s} -> [parent : Nat, children : SUBSET Ids]]
           /\ \A x \in DOMAIN graph \cup {s} :
                RecordNode(graph, s, p)[x].parent = IF x = s THEN p ELSE graph[x].parent
<1>1. s \in Ids
  BY DEF Globals
<1>2. ASSUME NEW x \in DOMAIN graph \cup {s}
      PROVE  LET n == IF x = s THEN [parent |-> p, children |-> {}]
                      ELSE IF x = p THEN [graph[x] EXCEPT !.children = @ \cup {s}]
                      ELSE graph[x]
             IN  /\ n \in [parent : Nat, children : SUBSET Ids]
                 /\ n.parent = IF x = s THEN p ELSE graph[x].parent
  <2>1. x # s => graph[x] \in [parent : Nat, children : SUBSET Ids]
    BY DEF Globals
  <2>2. x # s => /\ [graph[x] EXCEPT !.children = @ \cup {s}] \in [parent : Nat, children : SUBSET Ids]
                 /\ [graph[x] EXCEPT !.children = @ \cup {s}].parent = graph[x].parent
    BY <1>1, <2>1
  <2> QED
    BY <2>1, <2>2
<1> QED
  BY <1>2 DEF RecordNode

\* A call that ends and has changed nothing since the last step.
LEMMA QuietReturn ==
    ASSUME LocksInv, NEW t \in Thread, Return(t), DataKept, calls' = calls
    PROVE  LocksInv'
<1>1. calls' \in 0 .. MaxCalls
  BY DEF LocksInv, Globals
<1> QED
  BY <1>1, Returns, ReturnKeeps, Unmoved DEF Returned

\* A call that only takes a lock or looks.
LEMMA QuietMove ==
    ASSUME LocksInv, NEW t \in Thread, OnlyBy(t), at' \in [Thread -> Locals],
           DataKept, calls' = calls,
           C' \in {C, t}, R' \in {R, t, NoThread}, O' \in [State -> Thread \cup {NoThread}],
           ThreadInv(t)'
    PROVE  LocksInv'
<1>1. calls' \in 0 .. MaxCalls
  BY DEF LocksInv, Globals
<1>2. {C', R'} \subseteq Thread \cup {NoThread}
  BY Types
<1> QED
  BY <1>1, <1>2, Unmoved

\* A step that takes a lock, or none, and changes no data.
LEMMA Quiet ==
    ASSUME DataKept
    PROVE  Ids' = Ids /\ snapshots' = snapshots /\ branches' = branches
  BY DEF DataKept, backendVars, treeVars, registryVars, Ids

\* The backend makes a checkpoint.
LEMMA Grown ==
    ASSUME LocksInv, NEW s \in Nat, origin' = Append(origin, s)
    PROVE  /\ origin' \in Seq(Nat) /\ Len(origin) <= Len(origin')
           /\ Ids' = Ids \cup {NewId} /\ NewId \notin Ids /\ NewId \in Nat
           /\ \A i \in Ids : origin'[i] = origin[i]
           /\ origin'[NewId] = s
<1>1. origin \in Seq(Nat)
  BY DEF LocksInv, Globals
<1>2. origin' \in Seq(Nat) /\ Len(origin') = Len(origin) + 1 /\ Len(origin) \in Nat
  BY <1>1
<1>3. \A i \in 1 .. Len(origin) : origin'[i] = origin[i]
  BY <1>1
<1>4. origin'[Len(origin) + 1] = s
  BY <1>1
<1> QED
  BY <1>2, <1>3, <1>4 DEF Ids, NewId

\* exec_command and the first steps of snapshot.
LEMMA ExecLocks ==
    ASSUME LocksInv, NEW t \in Thread,
           Refused(t) \/ LockExec(t) \/ Run(t) \/ LockSeal(t) \/ SnapshotFails(t)
    PROVE  LocksInv'
<1> USE DEF DataKept
<1>1. CASE Refused(t) \/ Run(t) \/ SnapshotFails(t)
  BY <1>1, QuietReturn DEF Refused, Run, SnapshotFails
<1>2. CASE LockExec(t)
  <2>0. at[t].pc = "exec" /\ ThreadInv(t) /\ DataKept /\ calls' = calls
    BY <1>2 DEF LockExec, At, LocksInv
  <2>1. ThreadInv(t)'
    BY <1>2, <2>0, LockExecMoves, Quiet, Types
       DEF ThreadInv, PlaceOfCall, LocksHeld, HoldsR, HoldsC, HoldsOb,
           HoldsDob, Sealing, ObjectsNamed, CheckpointsKnown, Made, Moved
  <2>2. at' \in [Thread -> Locals] /\ O' \in [State -> Thread \cup {NoThread}]
    BY <1>2, LockExecMoves, Types DEF Moved
  <2> QED
    BY <1>2, <2>0, <2>1, <2>2, LockExecMoves, QuietMove
<1>3. CASE LockSeal(t)
  <2>0. at[t].pc = "seal" /\ ThreadInv(t) /\ DataKept /\ calls' = calls
    BY <1>3 DEF LockSeal, At, LocksInv
  <2>1. ThreadInv(t)'
    BY <1>3, <2>0, LockSealMoves, Quiet, Types
       DEF ThreadInv, PlaceOfCall, LocksHeld, HoldsR, HoldsC, HoldsOb,
           HoldsDob, Sealing, ObjectsNamed, CheckpointsKnown, Made, Moved
  <2>2. at' \in [Thread -> Locals] /\ O' \in [State -> Thread \cup {NoThread}]
    BY <1>3, LockSealMoves, Types DEF Moved
  <2> QED
    BY <1>3, <2>0, <2>1, <2>2, LockSealMoves, QuietMove
<1> QED
  BY <1>1, <1>2, <1>3

\* The hooks that make a checkpoint.
LEMMA CheckpointLocks ==
    ASSUME LocksInv, NEW t \in Thread,
           CoreSnapshot(t) \/ Commit(t) \/ CorePark(t) \/ CommitPark(t)
    PROVE  LocksInv'
<1>1. CASE CoreSnapshot(t)
  <2>0. at[t].pc = "core" /\ at[t].br \in DOMAIN backend /\ ThreadInv(t)
    BY <1>1 DEF CoreSnapshot, At, LocksInv
  <2>1. /\ origin' = Append(origin, backend[at[t].br])
        /\ backend' = [backend EXCEPT ![at[t].br] = NewId]
        /\ snapshots' = snapshots \cup {NewId}
        /\ UNCHANGED <<kind, graph, live, branches, st, current, C, R, O, calls>>
    BY <1>1 DEF CoreSnapshot, registryVars, treeVars, lockVars
  <2>2. backend[at[t].br] \in Ids /\ backend[at[t].br] \in Nat
    BY <2>0 DEF LocksInv, Globals, IsMap, Ids
  <2>3. /\ origin' \in Seq(Nat) /\ Len(origin) <= Len(origin')
        /\ Ids' = Ids \cup {NewId} /\ NewId \in Nat
    BY <2>1, <2>2, Grown
  <2>4. IsMap(backend', Ids')
    BY <2>1, <2>3 DEF LocksInv, Globals, IsMap, Without
  <2>5. Globals'
    BY <2>1, <2>3, <2>4 DEF LocksInv, Globals, IsMap
  <2>6. BranchesNamed'
    BY <2>1 DEF LocksInv, BranchesNamed
  <2>7. ThreadInv(t)' /\ at' \in [Thread -> Locals]
    BY <1>1, <2>0, <2>1, <2>3, CoreSnapshotMoves, Types
       DEF ThreadInv, PlaceOfCall, LocksHeld, HoldsR, HoldsC, HoldsOb,
           HoldsDob, Sealing, ObjectsNamed, CheckpointsKnown, Made, Moved
  <2> QED
    BY <1>1, <2>1, <2>3, <2>5, <2>6, <2>7, CoreSnapshotMoves, Together
<1>2. CASE Commit(t)
  <2>0. at[t].pc = "core" /\ at[t].br \in DOMAIN backend /\ ThreadInv(t)
    BY <1>2 DEF Commit, At, LocksInv
  <2>1. /\ origin' = Append(origin, backend[at[t].br])
        /\ backend' = [backend EXCEPT ![at[t].br] = NewId]
        /\ snapshots' = snapshots \cup {NewId}
        /\ UNCHANGED <<kind, graph, live, branches, st, current, C, R, O, calls>>
    BY <1>2 DEF Commit, registryVars, treeVars, lockVars
  <2>2. backend[at[t].br] \in Ids /\ backend[at[t].br] \in Nat
    BY <2>0 DEF LocksInv, Globals, IsMap, Ids
  <2>3. /\ origin' \in Seq(Nat) /\ Len(origin) <= Len(origin')
        /\ Ids' = Ids \cup {NewId} /\ NewId \in Nat
    BY <2>1, <2>2, Grown
  <2>4. IsMap(backend', Ids')
    BY <2>1, <2>3 DEF LocksInv, Globals, IsMap, Without
  <2>5. Globals'
    BY <2>1, <2>3, <2>4 DEF LocksInv, Globals, IsMap
  <2>6. BranchesNamed'
    BY <2>1 DEF LocksInv, BranchesNamed
  <2>7. ThreadInv(t)' /\ at' \in [Thread -> Locals]
    BY <1>2, <2>0, <2>1, <2>3, CommitMoves, Types
       DEF ThreadInv, PlaceOfCall, LocksHeld, HoldsR, HoldsC, HoldsOb,
           HoldsDob, Sealing, ObjectsNamed, CheckpointsKnown, Made, Moved
  <2> QED
    BY <1>2, <2>1, <2>3, <2>5, <2>6, <2>7, CommitMoves, Together
<1>3. CASE CorePark(t)
  <2>0. at[t].pc = "park_core" /\ at[t].br \in DOMAIN backend /\ ThreadInv(t)
    BY <1>3 DEF CorePark, At, LocksInv
  <2>1. /\ origin' = Append(origin, backend[at[t].br])
        /\ backend' = Without(backend, {at[t].br})
        /\ snapshots' = snapshots \cup {NewId}
        /\ UNCHANGED <<kind, graph, live, branches, st, current, C, R, O, calls>>
    BY <1>3 DEF CorePark, registryVars, treeVars, lockVars
  <2>2. backend[at[t].br] \in Ids /\ backend[at[t].br] \in Nat
    BY <2>0 DEF LocksInv, Globals, IsMap, Ids
  <2>3. /\ origin' \in Seq(Nat) /\ Len(origin) <= Len(origin')
        /\ Ids' = Ids \cup {NewId} /\ NewId \in Nat
    BY <2>1, <2>2, Grown
  <2>4. IsMap(backend', Ids')
    BY <2>1, <2>3 DEF LocksInv, Globals, IsMap, Without
  <2>5. Globals'
    BY <2>1, <2>3, <2>4 DEF LocksInv, Globals, IsMap
  <2>6. BranchesNamed'
    BY <2>1 DEF LocksInv, BranchesNamed
  <2>7. ThreadInv(t)' /\ at' \in [Thread -> Locals]
    BY <1>3, <2>0, <2>1, <2>3, CoreParkMoves, Types
       DEF ThreadInv, PlaceOfCall, LocksHeld, HoldsR, HoldsC, HoldsOb,
           HoldsDob, Sealing, ObjectsNamed, CheckpointsKnown, Made, Moved
  <2> QED
    BY <1>3, <2>1, <2>3, <2>5, <2>6, <2>7, CoreParkMoves, Together
<1>4. CASE CommitPark(t)
  <2>0. at[t].pc = "park_core" /\ at[t].br \in DOMAIN backend /\ ThreadInv(t)
    BY <1>4 DEF CommitPark, At, LocksInv
  <2>1. /\ origin' = Append(origin, backend[at[t].br])
        /\ backend' = backend
        /\ snapshots' = snapshots
        /\ UNCHANGED <<kind, graph, live, branches, st, current, C, R, O, calls>>
    BY <1>4 DEF CommitPark, registryVars, treeVars, lockVars
  <2>2. backend[at[t].br] \in Ids /\ backend[at[t].br] \in Nat
    BY <2>0 DEF LocksInv, Globals, IsMap, Ids
  <2>3. /\ origin' \in Seq(Nat) /\ Len(origin) <= Len(origin')
        /\ Ids' = Ids \cup {NewId} /\ NewId \in Nat
    BY <2>1, <2>2, Grown
  <2>4. IsMap(backend', Ids')
    BY <2>1, <2>3 DEF LocksInv, Globals, IsMap, Without
  <2>5. Globals'
    BY <2>1, <2>3, <2>4 DEF LocksInv, Globals, IsMap
  <2>6. BranchesNamed'
    BY <2>1 DEF LocksInv, BranchesNamed
  <2>7. ThreadInv(t)' /\ at' \in [Thread -> Locals]
    BY <1>4, <2>0, <2>1, <2>3, CommitParkMoves, Types
       DEF ThreadInv, PlaceOfCall, LocksHeld, HoldsR, HoldsC, HoldsOb,
           HoldsDob, Sealing, ObjectsNamed, CheckpointsKnown, Made, Moved
  <2> QED
    BY <1>4, <2>1, <2>3, <2>5, <2>6, <2>7, CommitParkMoves, Together
<1> QED
  BY <1>1, <1>2, <1>3, <1>4

\* A listing, and the application of its answer.
LEMMA ListLocks ==
    ASSUME LocksInv, NEW t \in Thread,
           Query(t) \/ QueryFails(t) \/ Apply(t) \/ Prune(t)
    PROVE  LocksInv'
<1>1. CASE Query(t)
  <2>0. at[t].pc = "refresh" /\ ThreadInv(t) /\ DataKept /\ calls' = calls
    BY <1>1 DEF Query, At, DataKept, LocksInv
  <2>1. ThreadInv(t)'
    BY <1>1, <2>0, QueryMoves, Quiet, Types
       DEF ThreadInv, PlaceOfCall, LocksHeld, HoldsR, HoldsC, HoldsOb,
           HoldsDob, Sealing, ObjectsNamed, CheckpointsKnown, Made, Moved
  <2>2. at' \in [Thread -> Locals] /\ O' \in [State -> Thread \cup {NoThread}]
    BY <1>1, QueryMoves, Types DEF Moved
  <2> QED
    BY <1>1, <2>0, <2>1, <2>2, QueryMoves, QuietMove
<1>2. CASE QueryFails(t)
  <2>0. at[t].pc = "refresh" /\ ThreadInv(t) /\ DataKept /\ calls' = calls
    BY <1>2 DEF QueryFails, At, LocksInv, DataKept
  <2>1. CASE at[t].op = "list"
    BY <1>2, <2>0, <2>1, QuietReturn DEF QueryFails
  <2>2. CASE at[t].op # "list"
    <3>1. ThreadInv(t)'
      BY <1>2, <2>0, <2>2, QueryFailsMoves, Quiet, Types
         DEF ThreadInv, PlaceOfCall, LocksHeld, HoldsR, HoldsC, HoldsOb,
             HoldsDob, Sealing, ObjectsNamed, CheckpointsKnown, Made, Moved
    <3> QED
      BY <1>2, <2>0, <2>2, <3>1, QueryFailsMoves, QuietMove, Types DEF Moved
  <2> QED
    BY <2>1, <2>2
<1>3. CASE Apply(t)
  <2>0. /\ at[t].pc = "apply" /\ ThreadInv(t)
        /\ UNCHANGED <<kind, backend, origin, snapshots, graph, current, C, R, O, calls>>
    BY <1>3 DEF Apply, At, LocksInv, backendVars, treeVars, lockVars
  <2>1. /\ DOMAIN at[t].view \in SUBSET Branch
        /\ \A b \in DOMAIN at[t].view : at[t].view[b] \in Nat
    BY Types DEF Views
  <2>2. IsMap(branches', State) /\ BranchesNamed'
    BY <1>3, <2>1, RegistrationTypes DEF Apply
  <2>3. live' \subseteq Branch
    BY <1>3, <2>1 DEF Apply
  <2>4. st' \in [State -> [pos : Nat, active : BOOLEAN]]
    BY <1>3, <2>1 DEF Apply, LocksInv, Globals
  <2>5. Globals'
    BY <2>0, <2>2, <2>3, <2>4 DEF LocksInv, Globals, IsMap, Ids
  <2>6. ThreadInv(t)' /\ at' \in [Thread -> Locals]
    BY <1>3, <2>0, ApplyMoves, Types
       DEF Ids, ThreadInv, PlaceOfCall, LocksHeld, HoldsR, HoldsC, HoldsOb,
           HoldsDob, Sealing, ObjectsNamed, CheckpointsKnown, Made, Moved
  <2>7. Len(origin) <= Len(origin') /\ snapshots \subseteq snapshots'
    BY <2>0 DEF LocksInv, Globals
  <2> QED
    BY <1>3, <2>2, <2>5, <2>6, <2>7, ApplyMoves, Together
<1>4. CASE Prune(t)
  <2>0. /\ at[t].pc = "prune" /\ ThreadInv(t)
        /\ UNCHANGED <<kind, backend, origin, snapshots, graph, live, current, calls>>
    BY <1>4 DEF Prune, At, LocksInv, backendVars, treeVars
  <2>2. IsMap(branches', State) /\ BranchesNamed'
    BY <1>4 DEF Prune, LocksInv, Globals, IsMap, BranchesNamed, Without
  <2>4. st' \in [State -> [pos : Nat, active : BOOLEAN]]
    <3>1. \A o \in State : [st[o] EXCEPT !.active = FALSE] \in [pos : Nat, active : BOOLEAN]
      BY DEF LocksInv, Globals
    <3> QED
      BY <1>4, <3>1 DEF Prune, LocksInv, Globals
  <2>5. ASSUME {C', R'} \subseteq Thread \cup {NoThread}, O' \in [State -> Thread \cup {NoThread}]
        PROVE  Globals'
    BY <2>0, <2>2, <2>4, <2>5 DEF LocksInv, Globals, IsMap, Ids
  <2>7. Len(origin) <= Len(origin') /\ snapshots \subseteq snapshots'
    BY <2>0 DEF LocksInv, Globals
  <2>8. CASE at[t].op = "list"
    <3>1. Return(t)
      BY <1>4, <2>8 DEF Prune
    <3> QED
      BY <2>2, <2>5, <2>7, <3>1, Returns, ReturnKeeps, Together DEF Returned
  <2>9. CASE at[t].op # "list"
    <3>1. ThreadInv(t)' /\ at' \in [Thread -> Locals]
      BY <1>4, <2>0, <2>9, PruneMoves, Types
         DEF ThreadInv, PlaceOfCall, LocksHeld, HoldsR, HoldsC, HoldsOb,
             HoldsDob, Sealing, ObjectsNamed, CheckpointsKnown, Made, Moved
    <3>2. /\ {C', R'} \subseteq Thread \cup {NoThread}
          /\ O' \in [State -> Thread \cup {NoThread}]
      BY <1>4, <2>9, PruneMoves, Types
    <3> QED
      BY <1>4, <2>2, <2>5, <2>7, <2>9, <3>1, <3>2, PruneMoves, Together
  <2> QED
    BY <2>8, <2>9
<1> QED
  BY <1>1, <1>2, <1>3, <1>4

\* The last step of snapshot and of park_branch.
LEMMA RecordLocks ==
    ASSUME LocksInv, NEW t \in Thread, Record(t) \/ RecordPark(t)
    PROVE  LocksInv'
<1>1. at[t].sid \in snapshots /\ Return(t)
      /\ graph' = RecordNode(graph, at[t].sid, at[t].base)
      /\ UNCHANGED <<kind, backend, origin, snapshots, calls>>
  BY
     DEF Record, RecordPark, At, LocksInv, ThreadInv, CheckpointsKnown, Sealing,
         PlaceOfCall, backendVars
<1>2. st' \in [State -> [pos : Nat, active : BOOLEAN]]
  <2>1. CASE Record(t)
    <3>1. [st[at[t].ob] EXCEPT !.pos = at[t].sid] \in [pos : Nat, active : BOOLEAN]
      BY Types DEF LocksInv, Globals
    <3> QED
      BY <2>1, <3>1, Types DEF Record, LocksInv, Globals
  <2>2. CASE RecordPark(t)
    <3>1. \A o \in State : [st[o] EXCEPT !.active = FALSE] \in [pos : Nat, active : BOOLEAN]
      BY DEF LocksInv, Globals
    <3> QED
      BY <2>2, <3>1 DEF RecordPark, RemoveBranch, LocksInv, Globals
  <2> QED
    BY <2>1, <2>2
<1>3. /\ IsMap(branches', State) /\ BranchesNamed' /\ live' \subseteq Branch
      /\ current' \in Branch
  <2>1. CASE Record(t)
    BY <2>1 DEF Record, LocksInv, Globals, BranchesNamed
  <2>2. CASE RecordPark(t)
    BY <2>2, ForkableAssumption
       DEF RecordPark, RemoveBranch, Without, LocksInv, Globals, BranchesNamed, IsMap
  <2> QED
    BY <2>1, <2>2
<1>4. Globals'
  <2>1. /\ DOMAIN graph' \subseteq snapshots'
        /\ graph' \in [DOMAIN graph' -> [parent : Nat, children : SUBSET Ids']]
    <3>1. /\ DOMAIN graph' = DOMAIN graph \cup {at[t].sid}
          /\ graph' \in [DOMAIN graph \cup {at[t].sid} -> [parent : Nat, children : SUBSET Ids]]
      BY <1>1, RecordNodeTypes, Types DEF LocksInv
    <3>2. DOMAIN graph \cup {at[t].sid} \subseteq snapshots' /\ Ids' = Ids
      BY <1>1 DEF LocksInv, Globals, Ids
    <3> QED
      BY <3>1, <3>2
  <2> QED
    BY <1>1, <1>2, <1>3, <2>1, ReturnKeeps DEF LocksInv, Globals, IsMap, Ids
<1>5. Len(origin) <= Len(origin') /\ snapshots \subseteq snapshots'
  BY <1>1 DEF LocksInv, Globals
<1> QED
  BY <1>1, <1>3, <1>4, <1>5, Returns, ReturnKeeps, Together DEF Returned

\* fork and restore, from the departing branch to the position.
LEMMA RestoreLocks ==
    ASSUME LocksInv, NEW t \in Thread,
           \/ LockDeparting(t) \/ Materialize(t) \/ MaterializeFails(t)
           \/ Register(t) \/ Switch(t) \/ Position(t)
    PROVE  LocksInv'
<1>1. CASE LockDeparting(t)
  <2>0. at[t].pc = "departing" /\ ThreadInv(t) /\ DataKept /\ calls' = calls
    BY <1>1 DEF LockDeparting, At, LocksInv, DataKept
  <2>1. CASE at[t].base \notin DOMAIN graph
    BY <1>1, <2>0, <2>1, QuietReturn DEF LockDeparting
  <2>2. CASE at[t].base \in DOMAIN graph
    <3>1. ThreadInv(t)'
      BY <1>1, <2>0, <2>2, LockDepartingMoves, Quiet, Types
         DEF ThreadInv, PlaceOfCall, LocksHeld, HoldsR, HoldsC, HoldsOb,
             HoldsDob, Sealing, ObjectsNamed, CheckpointsKnown, Made, Moved
    <3> QED
      BY <1>1, <2>0, <2>2, <3>1, LockDepartingMoves, QuietMove, Types DEF Moved
  <2> QED
    BY <2>1, <2>2
<1>2. CASE Materialize(t)
  <2>0. at[t].pc = "materialize" /\ ThreadInv(t) /\ calls' = calls
        /\ UNCHANGED <<kind, origin, snapshots, graph, live, branches, st, current>>
    BY <1>2 DEF Materialize, At, LocksInv, treeVars, registryVars
  <2>1. PICK new \in SUBSET Branch, lost \in SUBSET Branch :
              /\ Moved(t, "register", at[t].dob, at[t].base, at[t].sid, new, at[t].view)
              /\ OnlyBy(t)
              /\ O' = O /\ R' = t /\ R \in {NoThread, t} /\ C' = C
              /\ new # {} /\ Forked(t, new, lost)
    BY <1>2, MaterializeMoves
  <2>2. at[t].base \in Ids /\ Ids' = Ids
    BY <2>0 DEF ThreadInv, PlaceOfCall, CheckpointsKnown, Ids
  <2>3. IsMap(backend', Ids') /\ (at[t].op = "restore" => \E b \in Branch : new = {b})
    <3>0. ForksNew(t, new, lost)
      BY <2>1, <2>2, ForkedForks
    <3>1. IsMap(backend', Ids')
      BY <2>2, <3>0 DEF ForksNew
    <3>2. ASSUME at[t].op = "restore" PROVE \E b \in Branch : new = {b}
      <4>1. \A b, c \in new \cup lost : b = c
        BY <3>0, <3>2 DEF ForksNew
      <4>2. PICK b \in new : new = {b}
        BY <2>1, <4>1
      <4> QED
        BY <4>2
    <3> QED
      BY <3>1, <3>2
  <2>4. Globals'
    BY <2>0, <2>1, <2>2, <2>3, Types DEF LocksInv, Globals, IsMap
  <2>5. BranchesNamed'
    BY <2>0 DEF LocksInv, BranchesNamed
  <2>6. ThreadInv(t)' /\ at' \in [Thread -> Locals]
    BY <2>0, <2>1, <2>2, <2>3, Types
       DEF ThreadInv, PlaceOfCall, LocksHeld, HoldsR, HoldsC, HoldsOb,
           HoldsDob, Sealing, ObjectsNamed, CheckpointsKnown, Made, Moved
  <2>7. Len(origin) <= Len(origin') /\ snapshots \subseteq snapshots'
    BY <2>0 DEF LocksInv, Globals
  <2> QED
    BY <2>1, <2>4, <2>5, <2>6, <2>7, Together
<1>3. CASE MaterializeFails(t)
  <2>0. /\ at[t].pc = "materialize" /\ ThreadInv(t) /\ Return(t)
        /\ UNCHANGED <<kind, origin, snapshots, graph, live, branches, st, current, calls>>
    BY <1>3 DEF MaterializeFails, At, LocksInv, treeVars, registryVars
  <2>1. at[t].base \in Ids /\ Ids' = Ids
    BY <2>0 DEF ThreadInv, PlaceOfCall, CheckpointsKnown, Ids
  <2>2. IsMap(backend', Ids')
    <3>1. CASE UNCHANGED backend
      BY <2>1, <3>1 DEF LocksInv, Globals
    <3>2. CASE \E lost \in SUBSET Branch : Forked(t, {}, lost)
      <4>1. PICK lost \in SUBSET Branch : Forked(t, {}, lost)
        BY <3>2
      <4>2. ForksNew(t, {}, lost)
        BY <2>1, <4>1, ForkedForks
      <4> QED
        BY <2>1, <4>2 DEF ForksNew
    <3> QED
      BY <1>3, <3>1, <3>2 DEF MaterializeFails
  <2>3. Globals'
    BY <2>0, <2>1, <2>2, ReturnKeeps DEF LocksInv, Globals, IsMap
  <2>4. BranchesNamed'
    BY <2>0 DEF LocksInv, BranchesNamed
  <2>5. Len(origin) <= Len(origin') /\ snapshots \subseteq snapshots'
    BY <2>0 DEF LocksInv, Globals
  <2> QED
    BY <2>0, <2>3, <2>4, <2>5, Returns, ReturnKeeps, Together DEF Returned
<1>4. CASE Register(t)
  <2>0. at[t].pc = "register" /\ ThreadInv(t)
        /\ UNCHANGED <<kind, backend, origin, snapshots, graph, current, calls>>
    BY <1>4 DEF Register, At, LocksInv, backendVars, treeVars
  <2>1. IsMap(branches', State) /\ BranchesNamed'
    BY <1>4, Types, RegistrationTypes DEF Register
  <2>2. live' \subseteq Branch
    BY <1>4, Types DEF Register, LocksInv, Globals
  <2>3. st' \in [State -> [pos : Nat, active : BOOLEAN]]
    BY <1>4, Types DEF Register, LocksInv, Globals
  <2>4. ASSUME {C', R'} \subseteq Thread \cup {NoThread}, O' \in [State -> Thread \cup {NoThread}]
        PROVE  Globals'
    BY <2>0, <2>1, <2>2, <2>3, <2>4 DEF LocksInv, Globals, IsMap, Ids
  <2>5. Len(origin) <= Len(origin') /\ snapshots \subseteq snapshots'
    BY <2>0 DEF LocksInv, Globals
  <2>6. CASE at[t].op # "restore"
    <3>1. Return(t)
      BY <1>4, <2>6 DEF Register
    <3> QED
      BY <2>1, <2>4, <2>5, <3>1, Returns, ReturnKeeps, Together DEF Returned
  <2>7. CASE at[t].op = "restore"
    <3>1. ThreadInv(t)' /\ at' \in [Thread -> Locals]
      BY <1>4, <2>0, <2>7, RegisterMoves, Types
         DEF Ids, ThreadInv, PlaceOfCall, LocksHeld, HoldsR, HoldsC, HoldsOb,
             HoldsDob, Sealing, ObjectsNamed, CheckpointsKnown, Made, Moved
    <3>2. /\ {C', R'} \subseteq Thread \cup {NoThread}
          /\ O' \in [State -> Thread \cup {NoThread}]
      BY <1>4, <2>7, RegisterMoves, Types
    <3> QED
      BY <1>4, <2>1, <2>4, <2>5, <2>7, <3>1, <3>2, RegisterMoves, Together
  <2> QED
    BY <2>6, <2>7
<1>5. CASE Switch(t)
  <2>0. /\ at[t].pc = "switch" /\ ThreadInv(t)
        /\ UNCHANGED <<kind, backend, origin, snapshots, graph, live, branches, st, calls>>
    BY <1>5 DEF Switch, At, LocksInv, backendVars, treeVars
  <2>1. CASE ~(at[t].ids \subseteq DOMAIN branches)
    BY <1>5, <2>1, QuietReturn DEF Switch, DataKept, registryVars
  <2>2. CASE at[t].ids \subseteq DOMAIN branches
    <3>1. current' \in Branch
      <4>1. PICK b \in Branch : at[t].ids = {b}
        BY <2>0 DEF ThreadInv, PlaceOfCall, CheckpointsKnown, Made
      <4>2. (CHOOSE c \in Branch : at[t].ids = {c}) \in Branch
        BY <4>1
      <4> QED
        BY <1>5, <2>2, <4>2 DEF Switch
    <3>2. C' = C /\ R' = R /\ O' = O
      BY <1>5, <2>2 DEF Switch, lockVars
    <3>3. Globals'
      BY <2>0, <3>1, <3>2 DEF LocksInv, Globals, IsMap, Ids
    <3>4. BranchesNamed'
      BY <2>0 DEF LocksInv, BranchesNamed
    <3>5. Len(origin) <= Len(origin') /\ snapshots \subseteq snapshots'
      BY <2>0 DEF LocksInv, Globals
    <3>6. CASE Departs(t)
      <4>1. ThreadInv(t)' /\ at' \in [Thread -> Locals]
        BY <1>5, <2>0, <2>2, <3>6, SwitchRetires, Types
           DEF Departs, LocksInv, BranchesNamed, Ids, ThreadInv, PlaceOfCall, LocksHeld,
               HoldsR, HoldsC, HoldsOb,
               HoldsDob, Sealing, ObjectsNamed, CheckpointsKnown, Made, Moved
      <4> QED
        BY <1>5, <2>2, <3>3, <3>4, <3>5, <3>6, <4>1, SwitchRetires, Together
    <3>7. CASE ~Departs(t)
      <4>1. ThreadInv(t)' /\ at' \in [Thread -> Locals]
        BY <1>5, <2>0, <2>2, <3>7, SwitchPositions, Types
           DEF Ids, ThreadInv, PlaceOfCall, LocksHeld, HoldsR, HoldsC, HoldsOb,
               HoldsDob, Sealing, ObjectsNamed, CheckpointsKnown, Made, Moved
      <4> QED
        BY <1>5, <2>2, <3>3, <3>4, <3>5, <3>7, <4>1, SwitchPositions, Together
    <3> QED
      BY <3>6, <3>7
  <2> QED
    BY <2>1, <2>2
<1>6. CASE Position(t)
  <2>0. /\ Return(t)
        /\ UNCHANGED <<kind, backend, origin, snapshots, graph, live, current, calls>>
    BY <1>6 DEF Position, backendVars, treeVars
  <2>1. IsMap(branches', State) /\ BranchesNamed'
    BY <1>6, RegistrationTypes DEF Position, LocksInv, Globals
  <2>2. st' \in [State -> [pos : Nat, active : BOOLEAN]]
    BY <1>6, Types DEF Position, LocksInv, Globals
  <2>3. Globals'
    BY <2>0, <2>1, <2>2, ReturnKeeps DEF LocksInv, Globals, IsMap, Ids
  <2>4. Len(origin) <= Len(origin') /\ snapshots \subseteq snapshots'
    BY <2>0 DEF LocksInv, Globals
  <2> QED
    BY <2>0, <2>1, <2>3, <2>4, Returns, ReturnKeeps, Together DEF Returned
<1> QED
  BY <1>1, <1>2, <1>3, <1>4, <1>5, <1>6

\* Back from _discard_branch.
LEMMA RetiredKeeps ==
    ASSUME LocksInv, NEW t \in Thread, Retired(t),
           at[t].pc \in {"check", "destroy", "forget"}, Ids' = Ids
    PROVE  /\ OnlyBy(t) /\ at' \in [Thread -> Locals] /\ ThreadInv(t)'
           /\ {C', R'} \subseteq Thread \cup {NoThread}
           /\ O' \in [State -> Thread \cup {NoThread}]
<1>1. CASE at[t].op = "restore"
  <2>1. ThreadInv(t)
    BY DEF LocksInv
  <2>2. ThreadInv(t)'
    BY <1>1, <2>1, RetiredMoves, Types
       DEF Released, ThreadInv, PlaceOfCall, LocksHeld, HoldsR, HoldsC, HoldsOb,
           HoldsDob, Sealing, ObjectsNamed, CheckpointsKnown, Made, Moved
  <2> QED
    BY <1>1, <2>2, RetiredMoves, Types DEF Moved, Released
<1>2. CASE at[t].op # "restore"
  BY <1>2, Returns, ReturnKeeps DEF Retired, Returned
<1> QED
  BY <1>1, <1>2

\* The retirement of a branch by discard_branch or restore.
LEMMA RetireLocks ==
    ASSUME LocksInv, NEW t \in Thread,
           LockRetiring(t) \/ CheckRetiring(t) \/ Destroy(t) \/ DestroyFails(t) \/ Forget(t)
    PROVE  LocksInv'
<1>1. CASE LockRetiring(t)
  <2>0. at[t].pc = "retire" /\ ThreadInv(t) /\ DataKept /\ calls' = calls
    BY <1>1 DEF LockRetiring, At, DataKept, LocksInv
  <2>1. ThreadInv(t)'
    BY <1>1, <2>0, LockRetiringMoves, Quiet, Types
       DEF ThreadInv, PlaceOfCall, LocksHeld, HoldsR, HoldsC, HoldsOb,
           HoldsDob, Sealing, ObjectsNamed, CheckpointsKnown, Made, Moved
  <2>2. at' \in [Thread -> Locals] /\ O' \in [State -> Thread \cup {NoThread}]
    BY <1>1, LockRetiringMoves, Types DEF Moved
  <2> QED
    BY <1>1, <2>0, <2>1, <2>2, LockRetiringMoves, QuietMove
<1>2. CASE CheckRetiring(t)
  <2>0. at[t].pc = "check" /\ ThreadInv(t) /\ DataKept /\ calls' = calls
    BY <1>2 DEF CheckRetiring, At, LocksInv, DataKept
  <2>1. CASE at[t].br \in live /\ st[at[t].dob].active
    <3>1. ThreadInv(t)'
      BY <1>2, <2>0, <2>1, CheckRetiringMoves, Quiet, Types
         DEF ThreadInv, PlaceOfCall, LocksHeld, HoldsR, HoldsC, HoldsOb,
             HoldsDob, Sealing, ObjectsNamed, CheckpointsKnown, Made, Moved
    <3> QED
      BY <1>2, <2>0, <2>1, <3>1, CheckRetiringMoves, QuietMove, Types DEF Moved
  <2>2. CASE ~(at[t].br \in live /\ st[at[t].dob].active)
    <3>1. Retired(t)
      BY <1>2, <2>2 DEF CheckRetiring
    <3> QED
      BY <2>0, <3>1, Quiet, RetiredKeeps, Unmoved DEF LocksInv, Globals
  <2> QED
    BY <2>1, <2>2
<1>3. CASE Destroy(t)
  <2>0. /\ at[t].pc = "destroy" /\ ThreadInv(t)
        /\ UNCHANGED <<kind, origin, snapshots, graph, live, branches, st, current, C, R, O, calls>>
    BY <1>3 DEF Destroy, At, LocksInv, treeVars, registryVars, lockVars
  <2>1. IsMap(backend', Ids') /\ Ids' = Ids
    BY <1>3, <2>0 DEF Destroy, LocksInv, Globals, IsMap, Without, Ids
  <2>2. Globals'
    BY <2>0, <2>1 DEF LocksInv, Globals, IsMap
  <2>3. BranchesNamed'
    BY <2>0 DEF LocksInv, BranchesNamed
  <2>4. ThreadInv(t)' /\ at' \in [Thread -> Locals]
    BY <1>3, <2>0, <2>1, DestroyMoves, Types
       DEF ThreadInv, PlaceOfCall, LocksHeld, HoldsR, HoldsC, HoldsOb,
           HoldsDob, Sealing, ObjectsNamed, CheckpointsKnown, Made, Moved
  <2>5. Len(origin) <= Len(origin') /\ snapshots \subseteq snapshots'
    BY <2>0 DEF LocksInv, Globals
  <2> QED
    BY <1>3, <2>2, <2>3, <2>4, <2>5, DestroyMoves, Together
<1>4. CASE DestroyFails(t)
  <2>0. at[t].pc = "destroy" /\ DataKept /\ calls' = calls /\ Retired(t)
    BY <1>4 DEF DestroyFails, At, LocksInv, DataKept
  <2> QED
    BY <2>0, Quiet, RetiredKeeps, Unmoved DEF LocksInv, Globals
<1>5. CASE Forget(t)
  <2>0. /\ at[t].pc = "forget" /\ Retired(t) /\ RemoveBranch(at[t].br)
        /\ UNCHANGED <<kind, backend, origin, snapshots, graph, current, calls>>
    BY <1>5 DEF Forget, At, LocksInv, treeVars, backendVars
  <2>1. live' \subseteq Branch /\ IsMap(branches', State) /\ BranchesNamed'
    BY <2>0 DEF RemoveBranch, Without, LocksInv, Globals, BranchesNamed, IsMap
  <2>2. st' \in [State -> [pos : Nat, active : BOOLEAN]]
    <3>1. \A o \in State : [st[o] EXCEPT !.active = FALSE] \in [pos : Nat, active : BOOLEAN]
      BY DEF LocksInv, Globals
    <3> QED
      BY <2>0, <3>1 DEF RemoveBranch, LocksInv, Globals
  <2>3. Ids' = Ids
    BY <2>0 DEF Ids
  <2>4. Globals'
    BY <2>0, <2>1, <2>2, <2>3, RetiredKeeps DEF LocksInv, Globals, IsMap
  <2>5. Len(origin) <= Len(origin') /\ snapshots \subseteq snapshots'
    BY <2>0 DEF LocksInv, Globals
  <2> QED
    BY <2>0, <2>1, <2>3, <2>4, <2>5, RetiredKeeps, Together
<1> QED
  BY <1>1, <1>2, <1>3, <1>4, <1>5

\* The other steps of park_branch.
LEMMA ParkLocks ==
    ASSUME LocksInv, NEW t \in Thread,
           \/ LockPark(t) \/ CheckPark(t) \/ RemoveParked(t)
           \/ UndoCommit(t) \/ ParkFails(t)
    PROVE  LocksInv'
<1>1. CASE LockPark(t)
  <2>0. at[t].pc = "park" /\ ThreadInv(t) /\ DataKept /\ calls' = calls
    BY <1>1 DEF LockPark, At, DataKept, LocksInv
  <2>1. ThreadInv(t)'
    BY <1>1, <2>0, LockParkMoves, Quiet, Types
       DEF ThreadInv, PlaceOfCall, LocksHeld, HoldsR, HoldsC, HoldsOb,
           HoldsDob, Sealing, ObjectsNamed, CheckpointsKnown, Made, Moved
  <2>2. at' \in [Thread -> Locals] /\ O' \in [State -> Thread \cup {NoThread}]
    BY <1>1, LockParkMoves, Types DEF Moved
  <2> QED
    BY <1>1, <2>0, <2>1, <2>2, LockParkMoves, QuietMove
<1>2. CASE CheckPark(t)
  <2>0. at[t].pc = "park_check" /\ ThreadInv(t) /\ DataKept /\ calls' = calls
    BY <1>2 DEF CheckPark, At, LocksInv, DataKept
  <2>1. CASE at[t].br \in live /\ st[at[t].ob].active
    <3>1. ThreadInv(t)'
      BY <1>2, <2>0, <2>1, CheckParkMoves, Quiet, Types
         DEF ThreadInv, PlaceOfCall, LocksHeld, HoldsR, HoldsC, HoldsOb,
             HoldsDob, Sealing, ObjectsNamed, CheckpointsKnown, Made, Moved
    <3> QED
      BY <1>2, <2>0, <2>1, <3>1, CheckParkMoves, QuietMove, Types DEF Moved
  <2>2. CASE ~(at[t].br \in live /\ st[at[t].ob].active)
    BY <1>2, <2>0, <2>2, QuietReturn DEF CheckPark
  <2> QED
    BY <2>1, <2>2
<1>3. CASE RemoveParked(t)
  <2>0. /\ at[t].pc = "park_remove" /\ ThreadInv(t)
        /\ snapshots' = snapshots \cup {at[t].sid}
        /\ UNCHANGED <<kind, origin, graph, live, branches, st, current, C, R, O, calls>>
    BY <1>3 DEF RemoveParked, At, LocksInv, registryVars, lockVars
  <2>1. IsMap(backend', Ids') /\ Ids' = Ids
    BY <1>3, <2>0 DEF RemoveParked, LocksInv, Globals, IsMap, Without, Ids
  <2>2. at[t].sid \in Ids
    BY <2>0 DEF ThreadInv, CheckpointsKnown
  <2>3. Globals'
    BY <2>0, <2>1, <2>2 DEF LocksInv, Globals, IsMap
  <2>4. BranchesNamed'
    BY <2>0 DEF LocksInv, BranchesNamed
  <2>5. ThreadInv(t)' /\ at' \in [Thread -> Locals]
    BY <1>3, <2>0, <2>1, RemoveParkedMoves, Types
       DEF ThreadInv, PlaceOfCall, LocksHeld, HoldsR, HoldsC, HoldsOb,
           HoldsDob, Sealing, ObjectsNamed, CheckpointsKnown, Made, Moved
  <2>6. Len(origin) <= Len(origin') /\ snapshots \subseteq snapshots'
    BY <2>0 DEF LocksInv, Globals
  <2> QED
    BY <1>3, <2>3, <2>4, <2>5, <2>6, RemoveParkedMoves, Together
<1>4. CASE UndoCommit(t) \/ ParkFails(t)
  BY <1>4, QuietReturn DEF UndoCommit, ParkFails, DataKept
<1> QED
  BY <1>1, <1>2, <1>3, <1>4

\* cleanup takes no lock, and gives none back.
LEMMA CleanupLocks ==
    ASSUME LocksInv, NEW t \in Thread, TearDown(t) \/ TearDownFails(t)
    PROVE  LocksInv'
<1>1. CASE TearDown(t)
  <2>0. /\ Return(t)
        /\ UNCHANGED <<kind, origin, snapshots, graph, live, branches, st, current, calls>>
    BY <1>1 DEF TearDown, treeVars, registryVars
  <2>1. IsMap(backend', Ids')
    BY <1>1, <2>0 DEF TearDown, LocksInv, Globals, IsMap, Without, Ids
  <2>2. Globals'
    BY <2>0, <2>1, ReturnKeeps DEF LocksInv, Globals, IsMap, Ids
  <2>3. BranchesNamed'
    BY <2>0 DEF LocksInv, BranchesNamed
  <2>4. Len(origin) <= Len(origin') /\ snapshots \subseteq snapshots'
    BY <2>0 DEF LocksInv, Globals
  <2> QED
    BY <2>0, <2>2, <2>3, <2>4, Returns, ReturnKeeps, Together DEF Returned
<1>2. CASE TearDownFails(t)
  BY <1>2, QuietReturn DEF TearDownFails, DataKept
<1> QED
  BY <1>1, <1>2

\* Another manager changes the backend alone.
LEMMA OthersLocks ==
    ASSUME LocksInv, Others
    PROVE  LocksInv'
<1>1. PICK b \in Branch :
        OtherSeals(b) \/ OtherDestroys(b) \/ \E s \in Ids : OtherForks(b, s)
  BY DEF Others
<1>2. /\ UNCHANGED <<kind, snapshots, graph, live, branches, st, current, C, R, O, at>>
      /\ calls' \in 0 .. MaxCalls
  BY <1>1, ForkableAssumption
     DEF OtherSeals, OtherDestroys, OtherForks, OthersMay, treeVars, registryVars,
         lockVars, LocksInv, Globals
<1>3. origin' \in Seq(Nat) /\ Ids \subseteq Ids' /\ IsMap(backend', Ids')
  <2>1. CASE OtherSeals(b)
    <3>1. backend[b] \in Nat
      BY <2>1 DEF OtherSeals, LocksInv, Globals, IsMap, Ids
    <3>2. origin' \in Seq(Nat) /\ Ids' = Ids \cup {NewId}
      BY <2>1, <3>1, Grown DEF OtherSeals
    <3> QED
      BY <2>1, <3>2 DEF OtherSeals, LocksInv, Globals, IsMap
  <2>2. CASE OtherDestroys(b)
    BY <2>2 DEF OtherDestroys, LocksInv, Globals, IsMap, Without, Ids
  <2>3. CASE \E s \in Ids : OtherForks(b, s)
    BY <2>3 DEF OtherForks, LocksInv, Globals, IsMap, Ids
  <2> QED
    BY <1>1, <2>1, <2>2, <2>3
<1>4. Globals'
  BY <1>2, <1>3 DEF LocksInv, Globals, IsMap
<1>5. BranchesNamed'
  BY <1>2 DEF LocksInv, BranchesNamed
<1>6. ASSUME NEW t \in Thread PROVE ThreadInv(t)'
  BY <1>2, <1>3, Types
     DEF LocksInv, ThreadInv, PlaceOfCall, LocksHeld, HoldsR, HoldsC, HoldsOb,
           HoldsDob, Sealing, ObjectsNamed, CheckpointsKnown, Made, Moved
<1> QED
  BY <1>2, <1>4, <1>5, <1>6 DEF LocksInv

\* A manager that has just attached.
LEMMA InitLocks == Init => LocksInv
<1> SUFFICES ASSUME Init PROVE LocksInv
  OBVIOUS
<1>1. at \in [Thread -> Locals] /\ \A t \in Thread : at[t] = Idle
  BY IdleTypes DEF Init
<1>2. \A t \in Thread : ThreadInv(t)
  BY <1>1, ForkableAssumption
     DEF Idle, Init, ThreadInv, PlaceOfCall, LocksHeld, HoldsR, HoldsC, HoldsOb,
           HoldsDob, Sealing, ObjectsNamed, CheckpointsKnown, Made, Moved
<1>3. BranchesNamed
  BY DEF Init, BranchesNamed, FirstState
<1>4. Globals
  <2>1. origin \in Seq(Nat) /\ Len(origin) = 1
    BY DEF Init, NoSnapshot
  <2>2. Ids = {1}
    BY <2>1 DEF Ids
  <2>3. IsMap(backend, Ids) /\ IsMap(branches, State)
    BY <2>2, IdleTypes, ForkableAssumption DEF Init, IsMap
  <2>4. /\ graph \in [DOMAIN graph -> [parent : Nat, children : SUBSET Ids]] /\ DOMAIN graph = {1}
    BY DEF Init, NoSnapshot
  <2>5. st \in [State -> [pos : Nat, active : BOOLEAN]]
    BY DEF Init, NoSnapshot
  <2>6. live \subseteq Branch /\ current \in Branch /\ calls \in 0 .. MaxCalls
        /\ {C, R} \subseteq Thread \cup {NoThread}
        /\ O \in [State -> Thread \cup {NoThread}]
        /\ snapshots = {1} /\ kind \in Kinds
    BY ForkableAssumption DEF Init
  <2> QED
    BY <2>1, <2>2, <2>3, <2>4, <2>5, <2>6 DEF Globals
<1> QED
  BY <1>1, <1>2, <1>3, <1>4 DEF LocksInv

\* Every step, of a thread or of somebody else.
LEMMA NextLocks == LocksInv /\ [Next]_vars => LocksInv'
<1> SUFFICES ASSUME LocksInv, [Next]_vars PROVE LocksInv'
  OBVIOUS
<1>1. CASE UNCHANGED vars
  <2>1. Globals'
    BY <1>1
       DEF vars, backendVars, treeVars, registryVars, lockVars, LocksInv, Globals, IsMap,
           Ids
  <2>2. BranchesNamed' /\ at' \in [Thread -> Locals]
    BY <1>1 DEF vars, LocksInv, BranchesNamed
  <2>3. ASSUME NEW t \in Thread PROVE ThreadInv(t)'
    BY <1>1
       DEF vars, Ids, LocksInv, ThreadInv, PlaceOfCall, LocksHeld, HoldsR, HoldsC, HoldsOb,
           HoldsDob, Sealing, ObjectsNamed, CheckpointsKnown, Made, Moved
  <2> QED
    BY <2>1, <2>2, <2>3 DEF LocksInv
<1>2. ASSUME NEW t \in Thread, Begin(t) PROVE LocksInv'
  BY <1>2, BeginLocks
<1>3. ASSUME NEW t \in Thread, Continue(t) PROVE LocksInv'
  BY <1>3, ExecLocks, CheckpointLocks, ListLocks, RecordLocks, RestoreLocks, RetireLocks,
     ParkLocks, CleanupLocks DEF Continue
<1>4. CASE Others
  BY <1>4, OthersLocks
<1> QED
  BY <1>1, <1>2, <1>3, <1>4 DEF Next

-----------------------------------------------------------------------------
(* The theorems.                                                           *)

\* Each thread holds exactly the locks that its place calls for, with every
\* kind of failure and with other managers on the session.
THEOREM LocksInvariant == Spec => []LocksInv
<1> QED
  BY InitLocks, NextLocks, PTL DEF Spec

\* Only branches are unlisted.
UnlistedNamed == unlisted \subseteq Branch

LEMMA UnlistedKept == UnlistedNamed /\ [Next]_vars => UnlistedNamed'
<1> SUFFICES ASSUME unlisted \subseteq Branch, [Next]_vars PROVE unlisted' \subseteq Branch
  BY DEF UnlistedNamed
<1>1. ASSUME NEW t \in Thread, Begin(t) PROVE unlisted' = unlisted
  BY <1>1 DEF Begin, Exec, Copy, Snapshot, ExecOnBranch, CopyBranch, SnapshotBranch,
              OnCurrent, OnBranch, List, CleanUp, Discard, Park, Restore, Fork, backendVars
<1>2. ASSUME NEW t \in Thread, Continue(t) PROVE unlisted' \subseteq Branch
  <2>1. CASE Refused(t) \/ LockExec(t) \/ Run(t) \/ LockSeal(t) \/ CoreSnapshot(t)
             \/ Commit(t) \/ SnapshotFails(t)
    BY <2>1 DEF Refused, LockExec, Run, LockSeal, CoreSnapshot, Commit, SnapshotFails,
                backendVars
  <2>2. CASE Query(t) \/ QueryFails(t) \/ Prune(t) \/ Record(t) \/ LockDeparting(t)
    BY <2>2 DEF Query, QueryFails, Prune, Record, LockDeparting, backendVars
  <2>3. CASE Register(t) \/ Switch(t) \/ Position(t) \/ LockRetiring(t) \/ CheckRetiring(t)
             \/ Destroy(t) \/ DestroyFails(t) \/ Forget(t)
    BY <2>3 DEF Register, Switch, Position, LockRetiring, CheckRetiring, Destroy,
                DestroyFails, Forget, backendVars
  <2>4. CASE LockPark(t) \/ CheckPark(t) \/ CorePark(t) \/ CommitPark(t) \/ RemoveParked(t)
             \/ UndoCommit(t) \/ ParkFails(t) \/ RecordPark(t) \/ TearDownFails(t)
    BY <2>4 DEF LockPark, CheckPark, CorePark, CommitPark, RemoveParked, UndoCommit,
                ParkFails, RecordPark, TearDownFails, backendVars
  <2>5. CASE Apply(t) \/ TearDown(t)
    BY <2>5 DEF Apply, TearDown
  <2>6. CASE Materialize(t) \/ MaterializeFails(t)
    BY <2>6 DEF Materialize, MaterializeFails, Forked
  <2> QED
    BY <1>2, <2>1, <2>2, <2>3, <2>4, <2>5, <2>6 DEF Continue
<1>3. CASE Others
  BY <1>3 DEF Others, OtherSeals, OtherDestroys, OtherForks
<1> QED
  BY <1>1, <1>2, <1>3 DEF Next, vars

\* Every variable keeps its type.
THEOREM TypesCorrect == Spec => []TypeOK
<1>1. Init => UnlistedNamed
  BY DEF Init, UnlistedNamed
<1>2. Spec => []UnlistedNamed
  BY <1>1, UnlistedKept, PTL DEF Spec
<1>3. LocksInv /\ UnlistedNamed => TypeOK
  BY TypesOf DEF LocksInv, UnlistedNamed
<1> QED
  BY <1>2, <1>3, LocksInvariant, PTL
=============================================================================
