------------------------- MODULE EnvManager_proofs -------------------------
(***************************************************************************)
(* Theorems about EnvManager, for every value of its constants.            *)
(*                                                                         *)
(* Structure, whatever the backend does wrong: types, the shape of the     *)
(* snapshot tree, the physical images.  Fidelity, for a backend that does  *)
(* not fail: a restore brings back exactly what was saved, which is that   *)
(* the manager implements SnapshotStore.  Time and effects, again whatever *)
(* fails: what the decider is told, and what a restore rebuilds.           *)
(***************************************************************************)
EXTENDS EnvManager, SequenceTheorems, WellFoundedInduction, TLAPS

-----------------------------------------------------------------------------
(* Lemmas on the operators.                                                *)

\* A node's parent lists it; nothing else of the graph is touched.
LEMMA LinkedProperties ==
    ASSUME NEW g \in Seq(Node), NEW p \in Nat
    PROVE  /\ Linked(g, p, Len(g) + 1) \in Seq(Node)
           /\ Len(Linked(g, p, Len(g) + 1)) = Len(g)
           /\ \A i \in 1 .. Len(g) :
                Linked(g, p, Len(g) + 1)[i] =
                  IF i = p THEN [g[i] EXCEPT !.children = @ \cup {Len(g) + 1}]
                  ELSE g[i]
<1> DEFINE h == Linked(g, p, Len(g) + 1)
<1>1. g \in [1 .. Len(g) -> Node] /\ DOMAIN g = 1 .. Len(g) /\ Len(g) \in Nat
  BY LenProperties
<1>2. h \in [1 .. Len(g) -> Node]
  BY <1>1 DEF Linked, Node
<1>3. \A i \in 1 .. Len(g) :
        h[i] = IF i = p THEN [g[i] EXCEPT !.children = @ \cup {Len(g) + 1}]
               ELSE g[i]
  BY <1>1 DEF Linked
<1> QED
  BY <1>1, <1>2, <1>3

\* Recording a node appends it to the graph ...
LEMMA RecordNodeAppends ==
    ASSUME NEW g \in Seq(Node), NEW n \in Node
    PROVE  /\ RecordNode(g, n) \in Seq(Node)
           /\ Len(RecordNode(g, n)) = Len(g) + 1
           /\ RecordNode(g, n)[Len(g) + 1] = n
<1>1. n.parent \in Nat
  BY DEF Node
<1> QED
  BY <1>1, LinkedProperties, AppendProperties DEF RecordNode

\* ... and changes of the older nodes only the children of its parent.
LEMMA RecordNodeKeeps ==
    ASSUME NEW g \in Seq(Node), NEW n \in Node
    PROVE  \A i \in 1 .. Len(g) :
             /\ RecordNode(g, n)[i].parent = g[i].parent
             /\ RecordNode(g, n)[i].virtual = g[i].virtual
             /\ RecordNode(g, n)[i].replay = g[i].replay
             /\ RecordNode(g, n)[i].children =
                  IF i = n.parent THEN g[i].children \cup {Len(g) + 1}
                  ELSE g[i].children
<1> DEFINE h == Linked(g, n.parent, Len(g) + 1)
<1>1. n.parent \in Nat /\ \A i \in 1 .. Len(g) : g[i] \in Node
  BY LenProperties DEF Node
<1>2. /\ h \in Seq(Node) /\ Len(h) = Len(g)
      /\ \A i \in 1 .. Len(g) :
           h[i] = IF i = n.parent
                  THEN [g[i] EXCEPT !.children = @ \cup {Len(g) + 1}] ELSE g[i]
  BY <1>1, LinkedProperties
<1> HIDE DEF h
<1>3. \A i \in 1 .. Len(h) : Append(h, n)[i] = h[i]
  BY <1>2, AppendProperties
<1>4. RecordNode(g, n) = Append(h, n)
  BY DEF RecordNode, h
<1> SUFFICES ASSUME NEW i \in 1 .. Len(g)
             PROVE  /\ Append(h, n)[i].parent = g[i].parent
                    /\ Append(h, n)[i].virtual = g[i].virtual
                    /\ Append(h, n)[i].replay = g[i].replay
                    /\ Append(h, n)[i].children =
                         IF i = n.parent THEN g[i].children \cup {Len(g) + 1}
                         ELSE g[i].children
  BY <1>4
<1>5. g[i] \in Node /\ Append(h, n)[i] = h[i]
  BY <1>1, <1>2, <1>3
<1>6. h[i] = IF i = n.parent
             THEN [g[i] EXCEPT !.children = @ \cup {Len(g) + 1}] ELSE g[i]
  BY <1>2
<1> QED
  BY <1>5, <1>6 DEF Node

\* Appending to a concatenation appends to its second part.
LEMMA AppendToConcat ==
    ASSUME NEW s \in Seq(Command), NEW t \in Seq(Command), NEW c \in Command
    PROVE  Append(s \o t, c) = s \o Append(t, c)
<1>1. << c >> \in Seq(Command) /\ s \o t \in Seq(Command)
  BY ConcatProperties
<1>2. Append(s \o t, c) = (s \o t) \o << c >> /\ Append(t, c) = t \o << c >>
  BY <1>1, AppendIsConcat
<1> QED
  BY <1>1, <1>2, ConcatAssociative

\* Moving the first pending command from the front of the replay to the end
\* of the environment does not change where both lead together.
LEMMA ReplayMovesHead ==
    ASSUME NEW S, NEW e \in Seq(S), NEW p \in Seq(S), p # << >>
    PROVE  Append(e, Head(p)) \o Tail(p) = e \o p
<1>1. Head(p) \in S /\ Tail(p) \in Seq(S)
  BY HeadTailProperties
<1>2. p = << Head(p) >> \o Tail(p)
  BY <1>1, HeadTailProperties, ConcatProperties, SeqEqual
<1>3. Append(e, Head(p)) = e \o << Head(p) >>
  BY <1>1, AppendIsConcat
<1>4. << Head(p) >> \in Seq(S)
  BY <1>1
<1> QED
  BY <1>1, <1>2, <1>3, <1>4, ConcatAssociative

-----------------------------------------------------------------------------
(* Structure.  The tree is well founded because every node is recorded     *)
(* after its parent: that is what makes the walk of a restore climb, and   *)
(* no typing argument gives it.                                            *)

\* Each node's parent is older than the node; only a physical node has none.
ParentsOlder ==
    \A s \in Ids :
        /\ graph[s].parent < s
        /\ graph[s].virtual => graph[s].parent # NoParent

\* The physical nodes are those with a resource.
ResourcesMatch == \A s \in Ids : s \in DOMAIN snapshots <=> ~graph[s].virtual

ChildrenRecorded == \A s \in Ids : graph[s].children \subseteq Ids

\* A physical snapshot's resource holds what the environment was.
PhysicalFaithful ==
    \A s \in DOMAIN snapshots : snapshots[s] = sealed[s]

\* The walk of a running restore goes from younger to older nodes.
WalkClimbs == pc = "walk" => \A s \in visited : anc < s

TreeInv ==
    /\ TypeOK
    /\ ParentsOlder
    /\ ResourcesMatch
    /\ ChildrenRecorded
    /\ TreeLinked
    /\ PhysicalFaithful
    /\ WalkClimbs

LEMMA InitTree == Init => TreeInv
<1> SUFFICES ASSUME Init PROVE TreeInv
  OBVIOUS
<1>1. PhysicalNode(NoParent) \in Node
  BY EmptySeq DEF PhysicalNode, Node, NoParent, Content
<1>2. << >> \in Content
  BY EmptySeq DEF Content
<1>3. /\ graph \in Seq(Node) /\ sealed \in Seq(Content)
      /\ Len(graph) = 1 /\ Len(sealed) = 1
      /\ graph[1] = PhysicalNode(NoParent) /\ sealed[1] = << >>
      /\ Ids = {1}
  BY <1>1, <1>2 DEF Init, Ids
<1>4. TypeOK
  BY <1>2, <1>3 DEF Init, TypeOK
<1>5. graph[1].parent = 0 /\ graph[1].virtual = FALSE /\ graph[1].children = {}
  BY <1>3 DEF PhysicalNode, NoParent
<1> QED
  BY <1>3, <1>4, <1>5 DEF Init, TreeInv, ParentsOlder, ResourcesMatch,
     ChildrenRecorded, TreeLinked, PhysicalFaithful, WalkClimbs, NoParent

\* What both kinds of snapshot have in common: recording a node whose parent
\* is the branch position keeps the tree in shape.
LEMMA RecordKeepsTree ==
    ASSUME TreeInv, NEW n \in Node, n.parent = position, n.children = {},
           graph' = RecordNode(graph, n)
    PROVE  /\ graph' \in Seq(Node)
           /\ Len(graph') = Len(graph) + 1
           /\ Ids = 1 .. Len(graph) /\ Ids' = 1 .. Len(graph) + 1
           /\ graph'[NextId] = n
           /\ \A s \in Ids : /\ graph'[s].parent = graph[s].parent
                             /\ graph'[s].virtual = graph[s].virtual
                             /\ graph'[s].replay = graph[s].replay
           /\ ParentsOlder'
           /\ ChildrenRecorded'
           /\ TreeLinked'
<1>1. /\ graph \in Seq(Node) /\ Len(graph) \in Nat /\ Ids = 1 .. Len(graph)
      /\ position \in Ids
  BY LenProperties DEF TreeInv, TypeOK, Ids
<1>2. /\ graph' \in Seq(Node)
      /\ Len(graph') = Len(graph) + 1
      /\ graph'[Len(graph) + 1] = n
  BY <1>1, RecordNodeAppends
<1>a. \A i \in 1 .. Len(graph) : graph'[i].parent = graph[i].parent
  BY <1>1, RecordNodeKeeps
<1>b. \A i \in 1 .. Len(graph) : graph'[i].virtual = graph[i].virtual
  BY <1>1, RecordNodeKeeps
<1>c. \A i \in 1 .. Len(graph) : graph'[i].replay = graph[i].replay
  BY <1>1, RecordNodeKeeps
<1>d. \A i \in 1 .. Len(graph) :
        graph'[i].children = IF i = n.parent THEN graph[i].children \cup {Len(graph) + 1}
                             ELSE graph[i].children
  BY <1>1, RecordNodeKeeps
<1>3. Ids' = 1 .. Len(graph) + 1
  BY <1>2, LenProperties DEF Ids
<1>4. ParentsOlder'
  <2> SUFFICES ASSUME NEW s \in 1 .. Len(graph) + 1
               PROVE  /\ graph'[s].parent < s
                      /\ graph'[s].virtual => graph'[s].parent # 0
    BY <1>3 DEF ParentsOlder, NoParent
  <2>1. CASE s \in 1 .. Len(graph)
    BY <1>1, <1>a, <1>b, <2>1 DEF TreeInv, ParentsOlder, NoParent
  <2>2. CASE s = Len(graph) + 1
    BY <1>1, <1>2, <2>2
  <2> QED
    BY <1>1, <2>1, <2>2
<1>5. ChildrenRecorded'
  <2> SUFFICES ASSUME NEW s \in 1 .. Len(graph) + 1
               PROVE  graph'[s].children \subseteq 1 .. Len(graph) + 1
    BY <1>3 DEF ChildrenRecorded
  <2>1. CASE s \in 1 .. Len(graph)
    <3>1. graph[s].children \subseteq 1 .. Len(graph)
      BY <1>1, <2>1 DEF TreeInv, ChildrenRecorded
    <3>2. \/ graph'[s].children = graph[s].children
          \/ graph'[s].children = graph[s].children \cup {Len(graph) + 1}
      BY <1>d, <2>1
    <3> QED
      BY <1>1, <3>1, <3>2
  <2>2. CASE s = Len(graph) + 1
    BY <1>1, <1>2, <2>2
  <2> QED
    BY <1>1, <2>1, <2>2
<1>6. TreeLinked'
  <2> SUFFICES ASSUME NEW s \in 1 .. Len(graph) + 1, NEW p \in 1 .. Len(graph) + 1
               PROVE  (s \in graph'[p].children) <=> (graph'[s].parent = p)
    BY <1>3 DEF TreeLinked
  <2>1. CASE s \in 1 .. Len(graph) /\ p \in 1 .. Len(graph)
    <3>1. (s \in graph[p].children) <=> (graph[s].parent = p)
      BY <1>1, <2>1 DEF TreeInv, TreeLinked
    <3>2. \/ graph'[p].children = graph[p].children
          \/ graph'[p].children = graph[p].children \cup {Len(graph) + 1}
      BY <1>d, <2>1
    <3>3. (s \in graph'[p].children) <=> (s \in graph[p].children)
      BY <1>1, <2>1, <3>2
    <3> QED
      BY <1>a, <2>1, <3>1, <3>3
  <2>2. CASE s = Len(graph) + 1 /\ p \in 1 .. Len(graph)
    <3>1. graph[p].children \subseteq 1 .. Len(graph)
      BY <1>1, <2>2 DEF TreeInv, ChildrenRecorded
    <3>2. graph'[p].children = IF p = position
                               THEN graph[p].children \cup {Len(graph) + 1}
                               ELSE graph[p].children
      BY <1>d, <2>2
    <3>3. s \in graph'[p].children <=> p = position
      BY <1>1, <2>2, <3>1, <3>2
    <3> QED
      BY <1>1, <1>2, <2>2, <3>3
  <2>3. CASE s \in 1 .. Len(graph) /\ p = Len(graph) + 1
    BY <1>1, <1>2, <1>a, <2>3 DEF TreeInv, ParentsOlder
  <2>4. CASE s = Len(graph) + 1 /\ p = Len(graph) + 1
    BY <1>1, <1>2, <2>4
  <2> QED
    BY <1>1, <2>1, <2>2, <2>3, <2>4
<1> QED
  BY <1>1, <1>2, <1>3, <1>a, <1>b, <1>c, <1>4, <1>5, <1>6 DEF NextId

\* A step that records nothing leaves the shape of the tree as it is.
LEMMA TreeUnchanged ==
    ASSUME TreeInv, UNCHANGED treeVars
    PROVE  /\ ParentsOlder' /\ ResourcesMatch' /\ ChildrenRecorded'
           /\ TreeLinked' /\ PhysicalFaithful'
           /\ Ids' = Ids /\ graph' = graph /\ snapshots' = snapshots
           /\ sealed' = sealed
           /\ frozen' = frozen /\ strays' = strays
<1>1. /\ graph' = graph /\ snapshots' = snapshots /\ sealed' = sealed
      /\ frozen' = frozen /\ strays' = strays
  BY DEF treeVars
<1>2. Ids' = Ids
  BY <1>1 DEF Ids
<1> QED
  BY <1>1, <1>2 DEF TreeInv, ParentsOlder, ResourcesMatch, ChildrenRecorded,
     TreeLinked, PhysicalFaithful

LEMMA PhysicalKeepsTree ==
    ASSUME TreeInv, SnapshotPhysical PROVE TreeInv'
<1> DEFINE n == PhysicalNode(position)
<1>1. /\ TypeOK /\ Ids = 1 .. Len(graph) /\ Len(graph) \in Nat
      /\ graph \in Seq(Node) /\ env \in Content /\ position \in Nat
      /\ sealed \in Seq(Content) /\ Len(sealed) = Len(graph)
  BY LenProperties DEF TreeInv, TypeOK, Ids
<1>2. << >> \in Content
  BY EmptySeq DEF Content
<1>3. n \in Node /\ n.parent = position /\ n.children = {} /\ n.virtual = FALSE
  BY <1>1, <1>2 DEF PhysicalNode, Node
<1>4. graph' = RecordNode(graph, n)
  BY DEF SnapshotPhysical
<1> HIDE DEF n
<1>5. /\ graph' \in Seq(Node) /\ Len(graph') = Len(graph) + 1
      /\ Ids' = 1 .. Len(graph) + 1 /\ graph'[NextId] = n
      /\ \A s \in Ids : graph'[s].virtual = graph[s].virtual
      /\ ParentsOlder' /\ ChildrenRecorded' /\ TreeLinked'
  BY <1>3, <1>4, RecordKeepsTree
<1>6. /\ DOMAIN snapshots' = DOMAIN snapshots \cup {Len(graph) + 1}
      /\ snapshots'[Len(graph) + 1] = env
      /\ \A s \in DOMAIN snapshots : s # Len(graph) + 1 => snapshots'[s] = snapshots[s]
      /\ snapshots' \in [DOMAIN snapshots' -> Content]
  BY <1>1 DEF SnapshotPhysical, Registered, NextId, TypeOK
<1>7. /\ sealed' \in Seq(Content) /\ Len(sealed') = Len(graph) + 1
      /\ \A s \in Ids : sealed'[s] = sealed[s]
      /\ sealed'[Len(graph) + 1] = env
  BY <1>1, AppendProperties DEF SnapshotPhysical
<1>8. DOMAIN snapshots \subseteq Ids
  BY <1>1 DEF TypeOK
<1>9. TypeOK'
  <2>1. DOMAIN snapshots' \subseteq Ids'
    BY <1>1, <1>5, <1>6, <1>8
  <2>2. Len(graph) + 1 \in Ids' /\ Ids \subseteq Ids'
    BY <1>1, <1>5
  <2>3. /\ position' = Len(graph) + 1 /\ log' = << >> /\ cum' = 0
        /\ life' = "running" /\ astray' = FALSE
        /\ UNCHANGED <<pc, target, anc, pending, visited, env, running, strays>>
    BY DEF SnapshotPhysical, NextId, restoreVars
  <2>4. frozen' \subseteq Ids' \X Command
    <3>1. frozen' = frozen \cup ({Len(graph) + 1} \X running)
      BY DEF SnapshotPhysical, NextId
    <3>2. frozen \subseteq Ids \X Command /\ running \subseteq Command
      BY <1>1 DEF TypeOK
    <3> QED
      BY <2>2, <3>1, <3>2
  <2>5. strays' \subseteq Ids'
    BY <1>1, <2>2, <2>3 DEF TypeOK
  <2> QED
    BY <1>1, <1>2, <1>5, <1>6, <1>7, <2>1, <2>2, <2>3, <2>4, <2>5 DEF TypeOK
<1>10. ResourcesMatch'
  <2> SUFFICES ASSUME NEW s \in 1 .. Len(graph) + 1
               PROVE  s \in DOMAIN snapshots' <=> ~graph'[s].virtual
    BY <1>5 DEF ResourcesMatch
  <2>1. CASE s \in 1 .. Len(graph)
    BY <1>1, <1>5, <1>6, <2>1 DEF TreeInv, ResourcesMatch
  <2>2. CASE s = Len(graph) + 1
    BY <1>3, <1>5, <1>6, <2>2 DEF NextId
  <2> QED
    BY <1>1, <2>1, <2>2
<1>11. PhysicalFaithful'
  BY <1>1, <1>6, <1>7, <1>8 DEF TreeInv, PhysicalFaithful
<1>12. WalkClimbs'
  BY DEF SnapshotPhysical, MaySnapshot, restoreVars, WalkClimbs
<1> QED
  BY <1>5, <1>9, <1>10, <1>11, <1>12 DEF TreeInv

LEMMA VirtualKeepsTree ==
    ASSUME TreeInv, SnapshotVirtual PROVE TreeInv'
<1> DEFINE n == VirtualNode(position, log)
<1>1. /\ TypeOK /\ Ids = 1 .. Len(graph) /\ Len(graph) \in Nat
      /\ graph \in Seq(Node) /\ env \in Content /\ log \in Content
      /\ position \in Nat
      /\ sealed \in Seq(Content) /\ Len(sealed) = Len(graph)
  BY LenProperties DEF TreeInv, TypeOK, Ids
<1>2. << >> \in Content
  BY EmptySeq DEF Content
<1>3. n \in Node /\ n.parent = position /\ n.children = {} /\ n.virtual = TRUE
  BY <1>1 DEF VirtualNode, Node
<1>4. graph' = RecordNode(graph, n) /\ snapshots' = snapshots
  BY DEF SnapshotVirtual
<1> HIDE DEF n
<1>5. /\ graph' \in Seq(Node) /\ Len(graph') = Len(graph) + 1
      /\ Ids' = 1 .. Len(graph) + 1 /\ graph'[NextId] = n
      /\ \A s \in Ids : graph'[s].virtual = graph[s].virtual
      /\ ParentsOlder' /\ ChildrenRecorded' /\ TreeLinked'
  BY <1>3, <1>4, RecordKeepsTree
<1>6. DOMAIN snapshots \subseteq Ids
  BY <1>1 DEF TypeOK
<1>7. /\ sealed' \in Seq(Content) /\ Len(sealed') = Len(graph) + 1
      /\ \A s \in Ids : sealed'[s] = sealed[s]
  BY <1>1, AppendProperties DEF SnapshotVirtual
<1>8. TypeOK'
  <2>1. Len(graph) + 1 \in Ids' /\ Ids \subseteq Ids'
    BY <1>1, <1>5
  <2>2. /\ position' = Len(graph) + 1 /\ log' = << >>
        /\ UNCHANGED <<pc, target, anc, pending, visited, cum, frozen>>
        /\ UNCHANGED <<env, life, running, astray>>
    BY DEF SnapshotVirtual, NextId, restoreVars, envVars
  <2>3. frozen' \subseteq Ids' \X Command
    BY <1>1, <2>1, <2>2 DEF TypeOK
  <2>4. strays' \subseteq Ids'
    BY <1>1, <2>1 DEF SnapshotVirtual, StrayIfAstray, NextId, TypeOK
  <2> QED
    BY <1>1, <1>2, <1>4, <1>5, <1>6, <1>7, <2>1, <2>2, <2>3, <2>4 DEF TypeOK
<1>9. ResourcesMatch'
  <2> SUFFICES ASSUME NEW s \in 1 .. Len(graph) + 1
               PROVE  s \in DOMAIN snapshots <=> ~graph'[s].virtual
    BY <1>4, <1>5 DEF ResourcesMatch
  <2>1. CASE s \in 1 .. Len(graph)
    BY <1>1, <1>5, <2>1 DEF TreeInv, ResourcesMatch
  <2>2. CASE s = Len(graph) + 1
    BY <1>1, <1>3, <1>5, <1>6, <2>2 DEF NextId
  <2> QED
    BY <1>1, <2>1, <2>2
<1>10. PhysicalFaithful'
  BY <1>1, <1>4, <1>6, <1>7 DEF TreeInv, PhysicalFaithful
<1>11. WalkClimbs'
  BY DEF SnapshotVirtual, MaySnapshot, restoreVars, WalkClimbs
<1> QED
  BY <1>5, <1>8, <1>9, <1>10, <1>11 DEF TreeInv

\* An execution, a command that lands, or a snapshot that fails: what touches
\* the branch and the environment only.
ExecStep ==
    \/ \E c \in Command :
          Exec(c) \/ ExecLost(c) \/ ExecTimeout(c) \/ ExecLate(c) \/ Land(c)
    \/ SnapshotStalls

LEMMA ExecKeepsTree ==
    ASSUME TreeInv, ExecStep
    PROVE  TreeInv'
<1>1. UNCHANGED treeVars /\ UNCHANGED restoreVars /\ UNCHANGED position
  BY DEF ExecStep, Exec, ExecLost, ExecTimeout, ExecLate, Land, SnapshotStalls, branchVars
<1>2. TypeOK
  BY DEF TreeInv
<1> DEFINE Typed == /\ log' \in Content /\ env' \in Content /\ cum' \in Nat
                    /\ life' \in {"running", "paused", "gone"}
                    /\ running' \subseteq Command /\ astray' \in BOOLEAN
<1>3. Typed
  <2>1. ASSUME NEW c \in Command,
               Exec(c) \/ ExecLost(c) \/ ExecTimeout(c) \/ ExecLate(c) \/ Land(c)
        PROVE  Typed
    <3>1. Duration[c] \in Nat
      BY EnvAssumption
    <3>2. Append(log, c) \in Content /\ Append(env, c) \in Content
      BY <1>2, AppendProperties DEF TypeOK, Content
    <3>3. CASE Exec(c)
      BY <1>2, <3>1, <3>2, <3>3 DEF Exec, TypeOK
    <3>4. CASE ExecLost(c)
      BY <1>2, <3>1, <3>2, <3>4 DEF ExecLost, envVars, TypeOK
    <3>5. CASE ExecTimeout(c)
      BY <1>2, <3>1, <3>2, <3>5 DEF ExecTimeout, TypeOK
    <3>6. CASE ExecLate(c)
      BY <1>2, <3>1, <3>2, <3>6 DEF ExecLate, TypeOK
    <3>7. CASE Land(c)
      BY <1>2, <3>1, <3>2, <3>7 DEF Land, branchVars, TypeOK
    <3> QED
      BY <2>1, <3>3, <3>4, <3>5, <3>6, <3>7
  <2>2. CASE SnapshotStalls
    BY <1>2, <2>2 DEF SnapshotStalls, branchVars, TypeOK
  <2> QED
    BY <2>1, <2>2 DEF ExecStep
<1>4. TypeOK'
  BY <1>1, <1>2, <1>3, TreeUnchanged DEF TypeOK, restoreVars
<1>5. WalkClimbs'
  BY <1>1 DEF TreeInv, WalkClimbs, restoreVars
<1> QED
  BY <1>1, <1>4, <1>5, TreeUnchanged DEF TreeInv

\* During a walk, the node reached always has a parent to go to, and that
\* parent has not been visited.
LEMMA WalkHasParent ==
    ASSUME TreeInv, pc = "walk", graph[anc].virtual
    PROVE  /\ graph[anc].parent \in Ids
           /\ graph[anc].parent < anc
           /\ anc \notin visited
<1>1. /\ graph \in Seq(Node) /\ Len(graph) \in Nat /\ Ids = 1 .. Len(graph)
      /\ anc \in Ids
  BY LenProperties DEF TreeInv, TypeOK, Ids
<1>2. graph[anc].parent \in Nat
  <2>1. graph[anc] \in Node
    BY <1>1, ElementOfSeq
  <2> QED
    BY <2>1 DEF Node
<1>3. graph[anc].parent < anc /\ graph[anc].parent # 0
  BY <1>1 DEF TreeInv, ParentsOlder, NoParent
<1>4. anc \notin visited
  BY <1>1 DEF TreeInv, WalkClimbs
<1> QED
  BY <1>1, <1>2, <1>3, <1>4

\* The snapshot the manager starts with stays.
LEMMA OneIsAnId == ASSUME TreeInv PROVE 1 \in Ids
<1>1. Ids = 1 .. Len(graph) /\ Len(graph) \in Nat /\ position \in Ids
  BY LenProperties DEF TreeInv, TypeOK, Ids
<1> QED
  BY <1>1

LEMMA RestoreKeepsTree ==
    ASSUME TreeInv, (\E s \in Ids : RestoreBegin(s)) \/ RestoreStep
    PROVE  TreeInv'
<1>1. TypeOK /\ Ids = 1 .. Len(graph) /\ Len(graph) \in Nat /\ graph \in Seq(Node)
  BY LenProperties DEF TreeInv, TypeOK, Ids
<1>2. << >> \in Content
  BY EmptySeq DEF Content
<1>3. UNCHANGED treeVars
  BY DEF RestoreBegin, RestoreStep, Walk, RestoreFails, CoreRestore,
     CoreRestoreUnseen, CoreRestoreIgnored, Replay, ReplayFails, RestoreFinish
<1>4. TypeOK' /\ WalkClimbs'
  <2>1. ASSUME NEW s \in Ids, RestoreBegin(s) PROVE TypeOK' /\ WalkClimbs'
    BY <1>1, <1>2, <2>1, TreeUnchanged, <1>3
       DEF RestoreBegin, branchVars, envVars, TypeOK, WalkClimbs
  <2>2. CASE Walk
    <3>1. /\ graph[anc].parent \in Ids /\ graph[anc].parent < anc
          /\ graph[anc].replay \in Content
      <4>1. graph[anc] \in Node
        BY <1>1, ElementOfSeq DEF TypeOK
      <4>2. graph[anc].replay \in Content
        BY <4>1 DEF Node
      <4> QED
        BY <2>2, <4>2, WalkHasParent DEF Walk
    <3>2. graph[anc].replay \o pending \in Content
      BY <1>1, <3>1, ConcatProperties DEF TypeOK, Content
    <3>3. TypeOK'
      BY <1>1, <1>3, <2>2, <3>1, <3>2, TreeUnchanged
         DEF Walk, branchVars, envVars, TypeOK
    <3>4. \A v \in visited' : anc' < v
      <4>1. /\ visited' = visited \cup {anc} /\ anc' = graph[anc].parent
            /\ \A v \in visited : anc < v
            /\ visited \subseteq Ids /\ anc \in Ids
        BY <1>1, <2>2 DEF Walk, TreeInv, WalkClimbs, TypeOK
      <4> QED
        BY <1>1, <3>1, <4>1
    <3> QED
      BY <3>3, <3>4 DEF WalkClimbs
  <2>3. CASE RestoreFails
    BY <1>1, <1>2, <1>3, <2>3, OneIsAnId, TreeUnchanged
       DEF RestoreFails, RestoreEnds, EnvGone, branchVars, envVars, TypeOK, WalkClimbs
  <2>4. CASE CoreRestore \/ CoreRestoreUnseen \/ CoreRestoreIgnored
    <3>1. CASE CoreRestore
      BY <1>1, <1>3, <3>1, TreeUnchanged
         DEF CoreRestore, MayRestore, branchVars, TypeOK, WalkClimbs
    <3>2. CASE CoreRestoreUnseen
      BY <1>1, <1>2, <1>3, <3>2, TreeUnchanged
         DEF CoreRestoreUnseen, EnvGone, branchVars, TypeOK, WalkClimbs
    <3>3. CASE CoreRestoreIgnored
      BY <1>1, <1>3, <3>3, TreeUnchanged
         DEF CoreRestoreIgnored, branchVars, TypeOK, WalkClimbs
    <3> QED
      BY <2>4, <3>1, <3>2, <3>3
  <2>5. CASE Replay \/ ReplayFails
    <3>1. pending # << >> /\ pending \in Seq(Command)
      BY <1>1, <2>5 DEF Replay, ReplayFails, TypeOK, Content
    <3>2. /\ Head(pending) \in Command /\ Tail(pending) \in Content
      BY <3>1, HeadTailProperties DEF Content
    <3>3. /\ Append(env, Head(pending)) \in Content
          /\ Append(log, Head(pending)) \in Content
      BY <1>1, <3>2, AppendProperties DEF TypeOK, Content
    <3>4. Duration[Head(pending)] \in Nat
      BY <3>2, EnvAssumption
    <3>5. CASE Replay
      BY <1>1, <1>3, <3>2, <3>3, <3>4, <3>5, TreeUnchanged
         DEF Replay, TypeOK, WalkClimbs
    <3>6. CASE ReplayFails
      BY <1>1, <1>3, <3>2, <3>3, <3>4, <3>6, TreeUnchanged
         DEF ReplayFails, envVars, TypeOK, WalkClimbs
    <3> QED
      BY <2>5, <3>5, <3>6
  <2>6. CASE RestoreFinish
    BY <1>1, <1>2, <1>3, <2>6, OneIsAnId, TreeUnchanged
       DEF RestoreFinish, RestoreEnds, envVars, TypeOK, WalkClimbs
  <2> QED
    BY <2>1, <2>2, <2>3, <2>4, <2>5, <2>6 DEF RestoreStep
<1> QED
  BY <1>3, <1>4, TreeUnchanged DEF TreeInv

LEMMA TreeStep == TreeInv /\ [Next]_vars => TreeInv'
<1> SUFFICES ASSUME TreeInv, [Next]_vars PROVE TreeInv'
  OBVIOUS
<1>1. CASE Next
  BY <1>1, ExecKeepsTree, PhysicalKeepsTree, VirtualKeepsTree, RestoreKeepsTree
     DEF Next, ExecStep
<1>2. CASE UNCHANGED vars
  <2>1. UNCHANGED treeVars
    BY <1>2 DEF vars, treeVars
  <2>2. TypeOK' /\ WalkClimbs'
    BY <1>2, <2>1, TreeUnchanged DEF vars, TreeInv, TypeOK, WalkClimbs
  <2> QED
    BY <2>1, <2>2, TreeUnchanged DEF TreeInv
<1> QED
  BY <1>1, <1>2

\* The structural invariant holds throughout, whatever failures happen.
THEOREM TreeInvariant == Spec => []TreeInv
  BY InitTree, TreeStep, PTL DEF Spec

\* Type correctness, for every decider, set of faults and bound.
THEOREM TypeCorrect == Spec => []TypeOK
<1>1. TreeInv => TypeOK
  BY DEF TreeInv
<1> QED
  BY <1>1, TreeInvariant, PTL

\* The tree is linked both ways: print_snapshot_tree loses no snapshot of a
\* sequential manager.
THEOREM TreeIsLinked == Spec => []TreeLinked
<1>1. TreeInv => TreeLinked
  BY DEF TreeInv
<1> QED
  BY <1>1, TreeInvariant, PTL

\* The three error returns of the walk in restore are dead code.
THEOREM AncestryHolds == Spec => []AncestryIntact
<1>1. TreeInv => AncestryIntact
  <2> SUFFICES ASSUME TreeInv PROVE AncestryIntact
    OBVIOUS
  <2>1. ASSUME pc = "walk" PROVE ~BrokenAncestry
    <3> SUFFICES ASSUME graph[anc].virtual
                 PROVE  /\ anc \notin visited
                        /\ graph[anc].parent # NoParent
                        /\ graph[anc].parent \in Ids
      BY DEF BrokenAncestry
    <3>1. Ids = 1 .. Len(graph)
      BY LenProperties DEF TreeInv, TypeOK, Ids
    <3> QED
      BY <2>1, <3>1, WalkHasParent DEF NoParent
  <2> QED
    BY <2>1 DEF AncestryIntact, TreeInv, ResourcesMatch
<1> QED
  BY <1>1, TreeInvariant, PTL

-----------------------------------------------------------------------------
(* Fidelity.  Assumed: no command is lost, no snapshot or restore fails.   *)
(* An execution may still time out: its effect is there and is logged.     *)
Reliable == Faults \subseteq {"exec_timeout"}

\* The environment is what the position and the log say, outside the replay;
\* it runs, because nothing has stopped it, and no command is late in it.
EnvOnRecord == pc # "replay" => env = sealed[position] \o log

FaithfulInv ==
    /\ TreeInv
    /\ life = "running" /\ running = {} /\ frozen = {}
    /\ ReplayFaithful
    /\ EnvOnRecord
    /\ RestoreOnTrack

LEMMA InitFaithful == Init => FaithfulInv
<1> SUFFICES ASSUME Init PROVE FaithfulInv
  OBVIOUS
<1>1. << >> \in Seq(Command)
  BY EmptySeq
<1>2. << >> \o << >> = << >>
  BY <1>1, ConcatEmptySeq
<1>3. /\ sealed[1] = << >> /\ position = 1 /\ log = << >> /\ env = << >>
      /\ pc = "idle" /\ life = "running" /\ running = {} /\ frozen = {}
  BY DEF Init
<1>4. \A s \in Ids : graph[s].virtual = FALSE
  BY DEF Init, Ids, PhysicalNode
<1> QED
  BY <1>2, <1>3, <1>4, InitTree DEF FaithfulInv, ReplayFaithful, EnvOnRecord,
     RestoreOnTrack

\* What each kind of snapshot leaves faithful.
LEMMA SnapshotFaithful ==
    ASSUME FaithfulInv, SnapshotPhysical \/ SnapshotVirtual
    PROVE  FaithfulInv'
<1>1. /\ TreeInv /\ TypeOK /\ Ids = 1 .. Len(graph) /\ Len(graph) \in Nat
      /\ graph \in Seq(Node) /\ sealed \in Seq(Content) /\ Len(sealed) = Len(graph)
      /\ env \in Content /\ log \in Content /\ position \in Ids
      /\ pc = "idle"
  BY LenProperties DEF FaithfulInv, TreeInv, TypeOK, Ids, SnapshotPhysical,
     SnapshotVirtual, MaySnapshot
<1>2. TreeInv'
  BY <1>1, PhysicalKeepsTree, VirtualKeepsTree
<1>3. /\ sealed' = Append(sealed, env) /\ position' = Len(graph) + 1
      /\ log' = << >> /\ env' = env /\ pc' = "idle"
      /\ life' = "running" /\ running' = {} /\ frozen' = {}
  BY <1>1 DEF FaithfulInv, SnapshotPhysical, SnapshotVirtual, NextId, restoreVars, envVars
<1>4. /\ \A s \in Ids : sealed'[s] = sealed[s]
      /\ sealed'[Len(graph) + 1] = env
  BY <1>1, <1>3, AppendProperties
<1>5. EnvOnRecord'
  <2>1. env \o << >> = env
    BY <1>1, ConcatEmptySeq DEF Content
  <2> QED
    BY <1>3, <1>4, <2>1 DEF EnvOnRecord
<1>6. env = sealed[position] \o log
  BY <1>1 DEF FaithfulInv, EnvOnRecord
<1>7. PICK n \in Node :
        /\ n.parent = position /\ n.children = {}
        /\ n.virtual => n.replay = log
        /\ graph' = RecordNode(graph, n)
  <2>1. PhysicalNode(position) \in Node /\ VirtualNode(position, log) \in Node
    BY <1>1, EmptySeq DEF PhysicalNode, VirtualNode, Node, Content
  <2>2. CASE SnapshotPhysical
    BY <2>1, <2>2 DEF SnapshotPhysical, PhysicalNode
  <2>3. CASE SnapshotVirtual
    BY <2>1, <2>3 DEF SnapshotVirtual, VirtualNode
  <2> QED
    BY <2>2, <2>3
<1>8. /\ Ids' = 1 .. Len(graph) + 1 /\ graph'[Len(graph) + 1] = n
      /\ \A s \in Ids : /\ graph'[s].parent = graph[s].parent
                        /\ graph'[s].virtual = graph[s].virtual
                        /\ graph'[s].replay = graph[s].replay
  BY <1>1, <1>7, RecordKeepsTree DEF NextId
<1>9. ReplayFaithful'
  <2> SUFFICES ASSUME NEW s \in 1 .. Len(graph) + 1, graph'[s].virtual
               PROVE  /\ graph'[s].parent \in 1 .. Len(graph) + 1
                      /\ sealed'[s] = sealed'[graph'[s].parent] \o graph'[s].replay
    BY <1>8 DEF ReplayFaithful
  <2>1. CASE s \in Ids
    <3>1. /\ graph[s].parent \in Ids
          /\ sealed[s] = sealed[graph[s].parent] \o graph[s].replay
      BY <1>8, <2>1 DEF FaithfulInv, ReplayFaithful
    <3>2. graph'[s].parent = graph[s].parent /\ graph'[s].replay = graph[s].replay
      BY <1>8, <2>1
    <3>3. sealed'[s] = sealed[s] /\ sealed'[graph[s].parent] = sealed[graph[s].parent]
      BY <1>4, <2>1, <3>1
    <3>4. graph[s].parent \in 1 .. Len(graph) + 1
      BY <1>1, <3>1
    <3> QED
      BY <3>1, <3>2, <3>3, <3>4
  <2>2. CASE s = Len(graph) + 1
    <3>1. graph'[s] = n
      BY <1>8, <2>2
    <3>2. graph'[s].parent = position /\ graph'[s].replay = log
      BY <1>7, <3>1
    <3>3. sealed'[s] = env /\ sealed'[position] = sealed[position]
      BY <1>1, <1>4, <2>2
    <3>4. position \in 1 .. Len(graph) + 1
      BY <1>1
    <3> QED
      BY <1>6, <3>2, <3>3, <3>4
  <2>3. s \in Ids \/ s = Len(graph) + 1
    BY <1>1
  <2> QED
    BY <2>1, <2>2, <2>3
<1> QED
  BY <1>2, <1>3, <1>5, <1>9 DEF FaithfulInv, RestoreOnTrack

\* Executions keep the record, since they append to both or to none.
LEMMA ExecFaithful ==
    ASSUME Reliable, FaithfulInv, ExecStep
    PROVE  /\ FaithfulInv'
           /\ \E c \in Command : env' = Append(env, c)
           /\ sealed' = sealed /\ pc = "idle" /\ pc' = "idle"
<1>1. ~ SnapshotStalls
  BY DEF SnapshotStalls, Reliable
<1>2. PICK c \in Command : Exec(c) \/ ExecTimeout(c)
  BY <1>1 DEF ExecStep, ExecLost, ExecLate, Land, Reliable, FaithfulInv
<1>3. /\ env' = Append(env, c) /\ log' = Append(log, c)
      /\ pc = "idle" /\ pc' = "idle" /\ position' = position
      /\ life' = life /\ running' = running /\ frozen' = frozen
      /\ UNCHANGED treeVars
  BY <1>2 DEF Exec, ExecTimeout, MayExec, restoreVars, treeVars
<1>4. /\ TreeInv /\ TypeOK /\ TreeInv'
      /\ log \in Content /\ position \in Ids /\ sealed \in Seq(Content)
      /\ Len(sealed) = Len(graph) /\ Ids = 1 .. Len(graph)
  BY ExecKeepsTree, LenProperties DEF FaithfulInv, TreeInv, TypeOK, Ids
<1>5. sealed[position] \in Content
  BY <1>4, ElementOfSeq
<1>6. Append(sealed[position] \o log, c) = sealed[position] \o Append(log, c)
  <2> DEFINE base == sealed[position]
  <2>1. base \in Seq(Command) /\ log \in Seq(Command) /\ c \in Command
    BY <1>4, <1>5 DEF Content
  <2> HIDE DEF base
  <2>2. Append(base \o log, c) = base \o Append(log, c)
    BY <2>1, AppendToConcat
  <2> QED
    BY <2>2 DEF base
<1>7. sealed' = sealed /\ graph' = graph /\ Ids' = Ids
  BY <1>3, <1>4, TreeUnchanged
<1>8. EnvOnRecord'
  BY <1>3, <1>6, <1>7 DEF FaithfulInv, EnvOnRecord
<1>9. ReplayFaithful' /\ RestoreOnTrack'
  BY <1>3, <1>7 DEF FaithfulInv, ReplayFaithful, RestoreOnTrack
<1> QED
  BY <1>3, <1>4, <1>7, <1>8, <1>9 DEF FaithfulInv

\* The walk prepends the commands of the node it leaves.
LEMMA WalkFaithful ==
    ASSUME Reliable, FaithfulInv, (\E s \in Ids : RestoreBegin(s)) \/ Walk
    PROVE  FaithfulInv' /\ UNCHANGED <<env, sealed>> /\ pc # "replay" /\ pc' = "walk"
<1>1. /\ TreeInv /\ TypeOK /\ Ids = 1 .. Len(graph) /\ graph \in Seq(Node)
      /\ sealed \in Seq(Content) /\ Len(sealed) = Len(graph) /\ anc \in Ids
      /\ pending \in Seq(Command)
  BY LenProperties DEF FaithfulInv, TreeInv, TypeOK, Ids, Content
<1>2. /\ UNCHANGED <<env, life, running, frozen, position, log>> /\ UNCHANGED treeVars
      /\ pc # "replay" /\ pc' = "walk"
  BY DEF RestoreBegin, Walk, branchVars, envVars, treeVars
<1>3. TreeInv'
  BY <1>1, RestoreKeepsTree DEF RestoreStep
<1>4. sealed' = sealed /\ graph' = graph /\ Ids' = Ids
  BY <1>1, <1>2, TreeUnchanged
<1>5. ReplayFaithful' /\ EnvOnRecord'
  BY <1>2, <1>4 DEF FaithfulInv, ReplayFaithful, EnvOnRecord
<1>6. sealed'[target'] = sealed'[anc'] \o pending'
  <2>1. ASSUME NEW s \in Ids, RestoreBegin(s)
        PROVE  sealed'[target'] = sealed'[anc'] \o pending'
    <3>1. sealed[s] \in Seq(Command)
      BY <1>1, ElementOfSeq DEF Content
    <3>2. sealed[s] \o << >> = sealed[s]
      BY <3>1, ConcatEmptySeq
    <3> QED
      BY <1>4, <2>1, <3>2 DEF RestoreBegin
  <2>2. CASE Walk
    <3> DEFINE p == graph[anc].parent
               r == graph[anc].replay
    <3>1. /\ p \in Ids /\ graph[anc].virtual
      BY <1>1, <2>2, WalkHasParent DEF Walk
    <3>2. sealed[anc] = sealed[p] \o r
      BY <1>1, <3>1 DEF FaithfulInv, ReplayFaithful
    <3>3. sealed[target] = sealed[anc] \o pending
      BY <2>2 DEF Walk, FaithfulInv, RestoreOnTrack
    <3>4. sealed[p] \in Seq(Command)
      BY <1>1, <3>1, ElementOfSeq DEF Content
    <3>5. r \in Seq(Command)
      <4>1. graph[anc] \in Node
        BY <1>1, ElementOfSeq
      <4> QED
        BY <4>1 DEF Node, Content
    <3>6. target' = target /\ anc' = p /\ pending' = r \o pending
      BY <2>2 DEF Walk
    <3> DEFINE base == sealed[p]
    <3>0. base \in Seq(Command) /\ r \in Seq(Command) /\ pending \in Seq(Command)
      BY <1>1, <3>4, <3>5
    <3> HIDE DEF p, r, base
    <3>7. (base \o r) \o pending = base \o (r \o pending)
      BY <3>0, ConcatAssociative
    <3>8. sealed[target] = sealed[p] \o (r \o pending)
      BY <3>2, <3>3, <3>7 DEF base
    <3> QED
      BY <1>4, <3>6, <3>8
  <2> QED
    BY <2>1, <2>2
<1> QED
  BY <1>2, <1>3, <1>4, <1>5, <1>6 DEF FaithfulInv, RestoreOnTrack

\* A reliable backend refuses no restore.
LEMMA NeverRefused ==
    ASSUME Reliable, FaithfulInv PROVE ~ RestoreFails
<1> SUFFICES ASSUME pc = "walk" PROVE ~ RestoreRefused
  BY DEF RestoreFails
<1>1. /\ TreeInv /\ anc \in Ids /\ Ids = 1 .. Len(graph)
  BY LenProperties DEF FaithfulInv, TreeInv, TypeOK, Ids
<1>2. ~ BrokenAncestry
  BY <1>1, WalkHasParent DEF BrokenAncestry, NoParent
<1>3. ~graph[anc].virtual => anc \in DOMAIN snapshots
  BY <1>1 DEF TreeInv, ResourcesMatch
<1>4. "restore_fails" \notin Faults
  BY DEF Reliable
<1> QED
  BY <1>2, <1>3, <1>4 DEF RestoreRefused

\* The ancestor comes back with the content it was captured with.
LEMMA CoreRestoreFaithful ==
    ASSUME Reliable, FaithfulInv,
           CoreRestore \/ CoreRestoreUnseen \/ CoreRestoreIgnored
    PROVE  /\ FaithfulInv'
           /\ env' \o pending' = sealed[target] /\ target \in Ids
           /\ sealed' = sealed /\ pc # "replay" /\ pc' = "replay"
<1>1. /\ TreeInv /\ TypeOK /\ TreeInv' /\ target \in Ids
  BY RestoreKeepsTree DEF FaithfulInv, TreeInv, TypeOK, RestoreStep
<1>0. CoreRestore
  BY DEF CoreRestoreUnseen, CoreRestoreIgnored, Reliable
<1>2. /\ env' = snapshots[anc] /\ anc \in DOMAIN snapshots
      /\ life' = "running" /\ running' = {} /\ frozen' = {}
      /\ pc = "walk" /\ pc' = "replay"
      /\ UNCHANGED <<position, log, target, anc, pending>> /\ UNCHANGED treeVars
  BY <1>0 DEF FaithfulInv, CoreRestore, MayRestore, branchVars, treeVars
<1>3. sealed' = sealed /\ graph' = graph /\ Ids' = Ids
  BY <1>1, <1>2, TreeUnchanged
<1>4. snapshots[anc] = sealed[anc]
  BY <1>1, <1>2 DEF TreeInv, PhysicalFaithful
<1>5. sealed[target] = sealed[anc] \o pending
  BY <1>2 DEF FaithfulInv, RestoreOnTrack
<1>6. env' \o pending' = sealed[target]
  BY <1>2, <1>4, <1>5
<1>7. ReplayFaithful' /\ EnvOnRecord' /\ RestoreOnTrack'
  BY <1>2, <1>3, <1>6 DEF FaithfulInv, ReplayFaithful, EnvOnRecord, RestoreOnTrack
<1> QED
  BY <1>1, <1>2, <1>3, <1>6, <1>7 DEF FaithfulInv

\* Replaying moves a command from the pending ones to the environment.
LEMMA ReplayStepFaithful ==
    ASSUME Reliable, FaithfulInv, Replay \/ ReplayFails
    PROVE  /\ FaithfulInv'
           /\ env' \o pending' = env \o pending
           /\ sealed' = sealed /\ pc = "replay" /\ pc' = "replay"
<1>1. /\ TreeInv /\ TypeOK /\ TreeInv' /\ pending \in Seq(Command)
      /\ env \in Seq(Command)
  BY RestoreKeepsTree DEF FaithfulInv, TreeInv, TypeOK, RestoreStep, Content
<1>2. Replay
  BY DEF ReplayFails, Reliable, FaithfulInv
<1>3. /\ env' = Append(env, Head(pending)) /\ pending' = Tail(pending)
      /\ pending # << >> /\ pc = "replay" /\ pc' = "replay"
      /\ life' = life /\ running' = running /\ frozen' = frozen
      /\ target' = target /\ UNCHANGED treeVars
  BY <1>2 DEF Replay, treeVars
<1>4. sealed' = sealed /\ graph' = graph /\ Ids' = Ids
  BY <1>1, <1>3, TreeUnchanged
<1>5. env' \o pending' = env \o pending
  BY <1>1, <1>3, ReplayMovesHead
<1>6. ReplayFaithful' /\ EnvOnRecord' /\ RestoreOnTrack'
  BY <1>3, <1>4, <1>5 DEF FaithfulInv, ReplayFaithful, EnvOnRecord, RestoreOnTrack
<1> QED
  BY <1>1, <1>3, <1>4, <1>5, <1>6 DEF FaithfulInv

\* The restore ends with the branch on its target and an empty log.
LEMMA FinishFaithful ==
    ASSUME Reliable, FaithfulInv, RestoreFinish
    PROVE  /\ FaithfulInv'
           /\ env' = env \o pending
           /\ sealed' = sealed /\ pc = "replay" /\ pc' = "idle"
<1>1. /\ TreeInv /\ TypeOK /\ TreeInv' /\ env \in Seq(Command)
  BY RestoreKeepsTree DEF FaithfulInv, TreeInv, TypeOK, RestoreStep, Content
<1>2. /\ pending = << >> /\ pc = "replay" /\ pc' = "idle" /\ position' = target
      /\ log' = << >> /\ env' = env /\ UNCHANGED treeVars
      /\ life' = life /\ running' = running /\ frozen' = frozen
  BY DEF RestoreFinish, RestoreEnds, envVars, treeVars
<1>3. sealed' = sealed /\ graph' = graph /\ Ids' = Ids
  BY <1>1, <1>2, TreeUnchanged
<1>4. env \o << >> = env
  BY <1>1, ConcatEmptySeq
<1>5. sealed[target] = env \o << >>
  BY <1>2 DEF FaithfulInv, RestoreOnTrack
<1>6. ReplayFaithful' /\ EnvOnRecord' /\ RestoreOnTrack'
  BY <1>2, <1>3, <1>4, <1>5
     DEF FaithfulInv, ReplayFaithful, EnvOnRecord, RestoreOnTrack
<1> QED
  BY <1>1, <1>2, <1>3, <1>4, <1>6 DEF FaithfulInv

-----------------------------------------------------------------------------
(* The theorems on fidelity.                                               *)

LEMMA FaithfulStep == Reliable /\ FaithfulInv /\ [Next]_vars => FaithfulInv'
<1> SUFFICES ASSUME Reliable, FaithfulInv, [Next]_vars PROVE FaithfulInv'
  OBVIOUS
<1>1. CASE ExecStep
  BY <1>1, ExecFaithful
<1>2. CASE SnapshotPhysical \/ SnapshotVirtual
  BY <1>2, SnapshotFaithful
<1>3. CASE (\E s \in Ids : RestoreBegin(s)) \/ Walk
  BY <1>3, WalkFaithful
<1>4. CASE RestoreFails
  BY <1>4, NeverRefused
<1>5. CASE CoreRestore \/ CoreRestoreUnseen \/ CoreRestoreIgnored
  BY <1>5, CoreRestoreFaithful
<1>6. CASE Replay \/ ReplayFails
  BY <1>6, ReplayStepFaithful
<1>7. CASE RestoreFinish
  BY <1>7, FinishFaithful
<1>8. CASE UNCHANGED vars
  <2>1. TreeInv'
    BY TreeStep DEF FaithfulInv
  <2>2. UNCHANGED treeVars
    BY <1>8 DEF vars, treeVars
  <2>3. Ids' = Ids /\ graph' = graph /\ sealed' = sealed
    BY <2>2, TreeUnchanged DEF FaithfulInv
  <2> QED
    BY <1>8, <2>1, <2>3 DEF vars, FaithfulInv, ReplayFaithful, EnvOnRecord,
       RestoreOnTrack
<1> QED
  BY <1>1, <1>2, <1>3, <1>4, <1>5, <1>6, <1>7, <1>8 DEF Next, RestoreStep, ExecStep

THEOREM FaithfulInvariant == ASSUME Reliable PROVE Spec => []FaithfulInv
<1>1. Init => FaithfulInv
  BY InitFaithful
<1>2. FaithfulInv /\ [Next]_vars => FaithfulInv'
  BY FaithfulStep
<1> QED
  BY <1>1, <1>2, PTL DEF Spec

\* On a reliable backend the environment is, between any two calls, what the
\* branch position and the command log say: a restore that returned True has
\* brought back the snapshot it was asked for, through any chain of virtual
\* snapshots and earlier restores.
THEOREM EnvironmentOnRecord == ASSUME Reliable PROVE Spec => []EnvMatchesPosition
<1>1. FaithfulInv => EnvMatchesPosition
  BY DEF FaithfulInv, EnvOnRecord, EnvMatchesPosition
<1> QED
  BY <1>1, FaithfulInvariant, PTL

\* On a reliable backend the commands a virtual snapshot records are exactly
\* those that lead from its parent's content to its own.
THEOREM RecordedCommandsFaithful == ASSUME Reliable PROVE Spec => []ReplayFaithful
<1>1. FaithfulInv => ReplayFaithful
  BY DEF FaithfulInv
<1> QED
  BY <1>1, FaithfulInvariant, PTL

\* Each step of the manager is a step of the abstract store or none.
LEMMA StoreStep ==
    Reliable /\ FaithfulInv /\ [Next]_vars => [Store!Next]_Store!vars
<1> SUFFICES ASSUME Reliable, FaithfulInv, [Next]_vars
             PROVE  [Store!Next]_Store!vars
  OBVIOUS
<1> DEFINE content == IF pc = "replay" THEN env \o pending ELSE env
<1>0. /\ TypeOK /\ Len(sealed) = Len(graph) /\ DOMAIN sealed = 1 .. Len(graph)
      /\ Ids = 1 .. Len(graph)
  BY LenProperties DEF FaithfulInv, TreeInv, TypeOK, Ids
<1>1. CASE ExecStep
  BY <1>1, ExecFaithful DEF Store!Next, Store!Exec
<1>2. CASE SnapshotPhysical \/ SnapshotVirtual
  <2>1. sealed' = Append(sealed, env) /\ env' = env /\ pc = "idle" /\ pc' = "idle"
    BY <1>2 DEF SnapshotPhysical, SnapshotVirtual, MaySnapshot, restoreVars, envVars
  <2> QED
    BY <2>1 DEF Store!Next, Store!Snapshot
<1>3. CASE (\E s \in Ids : RestoreBegin(s)) \/ Walk
  BY <1>3, WalkFaithful DEF Store!vars
<1>4. CASE RestoreFails
  BY <1>4, NeverRefused
<1>5. CASE CoreRestore \/ CoreRestoreUnseen \/ CoreRestoreIgnored
  <2>1. /\ content' = sealed[target] /\ sealed' = sealed /\ target \in DOMAIN sealed
    BY <1>0, <1>5, CoreRestoreFaithful
  <2> QED
    BY <2>1 DEF Store!Next, Store!Restore
<1>6. CASE Replay \/ ReplayFails
  BY <1>6, ReplayStepFaithful DEF Store!vars
<1>7. CASE RestoreFinish
  BY <1>7, FinishFaithful DEF Store!vars
<1>8. CASE UNCHANGED vars
  BY <1>8 DEF vars, Store!vars
<1> QED
  BY <1>1, <1>2, <1>3, <1>4, <1>5, <1>6, <1>7, <1>8 DEF Next, RestoreStep, ExecStep

\* On a reliable backend the sequential manager, with any decider, implements
\* the abstract store: physical and virtual snapshots cannot be told apart.
THEOREM Implementation == ASSUME Reliable PROVE Spec => ImplementsStore
<1>1. Init => Store!Init
  BY DEF Init, Store!Init
<1>2. FaithfulInv /\ [Next]_vars => [Store!Next]_Store!vars
  BY StoreStep
<1> QED
  BY <1>1, <1>2, FaithfulInvariant, PTL DEF Spec, ImplementsStore, Store!Spec

-----------------------------------------------------------------------------
(* What is computed by recursion over a sequence or over the tree.         *)

\* A set of numbers that has every number of which it has all the smaller ones
\* has every number: induction, for a property that is written as a set.
LEMMA EverySmallerOne ==
    ASSUME NEW S, \A n \in Nat : (\A m \in Nat : m < n => m \in S) => n \in S
    PROVE  \A n \in Nat : n \in S
<1>1. \E R : IsWellFoundedOn(R, Nat) /\ \A x, y \in Nat : y < x => <<y, x>> \in R
  <2>1. IsWellFoundedOn(OpToRel(<, Nat), Nat)
    BY NatLessThanWellFounded
  <2>2. \A x, y \in Nat : y < x => <<y, x>> \in OpToRel(<, Nat)
    BY DEF OpToRel
  <2> QED
    BY ONLY <2>1, <2>2, Zenon
<1>2. PICK R : IsWellFoundedOn(R, Nat) /\ \A x, y \in Nat : y < x => <<y, x>> \in R
  BY <1>1
<1> DEFINE T == {n \in Nat : n \notin S}
<1> SUFFICES ASSUME T # {}
             PROVE  FALSE
  OBVIOUS
<1>3. T \subseteq Nat
  OBVIOUS
<1>4. PICK n \in T : \A m \in T : ~ (<<m, n>> \in R)
  BY <1>2, <1>3, WFMin
<1>5. ASSUME NEW m \in Nat, m < n
      PROVE  m \in S
  <2>1. <<m, n>> \in R
    BY <1>2, <1>5
  <2>2. m \notin T
    BY <1>4, <2>1
  <2> QED
    BY <2>2
<1> QED
  BY <1>5

\* A set of numbers with 0 and the successor of each of its members has every number.
LEMMA EveryNumber ==
    ASSUME NEW S, 0 \in S, \A n \in Nat : n \in S => n + 1 \in S
    PROVE  \A n \in Nat : n \in S
<1>1. ASSUME NEW n \in Nat, \A m \in Nat : m < n => m \in S
      PROVE  n \in S
  <2>1. CASE n = 0
    BY <2>1
  <2>2. CASE n # 0
    <3>1. n - 1 \in Nat /\ n - 1 < n /\ (n - 1) + 1 = n
      BY <2>2
    <3>2. n - 1 \in S
      BY <1>1, <3>1
    <3> QED
      BY <3>1, <3>2
  <2> QED
    BY <2>1, <2>2
<1> QED
  BY <1>1, EverySmallerOne

\* total counts up the time of the commands.
Totals(total, cmds, n) ==
    /\ total \in [0 .. n -> Nat]
    /\ total[0] = 0
    /\ \A i \in 1 .. n : total[i] = total[i - 1] + Duration[cmds[i]]

\* Such totals exist, for any commands.
LEMMA TotalsExist ==
    ASSUME NEW cmds \in Content
    PROVE  \E total : Totals(total, cmds, Len(cmds))
<1> DEFINE S == {n \in Nat : n <= Len(cmds) => \E total : Totals(total, cmds, n)}
<1>1. 0 \in S
  <2>1. Totals([i \in 0 .. 0 |-> 0], cmds, 0)
    BY DEF Totals
  <2> QED
    BY <2>1
<1>2. ASSUME NEW n \in Nat, n \in S
      PROVE  n + 1 \in S
  <2> SUFFICES ASSUME n + 1 <= Len(cmds)
               PROVE  \E total : Totals(total, cmds, n + 1)
    OBVIOUS
  <2>1. PICK total : Totals(total, cmds, n)
    BY <1>2, LenProperties DEF Content
  <2> DEFINE d == Duration[cmds[n + 1]]
             more == [i \in 0 .. n + 1 |-> IF i = n + 1 THEN total[n] + d ELSE total[i]]
  <2>2. d \in Nat
    BY EnvAssumption, LenProperties DEF Content
  <2>3. more \in [0 .. n + 1 -> Nat] /\ more[0] = 0
    BY <2>1, <2>2 DEF Totals
  <2>4. ASSUME NEW i \in 1 .. n + 1
        PROVE  more[i] = more[i - 1] + Duration[cmds[i]]
    <3>1. CASE i = n + 1
      BY <3>1
    <3>2. CASE i \in 1 .. n
      BY <2>1, <3>2 DEF Totals
    <3> QED
      BY <3>1, <3>2
  <2>5. Totals(more, cmds, n + 1)
    BY <2>3, <2>4 DEF Totals
  <2> QED
    BY <2>5
<1>3. Len(cmds) \in S
  BY <1>1, <1>2, EveryNumber, LenProperties DEF Content
<1> QED
  BY <1>3, LenProperties DEF Content

\* One more command does not change the totals of those before it.
LEMMA TotalsAgree ==
    ASSUME NEW n \in Nat, NEW s, NEW t, \A i \in 1 .. n : s[i] = t[i],
           NEW a, Totals(a, s, n), NEW b, Totals(b, t, n + 1)
    PROVE  a[n] = b[n]
<1> DEFINE S == {i \in Nat : i <= n => a[i] = b[i]}
<1>1. 0 \in S
  BY DEF Totals
<1>2. ASSUME NEW i \in Nat, i \in S
      PROVE  i + 1 \in S
  <2> SUFFICES ASSUME i + 1 <= n
               PROVE  a[i + 1] = b[i + 1]
    OBVIOUS
  <2>1. i + 1 \in 1 .. n /\ i + 1 \in 1 .. n + 1 /\ (i + 1) - 1 = i
    OBVIOUS
  <2>2. a[i] = b[i] /\ s[i + 1] = t[i + 1]
    BY <1>2, <2>1
  <2>3. a[i + 1] = a[i] + Duration[s[i + 1]] /\ b[i + 1] = b[i] + Duration[t[i + 1]]
    BY <2>1 DEF Totals
  <2> QED
    BY <2>2, <2>3
<1>3. n \in S
  BY <1>1, <1>2, EveryNumber
<1> QED
  BY <1>3

\* CostOf is where they end.
LEMMA CostIsTotal ==
    ASSUME NEW cmds \in Content, NEW a, Totals(a, cmds, Len(cmds))
    PROVE  CostOf(cmds) = a[Len(cmds)]
<1> DEFINE F(f) == [i \in 0 .. Len(cmds) |-> IF i = 0 THEN 0 ELSE f[i - 1] + Duration[cmds[i]]]
           total == CHOOSE f : f = F(f)
<1>1. CostOf(cmds) = total[Len(cmds)]
  BY DEF CostOf
<1>2. a = F(a)
  BY LenProperties DEF Totals, Content
<1>3. total = F(total)
  BY <1>2
<1> HIDE DEF total
<1> DEFINE S == {n \in Nat : n <= Len(cmds) => total[n] = a[n]}
<1>4. \A n \in 0 .. Len(cmds) :
        /\ total[n] = IF n = 0 THEN 0 ELSE total[n - 1] + Duration[cmds[n]]
        /\ a[n] = IF n = 0 THEN 0 ELSE a[n - 1] + Duration[cmds[n]]
  BY <1>2, <1>3
<1>5. 0 \in S
  BY <1>4
<1>6. ASSUME NEW n \in Nat, n \in S
      PROVE  n + 1 \in S
  <2> SUFFICES ASSUME n + 1 <= Len(cmds)
               PROVE  total[n + 1] = a[n + 1]
    OBVIOUS
  <2>1. n + 1 \in 0 .. Len(cmds) /\ n + 1 # 0 /\ (n + 1) - 1 = n
    BY LenProperties DEF Content
  <2>2. total[n] = a[n]
    BY <1>6, <2>1, LenProperties DEF Content
  <2> QED
    BY <1>4, <2>1, <2>2
<1>7. Len(cmds) \in S
  BY <1>5, <1>6, EveryNumber, LenProperties DEF Content
<1> QED
  BY <1>1, <1>7, LenProperties DEF Content

\* The cost of nothing, of one command more, and of any commands at all.
LEMMA CostProperties ==
    /\ CostOf(<< >>) = 0
    /\ \A cmds \in Content : CostOf(cmds) \in Nat
    /\ \A cmds \in Content, c \in Command :
         CostOf(Append(cmds, c)) = CostOf(cmds) + Duration[c]
<1>1. ASSUME NEW cmds \in Content
      PROVE  \E a : Totals(a, cmds, Len(cmds)) /\ CostOf(cmds) = a[Len(cmds)]
                   /\ a[Len(cmds)] \in Nat
  <2>1. PICK a : Totals(a, cmds, Len(cmds))
    BY TotalsExist
  <2>2. a[Len(cmds)] \in Nat
    BY <2>1, LenProperties DEF Totals, Content
  <2> QED
    BY <2>1, <2>2, CostIsTotal
<1>2. CostOf(<< >>) = 0
  <2>1. << >> \in Content /\ Len(<< >>) = 0
    BY DEF Content
  <2> QED
    BY <1>1, <2>1 DEF Totals
<1>3. ASSUME NEW cmds \in Content, NEW c \in Command
      PROVE  CostOf(Append(cmds, c)) = CostOf(cmds) + Duration[c]
  <2> DEFINE n == Len(cmds)
             more == Append(cmds, c)
  <2>1. /\ more \in Content /\ n \in Nat /\ Len(more) = n + 1 /\ more[n + 1] = c
        /\ \A i \in 1 .. n : cmds[i] = more[i]
    BY AppendProperties, LenProperties DEF Content
  <2> HIDE DEF more
  <2>2. PICK a : Totals(a, cmds, n) /\ CostOf(cmds) = a[n]
    BY <1>1
  <2>3. PICK b : Totals(b, more, n + 1) /\ CostOf(more) = b[n + 1]
    BY <1>1, <2>1
  <2>4. a[n] = b[n]
    <3> HIDE DEF n
    <3>1. n \in Nat
      BY <2>1
    <3>2. Totals(a, cmds, n) /\ Totals(b, more, n + 1)
      BY <2>2, <2>3
    <3>3. \A i \in 1 .. n : cmds[i] = more[i]
      BY <2>1
    <3> HIDE DEF Totals
    <3> QED
      BY <3>1, <3>2, <3>3, TotalsAgree
  <2>5. b[n + 1] = b[(n + 1) - 1] + Duration[more[n + 1]]
    BY <2>1, <2>3 DEF Totals
  <2> QED
    BY <2>1, <2>2, <2>3, <2>4, <2>5 DEF more
<1> QED
  BY <1>1, <1>2, <1>3

\* Values handed down a tree whose parents are older than their children: a node
\* without a parent has the value of a root.
Descends(v, n, older, root, down) ==
    \A i \in 1 .. n :
        v[i] = IF older[i] \in 1 .. i - 1 THEN down[i][v[older[i]]] ELSE root[i]

\* There are such values, in any set that the tree does not lead out of.
LEMMA ValuesDescend ==
    ASSUME NEW N \in Nat, NEW V, NEW older, NEW root \in [1 .. N -> V],
           NEW down \in [1 .. N -> [V -> V]]
    PROVE  \E v \in [1 .. N -> V] : Descends(v, N, older, root, down)
<1> DEFINE S == {n \in Nat : n <= N => \E v \in [1 .. n -> V] : Descends(v, n, older, root, down)}
<1>1. 0 \in S
  <2>1. [i \in 1 .. 0 |-> i] \in [1 .. 0 -> V]
    OBVIOUS
  <2>2. Descends([i \in 1 .. 0 |-> i], 0, older, root, down)
    BY DEF Descends
  <2> QED
    BY <2>1, <2>2
<1>2. ASSUME NEW n \in Nat, n \in S
      PROVE  n + 1 \in S
  <2> SUFFICES ASSUME n + 1 <= N
               PROVE  \E v \in [1 .. n + 1 -> V] : Descends(v, n + 1, older, root, down)
    OBVIOUS
  <2>1. PICK v \in [1 .. n -> V] : Descends(v, n, older, root, down)
    BY <1>2
  <2> DEFINE j == n + 1
             next == IF older[j] \in 1 .. n THEN down[j][v[older[j]]] ELSE root[j]
             more == [i \in 1 .. j |-> IF i = j THEN next ELSE v[i]]
  <2>2. next \in V
    OBVIOUS
  <2>3. more \in [1 .. j -> V] /\ more[j] = next /\ \A i \in 1 .. n : more[i] = v[i]
    BY <2>2
  <2>4. ASSUME NEW i \in 1 .. j
        PROVE  more[i] = IF older[i] \in 1 .. i - 1 THEN down[i][more[older[i]]] ELSE root[i]
    <3> HIDE DEF more
    <3>1. CASE i = j
      <4>1. i - 1 = n
        BY <3>1
      <4> QED
        BY <2>3, <3>1, <4>1
    <3>2. CASE i \in 1 .. n
      <4>1. more[i] = v[i]
        BY <2>3, <3>2
      <4>2. older[i] \in 1 .. i - 1 => more[older[i]] = v[older[i]]
        BY <2>3, <3>2
      <4> QED
        BY <2>1, <3>2, <4>1, <4>2 DEF Descends
    <3> QED
      BY <3>1, <3>2
  <2>5. Descends(more, j, older, root, down)
    BY <2>4 DEF Descends
  <2> QED
    BY <2>3, <2>5
<1>3. N \in S
  BY <1>1, <1>2, EveryNumber
<1> QED
  BY <1>3

-----------------------------------------------------------------------------
(* Time.                                                                   *)

\* ReplayCost in any graph, and one round of its computation.
CostStep(g, i, cost) ==
    IF g[i].virtual
    THEN CostOf(g[i].replay)
         + (IF g[i].parent \in 1 .. i - 1 THEN cost[g[i].parent] ELSE 0)
    ELSE 0

CostIn(g, s) ==
    LET cost[i \in 1 .. s] == CostStep(g, i, cost)
    IN  cost[s]

\* ReplayCost is the cost in the graph there is.
LEMMA ReplayCostIsCost == \A s \in Ids : ReplayCost(s) = CostIn(graph, s)
BY DEF ReplayCost, CostIn, CostStep

\* Whatever satisfies the rounds is the cost.
LEMMA CostIsStepped ==
    ASSUME NEW g, NEW N \in Nat, NEW v \in [1 .. N -> Nat],
           \A i \in 1 .. N : v[i] = CostStep(g, i, v),
           NEW s \in 1 .. N
    PROVE  CostIn(g, s) = v[s]
<1> DEFINE F(f) == [i \in 1 .. s |-> CostStep(g, i, f)]
           cost == CHOOSE f : f = F(f)
           w == [i \in 1 .. s |-> v[i]]
<1>1. CostIn(g, s) = cost[s]
  BY DEF CostIn
<1>2. w = F(w)
  <2>1. ASSUME NEW i \in 1 .. s
        PROVE  v[i] = F(w)[i]
    <3>1. i \in 1 .. N
      OBVIOUS
    <3>2. g[i].parent \in 1 .. i - 1 => w[g[i].parent] = v[g[i].parent]
      OBVIOUS
    <3>3. CostStep(g, i, w) = CostStep(g, i, v)
      BY <3>2 DEF CostStep
    <3> QED
      BY <3>1, <3>3
  <2> QED
    BY <2>1
<1>3. cost = F(cost)
  BY <1>2
<1> HIDE DEF cost
<1> DEFINE S == {n \in Nat : n \in 1 .. s => cost[n] = v[n]}
<1>4. ASSUME NEW n \in Nat, \A m \in Nat : m < n => m \in S
      PROVE  n \in S
  <2> SUFFICES ASSUME n \in 1 .. s
               PROVE  cost[n] = v[n]
    OBVIOUS
  <2>1. g[n].parent \in 1 .. n - 1 => cost[g[n].parent] = v[g[n].parent]
    BY <1>4
  <2>2. v[n] = CostStep(g, n, v)
    OBVIOUS
  <2>3. cost[n] = F(cost)[n]
    BY <1>3
  <2> QED
    BY <2>1, <2>2, <2>3 DEF CostStep
<1>5. s \in S
  <2> HIDE DEF S
  <2> QED
    BY <1>4, EverySmallerOne
<1> QED
  BY <1>1, <1>5

\* Every snapshot of a graph has a cost, and the costs satisfy the rounds.
LEMMA CostsExist ==
    ASSUME NEW g \in Seq(Node)
    PROVE  \E v \in [1 .. Len(g) -> Nat] :
              \A i \in 1 .. Len(g) : v[i] = CostStep(g, i, v) /\ CostIn(g, i) = v[i]
<1> DEFINE N == Len(g)
           older == [i \in 1 .. N |-> IF g[i].virtual THEN g[i].parent ELSE 0]
           root == [i \in 1 .. N |-> IF g[i].virtual THEN CostOf(g[i].replay) ELSE 0]
           down == [i \in 1 .. N |-> [x \in Nat |-> CostOf(g[i].replay) + x]]
<1>1. N \in Nat /\ \A i \in 1 .. N : g[i] \in Node /\ CostOf(g[i].replay) \in Nat
  <2>1. N \in Nat /\ \A i \in 1 .. N : g[i] \in Node
    BY LenProperties
  <2>2. \A i \in 1 .. N : g[i].replay \in Content
    BY <2>1 DEF Node
  <2> QED
    BY <2>1, <2>2, CostProperties
<1>2. root \in [1 .. N -> Nat] /\ down \in [1 .. N -> [Nat -> Nat]]
  BY <1>1
<1>3. PICK v \in [1 .. N -> Nat] : Descends(v, N, older, root, down)
  <2> HIDE DEF N, older, root, down
  <2> QED
    BY <1>1, <1>2, ValuesDescend
<1>4. ASSUME NEW i \in 1 .. N
      PROVE  v[i] = CostStep(g, i, v)
  <2>1. v[i] = IF older[i] \in 1 .. i - 1 THEN down[i][v[older[i]]] ELSE root[i]
    BY <1>3 DEF Descends
  <2>2. CASE g[i].virtual /\ g[i].parent \in 1 .. i - 1
    <3>1. v[g[i].parent] \in Nat
      BY <1>1, <2>2
    <3> QED
      BY <2>1, <2>2, <3>1 DEF CostStep
  <2>3. CASE ~g[i].virtual
    <3>1. older[i] = 0 /\ root[i] = 0
      BY <2>3
    <3>2. v[i] = 0
      <4> HIDE DEF older, root, down
      <4> QED
        BY <2>1, <3>1
    <3> QED
      BY <2>3, <3>2 DEF CostStep
  <2>4. CASE g[i].virtual /\ g[i].parent \notin 1 .. i - 1
    BY <1>1, <2>1, <2>4 DEF CostStep
  <2> QED
    BY <2>2, <2>3, <2>4
<1>5. ASSUME NEW i \in 1 .. N
      PROVE  CostIn(g, i) = v[i]
  <2> HIDE DEF N
  <2> QED
    BY <1>1, <1>4, CostIsStepped
<1> QED
  BY <1>4, <1>5

\* Graphs that agree on their first nodes agree on what these cost.
LEMMA CostKept ==
    ASSUME NEW g \in Seq(Node), NEW h \in Seq(Node), Len(g) <= Len(h),
           \A i \in 1 .. Len(g) : /\ h[i].virtual = g[i].virtual
                                  /\ h[i].parent = g[i].parent
                                  /\ h[i].replay = g[i].replay,
           NEW s \in 1 .. Len(g)
    PROVE  CostIn(h, s) = CostIn(g, s)
<1>1. PICK v \in [1 .. Len(g) -> Nat] :
            \A i \in 1 .. Len(g) : v[i] = CostStep(g, i, v) /\ CostIn(g, i) = v[i]
  BY CostsExist
<1>2. \A i \in 1 .. Len(g) : v[i] = CostStep(h, i, v)
  BY <1>1 DEF CostStep
<1> QED
  <2> DEFINE N == Len(g)
  <2>1. N \in Nat /\ s \in 1 .. N /\ v \in [1 .. N -> Nat]
    BY LenProperties
  <2>2. \A i \in 1 .. N : v[i] = CostStep(h, i, v)
    BY <1>2
  <2>3. CostIn(g, s) = v[s]
    BY <1>1
  <2> HIDE DEF N
  <2>4. CostIn(h, s) = v[s]
    BY <2>1, <2>2, CostIsStepped
  <2> QED
    BY <2>3, <2>4

\* A node that is recorded leaves the costs of the others, and its own is that of its
\* parent with its own commands.
LEMMA CostRecorded ==
    ASSUME NEW g \in Seq(Node), NEW n \in Node
    PROVE  /\ \A s \in 1 .. Len(g) : CostIn(RecordNode(g, n), s) = CostIn(g, s)
           /\ n.virtual /\ n.parent \in 1 .. Len(g) =>
                 CostIn(RecordNode(g, n), Len(g) + 1) = CostOf(n.replay) + CostIn(g, n.parent)
<1> DEFINE h == RecordNode(g, n)
           N == Len(g)
<1>1. N \in Nat /\ h \in Seq(Node) /\ Len(h) = N + 1 /\ h[N + 1] = n
  BY RecordNodeAppends, LenProperties
<1>2. \A i \in 1 .. N : /\ h[i].virtual = g[i].virtual
                        /\ h[i].parent = g[i].parent
                        /\ h[i].replay = g[i].replay
  BY RecordNodeKeeps
<1> HIDE DEF h
<1>3. \A s \in 1 .. N : CostIn(h, s) = CostIn(g, s)
  <2>1. Len(g) <= Len(h)
    BY <1>1
  <2> QED
    BY <1>1, <1>2, <2>1, CostKept
<1>4. ASSUME n.virtual, n.parent \in 1 .. N
      PROVE  CostIn(h, N + 1) = CostOf(n.replay) + CostIn(g, n.parent)
  <2>1. PICK v \in [1 .. Len(h) -> Nat] :
              \A i \in 1 .. Len(h) : v[i] = CostStep(h, i, v) /\ CostIn(h, i) = v[i]
    BY <1>1, CostsExist
  <2>2. N + 1 \in 1 .. Len(h) /\ n.parent \in 1 .. Len(h) /\ n.parent \in 1 .. (N + 1) - 1
    BY <1>1, <1>4
  <2>3. CostIn(h, N + 1) = CostStep(h, N + 1, v)
    BY <2>1, <2>2
  <2>4. v[n.parent] = CostIn(g, n.parent)
    BY <1>3, <1>4, <2>1, <2>2
  <2> QED
    BY <1>1, <1>4, <2>2, <2>3, <2>4 DEF CostStep
<1> QED
  BY <1>3, <1>4 DEF h

\* The costs are times.
LEMMA CostIsTime ==
    ASSUME NEW g \in Seq(Node), NEW s \in 1 .. Len(g)
    PROVE  CostIn(g, s) \in Nat
BY CostsExist

\* The types that the arguments below need.
LEMMA TreeTypes ==
    ASSUME TreeInv
    PROVE  /\ graph \in Seq(Node) /\ Len(graph) \in Nat /\ Ids = 1 .. Len(graph)
           /\ position \in 1 .. Len(graph) /\ target \in 1 .. Len(graph) /\ anc \in 1 .. Len(graph)
           /\ log \in Content /\ env \in Content /\ pending \in Content /\ cum \in Nat
           /\ sealed \in Seq(Content) /\ Len(sealed) = Len(graph)
<1>1. /\ graph \in Seq(Node) /\ position \in Ids /\ target \in Ids /\ anc \in Ids
      /\ log \in Content /\ env \in Content /\ pending \in Content /\ cum \in Nat
      /\ sealed \in Seq(Content) /\ Len(sealed) = Len(graph)
  BY DEF TreeInv, TypeOK
<1>2. Len(graph) \in Nat /\ Ids = 1 .. Len(graph)
  BY <1>1, LenProperties DEF Ids
<1> QED
  BY <1>1, <1>2

\* What is known of the reported time while no replay is on its way; after one it is reset.
TimeOK == pc # "replay" => cum <= CostIn(graph, position) + CostOf(log)

TimeInv == TreeInv /\ TimeOK

\* The invariant holds at the start.
LEMMA InitTime == Init => TimeInv
<1> SUFFICES ASSUME Init
             PROVE  TimeInv
  OBVIOUS
<1>1. TreeInv
  BY InitTree
<1>2. graph \in Seq(Node) /\ position \in 1 .. Len(graph) /\ log = << >> /\ cum = 0
  BY <1>1, TreeTypes DEF Init
<1>3. CostIn(graph, position) \in Nat
  BY <1>2, CostIsTime
<1> QED
  BY <1>1, <1>2, <1>3, CostProperties DEF TimeInv, TimeOK

\* A command adds its time to what would be replayed, whether it is counted or not.
LEMMA ExecTime ==
    ASSUME TimeInv, NEW c \in Command,
           Exec(c) \/ ExecLost(c) \/ ExecTimeout(c) \/ ExecLate(c)
    PROVE  TimeOK'
<1>1. /\ graph \in Seq(Node) /\ position \in 1 .. Len(graph) /\ log \in Content /\ cum \in Nat
      /\ Duration[c] \in Nat /\ pc = "idle"
  BY EnvAssumption, TreeTypes DEF TimeInv, Exec, ExecLost, ExecTimeout, ExecLate, MayExec
<1>2. cum <= CostIn(graph, position) + CostOf(log)
  BY <1>1 DEF TimeInv, TimeOK
<1>3. CostIn(graph, position) \in Nat /\ CostOf(log) \in Nat
  BY <1>1, CostIsTime, CostProperties
<1>4. CostOf(Append(log, c)) = CostOf(log) + Duration[c]
  BY <1>1, CostProperties
<1>5. /\ graph' = graph /\ position' = position /\ log' = Append(log, c)
      /\ cum' \in {cum, cum + Duration[c]}
  BY DEF Exec, ExecLost, ExecTimeout, ExecLate, treeVars, branchVars
<1>6. cum' <= CostIn(graph, position) + CostOf(Append(log, c))
  BY <1>1, <1>2, <1>3, <1>4, <1>5
<1> QED
  BY <1>5, <1>6 DEF TimeOK

\* A snapshot moves the commands of the log into its node, or resets the time.
LEMMA SnapshotTime ==
    ASSUME TimeInv, SnapshotPhysical \/ SnapshotVirtual
    PROVE  TimeOK'
<1>1. /\ graph \in Seq(Node) /\ position \in 1 .. Len(graph) /\ log \in Content /\ cum \in Nat
      /\ position \in Nat /\ pc = "idle" /\ Len(graph) \in Nat
  <2>1. /\ graph \in Seq(Node) /\ position \in 1 .. Len(graph) /\ log \in Content
        /\ cum \in Nat /\ Len(graph) \in Nat
    BY TreeTypes DEF TimeInv
  <2>2. pc = "idle"
    BY DEF SnapshotPhysical, SnapshotVirtual, MaySnapshot
  <2> QED
    BY <2>1, <2>2
<1>2. CostOf(<< >>) = 0 /\ CostOf(log) \in Nat /\ CostIn(graph, position) \in Nat
  BY <1>1, CostIsTime, CostProperties
<1>3. CASE SnapshotPhysical
  <2>1. PhysicalNode(position) \in Node
    BY <1>1 DEF PhysicalNode, Node, Content
  <2>2. /\ graph' = RecordNode(graph, PhysicalNode(position)) /\ position' = Len(graph) + 1
        /\ log' = << >> /\ cum' = 0
    BY <1>3 DEF SnapshotPhysical, NextId
  <2>3. graph' \in Seq(Node) /\ position' \in 1 .. Len(graph')
    <3>1. graph' \in Seq(Node) /\ Len(graph') = Len(graph) + 1
      BY <1>1, <2>1, <2>2, RecordNodeAppends
    <3> QED
      BY <1>1, <2>2, <3>1
  <2>4. CostIn(graph', position') \in Nat
    BY <2>3, CostIsTime
  <2> QED
    BY <1>2, <2>2, <2>4 DEF TimeOK
<1>4. CASE SnapshotVirtual
  <2> DEFINE n == VirtualNode(position, log)
  <2>1. n \in Node /\ n.virtual /\ n.parent = position /\ n.replay = log
    BY <1>1 DEF VirtualNode, Node, Content
  <2>2. /\ graph' = RecordNode(graph, n) /\ position' = Len(graph) + 1
        /\ log' = << >> /\ cum' = cum
    BY <1>4 DEF SnapshotVirtual, NextId
  <2> HIDE DEF n
  <2>3. CostIn(graph', position') = CostOf(log) + CostIn(graph, position)
    BY <1>1, <2>1, <2>2, CostRecorded
  <2>4. cum <= CostIn(graph, position) + CostOf(log)
    BY <1>1 DEF TimeInv, TimeOK
  <2> QED
    BY <1>1, <1>2, <2>2, <2>3, <2>4 DEF TimeOK
<1> QED
  BY <1>3, <1>4

\* Until it has come back a restore leaves the time, and the end of one resets it.
LEMMA RestoreTime ==
    ASSUME TimeInv,
           \/ (\E s \in Ids : RestoreBegin(s)) \/ RestoreStep \/ SnapshotStalls
           \/ \E c \in Command : Land(c)
    PROVE  TimeOK'
<1>1. CASE RestoreFinish
  <2>1. /\ graph' = graph /\ position' = target /\ log' = << >> /\ cum' = 0
        /\ graph \in Seq(Node) /\ target \in 1 .. Len(graph)
    BY <1>1, TreeTypes DEF RestoreFinish, RestoreEnds, treeVars, TimeInv
  <2>2. CostIn(graph, target) \in Nat
    BY <2>1, CostIsTime
  <2> QED
    BY <2>1, <2>2, CostProperties DEF TimeOK
<1>2. CASE \/ Replay \/ ReplayFails
           \/ CoreRestore \/ CoreRestoreUnseen \/ CoreRestoreIgnored
  <2>1. pc' = "replay"
    BY <1>2 DEF Replay, ReplayFails, CoreRestore, CoreRestoreUnseen, CoreRestoreIgnored
  <2> QED
    BY <2>1 DEF TimeOK
<1>3. CASE (\E s \in Ids : RestoreBegin(s)) \/ Walk \/ RestoreFails \/ SnapshotStalls
  <2>1. /\ pc # "replay"
        /\ graph' = graph /\ position' = position /\ log' = log /\ cum' = cum
    BY <1>3 DEF RestoreBegin, Walk, RestoreFails, SnapshotStalls, MaySnapshot, treeVars, branchVars
  <2> QED
    BY <2>1 DEF TimeInv, TimeOK
<1>4. CASE \E c \in Command : Land(c)
  <2>1. graph' = graph /\ position' = position /\ log' = log /\ cum' = cum /\ pc' = pc
    BY <1>4 DEF Land, treeVars, branchVars, restoreVars
  <2> QED
    BY <2>1 DEF TimeInv, TimeOK
<1> QED
  BY <1>1, <1>2, <1>3, <1>4 DEF RestoreStep

\* Every step keeps it.
LEMMA TimeStep == TimeInv /\ [Next]_vars => TimeInv'
<1> SUFFICES ASSUME TimeInv, [Next]_vars
             PROVE  TimeInv'
  OBVIOUS
<1>1. TreeInv'
  BY TreeStep DEF TimeInv
<1>2. TimeOK'
  <2>1. CASE UNCHANGED vars
    BY <2>1 DEF TimeInv, TimeOK, vars
  <2>2. CASE Next
    BY <2>2, ExecTime, SnapshotTime, RestoreTime DEF Next
  <2> QED
    BY <2>1, <2>2
<1> QED
  BY <1>1, <1>2 DEF TimeInv

\* The time that the decider is told is never more than a restore of the present state would
\* have to replay, whatever has failed (base_env_manager.py, _exec_branch and snapshot).
THEOREM TimeIsNotOverstated == Spec => []TimeNeverOverstated
<1>1. TimeInv => TimeNeverOverstated
  BY ReplayCostIsCost DEF TimeInv, TimeOK, TimeNeverOverstated, TreeInv, TypeOK
<1> QED
  BY <1>1, InitTime, TimeStep, PTL DEF Spec

\* A ThresholdDecider never makes the manager take a physical snapshot of what a restore
\* would replay in less than the threshold (decider.py, ThresholdDecider.decide).
THEOREM PhysicalIsDue == ASSUME Policy = "threshold" PROVE Spec => PhysicalOnlyWhenDue
<1>1. ASSUME TimeInv, [Next]_vars
      PROVE  [ Len(graph') > Len(graph) /\ ~graph'[NextId].virtual
                 => ReplayCost(position) + CostOf(log) >= Threshold ]_vars
  <2> SUFFICES ASSUME Len(graph') > Len(graph), ~graph'[NextId].virtual
               PROVE  ReplayCost(position) + CostOf(log) >= Threshold
    OBVIOUS
  <2>1. /\ graph \in Seq(Node) /\ Len(graph) \in Nat /\ position \in Ids
        /\ position \in 1 .. Len(graph) /\ position \in Nat /\ log \in Content /\ cum \in Nat
    BY <1>1, TreeTypes DEF TimeInv
  <2>2. graph' # graph
    BY <2>1
  <2>3. ~SnapshotVirtual
    <3> DEFINE n == VirtualNode(position, log)
    <3>1. n \in Node /\ n.virtual
      BY <2>1 DEF VirtualNode, Node, Content
    <3> HIDE DEF n
    <3>2. RecordNode(graph, n)[Len(graph) + 1] = n
      BY <2>1, <3>1, RecordNodeAppends
    <3> QED
      BY <3>1, <3>2 DEF SnapshotVirtual, NextId, n
  <2>4. SnapshotPhysical
    BY <1>1, <2>2, <2>3
       DEF Next, RestoreStep, Exec, ExecLost, ExecTimeout, ExecLate, Land, SnapshotStalls,
           RestoreBegin, Walk, RestoreFails, CoreRestore, CoreRestoreUnseen, CoreRestoreIgnored,
           Replay, ReplayFails, RestoreFinish, treeVars, vars
  <2>5. cum >= Threshold /\ pc = "idle"
    BY <2>4 DEF SnapshotPhysical, MaySnapshot, Decisions
  <2>6. cum <= CostIn(graph, position) + CostOf(log)
    BY <1>1, <2>5 DEF TimeInv, TimeOK
  <2>7. CostIn(graph, position) \in Nat /\ CostOf(log) \in Nat /\ Threshold \in Nat
    BY <2>1, CostIsTime, CostProperties, EnvAssumption
  <2>8. ReplayCost(position) = CostIn(graph, position)
    BY <2>1, ReplayCostIsCost
  <2> QED
    BY <2>1, <2>5, <2>6, <2>7, <2>8
<1> QED
  BY <1>1, InitTime, TimeStep, PTL DEF Spec, PhysicalOnlyWhenDue

-----------------------------------------------------------------------------
(* Effects.                                                                *)

\* The elements of s are found in t, at the places that at gives, in their order.
Found(at, s, t) ==
    /\ at \in [1 .. Len(s) -> 1 .. Len(t)]
    /\ \A i, j \in 1 .. Len(s) : i < j => at[i] < at[j]
    /\ \A i \in 1 .. Len(s) : s[i] = t[at[i]]

Within(s, t) == \E at : Found(at, s, t)

\* One element of t more, as Embeds counts what of s has been found.
MatchStep(s, t, j, matched) ==
    IF j = 0 THEN 0
    ELSE LET m == matched[j - 1]
         IN  IF m < Len(s) /\ s[m + 1] = t[j] THEN m + 1 ELSE m

\* The count that Embeds defines exists.
LEMMA MatchesExist ==
    ASSUME NEW s \in Content, NEW t \in Content
    PROVE  \E matched : matched = [j \in 0 .. Len(t) |-> MatchStep(s, t, j, matched)]
<1> DEFINE S == {n \in Nat : n <= Len(t) => \E m : m = [j \in 0 .. n |-> MatchStep(s, t, j, m)]}
<1>1. 0 \in S
  <2>1. [j \in 0 .. 0 |-> 0] = [j \in 0 .. 0 |-> MatchStep(s, t, j, [i \in 0 .. 0 |-> 0])]
    BY DEF MatchStep
  <2> QED
    BY <2>1
<1>2. ASSUME NEW n \in Nat, n \in S
      PROVE  n + 1 \in S
  <2> SUFFICES ASSUME n + 1 <= Len(t)
               PROVE  \E m : m = [j \in 0 .. n + 1 |-> MatchStep(s, t, j, m)]
    OBVIOUS
  <2>1. PICK m : m = [j \in 0 .. n |-> MatchStep(s, t, j, m)]
    BY <1>2, LenProperties DEF Content
  <2> DEFINE more == [j \in 0 .. n + 1 |->
                        IF j = n + 1 THEN MatchStep(s, t, j, m) ELSE m[j]]
  <2>2. ASSUME NEW j \in 0 .. n + 1
        PROVE  more[j] = MatchStep(s, t, j, more)
    <3>1. j # 0 => more[j - 1] = m[j - 1]
      OBVIOUS
    <3>2. MatchStep(s, t, j, more) = MatchStep(s, t, j, m)
      BY <3>1 DEF MatchStep
    <3>3. more[j] = MatchStep(s, t, j, m)
      <4>1. CASE j = n + 1
        BY <4>1
      <4>2. CASE j \in 0 .. n
        BY <2>1, <4>2
      <4> QED
        BY <4>1, <4>2
    <3> QED
      BY <3>2, <3>3
  <2>3. more = [j \in 0 .. n + 1 |-> MatchStep(s, t, j, more)]
    <3>1. more = [j \in 0 .. n + 1 |-> more[j]]
      OBVIOUS
    <3> HIDE DEF more
    <3> QED
      BY <2>2, <3>1
  <2> QED
    BY <2>3
<1>3. Len(t) \in S
  BY <1>1, <1>2, EveryNumber, LenProperties DEF Content
<1> QED
  BY <1>3, LenProperties DEF Content

\* Taking the first that fits finds whatever can be found.
LEMMA WithinEmbeds ==
    ASSUME NEW s \in Content, NEW t \in Content, Within(s, t)
    PROVE  Embeds(s, t)
<1> DEFINE F(f) == [j \in 0 .. Len(t) |-> MatchStep(s, t, j, f)]
           matched == CHOOSE f : f = F(f)
<1>1. Embeds(s, t) <=> matched[Len(t)] = Len(s)
  BY DEF Embeds, MatchStep
<1>2. matched = F(matched)
  BY MatchesExist
<1> HIDE DEF matched
<1>3. PICK at : Found(at, s, t)
  BY DEF Within
<1>4. Len(s) \in Nat /\ Len(t) \in Nat
  BY LenProperties DEF Content
<1> DEFINE Ahead(j) == /\ matched[j] \in 0 .. Len(s)
                       /\ \A i \in 1 .. Len(s) : at[i] <= j => i <= matched[j]
           S == {n \in Nat : n <= Len(t) => Ahead(n)}
<1>5. 0 \in S
  <2>1. matched[0] = 0
    BY <1>2, <1>4 DEF MatchStep
  <2> QED
    BY <1>3, <1>4, <2>1 DEF Found
<1>6. ASSUME NEW n \in Nat, n \in S
      PROVE  n + 1 \in S
  <2> SUFFICES ASSUME n + 1 <= Len(t)
               PROVE  Ahead(n + 1)
    OBVIOUS
  <2>1. Ahead(n)
    BY <1>4, <1>6
  <2> DEFINE m == matched[n]
  <2>2. matched[n + 1] = IF m < Len(s) /\ s[m + 1] = t[n + 1] THEN m + 1 ELSE m
    BY <1>2, <1>4 DEF MatchStep
  <2>3. m \in 0 .. Len(s)
    BY <2>1
  <2>4. matched[n + 1] \in 0 .. Len(s) /\ m <= matched[n + 1]
    BY <1>4, <2>2, <2>3
  <2>5. ASSUME NEW i \in 1 .. Len(s), at[i] <= n + 1
        PROVE  i <= matched[n + 1]
    <3>1. at[i] \in 1 .. Len(t) /\ s[i] = t[at[i]]
      BY <1>3 DEF Found
    <3>2. CASE at[i] <= n
      <4>1. i <= m
        BY <2>1, <3>2
      <4> QED
        BY <1>4, <2>3, <2>4, <4>1
    <3>3. CASE at[i] = n + 1
      <4>1. i - 1 <= m
        <5>1. CASE i = 1
          BY <2>3, <5>1
        <5>2. CASE i > 1
          <6>1. i - 1 \in 1 .. Len(s) /\ i - 1 < i
            BY <1>4, <5>2
          <6>2. at[i - 1] < at[i] /\ at[i - 1] \in 1 .. Len(t)
            BY <1>3, <6>1 DEF Found
          <6>3. at[i - 1] <= n
            BY <1>4, <3>3, <6>2
          <6> QED
            BY <2>1, <6>1, <6>3
        <5> QED
          BY <1>4, <5>1, <5>2
      <4>2. CASE i <= m
        BY <1>4, <2>3, <2>4, <4>2
      <4>3. CASE ~(i <= m)
        <5>1. m = i - 1 /\ m < Len(s) /\ m + 1 = i
          BY <1>4, <2>3, <4>1, <4>3
        <5>2. s[m + 1] = t[n + 1]
          BY <3>1, <3>3, <5>1
        <5> QED
          BY <2>2, <5>1, <5>2
      <4> QED
        BY <4>2, <4>3
    <3> QED
      BY <1>4, <2>5, <3>1, <3>2, <3>3
  <2> QED
    BY <2>4, <2>5
<1>7. Ahead(Len(t))
  <2>1. Len(t) \in S
    <3> HIDE DEF S
    <3> QED
      BY <1>4, <1>5, <1>6, EveryNumber
  <2> QED
    BY <1>4, <2>1
<1>8. Len(s) # 0 => at[Len(s)] <= Len(t)
  BY <1>3, <1>4 DEF Found
<1> QED
  BY <1>1, <1>4, <1>7, <1>8

\* Nothing is within anything, and everything within itself and behind anything else.
LEMMA WithinBasics ==
    /\ \A t \in Content : Within(<< >>, t)
    /\ \A s, t \in Content : Within(s, t \o s)
    /\ \A s \in Content : Within(s, s)
<1>1. ASSUME NEW t \in Content
      PROVE  Within(<< >>, t)
  <2>1. Found([i \in 1 .. 0 |-> i], << >>, t)
    BY DEF Found
  <2> QED
    BY <2>1 DEF Within
<1>2. ASSUME NEW s \in Content, NEW t \in Content
      PROVE  Within(s, t \o s)
  <2> DEFINE at == [i \in 1 .. Len(s) |-> Len(t) + i]
  <2>1. /\ Len(s) \in Nat /\ Len(t) \in Nat /\ Len(t \o s) = Len(t) + Len(s)
        /\ \A i \in 1 .. Len(s) : (t \o s)[Len(t) + i] = s[i]
    BY LenProperties, ConcatProperties DEF Content
  <2>2. at \in [1 .. Len(s) -> 1 .. Len(t \o s)]
    BY <2>1
  <2>3. Found(at, s, t \o s)
    BY <2>1, <2>2 DEF Found
  <2> QED
    BY <2>3 DEF Within
<1>3. ASSUME NEW s \in Content
      PROVE  Within(s, s)
  <2>1. << >> \in Content /\ << >> \o s = s
    BY ConcatEmptySeq DEF Content
  <2> QED
    BY <1>2, <2>1
<1> QED
  BY <1>1, <1>2, <1>3

\* A command more behind t, or behind both.
LEMMA WithinAppend ==
    ASSUME NEW s \in Content, NEW t \in Content, NEW c \in Command, Within(s, t)
    PROVE  Within(s, Append(t, c)) /\ Within(Append(s, c), Append(t, c))
<1>1. PICK at : Found(at, s, t)
  BY DEF Within
<1>2. /\ Len(s) \in Nat /\ Len(Append(s, c)) = Len(s) + 1 /\ Append(s, c)[Len(s) + 1] = c
      /\ \A i \in 1 .. Len(s) : Append(s, c)[i] = s[i]
  BY AppendProperties, LenProperties DEF Content
<1>3. /\ Len(t) \in Nat /\ Len(Append(t, c)) = Len(t) + 1 /\ Append(t, c)[Len(t) + 1] = c
      /\ \A i \in 1 .. Len(t) : Append(t, c)[i] = t[i]
  BY AppendProperties, LenProperties DEF Content
<1>4. /\ at \in [1 .. Len(s) -> 1 .. Len(t)]
      /\ \A i, j \in 1 .. Len(s) : i < j => at[i] < at[j]
      /\ \A i \in 1 .. Len(s) : s[i] = t[at[i]]
  BY <1>1 DEF Found
<1>5. Found(at, s, Append(t, c))
  <2>1. at \in [1 .. Len(s) -> 1 .. Len(Append(t, c))]
    BY <1>3, <1>4
  <2> QED
    BY <1>3, <1>4, <2>1 DEF Found
<1>6. Within(Append(s, c), Append(t, c))
  <2> DEFINE more == [i \in 1 .. Len(s) + 1 |-> IF i = Len(s) + 1 THEN Len(t) + 1 ELSE at[i]]
  <2>1. /\ more[Len(s) + 1] = Len(t) + 1
        /\ \A i \in 1 .. Len(s) : more[i] = at[i] /\ more[i] \in 1 .. Len(t)
    BY <1>2, <1>4
  <2>2. more \in [1 .. Len(s) + 1 -> 1 .. Len(t) + 1]
    BY <1>2, <1>3, <1>4
  <2> HIDE DEF more
  <2>3. ASSUME NEW i \in 1 .. Len(s) + 1, NEW j \in 1 .. Len(s) + 1, i < j
        PROVE  more[i] < more[j]
    <3>1. i \in 1 .. Len(s)
      BY <1>2, <2>3
    <3>2. CASE j = Len(s) + 1
      BY <1>3, <2>1, <3>1, <3>2
    <3>3. CASE j \in 1 .. Len(s)
      BY <1>4, <2>1, <2>3, <3>1, <3>3
    <3> QED
      BY <1>2, <3>2, <3>3
  <2>4. ASSUME NEW i \in 1 .. Len(s) + 1
        PROVE  Append(s, c)[i] = Append(t, c)[more[i]]
    <3>1. CASE i = Len(s) + 1
      BY <1>2, <1>3, <2>1, <3>1
    <3>2. CASE i \in 1 .. Len(s)
      <4>1. Append(s, c)[i] = s[i] /\ s[i] = t[at[i]]
        BY <1>2, <1>4, <3>2
      <4>2. more[i] = at[i] /\ at[i] \in 1 .. Len(t)
        BY <2>1, <3>2
      <4>3. Append(t, c)[at[i]] = t[at[i]]
        BY <1>3, <4>2
      <4> QED
        BY <4>1, <4>2, <4>3, Zenon
    <3>3. i = Len(s) + 1 \/ i \in 1 .. Len(s)
      BY <1>2
    <3> QED
      BY <3>1, <3>2, <3>3, Zenon
  <2>5. Found(more, Append(s, c), Append(t, c))
    BY <1>2, <1>3, <2>2, <2>3, <2>4 DEF Found
  <2> QED
    BY <2>5 DEF Within
<1> QED
  BY <1>5, <1>6 DEF Within

\* What is left when one command is skipped is within what it was within before.
LEMMA WithinSkips ==
    ASSUME NEW e \in Content, NEW p \in Content, p # << >>, NEW t \in Content, Within(e \o p, t)
    PROVE  Within(e \o Tail(p), t)
<1> DEFINE s == e \o p
           r == e \o Tail(p)
           n == Len(e)
           N == Len(s)
<1>1. PICK at : Found(at, s, t)
  BY DEF Within
<1>2. /\ n \in Nat /\ Len(p) \in Nat /\ Len(p) > 0 /\ N = n + Len(p)
      /\ \A i \in 1 .. n : s[i] = e[i]
      /\ \A i \in 1 .. Len(p) : s[n + i] = p[i]
  <2>1. p \in Seq(Command) /\ e \in Seq(Command)
    BY DEF Content
  <2> QED
    BY <2>1, LenProperties, ConcatProperties, EmptySeq
<1>3. /\ Tail(p) \in Content /\ Len(Tail(p)) = Len(p) - 1
      /\ \A i \in 1 .. Len(p) - 1 : Tail(p)[i] = p[i + 1]
  BY HeadTailProperties DEF Content
<1>4. /\ Len(r) = N - 1
      /\ \A i \in 1 .. n : r[i] = e[i]
      /\ \A i \in 1 .. Len(p) - 1 : r[n + i] = Tail(p)[i]
  <2>1. Tail(p) \in Seq(Command) /\ e \in Seq(Command)
    BY <1>3 DEF Content
  <2> QED
    BY <1>2, <1>3, <2>1, ConcatProperties
<1> DEFINE old == [i \in 1 .. N - 1 |-> IF i <= n THEN i ELSE i + 1]
<1>5. ASSUME NEW i \in 1 .. N - 1
      PROVE  old[i] \in 1 .. N /\ r[i] = s[old[i]]
  <2>1. CASE i <= n
    BY <1>2, <1>4, <2>1
  <2>2. CASE i > n
    <3>1. i - n \in 1 .. Len(p) - 1 /\ n + (i - n) = i /\ n + ((i - n) + 1) = i + 1
      BY <1>2, <2>2
    <3>2. r[i] = p[(i - n) + 1] /\ (i - n) + 1 \in 1 .. Len(p)
      <4>1. r[n + (i - n)] = Tail(p)[i - n]
        BY <1>4, <3>1
      <4>2. Tail(p)[i - n] = p[(i - n) + 1]
        BY <1>3, <3>1
      <4> QED
        BY <1>2, <3>1, <4>1, <4>2
    <3>3. s[n + ((i - n) + 1)] = p[(i - n) + 1]
      BY <1>2, <3>2
    <3>4. s[i + 1] = p[(i - n) + 1]
      BY <3>1, <3>3
    <3>5. old[i] = i + 1
      BY <1>2, <2>2
    <3> QED
      BY <1>2, <3>2, <3>4, <3>5
  <2> QED
    BY <1>2, <2>1, <2>2
<1>6. \A i, j \in 1 .. N - 1 : i < j => old[i] < old[j]
  BY <1>2
<1> HIDE DEF old, s, r, n, N
<1> DEFINE new == [i \in 1 .. N - 1 |-> at[old[i]]]
<1>7. /\ at \in [1 .. N -> 1 .. Len(t)]
      /\ \A i, j \in 1 .. N : i < j => at[i] < at[j]
      /\ \A i \in 1 .. N : s[i] = t[at[i]]
  BY <1>1 DEF Found, N
<1>8. new \in [1 .. N - 1 -> 1 .. Len(t)]
  BY <1>5, <1>7
<1>9. Found(new, r, t)
  <2>1. \A i, j \in 1 .. N - 1 : i < j => new[i] < new[j]
    BY <1>5, <1>6, <1>7
  <2>2. \A i \in 1 .. N - 1 : r[i] = t[new[i]]
    BY <1>5, <1>7
  <2> QED
    BY <1>4, <1>8, <2>1, <2>2 DEF Found
<1> QED
  BY <1>9 DEF Within, r

\* Image in any graph, and one round of its computation.
ImageStep(g, snaps, i, image) ==
    IF g[i].virtual /\ g[i].parent \in 1 .. i - 1
    THEN image[g[i].parent] \o g[i].replay
    ELSE IF i \in DOMAIN snaps THEN snaps[i] ELSE << >>

ImageIn(g, snaps, s) ==
    LET image[i \in 1 .. s] == ImageStep(g, snaps, i, image)
    IN  image[s]

\* Image is the image in the graph and with the resources there are.
LEMMA ImageIsImage == \A s \in Ids : Image(s) = ImageIn(graph, snapshots, s)
BY DEF Image, ImageIn, ImageStep

\* Whatever satisfies the rounds is the image.
LEMMA ImageIsStepped ==
    ASSUME NEW g, NEW snaps, NEW N \in Nat, NEW v \in [1 .. N -> Content],
           \A i \in 1 .. N : v[i] = ImageStep(g, snaps, i, v),
           NEW s \in 1 .. N
    PROVE  ImageIn(g, snaps, s) = v[s]
<1> DEFINE F(f) == [i \in 1 .. s |-> ImageStep(g, snaps, i, f)]
           image == CHOOSE f : f = F(f)
           w == [i \in 1 .. s |-> v[i]]
<1>1. ImageIn(g, snaps, s) = image[s]
  BY DEF ImageIn
<1>2. w = F(w)
  <2>1. ASSUME NEW i \in 1 .. s
        PROVE  v[i] = F(w)[i]
    <3>1. i \in 1 .. N
      OBVIOUS
    <3>2. g[i].parent \in 1 .. i - 1 => w[g[i].parent] = v[g[i].parent]
      OBVIOUS
    <3>3. ImageStep(g, snaps, i, w) = ImageStep(g, snaps, i, v)
      BY <3>2 DEF ImageStep
    <3> QED
      BY <3>1, <3>3
  <2> QED
    BY <2>1
<1>3. image = F(image)
  BY <1>2
<1> HIDE DEF image
<1> DEFINE S == {n \in Nat : n \in 1 .. s => image[n] = v[n]}
<1>4. ASSUME NEW n \in Nat, \A m \in Nat : m < n => m \in S
      PROVE  n \in S
  <2> SUFFICES ASSUME n \in 1 .. s
               PROVE  image[n] = v[n]
    OBVIOUS
  <2>1. g[n].parent \in 1 .. n - 1 => image[g[n].parent] = v[g[n].parent]
    BY <1>4
  <2>2. v[n] = ImageStep(g, snaps, n, v)
    OBVIOUS
  <2>3. image[n] = F(image)[n]
    BY <1>3
  <2> QED
    BY <2>1, <2>2, <2>3 DEF ImageStep
<1>5. s \in S
  <2> HIDE DEF S
  <2> QED
    BY <1>4, EverySmallerOne
<1> QED
  BY <1>1, <1>5

\* Every snapshot of a graph has an image, and the images satisfy the rounds.
LEMMA ImagesExist ==
    ASSUME NEW g \in Seq(Node), NEW snaps, \A i \in DOMAIN snaps : snaps[i] \in Content
    PROVE  \E v \in [1 .. Len(g) -> Content] :
              \A i \in 1 .. Len(g) :
                 v[i] = ImageStep(g, snaps, i, v) /\ ImageIn(g, snaps, i) = v[i]
<1> DEFINE N == Len(g)
           older == [i \in 1 .. N |-> IF g[i].virtual THEN g[i].parent ELSE 0]
           root == [i \in 1 .. N |-> IF i \in DOMAIN snaps THEN snaps[i] ELSE << >>]
           down == [i \in 1 .. N |-> [x \in Content |-> x \o g[i].replay]]
<1>1. N \in Nat /\ \A i \in 1 .. N : g[i].replay \in Content
  <2>1. N \in Nat /\ \A i \in 1 .. N : g[i] \in Node
    BY LenProperties
  <2> QED
    BY <2>1 DEF Node
<1>2. root \in [1 .. N -> Content] /\ down \in [1 .. N -> [Content -> Content]]
  <2>1. << >> \in Content
    BY DEF Content
  <2>2. \A x, y \in Content : x \o y \in Content
    BY ConcatProperties DEF Content
  <2> QED
    BY <1>1, <2>1, <2>2
<1>3. PICK v \in [1 .. N -> Content] : Descends(v, N, older, root, down)
  <2> HIDE DEF N, older, root, down
  <2> QED
    BY <1>1, <1>2, ValuesDescend
<1>4. ASSUME NEW i \in 1 .. N
      PROVE  v[i] = ImageStep(g, snaps, i, v)
  <2>1. v[i] = IF older[i] \in 1 .. i - 1 THEN down[i][v[older[i]]] ELSE root[i]
    BY <1>3 DEF Descends
  <2>2. CASE g[i].virtual /\ g[i].parent \in 1 .. i - 1
    <3>1. v[g[i].parent] \in Content /\ older[i] = g[i].parent
      BY <1>1, <2>2
    <3>2. v[i] = down[i][v[g[i].parent]]
      <4> HIDE DEF older, root, down
      <4> QED
        BY <2>1, <2>2, <3>1
    <3>3. down[i][v[g[i].parent]] = v[g[i].parent] \o g[i].replay
      BY <3>1
    <3> QED
      BY <2>2, <3>2, <3>3 DEF ImageStep
  <2>3. CASE ~(g[i].virtual /\ g[i].parent \in 1 .. i - 1)
    <3>1. older[i] \notin 1 .. i - 1 /\ root[i] = IF i \in DOMAIN snaps THEN snaps[i] ELSE << >>
      BY <2>3
    <3>2. v[i] = root[i]
      <4> HIDE DEF older, root, down
      <4> QED
        BY <2>1, <3>1
    <3> QED
      BY <2>3, <3>1, <3>2 DEF ImageStep
  <2> QED
    BY <2>2, <2>3
<1>5. ASSUME NEW i \in 1 .. N
      PROVE  ImageIn(g, snaps, i) = v[i]
  <2> HIDE DEF N
  <2> QED
    BY <1>1, <1>4, ImageIsStepped
<1> QED
  BY <1>4, <1>5

\* An image is a content, made of the parent's image or of the resource.
LEMMA ImageUnfolds ==
    ASSUME NEW g \in Seq(Node), NEW snaps, \A i \in DOMAIN snaps : snaps[i] \in Content,
           NEW s \in 1 .. Len(g)
    PROVE  /\ ImageIn(g, snaps, s) \in Content
           /\ g[s].virtual /\ g[s].parent \in 1 .. s - 1 =>
                 ImageIn(g, snaps, s) = ImageIn(g, snaps, g[s].parent) \o g[s].replay
           /\ ~g[s].virtual /\ s \in DOMAIN snaps => ImageIn(g, snaps, s) = snaps[s]
<1>1. PICK v \in [1 .. Len(g) -> Content] :
            \A i \in 1 .. Len(g) :
               v[i] = ImageStep(g, snaps, i, v) /\ ImageIn(g, snaps, i) = v[i]
  BY ImagesExist
<1>2. Len(g) \in Nat
  BY LenProperties
<1>3. ImageIn(g, snaps, s) \in Content /\ ImageIn(g, snaps, s) = ImageStep(g, snaps, s, v)
  BY <1>1
<1>4. ASSUME g[s].parent \in 1 .. s - 1
      PROVE  v[g[s].parent] = ImageIn(g, snaps, g[s].parent)
  <2>1. g[s].parent \in 1 .. Len(g)
    BY <1>2, <1>4
  <2> QED
    BY <1>1, <2>1
<1> QED
  BY <1>3, <1>4 DEF ImageStep

\* Graphs and resources that agree on their first nodes agree on the images of these.
LEMMA ImageKept ==
    ASSUME NEW g \in Seq(Node), NEW h \in Seq(Node), NEW snaps, NEW more,
           Len(g) <= Len(h), \A i \in DOMAIN snaps : snaps[i] \in Content,
           \A i \in 1 .. Len(g) : /\ h[i].virtual = g[i].virtual
                                  /\ h[i].parent = g[i].parent
                                  /\ h[i].replay = g[i].replay
                                  /\ i \in DOMAIN more <=> i \in DOMAIN snaps
                                  /\ i \in DOMAIN snaps => more[i] = snaps[i],
           NEW s \in 1 .. Len(g)
    PROVE  ImageIn(h, more, s) = ImageIn(g, snaps, s)
<1> DEFINE N == Len(g)
<1>1. PICK v \in [1 .. N -> Content] :
            \A i \in 1 .. N : v[i] = ImageStep(g, snaps, i, v) /\ ImageIn(g, snaps, i) = v[i]
  <2>1. \A i \in DOMAIN snaps : snaps[i] \in Content
    OBVIOUS
  <2> QED
    BY ONLY <2>1, g \in Seq(Node), ImagesExist
<1>2. \A i \in 1 .. N : v[i] = ImageStep(h, more, i, v)
  BY <1>1 DEF ImageStep
<1>3. N \in Nat /\ s \in 1 .. N
  BY LenProperties
<1>4. ImageIn(g, snaps, s) = v[s]
  BY <1>1
<1> HIDE DEF N
<1>5. ImageIn(h, more, s) = v[s]
  BY <1>2, <1>3, ImageIsStepped
<1> QED
  BY <1>4, <1>5

\* A node that is recorded leaves the images of the others.
LEMMA ImageRecorded ==
    ASSUME NEW g \in Seq(Node), NEW n \in Node, NEW snaps, NEW more,
           \A i \in DOMAIN snaps : snaps[i] \in Content,
           \A i \in 1 .. Len(g) : /\ i \in DOMAIN more <=> i \in DOMAIN snaps
                                  /\ i \in DOMAIN snaps => more[i] = snaps[i],
           NEW s \in 1 .. Len(g)
    PROVE  ImageIn(RecordNode(g, n), more, s) = ImageIn(g, snaps, s)
<1> DEFINE h == RecordNode(g, n)
<1>1. h \in Seq(Node) /\ Len(g) <= Len(h)
  BY RecordNodeAppends, LenProperties
<1>2. \A i \in 1 .. Len(g) : /\ h[i].virtual = g[i].virtual
                             /\ h[i].parent = g[i].parent
                             /\ h[i].replay = g[i].replay
                             /\ i \in DOMAIN more <=> i \in DOMAIN snaps
                             /\ i \in DOMAIN snaps => more[i] = snaps[i]
  BY RecordNodeKeeps
<1>3. \A i \in DOMAIN snaps : snaps[i] \in Content
  OBVIOUS
<1> HIDE DEF h
<1>4. ImageIn(h, more, s) = ImageIn(g, snaps, s)
  BY ONLY <1>1, <1>2, <1>3, g \in Seq(Node), s \in 1 .. Len(g), ImageKept
<1> QED
  BY <1>4 DEF h

\* What each snapshot, the environment and a running restore have lost nothing of,
\* but for what comes of an environment that has gone astray.
SavedOK ==
    \A s \in 1 .. Len(graph) :
        s \notin strays => Within(sealed[s], ImageIn(graph, snapshots, s))

EnvOK ==
    pc # "replay" /\ ~astray => Within(env, ImageIn(graph, snapshots, position) \o log)

RestoreOK ==
    /\ pc = "walk" =>
          ImageIn(graph, snapshots, target) = ImageIn(graph, snapshots, anc) \o pending
    /\ pc = "replay" /\ ~astray =>
          Within(env \o pending, ImageIn(graph, snapshots, target))

EffectInv ==
    /\ TreeInv
    /\ SavedOK
    /\ EnvOK
    /\ RestoreOK

\* Resources belong to snapshots and hold contents.
LEMMA ResourceTypes ==
    ASSUME TreeInv
    PROVE  \A i \in DOMAIN snapshots : i \in 1 .. Len(graph) /\ snapshots[i] \in Content
BY TreeTypes DEF TreeInv, TypeOK

\* The images that there are are contents.
LEMMA ImageTypes ==
    ASSUME TreeInv
    PROVE  \A s \in 1 .. Len(graph) : ImageIn(graph, snapshots, s) \in Content
<1> SUFFICES ASSUME NEW s \in 1 .. Len(graph)
             PROVE  ImageIn(graph, snapshots, s) \in Content
  OBVIOUS
<1>1. graph \in Seq(Node) /\ \A i \in DOMAIN snapshots : snapshots[i] \in Content
  BY TreeTypes, ResourceTypes
<1> QED
  BY ONLY <1>1, s \in 1 .. Len(graph), ImageUnfolds

\* Contents under concatenation.
LEMMA ContentProperties ==
    /\ << >> \in Content
    /\ \A s \in Content : s \o << >> = s
    /\ \A s, t \in Content : s \o t \in Content
    /\ \A s, t, u \in Content : (s \o t) \o u = s \o (t \o u)
    /\ \A s, t \in Content, c \in Command :
         /\ Append(s, c) \in Content
         /\ Append(s \o t, c) = s \o Append(t, c)
<1>1. << >> \in Seq(Command) /\ \A s \in Seq(Command) : s \o << >> = s
  BY ConcatEmptySeq
<1>2. \A s, t \in Seq(Command) : s \o t \in Seq(Command)
  BY ConcatProperties
<1>3. \A s, t, u \in Seq(Command) : (s \o t) \o u = s \o (t \o u)
  BY ConcatAssociative
<1>4. \A s, t \in Seq(Command), c \in Command :
         Append(s, c) \in Seq(Command) /\ Append(s \o t, c) = s \o Append(t, c)
  BY AppendToConcat, AppendProperties
<1> QED
  BY <1>1, <1>2, <1>3, <1>4 DEF Content

\* The invariant holds at the start.
LEMMA InitEffects == Init => EffectInv
<1> SUFFICES ASSUME Init
             PROVE  EffectInv
  OBVIOUS
<1>1. TreeInv
  BY InitTree
<1>2. /\ Len(graph) = 1 /\ position = 1 /\ pc = "idle" /\ env = << >> /\ log = << >>
      /\ sealed[1] = << >> /\ astray = FALSE /\ strays = {}
  BY DEF Init
<1>3. ImageIn(graph, snapshots, 1) \in Content
  BY <1>1, <1>2, ImageTypes
<1>4. SavedOK
  BY <1>2, <1>3, WithinBasics DEF SavedOK
<1>5. EnvOK
  BY <1>2, <1>3, WithinBasics, ContentProperties DEF EnvOK
<1> QED
  BY <1>1, <1>2, <1>4, <1>5 DEF EffectInv, RestoreOK

\* A command that had an effect is in the log, at its place; others may be there besides.
LEMMA ExecEffects ==
    ASSUME EffectInv, NEW c \in Command,
           Exec(c) \/ ExecLost(c) \/ ExecTimeout(c) \/ ExecLate(c)
    PROVE  SavedOK' /\ EnvOK' /\ RestoreOK'
<1>1. TreeInv
  BY DEF EffectInv
<1>2. /\ pc = "idle" /\ log' = Append(log, c) /\ env' \in {env, Append(env, c)}
      /\ graph' = graph /\ snapshots' = snapshots /\ sealed' = sealed /\ position' = position
      /\ pc' = pc /\ strays' = strays /\ astray' = astray
  BY DEF Exec, ExecLost, ExecTimeout, ExecLate, MayExec, treeVars, restoreVars, branchVars, envVars
<1>3. /\ log \in Content /\ env \in Content /\ ImageIn(graph, snapshots, position) \in Content
  BY <1>1, TreeTypes, ImageTypes
<1> DEFINE image == ImageIn(graph, snapshots, position)
<1>0. CASE astray
  BY <1>0, <1>2 DEF EffectInv, SavedOK, EnvOK, RestoreOK
<1> SUFFICES ASSUME ~astray PROVE SavedOK' /\ EnvOK' /\ RestoreOK'
  BY <1>0
<1>4. Within(env, image \o log)
  BY <1>2 DEF EffectInv, EnvOK
<1>5. image \o log \in Content /\ Append(image \o log, c) = image \o Append(log, c)
  BY <1>3, ContentProperties
<1> HIDE DEF image
<1>6. Within(env, Append(image \o log, c)) /\ Within(Append(env, c), Append(image \o log, c))
  BY <1>3, <1>4, <1>5, WithinAppend
<1>7. Within(env', image \o Append(log, c))
  BY <1>2, <1>5, <1>6, Zenon
<1> QED
  BY <1>2, <1>7 DEF EffectInv, SavedOK, EnvOK, RestoreOK, image

\* A command that lands leads the environment astray.
LEMMA LandEffects ==
    ASSUME EffectInv, NEW c \in Command, Land(c)
    PROVE  SavedOK' /\ EnvOK' /\ RestoreOK'
<1>1. /\ astray' = TRUE /\ UNCHANGED <<graph, snapshots, sealed, strays>>
      /\ UNCHANGED <<pc, target, anc, pending>>
  BY DEF Land, treeVars, restoreVars
<1> QED
  BY <1>1 DEF EffectInv, SavedOK, EnvOK, RestoreOK

\* A physical snapshot keeps the environment, a virtual one what leads to it from its parent.
LEMMA SnapshotEffects ==
    ASSUME EffectInv, TreeInv', SnapshotPhysical \/ SnapshotVirtual
    PROVE  SavedOK' /\ EnvOK' /\ RestoreOK'
<1> DEFINE N == Len(graph)
           physical == PhysicalNode(position)
           virtual == VirtualNode(position, log)
           n == IF SnapshotPhysical THEN physical ELSE virtual
<1>1. TreeInv /\ SavedOK /\ EnvOK
  BY DEF EffectInv
<1>2. /\ graph \in Seq(Node) /\ N \in Nat /\ position \in 1 .. N /\ position \in Nat
      /\ env \in Content /\ log \in Content /\ sealed \in Seq(Content) /\ Len(sealed) = N
      /\ \A i \in DOMAIN snapshots : i \in 1 .. N /\ snapshots[i] \in Content
  BY <1>1, TreeTypes, ResourceTypes
<1>3. /\ pc = "idle" /\ pc' = pc /\ position' = N + 1 /\ log' = << >> /\ env' = env
      /\ sealed' = Append(sealed, env)
  BY DEF SnapshotPhysical, SnapshotVirtual, MaySnapshot, NextId, restoreVars, envVars
<1>4. /\ PhysicalNode(position) \in Node /\ ~PhysicalNode(position).virtual
      /\ VirtualNode(position, log) \in Node /\ VirtualNode(position, log).virtual
      /\ VirtualNode(position, log).parent = position /\ VirtualNode(position, log).replay = log
  BY <1>2 DEF PhysicalNode, VirtualNode, Node, Content
<1>5. /\ graph' \in Seq(Node) /\ Len(graph') = N + 1
      /\ \A i \in DOMAIN snapshots' : snapshots'[i] \in Content
  <2>1. graph' = RecordNode(graph, physical) \/ graph' = RecordNode(graph, virtual)
    BY DEF SnapshotPhysical, SnapshotVirtual
  <2>2. Len(graph') = N + 1
    BY <1>2, <1>4, <2>1, RecordNodeAppends
  <2>3. graph' \in Seq(Node) /\ \A i \in DOMAIN snapshots' : snapshots'[i] \in Content
    BY DEF TreeInv, TypeOK
  <2> QED
    BY <2>2, <2>3
<1>6. /\ \A i \in 1 .. N : ImageIn(graph', snapshots', i) = ImageIn(graph, snapshots, i)
      /\ ~astray' => Within(env, ImageIn(graph', snapshots', N + 1))
      /\ N + 1 \notin strays' => Within(env, ImageIn(graph', snapshots', N + 1))
      /\ strays \subseteq strays'
  <2>1. CASE SnapshotPhysical
    <3>1. /\ graph' = RecordNode(graph, physical)
          /\ snapshots' = Registered(N + 1, env)
      BY <2>1 DEF SnapshotPhysical, NextId
    <3>2. \A i \in 1 .. N : /\ i \in DOMAIN snapshots' <=> i \in DOMAIN snapshots
                            /\ i \in DOMAIN snapshots => snapshots'[i] = snapshots[i]
      BY <1>2, <3>1 DEF Registered
    <3>3. snapshots'[N + 1] = env /\ N + 1 \in DOMAIN snapshots'
      BY <3>1 DEF Registered
    <3>4. \A i \in 1 .. N : ImageIn(graph', snapshots', i) = ImageIn(graph, snapshots, i)
      BY <1>2, <1>4, <3>1, <3>2, ImageRecorded
    <3>5. ~graph'[N + 1].virtual
      BY <1>2, <1>4, <3>1, RecordNodeAppends
    <3>6. ImageIn(graph', snapshots', N + 1) = env
      <4>1. N + 1 \in 1 .. Len(graph')
        BY <1>2, <1>5
      <4> QED
        BY ONLY <1>5, <3>3, <3>5, <4>1, ImageUnfolds
    <3>7. Within(env, ImageIn(graph', snapshots', N + 1))
      BY <1>2, <3>6, WithinBasics
    <3>8. strays' = strays
      BY <2>1 DEF SnapshotPhysical
    <3> QED
      BY <3>4, <3>7, <3>8
  <2>2. CASE SnapshotVirtual
    <3>1. graph' = RecordNode(graph, virtual) /\ snapshots' = snapshots
      BY <2>2 DEF SnapshotVirtual
    <3>2. \A i \in 1 .. N : ImageIn(graph', snapshots', i) = ImageIn(graph, snapshots, i)
      BY <1>2, <1>4, <3>1, ImageRecorded
    <3>3. graph'[N + 1] = virtual
      BY <1>2, <1>4, <3>1, RecordNodeAppends
    <3>4. /\ graph'[N + 1].virtual /\ graph'[N + 1].parent = position
          /\ graph'[N + 1].replay = log /\ position \in 1 .. (N + 1) - 1
      BY <1>2, <1>4, <3>3
    <3>5. ImageIn(graph', snapshots', N + 1) = ImageIn(graph', snapshots', position) \o log
      <4>1. N + 1 \in 1 .. Len(graph')
        BY <1>2, <1>5
      <4>2. graph'[N + 1].parent \in 1 .. (N + 1) - 1
        BY <3>4
      <4> QED
        BY ONLY <1>5, <3>4, <4>1, <4>2, ImageUnfolds
    <3>6. ImageIn(graph', snapshots', N + 1) = ImageIn(graph, snapshots, position) \o log
      BY <1>2, <3>2, <3>5
    <3>7. ~astray => Within(env, ImageIn(graph, snapshots, position) \o log)
      BY <1>1, <1>3 DEF EnvOK
    <3>8. astray' = astray /\ strays' = IF astray THEN strays \cup {N + 1} ELSE strays
      BY <2>2 DEF SnapshotVirtual, StrayIfAstray, NextId, envVars
    <3> QED
      BY <3>2, <3>6, <3>7, <3>8
  <2> QED
    BY <2>1, <2>2
<1>7. SavedOK'
  <2>1. sealed'[N + 1] = env /\ \A i \in 1 .. N : sealed'[i] = sealed[i]
    BY <1>2, <1>3, AppendProperties
  <2>2. ASSUME NEW i \in 1 .. N + 1
        PROVE  i \notin strays' => Within(sealed'[i], ImageIn(graph', snapshots', i))
    <3>1. CASE i = N + 1
      BY <1>6, <2>1, <3>1
    <3>2. CASE i \in 1 .. N
      BY <1>1, <1>6, <2>1, <3>2 DEF SavedOK
    <3> QED
      BY <1>2, <3>1, <3>2
  <2> QED
    BY <1>5, <2>2 DEF SavedOK
<1>8. EnvOK'
  <2>1. ImageIn(graph', snapshots', N + 1) \in Content
    <3>1. N + 1 \in 1 .. Len(graph')
      BY <1>2, <1>5
    <3> QED
      BY <1>5, <3>1, ImageUnfolds
  <2>2. ImageIn(graph', snapshots', N + 1) \o << >> = ImageIn(graph', snapshots', N + 1)
    BY <2>1, ContentProperties
  <2> QED
    BY <1>3, <1>6, <2>2 DEF EnvOK
<1> QED
  BY <1>3, <1>7, <1>8 DEF RestoreOK

\* The walk of a restore: what is pending leads from the ancestor's image to the target's.
LEMMA WalkEffects ==
    ASSUME EffectInv, (\E s \in Ids : RestoreBegin(s)) \/ Walk \/ RestoreFails \/ SnapshotStalls
    PROVE  SavedOK' /\ EnvOK' /\ RestoreOK'
<1>1. TreeInv /\ SavedOK /\ EnvOK /\ RestoreOK
  BY DEF EffectInv
<1>2. /\ graph' = graph /\ snapshots' = snapshots /\ sealed' = sealed /\ position' = position
      /\ log' = log /\ pc # "replay" /\ pc' # "replay" /\ strays' = strays
      /\ \/ env' = env /\ astray' = astray
         \/ env' = << >>
  BY DEF RestoreBegin, Walk, RestoreFails, RestoreEnds, EnvGone, SnapshotStalls, MaySnapshot,
         treeVars, branchVars, envVars, restoreVars
<1>3. /\ graph \in Seq(Node) /\ Len(graph) \in Nat /\ Ids = 1 .. Len(graph)
      /\ position \in 1 .. Len(graph) /\ anc \in 1 .. Len(graph) /\ log \in Content
      /\ pending \in Content /\ \A i \in DOMAIN snapshots : snapshots[i] \in Content
      /\ \A s \in 1 .. Len(graph) : ImageIn(graph, snapshots, s) \in Content
  BY <1>1, TreeTypes, ResourceTypes, ImageTypes
<1>4. SavedOK'
  BY <1>1, <1>2 DEF SavedOK
<1>5. EnvOK'
  <2>1. ImageIn(graph, snapshots, position) \o log \in Content
    BY <1>3, ContentProperties
  <2>2. Within(<< >>, ImageIn(graph, snapshots, position) \o log)
    BY <2>1, WithinBasics
  <2>3. ~astray => Within(env, ImageIn(graph, snapshots, position) \o log)
    BY <1>1, <1>2 DEF EnvOK
  <2>4. ASSUME ~astray' PROVE Within(env', ImageIn(graph, snapshots, position) \o log)
    <3>1. CASE env' = env /\ astray' = astray
      <4>1. ~astray
        BY <2>4, <3>1, Zenon
      <4> QED
        BY <2>3, <3>1, <4>1, Zenon
    <3>2. CASE env' = << >>
      BY <2>2, <3>2, Zenon
    <3> QED
      BY <1>2, <3>1, <3>2
  <2> QED
    BY <1>2, <2>4 DEF EnvOK
<1>6. RestoreOK'
  <2>1. CASE \E s \in Ids : RestoreBegin(s)
    <3>1. target' = anc' /\ pending' = << >> /\ anc' \in 1 .. Len(graph)
      BY <1>3, <2>1 DEF RestoreBegin
    <3>2. ImageIn(graph, snapshots, anc') \o << >> = ImageIn(graph, snapshots, anc')
      BY <1>3, <3>1, ContentProperties
    <3> QED
      BY <1>2, <3>1, <3>2 DEF RestoreOK
  <2>2. CASE Walk
    <3> DEFINE p == graph[anc].parent
               r == graph[anc].replay
    <3>1. /\ pc = "walk" /\ graph[anc].virtual /\ target' = target
          /\ anc' = p /\ pending' = r \o pending /\ p # NoParent
      BY <2>2 DEF Walk, BrokenAncestry
    <3>2. r \in Content /\ p \in Nat
      <4>1. graph[anc] \in Node
        BY <1>3, ElementOfSeq
      <4> QED
        BY <4>1 DEF Node
    <3>3. p \in 1 .. anc - 1 /\ p \in 1 .. Len(graph)
      BY <1>1, <1>3, <3>1, <3>2 DEF TreeInv, ParentsOlder, NoParent
    <3>4. ImageIn(graph, snapshots, anc) = ImageIn(graph, snapshots, p) \o r
      BY ONLY <1>3, <3>1, <3>3, ImageUnfolds
    <3>5. ImageIn(graph, snapshots, target) = ImageIn(graph, snapshots, anc) \o pending
      BY <1>1, <3>1 DEF RestoreOK
    <3> HIDE DEF p, r
    <3>6. (ImageIn(graph, snapshots, p) \o r) \o pending
            = ImageIn(graph, snapshots, p) \o (r \o pending)
      <4>1. ImageIn(graph, snapshots, p) \in Content
        BY <1>3, <3>3
      <4> QED
        BY ONLY <1>3, <3>2, <4>1, ContentProperties, Zenon
    <3>7. ImageIn(graph, snapshots, target) = ImageIn(graph, snapshots, p) \o (r \o pending)
      BY <3>4, <3>5, <3>6
    <3> QED
      BY <1>2, <3>1, <3>7 DEF RestoreOK
  <2>3. CASE RestoreFails
    BY <2>3 DEF RestoreFails, RestoreEnds, RestoreOK
  <2>4. CASE SnapshotStalls
    BY <2>4 DEF SnapshotStalls, MaySnapshot, restoreVars, RestoreOK
  <2> QED
    BY <2>1, <2>2, <2>3, <2>4
<1> QED
  BY <1>4, <1>5, <1>6

\* The backend brings back the ancestor's image, or nothing at all, or leads astray.
LEMMA CoreEffects ==
    ASSUME EffectInv, CoreRestore \/ CoreRestoreUnseen \/ CoreRestoreIgnored
    PROVE  SavedOK' /\ EnvOK' /\ RestoreOK'
<1>1. TreeInv /\ SavedOK /\ RestoreOK
  BY DEF EffectInv
<1>2. /\ graph' = graph /\ snapshots' = snapshots /\ sealed' = sealed /\ target' = target
      /\ pending' = pending /\ pc = "walk" /\ pc' = "replay" /\ strays' = strays
      /\ astray' \/ env' \in {snapshots[anc], << >>}
      /\ ~graph[anc].virtual /\ anc \in DOMAIN snapshots
  BY DEF CoreRestore, CoreRestoreUnseen, CoreRestoreIgnored, MayRestore, EnvGone, treeVars
<1>3. /\ graph \in Seq(Node) /\ anc \in 1 .. Len(graph) /\ pending \in Content
      /\ \A i \in DOMAIN snapshots : snapshots[i] \in Content
  BY <1>1, TreeTypes, ResourceTypes
<1> DEFINE image == ImageIn(graph, snapshots, anc)
<1>4. image = snapshots[anc] /\ image \in Content
  BY ONLY <1>2, <1>3, ImageUnfolds
<1>5. ImageIn(graph, snapshots, target) = image \o pending
  BY <1>1, <1>2 DEF RestoreOK
<1> HIDE DEF image
<1>6. Within(image \o pending, image \o pending)
  <2>1. image \o pending \in Content
    BY <1>3, <1>4, ContentProperties
  <2> QED
    BY <2>1, WithinBasics
<1>7. Within(<< >> \o pending, image \o pending)
  <2>1. << >> \o pending = pending
    BY <1>3, ConcatEmptySeq DEF Content
  <2>2. Within(pending, image \o pending)
    BY <1>3, <1>4, WithinBasics
  <2> QED
    BY <2>1, <2>2
<1>8. ~astray' => Within(env' \o pending, image \o pending)
  BY <1>2, <1>4, <1>6, <1>7, Zenon
<1>9. SavedOK'
  BY <1>1, <1>2 DEF SavedOK
<1> QED
  BY <1>2, <1>5, <1>8, <1>9 DEF EnvOK, RestoreOK

\* Replayed commands go to the end of the environment; one that fails is skipped.
LEMMA ReplayEffects ==
    ASSUME EffectInv, Replay \/ ReplayFails
    PROVE  SavedOK' /\ EnvOK' /\ RestoreOK'
<1>1. TreeInv /\ SavedOK /\ RestoreOK
  BY DEF EffectInv
<1>2. /\ graph' = graph /\ snapshots' = snapshots /\ sealed' = sealed /\ target' = target
      /\ pc = "replay" /\ pc' = "replay" /\ pending # << >> /\ pending' = Tail(pending)
      /\ strays' = strays /\ astray' = astray
  BY DEF Replay, ReplayFails, treeVars, envVars
<1>3. /\ env \in Content /\ pending \in Content /\ target \in 1 .. Len(graph)
      /\ ImageIn(graph, snapshots, target) \in Content
  BY <1>1, TreeTypes, ImageTypes
<1>4. ~astray => Within(env \o pending, ImageIn(graph, snapshots, target))
  BY <1>1, <1>2 DEF RestoreOK
<1>5. ~astray => Within(env' \o Tail(pending), ImageIn(graph, snapshots, target))
  <2>1. CASE Replay
    <3>1. env' = Append(env, Head(pending))
      BY <2>1 DEF Replay
    <3>2. Append(env, Head(pending)) \o Tail(pending) = env \o pending
      BY <1>2, <1>3, ReplayMovesHead DEF Content
    <3> QED
      BY <1>4, <3>1, <3>2
  <2>2. CASE ReplayFails
    <3>1. env' = env
      BY <2>2 DEF ReplayFails, envVars
    <3> QED
      BY <1>2, <1>3, <1>4, <3>1, WithinSkips
  <2> QED
    BY <2>1, <2>2
<1>6. SavedOK'
  BY <1>1, <1>2 DEF SavedOK
<1> QED
  BY <1>2, <1>5, <1>6 DEF EnvOK, RestoreOK

\* At the end nothing is pending: the environment holds what has come back of the target.
LEMMA FinishEffects ==
    ASSUME EffectInv, RestoreFinish
    PROVE  SavedOK' /\ EnvOK' /\ RestoreOK'
<1>1. TreeInv /\ SavedOK /\ RestoreOK
  BY DEF EffectInv
<1>2. /\ graph' = graph /\ snapshots' = snapshots /\ sealed' = sealed /\ position' = target
      /\ log' = << >> /\ pc = "replay" /\ pc' = "idle" /\ pending = << >> /\ env' = env
      /\ strays' = strays /\ astray' = astray
  BY DEF RestoreFinish, RestoreEnds, treeVars, envVars
<1>3. /\ env \in Content /\ target \in 1 .. Len(graph)
      /\ ImageIn(graph, snapshots, target) \in Content
  BY <1>1, TreeTypes, ImageTypes
<1>4. ~astray => Within(env \o << >>, ImageIn(graph, snapshots, target))
  BY <1>1, <1>2 DEF RestoreOK
<1>5. ~astray => Within(env, ImageIn(graph, snapshots, target) \o << >>)
  BY <1>3, <1>4, ContentProperties
<1>6. SavedOK'
  BY <1>1, <1>2 DEF SavedOK
<1> QED
  BY <1>2, <1>5, <1>6 DEF EnvOK, RestoreOK

\* Every step keeps it, whatever fails.
LEMMA EffectStep == EffectInv /\ [Next]_vars => EffectInv'
<1> SUFFICES ASSUME EffectInv, [Next]_vars
             PROVE  EffectInv'
  OBVIOUS
<1>1. TreeInv'
  BY TreeStep DEF EffectInv
<1>2. SavedOK' /\ EnvOK' /\ RestoreOK'
  <2>1. CASE UNCHANGED vars
    BY <2>1 DEF EffectInv, SavedOK, EnvOK, RestoreOK, vars
  <2>2. CASE Next
    BY <1>1, <2>2, ExecEffects, LandEffects, SnapshotEffects, WalkEffects, CoreEffects,
       ReplayEffects, FinishEffects DEF Next, RestoreStep
  <2> QED
    BY <2>1, <2>2
<1> QED
  BY <1>1, <1>2 DEF EffectInv

\* Whatever has failed, a restore may rebuild more than a snapshot held, but no effect that it
\* held is missing or out of order (base_env_manager.py, the exception path of _exec_branch);
\* apart from the virtual snapshots of an environment that a late command or an ignored restore
\* has brought about and that neither a restore nor a physical snapshot has put right since.
THEOREM NoEffectIsLost == Spec => []NoEffectLost
<1>1. EffectInv => NoEffectLost
  <2> SUFFICES ASSUME EffectInv, NEW s \in Ids, s \notin strays
               PROVE  Embeds(sealed[s], Image(s))
    BY DEF NoEffectLost
  <2>1. TreeInv /\ SavedOK
    BY DEF EffectInv
  <2>2. /\ s \in 1 .. Len(graph) /\ ImageIn(graph, snapshots, s) \in Content
        /\ sealed[s] \in Content
    <3>1. s \in 1 .. Len(graph) /\ sealed \in Seq(Content) /\ Len(sealed) = Len(graph)
      BY <2>1, TreeTypes
    <3>2. sealed[s] \in Content
      BY <3>1, LenProperties
    <3> QED
      BY <2>1, <3>1, <3>2, ImageTypes
  <2>3. Within(sealed[s], ImageIn(graph, snapshots, s))
    BY <2>1, <2>2 DEF SavedOK
  <2>4. Embeds(sealed[s], ImageIn(graph, snapshots, s))
    BY <2>2, <2>3, WithinEmbeds
  <2>5. Image(s) = ImageIn(graph, snapshots, s)
    BY ImageIsImage
  <2> QED
    BY <2>4, <2>5, Zenon
<1> QED
  BY <1>1, InitEffects, EffectStep, PTL DEF Spec
=============================================================================
