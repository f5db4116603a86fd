---------------------- MODULE WaypointSession_proofs ----------------------
(***************************************************************************)
(* Theorems about the managers that share one Waypoint session, for any    *)
(* set of managers and of forks, any number of checkpoints and of calls,   *)
(* and every failure of a command.                                         *)
(***************************************************************************)
EXTENDS WaypointSession, TLAPS

\* What a branch may be based on.
Marks == 0 .. Len(parent)

Nodes == [parent : Marks, children : SUBSET Ids]

Globals ==
    /\ up \in BOOLEAN
    /\ IsMap(forks, Fork, Marks)
    /\ parent \in Seq(0 .. MaxCheckpoints) /\ Len(parent) <= MaxCheckpoints
    /\ \A i \in Ids : parent[i] \in Marks
    /\ pc \in [Manager -> Places]
    /\ job \in [Manager -> [br : Fork, base : Nat, sid : Nat]]
    /\ code \in {"none", "0", "1", "2", "130"}
    /\ calls \in 0 .. MaxCalls
    /\ DOMAIN snapshots = Manager /\ DOMAIN graph = Manager
    /\ DOMAIN live = Manager /\ DOMAIN pos = Manager
    /\ DOMAIN life = Manager /\ DOMAIN cleaned = Manager /\ DOMAIN said = Manager
    /\ DOMAIN heard = Manager /\ DOMAIN missed = Manager /\ DOMAIN blind = Manager

\* The session has main as long as it is there, and a fork without a base only
\* before its first checkpoint.
SessionOK ==
    /\ IF up THEN Main \in DOMAIN forks ELSE DOMAIN forks = {}
    /\ \A f \in DOMAIN forks :
          forks[f] = NoSnapshot => Len(parent) = 0 /\ DOMAIN forks = {Main}

\* Nobody has a session before its owner has built it.
Unbuilt ==
    At(Owner, "absent") =>
        /\ ~up /\ parent = << >>
        /\ \A m \in Manager : At(m, "absent") /\ life[m] = "rest" /\ said[m] = "nothing"

\* The records of one manager.
RecordsOK(m) ==
    /\ snapshots[m] \subseteq Ids /\ heard[m] \subseteq Ids /\ blind[m] \subseteq Ids
    /\ IsMap(graph[m], snapshots[m], Nodes)
    /\ IsMap(live[m], Fork, Marks)
    /\ IsMap(pos[m], Fork, Marks)
    /\ Main \in DOMAIN pos[m] /\ DOMAIN pos[m] \subseteq DOMAIN live[m] \cup {Main}
    /\ missed[m] \subseteq Fork
    /\ job[m].base \in Marks

LifeOK(m) ==
    /\ life[m] \in {"rest", "cleaning", "forcing"}
    /\ cleaned[m] \in BOOLEAN
    /\ said[m] \in {"nothing", "yes", "no"}
    /\ said[m] = "yes" => ~up

\* The constructor has not listed the forks yet.
Unlisted(m) == pc[m] \in {"absent", "sync", "list"}

\* A checkpoint that the manager has made and not recorded yet.
Unrecorded(m) == pc[m] \in {"relist", "refresh"}

JobOK(m) ==
    /\ Unlisted(m) => missed[m] = Fork
    /\ pc[m] # "refresh" => job[m].br = Main
    /\ At(m, "seal") /\ Main \notin missed[m] => job[m].base = forks[Main]
    /\ Unrecorded(m) =>
          /\ job[m].sid \in snapshots[m] \ DOMAIN graph[m]
          /\ job[m].sid \in blind[m] \/ job[m].base = parent[job[m].sid]

\* What a manager believes of the forks that nobody has changed behind its back.
Tracks(m) ==
    /\ ~up => missed[m] = Fork
    /\ \A f \in Fork \ missed[m] :
          /\ f \in DOMAIN live[m] <=> f \in DOMAIN forks
          /\ f \in DOMAIN forks =>
                /\ f \in DOMAIN pos[m]
                /\ IF Unrecorded(m) /\ f = job[m].br
                   THEN forks[f] = job[m].sid ELSE pos[m][f] = forks[f]

\* HistoryInherited and LineageTrue, of one manager.
HistoryOf(m) ==
    \A s \in heard[m] :
        /\ s \in snapshots[m]
        /\ s \in DOMAIN graph[m]
        /\ graph[m][s].parent # NoSnapshot =>
              /\ graph[m][s].parent \in DOMAIN graph[m]
              /\ s \in graph[m][graph[m][s].parent].children

LineageOf(m) ==
    \A s \in DOMAIN graph[m] \ blind[m] : graph[m][s].parent = parent[s]

ManagerInv(m) ==
    /\ RecordsOK(m)
    /\ LifeOK(m)
    /\ JobOK(m)
    /\ Tracks(m)
    /\ HistoryOf(m)
    /\ LineageOf(m)

SessionInv ==
    /\ Globals
    /\ SessionOK
    /\ Unbuilt
    /\ \A m \in Manager : ManagerInv(m)

-----------------------------------------------------------------------------
(* Steps that leave the records of a manager alone.                        *)

SameRecords(n) ==
    /\ job'[n] = job[n] /\ snapshots'[n] = snapshots[n] /\ graph'[n] = graph[n]
    /\ live'[n] = live[n] /\ pos'[n] = pos[n]
    /\ heard'[n] = heard[n] /\ blind'[n] = blind[n]

SameLife(n) == life'[n] = life[n] /\ cleaned'[n] = cleaned[n] /\ said'[n] = said[n]

\* Checkpoints are added to the session, never changed.
Grows ==
    /\ Len(parent) \in Nat /\ Len(parent') \in Nat /\ Len(parent) <= Len(parent')
    /\ \A i \in Ids : parent'[i] = parent[i]

\* Only m moves.
OnlyBy(m) ==
    \A n \in Manager \ {m} : pc'[n] = pc[n] /\ SameRecords(n) /\ SameLife(n)

\* What has been said of checkpoints stays true when there are more of them.
LEMMA NodesGrow ==
    ASSUME Grows, NEW g, NEW S, IsMap(g, S, Nodes)
    PROVE  IsMap(g, S, Nodes')
<1>1. Marks \subseteq Marks' /\ Ids \subseteq Ids'
  BY DEF Grows, Marks, Ids
<1>2. Nodes \subseteq Nodes'
  BY <1>1 DEF Nodes
<1> QED
  BY <1>2 DEF IsMap

\* What a manager says stays true as long as it misses every fork that changes.
LEMMA Kept ==
    ASSUME SessionInv, NEW n \in Manager, SameRecords(n), Grows, LifeOK(n)',
           \/ pc'[n] = pc[n]
           \/ ~Unrecorded(n) /\ pc'[n] \notin {"seal", "relist", "refresh"},
           Unlisted(n)' => Unlisted(n),
           missed[n] \subseteq missed'[n], missed'[n] \subseteq Fork,
           ~up' => missed'[n] = Fork,
           \A f \in Fork \ missed'[n] :
              /\ f \in DOMAIN forks' <=> f \in DOMAIN forks
              /\ f \in DOMAIN forks => forks'[f] = forks[f]
    PROVE  ManagerInv(n)'
<1>0. /\ RecordsOK(n) /\ JobOK(n) /\ Tracks(n) /\ HistoryOf(n) /\ LineageOf(n)
      /\ Marks \subseteq Marks' /\ Ids \subseteq Ids'
      /\ Unrecorded(n)' => Unrecorded(n) /\ pc'[n] = pc[n]
  BY DEF SessionInv, ManagerInv, Grows, Marks, Ids, Unrecorded
<1>1. RecordsOK(n)'
  <2>1. IsMap(graph[n], snapshots[n], Nodes')
    BY <1>0, NodesGrow DEF RecordsOK
  <2>2. IsMap(live[n], Fork, Marks') /\ IsMap(pos[n], Fork, Marks')
    BY <1>0 DEF RecordsOK, IsMap
  <2> QED
    BY <1>0, <2>1, <2>2 DEF RecordsOK, SameRecords, IsMap
<1>2. JobOK(n)'
  <2>1. pc'[n] # "refresh" => job[n].br = Main
    BY <1>0 DEF JobOK, Unrecorded
  <2>2. pc'[n] = "seal" /\ Main \notin missed'[n] => job[n].base = forks'[Main]
    <3>1. Main \notin missed[n] => Main \in DOMAIN forks
      BY <1>0, SessionAssumption DEF SessionInv, SessionOK, Tracks
    <3> QED
      BY <1>0, <3>1, SessionAssumption DEF JobOK, At
  <2>3. Unrecorded(n)' => parent'[job[n].sid] = parent[job[n].sid]
    BY <1>0 DEF JobOK, RecordsOK, Grows
  <2>4. Unlisted(n)' => missed'[n] = Fork
    BY <1>0 DEF JobOK
  <2> QED
    BY <1>0, <2>1, <2>2, <2>3, <2>4 DEF JobOK, SameRecords, At
<1>3. Tracks(n)'
  <2>1. Unrecorded(n)' <=> Unrecorded(n)
    BY <1>0 DEF Unrecorded
  <2> QED
    BY <1>0, <2>1 DEF Tracks, SameRecords
<1>4. HistoryOf(n)'
  BY <1>0 DEF HistoryOf, SameRecords
<1>5. LineageOf(n)'
  BY <1>0 DEF LineageOf, SameRecords, RecordsOK, Grows, IsMap
<1> QED
  BY <1>1, <1>2, <1>3, <1>4, <1>5 DEF ManagerInv

\* A step of m on a session that stays as it is.
LEMMA SessionKept ==
    ASSUME SessionInv, Globals', UNCHANGED sessionVars, NEW m \in Manager, OnlyBy(m),
           \A n \in Manager \ {m} : missed'[n] = missed[n],
           ManagerInv(m)', pc'[Owner] # "absent"
    PROVE  SessionInv'
<1>1. Grows
  BY DEF Grows, sessionVars, SessionInv, Globals
<1>2. ASSUME NEW n \in Manager \ {m} PROVE ManagerInv(n)'
  <2>1. LifeOK(n)'
    BY DEF SessionInv, ManagerInv, LifeOK, OnlyBy, SameLife, sessionVars
  <2>2. missed[n] \subseteq Fork /\ (~up => missed[n] = Fork)
    BY DEF SessionInv, ManagerInv, RecordsOK, Tracks
  <2> QED
    BY <1>1, <2>1, <2>2, Kept DEF OnlyBy, sessionVars, Unlisted
<1>3. SessionOK'
  BY DEF SessionInv, SessionOK, sessionVars
<1>4. Unbuilt'
  BY DEF Unbuilt, At
<1> QED
  BY <1>2, <1>3, <1>4 DEF SessionInv

\* Only the owner moves before there is a session.
LEMMA Built ==
    ASSUME SessionInv, NEW m \in Manager, up \/ pc[m] # "absent" \/ life[m] # "rest"
    PROVE  pc[Owner] # "absent"
  BY DEF SessionInv, Unbuilt, At

GlobalsSame ==
    /\ pc' \in [Manager -> Places]
    /\ job' \in [Manager -> [br : Fork, base : Nat, sid : Nat]]
    /\ code' \in {"none", "0", "1", "2", "130"}
    /\ calls' \in 0 .. MaxCalls
    /\ DOMAIN snapshots' = Manager /\ DOMAIN graph' = Manager
    /\ DOMAIN live' = Manager /\ DOMAIN pos' = Manager
    /\ DOMAIN life' = Manager /\ DOMAIN cleaned' = Manager /\ DOMAIN said' = Manager
    /\ DOMAIN heard' = Manager /\ DOMAIN missed' = Manager /\ DOMAIN blind' = Manager

\* The variables that no one manager owns, over a step that leaves the session alone.
LEMMA GlobalsKept ==
    ASSUME SessionInv, UNCHANGED sessionVars, GlobalsSame
    PROVE  Globals'
  BY DEF SessionInv, Globals, GlobalsSame, sessionVars, Marks, Ids

\* The places that a manager is led to by a step that leaves its records alone.
Ends == {"sync", "raised", "gone", "interrupted", "crashed", "abandoned"}

\* A step that changes a manager's place and the state of its cleanup only.
LEMMA PlaceSteps ==
    ASSUME SessionInv, NEW m \in Manager,
           \/ Attach(m) \/ ProbeFails(m) \/ CleanUpFails(m) \/ ForceFails(m) \/ Finalize(m)
           \/ CleanUpBreaks(m) /\ UNCHANGED <<sessionVars, missed>>
           \/ BuildFails /\ m = Owner
    PROVE  SessionInv'
<1>0. Globals /\ ManagerInv(m) /\ LifeOK(m)
  BY DEF SessionInv, ManagerInv
<1>1. /\ UNCHANGED <<up, forks, parent, job, snapshots, graph, live, pos, calls, heard, missed,
                     blind>>
      /\ UNCHANGED sessionVars
  BY DEF Attach, ProbeFails, CleanUpFails, ForceFails, Finalize, BuildFails, CleanUpBreaks,
         sessionVars, recordVars, historyVars
<1>2. /\ pc' = pc \/ \E p \in Ends : Goto(m, p) /\ ~Unrecorded(m)
      /\ code' \in {"none", "0", "1", "2", "130"}
  BY <1>0 DEF Attach, ProbeFails, CleanUpFails, ForceFails, Finalize, BuildFails,
              CleanUpBreaks, Ends, At, Goto, Unrecorded, Ending, lifeVars, Globals
<1>3. /\ pc' \in [Manager -> Places]
      /\ pc'[m] = pc[m] \/ (~Unrecorded(m) /\ pc'[m] \in Ends)
      /\ \A n \in Manager \ {m} : pc'[n] = pc[n]
  <2>0. pc \in [Manager -> Places] /\ Ends \subseteq Places
    BY <1>0 DEF Globals, Ends, Places, Constructing, Ending
  <2>1. CASE pc' = pc
    BY <2>0, <2>1
  <2>2. CASE \E p \in Ends : Goto(m, p) /\ ~Unrecorded(m)
    BY <2>0, <2>2 DEF Goto
  <2> QED
    BY <1>2, <2>1, <2>2
<1>4. /\ life' = life \/ life' = [life EXCEPT ![m] = "forcing"]
         \/ life' = [life EXCEPT ![m] = "rest"] \/ life' = [life EXCEPT ![m] = "cleaning"]
      /\ cleaned' = cleaned \/ cleaned' = [cleaned EXCEPT ![m] = TRUE]
      /\ said' = said \/ said' = [said EXCEPT ![m] = "no"]
  BY DEF Attach, ProbeFails, CleanUpFails, ForceFails, Finalize, BuildFails, CleanUpBreaks,
         lifeVars
<1>5. LifeOK(m)' /\ \A n \in Manager \ {m} : SameLife(n)
  BY <1>0, <1>1, <1>4 DEF LifeOK, SameLife, Globals
<1>6. GlobalsSame
  BY <1>0, <1>1, <1>2, <1>3, <1>4 DEF GlobalsSame, Globals
<1>7. \A n \in Manager : SameRecords(n)
  BY <1>1 DEF SameRecords
<1>8. ManagerInv(m)'
  <2>1. Grows
    BY <1>1 DEF Grows, SessionInv, Globals
  <2>2. missed[m] \subseteq Fork /\ (~up => missed[m] = Fork)
    BY <1>0 DEF ManagerInv, RecordsOK, Tracks
  <2>3. Unlisted(m)' => Unlisted(m)
    <3>1. Attach(m) \/ pc'[m] = pc[m] \/ pc'[m] \in Ends \ {"sync"}
      BY <1>0 DEF ProbeFails, CleanUpFails, ForceFails, Finalize, BuildFails, CleanUpBreaks,
                  Ends, Goto, Globals
    <3> QED
      BY <3>1 DEF Unlisted, Attach, At, Ends
  <2> QED
    BY <1>1, <1>3, <1>5, <1>7, <2>1, <2>2, <2>3, Kept DEF Ends
<1>9. pc'[Owner] # "absent"
  <2>1. CASE pc[Owner] # "absent"
    BY <1>3, <2>1, SessionAssumption DEF Ends
  <2>2. CASE pc[Owner] = "absent"
    <3>1. BuildFails /\ m = Owner
      BY <2>2, Built
         DEF Attach, ProbeFails, CleanUpFails, ForceFails, Finalize, CleanUpBreaks, Ending
    <3> QED
      BY <1>0, <3>1 DEF BuildFails, Goto, Globals
  <2> QED
    BY <2>1, <2>2
<1> QED
  BY <1>1, <1>3, <1>5, <1>6, <1>7, <1>8, <1>9, GlobalsKept, SessionKept DEF OnlyBy

\* A manager that is let go of has no records.
LEMMA ForgetSteps ==
    ASSUME SessionInv, NEW m \in Manager,
           \/ AttachFails(m) \/ Drop(m)
           \/ m = Owner /\ (Exit \/ Interrupt \/ InterruptStart \/ Crash)
    PROVE  SessionInv'
<1>0. Globals /\ ManagerInv(m) /\ LifeOK(m)
  BY DEF SessionInv, ManagerInv
<1>1. UNCHANGED sessionVars /\ UNCHANGED <<cleaned, said, calls>> /\ Forget(m)
  BY DEF AttachFails, Drop, Exit, Interrupt, InterruptStart, Crash, lifeVars
<1>2. /\ \E p \in {"raised", "dropped", "exiting", "interrupted", "crashed"} : Goto(m, p)
      /\ life' = life \/ life' = [life EXCEPT ![m] = "cleaning"]
      /\ code' \in {"none", "0", "1", "2", "130"} /\ pc[m] # "absent"
  BY <1>0 DEF AttachFails, Drop, Exit, Interrupt, InterruptStart, Crash, lifeVars, At, Globals,
              Working, Constructing
<1>3. /\ pc' \in [Manager -> Places]
      /\ pc'[m] \in {"raised", "dropped", "exiting", "interrupted", "crashed"}
      /\ \A n \in Manager \ {m} : pc'[n] = pc[n]
  BY <1>0, <1>2 DEF Globals, Goto, Places, Ending
<1>4. /\ snapshots'[m] = {} /\ graph'[m] = << >> /\ live'[m] = NoForks
      /\ pos'[m] = [f \in {Main} |-> NoSnapshot] /\ job'[m] = NoJob
      /\ heard'[m] = {} /\ missed'[m] = Fork /\ blind'[m] = {}
  BY <1>0, <1>1 DEF Forget, Globals
<1>5. \A n \in Manager \ {m} : SameRecords(n) /\ missed'[n] = missed[n]
  BY <1>0, <1>1 DEF Forget, SameRecords, Globals
<1>6. LifeOK(m)' /\ \A n \in Manager \ {m} : SameLife(n)
  BY <1>0, <1>1, <1>2 DEF LifeOK, SameLife, Globals, sessionVars
<1>7. GlobalsSame
  <2>1. NoJob \in [br : Fork, base : Nat, sid : Nat]
    BY SessionAssumption DEF NoJob, NoSnapshot
  <2>2. job' \in [Manager -> [br : Fork, base : Nat, sid : Nat]]
    BY <1>0, <1>1, <2>1 DEF Forget, Globals
  <2> QED
    BY <1>0, <1>1, <1>2, <1>3, <2>2 DEF GlobalsSame, Globals, Forget
<1>8. ManagerInv(m)'
  <2>1. Len(parent') \in Nat
    BY <1>0, <1>1 DEF Globals, sessionVars
  <2>2. IsMap(graph'[m], {}, Nodes')
    BY <1>4 DEF IsMap
  <2>3. IsMap(live'[m], Fork, Marks') /\ DOMAIN live'[m] = {}
    BY <1>4 DEF IsMap, NoForks
  <2>4. IsMap(pos'[m], Fork, Marks') /\ DOMAIN pos'[m] = {Main}
    BY <1>4, <2>1, SessionAssumption DEF IsMap, Marks, NoSnapshot
  <2>5. job'[m].br = Main /\ job'[m].base \in Marks'
    BY <1>4, <2>1 DEF NoJob, Marks, NoSnapshot
  <2>6. RecordsOK(m)'
    BY <1>4, <2>2, <2>3, <2>4, <2>5 DEF RecordsOK
  <2>7. JobOK(m)' /\ Tracks(m)'
    BY <1>3, <1>4, <2>5 DEF JobOK, Tracks, Unlisted, Unrecorded, At
  <2>8. HistoryOf(m)' /\ LineageOf(m)'
    BY <1>4 DEF HistoryOf, LineageOf
  <2> QED
    BY <1>6, <2>6, <2>7, <2>8 DEF ManagerInv
<1>9. pc'[Owner] # "absent"
  BY <1>2, <1>3, Built, SessionAssumption
<1> QED
  BY <1>1, <1>3, <1>5, <1>6, <1>7, <1>8, <1>9, GlobalsKept, SessionKept DEF OnlyBy

-----------------------------------------------------------------------------
(* The two readings of the session.                                        *)

\* Hydrating a graph links every checkpoint that is listed to its parent.
LEMMA Hydrates ==
    ASSUME SessionInv, NEW g, NEW S \in SUBSET Ids, IsMap(g, S, Nodes)
    PROVE  /\ IsMap(Hydrate(g), S \cup Ids, Nodes)
           /\ DOMAIN Hydrate(g) = DOMAIN g \cup Ids
           /\ \A s \in DOMAIN Hydrate(g) :
                 /\ Hydrate(g)[s].parent = IF s \in DOMAIN g THEN g[s].parent ELSE parent[s]
                 /\ s \in Ids /\ Hydrate(g)[s].parent # NoSnapshot =>
                       /\ Hydrate(g)[s].parent \in DOMAIN Hydrate(g)
                       /\ s \in Hydrate(g)[Hydrate(g)[s].parent].children
<1> DEFINE p(s) == IF s \in DOMAIN g THEN g[s].parent ELSE parent[s]
           c(s) == IF s \in DOMAIN g THEN g[s].children ELSE {}
           h == [s \in DOMAIN g \cup Ids |->
                    [parent |-> p(s), children |-> c(s) \cup {x \in Ids : p(x) = s}]]
<1>1. Hydrate(g) = h
  BY DEF Hydrate
<1>2. DOMAIN h = DOMAIN g \cup Ids /\ DOMAIN h \subseteq S \cup Ids
  BY DEF IsMap
<1>3. ASSUME NEW s \in DOMAIN g \cup Ids PROVE p(s) \in Marks /\ c(s) \subseteq Ids
  BY <1>3 DEF IsMap, Nodes, SessionInv, Globals
<1>4. ASSUME NEW s \in DOMAIN h
      PROVE  h[s].parent = p(s) /\ h[s].children = c(s) \cup {x \in Ids : p(x) = s}
  BY <1>2
<1>5. ASSUME NEW s \in DOMAIN h PROVE h[s] \in Nodes
  <2>1. p(s) \in Marks /\ c(s) \cup {x \in Ids : p(x) = s} \in SUBSET Ids
    BY <1>2, <1>3
  <2> HIDE DEF p, c
  <2> QED
    BY <1>2, <2>1 DEF Nodes
<1>6. IsMap(h, S \cup Ids, Nodes)
  <2> HIDE DEF p, c
  <2> QED
    BY <1>2, <1>5 DEF IsMap
<1>7. ASSUME NEW s \in Ids, h[s].parent # NoSnapshot
      PROVE  h[s].parent \in DOMAIN h /\ s \in h[h[s].parent].children
  <2>1. s \in DOMAIN h /\ h[s].parent = p(s) /\ p(s) \in Marks
    BY <1>2, <1>3, <1>4
  <2>2. p(s) \in Ids
    BY <1>7, <2>1 DEF Marks, Ids, NoSnapshot, SessionInv, Globals
  <2>3. p(s) \in DOMAIN h /\ s \in {x \in Ids : p(x) = p(s)}
    BY <1>2, <2>2
  <2>4. h[p(s)].children = c(p(s)) \cup {x \in Ids : p(x) = p(s)}
    BY <1>4, <2>3
  <2> HIDE DEF p, c, h
  <2> QED
    BY <2>1, <2>3, <2>4
<1>8. \A s \in DOMAIN h : h[s].parent = p(s)
  BY <1>4
<1> HIDE DEF h
<1> QED
  BY <1>1, <1>2, <1>6, <1>7, <1>8

\* An answer of waypoint list tells the true bases, also of a fork without a
\* checkpoint.
LEMMA BaseIsTrue ==
    ASSUME SessionInv, NEW m \in Manager, NEW f \in DOMAIN forks
    PROVE  /\ Base(m, f) = forks[f]
           /\ f \in DOMAIN pos[m] /\ forks[f] = NoSnapshot => pos[m][f] = NoSnapshot
<1>1. CASE forks[f] # NoSnapshot
  BY <1>1 DEF Base
<1>2. CASE forks[f] = NoSnapshot
  <2>1. Len(parent) = 0 /\ Marks = {NoSnapshot}
    BY <1>2 DEF SessionInv, SessionOK, Marks, NoSnapshot
  <2>2. f \in DOMAIN live[m] => live[m][f] = NoSnapshot
    BY <2>1 DEF SessionInv, ManagerInv, RecordsOK, IsMap
  <2>3. f \in DOMAIN pos[m] => pos[m][f] = NoSnapshot
    BY <2>1 DEF SessionInv, ManagerInv, RecordsOK, IsMap
  <2> QED
    BY <1>2, <2>2, <2>3 DEF Base
<1> QED
  BY <1>1, <1>2

\* After a listing the manager's records and positions are the session's forks.
LEMMA ListingIsTrue ==
    ASSUME SessionInv, up, NEW m \in Manager
    PROVE  /\ Listed(m) = forks
           /\ IsMap(Repositioned(m), Fork, Marks)
           /\ DOMAIN Repositioned(m) = DOMAIN forks
           /\ \A f \in DOMAIN forks : Repositioned(m)[f] = forks[f]
<1>0. RecordsOK(m) /\ Main \in DOMAIN forks /\ IsMap(forks, Fork, Marks)
  BY DEF SessionInv, ManagerInv, SessionOK, Globals
<1>1. Listed(m) = forks
  BY <1>0, BaseIsTrue DEF Listed, IsMap
<1> DEFINE stale == DOMAIN live[m] \ (DOMAIN forks \cup {Main})
<1>2. (DOMAIN pos[m] \ stale) \cup DOMAIN forks = DOMAIN forks
  BY <1>0 DEF RecordsOK
<1>3. Repositioned(m) = [f \in DOMAIN forks |->
            IF f \in DOMAIN forks /\ (Base(m, f) # NoSnapshot \/ f \notin DOMAIN pos[m])
            THEN Base(m, f) ELSE pos[m][f]]
  BY <1>2 DEF Repositioned
<1>4. \A f \in DOMAIN forks : Repositioned(m)[f] = forks[f]
  BY <1>3, BaseIsTrue
<1>5. IsMap(Repositioned(m), Fork, Marks)
  BY <1>0, <1>3, <1>4 DEF IsMap
<1> QED
  BY <1>1, <1>3, <1>4, <1>5

\* Reading the tree of checkpoints.
LEMMA SyncSteps ==
    ASSUME SessionInv, NEW m \in Manager, AttachSync(m) \/ Sync(m)
    PROVE  SessionInv'
<1>0. Globals /\ ManagerInv(m) /\ RecordsOK(m)
  BY DEF SessionInv, ManagerInv
<1>1. /\ UNCHANGED sessionVars /\ UNCHANGED <<job, live, pos, missed, blind>>
      /\ UNCHANGED <<life, cleaned, said, code>> /\ calls' \in 0 .. MaxCalls
  BY <1>0, SessionAssumption DEF AttachSync, Sync, Call, lifeVars, Globals
<1>2. /\ pc' \in [Manager -> Places] /\ pc'[Owner] # "absent"
      /\ \A n \in Manager \ {m} : pc'[n] = pc[n]
      /\ ~Unrecorded(m) /\ pc'[m] \in {"list", "ready"}
  <2>1. pc[Owner] # "absent"
    BY Built DEF AttachSync, Sync, Call, At
  <2> QED
    BY <1>0, <2>1, SessionAssumption
       DEF AttachSync, Sync, Call, At, Goto, Globals, Places, Constructing, Unrecorded
<1>3. SyncTree(m)
  BY DEF AttachSync, Sync
<1>4. \A n \in Manager \ {m} : SameRecords(n) /\ SameLife(n) /\ missed'[n] = missed[n]
  BY <1>0, <1>1, <1>3 DEF SyncTree, SameRecords, SameLife, Globals
<1>5. GlobalsSame
  BY <1>0, <1>1, <1>2, <1>3 DEF GlobalsSame, Globals, SyncTree
<1>6. LifeOK(m)'
  BY <1>0, <1>1 DEF ManagerInv, LifeOK, sessionVars
<1>7. ManagerInv(m)'
  <2>1. CASE UNCHANGED <<graph, snapshots, heard>>
    <3>1. SameRecords(m)
      BY <1>1, <2>1 DEF SameRecords
    <3>2. Grows
      BY <1>0, <1>1 DEF Grows, sessionVars, Globals
    <3>3. missed[m] \subseteq Fork /\ (~up => missed[m] = Fork)
      BY <1>0 DEF ManagerInv, RecordsOK, Tracks
    <3>4. Unlisted(m)' => Unlisted(m)
      BY <1>2 DEF AttachSync, Sync, Call, At, Unlisted
    <3> QED
      BY <1>1, <1>2, <1>6, <3>1, <3>2, <3>3, <3>4, Kept DEF sessionVars
  <2>2. CASE /\ graph' = [graph EXCEPT ![m] = Hydrate(@)]
             /\ snapshots' = [snapshots EXCEPT ![m] = @ \cup Ids]
             /\ heard' = [heard EXCEPT ![m] = Ids]
    <3>1. /\ graph'[m] = Hydrate(graph[m]) /\ snapshots'[m] = snapshots[m] \cup Ids
          /\ heard'[m] = Ids
      BY <1>0, <2>2 DEF Globals
    <3>2. /\ snapshots[m] \subseteq Ids /\ IsMap(graph[m], snapshots[m], Nodes)
          /\ Marks' = Marks /\ Ids' = Ids /\ Nodes' = Nodes
      BY <1>0, <1>1 DEF RecordsOK, Marks, Ids, Nodes, sessionVars
    <3>3. /\ IsMap(graph'[m], snapshots'[m], Nodes)
          /\ DOMAIN graph'[m] = DOMAIN graph[m] \cup Ids
          /\ \A s \in DOMAIN graph'[m] :
                /\ graph'[m][s].parent = IF s \in DOMAIN graph[m] THEN graph[m][s].parent
                                         ELSE parent[s]
                /\ s \in Ids /\ graph'[m][s].parent # NoSnapshot =>
                      /\ graph'[m][s].parent \in DOMAIN graph'[m]
                      /\ s \in graph'[m][graph'[m][s].parent].children
      <4>1. snapshots[m] \in SUBSET Ids
        BY <3>2
      <4>2. /\ IsMap(Hydrate(graph[m]), snapshots[m] \cup Ids, Nodes)
            /\ DOMAIN Hydrate(graph[m]) = DOMAIN graph[m] \cup Ids
            /\ \A s \in DOMAIN Hydrate(graph[m]) :
                  /\ Hydrate(graph[m])[s].parent = IF s \in DOMAIN graph[m]
                                                   THEN graph[m][s].parent ELSE parent[s]
                  /\ s \in Ids /\ Hydrate(graph[m])[s].parent # NoSnapshot =>
                        /\ Hydrate(graph[m])[s].parent \in DOMAIN Hydrate(graph[m])
                        /\ s \in Hydrate(graph[m])[Hydrate(graph[m])[s].parent].children
        BY <3>2, <4>1, Hydrates
      <4> QED
        BY <3>1, <4>2
    <3>4. RecordsOK(m)'
      BY <1>0, <1>1, <3>1, <3>2, <3>3 DEF RecordsOK
    <3>5. JobOK(m)' /\ Tracks(m)'
      <4>1. Unlisted(m)' => Unlisted(m)
        BY <1>2 DEF AttachSync, Sync, Call, At, Unlisted
      <4> QED
        BY <1>0, <1>1, <1>2, <4>1 DEF ManagerInv, JobOK, Tracks, Unrecorded, At, sessionVars
    <3>6. HistoryOf(m)'
      BY <3>1, <3>2, <3>3 DEF HistoryOf
    <3>7. LineageOf(m)'
      BY <1>0, <1>1, <3>3 DEF ManagerInv, LineageOf, sessionVars
    <3> QED
      BY <1>6, <3>4, <3>5, <3>6, <3>7 DEF ManagerInv
  <2> QED
    BY <1>3, <2>1, <2>2 DEF SyncTree
<1> QED
  BY <1>1, <1>2, <1>4, <1>5, <1>7, GlobalsKept, SessionKept DEF OnlyBy

\* Reading the list of forks.
LEMMA ListSteps ==
    ASSUME SessionInv, NEW m \in Manager, AttachList(m) \/ List(m)
    PROVE  SessionInv'
<1>0. Globals /\ ManagerInv(m) /\ RecordsOK(m)
  BY DEF SessionInv, ManagerInv
<1>1. /\ UNCHANGED sessionVars /\ UNCHANGED <<snapshots, graph, heard, blind>>
      /\ UNCHANGED <<life, cleaned, said, code>> /\ calls' \in 0 .. MaxCalls
  BY <1>0, SessionAssumption DEF AttachList, List, Call, lifeVars, Globals
<1>2. /\ pc' \in [Manager -> Places] /\ pc'[Owner] # "absent"
      /\ \A n \in Manager \ {m} : pc'[n] = pc[n]
      /\ ~Unrecorded(m) /\ pc[m] \in {"list", "ready"}
      /\ pc'[m] = IF pc[m] = "list" THEN "seal" ELSE "ready"
  <2>1. pc[Owner] # "absent"
    BY Built DEF AttachList, List, Call, At
  <2> QED
    BY <1>0, <2>1, SessionAssumption
       DEF AttachList, List, Call, At, Goto, Globals, Places, Constructing, Unrecorded
<1>3. CASE UNCHANGED <<live, pos, job, missed>>
  <2>1. \A n \in Manager : SameRecords(n) /\ SameLife(n) /\ missed'[n] = missed[n]
    BY <1>1, <1>3 DEF SameRecords, SameLife
  <2>2. GlobalsSame
    BY <1>0, <1>1, <1>2, <1>3 DEF GlobalsSame, Globals
  <2>3. ManagerInv(m)'
    <3>0. /\ Marks' = Marks /\ Ids' = Ids /\ Nodes' = Nodes /\ forks' = forks /\ up' = up
          /\ ~Unrecorded(m)' /\ ~Unlisted(m)'
      BY <1>1, <1>2 DEF Marks, Ids, Nodes, sessionVars, Unrecorded, Unlisted
    <3>1. LifeOK(m)' /\ HistoryOf(m)' /\ LineageOf(m)'
      BY <1>0, <1>1 DEF ManagerInv, LifeOK, HistoryOf, LineageOf, sessionVars
    <3>2. RecordsOK(m)' /\ Tracks(m)'
      BY <1>0, <1>1, <1>2, <1>3, <3>0 DEF ManagerInv, RecordsOK, Tracks
    <3>3. JobOK(m)'
      <4>1. pc[m] = "list" => missed[m] = Fork
        BY <1>0 DEF ManagerInv, JobOK, Unlisted
      <4> QED
        BY <1>0, <1>2, <1>3, <3>0, <4>1, SessionAssumption DEF ManagerInv, JobOK, At
    <3> QED
      BY <3>1, <3>2, <3>3 DEF ManagerInv
  <2> QED
    BY <1>1, <1>2, <2>1, <2>2, <2>3, GlobalsKept, SessionKept DEF OnlyBy
<1>4. CASE /\ up /\ live' = [live EXCEPT ![m] = Listed(m)]
           /\ pos' = [pos EXCEPT ![m] = Repositioned(m)]
           /\ missed' = [missed EXCEPT ![m] = {}]
           /\ IF pc[m] = "list"
              THEN job' = [job EXCEPT ![m].base = IF Main \in DOMAIN forks
                                                  THEN Base(m, Main) ELSE NoSnapshot]
              ELSE job' = job
  <2>1. /\ Main \in DOMAIN forks /\ Base(m, Main) = forks[Main] /\ forks[Main] \in Marks
        /\ Marks \subseteq Nat
    <3>1. Main \in DOMAIN forks
      BY <1>4 DEF SessionInv, SessionOK
    <3>2. Base(m, Main) = forks[Main]
      BY <3>1, BaseIsTrue
    <3>3. forks[Main] \in Marks
      BY <1>0, <3>1 DEF Globals, IsMap
    <3>4. Marks \subseteq Nat
      BY <1>0 DEF Globals, Marks
    <3> QED
      BY <3>1, <3>2, <3>3, <3>4
  <2>2. /\ job' \in [Manager -> [br : Fork, base : Nat, sid : Nat]]
        /\ job'[m].br = job[m].br /\ job'[m].base \in Marks
        /\ pc[m] = "list" => job'[m].base = forks[Main]
        /\ \A n \in Manager \ {m} : job'[n] = job[n]
    <3>1. job \in [Manager -> [br : Fork, base : Nat, sid : Nat]] /\ job[m].base \in Marks
      BY <1>0 DEF Globals, RecordsOK
    <3>2. job' = job \/ job' = [job EXCEPT ![m].base = forks[Main]]
      BY <1>4, <2>1
    <3>3. pc[m] = "list" => job' = [job EXCEPT ![m].base = forks[Main]]
      BY <1>4, <2>1
    <3> QED
      BY <2>1, <3>1, <3>2, <3>3
  <2>3. \A n \in Manager \ {m} : SameRecords(n) /\ SameLife(n) /\ missed'[n] = missed[n]
    BY <1>0, <1>1, <1>4, <2>2 DEF SameRecords, SameLife, Globals
  <2>4. GlobalsSame
    BY <1>0, <1>1, <1>2, <1>4, <2>2 DEF GlobalsSame, Globals
  <2>5. /\ live'[m] = forks /\ pos'[m] = Repositioned(m) /\ missed'[m] = {}
        /\ IsMap(forks, Fork, Marks) /\ IsMap(pos'[m], Fork, Marks)
        /\ DOMAIN pos'[m] = DOMAIN forks
        /\ \A f \in DOMAIN forks : pos'[m][f] = forks[f]
    BY <1>0, <1>4, ListingIsTrue DEF Globals
  <2>6. ManagerInv(m)'
    <3>0. /\ Marks' = Marks /\ Ids' = Ids /\ Nodes' = Nodes /\ forks' = forks /\ up' = up
          /\ ~Unrecorded(m)' /\ ~Unlisted(m)'
      BY <1>1, <1>2 DEF Marks, Ids, Nodes, sessionVars, Unrecorded, Unlisted
    <3>1. LifeOK(m)' /\ HistoryOf(m)' /\ LineageOf(m)'
      BY <1>0, <1>1 DEF ManagerInv, LifeOK, HistoryOf, LineageOf, sessionVars
    <3>2. RecordsOK(m)'
      BY <1>0, <1>1, <2>1, <2>2, <2>5, <3>0 DEF RecordsOK
    <3>3. Tracks(m)'
      BY <1>4, <2>5, <3>0 DEF Tracks
    <3>4. JobOK(m)'
      BY <1>0, <1>2, <2>2, <3>0 DEF ManagerInv, JobOK, At
    <3> QED
      BY <3>1, <3>2, <3>3, <3>4 DEF ManagerInv
  <2> QED
    BY <1>1, <1>2, <2>3, <2>4, <2>6, GlobalsKept, SessionKept DEF OnlyBy
<1> QED
  BY <1>2, <1>3, <1>4 DEF AttachList, List, Call, At

-----------------------------------------------------------------------------
(* Steps that change the session.                                          *)

\* A checkpoint of fork f, made by m: everybody else misses f from now on.
LEMMA CheckpointEffect ==
    ASSUME SessionInv, NEW m \in Manager, NEW f \in Fork, Checkpoint(m, f)
    PROVE  /\ Grows /\ up' = up /\ up
           /\ parent' \in Seq(0 .. MaxCheckpoints) /\ Len(parent') <= MaxCheckpoints
           /\ \A i \in Ids' : parent'[i] \in Marks'
           /\ parent'[NewId] = forks[f]
           /\ Ids' = Ids \cup {NewId} /\ NewId \notin Ids /\ NewId \in Nat
           /\ Marks \subseteq Marks' /\ NewId \in Marks'
           /\ IsMap(forks', Fork, Marks') /\ DOMAIN forks' = DOMAIN forks
           /\ f \in DOMAIN forks /\ forks'[f] = NewId
           /\ \A g \in DOMAIN forks \ {f} : forks'[g] = forks[g]
           /\ SessionOK'
<1>0. /\ IsMap(forks, Fork, Marks) /\ Len(parent) \in Nat /\ MaxCheckpoints \in Nat
      /\ parent \in Seq(0 .. MaxCheckpoints) /\ Len(parent) <= MaxCheckpoints
      /\ \A i \in Ids : parent[i] \in Marks
      /\ SessionOK
  BY SessionAssumption DEF SessionInv, Globals
<1>1. /\ up' = up /\ up /\ f \in DOMAIN forks /\ NewId <= MaxCheckpoints
      /\ forks' = [forks EXCEPT ![f] = NewId] /\ parent' = Append(parent, forks[f])
  BY DEF Checkpoint
<1>2. forks[f] \in Marks /\ forks[f] \in 0 .. MaxCheckpoints
  BY <1>0, <1>1 DEF IsMap, Marks
<1>3. /\ parent' \in Seq(0 .. MaxCheckpoints) /\ Len(parent') = Len(parent) + 1
      /\ \A i \in 1 .. Len(parent) : parent'[i] = parent[i]
      /\ parent'[Len(parent) + 1] = forks[f]
  BY <1>0, <1>1, <1>2
<1>4. /\ Ids' = Ids \cup {NewId} /\ NewId \notin Ids /\ NewId \in Nat
      /\ Marks \subseteq Marks' /\ NewId \in Marks' /\ Grows
  BY <1>0, <1>3 DEF Ids, NewId, Marks, Grows
<1>5. \A i \in Ids' : parent'[i] \in Marks'
  BY <1>0, <1>2, <1>3, <1>4 DEF NewId, Ids
<1>6. /\ DOMAIN forks' = DOMAIN forks /\ forks'[f] = NewId
      /\ \A g \in DOMAIN forks \ {f} : forks'[g] = forks[g]
  BY <1>1
<1>7. IsMap(forks', Fork, Marks')
  <2>1. \A g \in DOMAIN forks : forks'[g] \in Marks'
    BY <1>0, <1>4, <1>6 DEF IsMap
  <2> QED
    BY <1>0, <1>1, <1>6, <2>1 DEF IsMap
<1>8. SessionOK'
  <2>1. ASSUME NEW g \in DOMAIN forks PROVE forks'[g] # NoSnapshot
    <3>1. CASE g = f
      BY <1>0, <1>6, <3>1 DEF NewId, NoSnapshot
    <3>2. CASE g # f
      BY <1>0, <1>1, <1>6, <3>2 DEF SessionOK
    <3> QED
      BY <3>1, <3>2
  <2> QED
    BY <1>0, <1>1, <1>6, <2>1 DEF SessionOK
<1> QED
  BY <1>0, <1>1, <1>3, <1>4, <1>5, <1>6, <1>7, <1>8 DEF NewId

\* m is in the middle of its snapshot of f, and knows the parent of the checkpoint
\* unless it had missed something of f.
LEMMA CheckpointSteps ==
    ASSUME SessionInv, NEW m \in Manager, NEW f \in Fork, Checkpoint(m, f),
           (AttachSeal(m) /\ f = Main) \/ Snapshot(m, f)
    PROVE  SessionInv'
<1>0. /\ Globals /\ ManagerInv(m) /\ RecordsOK(m) /\ JobOK(m) /\ Tracks(m)
      /\ pc[m] \in {"seal", "ready"} /\ ~Unrecorded(m)
  BY DEF SessionInv, ManagerInv, AttachSeal, Snapshot, Call, At, Unrecorded
<1>1. /\ Grows /\ up' = up /\ up /\ parent'[NewId] = forks[f]
      /\ parent' \in Seq(0 .. MaxCheckpoints) /\ Len(parent') <= MaxCheckpoints
      /\ \A i \in Ids' : parent'[i] \in Marks'
      /\ Ids' = Ids \cup {NewId} /\ NewId \notin Ids /\ NewId \in Nat
      /\ Marks \subseteq Marks' /\ NewId \in Marks'
      /\ IsMap(forks', Fork, Marks') /\ DOMAIN forks' = DOMAIN forks
      /\ f \in DOMAIN forks /\ forks'[f] = NewId
      /\ \A g \in DOMAIN forks \ {f} : forks'[g] = forks[g]
      /\ SessionOK'
  BY CheckpointEffect
<1>2. /\ UNCHANGED <<graph, live, pos, heard>> /\ UNCHANGED <<life, cleaned, said, code>>
      /\ calls' \in 0 .. MaxCalls
  BY <1>0, SessionAssumption DEF AttachSeal, Snapshot, Call, lifeVars, Globals
<1>3. /\ snapshots'[m] = snapshots[m] \cup {NewId} /\ missed'[m] = missed[m]
      /\ blind'[m] = IF f \in missed[m] THEN blind[m] \cup {NewId} ELSE blind[m]
      /\ \A n \in Manager \ {m} :
            /\ snapshots'[n] = snapshots[n] /\ missed'[n] = missed[n] \cup {f}
            /\ blind'[n] = blind[n]
      /\ DOMAIN snapshots' = Manager /\ DOMAIN missed' = Manager /\ DOMAIN blind' = Manager
  BY <1>0 DEF Checkpoint, Missed, Globals
<1>4. /\ pc' \in [Manager -> Places] /\ pc'[m] \in {"relist", "refresh"}
      /\ pc'[m] = "relist" => f = Main
      /\ \A n \in Manager \ {m} : pc'[n] = pc[n]
  <2>1. \/ Goto(m, "relist") /\ f = Main
        \/ Goto(m, "refresh")
    <3>1. CASE AttachSeal(m) /\ f = Main
      BY <3>1 DEF AttachSeal
    <3>2. CASE Snapshot(m, f)
      BY <1>1, <3>2 DEF Snapshot, sessionVars, Ids
    <3> QED
      BY <3>1, <3>2
  <2> QED
    BY <1>0, <2>1 DEF Goto, Globals, Places, Constructing, Working
<1>5. /\ job' \in [Manager -> [br : Fork, base : Nat, sid : Nat]]
      /\ job'[m].br = f /\ job'[m].sid = NewId /\ job'[m].base \in Marks
      /\ f \in missed[m] \/ job'[m].base = forks[f]
      /\ \A n \in Manager \ {m} : job'[n] = job[n]
  <2>0. Marks \subseteq Nat /\ job \in [Manager -> [br : Fork, base : Nat, sid : Nat]]
    BY <1>0 DEF Globals, Marks
  <2>1. CASE AttachSeal(m) /\ f = Main
    <3>1. pc[m] = "seal" /\ job' = [job EXCEPT ![m].sid = NewId]
      BY <2>1 DEF AttachSeal, At
    <3>2. /\ job[m].br = Main /\ job[m].base \in Marks
          /\ Main \in missed[m] \/ job[m].base = forks[Main]
      BY <1>0, <3>1 DEF JobOK, RecordsOK, At
    <3> QED
      BY <1>1, <2>0, <2>1, <3>1, <3>2
  <2>2. CASE Snapshot(m, f)
    <3>1. /\ job' = [job EXCEPT ![m] = [br |-> f, base |-> pos[m][f], sid |-> NewId]]
          /\ f \in DOMAIN pos[m]
      BY <1>0, <1>1, <2>2 DEF Snapshot, Known, RecordsOK, sessionVars, Ids
    <3>2. pos[m][f] \in Marks
      BY <1>0, <3>1 DEF RecordsOK, IsMap
    <3>3. f \in missed[m] \/ pos[m][f] = forks[f]
      BY <1>0, <1>1 DEF Tracks
    <3>4. [br |-> f, base |-> pos[m][f], sid |-> NewId] \in [br : Fork, base : Nat, sid : Nat]
      BY <1>1, <2>0, <3>2
    <3> QED
      BY <2>0, <3>1, <3>2, <3>3, <3>4
  <2> QED
    BY <2>1, <2>2
<1>6. Globals'
  BY <1>0, <1>1, <1>2, <1>3, <1>4, <1>5 DEF Globals
<1>7. /\ pc[Owner] # "absent" /\ pc'[Owner] # "absent"
  <2>1. pc[Owner] # "absent"
    BY <1>1, Built
  <2> QED
    BY <1>4, <2>1, SessionAssumption
<1>8. Unbuilt'
  BY <1>7 DEF Unbuilt, At
<1>9. LifeOK(m)' /\ \A n \in Manager : SameLife(n)
  BY <1>0, <1>1, <1>2 DEF ManagerInv, LifeOK, SameLife
<1>10. ASSUME NEW n \in Manager, n # m PROVE ManagerInv(n)'
  <2>1. SameRecords(n)
    BY <1>2, <1>3, <1>5, <1>10 DEF SameRecords
  <2>2. LifeOK(n)'
    BY <1>1, <1>2 DEF SessionInv, ManagerInv, LifeOK
  <2>3. missed'[n] = missed[n] \cup {f} /\ missed[n] \subseteq Fork /\ pc'[n] = pc[n]
    BY <1>3, <1>4, <1>10 DEF SessionInv, ManagerInv, RecordsOK
  <2> QED
    BY <1>1, <2>1, <2>2, <2>3, Kept DEF Unlisted
<1>11. RecordsOK(m)'
  <2>1. IsMap(graph[m], snapshots[m], Nodes')
    BY <1>0, <1>1, NodesGrow DEF RecordsOK
  <2>2. IsMap(live[m], Fork, Marks') /\ IsMap(pos[m], Fork, Marks')
    BY <1>0, <1>1 DEF RecordsOK, IsMap
  <2> QED
    BY <1>0, <1>1, <1>2, <1>3, <1>5, <2>1, <2>2 DEF RecordsOK, IsMap
<1>12. JobOK(m)'
  <2>1. NewId \notin DOMAIN graph[m]
    BY <1>0, <1>1 DEF RecordsOK, IsMap
  <2> QED
    BY <1>1, <1>2, <1>3, <1>4, <1>5, <2>1 DEF JobOK, At, Unlisted, Unrecorded
<1>13. Tracks(m)'
  <2>1. Unrecorded(m)'
    BY <1>4 DEF Unrecorded
  <2> QED
    BY <1>0, <1>1, <1>2, <1>3, <1>5, <2>1 DEF Tracks
<1>14. HistoryOf(m)'
  BY <1>0, <1>2, <1>3 DEF ManagerInv, HistoryOf
<1>15. LineageOf(m)'
  BY <1>0, <1>1, <1>2, <1>3 DEF ManagerInv, LineageOf, RecordsOK, IsMap, Grows
<1> QED
  BY <1>1, <1>6, <1>8, <1>9, <1>10, <1>11, <1>12, <1>13, <1>14, <1>15
     DEF SessionInv, ManagerInv

\* A call that fails leaves everything as it was.
LEMMA CallOnly ==
    ASSUME SessionInv, NEW m \in Manager, Call(m), UNCHANGED sessionVars, UNCHANGED recordVars,
           UNCHANGED lifeVars, UNCHANGED historyVars, UNCHANGED <<pc, job>>
    PROVE  SessionInv'
<1>0. Globals /\ ManagerInv(m) /\ calls' \in 0 .. MaxCalls
  BY SessionAssumption DEF SessionInv, Globals, Call
<1>1. GlobalsSame
  BY <1>0 DEF Globals, GlobalsSame, recordVars, lifeVars, historyVars
<1>2. \A n \in Manager : SameRecords(n) /\ SameLife(n) /\ missed'[n] = missed[n]
  BY DEF SameRecords, SameLife, recordVars, lifeVars, historyVars
<1>3. ManagerInv(m)'
  <2>1. Grows
    BY <1>0 DEF Grows, sessionVars, Globals
  <2>2. LifeOK(m)'
    BY <1>0 DEF ManagerInv, LifeOK, lifeVars, sessionVars
  <2>3. missed[m] \subseteq Fork /\ (~up => missed[m] = Fork)
    BY <1>0 DEF ManagerInv, RecordsOK, Tracks
  <2> QED
    BY <1>2, <2>1, <2>2, <2>3, Kept DEF sessionVars, Unlisted
<1>4. pc'[Owner] # "absent"
  BY Built DEF Call, At
<1> QED
  BY <1>1, <1>2, <1>3, <1>4, GlobalsKept, SessionKept DEF OnlyBy

\* A step of m, at rest, on a fork of the session: everybody else misses the fork.
LEMMA ForkChanged ==
    ASSUME SessionInv, NEW m \in Manager, NEW f \in Fork, up, UNCHANGED <<up, parent>>,
           UNCHANGED <<pc, job, snapshots, graph, heard, blind>>, UNCHANGED lifeVars,
           calls' \in 0 .. MaxCalls,
           DOMAIN live' = Manager, DOMAIN pos' = Manager, DOMAIN missed' = Manager,
           IsMap(forks', Fork, Marks), SessionOK',
           \A g \in Fork \ {f} :
              /\ g \in DOMAIN forks' <=> g \in DOMAIN forks
              /\ g \in DOMAIN forks => forks'[g] = forks[g],
           \A n \in Manager \ {m} :
              live'[n] = live[n] /\ pos'[n] = pos[n] /\ missed'[n] = missed[n] \cup {f},
           ManagerInv(m)'
    PROVE  SessionInv'
<1>0. Grows /\ Marks' = Marks /\ Ids' = Ids
  BY DEF Grows, Marks, Ids, SessionInv, Globals
<1>1. Globals'
  BY <1>0 DEF SessionInv, Globals, lifeVars
<1>2. Unbuilt'
  BY Built DEF Unbuilt, At
<1>3. ASSUME NEW n \in Manager, n # m PROVE ManagerInv(n)'
  <2>1. SameRecords(n)
    BY <1>3 DEF SameRecords
  <2>2. LifeOK(n)'
    BY DEF SessionInv, ManagerInv, LifeOK, lifeVars
  <2>3. missed'[n] = missed[n] \cup {f} /\ missed[n] \subseteq Fork
    BY <1>3 DEF SessionInv, ManagerInv, RecordsOK
  <2> QED
    BY <1>0, <2>1, <2>2, <2>3, Kept DEF Unlisted
<1> QED
  BY <1>1, <1>2, <1>3 DEF SessionInv

\* What a manager at rest has not touched.
LEMMA RestOfManager ==
    ASSUME SessionInv, NEW m \in Manager, At(m, "ready"), UNCHANGED <<up, parent>>,
           UNCHANGED <<pc, job, snapshots, graph, heard, blind>>, UNCHANGED lifeVars,
           IsMap(live'[m], Fork, Marks), IsMap(pos'[m], Fork, Marks),
           Main \in DOMAIN pos'[m], DOMAIN pos'[m] \subseteq DOMAIN live'[m] \cup {Main},
           missed'[m] \subseteq Fork, Tracks(m)'
    PROVE  ManagerInv(m)'
<1>0. Marks' = Marks /\ Ids' = Ids /\ Nodes' = Nodes /\ ManagerInv(m) /\ pc'[m] = "ready"
  BY DEF Marks, Ids, Nodes, SessionInv, At
<1>1. RecordsOK(m)'
  BY <1>0 DEF ManagerInv, RecordsOK
<1>2. LifeOK(m)' /\ JobOK(m)'
  BY <1>0 DEF ManagerInv, LifeOK, JobOK, lifeVars, At, Unlisted, Unrecorded
<1>3. HistoryOf(m)' /\ LineageOf(m)'
  BY <1>0 DEF ManagerInv, HistoryOf, LineageOf
<1> QED
  BY <1>1, <1>2, <1>3 DEF ManagerInv

\* A fork that succeeds is new to everybody; one whose output is not read, to its maker too.
LEMMA ForkSteps ==
    ASSUME SessionInv, NEW m \in Manager, NEW s \in Ids, NEW f \in Fork, ForkFrom(m, s, f)
    PROVE  SessionInv'
<1>0. /\ Globals /\ ManagerInv(m) /\ RecordsOK(m) /\ Tracks(m) /\ At(m, "ready")
      /\ calls' \in 0 .. MaxCalls /\ f \notin DOMAIN live[m] /\ f # Main
      /\ UNCHANGED <<up, parent, pc, job, snapshots, graph, heard, blind>>
      /\ UNCHANGED lifeVars
  BY SessionAssumption DEF SessionInv, ManagerInv, ForkFrom, Call, Globals
<1>1. CASE UNCHANGED <<forks, live, pos, missed>>
  <2>1. Call(m)
    BY DEF ForkFrom
  <2> QED
    BY <1>0, <1>1, <2>1, CallOnly DEF sessionVars, recordVars, historyVars
<1>2. CASE up /\ f \notin DOMAIN forks /\ forks' = With(forks, f, s)
  <2>1. /\ IsMap(forks', Fork, Marks) /\ DOMAIN forks' = DOMAIN forks \cup {f}
        /\ forks'[f] = s /\ \A g \in DOMAIN forks : forks'[g] = forks[g]
        /\ s \in Marks /\ s # NoSnapshot /\ Len(parent) # 0
    <3>1. s \in Marks /\ s # NoSnapshot /\ Len(parent) # 0
      BY <1>0 DEF Ids, Marks, NoSnapshot, Globals
    <3> QED
      BY <1>0, <1>2, <3>1 DEF With, IsMap, Globals
  <2>2. SessionOK'
    BY <1>0, <1>2, <2>1 DEF SessionInv, SessionOK
  <2>3. CASE /\ live' = [live EXCEPT ![m] = With(@, f, s)]
             /\ pos' = [pos EXCEPT ![m] = IF f \in DOMAIN @ THEN @ ELSE With(@, f, s)]
             /\ missed' = Missed(m, f)
    <3>1. f \notin DOMAIN pos[m]
      BY <1>0 DEF RecordsOK
    <3>2. /\ live'[m] = With(live[m], f, s) /\ pos'[m] = With(pos[m], f, s)
          /\ missed'[m] = missed[m]
          /\ DOMAIN live' = Manager /\ DOMAIN pos' = Manager /\ DOMAIN missed' = Manager
          /\ \A n \in Manager \ {m} :
                live'[n] = live[n] /\ pos'[n] = pos[n] /\ missed'[n] = missed[n] \cup {f}
      BY <1>0, <2>3, <3>1 DEF Globals, Missed
    <3>3. /\ DOMAIN live'[m] = DOMAIN live[m] \cup {f}
          /\ DOMAIN pos'[m] = DOMAIN pos[m] \cup {f} /\ pos'[m][f] = s
          /\ \A g \in DOMAIN pos[m] : pos'[m][g] = pos[m][g]
      BY <3>1, <3>2 DEF With
    <3>4. IsMap(live'[m], Fork, Marks)
      BY <1>0, <2>1, <3>2 DEF RecordsOK, IsMap, With
    <3>5. IsMap(pos'[m], Fork, Marks)
      BY <1>0, <2>1, <3>2 DEF RecordsOK, IsMap, With
    <3>6. Tracks(m)'
      <4>1. ~Unrecorded(m) /\ ~Unrecorded(m)'
        BY <1>0 DEF Unrecorded, At
      <4> QED
        BY <1>0, <1>2, <2>1, <3>2, <3>3, <4>1 DEF Tracks
    <3>7. ManagerInv(m)'
      BY <1>0, <3>2, <3>3, <3>4, <3>5, <3>6, RestOfManager DEF RecordsOK
    <3> QED
      BY <1>0, <1>2, <2>1, <2>2, <3>2, <3>7, ForkChanged
  <2>4. CASE missed' = [n \in Manager |-> missed[n] \cup {f}] /\ UNCHANGED <<live, pos>>
    <3>1. /\ IsMap(live'[m], Fork, Marks) /\ IsMap(pos'[m], Fork, Marks)
          /\ missed'[m] = missed[m] \cup {f} /\ missed[m] \subseteq Fork
      BY <1>0, <2>4 DEF RecordsOK
    <3>2. Tracks(m)'
      <4>1. ~Unrecorded(m) /\ ~Unrecorded(m)'
        BY <1>0 DEF Unrecorded, At
      <4> QED
        BY <1>0, <1>2, <2>1, <2>4, <3>1, <4>1 DEF Tracks
    <3>3. ManagerInv(m)'
      BY <1>0, <2>4, <3>1, <3>2, RestOfManager DEF RecordsOK
    <3>4. DOMAIN live' = Manager /\ DOMAIN pos' = Manager /\ DOMAIN missed' = Manager
      BY <1>0, <2>4 DEF Globals
    <3> QED
      BY <1>0, <1>2, <2>1, <2>2, <2>4, <3>3, <3>4, ForkChanged
  <2> QED
    BY <1>0, <1>2, <2>1, <2>3, <2>4 DEF ForkFrom
<1> QED
  BY <1>1, <1>2 DEF ForkFrom

\* A discarded fork leaves the session and the records of the manager that discards it.
LEMMA DiscardSteps ==
    ASSUME SessionInv, NEW m \in Manager, NEW f \in Fork, Discard(m, f)
    PROVE  SessionInv'
<1>0. /\ Globals /\ ManagerInv(m) /\ RecordsOK(m) /\ Tracks(m) /\ At(m, "ready")
      /\ calls' \in 0 .. MaxCalls /\ f # Main
      /\ UNCHANGED <<up, parent, pc, job, snapshots, graph, heard, blind>>
      /\ UNCHANGED lifeVars
  BY SessionAssumption DEF SessionInv, ManagerInv, Discard, Call, Globals
<1>1. CASE UNCHANGED <<forks, live, pos, missed>>
  <2>1. Call(m)
    BY DEF Discard
  <2> QED
    BY <1>0, <1>1, <2>1, CallOnly DEF sessionVars, recordVars, historyVars
<1>2. CASE /\ up /\ f \in DOMAIN forks /\ forks' = Without(forks, {f})
           /\ live' = [live EXCEPT ![m] = Without(@, {f})]
           /\ pos' = [pos EXCEPT ![m] = Without(@, {f})]
           /\ missed' = Missed(m, f)
  <2>1. /\ IsMap(forks', Fork, Marks) /\ DOMAIN forks' = DOMAIN forks \ {f}
        /\ \A g \in DOMAIN forks \ {f} : forks'[g] = forks[g]
    BY <1>0, <1>2 DEF Without, IsMap, Globals
  <2>2. SessionOK'
    BY <1>0, <1>2, <2>1 DEF SessionInv, SessionOK
  <2>3. /\ live'[m] = Without(live[m], {f}) /\ pos'[m] = Without(pos[m], {f})
        /\ missed'[m] = missed[m]
        /\ DOMAIN live' = Manager /\ DOMAIN pos' = Manager /\ DOMAIN missed' = Manager
        /\ \A n \in Manager \ {m} :
              live'[n] = live[n] /\ pos'[n] = pos[n] /\ missed'[n] = missed[n] \cup {f}
    BY <1>0, <1>2 DEF Globals, Missed
  <2>4. /\ DOMAIN live'[m] = DOMAIN live[m] \ {f} /\ DOMAIN pos'[m] = DOMAIN pos[m] \ {f}
        /\ \A g \in DOMAIN pos[m] \ {f} : pos'[m][g] = pos[m][g]
    BY <2>3 DEF Without
  <2>5. IsMap(live'[m], Fork, Marks) /\ IsMap(pos'[m], Fork, Marks)
    BY <1>0, <2>3 DEF RecordsOK, IsMap, Without
  <2>6. Tracks(m)'
    <3>1. ~Unrecorded(m) /\ ~Unrecorded(m)'
      BY <1>0 DEF Unrecorded, At
    <3> QED
      BY <1>0, <1>2, <2>1, <2>3, <2>4, <3>1 DEF Tracks
  <2>7. ManagerInv(m)'
    BY <1>0, <2>3, <2>4, <2>5, <2>6, RestOfManager DEF RecordsOK
  <2> QED
    BY <1>0, <1>2, <2>1, <2>2, <2>3, <2>7, ForkChanged
<1> QED
  BY <1>1, <1>2 DEF Discard

\* The session goes: nobody knows anything of it any more.
LEMMA TearDownSteps ==
    ASSUME SessionInv, NEW m \in Manager, CleanUp(m) \/ ForceCleanUp(m)
    PROVE  SessionInv'
<1>0. Globals /\ TearDown(m) /\ life[m] # "rest"
  BY DEF SessionInv, CleanUp, ForceCleanUp
<1>1. /\ ~up' /\ forks' = NoForks /\ UNCHANGED <<parent, pc, job, code, calls, heard, blind>>
      /\ UNCHANGED recordVars /\ missed' = [n \in Manager |-> Fork]
  BY <1>0 DEF TearDown
<1>2. Grows /\ Marks' = Marks /\ Ids' = Ids
  BY <1>0, <1>1 DEF Grows, Marks, Ids, Globals
<1>3. Globals'
  BY <1>0, <1>1, <1>2 DEF Globals, TearDown, recordVars, IsMap, NoForks
<1>4. SessionOK'
  BY <1>1 DEF SessionOK, NoForks
<1>5. Unbuilt'
  BY <1>0, <1>1, Built DEF Unbuilt, At
<1>6. ASSUME NEW n \in Manager PROVE ManagerInv(n)'
  <2>1. SameRecords(n)
    BY <1>1 DEF SameRecords, recordVars
  <2>2. LifeOK(n)'
    BY <1>0, <1>1 DEF SessionInv, ManagerInv, LifeOK, TearDown, Globals
  <2>3. missed'[n] = Fork /\ missed[n] \subseteq Fork
    BY <1>1 DEF SessionInv, ManagerInv, RecordsOK
  <2> QED
    BY <1>1, <1>2, <2>1, <2>2, <2>3, Kept DEF Unlisted
<1> QED
  BY <1>3, <1>4, <1>5, <1>6 DEF SessionInv

\* The session goes, and its cleanup has not noticed.
LEMMA BrokenSteps ==
    ASSUME SessionInv, NEW m \in Manager, CleanUpBreaks(m)
    PROVE  SessionInv'
<1>1. CASE UNCHANGED <<sessionVars, missed>>
  BY <1>1, PlaceSteps
<1>2. CASE ~UNCHANGED <<sessionVars, missed>>
  <2>0. Globals /\ life[m] # "rest"
    BY DEF SessionInv, CleanUpBreaks
  <2>1. /\ ~up' /\ up' \in BOOLEAN /\ forks' = NoForks
        /\ missed' = [n \in Manager |-> Fork]
        /\ UNCHANGED <<parent, job, cleaned, said, calls, heard, blind>>
        /\ UNCHANGED recordVars
    BY <1>2 DEF CleanUpBreaks, MaybeRemoved
  <2>2. /\ \E p \in Ends : Goto(m, p) /\ pc[m] \in Ending
        /\ life' = [life EXCEPT ![m] = "cleaning"] \/ life' = [life EXCEPT ![m] = "rest"]
        /\ code' \in {"none", "0", "1", "2", "130"}
    BY <2>0 DEF CleanUpBreaks, Ends, Ending, At, Globals
  <2>3. /\ pc' \in [Manager -> Places] /\ pc'[m] \in Ends /\ pc[m] \in Ending
        /\ \A n \in Manager \ {m} : pc'[n] = pc[n]
    BY <2>0, <2>2 DEF Goto, Globals, Ends, Places, Ending, Constructing
  <2>4. Grows /\ Marks' = Marks /\ Ids' = Ids
    BY <2>0, <2>1 DEF Grows, Marks, Ids, Globals
  <2>5. Globals'
    BY <2>0, <2>1, <2>2, <2>3, <2>4 DEF Globals, recordVars, IsMap, NoForks
  <2>6. SessionOK'
    BY <2>1 DEF SessionOK, NoForks
  <2>7. Unbuilt'
    <3>1. pc[Owner] # "absent"
      BY <2>0, Built
    <3> QED
      BY <2>3, <3>1, SessionAssumption DEF Unbuilt, At, Ends
  <2>8. ASSUME NEW n \in Manager PROVE ManagerInv(n)'
    <3>1. SameRecords(n)
      BY <2>1 DEF SameRecords, recordVars
    <3>2. LifeOK(n)'
      BY <2>0, <2>1, <2>2 DEF SessionInv, ManagerInv, LifeOK, Globals
    <3>3. missed'[n] = Fork /\ missed[n] \subseteq Fork
      BY <2>1 DEF SessionInv, ManagerInv, RecordsOK
    <3>4. \/ pc'[n] = pc[n]
          \/ n = m /\ ~Unrecorded(n) /\ ~Unlisted(n) /\ pc'[n] \in Ends \ {"sync"}
      <4>1. ASSUME n = m PROVE ~Unrecorded(n) /\ ~Unlisted(n) /\ pc'[n] # "sync"
        BY <2>0, <2>3, <4>1 DEF Unrecorded, Unlisted, Ending, CleanUpBreaks, Goto, Globals
      <4> QED
        BY <2>3, <4>1
    <3> QED
      BY <2>1, <2>4, <3>1, <3>2, <3>3, <3>4, Kept DEF Unlisted, Ends
  <2> QED
    BY <2>5, <2>6, <2>7, <2>8 DEF SessionInv
<1> QED
  BY <1>1, <1>2

\* The owner builds a session that nobody knows anything of.
LEMMA BuildSteps ==
    ASSUME SessionInv, Build
    PROVE  SessionInv'
<1>0. /\ Globals /\ pc[Owner] = "absent" /\ ~up /\ parent = << >>
      /\ \A n \in Manager : said[n] = "nothing"
  BY DEF SessionInv, Unbuilt, Build, At
<1>1. /\ up' = TRUE /\ forks' = [f \in {Main} |-> NoSnapshot]
      /\ UNCHANGED <<parent, job, life, cleaned, said, calls>>
      /\ UNCHANGED recordVars /\ UNCHANGED historyVars
      /\ code' \in {"none", "0", "1", "2", "130"}
  BY <1>0 DEF Build, Globals
<1>2. /\ pc' \in [Manager -> Places] /\ pc'[Owner] \in {"sync", "lost"}
      /\ \A n \in Manager \ {Owner} : pc'[n] = pc[n]
  <2>1. Goto(Owner, "sync") \/ Goto(Owner, "lost")
    BY DEF Build
  <2>2. pc \in [Manager -> Places] /\ "sync" \in Places /\ "lost" \in Places
    BY <1>0 DEF Globals, Places, Constructing
  <2> QED
    BY <2>1, <2>2, SessionAssumption DEF Goto
<1>3. Grows /\ Marks' = Marks /\ Ids' = Ids /\ Len(parent) = 0
  BY <1>0, <1>1 DEF Grows, Marks, Ids, Globals
<1>4. IsMap(forks', Fork, Marks')
  BY <1>1, <1>3, SessionAssumption DEF IsMap, Marks, NoSnapshot
<1>5. Globals'
  BY <1>0, <1>1, <1>2, <1>3, <1>4 DEF Globals, recordVars, historyVars
<1>6. SessionOK'
  BY <1>1, <1>3 DEF SessionOK
<1>7. Unbuilt'
  BY <1>2 DEF Unbuilt, At
<1>8. ASSUME NEW n \in Manager PROVE ManagerInv(n)'
  <2>1. SameRecords(n)
    BY <1>1 DEF SameRecords, recordVars, historyVars
  <2>2. LifeOK(n)'
    BY <1>0, <1>1 DEF SessionInv, ManagerInv, LifeOK
  <2>3. missed'[n] = Fork /\ missed[n] = Fork
    BY <1>0, <1>1 DEF SessionInv, ManagerInv, Tracks, historyVars
  <2>4. pc'[n] = pc[n] \/ (pc[n] = "absent" /\ pc'[n] \in {"sync", "lost"})
    BY <1>0, <1>2
  <2> QED
    BY <1>3, <2>1, <2>2, <2>3, <2>4, Kept DEF Unlisted, Unrecorded
<1> QED
  BY <1>5, <1>6, <1>7, <1>8 DEF SessionInv

-----------------------------------------------------------------------------
(* The end of a snapshot hook.                                             *)

\* A new node is linked to its parent, if the parent has one; the others keep theirs.
LEMMA RecordNodeLinks ==
    ASSUME NEW g, NEW S \in SUBSET Ids, IsMap(g, S, Nodes), NEW s \in S, s \notin DOMAIN g,
           NEW p \in Marks
    PROVE  /\ IsMap(RecordNode(g, s, p), S, Nodes)
           /\ DOMAIN RecordNode(g, s, p) = DOMAIN g \cup {s}
           /\ RecordNode(g, s, p)[s].parent = p
           /\ \A x \in DOMAIN g :
                 /\ RecordNode(g, s, p)[x].parent = g[x].parent
                 /\ g[x].children \subseteq RecordNode(g, s, p)[x].children
<1> DEFINE h == RecordNode(g, s, p)
<1>1. DOMAIN h = DOMAIN g \cup {s} /\ h[s] = [parent |-> p, children |-> {}]
  BY DEF RecordNode
<1>2. h[s] \in Nodes
  BY <1>1 DEF Nodes
<1>3. ASSUME NEW x \in DOMAIN g
      PROVE  h[x] \in Nodes /\ h[x].parent = g[x].parent /\ g[x].children \subseteq h[x].children
  <2>1. h[x] = IF x = p THEN [g[x] EXCEPT !.children = @ \cup {s}] ELSE g[x]
    BY DEF RecordNode
  <2>2. g[x] \in Nodes /\ s \in Ids
    BY DEF IsMap
  <2> HIDE DEF h
  <2> QED
    BY <2>1, <2>2 DEF Nodes
<1>4. h = [x \in DOMAIN h |-> h[x]]
  BY DEF RecordNode
<1> HIDE DEF h
<1>5. IsMap(h, S, Nodes)
  <2>1. \A x \in DOMAIN h : h[x] \in Nodes
    BY <1>1, <1>2, <1>3
  <2>2. DOMAIN h \subseteq S
    BY <1>1 DEF IsMap
  <2> QED
    BY <1>4, <2>1, <2>2 DEF IsMap
<1> QED
  BY <1>1, <1>3, <1>5 DEF h

\* What the listing in the hook of checkpoint s of f leaves, with any records l that
\* have the branches of r and s or the listed base for f, or s for main.
LEMMA RefreshedTracks ==
    ASSUME SessionInv, NEW m \in Manager, Unrecorded(m), NEW f, f = job[m].br,
           NEW s, s = job[m].sid, NEW r \in Refreshed(m, f, s), NEW l,
           \/ l = r.live
           \/ l = With(r.live, f, s) /\ (f \in DOMAIN r.live \/ f = Main)
    PROVE  /\ IsMap(l, Fork, Marks) /\ IsMap(r.pos, Fork, Marks)
           /\ Main \in DOMAIN r.pos /\ DOMAIN r.pos \subseteq DOMAIN l \cup {Main}
           /\ r.missed \subseteq Fork
           /\ ~up => r.missed = Fork
           /\ \A g \in Fork \ r.missed :
                 /\ g \in DOMAIN l <=> g \in DOMAIN forks
                 /\ g \in DOMAIN forks => g \in DOMAIN r.pos /\ r.pos[g] = forks[g]
<1>0. /\ Globals /\ RecordsOK(m) /\ Tracks(m) /\ f \in Fork /\ s \in Marks
      /\ IsMap(forks, Fork, Marks)
  <2>1. Globals /\ RecordsOK(m) /\ JobOK(m) /\ Tracks(m)
    BY DEF SessionInv, ManagerInv
  <2>2. s \in Ids
    BY <2>1 DEF JobOK, RecordsOK
  <2>3. s \in Marks
    BY <2>1, <2>2 DEF Ids, Marks, Globals
  <2> QED
    BY <2>1, <2>3 DEF Globals
<1> DEFINE moved(p) == IF f \in DOMAIN p THEN With(p, f, s) ELSE p
<1>1. ASSUME NEW p, IsMap(p, Fork, Marks)
      PROVE  /\ IsMap(moved(p), Fork, Marks) /\ DOMAIN moved(p) = DOMAIN p
             /\ f \in DOMAIN p => moved(p)[f] = s
             /\ \A g \in DOMAIN p : g # f => moved(p)[g] = p[g]
  BY <1>0, <1>1 DEF With, IsMap
<1>2. ASSUME IsMap(r.live, Fork, Marks)
      PROVE  /\ IsMap(l, Fork, Marks)
             /\ DOMAIN l = DOMAIN r.live \/ DOMAIN l = DOMAIN r.live \cup {Main}
  BY <1>0, <1>2 DEF With, IsMap
<1>3. CASE /\ up /\ r.live = Listed(m) /\ r.pos = moved(Repositioned(m))
           /\ r.missed = IF f \in DOMAIN forks /\ forks[f] # s THEN {f} ELSE {}
  <2>0. Main \in DOMAIN forks
    BY <1>3 DEF SessionInv, SessionOK
  <2>1. /\ r.live = forks /\ IsMap(Repositioned(m), Fork, Marks)
        /\ DOMAIN Repositioned(m) = DOMAIN forks
        /\ \A g \in DOMAIN forks : Repositioned(m)[g] = forks[g]
    BY <1>3, ListingIsTrue
  <2>2. IsMap(l, Fork, Marks) /\ DOMAIN l = DOMAIN forks
    BY <1>0, <1>2, <2>0, <2>1
  <2>3. /\ IsMap(r.pos, Fork, Marks) /\ DOMAIN r.pos = DOMAIN forks
        /\ f \in DOMAIN forks => r.pos[f] = s
        /\ \A g \in DOMAIN forks : g # f => r.pos[g] = forks[g]
    BY <1>1, <1>3, <2>1
  <2> QED
    BY <1>0, <1>3, <2>0, <2>2, <2>3
<1>4. CASE r.live = live[m] /\ r.pos = moved(pos[m]) /\ r.missed = missed[m]
  <2>1. /\ IsMap(l, Fork, Marks)
        /\ DOMAIN l = DOMAIN live[m] \/ DOMAIN l = DOMAIN live[m] \cup {Main}
    BY <1>0, <1>2, <1>4 DEF RecordsOK
  <2>2. /\ IsMap(r.pos, Fork, Marks) /\ DOMAIN r.pos = DOMAIN pos[m]
        /\ f \in DOMAIN pos[m] => r.pos[f] = s
        /\ \A g \in DOMAIN pos[m] : g # f => r.pos[g] = pos[m][g]
    BY <1>0, <1>1, <1>4 DEF RecordsOK
  <2>3. Main \notin missed[m] => Main \in DOMAIN forks /\ Main \in DOMAIN live[m]
    BY <1>0, SessionAssumption DEF SessionInv, SessionOK, Tracks
  <2> QED
    BY <1>0, <1>4, <2>1, <2>2, <2>3 DEF RecordsOK, Tracks
<1>5. \/ /\ up /\ r.live = Listed(m) /\ r.pos = moved(Repositioned(m))
         /\ r.missed = IF f \in DOMAIN forks /\ forks[f] # s THEN {f} ELSE {}
      \/ r.live = live[m] /\ r.pos = moved(pos[m]) /\ r.missed = missed[m]
  BY DEF Refreshed
<1> QED
  BY <1>3, <1>4, <1>5

\* The new checkpoint gets its node, and the manager is at rest.
LEMMA RecordSteps ==
    ASSUME SessionInv, NEW m \in Manager, AttachRecord(m) \/ SnapshotRecord(m)
    PROVE  SessionInv'
<1> DEFINE s == job[m].sid
           f == job[m].br
<1>0. /\ Globals /\ ManagerInv(m) /\ RecordsOK(m) /\ JobOK(m) /\ Unrecorded(m)
      /\ s \in snapshots[m] \ DOMAIN graph[m] /\ job[m].base \in Marks
      /\ s \in blind[m] \/ job[m].base = parent[s]
      /\ At(m, "relist") => f = Main
  <2>1. Globals /\ ManagerInv(m) /\ Unrecorded(m)
    BY DEF SessionInv, AttachRecord, SnapshotRecord, Unrecorded, At
  <2> QED
    BY <2>1 DEF ManagerInv, JobOK, RecordsOK, At
<1>1. /\ UNCHANGED sessionVars /\ UNCHANGED <<snapshots, heard, blind, calls, life, said, code>>
      /\ cleaned' = cleaned \/ cleaned' = [cleaned EXCEPT ![m] = FALSE]
      /\ job' = [job EXCEPT ![m] = NoJob] /\ Goto(m, "ready")
      /\ graph' = [graph EXCEPT ![m] = RecordNode(graph[m], s, job[m].base)]
  BY <1>0 DEF AttachRecord, SnapshotRecord, lifeVars
<1>2. PICK r \in Refreshed(m, f, s), l \in {live'[m]} :
         /\ Refresh(m, r, l)
         /\ \/ l = r.live
            \/ l = With(r.live, f, s) /\ (f \in DOMAIN r.live \/ f = Main)
  <2>1. CASE AttachRecord(m)
    <3>1. PICK r \in Refreshed(m, Main, s) :
             Refresh(m, r, IF Main \in DOMAIN r.live THEN r.live ELSE With(r.live, Main, s))
      BY <2>1 DEF AttachRecord
    <3>2. live'[m] = IF Main \in DOMAIN r.live THEN r.live ELSE With(r.live, Main, s)
      BY <1>0, <3>1 DEF Refresh, Globals
    <3>3. f = Main
      BY <1>0, <2>1 DEF AttachRecord
    <3> QED
      BY <3>1, <3>2, <3>3
  <2>2. CASE SnapshotRecord(m)
    <3>1. PICK r \in Refreshed(m, f, s) :
             Refresh(m, r, IF f \in DOMAIN r.live THEN With(r.live, f, s) ELSE r.live)
      BY <2>2 DEF SnapshotRecord
    <3>2. live'[m] = IF f \in DOMAIN r.live THEN With(r.live, f, s) ELSE r.live
      BY <1>0, <3>1 DEF Refresh, Globals
    <3> QED
      BY <3>1, <3>2
  <2> QED
    BY <2>1, <2>2
<1>3. /\ live'[m] = l /\ pos'[m] = r.pos /\ missed'[m] = r.missed
      /\ DOMAIN live' = Manager /\ DOMAIN pos' = Manager /\ DOMAIN missed' = Manager
      /\ \A n \in Manager \ {m} :
            live'[n] = live[n] /\ pos'[n] = pos[n] /\ missed'[n] = missed[n]
  BY <1>0, <1>2 DEF Refresh, Globals
<1>4. /\ IsMap(l, Fork, Marks) /\ IsMap(r.pos, Fork, Marks)
      /\ Main \in DOMAIN r.pos /\ DOMAIN r.pos \subseteq DOMAIN l \cup {Main}
      /\ r.missed \subseteq Fork
      /\ ~up => r.missed = Fork
      /\ \A g \in Fork \ r.missed :
            /\ g \in DOMAIN l <=> g \in DOMAIN forks
            /\ g \in DOMAIN forks => g \in DOMAIN r.pos /\ r.pos[g] = forks[g]
  BY <1>0, <1>2, RefreshedTracks
<1>5. /\ pc' \in [Manager -> Places] /\ pc'[m] = "ready"
      /\ \A n \in Manager \ {m} : pc'[n] = pc[n]
  BY <1>0, <1>1 DEF Goto, Globals, Places, Working
<1>6. /\ job' \in [Manager -> [br : Fork, base : Nat, sid : Nat]]
      /\ job'[m] = NoJob /\ \A n \in Manager \ {m} : job'[n] = job[n]
  <2>1. NoJob \in [br : Fork, base : Nat, sid : Nat]
    BY SessionAssumption DEF NoJob, NoSnapshot
  <2> QED
    BY <1>0, <1>1, <2>1 DEF Globals
<1>7. /\ graph'[m] = RecordNode(graph[m], s, job[m].base) /\ DOMAIN graph' = Manager
      /\ \A n \in Manager \ {m} : graph'[n] = graph[n]
  BY <1>0, <1>1 DEF Globals
<1>8. /\ IsMap(graph'[m], snapshots[m], Nodes) /\ DOMAIN graph'[m] = DOMAIN graph[m] \cup {s}
      /\ graph'[m][s].parent = job[m].base
      /\ \A x \in DOMAIN graph[m] :
            /\ graph'[m][x].parent = graph[m][x].parent
            /\ graph[m][x].children \subseteq graph'[m][x].children
  <2>1. /\ snapshots[m] \in SUBSET Ids /\ IsMap(graph[m], snapshots[m], Nodes)
        /\ s \in snapshots[m] /\ s \notin DOMAIN graph[m]
    BY <1>0 DEF RecordsOK
  <2> QED
    BY <1>0, <1>7, <2>1, RecordNodeLinks
<1>9. pc'[Owner] # "absent"
  <2>1. pc[Owner] # "absent"
    BY <1>0, Built DEF Unrecorded
  <2> QED
    BY <1>5, <2>1, SessionAssumption
<1>10. GlobalsSame
  BY <1>0, <1>1, <1>3, <1>5, <1>6, <1>7 DEF GlobalsSame, Globals
<1>11. \A n \in Manager \ {m} : SameRecords(n) /\ SameLife(n)
  BY <1>0, <1>1, <1>3, <1>6, <1>7 DEF SameRecords, SameLife, Globals
<1>12. ManagerInv(m)'
  <2>0. /\ Marks' = Marks /\ Ids' = Ids /\ Nodes' = Nodes /\ NoSnapshot \in Marks
        /\ ~Unrecorded(m)' /\ ~Unlisted(m)' /\ ~At(m, "seal")'
    BY <1>0, <1>1, <1>5 DEF Marks, Ids, Nodes, sessionVars, Unrecorded, Unlisted, At, Globals,
                            NoSnapshot
  <2>1. RecordsOK(m)'
    BY <1>0, <1>1, <1>3, <1>4, <1>6, <1>8, <2>0 DEF RecordsOK, NoJob
  <2>2. LifeOK(m)'
    BY <1>0, <1>1 DEF ManagerInv, LifeOK, sessionVars, Globals
  <2>3. JobOK(m)'
    BY <1>6, <2>0 DEF JobOK, NoJob
  <2>4. Tracks(m)'
    BY <1>1, <1>3, <1>4, <2>0 DEF Tracks, sessionVars
  <2>5. HistoryOf(m)'
    BY <1>0, <1>1, <1>8 DEF ManagerInv, HistoryOf
  <2>6. LineageOf(m)'
    BY <1>0, <1>1, <1>8 DEF ManagerInv, LineageOf, sessionVars
  <2> QED
    BY <2>1, <2>2, <2>3, <2>4, <2>5, <2>6 DEF ManagerInv
<1> QED
  BY <1>1, <1>3, <1>5, <1>9, <1>10, <1>11, <1>12, GlobalsKept, SessionKept DEF OnlyBy

-----------------------------------------------------------------------------
(* The invariant, and what follows from it.                                *)

\* Nobody has any records, and there is no session.
LEMMA InitSession ==
    ASSUME Init
    PROVE  SessionInv
<1>1. Len(parent) = 0 /\ Marks = {NoSnapshot} /\ Ids = {}
  BY DEF Init, Marks, Ids, NoSnapshot
<1>2. NoJob \in [br : Fork, base : Nat, sid : Nat] /\ NoJob.br = Main /\ NoJob.base \in Marks
  BY <1>1, SessionAssumption DEF NoJob, NoSnapshot
<1>3. Globals
  <2>1. parent = << >> /\ parent \in Seq(0 .. MaxCheckpoints) /\ Len(parent) <= MaxCheckpoints
    BY <1>1, SessionAssumption DEF Init
  <2>2. IsMap(forks, Fork, Marks) /\ \A i \in Ids : parent[i] \in Marks
    BY <1>1 DEF Init, IsMap, NoForks
  <2>3. pc \in [Manager -> Places] /\ job \in [Manager -> [br : Fork, base : Nat, sid : Nat]]
    BY <1>2 DEF Init, NoRecords, Places
  <2> QED
    <3>1. /\ DOMAIN snapshots = Manager /\ DOMAIN graph = Manager
          /\ DOMAIN live = Manager /\ DOMAIN pos = Manager
          /\ DOMAIN life = Manager /\ DOMAIN cleaned = Manager /\ DOMAIN said = Manager
          /\ DOMAIN heard = Manager /\ DOMAIN missed = Manager /\ DOMAIN blind = Manager
      BY DEF Init, NoRecords
    <3>2. up = FALSE /\ code = "none" /\ calls = 0
      BY DEF Init
    <3>3. calls \in 0 .. MaxCalls
      BY <3>2, SessionAssumption
    <3> QED
      BY <2>1, <2>2, <2>3, <3>1, <3>2, <3>3 DEF Globals
<1>4. SessionOK /\ Unbuilt
  BY DEF Init, SessionOK, Unbuilt, NoForks, At
<1>5. ASSUME NEW m \in Manager PROVE ManagerInv(m)
  <2>1. /\ snapshots[m] = {} /\ graph[m] = << >> /\ live[m] = NoForks
        /\ pos[m] = [f \in {Main} |-> NoSnapshot] /\ job[m] = NoJob
        /\ heard[m] = {} /\ missed[m] = Fork /\ blind[m] = {}
        /\ pc[m] = "absent" /\ life[m] = "rest" /\ cleaned[m] = FALSE /\ said[m] = "nothing"
    BY DEF Init, NoRecords
  <2>2. RecordsOK(m)
    BY <1>1, <1>2, <2>1, SessionAssumption DEF RecordsOK, IsMap, NoForks
  <2>3. LifeOK(m) /\ JobOK(m) /\ Tracks(m)
    BY <1>2, <2>1 DEF LifeOK, JobOK, Tracks, At, Unrecorded
  <2>4. HistoryOf(m) /\ LineageOf(m)
    BY <2>1 DEF HistoryOf, LineageOf
  <2> QED
    BY <2>2, <2>3, <2>4 DEF ManagerInv
<1> QED
  BY <1>3, <1>4, <1>5 DEF SessionInv

\* One step per operation.
LEMMA SessionStep ==
    ASSUME SessionInv, Next
    PROVE  SessionInv'
<1>1. ASSUME NEW m \in Manager, Begin(m) PROVE SessionInv'
  <2>1. CASE Attach(m) \/ ProbeFails(m)
    BY <2>1, PlaceSteps
  <2>2. CASE Sync(m)
    BY <2>2, SyncSteps
  <2>3. CASE List(m)
    BY <2>3, ListSteps
  <2>4. ASSUME NEW f \in Fork, Snapshot(m, f) PROVE SessionInv'
    <3>1. CASE Checkpoint(m, f)
      BY <2>4, <3>1, CheckpointSteps
    <3>2. CASE UNCHANGED <<sessionVars, job, pc, snapshots, missed, blind>>
      BY <2>4, <3>2, CallOnly DEF Snapshot, recordVars, historyVars
    <3> QED
      BY <2>4, <3>1, <3>2 DEF Snapshot
  <2>5. ASSUME NEW f \in Fork, Discard(m, f) PROVE SessionInv'
    BY <2>5, DiscardSteps
  <2>6. ASSUME NEW s \in Ids, NEW f \in Fork, ForkFrom(m, s, f) PROVE SessionInv'
    BY <2>6, ForkSteps
  <2>7. CASE Drop(m)
    BY <2>7, ForgetSteps
  <2> QED
    BY <1>1, <2>1, <2>2, <2>3, <2>4, <2>5, <2>6, <2>7 DEF Begin
<1>2. ASSUME NEW m \in Manager, Continue(m) PROVE SessionInv'
  <2>1. CASE AttachSync(m)
    BY <2>1, SyncSteps
  <2>2. CASE AttachList(m)
    BY <2>2, ListSteps
  <2>3. CASE AttachSeal(m)
    BY <2>3, CheckpointSteps, SessionAssumption DEF AttachSeal
  <2>4. CASE AttachFails(m)
    BY <2>4, ForgetSteps
  <2>5. CASE AttachRecord(m) \/ SnapshotRecord(m)
    BY <2>5, RecordSteps
  <2>6. CASE CleanUp(m) \/ ForceCleanUp(m)
    BY <2>6, TearDownSteps
  <2>7. CASE CleanUpFails(m) \/ ForceFails(m) \/ Finalize(m)
    BY <2>7, PlaceSteps
  <2>8. CASE CleanUpBreaks(m)
    BY <2>8, BrokenSteps
  <2> QED
    BY <1>2, <2>1, <2>2, <2>3, <2>4, <2>5, <2>6, <2>7, <2>8 DEF Continue
<1>3. CASE Build
  BY <1>3, BuildSteps
<1>4. CASE BuildFails
  BY <1>4, PlaceSteps, SessionAssumption
<1>5. CASE Exit \/ Interrupt \/ InterruptStart \/ Crash
  BY <1>5, ForgetSteps, SessionAssumption
<1> QED
  BY <1>1, <1>2, <1>3, <1>4, <1>5 DEF Next, Shell

\* Nothing changes when nobody moves.
LEMMA SessionStutter ==
    ASSUME SessionInv, UNCHANGED vars
    PROVE  SessionInv'
<1>1. Globals' /\ SessionOK' /\ Unbuilt' /\ Grows
  <2>1. Marks' = Marks /\ Ids' = Ids
    BY DEF vars, Marks, Ids
  <2>2. Globals'
    BY <2>1 DEF SessionInv, Globals, vars
  <2> QED
    <3>1. SessionOK'
      BY DEF SessionInv, SessionOK, vars
    <3>2. Unbuilt'
      BY DEF SessionInv, Unbuilt, vars, At
    <3>3. Grows
      BY DEF SessionInv, Globals, Grows, vars
    <3> QED
      BY <2>2, <3>1, <3>2, <3>3
<1>2. ASSUME NEW m \in Manager PROVE ManagerInv(m)'
  <2>1. SameRecords(m)
    BY DEF SameRecords, vars
  <2>2. LifeOK(m)'
    BY DEF SessionInv, ManagerInv, LifeOK, vars
  <2>3. missed[m] \subseteq Fork /\ (~up => missed[m] = Fork)
    BY DEF SessionInv, ManagerInv, RecordsOK, Tracks
  <2> QED
    BY <1>1, <2>1, <2>2, <2>3, Kept DEF vars, Unlisted
<1> QED
  BY <1>1, <1>2 DEF SessionInv

\* The session, the records of its managers and what they believe of each other's forks
\* and checkpoints stay in step, whatever fails.
THEOREM SessionInvariant == Spec => []SessionInv
<1>1. Init => SessionInv
  BY InitSession
<1>2. SessionInv /\ [Next]_vars => SessionInv'
  BY SessionStep, SessionStutter
<1> QED
  BY <1>1, <1>2, PTL DEF Spec

\* Every record holds names of forks and checkpoints of the session.
THEOREM TypesCorrect == Spec => []TypeOK
<1>1. SessionInv => TypeOK
  <2> SUFFICES ASSUME SessionInv PROVE TypeOK
    OBVIOUS
  <2>1. Marks \subseteq 0 .. MaxCheckpoints /\ Marks \subseteq Nat
    BY SessionAssumption DEF SessionInv, Globals, Marks
  <2>2. IsMap(forks, Fork, 0 .. MaxCheckpoints)
    BY <2>1 DEF SessionInv, Globals, IsMap
  <2>3. ASSUME NEW m \in Manager
        PROVE  /\ IsMap(graph[m], snapshots[m], [parent : Nat, children : SUBSET Ids])
               /\ IsMap(live[m], Fork, Nat) /\ IsMap(pos[m], Fork, Nat)
    <3>1. RecordsOK(m) /\ Nodes \subseteq [parent : Nat, children : SUBSET Ids]
      BY <2>1 DEF SessionInv, ManagerInv, Nodes
    <3> QED
      BY <2>1, <3>1 DEF RecordsOK, IsMap
  <2> QED
    BY <2>2, <2>3 DEF SessionInv, Globals, ManagerInv, RecordsOK, LifeOK, TypeOK
<1> QED
  BY <1>1, SessionInvariant, PTL

\* A checkpoint that the last reading of the tree reported can be forked, has a node and
\* hangs below its parent's, in whatever order the managers have sealed, recorded and
\* read.
THEOREM HistoryIsInherited == Spec => []HistoryInherited
<1>1. SessionInv => HistoryInherited
  BY DEF SessionInv, ManagerInv, HistoryOf, HistoryInherited
<1> QED
  BY <1>1, SessionInvariant, PTL

\* A recorded parent is the true one, but for checkpoints made on a fork that somebody
\* else had changed.
THEOREM LineageIsTrue == Spec => []LineageTrue
<1>1. SessionInv => LineageTrue
  BY DEF SessionInv, ManagerInv, LineageOf, LineageTrue
<1> QED
  BY <1>1, SessionInvariant, PTL

\* What a manager at rest believes of a fork is right, unless somebody else has changed
\* the fork since the last listing.
THEOREM RegistryIsCurrent == Spec => []RegistryCurrent
<1>1. SessionInv => RegistryCurrent
  BY DEF SessionInv, ManagerInv, Tracks, RegistryCurrent, Unrecorded, At
<1> QED
  BY <1>1, SessionInvariant, PTL

\* A cleanup that answers True has ended the session.
THEOREM CleanupIsTruthful == Spec => []CleanupTruthful
<1>1. SessionInv => CleanupTruthful
  BY DEF SessionInv, ManagerInv, LifeOK, CleanupTruthful
<1> QED
  BY <1>1, SessionInvariant, PTL
=============================================================================
