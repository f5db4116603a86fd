----------------------- MODULE SearchVerdict_proofs -----------------------
(***************************************************************************)
(* What the exit code of the search script is worth, for any number of     *)
(* candidates, generations and failing calls and any target: 0 proves that *)
(* the search was done, and a run in which no call fails never reports a   *)
(* failure.                                                                *)
(***************************************************************************)
EXTENDS SearchWorkflow_proofs, FiniteSetTheorems, FunctionTheorems

\* No assertion has failed, and nothing was raised.
Clean == failed = {} /\ code = "running"

\* How many generations there are at which step.
LengthOK ==
    /\ step \in {"build", "prepare", "seal_main", "fork", "work"} => Len(gens) < plan.generations
    /\ step \in {"seal_winner", "park_runner", "discard", "decide"} => Len(gens) <= plan.generations
    /\ step \in Backtracking \cup {"report", "cleanup"} => Len(gens) = plan.generations

\* The winner of generation g is sealed, as it was recorded, on the one before it.
Continues(g) ==
    /\ gens[g].checkpoint # 0
    /\ saved[gens[g].checkpoint].at.by = gens[g].winner
    /\ saved[gens[g].checkpoint].at.value = gens[g].value
    /\ saved[gens[g].checkpoint].parent = SourceOf(g)

ChainOK == \A g \in DOMAIN gens : g < Len(gens) \/ step # "seal_winner" => Continues(g)

\* What the steps after a generation have established.
EndOK ==
    /\ step = "seal_winner" => forks[Winner].at.by = Winner
    /\ step \in {"revive", "export", "report", "cleanup"} => current = Main
    /\ step \in {"report", "cleanup"} => exported = saved[Last.checkpoint].at /\ exported.files
    /\ step = "cleanup" => summary = plan.fanout * plan.generations

\* The candidates that are through, and the entries that they have made.
Through == {c \in DOMAIN worker : worker[c] = "done"}

CountOK ==
    /\ step = "work" => /\ Batch(Number) \subseteq DOMAIN forks
                        /\ Len(log) = plan.fanout * Len(gens) + Cardinality(Through)
    /\ step # "work" => Len(log) = plan.fanout * Len(gens)

SoFar == LengthOK /\ ChainOK /\ EndOK /\ CountOK

CodeOK ==
    /\ code \in {"running", "exception", "failures", "zero"}
    /\ step \notin {"cleanup", "write_summary", "exit", "done"} => code = "running"
    /\ step \in {"cleanup", "write_summary"} => code \in {"running", "exception"}
    /\ step \in {"exit", "done"} => code # "running"

VerdictInv ==
    /\ SearchInv
    /\ CodeOK
    /\ Clean => IF step = "write_summary" THEN SearchDone ELSE SoFar
    /\ ExitZeroMeansDone

-----------------------------------------------------------------------------
(* Steps outside a generation.                                             *)

\* Steps of the script itself that change no record of a generation.
Calm ==
    \/ Build \/ Decide \/ ReportStats
    \/ \E mkdir, copied, ran \in BOOLEAN : Prepare(mkdir, copied, ran)
    \/ \E stuck \in SUBSET DOMAIN worker : DiscardRest(stuck)
    \/ \E done, ok \in BOOLEAN : WriteAlternate(done, ok)
    \/ \E ok, stuck \in BOOLEAN : RestoreWinner(ok, stuck)
    \/ \E ok \in BOOLEAN : \/ SealMain(ok) \/ RestorePrepared(ok) \/ ForkAlternate(ok)
                           \/ ParkCurrent(ok) \/ Revive(ok) \/ Export(ok)

\* They make a checkpoint at most, and leave the log alone.
LEMMA CalmFootprint ==
    ASSUME Calm
    PROVE  /\ UNCHANGED <<plan, gens, code, log>> /\ failed \subseteq failed'
           /\ step \notin {"work", "seal_winner", "park_runner", "cleanup", "write_summary", "exit", "done"}
           /\ step' \notin {"work", "write_summary", "exit", "done"}
           /\ prepared' = prepared \/ step = "seal_main"
           /\ saved' = saved \/ step = "build" \/ \E x : saved' = Append(saved, x)
<1>1. CASE Build \/ Decide \/ ReportStats
  BY <1>1 DEF Build, Decide, ReportStats, searchVars, endVars, benchVars, treeVars
<1>2. CASE \E mkdir, copied, ran \in BOOLEAN : Prepare(mkdir, copied, ran)
  BY <1>2 DEF Prepare, searchVars, endVars, benchVars
<1>3. CASE \E stuck \in SUBSET DOMAIN worker : DiscardRest(stuck)
  BY <1>3 DEF DiscardRest, searchVars, endVars, benchVars
<1>4. CASE \E done, ok \in BOOLEAN : WriteAlternate(done, ok)
  BY <1>4 DEF WriteAlternate, searchVars, endVars, benchVars
<1>5. CASE \E ok, stuck \in BOOLEAN : RestoreWinner(ok, stuck)
  BY <1>5 DEF RestoreWinner, searchVars, endVars, benchVars
<1>6. CASE \E ok \in BOOLEAN : SealMain(ok)
  BY <1>6 DEF SealMain, Sealed, endVars, benchVars
<1>7. CASE \E ok \in BOOLEAN : RestorePrepared(ok) \/ ForkAlternate(ok)
  BY <1>7 DEF RestorePrepared, ForkAlternate, searchVars, endVars, benchVars
<1>8. CASE \E ok \in BOOLEAN : ParkCurrent(ok)
  BY <1>8 DEF ParkCurrent, Sealed, treeVars, searchVars, endVars, benchVars
<1>9. CASE \E ok \in BOOLEAN : Revive(ok) \/ Export(ok)
  BY <1>9 DEF Revive, Export, treeVars, searchVars, endVars, benchVars
<1> QED
  BY <1>1, <1>2, <1>3, <1>4, <1>5, <1>6, <1>7, <1>8, <1>9 DEF Calm

\* A checkpoint more does not break the chain of the winners.
LEMMA ChainStays ==
    ASSUME SearchInv, ChainOK, step # "seal_winner", gens' = gens,
           prepared' = prepared \/ gens = << >>,
           saved' = saved \/ gens = << >> \/ \E x : saved' = Append(saved, x)
    PROVE  ChainOK'
<1> SUFFICES ASSUME NEW g \in DOMAIN gens PROVE Continues(g)'
  BY DEF ChainOK
<1>1. /\ Continues(g) /\ gens # << >> /\ prepared' = prepared
      /\ saved' = saved \/ \E x : saved' = Append(saved, x)
  BY DEF ChainOK
<1>2. gens[g].checkpoint \in Ids /\ saved \in Seq(Saved)
  <2>1. gens[g] \in Records /\ gens[g].checkpoint <= Len(saved) /\ Len(saved) \in Nat
    BY DEF SearchInv, Types, IdsOK
  <2> QED
    BY <1>1, <2>1 DEF Continues, Ids, Records, SearchInv, Types
<1>3. saved'[gens[g].checkpoint] = saved[gens[g].checkpoint]
  BY <1>1, <1>2 DEF Ids
<1> QED
  BY <1>1, <1>3 DEF Continues, SourceOf

\* In the backtracking, the checkpoint of the last winner is the same as before.
LEMMA CalmClean ==
    ASSUME SearchInv, SoFar, Calm, failed' = {}
    PROVE  SoFar'
<1>1. /\ UNCHANGED <<plan, gens, code, log>>
      /\ step \notin {"work", "seal_winner", "park_runner", "cleanup", "write_summary", "exit", "done"}
      /\ step' \notin {"work", "write_summary", "exit", "done"}
      /\ prepared' = prepared \/ step = "seal_main"
      /\ saved' = saved \/ step = "build" \/ \E x : saved' = Append(saved, x)
  BY CalmFootprint
<1>2. step \in {"build", "seal_main", "prepare"} => gens = << >>
  BY DEF SearchInv, RoundsOK
<1>3. ChainOK'
  BY <1>1, <1>2, ChainStays DEF SoFar
<1>4. CountOK'
  BY <1>1 DEF SoFar, CountOK
<1>5. gens # << >> => Last.checkpoint # 0 /\ Len(gens) \in DOMAIN gens
  <2>1. gens # << >> => Len(gens) \in DOMAIN gens
    BY DEF SearchInv, Types
  <2> QED
    BY <1>1, <2>1 DEF SoFar, ChainOK, Continues, Last
<1>6. LengthOK'
  <2>1. Len(gens) \in Nat /\ plan.generations \in Nat
    BY SearchAssumption DEF SearchInv, Types
  <2>2. CASE Decide
    <3>1. /\ step = "decide" /\ gens # << >> /\ Last.checkpoint # 0
          /\ step' = IF Len(gens) < plan.generations THEN "fork" ELSE "restore"
      BY <1>5, <2>2 DEF Decide, SearchInv, RoundsOK
    <3> QED
      BY <1>1, <2>1, <3>1 DEF LengthOK, SoFar, Backtracking
  <2>3. CASE ~Decide
    <3>1. \/ step \in {"build", "prepare", "seal_main"} /\ step' \in {"prepare", "seal_main", "fork"}
          \/ step = "discard" /\ step' = "decide"
          \/ /\ step \in Backtracking \cup {"report"}
             /\ step' \in Backtracking \cup {"report", "cleanup"}
      BY <2>3 DEF Calm, Build, ReportStats, Prepare, DiscardRest, WriteAlternate, RestoreWinner,
                  SealMain, RestorePrepared, ForkAlternate, ParkCurrent, Revive, Export, Backtracking
    <3> QED
      BY <1>1, <2>1, <3>1 DEF LengthOK, SoFar, Backtracking
  <2> QED
    BY <2>2, <2>3
<1>7. EndOK'
  <2>1. step' # "seal_winner"
    BY DEF Calm, Build, Decide, ReportStats, Prepare, DiscardRest, WriteAlternate, RestoreWinner,
           SealMain, RestorePrepared, ForkAlternate, ParkCurrent, Revive, Export
  <2>0. \/ \E ok \in BOOLEAN : ParkCurrent(ok) \/ Revive(ok) \/ Export(ok)
        \/ ReportStats
        \/ step' \notin {"revive", "export", "report", "cleanup"}
    <3>1. Decide => step' \notin {"revive", "export", "report", "cleanup"}
      BY <1>5 DEF Decide, SearchInv, RoundsOK
    <3> QED
      BY <3>1 DEF Calm, Build, Prepare, DiscardRest, WriteAlternate, RestoreWinner,
             SealMain, RestorePrepared, ForkAlternate
  <2>2. ASSUME step' \in {"revive", "export", "report", "cleanup"} PROVE current' = Main
    <3>1. CASE \E ok \in BOOLEAN : ParkCurrent(ok)
      <4>1. PICK ok \in BOOLEAN : ParkCurrent(ok)
        BY <3>1
      <4>2. ok /\ current # Main
        BY <4>1 DEF ParkCurrent, Check
      <4> QED
        BY <4>1, <4>2 DEF ParkCurrent
    <3>2. CASE ReportStats \/ \E ok \in BOOLEAN : Revive(ok) \/ Export(ok)
      <4>1. step \in {"revive", "export", "report"} /\ current' = current
        BY <3>2 DEF ReportStats, Revive, Export, treeVars
      <4> QED
        BY <4>1 DEF SoFar, EndOK
    <3> QED
      BY <2>0, <2>2, <3>1, <3>2
  <2>3. ASSUME step' \in {"report", "cleanup"}
        PROVE  exported' = saved'[Last'.checkpoint].at /\ exported'.files
    <3>1. CASE \E ok \in BOOLEAN : Export(ok)
      <4>1. PICK ok \in BOOLEAN : Export(ok)
        BY <3>1
      <4>2. /\ ok /\ forks[Winner].at.files /\ step = "export"
            /\ exported' = (IF ok THEN forks[Winner].at ELSE Nobody)
        BY <4>1 DEF Export, Check
      <4>3. saved' = saved
        BY <4>1 DEF Export, treeVars
      <4>4. forks[Winner].at = saved[Last.checkpoint].at
        <5>1. session = "live" /\ gens # << >>
          BY <4>2 DEF SearchInv, ForksOK, Live, RoundsOK, Backtracking
        <5> QED
          BY <1>5, <5>1 DEF SearchInv, WinnersSurvive, Winner, Last
      <4> QED
        BY <1>1, <4>2, <4>3, <4>4 DEF Last
    <3>2. CASE ReportStats
      <4>1. step = "report" /\ exported' = exported /\ saved' = saved
        BY <3>2 DEF ReportStats, treeVars
      <4> QED
        BY <1>1, <4>1 DEF SoFar, EndOK, Last
    <3>3. (\E ok \in BOOLEAN : ParkCurrent(ok) \/ Revive(ok)) => step' \notin {"report", "cleanup"}
      BY DEF ParkCurrent, Revive
    <3> QED
      BY <2>0, <2>3, <3>1, <3>2, <3>3
  <2>4. ASSUME step' = "cleanup" PROVE summary' = plan.fanout * plan.generations
    <3>1. ReportStats
      <4>1. (\E ok \in BOOLEAN : ParkCurrent(ok) \/ Revive(ok) \/ Export(ok)) => step' # "cleanup"
        BY DEF ParkCurrent, Revive, Export
      <4> QED
        BY <2>0, <2>4, <4>1
    <3>2. step = "report" /\ summary' = Len(log)
      BY <3>1 DEF ReportStats
    <3> QED
      BY <3>2 DEF SoFar, CountOK, LengthOK
  <2> QED
    BY <1>1, <2>1, <2>2, <2>3, <2>4 DEF EndOK
<1> QED
  BY <1>3, <1>4, <1>6, <1>7 DEF SoFar

-----------------------------------------------------------------------------
(* A generation at work.                                                   *)

\* A generation has as many candidates as were asked for.
LEMMA BatchCounts ==
    ASSUME NEW n \in Nat, plan.fanout \in Nat
    PROVE  IsFiniteSet(Batch(n)) /\ Cardinality(Batch(n)) = plan.fanout
<1> DEFINE f == [i \in 1 .. plan.fanout |-> <<n, i>>]
<1>1. f \in Bijection(1 .. plan.fanout, Batch(n))
  <2>1. f \in [1 .. plan.fanout -> Batch(n)]
    BY DEF Batch
  <2>2. \A i, j \in 1 .. plan.fanout : f[i] = f[j] => i = j
    OBVIOUS
  <2>3. \A c \in Batch(n) : \E i \in 1 .. plan.fanout : f[i] = c
    BY DEF Batch
  <2> HIDE DEF f
  <2> QED
    BY <2>1, <2>2, <2>3, Fun_IsBij
<1> HIDE DEF f
<1>2. ExistsBijection(1 .. plan.fanout, Batch(n))
  BY <1>1 DEF ExistsBijection
<1>3. IsFiniteSet(1 .. plan.fanout) /\ Cardinality(1 .. plan.fanout) = plan.fanout
  <2>1. 1 \in Int /\ plan.fanout \in Int
    OBVIOUS
  <2>2. /\ IsFiniteSet(1 .. plan.fanout)
        /\ Cardinality(1 .. plan.fanout) = IF 1 > plan.fanout THEN 0 ELSE plan.fanout - 1 + 1
    BY <2>1, FS_Interval, Zenon
  <2> QED
    BY <2>2
<1> QED
  BY <1>2, <1>3, FS_Bijection

\* A step of a candidate: what has been established stays, and whoever is through has its entry.
LEMMA CandidateClean ==
    ASSUME SearchInv, SoFar, NEW c \in DOMAIN worker,
           \/ \E ok, done \in BOOLEAN : Run(c, ok, done)
           \/ NotFound(c) \/ RecordCount(c) \/ RecordEnter(c)
    PROVE  SoFar'
<1>1. /\ step = "work" /\ step' = "work" /\ UNCHANGED <<plan, saved, prepared, gens>>
  BY DEF Run, NotFound, RecordCount, RecordEnter, treeVars
<1>2. LengthOK' /\ ChainOK'
  BY <1>1 DEF SoFar, LengthOK, ChainOK, Continues, SourceOf
<1>3. EndOK'
  BY <1>1 DEF EndOK
<1>4. /\ DOMAIN worker = Batch(Number) /\ Batch(Number) \subseteq DOMAIN forks
      /\ Len(log) = plan.fanout * Len(gens) + Cardinality(Through)
  BY <1>1 DEF SoFar, CountOK, SearchInv, WorkOK
<1>5. /\ Types /\ Len(gens) \in Nat /\ plan.fanout \in Nat /\ Number \in Nat
      /\ DOMAIN forks' = DOMAIN forks /\ Batch(Number)' = Batch(Number)
  <2>1. Types /\ Len(gens) \in Nat /\ plan.fanout \in Nat /\ Number \in Nat
    BY SearchAssumption DEF SearchInv, Types, Number
  <2>2. DOMAIN forks' = DOMAIN forks
    BY DEF Run, NotFound, RecordCount, RecordEnter, treeVars
  <2> QED
    BY <1>1, <2>1, <2>2 DEF Batch, Number
<1>6. IsFiniteSet(Through) /\ Cardinality(Through) \in Nat
  <2>1. IsFiniteSet(DOMAIN worker) /\ Through \in SUBSET DOMAIN worker
    BY <1>4, <1>5, BatchCounts DEF Through
  <2>2. IsFiniteSet(Through)
    BY <2>1, FS_Subset
  <2> QED
    BY <2>2, FS_CardinalityType
<1>7. Len(log') = plan.fanout * Len(gens) + Cardinality(Through')
  <2>1. CASE \E ok, done \in BOOLEAN : Run(c, ok, done)
    <3>1. worker[c] = "idle" /\ worker' = [worker EXCEPT ![c] = "ran"] /\ log' = log
      BY <2>1 DEF Run, benchVars
    <3>2. Through' = Through
      BY <1>5, <3>1 DEF Through, Types
    <3> QED
      BY <1>4, <3>1, <3>2
  <2>2. CASE NotFound(c)
    BY <1>4, <2>2 DEF NotFound
  <2>3. CASE RecordCount(c)
    <3>1. worker[c] = "ran" /\ worker' = [worker EXCEPT ![c] = "counted"] /\ log' = log
      BY <2>3 DEF RecordCount, Stats!Count
    <3>2. Through' = Through
      BY <1>5, <3>1 DEF Through, Types
    <3> QED
      BY <1>4, <3>1, <3>2
  <2>4. CASE RecordEnter(c)
    <3>1. /\ worker[c] = "counted" /\ worker' = [worker EXCEPT ![c] = "done"]
          /\ log' = Append(log, counter)
      BY <2>4 DEF RecordEnter, Stats!Enter
    <3>2. Through' = Through \cup {c} /\ c \notin Through
      BY <1>5, <3>1 DEF Through, Types
    <3>3. Cardinality(Through') = Cardinality(Through) + 1
      BY <1>6, <3>2, FS_AddElement
    <3>4. Len(log') = Len(log) + 1
      BY <3>1 DEF SearchInv, BenchOK
    <3>5. \A a, b \in Nat : a * b \in Nat
      OBVIOUS
    <3>6. plan.fanout * Len(gens) \in Nat
      BY <1>5, <3>5
    <3> QED
      BY <1>4, <1>6, <3>3, <3>4, <3>6
  <2> QED
    BY <2>1, <2>2, <2>3, <2>4
<1>8. CountOK'
  BY <1>1, <1>4, <1>5, <1>7 DEF CountOK
<1> QED
  BY <1>2, <1>3, <1>8 DEF SoFar

\* Every candidate is there when the work begins, and none is through.
LEMMA ForkBatchClean ==
    ASSUME SearchInv, SoFar, NEW missing \in SUBSET Candidates, ForkBatch(missing), failed' = {}
    PROVE  SoFar'
<1>1. /\ step = "fork" /\ step' = "work" /\ UNCHANGED <<plan, saved, prepared, gens>>
      /\ Check(missing = {}, "forked") = {} /\ worker' = [c \in Candidates |-> "idle"]
      /\ DOMAIN forks' = DOMAIN forks \cup (Candidates \ missing)
  BY DEF ForkBatch
<1>2. log' = log
  BY DEF ForkBatch, benchVars
<1>3. LengthOK' /\ ChainOK'
  <2>1. LengthOK'
    BY <1>1 DEF SoFar, LengthOK, Backtracking
  <2>2. \A g \in DOMAIN gens : Continues(g)' = Continues(g)
    BY <1>1 DEF Continues, SourceOf
  <2> QED
    BY <1>1, <2>1, <2>2 DEF SoFar, ChainOK
<1>4. EndOK'
  BY <1>1 DEF EndOK
<1>5. Candidates = Batch(Number) /\ Batch(Number)' = Batch(Number)
  BY <1>1 DEF Candidates, Batch, Number
<1>6. Batch(Number)' \subseteq DOMAIN forks'
  BY <1>1, <1>5 DEF Check
<1>7. Through' = {}
  BY <1>1 DEF Through
<1>8. Len(log') = plan.fanout * Len(gens) + Cardinality(Through')
  <2>1. Len(log') = plan.fanout * Len(gens)
    BY <1>1, <1>2 DEF SoFar, CountOK
  <2>2. Cardinality(Through') = 0
    BY <1>7, FS_EmptySet
  <2>3. Len(log') \in Nat
    BY <1>2 DEF SearchInv, BenchOK
  <2> QED
    BY <2>1, <2>2, <2>3
<1>9. CountOK'
  BY <1>1, <1>6, <1>8 DEF CountOK
<1> QED
  BY <1>3, <1>4, <1>9 DEF SoFar

\* When all are through, there is an entry for every candidate; the winner is recorded, and what
\* it holds is its own.
LEMMA ScoreClean ==
    ASSUME SearchInv, SoFar, Score, failed' = {}
    PROVE  SoFar'
<1>1. /\ plan' = plan /\ step' = "seal_winner"
      /\ Len(gens') = Number /\ \A g \in DOMAIN gens : gens'[g] = gens[g]
      /\ gens'[Number].winner = ExpectedWinner /\ OwnEditsOnly(ExpectedWinner)
  BY ScoredWell
<1>2. step = "work" /\ Joined /\ UNCHANGED <<forks, saved, prepared, log>>
  BY DEF Score, treeVars, benchVars
<1>3. /\ Types /\ Len(gens) \in Nat /\ plan.fanout \in Nat /\ plan.generations \in Nat
      /\ Number = Len(gens) + 1 /\ Number \in Nat /\ DOMAIN gens = 1 .. Len(gens)
  BY SearchAssumption DEF SearchInv, Types, Number
<1>4. gens' \in Seq(Records)
  <2>1. SearchInv'
    BY ScoreStep
  <2> QED
    BY <2>1 DEF SearchInv, Types
<1>5. LengthOK'
  BY <1>1, <1>2, <1>3 DEF SoFar, LengthOK, Backtracking
<1>6. ChainOK'
  <2> SUFFICES ASSUME NEW g \in DOMAIN gens', g < Len(gens') PROVE Continues(g)'
    BY <1>1 DEF ChainOK
  <2>1. g \in DOMAIN gens /\ (g # 1 => g - 1 \in DOMAIN gens)
    BY <1>1, <1>3, <1>4
  <2>2. Continues(g)
    BY <1>2, <2>1 DEF SoFar, ChainOK
  <2>3. SourceOf(g)' = SourceOf(g)
    BY <1>1, <1>2, <2>1 DEF SourceOf
  <2> QED
    BY <1>1, <1>2, <2>1, <2>2, <2>3 DEF Continues
<1>7. EndOK'
  BY <1>1, <1>2 DEF EndOK, Winner, OwnEditsOnly
<1>8. CountOK'
  <2>1. Through = Batch(Number)
    BY <1>2 DEF Through, Joined, SearchInv, WorkOK
  <2>2. Cardinality(Through) = plan.fanout
    BY <1>3, <2>1, BatchCounts
  <2>3. Len(log) = plan.fanout * Len(gens) + plan.fanout
    BY <1>2, <2>2 DEF SoFar, CountOK
  <2>4. \A a, b \in Nat : a * (b + 1) = a * b + a
    OBVIOUS
  <2>5. Len(log) = plan.fanout * Number
    BY <1>3, <2>3, <2>4
  <2> QED
    BY <1>1, <1>2, <2>5 DEF CountOK
<1> QED
  BY <1>5, <1>6, <1>7, <1>8 DEF SoFar

\* The link of a winner to the one before it outlasts new checkpoints and later entries in records.
LEMMA LinkStays ==
    ASSUME SearchInv, NEW g \in DOMAIN gens, Continues(g), prepared' = prepared,
           \A i \in Ids : saved'[i] = saved[i],
           gens'[g].winner = gens[g].winner, gens'[g].value = gens[g].value,
           gens'[g].checkpoint = gens[g].checkpoint,
           g = 1 \/ gens'[g - 1].checkpoint = gens[g - 1].checkpoint
    PROVE  Continues(g)'
<1>1. gens[g].checkpoint \in Ids
  <2>1. gens[g] \in Records /\ gens[g].checkpoint <= Len(saved) /\ Len(saved) \in Nat
    BY DEF SearchInv, Types, IdsOK
  <2> QED
    BY <2>1 DEF Continues, Ids, Records
<1>2. SourceOf(g)' = SourceOf(g)
  BY DEF SourceOf
<1> QED
  BY <1>1, <1>2 DEF Continues

\* The winner is sealed on the frontier, with the value that it was chosen for.
LEMMA SealWinnerClean ==
    ASSUME SearchInv, SoFar, NEW ok \in BOOLEAN, SealWinner(ok), failed' = {}
    PROVE  SoFar'
<1>1. /\ step = "seal_winner" /\ step' = IF Runner = Nobody THEN "discard" ELSE "park_runner"
      /\ saved' = IF ok THEN Sealed(Winner) ELSE saved
      /\ gens' = IF ok THEN Recorded("checkpoint", NextId) ELSE gens
      /\ Check(ok, "seal_winner") = {}
      /\ Check(forks[Winner].base = LastFrontier, "winner_parent") = {}
      /\ Check(forks[Winner].at.value = Last.value, "winner_resumed") = {}
      /\ plan' = plan /\ prepared' = prepared
  BY DEF SealWinner
<1>2. log' = log
  BY DEF SealWinner, benchVars
<1>3. /\ ok /\ forks[Winner].base = LastFrontier /\ forks[Winner].at.value = Last.value
      /\ saved' = Sealed(Winner) /\ gens' = Recorded("checkpoint", NextId)
      /\ step' \in {"discard", "park_runner"}
  BY <1>1 DEF Check
<1>4. /\ Types /\ gens # << >> /\ Winner \in DOMAIN forks /\ Len(gens) \in Nat
      /\ DOMAIN gens = 1 .. Len(gens) /\ Len(gens) \in DOMAIN gens
      /\ Last = gens[Len(gens)] /\ Last \in Records /\ Winner = Last.winner
  <2>1. Types /\ gens # << >> /\ Winner \in DOMAIN forks
    BY <1>1 DEF SearchInv, RoundsOK, WorkOK
  <2> QED
    BY <2>1 DEF Types, Last, Winner
<1>5. /\ Len(saved) \in Nat /\ NextId = Len(saved) + 1 /\ NextId \in Nat
      /\ \A i \in Ids : saved'[i] = saved[i]
      /\ saved'[NextId] = [at |-> forks[Winner].at, parent |-> forks[Winner].base]
  BY <1>3, <1>4, SealedAdds
<1>6. /\ Len(gens') = Len(gens) /\ DOMAIN gens' = DOMAIN gens
      /\ gens'[Len(gens)] = [Last EXCEPT !["checkpoint"] = NextId]
      /\ \A g \in DOMAIN gens \ {Len(gens)} : gens'[g] = gens[g]
  BY <1>3, <1>4, <1>5, RecordedChanges
<1>7. /\ gens'[Len(gens)].winner = Winner /\ gens'[Len(gens)].value = Last.value
      /\ gens'[Len(gens)].checkpoint = NextId
  BY <1>4, <1>6 DEF Records
<1>8. LengthOK'
  BY <1>1, <1>3, <1>6 DEF SoFar, LengthOK, Backtracking
<1>9. ChainOK'
  <2>1. ASSUME NEW g \in DOMAIN gens, g # Len(gens) PROVE Continues(g)'
    <3>1. Continues(g) /\ (g = 1 \/ g - 1 \in DOMAIN gens \ {Len(gens)})
      BY <1>4, <2>1 DEF SoFar, ChainOK
    <3> QED
      BY <1>1, <1>5, <1>6, <2>1, <3>1, LinkStays
  <2>2. Continues(Len(gens))'
    <3>1. forks[Winner].at.by = Winner
      BY <1>1 DEF SoFar, EndOK
    <3>2. SourceOf(Len(gens))' = LastFrontier
      <4>1. ASSUME Len(gens) # 1 PROVE Len(gens) - 1 \in DOMAIN gens \ {Len(gens)}
        <5>1. \A n \in Nat : n \in 1 .. n /\ n # 1 => n - 1 \in 1 .. n /\ n - 1 # n
          OBVIOUS
        <5>2. Len(gens) - 1 \in 1 .. Len(gens) /\ Len(gens) - 1 # Len(gens)
          BY <1>4, <4>1, <5>1
        <5> QED
          BY <1>4, <5>2
      <4>2. SourceOf(Len(gens))' = IF Len(gens) = 1 THEN prepared ELSE gens'[Len(gens) - 1].checkpoint
        BY <1>1, <1>6 DEF SourceOf
      <4> QED
        BY <1>6, <4>1, <4>2 DEF LastFrontier
    <3>3. saved'[NextId].at.by = Winner /\ saved'[NextId].at.value = Last.value
          /\ saved'[NextId].parent = LastFrontier /\ NextId # 0
      BY <1>3, <1>5, <3>1
    <3> QED
      BY <1>6, <1>7, <3>2, <3>3 DEF Continues
  <2>3. ASSUME NEW g \in DOMAIN gens PROVE Continues(g)'
    <3>1. CASE g = Len(gens)
      <4>1. Continues(Len(gens))' = Continues(g)'
        BY <1>6, <3>1 DEF Continues, SourceOf
      <4> QED
        BY <2>2, <4>1
    <3>2. CASE g # Len(gens)
      BY <2>1, <3>2
    <3> QED
      BY <3>1, <3>2
  <2> QED
    BY <1>6, <2>3 DEF ChainOK
<1>10. EndOK'
  BY <1>3 DEF EndOK
<1>11. CountOK'
  BY <1>1, <1>2, <1>3, <1>6 DEF SoFar, CountOK
<1> QED
  BY <1>8, <1>9, <1>10, <1>11 DEF SoFar

\* The runner-up is parked: one checkpoint more, and its entry in the record.
LEMMA ParkRunnerClean ==
    ASSUME SearchInv, SoFar, NEW ok \in BOOLEAN, ParkRunner(ok), failed' = {}
    PROVE  SoFar'
<1>1. /\ step = "park_runner" /\ step' = "discard"
      /\ saved' = IF ok THEN Sealed(Runner) ELSE saved
      /\ gens' = IF ok THEN Recorded("parked", NextId) ELSE gens
      /\ plan' = plan /\ prepared' = prepared
  BY DEF ParkRunner
<1>2. log' = log
  BY DEF ParkRunner, benchVars
<1>3. ok
  BY DEF ParkRunner, Check
<1>4. /\ Types /\ gens # << >> /\ Runner \in DOMAIN forks /\ Len(gens) \in Nat
      /\ DOMAIN gens = 1 .. Len(gens) /\ Len(gens) \in DOMAIN gens
      /\ Last = gens[Len(gens)] /\ Last \in Records
  <2>1. Types /\ gens # << >> /\ Runner \in DOMAIN forks
    BY <1>1 DEF SearchInv, RoundsOK, WorkOK
  <2> QED
    BY <2>1 DEF Types, Last
<1>5. /\ NextId \in Nat /\ \A i \in Ids : saved'[i] = saved[i]
  BY <1>1, <1>3, <1>4, SealedAdds
<1>6. /\ Len(gens') = Len(gens) /\ DOMAIN gens' = DOMAIN gens
      /\ gens'[Len(gens)] = [Last EXCEPT !["parked"] = NextId]
      /\ \A g \in DOMAIN gens \ {Len(gens)} : gens'[g] = gens[g]
  BY <1>1, <1>3, <1>4, <1>5, RecordedChanges
<1>7. \A g \in DOMAIN gens : /\ gens'[g].winner = gens[g].winner
                             /\ gens'[g].value = gens[g].value
                             /\ gens'[g].checkpoint = gens[g].checkpoint
  <2>1. /\ gens'[Len(gens)].winner = Last.winner /\ gens'[Len(gens)].value = Last.value
        /\ gens'[Len(gens)].checkpoint = Last.checkpoint
    BY <1>4, <1>6 DEF Records
  <2> QED
    BY <1>4, <1>6, <2>1
<1>8. LengthOK'
  BY <1>1, <1>6 DEF SoFar, LengthOK, Backtracking
<1>9. ChainOK'
  <2>1. ASSUME NEW g \in DOMAIN gens PROVE Continues(g)'
    <3>1. Continues(g) /\ (g = 1 \/ g - 1 \in DOMAIN gens)
      BY <1>1, <1>4 DEF SoFar, ChainOK
    <3> QED
      BY <1>1, <1>5, <1>7, <3>1, LinkStays
  <2> QED
    BY <1>6, <2>1 DEF ChainOK
<1>10. EndOK'
  BY <1>1 DEF EndOK
<1>11. CountOK'
  BY <1>1, <1>2, <1>6 DEF SoFar, CountOK
<1> QED
  BY <1>8, <1>9, <1>10, <1>11 DEF SoFar

-----------------------------------------------------------------------------
(* The exit code.                                                          *)

\* The exit code is set at the end or by an exception, and only the end makes it zero.
LEMMA CodeStep ==
    ASSUME CodeOK, Next
    PROVE  /\ CodeOK'
           /\ code' = "zero" => \E ok \in BOOLEAN : WriteSummary(ok) \/ Destructor(ok)
<1>1. CASE Calm
  BY <1>1, CalmFootprint DEF CodeOK
<1>2. CASE Raise \/ \E left \in {"none", "open", "left"} : BuildFails(left)
  BY <1>2 DEF Raise, BuildFails, CodeOK
<1>3. CASE AfterTry
  BY <1>3 DEF AfterTry, Cleanup, EndSession, WriteSummary, Destructor, CodeOK
<1>4. CASE \E c \in DOMAIN worker : \/ \E ok, done \in BOOLEAN : Run(c, ok, done)
                                    \/ NotFound(c) \/ RecordCount(c) \/ RecordEnter(c)
  <2>1. step = "work" /\ step' = "work" /\ code' = code
    BY <1>4 DEF Run, NotFound, RecordCount, RecordEnter, endVars
  <2> QED
    BY <2>1 DEF CodeOK
<1>5. CASE \/ Score \/ AnswerLost \/ \E missing \in SUBSET Candidates : ForkBatch(missing)
           \/ \E ok \in BOOLEAN : SealWinner(ok) \/ ParkRunner(ok)
  <2>1. step \in TrySteps /\ step' \notin {"cleanup", "write_summary", "exit", "done"} /\ code' = code
    BY <1>5 DEF Score, AnswerLost, ForkBatch, SealWinner, ParkRunner, endVars, TrySteps
  <2> QED
    BY <2>1 DEF CodeOK, TrySteps
<1> QED
  BY <1>1, <1>2, <1>3, <1>4, <1>5 DEF Next, Calm, AfterTry

\* At the end of a search in which no assertion has failed, everything is done.
LEMMA CleanupDone ==
    ASSUME VerdictInv, NEW answer \in {"ok", "refused", "raised"}, Cleanup(answer), Clean'
    PROVE  SearchDone'
<1>1. step = "cleanup" /\ code' = "running" /\ failed' = {}
  BY DEF Cleanup, EndSession, Clean
<1>2. /\ failed = {} /\ code = "running" /\ answer = "ok"
  BY <1>1 DEF Cleanup, EndSession, Check
<1>3. SoFar
  BY <1>1, <1>2 DEF VerdictInv, Clean
<1>4. UNCHANGED <<plan, saved, current, prepared, gens, exported, summary>>
  BY DEF Cleanup, EndSession, searchVars
<1>5. session' = IF plan.keep THEN "open" ELSE "gone"
  BY <1>2 DEF Cleanup, EndSession
<1>6. Len(gens) = plan.generations
  BY <1>1, <1>3 DEF SoFar, LengthOK
<1>7. ASSUME NEW g \in DOMAIN gens
      PROVE  /\ gens[g].checkpoint \in Ids
             /\ saved[gens[g].checkpoint].at.by = gens[g].winner
             /\ saved[gens[g].checkpoint].at.value = gens[g].value
             /\ saved[gens[g].checkpoint].parent = IF g = 1 THEN prepared ELSE gens[g - 1].checkpoint
  <2>1. Continues(g)
    BY <1>1, <1>3 DEF SoFar, ChainOK
  <2>2. gens[g] \in Records /\ gens[g].checkpoint <= Len(saved) /\ Len(saved) \in Nat
    BY DEF VerdictInv, SearchInv, Types, IdsOK
  <2>3. gens[g].checkpoint \in Ids
    BY <2>1, <2>2 DEF Continues, Ids, Records
  <2> QED
    BY <2>1, <2>3 DEF Continues, SourceOf
<1>8. /\ exported = saved[Last.checkpoint].at /\ exported.files /\ current = Main
      /\ summary = plan.fanout * plan.generations
  BY <1>1, <1>3 DEF SoFar, EndOK
<1> QED
  BY <1>4, <1>5, <1>6, <1>7, <1>8 DEF SearchDone, Last, Ids

\* The rest of the finally and the destructor take nothing of it back.
LEMMA StaysDone ==
    ASSUME VerdictInv, NEW ok \in BOOLEAN, WriteSummary(ok) \/ Destructor(ok), code' = "zero"
    PROVE  SearchDone'
<1>1. UNCHANGED <<plan, saved, current, prepared, gens, exported, summary>>
  BY DEF WriteSummary, Destructor, treeVars, searchVars
<1>2. SearchDone
  <2>1. CASE WriteSummary(ok)
    <3>1. step = "write_summary" /\ failed = {} /\ code # "exception"
      BY <2>1 DEF WriteSummary
    <3>2. Clean
      BY <3>1 DEF VerdictInv, CodeOK, Clean
    <3> QED
      BY <3>1, <3>2 DEF VerdictInv
  <2>2. CASE Destructor(ok)
    BY <2>2 DEF Destructor, VerdictInv, ExitZeroMeansDone
  <2> QED
    BY <2>1, <2>2
<1>3. session' \in IF plan.keep THEN {"open", "gone", "left"} ELSE {"gone"}
  BY <1>2 DEF SearchDone, WriteSummary, Destructor
<1> QED
  BY <1>1, <1>2, <1>3 DEF SearchDone, Last, Ids

\* The invariant holds at the start.
LEMMA VerdictInit == Init => VerdictInv
<1> SUFFICES ASSUME Init PROVE VerdictInv
  OBVIOUS
<1>1. SearchInv
  BY SearchInit
<1>2. CodeOK /\ ExitZeroMeansDone
  BY DEF Init, CodeOK, ExitZeroMeansDone
<1>3. step = "build" /\ gens = << >> /\ log = << >> /\ plan.generations \in Nat \ {0} /\ plan.fanout \in Nat
  BY SearchAssumption DEF Init, Stats!InitBench
<1>4. LengthOK /\ ChainOK /\ EndOK
  BY <1>3 DEF LengthOK, ChainOK, EndOK, Backtracking
<1>5. CountOK
  BY <1>3 DEF CountOK
<1> QED
  BY <1>1, <1>2, <1>3, <1>4, <1>5 DEF VerdictInv, SoFar

\* As long as no assertion fails, each step adds its part to what 0 stands for.
LEMMA VerdictStep == VerdictInv /\ [Next]_vars => VerdictInv'
<1> SUFFICES ASSUME VerdictInv, [Next]_vars PROVE VerdictInv'
  OBVIOUS
<1>1. SearchInv /\ CodeOK
  BY DEF VerdictInv
<1>2. SearchInv'
  BY <1>1, SearchStep
<1>3. CASE Next
  <2>1. CodeOK' /\ (code' = "zero" => \E ok \in BOOLEAN : WriteSummary(ok) \/ Destructor(ok))
    BY <1>1, <1>3, CodeStep
  <2>2. ExitZeroMeansDone'
    <3>1. CASE code' = "zero"
      BY <2>1, <3>1, StaysDone DEF ExitZeroMeansDone
    <3>2. CASE code' # "zero"
      BY <3>2 DEF ExitZeroMeansDone
    <3> QED
      BY <3>1, <3>2
  <2>3. ASSUME Clean', ~AfterTry PROVE SoFar' /\ step' # "write_summary"
    <3> SUFFICES SoFar'
      BY <1>3, <2>3 DEF Next, AfterTry, Build, BuildFails, Prepare, ForkBatch, Run, NotFound,
             RecordCount, RecordEnter, Score, DiscardRest, Decide, WriteAlternate, RestoreWinner,
             SealMain, SealWinner, ParkRunner, RestorePrepared, ForkAlternate, ParkCurrent, Revive,
             Export, ReportStats, AnswerLost, Raise, TrySteps
    <3>0. step # "write_summary"
      BY <1>3, <2>3 DEF Next, AfterTry, Build, BuildFails, Prepare, ForkBatch, Run, NotFound,
             RecordCount, RecordEnter, Score, DiscardRest, Decide, WriteAlternate, RestoreWinner,
             SealMain, SealWinner, ParkRunner, RestorePrepared, ForkAlternate, ParkCurrent, Revive,
             Export, ReportStats, AnswerLost, Raise, TrySteps
    <3>1. failed' = {} /\ code' = "running"
      BY <2>3 DEF Clean
    <3>2. ASSUME failed \subseteq failed', code' = code PROVE SoFar
      BY <3>0, <3>1, <3>2 DEF VerdictInv, Clean
    <3>3. CASE Calm
      BY <1>1, <3>1, <3>2, <3>3, CalmFootprint, CalmClean
    <3>4. CASE \E c \in DOMAIN worker : \/ \E ok, done \in BOOLEAN : Run(c, ok, done)
                                        \/ NotFound(c) \/ RecordCount(c) \/ RecordEnter(c)
      <4>1. failed \subseteq failed' /\ code' = code
        BY <3>4 DEF Run, NotFound, RecordCount, RecordEnter, endVars
      <4> QED
        BY <1>1, <3>2, <3>4, <4>1, CandidateClean
    <3>5. CASE \E missing \in SUBSET Candidates : ForkBatch(missing)
      <4>1. PICK missing : missing \in SUBSET Candidates /\ ForkBatch(missing)
        BY <3>5
      <4>2. failed \subseteq failed' /\ code' = code
        BY <4>1 DEF ForkBatch, endVars
      <4> QED
        BY <1>1, <3>1, <3>2, <4>1, <4>2, ForkBatchClean
    <3>6. CASE Score
      <4>1. failed \subseteq failed' /\ code' = code
        BY <3>6 DEF Score, endVars
      <4> QED
        BY <1>1, <3>1, <3>2, <3>6, <4>1, ScoreClean
    <3>7. CASE \E ok \in BOOLEAN : SealWinner(ok) \/ ParkRunner(ok)
      <4>1. failed \subseteq failed' /\ code' = code
        BY <3>7 DEF SealWinner, ParkRunner, endVars
      <4> QED
        BY <1>1, <3>1, <3>2, <3>7, <4>1, SealWinnerClean, ParkRunnerClean
    <3>8. ~AnswerLost /\ ~Raise /\ ~(\E left \in {"none", "open", "left"} : BuildFails(left))
      BY <3>1 DEF AnswerLost, Raise, BuildFails
    <3> QED
      BY <1>3, <2>3, <3>3, <3>4, <3>5, <3>6, <3>7, <3>8 DEF Next, Calm, AfterTry
  <2>4. ASSUME Clean', AfterTry PROVE SearchDone' /\ step' = "write_summary"
    <3>1. code' = "running"
      BY <2>4 DEF Clean
    <3>2. PICK answer \in {"ok", "refused", "raised"} : Cleanup(answer)
      BY <1>1, <2>4, <3>1 DEF AfterTry, WriteSummary, Destructor, CodeOK
    <3>3. step' = "write_summary"
      BY <3>1, <3>2 DEF Cleanup, EndSession
    <3> QED
      BY <2>4, <3>2, <3>3, CleanupDone
  <2> QED
    BY <1>2, <2>1, <2>2, <2>3, <2>4 DEF VerdictInv
<1>4. CASE UNCHANGED vars
  <2>1. UNCHANGED <<plan, step, forks, saved, current, prepared, gens, worker, failed, exported,
                    summary, session, code, log>>
    BY <1>4 DEF vars, treeVars, searchVars, endVars, benchVars
  <2>2. CodeOK' /\ (SearchDone' <=> SearchDone) /\ ExitZeroMeansDone' /\ (Clean' <=> Clean)
    BY <1>1, <2>1 DEF VerdictInv, CodeOK, ExitZeroMeansDone, SearchDone, Clean, Ids, Last
  <2>3. LengthOK' = LengthOK /\ EndOK' = EndOK
    BY <2>1 DEF LengthOK, EndOK, Winner, Last
  <2>4. ChainOK' = ChainOK
    BY <2>1 DEF ChainOK, Continues, SourceOf
  <2>5. CountOK' = CountOK
    BY <2>1 DEF CountOK, Through, Batch, Number
  <2> QED
    BY <1>2, <2>1, <2>2, <2>3, <2>4, <2>5 DEF VerdictInv, SoFar
<1> QED
  BY <1>3, <1>4

\* An exit code of 0 proves that the search was done: every winner sealed on the one before it,
\* the last one's workspace exported with the files copied in at the start, every candidate
\* counted, and a session that was not to be kept gone (search_workflow_demo.py, the exit code of
\* main).
THEOREM ZeroMeansDone == Spec => []ExitZeroMeansDone
<1>1. Init => VerdictInv
  BY VerdictInit
<1>2. VerdictInv /\ [Next]_vars => VerdictInv'
  BY VerdictStep
<1>3. VerdictInv => ExitZeroMeansDone
  BY DEF VerdictInv
<1> QED
  BY <1>1, <1>2, <1>3, PTL DEF Spec

-----------------------------------------------------------------------------
(* A run in which no call fails.                                           *)

\* What main holds from its preparation on.
Warm == [Empty EXCEPT !.warm = TRUE, !.files = TRUE]

Generating == {"fork", "work", "seal_winner", "park_runner", "discard", "decide"}

\* main as it was prepared, until the backtracking.
MainOK ==
    /\ step \notin {"write", "alternate", "return", "park", "write_summary", "exit", "done"} =>
          current = Main
    /\ step = "prepare" => forks[Main].at = Empty
    /\ step \in Generating \cup {"seal_main", "restore"} => forks[Main].at = Warm

\* What the checkpoints hold that are returned to.
WinnerHeld(g) ==
    gens[g].checkpoint # 0 => /\ saved[gens[g].checkpoint].at.warm
                              /\ saved[gens[g].checkpoint].at.files

ParkedHeld(g) ==
    gens[g].parked # 0 => /\ saved[gens[g].parked].at.value = gens[g].rvalue
                          /\ saved[gens[g].parked].at.move = gens[g].rmove

HeldOK ==
    /\ step \notin {"build", "prepare", "seal_main"} => prepared # 0 /\ saved[prepared].at = Warm
    /\ \A g \in DOMAIN gens : WinnerHeld(g) /\ ParkedHeld(g)

\* What the candidates hold and have answered.
AnswersOK ==
    step = "work" =>
        \A c \in Batch(Number) :
            /\ c \in DOMAIN forks
            /\ forks[c].base = Frontier
            /\ forks[c].at = IF worker[c] = "idle" THEN saved[Frontier].at
                                                   ELSE CandidateCommand(c, saved[Frontier].at)
            /\ result[c] = IF worker[c] = "idle" \/ c = Rejected THEN Nobody ELSE Expected(c)

\* The forks of the winner and of the runner-up are as they were scored.
ChosenOK ==
    /\ step = "seal_winner" => /\ forks[Winner].base = LastFrontier
                               /\ forks[Winner].at.value = Last.value
                               /\ forks[Winner].at.warm /\ forks[Winner].at.files
    /\ step \in {"seal_winner", "park_runner"} /\ Runner # Nobody =>
          /\ forks[Runner].base = LastFrontier
          /\ forks[Runner].at.value = Last.rvalue
          /\ forks[Runner].at.move = Last.rmove

Winners == {gens[g].winner : g \in DOMAIN gens}

\* The forks there are until the backtracking: nothing is left over, nothing is missing.
ForksExact ==
    /\ step \in {"prepare", "seal_main", "fork", "decide"} => DOMAIN forks = {Main} \cup Winners
    /\ step = "work" => DOMAIN forks = {Main} \cup Winners \cup Batch(Number)
    /\ step \in {"seal_winner", "park_runner"} =>
          DOMAIN forks = {Main} \cup Winners \cup Batch(Len(gens))
    /\ step = "discard" =>
          DOMAIN forks = ({Main} \cup Winners \cup Batch(Len(gens))) \ {Runner}

\* Where the backtracking stands.
BackOK ==
    /\ step \in {"build", "prepare", "seal_main", "restore"} \cup Generating => restored = 0
    /\ step \in {"write", "alternate", "return"} => restored = 1 /\ current = Fresh(1)
    /\ step = "write" => forks[current].base = prepared
    /\ step = "alternate" => /\ forks[current].base # prepared
                             /\ saved[forks[current].base].at.value = 7
                             /\ saved[forks[current].base].at.by = Alternate
    /\ step = "park" => current = Fresh(2) /\ forks[current].base = Last.checkpoint

AllWell ==
    /\ failed = {} /\ code # "exception"
    /\ MainOK
    /\ HeldOK
    /\ AnswersOK
    /\ ChosenOK
    /\ ForksExact
    /\ BackOK

SoundInv == VerdictInv /\ (faults = 0 => AllWell)

\* A call that fails is counted.
LEMMA NoFault ==
    ASSUME NEW ok \in BOOLEAN, Try(ok), faults = 0, faults' = 0
    PROVE  ok
  BY DEF Try

\* Checkpoints keep what they hold when others are made.
LEMMA HeldStays ==
    ASSUME SearchInv, NEW g \in DOMAIN gens, WinnerHeld(g), ParkedHeld(g),
           \A i \in Ids : saved'[i] = saved[i]
    PROVE  /\ gens'[g].checkpoint = gens[g].checkpoint => WinnerHeld(g)'
           /\ /\ gens'[g].parked = gens[g].parked /\ gens'[g].rvalue = gens[g].rvalue
              /\ gens'[g].rmove = gens[g].rmove
              => ParkedHeld(g)'
<1>1. /\ gens[g].checkpoint # 0 => gens[g].checkpoint \in Ids
      /\ gens[g].parked # 0 => gens[g].parked \in Ids
  <2>1. /\ gens[g] \in Records /\ Len(saved) \in Nat
        /\ gens[g].checkpoint <= Len(saved) /\ gens[g].parked <= Len(saved)
    BY DEF SearchInv, Types, IdsOK
  <2> QED
    BY <2>1 DEF Ids, Records
<1>2. gens'[g].checkpoint = gens[g].checkpoint => WinnerHeld(g)'
  BY <1>1 DEF WinnerHeld
<1>3. /\ gens'[g].parked = gens[g].parked /\ gens'[g].rvalue = gens[g].rvalue
      /\ gens'[g].rmove = gens[g].rmove
      => ParkedHeld(g)'
  BY <1>1 DEF ParkedHeld
<1> QED
  BY <1>2, <1>3

\* The prepared checkpoint too.
LEMMA PreparedStays ==
    ASSUME SearchInv, HeldOK, step \notin {"build", "prepare", "seal_main"}, prepared' = prepared,
           \A i \in Ids : saved'[i] = saved[i]
    PROVE  prepared' # 0 /\ saved'[prepared'].at = Warm /\ prepared \in Ids
<1>1. prepared # 0 /\ saved[prepared].at = Warm /\ prepared \in Ids
  BY DEF HeldOK, SearchInv, Types, IdsOK, Ids
<1> QED
  BY <1>1

\* A step outside a generation leaves what is held in checkpoints, and nobody is at work after it.
LEMMA CalmSound ==
    ASSUME SearchInv, AllWell, Calm
    PROVE  /\ AnswersOK' /\ ChosenOK' /\ code' # "exception" /\ gens' = gens
           /\ step \notin {"build", "prepare", "seal_main"} => HeldOK'
<1>1. /\ UNCHANGED <<plan, gens, code>>
      /\ step \notin {"work", "seal_winner", "park_runner", "cleanup", "write_summary", "exit", "done"}
      /\ step' # "work"
      /\ prepared' = prepared \/ step = "seal_main"
      /\ saved' = saved \/ step = "build" \/ \E x : saved' = Append(saved, x)
  BY CalmFootprint
<1>2. step' \notin {"seal_winner", "park_runner"}
  BY DEF Calm, Build, Decide, ReportStats, Prepare, DiscardRest, WriteAlternate, RestoreWinner,
         SealMain, RestorePrepared, ForkAlternate, ParkCurrent, Revive, Export
<1>3. AnswersOK' /\ ChosenOK' /\ code' # "exception"
  BY <1>1, <1>2 DEF AnswersOK, ChosenOK, AllWell
<1>4. ASSUME step \notin {"build", "prepare", "seal_main"} PROVE HeldOK'
  <2>1. \A i \in Ids : saved'[i] = saved[i]
    <3>1. saved \in Seq(Saved)
      BY DEF SearchInv, Types
    <3> QED
      BY <1>1, <1>4, <3>1 DEF Ids
  <2>2. prepared' # 0 /\ saved'[prepared'].at = Warm
    BY <1>1, <1>4, <2>1, PreparedStays DEF AllWell
  <2>3. \A g \in DOMAIN gens : WinnerHeld(g)' /\ ParkedHeld(g)'
    BY <1>1, <2>1, HeldStays DEF AllWell, HeldOK
  <2> QED
    BY <1>1, <2>2, <2>3 DEF HeldOK
<1> QED
  BY <1>1, <1>3, <1>4

\* Building the session and preparing main.
LEMMA BuildSound ==
    ASSUME SearchInv, AllWell, Build
    PROVE  AllWell'
<1>1. /\ step = "build" /\ step' = "prepare" /\ forks' = [f \in {Main} |-> [at |-> Empty, base |-> 1]]
      /\ gens = << >> /\ failed' = failed /\ current' = current /\ restored' = restored
  BY DEF Build, SearchInv, RoundsOK
<1>2. AnswersOK' /\ ChosenOK' /\ code' # "exception" /\ gens' = gens
  BY CalmSound DEF Calm
<1>3. current = Main /\ failed = {} /\ restored = 0
  BY <1>1 DEF AllWell, MainOK, BackOK
<1>4. MainOK'
  BY <1>1, <1>3 DEF MainOK, Generating
<1>5. HeldOK'
  BY <1>1, <1>2 DEF HeldOK
<1>6. ForksExact'
  <2>1. DOMAIN forks' = {Main} /\ Winners' = {}
    BY <1>1, <1>2 DEF Winners
  <2> QED
    BY <1>1, <2>1 DEF ForksExact
<1>7. BackOK'
  BY <1>1, <1>3 DEF BackOK
<1> QED
  BY <1>1, <1>2, <1>3, <1>4, <1>5, <1>6, <1>7 DEF AllWell

\* The commands on main leave it prepared.
LEMMA PrepareSound ==
    ASSUME SearchInv, AllWell, faults = 0, faults' = 0,
           NEW mkdir \in BOOLEAN, NEW copied \in BOOLEAN, NEW ran \in BOOLEAN,
           Prepare(mkdir, copied, ran)
    PROVE  AllWell'
<1>1. mkdir /\ copied /\ ran
  <2>1. Try(mkdir /\ copied /\ ran)
    BY DEF Prepare
  <2> QED
    BY <2>1, NoFault
<1>2. /\ step = "prepare" /\ step' = "seal_main" /\ current' = current /\ restored' = restored
      /\ forks' = [forks EXCEPT ![Main].at = [@ EXCEPT !.warm = mkdir /\ ran, !.files = copied]]
      /\ failed' = failed \cup Check(mkdir, "workspace") \cup Check(copied, "copy_in")
                          \cup Check(mkdir /\ ran /\ copied, "prepared")
  BY DEF Prepare
<1>3. failed' = {} /\ current = Main /\ forks[Main].at = Empty /\ restored = 0
      /\ DOMAIN forks = {Main} \cup Winners
  BY <1>1, <1>2 DEF Check, AllWell, MainOK, BackOK, ForksExact
<1>4. forks'[Main].at = Warm /\ DOMAIN forks' = DOMAIN forks
  <2>1. forks[Main] \in [at : Contents, base : Nat]
    BY <1>3 DEF SearchInv, Types
  <2>2. forks'[Main].at = [forks[Main].at EXCEPT !.warm = mkdir /\ ran, !.files = copied]
    BY <1>2, <1>3, <2>1
  <2> QED
    BY <1>1, <1>2, <1>3, <2>2 DEF Empty, Warm
<1>5. AnswersOK' /\ ChosenOK' /\ code' # "exception" /\ gens' = gens
  BY CalmSound DEF Calm
<1>6. MainOK'
  BY <1>2, <1>3, <1>4 DEF MainOK, Generating
<1>7. HeldOK'
  <2>1. gens = << >>
    BY <1>2 DEF SearchInv, RoundsOK
  <2> QED
    BY <1>2, <1>5, <2>1 DEF HeldOK
<1>8. ForksExact'
  BY <1>2, <1>3, <1>4, <1>5 DEF ForksExact, Winners
<1>9. BackOK'
  BY <1>2, <1>3 DEF BackOK
<1> QED
  BY <1>3, <1>5, <1>6, <1>7, <1>8, <1>9 DEF AllWell

\* The first checkpoint holds what main holds, and is the first frontier.
LEMMA SealMainSound ==
    ASSUME SearchInv, AllWell, faults = 0, faults' = 0, NEW ok \in BOOLEAN, SealMain(ok)
    PROVE  AllWell'
<1>1. ok
  BY NoFault DEF SealMain
<1>2. /\ step = "seal_main" /\ step' = "fork" /\ current' = current /\ restored' = restored
      /\ prepared' = NextId /\ saved' = Sealed(Main)
      /\ forks' = [forks EXCEPT ![Main].base = NextId]
      /\ failed' = failed \cup Check(ok, "seal_main") \cup Check(forks[Main].at.warm, "shell_state")
  BY <1>1 DEF SealMain
<1>3. /\ failed = {} /\ current = Main /\ forks[Main].at = Warm /\ restored = 0
      /\ DOMAIN forks = {Main} \cup Winners /\ gens = << >>
  BY <1>2 DEF AllWell, MainOK, BackOK, ForksExact, SearchInv, RoundsOK
<1>4. failed' = {}
  BY <1>1, <1>2, <1>3 DEF Check, Warm, Empty
<1>5. /\ NextId \in Nat /\ NextId = Len(saved) + 1 /\ Len(saved) \in Nat
      /\ saved'[NextId] = [at |-> forks[Main].at, parent |-> forks[Main].base]
  BY <1>2, <1>3, SealedAdds DEF SearchInv
<1>6. forks'[Main].at = Warm /\ DOMAIN forks' = DOMAIN forks
  <2>1. forks[Main] \in [at : Contents, base : Nat]
    BY <1>3 DEF SearchInv, Types
  <2> QED
    BY <1>2, <1>3, <2>1
<1>7. AnswersOK' /\ ChosenOK' /\ code' # "exception" /\ gens' = gens
  BY CalmSound DEF Calm
<1>8. MainOK'
  BY <1>2, <1>3, <1>6 DEF MainOK
<1>9. HeldOK'
  <2>1. prepared' # 0 /\ saved'[prepared'].at = Warm
    BY <1>2, <1>3, <1>5
  <2> QED
    BY <1>3, <1>7, <2>1 DEF HeldOK
<1>10. ForksExact'
  BY <1>2, <1>3, <1>6, <1>7 DEF ForksExact, Winners
<1>11. BackOK'
  BY <1>2, <1>3 DEF BackOK
<1> QED
  BY <1>4, <1>7, <1>8, <1>9, <1>10, <1>11 DEF AllWell

\* The frontier of the generation at work holds the value that the moves are added to, in a
\* prepared shell, and was written by none of the candidates.
LEMMA FrontierHolds ==
    ASSUME SearchInv, SoFar, HeldOK, step \in {"fork", "work"}
    PROVE  /\ Frontier # 0 /\ saved[Frontier].at \in Contents
           /\ saved[Frontier].at.warm /\ saved[Frontier].at.files
           /\ saved[Frontier].at.value = CurrentValue
           /\ saved[Frontier].at.by \notin Batch(Number)
           /\ FrontierUntouched
<1>1. /\ Types /\ gens \in Seq(Records) /\ Len(gens) \in Nat /\ DOMAIN gens = 1 .. Len(gens)
      /\ Number = Len(gens) + 1 /\ Nobody \notin Nat \X Nat
      /\ \A c \in Batch(Number) : c \in Nat \X Nat /\ c[1] = Number
  <2>1. /\ Len(gens) \in Nat /\ DOMAIN gens = 1 .. Len(gens) /\ Number = Len(gens) + 1
        /\ Nobody \notin Nat \X Nat /\ \A n \in Nat : \A c \in Batch(n) : c \in Nat \X Nat /\ c[1] = n
    BY NamesApart
  <2>2. Number \in Nat
    BY <2>1
  <2> QED
    BY <2>1, <2>2 DEF SearchInv, Types
<1>2. CASE gens = << >>
  <2>1. /\ Frontier = prepared /\ CurrentValue = 0 /\ FrontierFork = Nobody
        /\ prepared # 0 /\ saved[prepared].at = Warm
    BY <1>2 DEF Frontier, CurrentValue, FrontierFork, HeldOK
  <2>2. Warm \in Contents /\ Warm.warm /\ Warm.files /\ Warm.value = 0 /\ Warm.by = Nobody
    BY DEF Warm, Empty, Contents, Names
  <2>3. Nobody \notin Batch(Number)
    BY <1>1
  <2> QED
    BY <2>1, <2>2, <2>3 DEF FrontierUntouched
<1>3. CASE gens # << >>
  <2>1. Len(gens) \in DOMAIN gens /\ gens[Len(gens)] \in Records
    BY <1>1, <1>3
  <2>2. /\ Frontier = gens[Len(gens)].checkpoint /\ CurrentValue = gens[Len(gens)].value
        /\ FrontierFork = gens[Len(gens)].winner
    BY <1>3 DEF Frontier, CurrentValue, FrontierFork
  <2>3. Continues(Len(gens)) /\ WinnerHeld(Len(gens))
    BY <2>1 DEF SoFar, ChainOK, HeldOK
  <2>4. /\ Frontier # 0 /\ saved[Frontier].at.warm /\ saved[Frontier].at.files
        /\ saved[Frontier].at.value = CurrentValue
        /\ saved[Frontier].at.by = gens[Len(gens)].winner
    BY <2>2, <2>3 DEF Continues, WinnerHeld
  <2>5. saved[Frontier].at \in Contents
    <3>1. Frontier \in 1 .. Len(saved)
      BY <2>1, <2>2, <2>4 DEF SearchInv, IdsOK, Types, Records
    <3>2. saved[Frontier] \in Saved
      BY <1>1, <3>1 DEF Types
    <3> QED
      BY <3>2 DEF Saved
  <2>6. gens[Len(gens)].winner # Nobody
    BY <2>1, <2>2, <2>4 DEF SearchInv, RoundsOK
  <2>7. saved[Frontier].at.by \notin Batch(Number)
    <3>1. gens[Len(gens)].winner[1] = Len(gens)
      BY <2>1, <2>6, NamesApart
    <3> QED
      BY <1>1, <2>4, <3>1
  <2>8. session = "live"
    BY DEF SearchInv, ForksOK, Live
  <2>9. FrontierUntouched
    BY <2>1, <2>2, <2>4, <2>8 DEF SearchInv, WinnersSurvive, FrontierUntouched
  <2> QED
    BY <2>4, <2>5, <2>7, <2>9
<1> QED
  BY <1>2, <1>3

\* What a candidate makes of what it was forked from.
LEMMA CommandDoes ==
    ASSUME NEW at \in Contents, at.warm, NEW c
    PROVE  /\ c = Rejected => CandidateCommand(c, at) = at
           /\ c # Rejected => /\ CandidateCommand(c, at).warm
                              /\ CandidateCommand(c, at).files = at.files
                              /\ CandidateCommand(c, at).by = c
                              /\ CandidateCommand(c, at).value = at.value + Move(c)
                              /\ CandidateCommand(c, at).move = Move(c)
<1>1. c = Rejected => CandidateCommand(c, at) = at
  BY DEF CandidateCommand
<1>2. ASSUME c # Rejected
      PROVE  CandidateCommand(c, at)
                = [at EXCEPT !.value = at.value + Move(c), !.by = c, !.move = Move(c)]
  BY <1>2 DEF CandidateCommand
<1> QED
  BY <1>1, <1>2 DEF Contents

\* Every candidate is forked from the frontier.
LEMMA ForkBatchSound ==
    ASSUME SearchInv, SoFar, AllWell, faults = 0, faults' = 0,
           NEW missing \in SUBSET Candidates, ForkBatch(missing)
    PROVE  AllWell'
<1>1. /\ step = "fork" /\ step' = "work"
      /\ IF Frontier = 0 THEN UNCHANGED faults ELSE Try(missing = {})
      /\ forks' = [f \in DOMAIN forks \cup (Candidates \ missing) |->
                      IF f \in Candidates THEN [at |-> saved[Frontier].at, base |-> Frontier]
                                          ELSE forks[f]]
      /\ worker' = [c \in Candidates |-> "idle"] /\ result' = [c \in Candidates |-> Nobody]
      /\ failed' = failed \cup Check(missing = {}, "forked")
      /\ UNCHANGED <<plan, saved, current, prepared, gens, restored>>
  BY DEF ForkBatch
<1>2. code' = code
  BY DEF ForkBatch, endVars
<1>3. /\ failed = {} /\ code # "exception" /\ MainOK /\ HeldOK /\ ForksExact /\ BackOK
  BY DEF AllWell
<1>4. missing = {}
  <2>1. Try(missing = {})
    BY <1>1, <1>3, FrontierHolds
  <2> QED
    BY <2>1, NoFault
<1>5. failed' = {}
  BY <1>1, <1>3, <1>4 DEF Check
<1>6. /\ Candidates = Batch(Number) /\ Batch(Number)' = Batch(Number) /\ Frontier' = Frontier
      /\ Main \notin Candidates
  <2>1. /\ Candidates = Batch(Number) /\ Number = Len(gens) + 1 /\ Len(gens) \in Nat
        /\ Main[1] = 0 /\ \A c \in Batch(Number) : c[1] = Number
    BY NamesApart
  <2>2. Batch(Number)' = Batch(Number) /\ Frontier' = Frontier
    BY <1>1 DEF Batch, Number, Frontier
  <2> QED
    BY <2>1, <2>2
<1>7. /\ DOMAIN forks' = DOMAIN forks \cup Batch(Number)
      /\ \A c \in Batch(Number) : forks'[c] = [at |-> saved[Frontier].at, base |-> Frontier]
      /\ Main \in DOMAIN forks => forks'[Main] = forks[Main]
  BY <1>1, <1>4, <1>6
<1>8. MainOK'
  <2>1. Main \in DOMAIN forks
    BY <1>1, <1>3 DEF ForksExact
  <2> QED
    BY <1>1, <1>3, <1>7, <2>1 DEF MainOK, Generating
<1>9. HeldOK'
  BY <1>1, <1>3 DEF HeldOK, WinnerHeld, ParkedHeld
<1>10. AnswersOK'
  BY <1>1, <1>6, <1>7 DEF AnswersOK
<1>11. ChosenOK'
  BY <1>1 DEF ChosenOK
<1>12. ForksExact'
  <2>1. Winners' = Winners
    BY <1>1 DEF Winners
  <2> QED
    BY <1>1, <1>3, <1>6, <1>7, <2>1 DEF ForksExact
<1>13. BackOK'
  BY <1>1, <1>3 DEF BackOK, Generating
<1> QED
  BY <1>2, <1>3, <1>5, <1>8, <1>9, <1>10, <1>11, <1>12, <1>13 DEF AllWell

\* Each candidate runs its command once, on its own fork, and its entries change neither.
LEMMA CandidateSound ==
    ASSUME SearchInv, SoFar, AllWell, faults = 0, faults' = 0, NEW c \in DOMAIN worker,
           \/ \E ok, done \in BOOLEAN : Run(c, ok, done)
           \/ NotFound(c) \/ RecordCount(c) \/ RecordEnter(c)
    PROVE  AllWell'
<1>1. /\ step = "work" /\ step' = "work"
      /\ UNCHANGED <<plan, saved, current, prepared, gens, restored, failed, code>>
  BY DEF Run, NotFound, RecordCount, RecordEnter, treeVars, endVars
<1>2. /\ failed = {} /\ code # "exception" /\ MainOK /\ HeldOK /\ AnswersOK /\ ForksExact /\ BackOK
  BY DEF AllWell
<1>3. /\ DOMAIN worker = Batch(Number) /\ Main \notin Batch(Number) /\ Types
      /\ Batch(Number)' = Batch(Number) /\ Rejected' = Rejected /\ Frontier' = Frontier
  <2>1. DOMAIN worker = Batch(Number) /\ Types
    BY <1>1 DEF SearchInv, WorkOK
  <2>2. Main \notin Batch(Number)
    <3>1. /\ Number = Len(gens) + 1 /\ Len(gens) \in Nat
          /\ Main[1] = 0 /\ \A d \in Batch(Number) : d[1] = Number
      BY NamesApart
    <3> QED
      BY <3>1
  <2>3. Batch(Number)' = Batch(Number) /\ Rejected' = Rejected /\ Frontier' = Frontier
    BY <1>1 DEF Batch, Number, Rejected, Frontier
  <2> QED
    BY <2>1, <2>2, <2>3
<1>4. \A d : Expected(d)' = Expected(d) /\ Move(d)' = Move(d)
  BY <1>1 DEF Expected, Move, CurrentValue, StepSize, Most
<1>5. \A d : CandidateCommand(d, saved[Frontier].at)' = CandidateCommand(d, saved[Frontier].at)
  BY <1>1, <1>3, <1>4 DEF CandidateCommand
<1>6. /\ DOMAIN forks' = DOMAIN forks /\ \A f \in DOMAIN forks \ {c} : forks'[f] = forks[f]
      /\ \A d \in DOMAIN worker \ {c} : worker'[d] = worker[d] /\ result'[d] = result[d]
  <2>1. CASE \E ok, done \in BOOLEAN : Run(c, ok, done)
    BY <1>3, <2>1 DEF Run, Types
  <2>2. CASE NotFound(c) \/ RecordCount(c) \/ RecordEnter(c)
    <3>1. /\ UNCHANGED <<forks, result>>
          /\ \E s \in {"counted", "done"} : worker' = [worker EXCEPT ![c] = s]
      BY <2>2 DEF NotFound, RecordCount, RecordEnter, treeVars
    <3> QED
      BY <1>3, <3>1 DEF Types
  <2> QED
    BY <2>1, <2>2
<1>7. /\ forks'[c].base = Frontier
      /\ forks'[c].at = IF worker'[c] = "idle" THEN saved[Frontier].at
                                               ELSE CandidateCommand(c, saved[Frontier].at)
      /\ result'[c] = IF worker'[c] = "idle" \/ c = Rejected THEN Nobody ELSE Expected(c)
  <2>1. /\ c \in DOMAIN forks /\ forks[c].base = Frontier
        /\ forks[c].at = IF worker[c] = "idle" THEN saved[Frontier].at
                                               ELSE CandidateCommand(c, saved[Frontier].at)
        /\ result[c] = IF worker[c] = "idle" \/ c = Rejected THEN Nobody ELSE Expected(c)
    BY <1>1, <1>2, <1>3 DEF AnswersOK
  <2>2. CASE \E ok, done \in BOOLEAN : Run(c, ok, done)
    <3>1. PICK ok \in BOOLEAN, done \in BOOLEAN : Run(c, ok, done)
      BY <2>2
    <3>2. ok /\ done
      <4>1. ok
        BY <3>1, NoFault DEF Run
      <4> QED
        BY <3>1, <4>1 DEF Run
    <3> DEFINE after == CandidateCommand(c, forks[c].at)
    <3>3. /\ worker[c] = "idle" /\ worker' = [worker EXCEPT ![c] = "ran"]
          /\ forks' = [forks EXCEPT ![c].at = after]
          /\ result' = [result EXCEPT ![c] = IF after.by = c THEN after.value ELSE Nobody]
      BY <3>1, <3>2 DEF Run
    <3>4. after = CandidateCommand(c, saved[Frontier].at)
      BY <2>1, <3>3
    <3> HIDE DEF after
    <3>5. /\ worker'[c] = "ran" /\ forks'[c].at = after /\ forks'[c].base = Frontier
          /\ result'[c] = IF after.by = c THEN after.value ELSE Nobody
      <4>1. forks[c] \in [at : Contents, base : Nat]
        BY <1>3, <2>1 DEF Types
      <4>2. worker'[c] = "ran" /\ result'[c] = IF after.by = c THEN after.value ELSE Nobody
        BY <1>3, <3>3 DEF Types
      <4> QED
        BY <2>1, <3>3, <4>1, <4>2
    <3>6. IF c = Rejected THEN after.by # c ELSE after.by = c /\ after.value = Expected(c)
      <4>1. /\ saved[Frontier].at \in Contents /\ saved[Frontier].at.warm
            /\ saved[Frontier].at.value = CurrentValue /\ saved[Frontier].at.by # c
        BY <1>1, <1>2, <1>3, FrontierHolds
      <4>2. CASE c = Rejected
        BY <3>4, <4>1, <4>2, CommandDoes
      <4>3. CASE c # Rejected
        BY <3>4, <4>1, <4>3, CommandDoes DEF Expected
      <4> QED
        BY <4>2, <4>3
    <3> QED
      BY <3>4, <3>5, <3>6
  <2>3. ~NotFound(c)
    BY <2>1 DEF NotFound
  <2>4. CASE RecordCount(c) \/ RecordEnter(c)
    <3>1. /\ UNCHANGED <<forks, result>> /\ worker[c] # "idle"
          /\ \E s \in {"counted", "done"} : worker' = [worker EXCEPT ![c] = s]
      BY <2>4 DEF RecordCount, RecordEnter, treeVars
    <3>2. worker'[c] # "idle"
      BY <1>3, <3>1 DEF Types
    <3> QED
      BY <2>1, <3>1, <3>2
  <2> QED
    BY <2>2, <2>3, <2>4
<1>8. MainOK'
  <2>1. Main \in DOMAIN forks /\ Main # c
    BY <1>1, <1>2, <1>3 DEF ForksExact
  <2>2. forks'[Main] = forks[Main]
    BY <1>6, <2>1
  <2> QED
    BY <1>1, <1>2, <2>2 DEF MainOK, Generating
<1>9. HeldOK'
  BY <1>1, <1>2 DEF HeldOK, WinnerHeld, ParkedHeld
<1>10. AnswersOK'
  <2> SUFFICES ASSUME NEW d \in Batch(Number)
               PROVE  /\ d \in DOMAIN forks' /\ forks'[d].base = Frontier
                      /\ forks'[d].at = IF worker'[d] = "idle" THEN saved[Frontier].at
                                        ELSE CandidateCommand(d, saved[Frontier].at)
                      /\ result'[d] = IF worker'[d] = "idle" \/ d = Rejected
                                      THEN Nobody ELSE Expected(d)
    <3>1. saved[Frontier]' = saved[Frontier]
      BY <1>1, <1>3
    <3> QED
      BY <1>3, <1>4, <1>5, <3>1 DEF AnswersOK
  <2>1. d \in DOMAIN forks'
    BY <1>1, <1>2, <1>6 DEF AnswersOK
  <2>2. CASE d = c
    BY <1>7, <2>1, <2>2
  <2>3. CASE d # c
    <3>1. forks'[d] = forks[d] /\ worker'[d] = worker[d] /\ result'[d] = result[d]
      BY <1>3, <1>6, <2>1, <2>3
    <3> QED
      BY <1>1, <1>2, <2>1, <3>1 DEF AnswersOK
  <2> QED
    BY <2>2, <2>3
<1>11. ChosenOK'
  BY <1>1 DEF ChosenOK
<1>12. ForksExact'
  <2>1. Winners' = Winners
    BY <1>1 DEF Winners
  <2> QED
    BY <1>1, <1>2, <1>3, <1>6, <2>1 DEF ForksExact
<1>13. BackOK'
  BY <1>1, <1>2 DEF BackOK, Generating
<1> QED
  BY <1>1, <1>2, <1>8, <1>9, <1>10, <1>11, <1>12, <1>13 DEF AllWell

\* The first of a set depends on the values only.
LEMMA FirstUnique ==
    ASSUME plan.target \in Int, plan.fanout \in Nat, NEW n \in Nat, NEW S \in SUBSET Batch(n), S # {},
           NEW value, NEW other, \A c \in S : value[c] \in Nat /\ other[c] = value[c]
    PROVE  First(S, value) = First(S, other)
<1> DEFINE a == First(S, value)
           b == First(S, other)
<1>1. a \in S /\ \A d \in S \ {a} : Before(a, d, value)
  BY FirstIsLeast
<1>2. b \in S /\ \A d \in S \ {b} : Before(b, d, other)
  <2>1. \A c \in S : other[c] \in Nat
    OBVIOUS
  <2> QED
    BY <2>1, FirstIsLeast
<1> HIDE DEF a, b
<1>3. ASSUME a # b PROVE FALSE
  <2>1. Before(a, b, value) /\ Before(b, a, other)
    BY <1>1, <1>2, <1>3
  <2>2. /\ Distance(other[a]) = Distance(value[a]) /\ Distance(other[b]) = Distance(value[b])
        /\ Distance(value[a]) \in Nat /\ Distance(value[b]) \in Nat
        /\ a[2] \in Nat /\ b[2] \in Nat
    BY <1>1, <1>2 DEF Distance, Batch
  <2> QED
    BY <2>1, <2>2 DEF Before
<1> QED
  BY <1>3 DEF a, b

\* Every answer is as expected, and the winner is the one that was expected.
LEMMA ScoreSound ==
    ASSUME SearchInv, SoFar, AllWell, Score
    PROVE  AllWell'
<1> DEFINE all == Candidates \ {Rejected}
           scored == {c \in all : Scored(c)}
           winner == First(scored, result)
           runner == First(scored \ {winner}, result)
           none == [winner |-> Nobody, value |-> 0, runner |-> Nobody, rvalue |-> 0,
                    rmove |-> 0, checkpoint |-> 0, parked |-> 0]
           one == [none EXCEPT !.winner = winner, !.value = result[winner]]
           two == [none EXCEPT !.winner = winner, !.value = result[winner],
                               !.runner = runner, !.rvalue = result[runner],
                               !.rmove = Move(runner)]
<1>1. /\ step = "work" /\ Joined
      /\ UNCHANGED <<plan, forks, saved, current, prepared, restored, code>>
  BY DEF Score, treeVars, endVars
<1>2. /\ failed = {} /\ code # "exception" /\ MainOK /\ HeldOK /\ AnswersOK /\ ForksExact /\ BackOK
  BY DEF AllWell
<1>3. /\ Types /\ DOMAIN worker = Batch(Number) /\ Candidates = Batch(Number)
      /\ Rejected = <<Number, 1>> /\ Number \in Nat /\ Number = Len(gens) + 1 /\ Len(gens) \in Nat
      /\ DOMAIN gens = 1 .. Len(gens)
      /\ plan.target \in Int /\ plan.fanout \in Nat \ {0, 1}
  <2>1. Types /\ DOMAIN worker = Batch(Number)
    BY <1>1 DEF SearchInv, WorkOK
  <2>2. plan.target \in Int /\ plan.fanout \in Nat \ {0, 1}
    BY <2>1, SearchAssumption DEF Types
  <2> QED
    BY <2>1, <2>2, NamesApart
<1>4. /\ saved[Frontier].at \in Contents /\ saved[Frontier].at.warm /\ saved[Frontier].at.files
      /\ saved[Frontier].at.value = CurrentValue /\ FrontierUntouched
  BY <1>1, <1>2, FrontierHolds
<1>5. \A c \in Batch(Number) : /\ c \in DOMAIN forks /\ forks[c].base = Frontier
                               /\ forks[c].at = CandidateCommand(c, saved[Frontier].at)
                               /\ result[c] = IF c = Rejected THEN Nobody ELSE Expected(c)
  BY <1>1, <1>2, <1>3 DEF AnswersOK, Joined
<1>6. \A c \in all : /\ c \in Batch(Number) /\ c # Rejected /\ Move(c) \in Nat /\ Expected(c) \in Nat
                     /\ result[c] = Expected(c) /\ result[c] # Nobody
                     /\ forks[c].at.by = c /\ forks[c].at.value = result[c]
                     /\ forks[c].at.move = Move(c) /\ forks[c].at.warm /\ forks[c].at.files
  <2> SUFFICES ASSUME NEW c \in all
               PROVE  /\ c \in Batch(Number) /\ c # Rejected /\ Move(c) \in Nat /\ Expected(c) \in Nat
                      /\ result[c] = Expected(c) /\ result[c] # Nobody
                      /\ forks[c].at.by = c /\ forks[c].at.value = result[c]
                      /\ forks[c].at.move = Move(c) /\ forks[c].at.warm /\ forks[c].at.files
    OBVIOUS
  <2>1. c \in Batch(Number) /\ c # Rejected
    BY <1>3
  <2>2. c \in Nat \X Nat /\ c[2] >= 1
    BY <1>3, <2>1, NamesApart
  <2>3. Move(c) \in Nat /\ CurrentValue \in Nat
    BY <1>3, <2>2, MovesAreNumbers
  <2>4. Expected(c) \in Nat /\ result[c] = Expected(c)
    BY <1>5, <2>1, <2>3 DEF Expected
  <2>5. result[c] # Nobody
    BY <2>4, SearchAssumption
  <2>6. /\ forks[c].at.by = c /\ forks[c].at.value = CurrentValue + Move(c)
        /\ forks[c].at.move = Move(c) /\ forks[c].at.warm /\ forks[c].at.files
    BY <1>4, <1>5, <2>1, CommandDoes
  <2> QED
    BY <2>1, <2>3, <2>4, <2>5, <2>6 DEF Expected
<1>7. scored = all
  BY <1>6 DEF Scored
<1>8. all # {} /\ Rejected \in Batch(Number)
  <2>1. <<Number, 2>> \in all /\ <<Number, 1>> \in Batch(Number)
    BY <1>3 DEF Batch
  <2> QED
    BY <1>3, <2>1
<1>9. all \in SUBSET Batch(Number) /\ \A c \in all : result[c] \in Nat
  BY <1>6
<1>10. winner \in all /\ \A S \in SUBSET all : S # {} => First(S, result) \in S
  <2>1. ASSUME NEW S \in SUBSET all, S # {} PROVE First(S, result) \in S
    <3>1. S \in SUBSET Batch(Number) /\ (\A c \in S : result[c] \in Nat) /\ plan.fanout \in Nat
      BY <1>3, <1>9
    <3> QED
      BY <1>3, <2>1, <3>1, FirstIsLeast
  <2> QED
    BY <1>7, <1>8, <2>1
<1>11. winner = ExpectedWinner
  <2> DEFINE value == [c \in all |-> Expected(c)]
  <2>1. ExpectedWinner = First(all, value)
    BY DEF ExpectedWinner
  <2>2. plan.fanout \in Nat /\ \A c \in all : result[c] \in Nat /\ value[c] = result[c]
    BY <1>3, <1>6
  <2>3. First(all, result) = First(all, value)
    <3> HIDE DEF value, all
    <3> QED
      BY <1>3, <1>8, <1>9, <2>2, FirstUnique
  <2> QED
    BY <1>7, <2>1, <2>3
<1>12. failed' = {}
  <2>1. failed' = failed \cup Check(Rejected \in DOMAIN forks, "usable")
                    \cup Check(scored = all, "answers")
                    \cup Check(\A c \in all : result[c] = Expected(c), "arithmetic")
                    \cup Check(winner = ExpectedWinner, "winner")
                    \cup Check(\A c \in all : OwnEditsOnly(c), "isolation")
                    \cup Check(FrontierUntouched, "frontier")
    BY <1>7, <1>8 DEF Score
  <2>2. Rejected \in DOMAIN forks
    BY <1>5, <1>8
  <2>3. \A c \in all : result[c] = Expected(c)
    BY <1>6
  <2>4. \A c \in all : OwnEditsOnly(c)
    BY <1>5, <1>6 DEF OwnEditsOnly
  <2> HIDE DEF all, scored, winner
  <2> QED
    BY <1>2, <1>4, <1>7, <1>11, <2>1, <2>2, <2>3, <2>4 DEF Check
<1>13. step' = "seal_winner" /\ gens' = Append(gens, IF scored = {winner} THEN one ELSE two)
  BY <1>7, <1>8 DEF Score
<1>14. scored # {winner} => runner \in all \ {winner}
  BY <1>7, <1>10
<1> HIDE DEF all, scored
<1>15. ~(scored = {winner}) \/ one.runner = Nobody
  BY DEF none, one
<1> DEFINE rec == IF scored = {winner} THEN one ELSE two
<1>16. /\ rec.winner = winner /\ rec.value = result[winner] /\ rec.checkpoint = 0 /\ rec.parked = 0
       /\ rec.runner = Nobody \/ /\ rec.runner \in all /\ rec.rvalue = result[rec.runner]
                                 /\ rec.rmove = Move(rec.runner)
  <2>1. CASE scored = {winner}
    BY <2>1
  <2>2. CASE scored # {winner}
    <3>1. runner \in all
      BY <1>14, <2>2
    <3> HIDE DEF winner, runner
    <3> QED
      BY <2>2, <3>1
  <2> QED
    BY <2>1, <2>2
<1> HIDE DEF none, one, two, winner, runner
<1>17. gens' = Append(gens, rec)
  BY <1>13
<1> HIDE DEF rec
<1>18. /\ Len(gens') = Number /\ DOMAIN gens' = 1 .. Number /\ gens'[Number] = rec
       /\ \A g \in DOMAIN gens : gens'[g] = gens[g]
  <2>1. gens \in Seq(Records)
    BY <1>3 DEF Types
  <2> QED
    BY <1>3, <1>17, <2>1
<1>19. Winner' = winner /\ Runner' = rec.runner /\ Last' = rec
  BY <1>16, <1>18 DEF Winner, Runner, Last
<1>20. LastFrontier' = Frontier
  <2>1. LastFrontier' = IF Number = 1 THEN prepared ELSE gens'[Number - 1].checkpoint
    BY <1>1, <1>18 DEF LastFrontier
  <2>2. CASE Len(gens) = 0
    BY <1>3, <2>1, <2>2 DEF Frontier, Types
  <2>3. CASE Len(gens) # 0
    <3>1. Number - 1 = Len(gens) /\ Len(gens) \in DOMAIN gens /\ Number # 1 /\ gens # << >>
      BY <1>3, <2>3
    <3> QED
      BY <1>18, <2>1, <3>1 DEF Frontier
  <2> QED
    BY <2>2, <2>3
<1>21. ChosenOK'
  <2>1. /\ forks[winner].base = Frontier /\ forks[winner].at.value = rec.value
        /\ forks[winner].at.warm /\ forks[winner].at.files
    BY <1>5, <1>6, <1>10, <1>16
  <2>2. rec.runner # Nobody => /\ forks[rec.runner].base = Frontier
                               /\ forks[rec.runner].at.value = rec.rvalue
                               /\ forks[rec.runner].at.move = rec.rmove
    BY <1>5, <1>6, <1>16
  <2> QED
    BY <1>1, <1>19, <1>20, <2>1, <2>2 DEF ChosenOK
<1>22. MainOK'
  BY <1>1, <1>2, <1>13 DEF MainOK, Generating
<1>23. HeldOK'
  <2>1. prepared # 0 /\ saved[prepared].at = Warm
    BY <1>1, <1>2 DEF HeldOK
  <2>2. ASSUME NEW g \in DOMAIN gens' PROVE WinnerHeld(g)' /\ ParkedHeld(g)'
    <3>1. CASE g \in DOMAIN gens
      <4>1. WinnerHeld(g) /\ ParkedHeld(g) /\ gens'[g] = gens[g]
        BY <1>2, <1>18, <3>1 DEF HeldOK
      <4> QED
        BY <1>1, <4>1 DEF WinnerHeld, ParkedHeld
    <3>2. CASE g \notin DOMAIN gens
      <4>1. g = Number
        BY <1>3, <1>18, <3>2
      <4> QED
        BY <1>16, <1>18, <4>1 DEF WinnerHeld, ParkedHeld
    <3> QED
      BY <3>1, <3>2
  <2> QED
    BY <1>1, <2>1, <2>2 DEF HeldOK
<1>24. AnswersOK'
  BY <1>13 DEF AnswersOK
<1>25. ForksExact'
  <2>1. Winners' = Winners \cup {winner}
    <3>1. \A g \in DOMAIN gens' : g \in DOMAIN gens \/ g = Number
      BY <1>3, <1>18
    <3>2. Number \in DOMAIN gens' /\ DOMAIN gens \subseteq DOMAIN gens'
      BY <1>3, <1>18
    <3> QED
      BY <1>16, <1>18, <3>1, <3>2 DEF Winners
  <2>2. Batch(Len(gens))' = Batch(Number) /\ winner \in Batch(Number)
    BY <1>1, <1>6, <1>10, <1>18 DEF Batch
  <2> QED
    BY <1>1, <1>2, <1>13, <2>1, <2>2 DEF ForksExact
<1>26. BackOK'
  BY <1>1, <1>2, <1>13 DEF BackOK, Generating
<1> QED
  BY <1>1, <1>2, <1>12, <1>21, <1>22, <1>23, <1>24, <1>25, <1>26 DEF AllWell

\* Names at the end of a generation.
LEMMA ChosenNames ==
    ASSUME SearchInv, step \in {"seal_winner", "park_runner", "discard", "decide"}
    PROVE  /\ Types /\ gens \in Seq(Records) /\ gens # << >> /\ Len(gens) \in Nat \ {0}
           /\ DOMAIN gens = 1 .. Len(gens) /\ Len(gens) \in DOMAIN gens
           /\ Last = gens[Len(gens)] /\ Last \in Records /\ Winner = Last.winner /\ Runner = Last.runner
           /\ Runner # Nobody => Runner \in Batch(Len(gens)) \ {Winner}
           /\ Main \notin Batch(Len(gens)) /\ Nobody \notin Nat \X Nat /\ Nobody \notin DOMAIN forks
<1>1. Types /\ gens \in Seq(Records) /\ gens # << >>
  BY DEF SearchInv, Types, RoundsOK
<1>2. /\ Len(gens) \in Nat \ {0} /\ DOMAIN gens = 1 .. Len(gens) /\ Len(gens) \in DOMAIN gens
  BY <1>1
<1>3. Last = gens[Len(gens)] /\ Last \in Records /\ Winner = Last.winner /\ Runner = Last.runner
  BY <1>1, <1>2 DEF Last, Winner, Runner
<1>4. Runner # Nobody => Runner \in Batch(Len(gens)) \ {Winner}
  BY <1>2, <1>3 DEF SearchInv, RoundsOK
<1>5. Main \notin Batch(Len(gens)) /\ Nobody \notin Nat \X Nat
  BY <1>2, NamesApart
<1>6. Nobody \notin DOMAIN forks
  BY <1>1, <1>5 DEF Types
<1> QED
  BY <1>1, <1>2, <1>3, <1>4, <1>5, <1>6

\* The checkpoint of the winner holds the frontier and its score, and is the next frontier.
LEMMA SealWinnerSound ==
    ASSUME SearchInv, SoFar, AllWell, faults = 0, faults' = 0, NEW ok \in BOOLEAN, SealWinner(ok)
    PROVE  AllWell'
<1>1. ok
  BY NoFault DEF SealWinner
<1>2. /\ step = "seal_winner" /\ step' = IF Runner = Nobody THEN "discard" ELSE "park_runner"
      /\ saved' = Sealed(Winner) /\ forks' = [forks EXCEPT ![Winner].base = NextId]
      /\ gens' = Recorded("checkpoint", NextId)
      /\ failed' = failed \cup Check(ok, "seal_winner")
                          \cup Check(forks[Winner].base = LastFrontier, "winner_parent")
                          \cup Check(forks[Winner].at.value = Last.value, "winner_resumed")
      /\ UNCHANGED <<plan, current, prepared, worker, result, restored>>
  BY <1>1 DEF SealWinner
<1>3. code' = code
  BY DEF SealWinner, endVars
<1>4. /\ failed = {} /\ code # "exception" /\ MainOK /\ HeldOK /\ ChosenOK /\ ForksExact /\ BackOK
  BY DEF AllWell
<1>5. /\ Types /\ gens # << >> /\ Len(gens) \in Nat \ {0} /\ DOMAIN gens = 1 .. Len(gens)
      /\ Len(gens) \in DOMAIN gens
      /\ Last = gens[Len(gens)] /\ Last \in Records /\ Winner = Last.winner /\ Runner = Last.runner
      /\ Runner # Nobody => Runner \in Batch(Len(gens)) \ {Winner}
      /\ Main \notin Batch(Len(gens)) /\ Nobody \notin DOMAIN forks
  BY <1>2, ChosenNames
<1>6. /\ forks[Winner].base = LastFrontier /\ forks[Winner].at.value = Last.value
      /\ forks[Winner].at.warm /\ forks[Winner].at.files /\ Winner \in DOMAIN forks
  BY <1>2, <1>4 DEF ChosenOK, SearchInv, WorkOK
<1>7. failed' = {}
  BY <1>1, <1>2, <1>4, <1>6 DEF Check
<1>8. /\ NextId \in Nat /\ NextId # 0 /\ \A i \in Ids : saved'[i] = saved[i]
      /\ saved'[NextId] = [at |-> forks[Winner].at, parent |-> forks[Winner].base]
  <2>1. /\ NextId = Len(saved) + 1 /\ Len(saved) \in Nat /\ \A i \in Ids : saved'[i] = saved[i]
        /\ saved'[NextId] = [at |-> forks[Winner].at, parent |-> forks[Winner].base]
    BY <1>2, <1>5, <1>6, SealedAdds
  <2> QED
    BY <2>1
<1>9. /\ Len(gens') = Len(gens) /\ DOMAIN gens' = DOMAIN gens
      /\ gens'[Len(gens)] = [Last EXCEPT !["checkpoint"] = NextId]
      /\ \A g \in DOMAIN gens \ {Len(gens)} : gens'[g] = gens[g]
  BY <1>2, <1>5, <1>8, RecordedChanges
<1>10. /\ gens'[Len(gens)].checkpoint = NextId /\ gens'[Len(gens)].winner = Last.winner
       /\ gens'[Len(gens)].runner = Last.runner /\ gens'[Len(gens)].parked = Last.parked
       /\ gens'[Len(gens)].rvalue = Last.rvalue /\ gens'[Len(gens)].rmove = Last.rmove
  BY <1>5, <1>9 DEF Records
<1>11. /\ DOMAIN forks' = DOMAIN forks /\ forks'[Winner].at = forks[Winner].at
       /\ \A f \in DOMAIN forks \ {Winner} : forks'[f] = forks[f]
  <2>1. forks[Winner] \in [at : Contents, base : Nat]
    BY <1>5, <1>6 DEF Types
  <2> QED
    BY <1>2, <1>5, <1>6, <2>1 DEF Types
<1>12. MainOK'
  <2>1. Main \in DOMAIN forks /\ Main # Winner
    <3>1. Main \in DOMAIN forks
      BY <1>2, <1>4 DEF ForksExact
    <3>2. Winner \in Batch(Len(gens))
      <4>1. Winner # Nobody
        BY <1>5, <1>6
      <4> QED
        BY <1>5, <4>1 DEF SearchInv, RoundsOK
    <3> QED
      BY <1>5, <3>1, <3>2
  <2> QED
    BY <1>2, <1>4, <1>11, <2>1 DEF MainOK, Generating
<1>13. HeldOK'
  <2>1. prepared' # 0 /\ saved'[prepared'].at = Warm
    BY <1>2, <1>4, <1>8, PreparedStays
  <2>2. \A g \in DOMAIN gens : WinnerHeld(g)' /\ ParkedHeld(g)'
    <3> SUFFICES ASSUME NEW g \in DOMAIN gens PROVE WinnerHeld(g)' /\ ParkedHeld(g)'
      OBVIOUS
    <3>1. WinnerHeld(g) /\ ParkedHeld(g)
      BY <1>4 DEF HeldOK
    <3>2. CASE g = Len(gens)
      <4>1. ParkedHeld(g)'
        BY <1>5, <1>8, <1>10, <3>1, <3>2, HeldStays
      <4>2. WinnerHeld(g)'
        BY <1>6, <1>8, <1>10, <3>2 DEF WinnerHeld
      <4> QED
        BY <4>1, <4>2
    <3>3. CASE g # Len(gens)
      <4>1. gens'[g] = gens[g]
        BY <1>9, <3>3
      <4> QED
        BY <1>8, <3>1, <4>1, HeldStays
    <3> QED
      BY <3>2, <3>3
  <2> QED
    BY <1>2, <1>9, <2>1, <2>2 DEF HeldOK
<1>14. AnswersOK'
  BY <1>2 DEF AnswersOK
<1>15. Winner' = Winner /\ Runner' = Runner /\ LastFrontier' = LastFrontier
  <2>1. Winner' = Winner /\ Runner' = Runner
    BY <1>5, <1>9, <1>10 DEF Winner, Runner
  <2>2. ASSUME Len(gens) # 1 PROVE gens'[Len(gens) - 1] = gens[Len(gens) - 1]
    <3>1. \A n \in Nat \ {0, 1} : n - 1 \in 1 .. n /\ n - 1 # n
      OBVIOUS
    <3>2. Len(gens) - 1 \in 1 .. Len(gens) /\ Len(gens) - 1 # Len(gens)
      BY <1>5, <2>2, <3>1
    <3> QED
      BY <1>5, <1>9, <3>2
  <2>3. LastFrontier' = IF Len(gens) = 1 THEN prepared ELSE gens'[Len(gens) - 1].checkpoint
    BY <1>2, <1>9 DEF LastFrontier
  <2> QED
    BY <2>1, <2>2, <2>3 DEF LastFrontier
<1>16. ChosenOK'
  <2> SUFFICES ASSUME step' = "park_runner", Runner # Nobody
               PROVE  /\ forks'[Runner].base = LastFrontier
                      /\ forks'[Runner].at.value = Last'.rvalue
                      /\ forks'[Runner].at.move = Last'.rmove
    BY <1>2, <1>15 DEF ChosenOK
  <2>1. Runner \in DOMAIN forks /\ Runner # Winner
    BY <1>2, <1>5 DEF SearchInv, WorkOK
  <2>2. forks'[Runner] = forks[Runner]
    BY <1>11, <2>1
  <2>3. Last'.rvalue = Last.rvalue /\ Last'.rmove = Last.rmove
    BY <1>9, <1>10 DEF Last
  <2> QED
    BY <1>2, <1>4, <2>2, <2>3 DEF ChosenOK
<1>17. ForksExact'
  <2>1. Winners' = Winners
    <3>1. \A g \in DOMAIN gens : gens'[g].winner = gens[g].winner
      BY <1>5, <1>9, <1>10
    <3> QED
      BY <1>9, <3>1 DEF Winners
  <2>2. Batch(Len(gens))' = Batch(Len(gens))
    BY <1>2, <1>9 DEF Batch
  <2>3. DOMAIN forks = {Main} \cup Winners \cup Batch(Len(gens))
    BY <1>2, <1>4 DEF ForksExact
  <2>4. step' = "discard" => Runner = Nobody
    BY <1>2
  <2> QED
    BY <1>2, <1>5, <1>11, <1>15, <2>1, <2>2, <2>3, <2>4 DEF ForksExact
<1>18. BackOK'
  BY <1>2, <1>4 DEF BackOK, Generating
<1> QED
  BY <1>3, <1>4, <1>7, <1>12, <1>13, <1>14, <1>16, <1>17, <1>18 DEF AllWell

\* The parked runner-up keeps in a checkpoint what its fork held.
LEMMA ParkRunnerSound ==
    ASSUME SearchInv, SoFar, AllWell, faults = 0, faults' = 0, NEW ok \in BOOLEAN, ParkRunner(ok)
    PROVE  AllWell'
<1>1. ok
  BY NoFault DEF ParkRunner
<1>2. /\ step = "park_runner" /\ step' = "discard"
      /\ saved' = Sealed(Runner) /\ forks' = Without(forks, {Runner})
      /\ gens' = Recorded("parked", NextId)
      /\ failed' = failed \cup Check(ok, "park_runner")
                          \cup Check(forks[Runner].base = LastFrontier, "parked_parent")
      /\ UNCHANGED <<plan, current, prepared, worker, result, restored>>
  BY <1>1 DEF ParkRunner
<1>3. code' = code
  BY DEF ParkRunner, endVars
<1>4. /\ failed = {} /\ code # "exception" /\ MainOK /\ HeldOK /\ ChosenOK /\ ForksExact /\ BackOK
  BY DEF AllWell
<1>5. /\ Types /\ gens # << >> /\ Len(gens) \in Nat \ {0} /\ DOMAIN gens = 1 .. Len(gens)
      /\ Len(gens) \in DOMAIN gens
      /\ Last = gens[Len(gens)] /\ Last \in Records /\ Winner = Last.winner /\ Runner = Last.runner
      /\ Runner # Nobody => Runner \in Batch(Len(gens)) \ {Winner}
      /\ Main \notin Batch(Len(gens))
  BY <1>2, ChosenNames
<1>6. /\ Runner # Nobody /\ Runner \in DOMAIN forks /\ forks[Runner].base = LastFrontier
      /\ forks[Runner].at.value = Last.rvalue /\ forks[Runner].at.move = Last.rmove
  BY <1>2, <1>4 DEF ChosenOK, SearchInv, WorkOK
<1>7. failed' = {}
  BY <1>1, <1>2, <1>4, <1>6 DEF Check
<1>8. /\ NextId \in Nat /\ \A i \in Ids : saved'[i] = saved[i]
      /\ saved'[NextId] = [at |-> forks[Runner].at, parent |-> forks[Runner].base]
  BY <1>2, <1>5, <1>6, SealedAdds
<1>9. /\ Len(gens') = Len(gens) /\ DOMAIN gens' = DOMAIN gens
      /\ gens'[Len(gens)] = [Last EXCEPT !["parked"] = NextId]
      /\ \A g \in DOMAIN gens \ {Len(gens)} : gens'[g] = gens[g]
  BY <1>2, <1>5, <1>8, RecordedChanges
<1>10. /\ gens'[Len(gens)].checkpoint = Last.checkpoint /\ gens'[Len(gens)].winner = Last.winner
       /\ gens'[Len(gens)].runner = Last.runner /\ gens'[Len(gens)].parked = NextId
       /\ gens'[Len(gens)].rvalue = Last.rvalue /\ gens'[Len(gens)].rmove = Last.rmove
  BY <1>5, <1>9 DEF Records
<1>11. /\ DOMAIN forks' = DOMAIN forks \ {Runner}
       /\ \A f \in DOMAIN forks \ {Runner} : forks'[f] = forks[f]
  BY <1>2, <1>5, WithoutKeeps
<1>12. MainOK'
  <2>1. Main \in DOMAIN forks /\ Main # Runner
    BY <1>2, <1>4, <1>5, <1>6 DEF ForksExact
  <2> QED
    BY <1>2, <1>4, <1>11, <2>1 DEF MainOK, Generating
<1>13. HeldOK'
  <2>1. prepared' # 0 /\ saved'[prepared'].at = Warm
    BY <1>2, <1>4, <1>8, PreparedStays
  <2>2. \A g \in DOMAIN gens : WinnerHeld(g)' /\ ParkedHeld(g)'
    <3> SUFFICES ASSUME NEW g \in DOMAIN gens PROVE WinnerHeld(g)' /\ ParkedHeld(g)'
      OBVIOUS
    <3>1. WinnerHeld(g) /\ ParkedHeld(g)
      BY <1>4 DEF HeldOK
    <3>2. CASE g = Len(gens)
      <4>1. WinnerHeld(g)'
        BY <1>5, <1>8, <1>10, <3>1, <3>2, HeldStays
      <4>2. ParkedHeld(g)'
        BY <1>6, <1>8, <1>10, <3>2 DEF ParkedHeld
      <4> QED
        BY <4>1, <4>2
    <3>3. CASE g # Len(gens)
      <4>1. gens'[g] = gens[g]
        BY <1>9, <3>3
      <4> QED
        BY <1>8, <3>1, <4>1, HeldStays
    <3> QED
      BY <3>2, <3>3
  <2> QED
    BY <1>2, <1>9, <2>1, <2>2 DEF HeldOK
<1>14. AnswersOK' /\ ChosenOK'
  BY <1>2 DEF AnswersOK, ChosenOK
<1>15. ForksExact'
  <2>1. Winners' = Winners
    <3>1. \A g \in DOMAIN gens : gens'[g].winner = gens[g].winner
      BY <1>5, <1>9, <1>10
    <3> QED
      BY <1>9, <3>1 DEF Winners
  <2>2. Batch(Len(gens))' = Batch(Len(gens)) /\ Runner' = Runner
    BY <1>2, <1>5, <1>9, <1>10 DEF Batch, Runner
  <2>3. DOMAIN forks = {Main} \cup Winners \cup Batch(Len(gens))
    BY <1>2, <1>4 DEF ForksExact
  <2> QED
    BY <1>2, <1>11, <2>1, <2>2, <2>3 DEF ForksExact
<1>16. BackOK'
  BY <1>2, <1>4 DEF BackOK, Generating
<1> QED
  BY <1>3, <1>4, <1>7, <1>12, <1>13, <1>14, <1>15, <1>16 DEF AllWell

\* After the discards nothing is left but main and the winners.
LEMMA DiscardSound ==
    ASSUME SearchInv, SoFar, AllWell, faults = 0, faults' = 0,
           NEW stuck \in SUBSET DOMAIN worker, DiscardRest(stuck)
    PROVE  AllWell'
<1> DEFINE left == Without(forks, RestOf \ stuck)
<1>1. stuck = {}
  <2>1. Try(stuck = {})
    BY DEF DiscardRest
  <2> QED
    BY <2>1, NoFault
<1>2. /\ step = "discard" /\ step' = "decide" /\ forks' = left
      /\ failed' = failed
            \cup Check(stuck = {} /\ RestOf \subseteq DOMAIN forks, "discard")
            \cup Check(DOMAIN left = {Main} \cup {gens[g].winner : g \in DOMAIN gens}, "live")
      /\ UNCHANGED <<plan, saved, current, restored>>
  BY DEF DiscardRest
<1>3. /\ failed = {} /\ MainOK /\ HeldOK /\ ForksExact /\ BackOK
  BY DEF AllWell
<1>4. /\ Types /\ Len(gens) \in Nat \ {0} /\ DOMAIN gens = 1 .. Len(gens) /\ Len(gens) \in DOMAIN gens
      /\ Last = gens[Len(gens)] /\ Winner = Last.winner /\ Runner = Last.runner
      /\ Runner # Nobody => Runner \in Batch(Len(gens)) \ {Winner}
      /\ Main \notin Batch(Len(gens)) /\ Nobody \notin Nat \X Nat
  BY <1>2, ChosenNames
<1>5. DOMAIN forks = ({Main} \cup Winners \cup Batch(Len(gens))) \ {Runner}
  BY <1>2, <1>3 DEF ForksExact
<1>6. RestOf = Batch(Len(gens)) \ {Winner, Runner}
  BY <1>2 DEF RestOf, SearchInv, WorkOK
<1>7. \A g \in DOMAIN gens : /\ gens[g].winner \in Nat \X Nat /\ gens[g].winner[1] = g
                             /\ gens[g].winner \in Batch(g)
  <2> SUFFICES ASSUME NEW g \in DOMAIN gens
               PROVE  /\ gens[g].winner \in Nat \X Nat /\ gens[g].winner[1] = g
                      /\ gens[g].winner \in Batch(g)
    OBVIOUS
  <2>1. gens[g].checkpoint # 0
    BY <1>2 DEF SoFar, ChainOK, Continues
  <2>2. gens[g].winner # Nobody /\ gens[g].winner \in Batch(g)
    BY <2>1 DEF SearchInv, RoundsOK
  <2> QED
    BY <2>2, NamesApart
<1>8. \A x \in Winners : x = Winner \/ (x \notin Batch(Len(gens)) /\ x # Runner)
  <2> SUFFICES ASSUME NEW g \in DOMAIN gens, gens[g].winner # Winner
               PROVE  gens[g].winner \notin Batch(Len(gens)) /\ gens[g].winner # Runner
    BY DEF Winners
  <2>1. g # Len(gens)
    BY <1>4
  <2>2. \A c \in Batch(Len(gens)) : c[1] = Len(gens)
    BY <1>4, NamesApart
  <2>3. gens[g].winner \notin Batch(Len(gens))
    BY <1>7, <2>1, <2>2
  <2>4. gens[g].winner # Nobody
    BY <1>4, <1>7
  <2> QED
    BY <1>4, <2>3, <2>4
<1>9. Winner \in Winners /\ Main # Runner /\ Winner # Runner
  <2>1. Winner \in Winners /\ Winner \in Nat \X Nat
    BY <1>4, <1>7 DEF Winners
  <2>2. Main \in Nat \X Nat
    BY NamesApart
  <2> QED
    BY <1>4, <2>1, <2>2
<1>10. RestOf \subseteq DOMAIN forks /\ DOMAIN forks \ RestOf = {Main} \cup Winners
  BY <1>4, <1>5, <1>6, <1>8, <1>9
<1>11. /\ DOMAIN left = {Main} \cup Winners /\ left[Main] = forks[Main]
  <2>1. RestOf \ stuck = RestOf
    BY <1>1
  <2>2. DOMAIN left = DOMAIN forks \ RestOf /\ \A f \in DOMAIN forks \ RestOf : left[f] = forks[f]
    BY <1>4, <2>1, WithoutKeeps
  <2> HIDE DEF left
  <2>3. DOMAIN left = {Main} \cup Winners
    BY <1>10, <2>2
  <2>4. Main \in DOMAIN forks \ RestOf
    BY <1>10
  <2> QED
    BY <2>2, <2>3, <2>4
<1> HIDE DEF left
<1>12. failed' = {}
  BY <1>1, <1>2, <1>3, <1>10, <1>11 DEF Check, Winners
<1>13. AnswersOK' /\ ChosenOK' /\ code' # "exception" /\ gens' = gens /\ HeldOK'
  BY <1>2, CalmSound DEF Calm
<1>14. MainOK'
  BY <1>2, <1>3, <1>11 DEF MainOK, Generating
<1>15. ForksExact'
  BY <1>2, <1>11, <1>13 DEF ForksExact, Winners
<1>16. BackOK'
  BY <1>2, <1>3 DEF BackOK, Generating
<1> QED
  BY <1>12, <1>13, <1>14, <1>15, <1>16 DEF AllWell

\* Between two generations nothing changes but the place in the script.
LEMMA DecideSound ==
    ASSUME SearchInv, SoFar, AllWell, Decide
    PROVE  AllWell'
<1>1. /\ step = "decide" /\ UNCHANGED <<forks, saved, current, restored, failed>>
      /\ step' = IF Last.checkpoint = 0 THEN "report"
                 ELSE IF Len(gens) < plan.generations THEN "fork" ELSE "restore"
  BY DEF Decide, treeVars
<1>2. Last.checkpoint # 0
  <2>1. Len(gens) \in DOMAIN gens /\ Last = gens[Len(gens)]
    BY <1>1, ChosenNames
  <2> QED
    BY <1>1, <2>1 DEF SoFar, ChainOK, Continues
<1>3. step' \in {"fork", "restore"}
  BY <1>1, <1>2
<1>4. /\ failed = {} /\ MainOK /\ ForksExact /\ BackOK
  BY DEF AllWell
<1>5. AnswersOK' /\ ChosenOK' /\ code' # "exception" /\ gens' = gens /\ HeldOK'
  BY <1>1, CalmSound DEF Calm
<1>6. MainOK' /\ BackOK'
  BY <1>1, <1>3, <1>4 DEF MainOK, BackOK, Generating
<1>7. ForksExact'
  BY <1>1, <1>3, <1>4, <1>5 DEF ForksExact, Winners
<1> QED
  BY <1>1, <1>4, <1>5, <1>6, <1>7 DEF AllWell

\* The names that the backtracking gives, and the checkpoints that it returns to.
LEMMA BackNames ==
    ASSUME SearchInv, SoFar, HeldOK, step \in Backtracking
    PROVE  /\ Types /\ prepared \in Ids /\ saved[prepared].at = Warm
           /\ Len(gens) \in DOMAIN gens /\ 1 \in DOMAIN gens
           /\ Last = gens[Len(gens)] /\ Last.checkpoint \in Ids
           /\ saved[Last.checkpoint].at.files /\ current \in DOMAIN forks
           /\ \A g \in DOMAIN gens : /\ gens[g].winner \in DOMAIN forks
                                     /\ forks[gens[g].winner].at.value = gens[g].value
                                     /\ forks[gens[g].winner].at = saved[gens[g].checkpoint].at
                                     /\ forks[gens[g].winner].at.by = gens[g].winner
           /\ saved[Last.checkpoint].at.value = Last.value
           /\ Fresh(1) \in Nat \X Nat /\ Fresh(2) \in Nat \X Nat
           /\ Fresh(1) # Main /\ Fresh(2) # Main /\ Fresh(1) # Fresh(2)
<1>1. /\ Types /\ prepared \in Ids /\ gens # << >> /\ Last.checkpoint \in Ids
      /\ current \in DOMAIN forks
  BY CalmPlace
<1>2. saved[prepared].at = Warm
  BY DEF HeldOK, Backtracking
<1>3. Len(gens) \in DOMAIN gens /\ 1 \in DOMAIN gens /\ Last = gens[Len(gens)]
  BY <1>1 DEF Types, Last
<1>4. \A g \in DOMAIN gens : Continues(g)
  BY DEF SoFar, ChainOK, Backtracking
<1>5. session = "live"
  BY DEF SearchInv, ForksOK, Live, Backtracking
<1>6. \A g \in DOMAIN gens : /\ gens[g].winner \in DOMAIN forks
                             /\ forks[gens[g].winner].at.value = gens[g].value
                             /\ forks[gens[g].winner].at = saved[gens[g].checkpoint].at
                             /\ forks[gens[g].winner].at.by = gens[g].winner
  BY <1>4, <1>5 DEF SearchInv, WinnersSurvive, Continues
<1>7. saved[Last.checkpoint].at.value = Last.value /\ saved[Last.checkpoint].at.files
  BY <1>3, <1>4 DEF Continues, HeldOK, WinnerHeld
<1>8. /\ Fresh(1) \in Nat \X Nat /\ Fresh(2) \in Nat \X Nat
      /\ Fresh(1) # Main /\ Fresh(2) # Main /\ Fresh(1) # Fresh(2)
  BY DEF Fresh, Main
<1> QED
  BY <1>1, <1>2, <1>3, <1>6, <1>7, <1>8

\* The backtracking begins on a new fork of the prepared checkpoint.
LEMMA RestorePreparedSound ==
    ASSUME SearchInv, SoFar, AllWell, faults = 0, faults' = 0, NEW ok \in BOOLEAN, RestorePrepared(ok)
    PROVE  AllWell'
<1>1. ok
  BY NoFault DEF RestorePrepared
<1>2. /\ step = "restore" /\ step' = "write" /\ forks' = Forked(forks, Fresh(1), prepared)
      /\ current' = Fresh(1) /\ restored' = 1 /\ saved' = saved
      /\ failed' = failed
           \cup Check(current = Main /\ forks[Main].at.value = 0, "main_untouched")
           \cup Check(ok, "restore_prepared")
           \cup Check(/\ forks'[current'].at.warm /\ forks'[current'].at.value = 0
                      /\ forks'[current'].at.by = Nobody, "backtracked")
  BY <1>1 DEF RestorePrepared
<1>3. prepared' = prepared
  BY DEF RestorePrepared, searchVars
<1>4. failed = {} /\ HeldOK /\ current = Main /\ forks[Main].at = Warm
  BY <1>2 DEF AllWell, MainOK
<1>5. Types /\ prepared \in Ids /\ saved[prepared].at = Warm /\ Fresh(1) \in Nat \X Nat
  BY <1>2, <1>4, BackNames DEF Backtracking
<1>6. forks'[Fresh(1)] = [at |-> saved[prepared].at, base |-> prepared]
  BY <1>2, <1>5, ForkedAdds
<1>7. Warm.warm /\ Warm.value = 0 /\ Warm.by = Nobody
  BY DEF Warm, Empty
<1>8. failed' = {}
  BY <1>1, <1>2, <1>4, <1>5, <1>6, <1>7 DEF Check
<1>9. AnswersOK' /\ ChosenOK' /\ code' # "exception" /\ HeldOK'
  BY <1>2, CalmSound DEF Calm
<1>10. MainOK' /\ ForksExact'
  BY <1>2 DEF MainOK, ForksExact, Generating
<1>11. BackOK'
  BY <1>2, <1>3, <1>6 DEF BackOK, Generating
<1> QED
  BY <1>8, <1>9, <1>10, <1>11 DEF AllWell

\* The other value is written on that fork and sealed.
LEMMA WriteAlternateSound ==
    ASSUME SearchInv, SoFar, AllWell, faults = 0, faults' = 0,
           NEW done \in BOOLEAN, NEW ok \in BOOLEAN, WriteAlternate(done, ok)
    PROVE  AllWell'
<1>1. done /\ ok
  <2>1. Try(done /\ ok)
    BY DEF WriteAlternate
  <2> QED
    BY <2>1, NoFault
<1> DEFINE at == [forks[current].at EXCEPT !.value = 7, !.by = Alternate]
<1>2. /\ step = "write" /\ step' = "alternate" /\ UNCHANGED <<current, restored>>
      /\ saved' = Append(saved, [at |-> at, parent |-> forks[current].base])
      /\ forks' = [forks EXCEPT ![current] = [at |-> at, base |-> NextId]]
      /\ failed' = failed \cup Check(ok /\ forks[current].base = prepared, "alternate")
  BY <1>1 DEF WriteAlternate
<1>3. prepared' = prepared
  BY DEF WriteAlternate, searchVars
<1>4. /\ failed = {} /\ HeldOK /\ restored = 1 /\ current = Fresh(1)
      /\ forks[current].base = prepared
  BY <1>2 DEF AllWell, BackOK
<1>5. Types /\ prepared \in Ids /\ current \in DOMAIN forks
  BY <1>2, <1>4, BackNames DEF Backtracking
<1>6. at.value = 7 /\ at.by = Alternate
  <2>1. forks[current].at \in Contents
    BY <1>5 DEF Types
  <2> QED
    BY <2>1 DEF Contents
<1> HIDE DEF at
<1>7. saved'[NextId].at = at /\ NextId # prepared
  <2>1. saved \in Seq(Saved)
    BY <1>5 DEF Types
  <2> QED
    BY <1>2, <1>5, <2>1 DEF NextId, Ids
<1>8. forks'[current].base = NextId
  BY <1>2, <1>5
<1>9. failed' = {}
  BY <1>1, <1>2, <1>4 DEF Check
<1>10. AnswersOK' /\ ChosenOK' /\ code' # "exception" /\ HeldOK'
  BY <1>2, CalmSound DEF Calm
<1>11. MainOK' /\ ForksExact'
  BY <1>2 DEF MainOK, ForksExact, Generating
<1>12. BackOK'
  BY <1>2, <1>3, <1>4, <1>6, <1>7, <1>8 DEF BackOK, Generating, Alternate
<1> QED
  BY <1>9, <1>10, <1>11, <1>12 DEF AllWell

\* The alternate is forked from what was sealed of it, and the way back is not touched.
LEMMA ForkAlternateSound ==
    ASSUME SearchInv, SoFar, AllWell, faults = 0, faults' = 0, NEW ok \in BOOLEAN, ForkAlternate(ok)
    PROVE  AllWell'
<1>1. ok
  BY NoFault DEF ForkAlternate
<1> DEFINE id == forks[current].base
<1>2. /\ step = "alternate" /\ step' = "return" /\ UNCHANGED <<current, restored>>
      /\ failed' = failed \cup
            Check((ok /\ id # prepared) /\ saved[id].at.value = 7 /\ saved[id].at.by = Alternate,
                  "alt_child")
  BY DEF ForkAlternate
<1>3. /\ failed = {} /\ restored = 1 /\ current = Fresh(1)
      /\ id # prepared /\ saved[id].at.value = 7 /\ saved[id].at.by = Alternate
  BY <1>2 DEF AllWell, BackOK
<1>4. failed' = {}
  BY <1>1, <1>2, <1>3 DEF Check
<1>5. AnswersOK' /\ ChosenOK' /\ code' # "exception" /\ HeldOK'
  BY <1>2, CalmSound DEF Calm
<1>6. MainOK' /\ ForksExact' /\ BackOK'
  BY <1>2, <1>3 DEF MainOK, ForksExact, BackOK, Generating
<1> QED
  BY <1>4, <1>5, <1>6 DEF AllWell

\* The return to the winner finds what was sealed of it.
LEMMA RestoreWinnerSound ==
    ASSUME SearchInv, SoFar, AllWell, faults = 0, faults' = 0,
           NEW ok \in BOOLEAN, NEW stuck \in BOOLEAN, RestoreWinner(ok, stuck)
    PROVE  AllWell'
<1>1. ok /\ ~stuck
  <2>1. Try(ok /\ ~stuck)
    BY DEF RestoreWinner
  <2> QED
    BY <2>1, NoFault
<1>2. step = "return" /\ step' = "park"
  BY DEF RestoreWinner
<1>3. failed = {} /\ HeldOK /\ restored = 1 /\ current = Fresh(1)
  BY <1>2 DEF AllWell, BackOK
<1>4. /\ Types /\ Last.checkpoint \in Ids /\ saved[Last.checkpoint].at.value = Last.value
      /\ Fresh(2) \in Nat \X Nat /\ current # Main /\ Fresh(2) # Main /\ current # Fresh(2)
  BY <1>2, <1>3, BackNames DEF Backtracking
<1> DEFINE made == Forked(forks, Fresh(2), Last.checkpoint)
<1>5. /\ current' = Fresh(2) /\ forks' = Without(made, {current}) /\ restored' = 2
      /\ failed' = failed
           \cup Check(ok /\ current' \notin {current, Main}, "restore_winner")
           \cup Check(current \notin DOMAIN forks', "departed")
           \cup Check(forks'[current'].at.value = Last.value, "returned")
  BY <1>1, <1>3, <1>4 DEF RestoreWinner
<1>6. /\ DOMAIN made = DOMAIN forks \cup {Fresh(2)}
      /\ made[Fresh(2)] = [at |-> saved[Last.checkpoint].at, base |-> Last.checkpoint]
  BY <1>4, ForkedAdds
<1> HIDE DEF made
<1>7. current \notin DOMAIN forks' /\ forks'[Fresh(2)] = made[Fresh(2)]
  BY <1>4, <1>5, <1>6 DEF Without
<1>8. failed' = {}
  BY <1>1, <1>3, <1>4, <1>5, <1>6, <1>7 DEF Check
<1>9. AnswersOK' /\ ChosenOK' /\ code' # "exception" /\ HeldOK' /\ gens' = gens
  BY <1>2, CalmSound DEF Calm
<1>10. MainOK' /\ ForksExact'
  BY <1>2 DEF MainOK, ForksExact, Generating
<1>11. BackOK'
  <2>1. Last'.checkpoint = Last.checkpoint
    BY <1>9 DEF Last
  <2> QED
    BY <1>2, <1>5, <1>6, <1>7, <2>1 DEF BackOK, Generating
<1> QED
  BY <1>8, <1>9, <1>10, <1>11 DEF AllWell

\* The current fork is parked, and nothing that is counted on goes with it.
LEMMA ParkCurrentSound ==
    ASSUME SearchInv, SoFar, AllWell, faults = 0, faults' = 0, NEW ok \in BOOLEAN, ParkCurrent(ok)
    PROVE  AllWell'
<1>1. ok
  BY NoFault DEF ParkCurrent
<1>2. step = "park" /\ step' = "revive"
  BY DEF ParkCurrent
<1>3. failed = {} /\ current = Fresh(2) /\ forks[current].base = Last.checkpoint
  BY <1>2 DEF AllWell, BackOK
<1>4. current # Main
  BY <1>3 DEF Fresh, Main
<1>5. /\ current' = Main
      /\ failed' = failed \cup Check(ok /\ current # Main, "parked")
             \cup Check((ok /\ current # Main) /\ forks[current].base = Last.checkpoint, "parked_onto")
  BY <1>1, <1>4 DEF ParkCurrent
<1>6. failed' = {}
  BY <1>1, <1>3, <1>4, <1>5 DEF Check
<1>7. AnswersOK' /\ ChosenOK' /\ code' # "exception" /\ HeldOK'
  BY <1>2, CalmSound DEF Calm
<1>8. MainOK' /\ ForksExact' /\ BackOK'
  BY <1>2, <1>5 DEF MainOK, ForksExact, BackOK, Generating
<1> QED
  BY <1>6, <1>7, <1>8 DEF AllWell

\* The parked runner-up comes back as it was.
LEMMA ReviveSound ==
    ASSUME SearchInv, SoFar, AllWell, faults = 0, faults' = 0, NEW ok \in BOOLEAN, Revive(ok)
    PROVE  AllWell'
<1>1. ok
  BY NoFault DEF Revive
<1>2. /\ step = "revive" /\ step' = "export" /\ current' = current
      /\ failed' = failed
           \cup Check(gens[1].parked # 0 =>
                         /\ ok
                         /\ saved[gens[1].parked].at.value = gens[1].rvalue
                         /\ saved[gens[1].parked].at.move = gens[1].rmove, "revived")
           \cup Check(\A g \in DOMAIN gens :
                        /\ gens[g].winner \in DOMAIN forks
                        /\ forks[gens[g].winner].at.value = gens[g].value, "winners")
  BY DEF Revive
<1>3. failed = {} /\ HeldOK /\ current = Main
  BY <1>2 DEF AllWell, MainOK
<1>4. /\ 1 \in DOMAIN gens
      /\ \A g \in DOMAIN gens : /\ gens[g].winner \in DOMAIN forks
                                /\ forks[gens[g].winner].at.value = gens[g].value
  BY <1>2, <1>3, BackNames DEF Backtracking
<1>5. ParkedHeld(1)
  BY <1>3, <1>4 DEF HeldOK
<1>6. failed' = {}
  BY <1>1, <1>2, <1>3, <1>4, <1>5 DEF Check, ParkedHeld
<1>7. AnswersOK' /\ ChosenOK' /\ code' # "exception" /\ HeldOK'
  BY <1>2, CalmSound DEF Calm
<1>8. MainOK' /\ ForksExact' /\ BackOK'
  BY <1>2, <1>3 DEF MainOK, ForksExact, BackOK, Generating
<1> QED
  BY <1>6, <1>7, <1>8 DEF AllWell

\* The export and the statistics.
LEMMA EndSound ==
    ASSUME SearchInv, SoFar, AllWell, faults = 0, faults' = 0,
           ReportStats \/ \E ok \in BOOLEAN : Export(ok)
    PROVE  AllWell'
<1>1. failed = {} /\ code # "exception" /\ MainOK /\ HeldOK
  BY DEF AllWell
<1>2. CASE \E ok \in BOOLEAN : Export(ok)
  <2>1. PICK ok \in BOOLEAN : Export(ok)
    BY <1>2
  <2>2. ok
    BY <2>1, NoFault DEF Export
  <2>3. /\ step = "export" /\ step' = "report"
        /\ failed' = failed \cup
             Check(/\ ok
                   /\ forks[Winner].at.value = Last.value
                   /\ forks[Winner].at.files
                   /\ forks[Winner].at.by = Winner, "export")
    BY <2>1 DEF Export
  <2>4. current' = current
    BY <2>1 DEF Export, treeVars
  <2>5. /\ forks[Winner].at.value = Last.value /\ forks[Winner].at.files
        /\ forks[Winner].at.by = Winner
    BY <1>1, <2>3, BackNames DEF Backtracking, Winner, Last
  <2>6. failed' = {}
    BY <1>1, <2>2, <2>3, <2>5 DEF Check
  <2>7. AnswersOK' /\ ChosenOK' /\ code' # "exception" /\ HeldOK'
    BY <2>1, <2>3, CalmSound DEF Calm
  <2>8. MainOK' /\ ForksExact' /\ BackOK'
    BY <1>1, <2>3, <2>4 DEF MainOK, ForksExact, BackOK, Generating
  <2> QED
    BY <2>6, <2>7, <2>8 DEF AllWell
<1>3. CASE ReportStats
  <2>1. step = "report" /\ step' = "cleanup" /\ failed' = failed /\ current' = current
    BY <1>3 DEF ReportStats, treeVars
  <2>2. AnswersOK' /\ ChosenOK' /\ code' # "exception" /\ HeldOK'
    BY <1>3, <2>1, CalmSound DEF Calm
  <2>3. MainOK' /\ ForksExact' /\ BackOK'
    BY <1>1, <2>1 DEF MainOK, ForksExact, BackOK, Generating
  <2> QED
    BY <1>1, <2>1, <2>2, <2>3 DEF AllWell
<1> QED
  BY <1>2, <1>3

\* The end.
LEMMA AfterTrySound ==
    ASSUME SearchInv, AllWell, faults = 0, faults' = 0, AfterTry
    PROVE  AllWell'
<1>1. failed = {} /\ code # "exception" /\ HeldOK
  BY DEF AllWell
<1>2. /\ step \in {"cleanup", "write_summary", "exit"}
      /\ step' \in {"write_summary", "exit", "done"} /\ saved' = saved
      /\ prepared' = prepared /\ gens' = gens
  BY DEF AfterTry, Cleanup, EndSession, WriteSummary, Destructor, treeVars, searchVars
<1>3. failed' = {} /\ code' # "exception"
  <2>1. ASSUME NEW answer \in {"ok", "refused", "raised"}, Cleanup(answer)
        PROVE  failed' = {} /\ code' # "exception"
    <3>1. answer = "ok"
      BY <2>1, NoFault DEF Cleanup, EndSession
    <3> QED
      BY <1>1, <2>1, <3>1 DEF Cleanup, EndSession, Check
  <2>2. ASSUME NEW ok \in BOOLEAN, WriteSummary(ok) \/ Destructor(ok)
        PROVE  failed' = {} /\ code' # "exception"
    <3>1. ok
      BY <2>2, NoFault DEF WriteSummary, Destructor
    <3> QED
      BY <1>1, <2>2, <3>1 DEF WriteSummary, Destructor
  <2> QED
    BY <2>1, <2>2 DEF AfterTry
<1>4. HeldOK'
  BY <1>1, <1>2 DEF HeldOK, WinnerHeld, ParkedHeld
<1>5. MainOK' /\ AnswersOK' /\ ChosenOK' /\ ForksExact' /\ BackOK'
  BY <1>2 DEF MainOK, AnswersOK, ChosenOK, ForksExact, BackOK, Generating
<1> QED
  BY <1>3, <1>4, <1>5 DEF AllWell

\* Failures of calls are never forgotten.
LEMMA FaultsStay ==
    ASSUME SearchInv, [Next]_vars, faults' = 0
    PROVE  faults = 0
<1>1. faults \in Nat
  BY DEF SearchInv, Types
<1>2. faults' = faults \/ \E ok \in BOOLEAN : Try(ok)
  <2>1. CASE Build \/ Score \/ Decide \/ ReportStats \/ UNCHANGED vars
    BY <2>1 DEF Build, Score, Decide, ReportStats, vars
  <2>2. CASE AnswerLost \/ Raise \/ \E left \in {"none", "open", "left"} : BuildFails(left)
    BY <2>2 DEF AnswerLost, Raise, BuildFails
  <2>3. CASE \E mkdir, copied, ran \in BOOLEAN : Prepare(mkdir, copied, ran)
    BY <2>3 DEF Prepare
  <2>4. CASE \E missing \in SUBSET Candidates : ForkBatch(missing)
    BY <2>4 DEF ForkBatch
  <2>5. CASE \E c \in DOMAIN worker, ok, done \in BOOLEAN : Run(c, ok, done)
    BY <2>5 DEF Run
  <2>6. CASE \E c \in DOMAIN worker : NotFound(c) \/ RecordCount(c) \/ RecordEnter(c)
    BY <2>6 DEF NotFound, RecordCount, RecordEnter
  <2>7. CASE \E stuck \in SUBSET DOMAIN worker : DiscardRest(stuck)
    BY <2>7 DEF DiscardRest
  <2>8. CASE \E done, ok \in BOOLEAN : WriteAlternate(done, ok)
    BY <2>8 DEF WriteAlternate
  <2>9. CASE \E ok, stuck \in BOOLEAN : RestoreWinner(ok, stuck)
    BY <2>9 DEF RestoreWinner
  <2>10. CASE \E ok \in BOOLEAN : SealMain(ok) \/ SealWinner(ok) \/ ParkRunner(ok)
    BY <2>10 DEF SealMain, SealWinner, ParkRunner
  <2>11. CASE \E ok \in BOOLEAN : RestorePrepared(ok) \/ ForkAlternate(ok) \/ ParkCurrent(ok)
    BY <2>11 DEF RestorePrepared, ForkAlternate, ParkCurrent
  <2>12. CASE AfterTry \/ \E ok \in BOOLEAN : Revive(ok) \/ Export(ok)
    BY <2>12 DEF AfterTry, Revive, Export, Cleanup, EndSession, WriteSummary, Destructor
  <2> QED
    BY <2>1, <2>2, <2>3, <2>4, <2>5, <2>6, <2>7, <2>8, <2>9, <2>10, <2>11, <2>12 DEF Next, AfterTry
<1> QED
  BY <1>1, <1>2 DEF Try

\* The invariant holds at the start, where nothing is there yet.
LEMMA SoundInit == Init => SoundInv
<1> SUFFICES ASSUME Init PROVE SoundInv
  OBVIOUS
<1>1. VerdictInv
  BY VerdictInit
<1>2. /\ step = "build" /\ failed = {} /\ code = "running" /\ current = Main /\ gens = << >>
      /\ restored = 0
  BY DEF Init
<1>3. MainOK /\ HeldOK /\ AnswersOK /\ ChosenOK /\ ForksExact /\ BackOK
  BY <1>2 DEF MainOK, HeldOK, AnswersOK, ChosenOK, ForksExact, BackOK, Generating
<1> QED
  BY <1>1, <1>2, <1>3 DEF SoundInv, AllWell

\* A step that is no failed call keeps everything well.
LEMMA SoundStep == SoundInv /\ [Next]_vars => SoundInv'
<1> SUFFICES ASSUME SoundInv, [Next]_vars PROVE SoundInv'
  OBVIOUS
<1>1. VerdictInv' /\ VerdictInv /\ SearchInv
  BY VerdictStep DEF SoundInv, VerdictInv
<1>2. ASSUME faults' = 0 PROVE AllWell'
  <2>1. faults = 0 /\ AllWell
    BY <1>1, <1>2, FaultsStay DEF SoundInv
  <2>2. CASE UNCHANGED vars
    <3>1. UNCHANGED <<plan, step, forks, saved, current, prepared, gens, worker, result, restored,
                      failed, code>>
      BY <2>2 DEF vars, treeVars, searchVars, endVars
    <3>2. MainOK' /\ HeldOK' /\ BackOK'
      BY <2>1, <3>1 DEF AllWell, MainOK, HeldOK, BackOK, WinnerHeld, ParkedHeld, Last
    <3>3. AnswersOK'
      <4>1. /\ Batch(Number)' = Batch(Number) /\ Rejected' = Rejected /\ Frontier' = Frontier
        BY <3>1 DEF Batch, Number, Rejected, Frontier
      <4>2. \A c : Expected(c)' = Expected(c) /\ Move(c)' = Move(c)
        BY <3>1 DEF Expected, Move, CurrentValue, StepSize, Most
      <4>3. saved[Frontier]' = saved[Frontier]
        BY <3>1, <4>1
      <4>4. \A c : CandidateCommand(c, saved[Frontier].at)' = CandidateCommand(c, saved[Frontier].at)
        BY <4>1, <4>2, <4>3 DEF CandidateCommand
      <4> QED
        BY <2>1, <3>1, <4>1, <4>2, <4>3, <4>4 DEF AllWell, AnswersOK
    <3>4. ChosenOK'
      BY <2>1, <3>1 DEF AllWell, ChosenOK, Winner, Runner, Last, LastFrontier
    <3>5. ForksExact'
      BY <2>1, <3>1 DEF AllWell, ForksExact, Winners, Batch, Number, Runner
    <3> QED
      BY <2>1, <3>1, <3>2, <3>3, <3>4, <3>5 DEF AllWell
  <2>3. CASE Next /\ ~AfterTry
    <3>1. step \notin {"write_summary", "exit", "done"}
      BY <2>3 DEF AfterTry, Next, Build, BuildFails, Prepare, ForkBatch, Run, NotFound, RecordCount,
             RecordEnter, Score, DiscardRest, Decide, WriteAlternate, RestoreWinner, SealMain,
             SealWinner, ParkRunner, RestorePrepared, ForkAlternate, ParkCurrent, Revive, Export,
             ReportStats, AnswerLost, Raise, TrySteps
    <3>2. SoFar
      BY <1>1, <2>1, <3>1 DEF VerdictInv, CodeOK, Clean, AllWell
    <3>3. ~AnswerLost /\ ~Raise /\ ~(\E left \in {"none", "open", "left"} : BuildFails(left))
      BY <1>2, <2>1 DEF AnswerLost, Raise, BuildFails, Try
    <3>4. CASE Build
      BY <1>1, <2>1, <3>4, BuildSound
    <3>5. CASE \E mkdir, copied, ran \in BOOLEAN : Prepare(mkdir, copied, ran)
      BY <1>1, <1>2, <2>1, <3>5, PrepareSound
    <3>6. CASE \E missing \in SUBSET Candidates : ForkBatch(missing)
      <4>1. PICK missing : missing \in SUBSET Candidates /\ ForkBatch(missing)
        BY <3>6
      <4> QED
        BY <1>1, <1>2, <2>1, <3>2, <4>1, ForkBatchSound
    <3>7. CASE \E c \in DOMAIN worker : \/ \E ok, done \in BOOLEAN : Run(c, ok, done)
                                        \/ NotFound(c) \/ RecordCount(c) \/ RecordEnter(c)
      BY <1>1, <1>2, <2>1, <3>2, <3>7, CandidateSound
    <3>8. CASE Score \/ Decide
      BY <1>1, <2>1, <3>2, <3>8, ScoreSound, DecideSound
    <3>9. CASE \E stuck \in SUBSET DOMAIN worker : DiscardRest(stuck)
      <4>1. PICK stuck : stuck \in SUBSET DOMAIN worker /\ DiscardRest(stuck)
        BY <3>9
      <4> QED
        BY <1>1, <1>2, <2>1, <3>2, <4>1, DiscardSound
    <3>10. CASE \E done, ok \in BOOLEAN : WriteAlternate(done, ok)
      BY <1>1, <1>2, <2>1, <3>2, <3>10, WriteAlternateSound
    <3>11. CASE \E ok, stuck \in BOOLEAN : RestoreWinner(ok, stuck)
      BY <1>1, <1>2, <2>1, <3>2, <3>11, RestoreWinnerSound
    <3>12. CASE \E ok \in BOOLEAN : SealMain(ok) \/ SealWinner(ok) \/ ParkRunner(ok)
      BY <1>1, <1>2, <2>1, <3>2, <3>12, SealMainSound, SealWinnerSound, ParkRunnerSound
    <3>13. CASE \E ok \in BOOLEAN : \/ RestorePrepared(ok) \/ ForkAlternate(ok)
                                    \/ ParkCurrent(ok) \/ Revive(ok)
      BY <1>1, <1>2, <2>1, <3>2, <3>13, RestorePreparedSound, ForkAlternateSound, ParkCurrentSound,
         ReviveSound
    <3>14. CASE ReportStats \/ \E ok \in BOOLEAN : Export(ok)
      BY <1>1, <1>2, <2>1, <3>2, <3>14, EndSound
    <3> QED
      BY <2>3, <3>3, <3>4, <3>5, <3>6, <3>7, <3>8, <3>9, <3>10, <3>11, <3>12, <3>13, <3>14
      DEF Next, AfterTry
  <2>4. CASE AfterTry
    BY <1>1, <1>2, <2>1, <2>4, AfterTrySound
  <2> QED
    BY <2>2, <2>3, <2>4
<1> QED
  BY <1>1, <1>2 DEF SoundInv

\* When no call fails no assertion does, whatever the arguments: for any number of candidates and
\* generations and any target the script is usable as a regression test
\* (search_workflow_demo.py, lines 16 to 20).
THEOREM NoAlarmIsFalse == Spec => []NoFalseAlarm
<1>1. Init => SoundInv
  BY SoundInit
<1>2. SoundInv /\ [Next]_vars => SoundInv'
  BY SoundStep
<1>3. SoundInv => NoFalseAlarm
  BY DEF SoundInv, AllWell, NoFalseAlarm
<1> QED
  BY <1>1, <1>2, <1>3, PTL DEF Spec
=============================================================================
