---------------------- MODULE SearchWorkflow_proofs ----------------------
(***************************************************************************)
(* Theorems about the search script and the records of its manager, for    *)
(* any number of candidates, generations and failing calls and any target. *)
(***************************************************************************)
EXTENDS SearchWorkflow, SequenceTheorems, WellFoundedInduction, TLAPS

-----------------------------------------------------------------------------
(* The order of scores.                                                    *)

\* A set of numbers has a least one.
LEMMA Least ==
    ASSUME NEW T \in SUBSET Nat, T # {}
    PROVE  \E x \in T : \A y \in T : x <= y
<1>1. PICK x \in T : \A y \in T : <<y, x>> \notin OpToRel(<, Nat)
  BY NatLessThanWellFounded, WFMin
<1>2. ASSUME NEW y \in T PROVE ~(y < x)
  <2>1. x \in Nat /\ y \in Nat /\ <<y, x>> \in Nat \X Nat
    OBVIOUS
  <2> QED
    BY <1>1, <2>1, Zenon DEF OpToRel
<1>3. ASSUME NEW y \in T PROVE x <= y
  BY <1>2
<1> QED
  BY <1>3

\* Candidates of one generation.
Batch(n) == {<<n, i>> : i \in 1 .. plan.fanout}

\* Candidates with a value are in an order, so one of them is the first, whatever order
\* they are looked at in.
LEMMA FirstIsLeast ==
    ASSUME plan.target \in Int, NEW n \in Nat, plan.fanout \in Nat,
           NEW S \in SUBSET Batch(n), S # {},
           NEW value, \A c \in S : value[c] \in Nat
    PROVE  /\ First(S, value) \in S
           /\ \A d \in S \ {First(S, value)} : Before(First(S, value), d, value)
<1>0. \A c \in S : c[1] = n /\ c[2] \in Nat /\ c = <<c[1], c[2]>> /\ Distance(value[c]) \in Nat
  BY DEF Batch, Distance
<1>1. PICK dist \in {Distance(value[c]) : c \in S} :
         \A e \in {Distance(value[c]) : c \in S} : dist <= e
  <2>1. {Distance(value[c]) : c \in S} \in SUBSET Nat /\ {Distance(value[c]) : c \in S} # {}
    BY <1>0
  <2> QED
    BY <2>1, Least
<1> DEFINE Near == {c \in S : Distance(value[c]) = dist}
<1>2. PICK i \in {c[2] : c \in Near} : \A j \in {c[2] : c \in Near} : i <= j
  <2>1. {c[2] : c \in Near} \in SUBSET Nat /\ {c[2] : c \in Near} # {}
    BY <1>0
  <2> QED
    BY <2>1, Least
<1>3. PICK c \in Near : c[2] = i
  OBVIOUS
<1>4. ASSUME NEW d \in S \ {c} PROVE Before(c, d, value)
  <2>1. /\ Distance(value[c]) = dist /\ Distance(value[d]) \in Nat /\ dist \in Nat
        /\ dist <= Distance(value[d])
    BY <1>0, <1>1, <1>3
  <2>2. CASE Distance(value[d]) = dist
    <3>1. d \in Near /\ c[2] <= d[2]
      BY <1>2, <1>3, <2>2
    <3>2. c[2] # d[2] /\ c[2] \in Nat /\ d[2] \in Nat
      BY <1>0, <1>3
    <3> QED
      BY <2>1, <2>2, <3>1, <3>2 DEF Before
  <2>3. CASE Distance(value[d]) # dist
    BY <2>1, <2>3 DEF Before
  <2> QED
    BY <2>2, <2>3
<1> QED
  BY <1>3, <1>4 DEF First

-----------------------------------------------------------------------------
(* The inductive invariant.                                                *)

Names == {Nobody} \cup (Nat \X Nat)

Contents == [warm : BOOLEAN, files : BOOLEAN, value : Nat, by : Names, move : Nat]

Records == [winner : Names, value : Nat, runner : Names, rvalue : Nat, rmove : Nat,
            checkpoint : Nat, parked : Nat]

Saved == [at : Contents, parent : Nat]

Types ==
    /\ plan \in [fanout : Fanouts, generations : Generations, target : Targets, keep : BOOLEAN]
    /\ DOMAIN forks \subseteq Nat \X Nat
    /\ forks \in [DOMAIN forks -> [at : Contents, base : Nat]]
    /\ saved \in Seq(Saved)
    /\ prepared \in Nat
    /\ gens \in Seq(Records)
    /\ worker \in [DOMAIN worker -> {"idle", "ran", "counted", "done"}]
    /\ result \in [DOMAIN worker -> Nat \cup {Nobody}]
    /\ restored \in Nat /\ (current = Main \/ current = Fresh(restored))
    /\ faults \in Nat

\* Checkpoints that are named have been made.
IdsOK ==
    /\ prepared <= Len(saved)
    /\ \A f \in DOMAIN forks : forks[f].base \in Ids
    /\ \A g \in DOMAIN gens : gens[g].checkpoint <= Len(saved) /\ gens[g].parked <= Len(saved)

Live == step \notin {"build", "write_summary", "exit", "done"}

Backtracking == {"restore", "write", "alternate", "return", "park", "revive", "export"}

\* main and the current fork are there; the other forks are named after the generation that
\* they belong to.
ForksOK ==
    /\ step = "build" => current = Main /\ saved = << >>
    /\ Live <=> session = "live"
    /\ Live => Main \in DOMAIN forks /\ current \in DOMAIN forks
    /\ step \notin {"work", "cleanup", "write_summary", "exit", "done"} =>
          \A f \in DOMAIN forks : f[1] <= Len(gens)
    /\ step = "work" =>
          \A f \in DOMAIN forks : f[1] <= Len(gens) \/ (f \in Batch(Number) /\ Frontier # 0)

\* Who is at work, and what is known of the ones that have a value.
WorkOK ==
    /\ step # "work" => Joined
    /\ step = "work" => /\ DOMAIN worker = Batch(Number)
                        /\ \A c \in DOMAIN worker : result[c] # Nobody => c \in DOMAIN forks
    /\ step \in {"seal_winner", "park_runner", "discard"} => DOMAIN worker = Batch(Len(gens))
    /\ step = "seal_winner" => Winner \in DOMAIN forks
    /\ step = "park_runner" => Runner # Nobody
    /\ step \in {"seal_winner", "park_runner"} /\ Runner # Nobody => Runner \in DOMAIN forks

\* The checkpoint that generation g is forked from.
SourceOf(g) == IF g = 1 THEN prepared ELSE gens[g - 1].checkpoint

RoundsOK ==
    /\ step \in {"build", "prepare", "seal_main"} => gens = << >>
    /\ step \in {"fork", "work"} => gens = << >> \/ Last.checkpoint # 0
    /\ step \in {"seal_winner", "park_runner", "discard", "decide"} => gens # << >>
    /\ step \in Backtracking => gens # << >> /\ Last.checkpoint # 0
    /\ \A g \in DOMAIN gens :
          /\ gens[g].winner # Nobody => gens[g].winner \in Batch(g) /\ SourceOf(g) # 0
          /\ gens[g].runner # Nobody => gens[g].runner \in Batch(g) \ {gens[g].winner}
          /\ gens[g].checkpoint # 0 => gens[g].winner # Nobody
          /\ g < Len(gens) => gens[g].checkpoint # 0

\* The lock is held by the candidate that has drawn a number and not entered it yet.
BenchOK ==
    /\ log \in Seq(Nat) /\ \A i \in 1 .. Len(log) : log[i] = i
    /\ counter = Len(log) + (IF lock = Nobody THEN 0 ELSE 1)
    /\ lock = Nobody \/ lock \in DOMAIN worker
    /\ \A c \in DOMAIN worker : worker[c] = "counted" <=> lock = c

SearchInv ==
    /\ Types
    /\ IdsOK
    /\ ForksOK
    /\ WorkOK
    /\ RoundsOK
    /\ BenchOK
    /\ WinnersSurvive

-----------------------------------------------------------------------------
(* Forks and checkpoints.                                                  *)

\* A seal adds one checkpoint, of what the fork holds.
LEMMA SealedAdds ==
    ASSUME Types, NEW f \in DOMAIN forks
    PROVE  /\ Sealed(f) \in Seq(Saved) /\ Len(Sealed(f)) = Len(saved) + 1
           /\ NextId = Len(saved) + 1 /\ NextId \in Nat /\ Len(saved) \in Nat
           /\ \A i \in Ids : Sealed(f)[i] = saved[i]
           /\ Sealed(f)[NextId] = [at |-> forks[f].at, parent |-> forks[f].base]
<1>1. [at |-> forks[f].at, parent |-> forks[f].base] \in Saved /\ saved \in Seq(Saved)
  BY DEF Types, Saved
<1>2. Sealed(f) = Append(saved, [at |-> forks[f].at, parent |-> forks[f].base])
  BY DEF Sealed
<1> QED
  BY <1>1, <1>2 DEF NextId, Ids

\* A fork of a checkpoint holds what was sealed.
LEMMA ForkedAdds ==
    ASSUME Types, NEW f \in Nat \X Nat, NEW s \in Ids
    PROVE  /\ DOMAIN Forked(forks, f, s) = DOMAIN forks \cup {f}
           /\ Forked(forks, f, s)
                 \in [DOMAIN Forked(forks, f, s) -> [at : Contents, base : Nat]]
           /\ Forked(forks, f, s)[f] = [at |-> saved[s].at, base |-> s]
           /\ \A g \in DOMAIN forks \ {f} : Forked(forks, f, s)[g] = forks[g]
<1>1. saved[s] \in Saved /\ s \in Nat
  BY DEF Types, Ids
<1>2. [at |-> saved[s].at, base |-> s] \in [at : Contents, base : Nat]
  BY <1>1 DEF Saved
<1>3. Forked(forks, f, s) = [x \in DOMAIN forks \cup {f} |->
                                IF x = f THEN [at |-> saved[s].at, base |-> s] ELSE forks[x]]
  BY DEF Forked
<1> QED
  BY <1>2, <1>3 DEF Types

\* Forks that are removed take nothing with them.
LEMMA WithoutKeeps ==
    ASSUME Types, NEW G
    PROVE  /\ DOMAIN Without(forks, G) = DOMAIN forks \ G
           /\ Without(forks, G) \in [DOMAIN Without(forks, G) -> [at : Contents, base : Nat]]
           /\ \A g \in DOMAIN forks \ G : Without(forks, G)[g] = forks[g]
  BY DEF Without, Types

\* The names of different generations, of main and of the forks of the backtracking differ.
LEMMA NamesApart ==
    ASSUME SearchInv
    PROVE  /\ Len(gens) \in Nat /\ DOMAIN gens = 1 .. Len(gens) /\ Number = Len(gens) + 1
           /\ Nobody \notin Nat \X Nat
           /\ \A n \in Nat : \A c \in Batch(n) :
                 c \in Nat \X Nat /\ c[1] = n /\ c[2] \in 1 .. plan.fanout /\ c = <<n, c[2]>>
           /\ Candidates = Batch(Number) /\ Rejected = <<Number, 1>>
           /\ Main[1] = 0 /\ Main \in Nat \X Nat /\ current[1] = 0 /\ current \in Nat \X Nat
           /\ \A g \in DOMAIN gens : gens[g].winner # Nobody =>
                 gens[g].winner \in Nat \X Nat /\ gens[g].winner[1] = g /\ g # 0
<1>1. Len(gens) \in Nat /\ DOMAIN gens = 1 .. Len(gens) /\ Number = Len(gens) + 1
  BY DEF SearchInv, Types, Number
<1>2. plan.fanout \in Nat
  BY SearchAssumption DEF SearchInv, Types
<1>3. ASSUME NEW n \in Nat, NEW c \in Batch(n)
      PROVE  c \in Nat \X Nat /\ c[1] = n /\ c[2] \in 1 .. plan.fanout /\ c = <<n, c[2]>>
  BY <1>2 DEF Batch
<1>4. /\ Candidates = Batch(Number) /\ Rejected = <<Number, 1>>
      /\ Main[1] = 0 /\ Main \in Nat \X Nat /\ current[1] = 0 /\ current \in Nat \X Nat
  BY DEF Candidates, Batch, Rejected, Main, Fresh, SearchInv, Types
<1>5. ASSUME NEW g \in DOMAIN gens, gens[g].winner # Nobody
      PROVE  gens[g].winner \in Nat \X Nat /\ gens[g].winner[1] = g /\ g # 0
  BY <1>1, <1>3, <1>5 DEF SearchInv, RoundsOK
<1>6. Nobody \notin Nat \X Nat
  BY SearchAssumption
<1> QED
  BY <1>1, <1>3, <1>4, <1>5, <1>6

\* What a step outside a generation does to the forks: those of the candidates stay as they are.
ForksKept ==
    /\ DOMAIN forks' \subseteq Nat \X Nat
    /\ forks' \in [DOMAIN forks' -> [at : Contents, base : Nat]]
    /\ \A f \in DOMAIN forks' : forks'[f].base \in Ids'
    /\ \A f \in DOMAIN forks : f[1] # 0 => f \in DOMAIN forks' /\ forks'[f] = forks[f]
    /\ \A f \in DOMAIN forks' : f \in DOMAIN forks \/ f[1] = 0
    /\ Main \in DOMAIN forks'

\* Checkpoints are added only.
SavedGrow ==
    /\ saved' \in Seq(Saved) /\ Len(saved) <= Len(saved')
    /\ \A i \in Ids : saved'[i] = saved[i]

\* A step of the script outside a generation: it makes or removes forks of the backtracking,
\* or works on main.
LEMMA CalmStep ==
    ASSUME SearchInv, Live, Joined, UNCHANGED <<plan, gens, worker, result, benchVars, session>>,
           step' \notin {"build", "write_summary", "exit", "done", "work", "seal_winner",
                     "park_runner", "discard", "decide"},
           step' \in {"prepare", "seal_main", "fork"} => gens = << >>,
           step' \in Backtracking => gens # << >> /\ Last.checkpoint # 0,
           step' # "cleanup" => \A f \in DOMAIN forks : f[1] <= Len(gens),
           prepared' = prepared \/ (gens = << >> /\ prepared' \in 0 .. Len(saved')),
           SavedGrow, ForksKept, current' \in DOMAIN forks',
           restored' \in Nat, current' = Main \/ current' = Fresh(restored'), faults' \in Nat
    PROVE  SearchInv'
<1> USE DEF SavedGrow, ForksKept
<1>0. /\ Types /\ IdsOK /\ ForksOK /\ WorkOK /\ RoundsOK /\ BenchOK /\ WinnersSurvive
      /\ session = "live" /\ Len(saved) \in Nat /\ Len(saved') \in Nat
      /\ UNCHANGED <<lock, counter, log>>
  <2>1. Types /\ IdsOK /\ ForksOK /\ WorkOK /\ RoundsOK /\ BenchOK /\ WinnersSurvive
    BY DEF SearchInv
  <2>2. session = "live"
    BY <2>1 DEF ForksOK
  <2>3. saved \in Seq(Saved)
    BY <2>1 DEF Types
  <2>4. UNCHANGED <<lock, counter, log>>
    BY DEF benchVars
  <2> QED
    BY <2>1, <2>2, <2>3, <2>4
<1>1. Types'
  <2>1. prepared' \in Nat
    BY <1>0 DEF Types
  <2> QED
    BY <1>0, <2>1 DEF Types
<1>2. IdsOK'
  <2>1. prepared' <= Len(saved')
    BY <1>0 DEF IdsOK, Types
  <2>2. ASSUME NEW g \in DOMAIN gens
        PROVE  gens[g].checkpoint <= Len(saved') /\ gens[g].parked <= Len(saved')
    <3>1. gens[g] \in Records
      BY <1>0 DEF Types
    <3> QED
      BY <1>0, <3>1 DEF IdsOK, Records
  <2> QED
    BY <2>1, <2>2 DEF IdsOK
<1>3. ForksOK'
  <2>1. \A f \in DOMAIN forks' : step' # "cleanup" => f[1] <= Len(gens)
    BY <1>0 DEF Types
  <2> QED
    BY <1>0, <2>1 DEF ForksOK, Live
<1>4. WorkOK'
  BY DEF WorkOK, Joined
<1>5. RoundsOK'
  BY <1>0 DEF RoundsOK, Last, SourceOf, Batch, Backtracking
<1>6. BenchOK'
  BY <1>0 DEF BenchOK
<1>7. WinnersSurvive'
  <2> SUFFICES ASSUME NEW g \in DOMAIN gens, gens[g].checkpoint # 0
               PROVE  /\ gens[g].winner \in DOMAIN forks'
                      /\ forks'[gens[g].winner].at = saved'[gens[g].checkpoint].at
    BY DEF WinnersSurvive
  <2>1. /\ gens[g].winner \in DOMAIN forks /\ gens[g].winner[1] # 0
        /\ forks[gens[g].winner].at = saved[gens[g].checkpoint].at
    <3>1. gens[g].winner # Nobody
      BY <1>0 DEF RoundsOK
    <3> QED
      BY <1>0, <3>1, NamesApart DEF WinnersSurvive
  <2>2. gens[g].checkpoint \in Ids
    <3>1. gens[g] \in Records
      BY <1>0 DEF Types
    <3> QED
      BY <1>0, <3>1 DEF IdsOK, Ids, Records
  <2> QED
    BY <2>1, <2>2
<1> QED
  BY <1>1, <1>2, <1>3, <1>4, <1>5, <1>6, <1>7 DEF SearchInv

\* Calls that fail are counted.
LEMMA TryCounts ==
    ASSUME SearchInv, NEW ok \in BOOLEAN, Try(ok)
    PROVE  faults' \in Nat
  BY DEF SearchInv, Types, Try

\* Nothing that the invariant speaks of moves, but the count of failures.
LEMMA NothingMoves ==
    ASSUME SearchInv, faults' \in Nat,
           UNCHANGED <<plan, step, forks, saved, current, prepared, gens, worker, result, restored,
                       session, lock, counter, log>>
    PROVE  SearchInv'
<1>1. Types' /\ IdsOK'
  BY DEF SearchInv, Types, IdsOK, Ids
<1>2. ForksOK' /\ WorkOK'
  BY DEF SearchInv, ForksOK, WorkOK, Live, Batch, Number, Frontier, Joined, Winner, Runner
<1>3. RoundsOK' /\ BenchOK' /\ WinnersSurvive'
  BY DEF SearchInv, RoundsOK, BenchOK, WinnersSurvive, Batch, Last, SourceOf
<1> QED
  BY <1>1, <1>2, <1>3 DEF SearchInv

\* What is known between two generations and in the backtracking.
LEMMA CalmPlace ==
    ASSUME SearchInv,
           step \in {"prepare", "seal_main", "fork", "decide", "report"} \cup Backtracking
    PROVE  /\ Types /\ IdsOK /\ Live /\ Joined /\ Main \in DOMAIN forks /\ current \in DOMAIN forks
           /\ \A f \in DOMAIN forks : f[1] <= Len(gens)
           /\ step \in {"prepare", "seal_main"} => gens = << >>
           /\ step \in Backtracking => /\ gens # << >> /\ Last.checkpoint # 0
                                       /\ prepared \in Ids /\ Last.checkpoint \in Ids
<1>1. /\ Types /\ IdsOK /\ Live /\ Joined /\ Main \in DOMAIN forks /\ current \in DOMAIN forks
      /\ \A f \in DOMAIN forks : f[1] <= Len(gens)
      /\ step \in {"prepare", "seal_main"} => gens = << >>
      /\ step \in Backtracking => gens # << >> /\ Last.checkpoint # 0
  BY DEF SearchInv, ForksOK, WorkOK, RoundsOK, Live, Backtracking
<1>2. ASSUME gens # << >>, Last.checkpoint # 0
      PROVE  prepared \in Ids /\ Last.checkpoint \in Ids
  <2>1. Len(gens) \in DOMAIN gens /\ 1 \in DOMAIN gens
    BY <1>1, <1>2 DEF Types
  <2>0. Last \in Records /\ Last.checkpoint <= Len(saved) /\ Len(saved) \in Nat
    BY <1>1, <2>1 DEF Types, IdsOK, Last
  <2>2. Last.checkpoint \in Ids
    BY <1>2, <2>0 DEF Records, Ids
  <2>3. gens[1].checkpoint # 0
    BY <1>1, <1>2, <2>1 DEF SearchInv, RoundsOK, Last, Types
  <2>4. prepared # 0
    BY <2>1, <2>3 DEF SearchInv, RoundsOK, SourceOf
  <2> QED
    BY <1>1, <2>2, <2>4 DEF Types, IdsOK, Ids
<1> QED
  BY <1>1, <1>2

\* Preparing and sealing main.
LEMMA PrepareSteps ==
    ASSUME SearchInv,
           \/ \E mkdir, copied, ran \in BOOLEAN : Prepare(mkdir, copied, ran)
           \/ \E ok \in BOOLEAN : SealMain(ok)
    PROVE  SearchInv'
<1>1. step \in {"prepare", "seal_main"}
  BY DEF Prepare, SealMain
<1>2. /\ Types /\ IdsOK /\ Live /\ Joined /\ Main \in DOMAIN forks /\ current \in DOMAIN forks
      /\ (\A f \in DOMAIN forks : f[1] <= Len(gens)) /\ gens = << >>
  BY <1>1, CalmPlace
<1>3. /\ Types /\ IdsOK /\ Live /\ Joined /\ Main \in DOMAIN forks /\ current \in DOMAIN forks
      /\ \A f \in DOMAIN forks : f[1] <= Len(gens)
      /\ gens = << >> /\ Main[1] = 0 /\ Len(saved) \in Nat
  BY <1>2, NamesApart DEF Types
<1>4. /\ UNCHANGED <<plan, gens, worker, result, benchVars, session, current, restored>>
      /\ step' \in {"seal_main", "fork"}
  BY DEF Prepare, SealMain, searchVars, endVars
<1>5. faults' \in Nat
  BY TryCounts DEF Prepare, SealMain
<1>6. \A f \in DOMAIN forks : forks[f] \in [at : Contents, base : Nat]
  BY <1>3 DEF Types
<1>7. ASSUME NEW mkdir \in BOOLEAN, NEW copied \in BOOLEAN, NEW ran \in BOOLEAN,
             Prepare(mkdir, copied, ran)
      PROVE  /\ prepared' = prepared /\ saved' = saved
             /\ forks' \in [DOMAIN forks -> [at : Contents, base : Nat]]
             /\ \A f \in DOMAIN forks : forks'[f].base = forks[f].base
             /\ \A f \in DOMAIN forks \ {Main} : forks'[f] = forks[f]
  <2>1. /\ prepared' = prepared /\ saved' = saved
        /\ forks' = [forks EXCEPT ![Main].at = [@ EXCEPT !.warm = mkdir /\ ran, !.files = copied]]
    BY <1>7 DEF Prepare, searchVars
  <2>2. [forks[Main].at EXCEPT !.warm = mkdir /\ ran, !.files = copied] \in Contents
    BY <1>3, <1>6 DEF Contents
  <2>3. forks'[Main] = [forks[Main] EXCEPT !.at = [forks[Main].at EXCEPT !.warm = mkdir /\ ran,
                                                                        !.files = copied]]
    BY <1>3, <2>1
  <2>4. forks'[Main] \in [at : Contents, base : Nat] /\ forks'[Main].base = forks[Main].base
    BY <1>3, <1>6, <2>2, <2>3
  <2> QED
    BY <1>3, <2>1, <2>4 DEF Types
<1>8. ASSUME NEW ok \in BOOLEAN, SealMain(ok)
      PROVE  /\ prepared' \in 0 .. Len(saved')
             /\ saved' \in Seq(Saved) /\ Len(saved) <= Len(saved')
             /\ \A i \in Ids : saved'[i] = saved[i]
             /\ forks' \in [DOMAIN forks -> [at : Contents, base : Nat]]
             /\ \A f \in DOMAIN forks : forks'[f].base \in Ids'
             /\ \A f \in DOMAIN forks \ {Main} : forks'[f] = forks[f]
  <2>1. CASE ok
    <3>1. /\ Sealed(Main) \in Seq(Saved) /\ Len(Sealed(Main)) = Len(saved) + 1
          /\ NextId = Len(saved) + 1 /\ NextId \in Nat
          /\ \A i \in Ids : Sealed(Main)[i] = saved[i]
      BY <1>3, SealedAdds
    <3>2. saved' = Sealed(Main) /\ prepared' = NextId /\ forks' = [forks EXCEPT ![Main].base = NextId]
      BY <1>8, <2>1 DEF SealMain
    <3>3. forks'[Main] = [forks[Main] EXCEPT !.base = NextId]
      BY <1>3, <3>2
    <3>4. forks'[Main] \in [at : Contents, base : Nat] /\ forks'[Main].base = NextId
      BY <1>3, <1>6, <3>1, <3>3
    <3>5. Ids \subseteq Ids' /\ NextId \in Ids'
      BY <1>3, <3>1, <3>2 DEF Ids
    <3> QED
      BY <1>3, <3>1, <3>2, <3>4, <3>5 DEF Types, IdsOK
  <2>2. CASE ~ok
    <3>1. saved' = saved /\ prepared' = 0 /\ forks' = forks
      BY <1>8, <2>2 DEF SealMain
    <3> QED
      BY <1>3, <3>1 DEF Types, IdsOK, Ids
  <2> QED
    BY <2>1, <2>2
<1>9. /\ prepared' = prepared \/ prepared' \in 0 .. Len(saved')
      /\ saved' \in Seq(Saved) /\ Len(saved) <= Len(saved')
      /\ \A i \in Ids : saved'[i] = saved[i]
      /\ forks' \in [DOMAIN forks -> [at : Contents, base : Nat]]
      /\ \A f \in DOMAIN forks : forks'[f].base \in Ids'
      /\ \A f \in DOMAIN forks \ {Main} : forks'[f] = forks[f]
  <2>1. CASE \E mkdir, copied, ran \in BOOLEAN : Prepare(mkdir, copied, ran)
    BY <1>3, <1>7, <2>1 DEF Types, IdsOK, Ids
  <2>2. CASE \E ok \in BOOLEAN : SealMain(ok)
    BY <1>8, <2>2
  <2> QED
    BY <2>1, <2>2
<1>10. DOMAIN forks' = DOMAIN forks /\ DOMAIN forks \subseteq Nat \X Nat
  BY <1>3, <1>9 DEF Types
<1>11. ForksKept /\ SavedGrow
  BY <1>3, <1>9, <1>10 DEF ForksKept, SavedGrow
<1>12. current' = Main \/ current' = Fresh(restored')
  BY <1>3, <1>4 DEF Types, Fresh
<1>13. restored' \in Nat
  BY <1>3, <1>4 DEF Types
<1> QED
  BY <1>3, <1>4, <1>5, <1>9, <1>10, <1>11, <1>12, <1>13, CalmStep DEF Backtracking


-----------------------------------------------------------------------------
(* The backtracking.                                                       *)

\* A call of the backtracking that leaves no fork of a candidate and no checkpoint behind.
LEMMA BacktrackStep ==
    ASSUME SearchInv, step \in Backtracking,
           UNCHANGED <<plan, searchVars, session, benchVars>>,
           step' \in Backtracking \cup {"report", "cleanup"}, faults' \in Nat,
           SavedGrow, ForksKept, current' \in DOMAIN forks',
           restored' \in Nat, current' = Main \/ current' = Fresh(restored')
    PROVE  SearchInv'
<1>1. /\ Live /\ Joined /\ gens # << >> /\ Last.checkpoint # 0
      /\ \A f \in DOMAIN forks : f[1] <= Len(gens)
  BY CalmPlace
<1>2. UNCHANGED <<plan, gens, worker, result, benchVars, session>> /\ prepared' = prepared
  BY DEF searchVars
<1>3. step' \notin {"build", "write_summary", "exit", "done", "work", "seal_winner", "park_runner", "discard", "decide",
                    "prepare", "seal_main", "fork"}
  BY DEF Backtracking
<1> QED
  BY <1>1, <1>2, <1>3, CalmStep

\* Forks and checkpoints that stay are kept.
LEMMA Untouched ==
    ASSUME SearchInv, step \in Backtracking
    PROVE  /\ saved' = saved => SavedGrow
           /\ saved' = saved /\ forks' = forks => ForksKept
           /\ restored' = restored /\ current' = current =>
                 restored' \in Nat /\ (current' = Main \/ current' = Fresh(restored'))
<1>1. Types /\ IdsOK /\ Main \in DOMAIN forks
  BY CalmPlace
<1>2. Len(saved) \in Nat /\ saved \in Seq(Saved)
  BY <1>1 DEF Types
<1>3. saved' = saved => SavedGrow
  BY <1>2 DEF SavedGrow
<1>4. ASSUME saved' = saved, forks' = forks PROVE ForksKept
  BY <1>1, <1>4 DEF ForksKept, Types, IdsOK, Ids
<1>5. restored' = restored /\ current' = current =>
         restored' \in Nat /\ (current' = Main \/ current' = Fresh(restored'))
  BY <1>1 DEF Types, Fresh
<1> QED
  BY <1>3, <1>4, <1>5

\* A fork of a checkpoint under a name of the backtracking.
LEMMA ForkMade ==
    ASSUME SearchInv, step \in Backtracking, saved' = saved,
           NEW f \in Nat \X Nat, f[1] = 0, NEW s \in Ids, forks' = Forked(forks, f, s)
    PROVE  ForksKept /\ DOMAIN forks' = DOMAIN forks \cup {f}
<1>1. Types /\ IdsOK /\ Main \in DOMAIN forks
  BY CalmPlace
<1>2. /\ DOMAIN forks' = DOMAIN forks \cup {f}
      /\ forks' \in [DOMAIN forks' -> [at : Contents, base : Nat]]
      /\ forks'[f] = [at |-> saved[s].at, base |-> s]
      /\ \A g \in DOMAIN forks \ {f} : forks'[g] = forks[g]
  BY <1>1, ForkedAdds
<1>3. \A g \in DOMAIN forks' : forks'[g].base \in Ids'
  <2>1. forks'[f].base \in Ids'
    BY <1>2 DEF Ids
  <2>2. ASSUME NEW g \in DOMAIN forks \ {f} PROVE forks'[g].base \in Ids'
    BY <1>1, <1>2 DEF IdsOK, Ids
  <2> QED
    BY <1>2, <2>1, <2>2
<1> QED
  BY <1>1, <1>2, <1>3 DEF ForksKept, Types

\* The restore of the prepared main moves to a fresh fork, or nowhere.
LEMMA RestorePreparedStep ==
    ASSUME SearchInv, NEW ok \in BOOLEAN, RestorePrepared(ok)
    PROVE  SearchInv'
<1>1. /\ step = "restore" /\ step \in Backtracking /\ step' = "write"
      /\ saved' = saved /\ UNCHANGED <<plan, searchVars, session, benchVars>>
  BY DEF RestorePrepared, Backtracking, endVars
<1>2. faults' \in Nat
  BY TryCounts DEF RestorePrepared
<1>3. prepared \in Ids /\ current \in DOMAIN forks
  BY <1>1, CalmPlace
<1>4. Fresh(1) \in Nat \X Nat /\ Fresh(1)[1] = 0
  BY DEF Fresh
<1>5. SavedGrow
  BY <1>1, Untouched
<1>6. /\ ForksKept /\ current' \in DOMAIN forks' /\ restored' \in Nat
      /\ current' = Main \/ current' = Fresh(restored')
  <2>1. CASE ok
    <3>1. forks' = Forked(forks, Fresh(1), prepared) /\ current' = Fresh(1) /\ restored' = 1
      BY <2>1 DEF RestorePrepared
    <3> QED
      BY <1>1, <1>3, <1>4, <3>1, ForkMade
  <2>2. CASE ~ok
    <3>1. UNCHANGED <<forks, current, restored>>
      BY <2>2 DEF RestorePrepared
    <3> QED
      BY <1>1, <1>3, <3>1, Untouched
  <2> QED
    BY <2>1, <2>2
<1> QED
  BY <1>1, <1>2, <1>5, <1>6, BacktrackStep DEF Backtracking

\* The alternative is written in the current fork, main or the fresh one, and sealed.
LEMMA WriteAlternateStep ==
    ASSUME SearchInv, NEW done \in BOOLEAN, NEW ok \in BOOLEAN, WriteAlternate(done, ok)
    PROVE  SearchInv'
<1>1. /\ step \in Backtracking /\ step' = "alternate"
      /\ UNCHANGED <<plan, searchVars, session, benchVars, current, restored>>
  BY DEF WriteAlternate, Backtracking, endVars
<1>2. faults' \in Nat
  BY TryCounts DEF WriteAlternate
<1>3. /\ Types /\ IdsOK /\ Main \in DOMAIN forks /\ current \in DOMAIN forks /\ current[1] = 0
      /\ saved \in Seq(Saved) /\ Len(saved) \in Nat /\ NextId = Len(saved) + 1
      /\ forks[current] \in [at : Contents, base : Nat]
  BY <1>1, CalmPlace, NamesApart DEF Types, NextId
<1> DEFINE now == IF done THEN [forks[current].at EXCEPT !.value = 7, !.by = Alternate]
                          ELSE forks[current].at
           base == IF ok THEN NextId ELSE forks[current].base
<1>4. now \in Contents
  <2>1. CASE done
    <3>1. Alternate \in Names /\ 7 \in Nat
      BY DEF Alternate, Names
    <3> QED
      BY <1>3, <2>1, <3>1 DEF Contents
  <2>2. CASE ~done
    BY <1>3, <2>2
  <2> QED
    BY <2>1, <2>2
<1>5. /\ saved' = IF ok THEN Append(saved, [at |-> now, parent |-> forks[current].base]) ELSE saved
      /\ forks' = [forks EXCEPT ![current] = [at |-> now, base |-> base]]
  BY DEF WriteAlternate
<1> HIDE DEF now
<1>6. SavedGrow /\ base \in Nat /\ base \in Ids' /\ Ids \subseteq Ids'
  <2>1. CASE ok
    <3>1. [at |-> now, parent |-> forks[current].base] \in Saved
      BY <1>3, <1>4 DEF Saved
    <3> QED
      BY <1>3, <1>5, <2>1, <3>1 DEF SavedGrow, Ids
  <2>2. CASE ~ok
    BY <1>1, <1>3, <1>5, <2>2, Untouched DEF Ids, IdsOK
  <2> QED
    BY <2>1, <2>2
<1> HIDE DEF base
<1>7. /\ DOMAIN forks' = DOMAIN forks /\ DOMAIN forks \subseteq Nat \X Nat
      /\ forks'[current] = [at |-> now, base |-> base]
      /\ \A f \in DOMAIN forks \ {current} : forks'[f] = forks[f]
  BY <1>3, <1>5 DEF Types
<1>8. forks'[current] \in [at : Contents, base : Nat] /\ forks'[current].base = base
  BY <1>4, <1>6, <1>7
<1>9. forks' \in [DOMAIN forks' -> [at : Contents, base : Nat]]
  BY <1>3, <1>5, <1>7, <1>8 DEF Types
<1>10. \A f \in DOMAIN forks' : forks'[f].base \in Ids'
  BY <1>3, <1>6, <1>7, <1>8 DEF IdsOK
<1>11. ForksKept
  BY <1>3, <1>7, <1>9, <1>10 DEF ForksKept
<1>12. restored' \in Nat /\ (current' = Main \/ current' = Fresh(restored'))
  BY <1>1, Untouched
<1> QED
  BY <1>1, <1>2, <1>3, <1>6, <1>7, <1>11, <1>12, BacktrackStep DEF Backtracking

\* The child of the alternative is forked, or not.
LEMMA ForkAlternateStep ==
    ASSUME SearchInv, NEW ok \in BOOLEAN, ForkAlternate(ok)
    PROVE  SearchInv'
<1>1. /\ step \in Backtracking /\ step' = "return"
      /\ UNCHANGED <<plan, searchVars, session, benchVars, current, restored, saved>>
  BY DEF ForkAlternate, Backtracking, endVars
<1>2. faults' \in Nat
  BY TryCounts DEF ForkAlternate
<1>3. current \in DOMAIN forks /\ forks[current].base \in Ids
  BY <1>1, CalmPlace DEF IdsOK
<1>4. AltChild \in Nat \X Nat /\ AltChild[1] = 0
  BY DEF AltChild
<1>5. ForksKept /\ current \in DOMAIN forks'
  <2>1. forks' = Forked(forks, AltChild, forks[current].base) \/ forks' = forks
    BY DEF ForkAlternate
  <2>2. CASE forks' = Forked(forks, AltChild, forks[current].base)
    BY <1>1, <1>3, <1>4, <2>2, ForkMade
  <2>3. CASE forks' = forks
    BY <1>1, <1>3, <2>3, Untouched
  <2> QED
    BY <2>1, <2>2, <2>3
<1>6. SavedGrow /\ restored' \in Nat /\ (current' = Main \/ current' = Fresh(restored'))
  BY <1>1, Untouched
<1> QED
  BY <1>1, <1>2, <1>5, <1>6, BacktrackStep DEF Backtracking

\* The restore of the winner removes the fork that it leaves: a fresh one at most.
LEMMA RestoreWinnerStep ==
    ASSUME SearchInv, NEW ok \in BOOLEAN, NEW stuck \in BOOLEAN, RestoreWinner(ok, stuck)
    PROVE  SearchInv'
<1>1. /\ step \in Backtracking /\ step' = "park"
      /\ saved' = saved /\ UNCHANGED <<plan, searchVars, session, benchVars>>
  BY DEF RestoreWinner, Backtracking, endVars
<1>2. faults' \in Nat
  BY TryCounts DEF RestoreWinner
<1>3. /\ Types /\ Last.checkpoint \in Ids /\ Main \in DOMAIN forks /\ current \in DOMAIN forks
      /\ current[1] = 0 /\ restored \in Nat /\ (current = Main \/ current = Fresh(restored))
  BY <1>1, CalmPlace, NamesApart DEF Types
<1> DEFINE to == Fresh(restored + 1)
           made == Forked(forks, to, Last.checkpoint)
<1>4. to \in Nat \X Nat /\ to[1] = 0 /\ to # current /\ to # Main
  BY <1>3 DEF Fresh, Main
<1>5. SavedGrow
  BY <1>1, Untouched
<1>6. /\ ForksKept /\ current' \in DOMAIN forks' /\ restored' \in Nat
      /\ current' = Main \/ current' = Fresh(restored')
  <2>1. CASE ok
    <3>1. /\ current' = to /\ restored' = restored + 1
          /\ forks' = IF stuck \/ current = Main THEN made ELSE Without(made, {current})
      BY <2>1 DEF RestoreWinner
    <3>2. CASE stuck \/ current = Main
      <4>1. forks' = made
        BY <3>1, <3>2
      <4> QED
        BY <1>1, <1>3, <1>4, <3>1, <4>1, ForkMade
    <3>3. CASE ~(stuck \/ current = Main)
      <4>1. forks' = [x \in DOMAIN made \ {current} |-> made[x]]
        BY <3>1, <3>3 DEF Without
      <4>2. /\ DOMAIN made = DOMAIN forks \cup {to}
            /\ made \in [DOMAIN made -> [at : Contents, base : Nat]]
            /\ made[to] = [at |-> saved[Last.checkpoint].at, base |-> Last.checkpoint]
            /\ \A g \in DOMAIN forks \ {to} : made[g] = forks[g]
        BY <1>3, <1>4, ForkedAdds
      <4> HIDE DEF made
      <4>3. DOMAIN forks' = (DOMAIN forks \cup {to}) \ {current}
        BY <4>1, <4>2
      <4>4. /\ forks'[to] = [at |-> saved[Last.checkpoint].at, base |-> Last.checkpoint]
            /\ \A g \in DOMAIN forks' \ {to} : forks'[g] = forks[g]
            /\ forks' \in [DOMAIN forks' -> [at : Contents, base : Nat]]
        BY <1>4, <4>1, <4>2, <4>3
      <4>5. \A g \in DOMAIN forks' : forks'[g].base \in Ids'
        <5>1. forks'[to].base \in Ids'
          BY <1>1, <1>3, <4>4 DEF Ids
        <5>2. ASSUME NEW g \in DOMAIN forks' \ {to} PROVE forks'[g].base \in Ids'
          BY <1>1, <4>3, <4>4 DEF Ids, SearchInv, IdsOK
        <5> QED
          BY <5>1, <5>2
      <4>6. \A f \in DOMAIN forks : f[1] # 0 => f \in DOMAIN forks' /\ forks'[f] = forks[f]
        BY <1>3, <1>4, <4>3, <4>4
      <4>7. \A f \in DOMAIN forks' : f \in DOMAIN forks \/ f[1] = 0
        BY <1>4, <4>3
      <4>8. Main \in DOMAIN forks' /\ current' \in DOMAIN forks'
        BY <1>3, <1>4, <3>1, <3>3, <4>3
      <4>9. DOMAIN forks' \subseteq Nat \X Nat
        <5>1. DOMAIN forks \subseteq Nat \X Nat
          BY <1>3 DEF Types
        <5> QED
          BY <1>4, <4>3, <5>1
      <4>10. ForksKept
        BY <4>4, <4>5, <4>6, <4>7, <4>8, <4>9 DEF ForksKept
      <4> QED
        BY <1>3, <3>1, <4>8, <4>10
    <3> QED
      BY <3>2, <3>3
  <2>2. CASE ~ok
    <3>1. UNCHANGED <<forks, current, restored>>
      BY <2>2 DEF RestoreWinner
    <3> QED
      BY <1>1, <1>3, <3>1, Untouched
  <2> QED
    BY <2>1, <2>2
<1> QED
  BY <1>1, <1>2, <1>5, <1>6, BacktrackStep DEF Backtracking

\* A park of the current fork returns to main, and main itself is not parked.
LEMMA ParkCurrentStep ==
    ASSUME SearchInv, NEW ok \in BOOLEAN, ParkCurrent(ok)
    PROVE  SearchInv'
<1>1. /\ step \in Backtracking /\ step' = "revive"
      /\ UNCHANGED <<plan, searchVars, session, benchVars>> /\ restored' = restored
  BY DEF ParkCurrent, Backtracking, endVars
<1>2. faults' \in Nat
  BY TryCounts DEF ParkCurrent
<1>3. /\ Types /\ IdsOK /\ Main \in DOMAIN forks /\ current \in DOMAIN forks
      /\ current[1] = 0 /\ restored \in Nat
  BY <1>1, CalmPlace, NamesApart DEF Types
<1>4. SavedGrow /\ ForksKept /\ current' \in DOMAIN forks' /\ (current' = Main \/ current' = current)
  <2>1. CASE ok /\ current # Main
    <3>1. saved' = Sealed(current) /\ forks' = Without(forks, {current}) /\ current' = Main
      BY <2>1 DEF ParkCurrent
    <3>2. /\ saved' \in Seq(Saved) /\ Len(saved') = Len(saved) + 1 /\ Len(saved) \in Nat
          /\ \A i \in Ids : saved'[i] = saved[i]
      BY <1>3, <3>1, SealedAdds
    <3>3. SavedGrow /\ Ids \subseteq Ids'
      BY <3>2 DEF SavedGrow, Ids
    <3>4. /\ DOMAIN forks' = DOMAIN forks \ {current}
          /\ forks' \in [DOMAIN forks' -> [at : Contents, base : Nat]]
          /\ \A g \in DOMAIN forks \ {current} : forks'[g] = forks[g]
      BY <1>3, <3>1, WithoutKeeps
    <3>5. \A g \in DOMAIN forks' : forks'[g].base \in Ids'
      BY <1>3, <3>3, <3>4 DEF IdsOK
    <3> QED
      BY <1>3, <2>1, <3>1, <3>3, <3>4, <3>5 DEF ForksKept, Types
  <2>2. CASE ~(ok /\ current # Main)
    <3>1. saved' = saved /\ forks' = forks /\ current' = current
      BY <2>2 DEF ParkCurrent, treeVars
    <3> QED
      BY <1>1, <1>3, <3>1, Untouched
  <2> QED
    BY <2>1, <2>2
<1>5. current' = Main \/ current' = Fresh(restored')
  BY <1>1, <1>3, <1>4 DEF Types
<1> QED
  BY <1>1, <1>2, <1>3, <1>4, <1>5, BacktrackStep DEF Backtracking

\* The parked runner-up of the first generation is forked again.
LEMMA ReviveStep ==
    ASSUME SearchInv, NEW ok \in BOOLEAN, Revive(ok)
    PROVE  SearchInv'
<1>1. /\ step \in Backtracking /\ step' = "export"
      /\ UNCHANGED <<plan, searchVars, session, benchVars, current, restored, saved>>
  BY DEF Revive, Backtracking, endVars
<1>2. faults' \in Nat
  BY TryCounts DEF Revive
<1>3. /\ Types /\ IdsOK /\ current \in DOMAIN forks /\ gens # << >>
  BY <1>1, CalmPlace
<1>4. Revived \in Nat \X Nat /\ Revived[1] = 0
  BY DEF Revived
<1>5. gens[1].parked # 0 => gens[1].parked \in Ids
  <2>1. 1 \in DOMAIN gens /\ gens[1] \in Records
    BY <1>3 DEF Types
  <2>2. gens[1].parked <= Len(saved) /\ gens[1].parked \in Nat
    BY <1>3, <2>1 DEF IdsOK, Records
  <2>3. Len(saved) \in Nat
    BY <1>3 DEF Types
  <2> QED
    BY <2>2, <2>3 DEF Ids
<1>6. ForksKept /\ current \in DOMAIN forks'
  <2>1. CASE ok /\ gens[1].parked # 0
    <3>1. forks' = Forked(forks, Revived, gens[1].parked)
      BY <2>1 DEF Revive
    <3> QED
      BY <1>1, <1>3, <1>4, <1>5, <2>1, <3>1, ForkMade
  <2>2. CASE ~(ok /\ gens[1].parked # 0)
    <3>1. forks' = forks
      BY <2>2 DEF Revive
    <3> QED
      BY <1>1, <1>3, <3>1, Untouched
  <2> QED
    BY <2>1, <2>2
<1>7. SavedGrow /\ restored' \in Nat /\ (current' = Main \/ current' = Fresh(restored'))
  BY <1>1, Untouched
<1> QED
  BY <1>1, <1>2, <1>3, <1>6, <1>7, BacktrackStep DEF Backtracking

-----------------------------------------------------------------------------
(* The end of the script.                                                  *)

\* A step that only moves the script on, to the report or the cleanup, once all candidates are
\* through.
LEMMA MovesOn ==
    ASSUME SearchInv, Live, Joined, step' \in {"report", "cleanup"},
           step' = "report" => \A f \in DOMAIN forks : f[1] <= Len(gens),
           UNCHANGED <<plan, treeVars, searchVars, restored, session, benchVars>>, faults' \in Nat
    PROVE  SearchInv'
<1>1. UNCHANGED <<plan, gens, worker, result, benchVars, session>> /\ prepared' = prepared
  BY DEF searchVars
<1>2. UNCHANGED <<forks, saved, current, restored>>
  BY DEF treeVars
<1>3. Types /\ IdsOK /\ Main \in DOMAIN forks /\ current \in DOMAIN forks
  BY DEF SearchInv, ForksOK
<1>4. SavedGrow /\ ForksKept
  <2>1. Len(saved) \in Nat /\ saved \in Seq(Saved)
    BY <1>3 DEF Types
  <2> QED
    BY <1>2, <1>3, <2>1 DEF SavedGrow, ForksKept, Types, IdsOK, Ids
<1>5. restored' \in Nat /\ (current' = Main \/ current' = Fresh(restored'))
  BY <1>2, <1>3 DEF Types, Fresh
<1>6. step' \notin Backtracking \cup {"prepare", "seal_main", "fork", "build", "write_summary", "exit", "done", "work",
                                      "seal_winner", "park_runner", "discard", "decide"}
  BY DEF Backtracking
<1> QED
  BY <1>1, <1>2, <1>3, <1>4, <1>5, <1>6, CalmStep

\* The export, the report and an exception in the middle of anything lead towards the cleanup.
LEMMA ClosingSteps ==
    ASSUME SearchInv, (\E ok \in BOOLEAN : Export(ok)) \/ ReportStats \/ Raise
    PROVE  SearchInv'
<1>1. CASE \E ok \in BOOLEAN : Export(ok)
  <2>1. /\ step \in Backtracking /\ step' = "report" /\ faults' \in Nat
        /\ UNCHANGED <<plan, treeVars, searchVars, restored, session, benchVars>>
    BY <1>1, TryCounts DEF Export, Backtracking
  <2> QED
    BY <2>1, CalmPlace, MovesOn
<1>2. CASE ReportStats
  <2>1. /\ step = "report" /\ step' = "cleanup" /\ faults' = faults
        /\ UNCHANGED <<plan, treeVars, searchVars, restored, session, benchVars>>
    BY <1>2 DEF ReportStats
  <2>2. faults' \in Nat
    BY <2>1 DEF SearchInv, Types
  <2> QED
    BY <2>1, <2>2, CalmPlace, MovesOn
<1>3. CASE Raise
  <2>1. /\ Joined /\ step' = "cleanup" /\ faults' \in Nat /\ step \in TrySteps
        /\ UNCHANGED <<plan, treeVars, searchVars, restored, session, benchVars>>
    BY <1>3, TryCounts DEF Raise
  <2>2. Live
    BY <2>1 DEF TrySteps, Live
  <2> QED
    BY <2>1, <2>2, MovesOn
<1> QED
  BY <1>1, <1>2, <1>3

\* What comes after the try.
AfterTry ==
    \/ \E answer \in {"ok", "refused", "raised"} : Cleanup(answer)
    \/ \E ok \in BOOLEAN : WriteSummary(ok) \/ Destructor(ok)

\* The session is given up, with all that there was in it or with nothing gone.
LEMMA AfterTryStep ==
    ASSUME SearchInv, AfterTry
    PROVE  SearchInv'
<1>1. /\ step \in {"cleanup", "write_summary", "exit"} /\ step' \in {"write_summary", "exit", "done"}
      /\ session' # "live"
      /\ UNCHANGED <<plan, saved, current, restored>>
      /\ forks' = Without(forks, DOMAIN forks) \/ forks' = forks
  <2>1. session # "live" \/ step = "cleanup"
    BY DEF SearchInv, ForksOK, Live, AfterTry, Cleanup, EndSession, WriteSummary, Destructor
  <2>2. CASE \E answer \in {"ok", "refused", "raised"} : Cleanup(answer)
    BY <2>2 DEF Cleanup, EndSession
  <2>3. CASE \E ok \in BOOLEAN : WriteSummary(ok)
    BY <2>1, <2>3 DEF WriteSummary, treeVars
  <2>4. CASE \E ok \in BOOLEAN : Destructor(ok)
    BY <2>1, <2>4 DEF Destructor
  <2> QED
    BY <2>2, <2>3, <2>4 DEF AfterTry
<1>2. UNCHANGED <<prepared, gens, worker, result>>
  BY DEF AfterTry, Cleanup, EndSession, WriteSummary, Destructor, searchVars
<1>3. UNCHANGED <<lock, counter, log>>
  BY DEF AfterTry, Cleanup, EndSession, WriteSummary, Destructor, benchVars
<1>4. faults' \in Nat
  <2>1. \E ok \in BOOLEAN : Try(ok)
    BY DEF AfterTry, Cleanup, EndSession, WriteSummary, Destructor
  <2> QED
    BY <2>1, TryCounts
<1>5. Types /\ IdsOK
  BY DEF SearchInv
<1>6. /\ DOMAIN forks' \subseteq DOMAIN forks
      /\ forks' \in [DOMAIN forks' -> [at : Contents, base : Nat]]
      /\ \A f \in DOMAIN forks' : forks'[f] = forks[f]
  <2>1. CASE forks' = Without(forks, DOMAIN forks)
    <3>1. DOMAIN forks' = {}
      BY <2>1 DEF Without
    <3>2. forks' \in [DOMAIN forks' -> [at : Contents, base : Nat]]
      BY <1>5, <2>1, WithoutKeeps
    <3> QED
      BY <3>1, <3>2
  <2>2. CASE forks' = forks
    BY <1>5, <2>2 DEF Types
  <2> QED
    BY <1>1, <2>1, <2>2
<1>7. Types'
  BY <1>1, <1>2, <1>4, <1>5, <1>6 DEF Types, Fresh
<1>8. IdsOK'
  BY <1>1, <1>2, <1>5, <1>6 DEF IdsOK, Ids
<1>9. ForksOK' /\ WorkOK'
  BY <1>1, <1>2 DEF ForksOK, WorkOK, Live, Joined, SearchInv
<1>10. RoundsOK'
  BY <1>1, <1>2 DEF RoundsOK, SearchInv, Backtracking, SourceOf, Batch
<1>11. BenchOK' /\ WinnersSurvive'
  BY <1>1, <1>2, <1>3 DEF BenchOK, WinnersSurvive, SearchInv
<1> QED
  BY <1>7, <1>8, <1>9, <1>10, <1>11 DEF SearchInv

\* The session is built, or nothing is.
LEMMA BuildSteps ==
    ASSUME SearchInv, Build \/ \E left \in {"none", "open", "left"} : BuildFails(left)
    PROVE  SearchInv'
<1>1. /\ Types /\ step = "build" /\ gens = << >> /\ Joined /\ current = Main /\ saved = << >>
      /\ prepared = 0
  <2>1. Types /\ step = "build" /\ gens = << >> /\ Joined /\ current = Main /\ saved = << >>
    BY DEF SearchInv, RoundsOK, WorkOK, ForksOK, Build, BuildFails
  <2>2. prepared <= 0 /\ prepared \in Nat
    BY <2>1 DEF SearchInv, IdsOK, Types
  <2> QED
    BY <2>1, <2>2
<1>2. UNCHANGED <<plan, prepared, gens, worker, result, restored, current, lock, counter, log>>
  BY DEF Build, BuildFails, searchVars, treeVars, benchVars
<1>3. /\ gens' = << >> /\ DOMAIN gens' = {} /\ Len(gens') = 0
  BY <1>1, <1>2
<1>4. CASE Build
  <2>1. /\ step' = "prepare" /\ session' = "live" /\ faults' = faults
        /\ forks' = [f \in {Main} |-> [at |-> Empty, base |-> 1]]
        /\ saved' = <<[at |-> Empty, parent |-> 0]>>
    BY <1>4 DEF Build
  <2>2. Empty \in Contents
    BY DEF Empty, Contents, Names
  <2>3. /\ DOMAIN forks' = {Main} /\ Main \in Nat \X Nat /\ Main[1] = 0
        /\ forks' \in [{Main} -> [at : Contents, base : Nat]] /\ forks'[Main].base = 1
    BY <2>1, <2>2 DEF Main
  <2>4. saved' \in Seq(Saved) /\ Len(saved') = 1
    BY <2>1, <2>2 DEF Saved
  <2>5. Types'
    BY <1>1, <1>2, <2>1, <2>3, <2>4 DEF Types, Fresh
  <2>6. IdsOK'
    BY <1>1, <1>2, <1>3, <2>3, <2>4 DEF IdsOK, Ids
  <2>7. ForksOK'
    BY <1>1, <1>2, <1>3, <2>1, <2>3 DEF ForksOK, Live
  <2>8. WorkOK'
    BY <1>1, <1>2, <2>1 DEF WorkOK, Joined
  <2>9. RoundsOK'
    BY <1>3, <2>1 DEF RoundsOK, Backtracking
  <2>10. BenchOK' /\ WinnersSurvive'
    BY <1>2, <1>3 DEF BenchOK, WinnersSurvive, SearchInv
  <2> QED
    BY <2>5, <2>6, <2>7, <2>8, <2>9, <2>10 DEF SearchInv
<1>5. ASSUME NEW left \in {"none", "open", "left"}, BuildFails(left)
      PROVE  SearchInv'
  <2>1. step' = "exit" /\ session' = left /\ UNCHANGED <<forks, saved>>
    BY <1>5 DEF BuildFails, treeVars
  <2>2. faults' \in Nat
    BY <1>5, TryCounts DEF BuildFails
  <2>3. Types' /\ IdsOK'
    BY <1>1, <1>2, <2>1, <2>2 DEF Types, IdsOK, Ids, Fresh, SearchInv
  <2>4. ForksOK' /\ WorkOK'
    BY <1>1, <1>2, <2>1 DEF ForksOK, WorkOK, Live, Joined
  <2>5. RoundsOK' /\ BenchOK' /\ WinnersSurvive'
    BY <1>2, <1>3, <2>1 DEF RoundsOK, Backtracking, BenchOK, WinnersSurvive, SearchInv
  <2> QED
    BY <2>3, <2>4, <2>5 DEF SearchInv
<1> QED
  BY <1>4, <1>5

\* A command that only reads, or nothing at all.
LEMMA QuietSteps ==
    ASSUME SearchInv, AnswerLost \/ UNCHANGED vars
    PROVE  SearchInv'
<1>1. CASE AnswerLost
  <2>1. faults' \in Nat
    BY <1>1, TryCounts DEF AnswerLost
  <2>2. UNCHANGED <<plan, step, treeVars, searchVars, restored, endVars, benchVars>>
    BY <1>1 DEF AnswerLost
  <2>3. UNCHANGED <<plan, step, forks, saved, current, prepared, gens, worker, result, restored,
                    session, lock, counter, log>>
    BY <2>2 DEF treeVars, searchVars, endVars, benchVars
  <2> QED
    BY <2>1, <2>3, NothingMoves
<1>2. CASE UNCHANGED vars
  <2>1. UNCHANGED <<plan, step, treeVars, searchVars, restored, failed, faults, endVars, benchVars>>
    BY <1>2 DEF vars
  <2>2. UNCHANGED <<plan, step, forks, saved, current, prepared, gens, worker, result, restored,
                    session, lock, counter, log, faults>>
    BY <2>1 DEF treeVars, searchVars, endVars, benchVars
  <2>3. faults' \in Nat
    BY <2>2 DEF SearchInv, Types
  <2> QED
    BY <2>2, <2>3, NothingMoves
<1> QED
  BY <1>1, <1>2

\* The script goes on from a winner, or stops.
LEMMA DecideStep ==
    ASSUME SearchInv, Decide
    PROVE  SearchInv'
<1>1. /\ step = "decide" /\ gens # << >> /\ Joined /\ Types /\ Live
      /\ step' \in {"report", "fork", "restore"}
      /\ step' \in {"fork", "restore"} => Last.checkpoint # 0
      /\ worker' = [c \in {} |-> "idle"] /\ result' = [c \in {} |-> Nobody]
  BY DEF SearchInv, RoundsOK, WorkOK, Decide, Live
<1>2. UNCHANGED <<plan, treeVars, prepared, gens, restored, faults, endVars, benchVars>>
  BY DEF Decide
<1>3. UNCHANGED <<plan, forks, saved, current, prepared, gens, restored, session, lock, counter,
                  log, faults>>
  BY <1>2 DEF treeVars, endVars, benchVars
<1>4. DOMAIN worker' = {} /\ DOMAIN result' = {} /\ Joined'
  BY <1>1 DEF Joined
<1>5. lock = Nobody
  BY <1>1 DEF SearchInv, BenchOK, Joined
<1>6. Types' /\ IdsOK'
  BY <1>1, <1>3, <1>4 DEF SearchInv, Types, IdsOK, Ids, Fresh
<1>7. ForksOK'
  BY <1>1, <1>3 DEF SearchInv, ForksOK, Live
<1>8. WorkOK'
  BY <1>1, <1>4 DEF WorkOK
<1>9. RoundsOK'
  BY <1>1, <1>3 DEF SearchInv, RoundsOK, Last, Backtracking, SourceOf, Batch
<1>10. BenchOK' /\ WinnersSurvive'
  BY <1>3, <1>4, <1>5 DEF SearchInv, BenchOK, WinnersSurvive
<1> QED
  BY <1>6, <1>7, <1>8, <1>9, <1>10 DEF SearchInv

-----------------------------------------------------------------------------
(* A generation at work.                                                   *)

\* The move of a candidate that may be scored is a number, and steps are not 0.
LEMMA MovesAreNumbers ==
    ASSUME Types
    PROVE  /\ CurrentValue \in Nat /\ StepSize(CurrentValue) \in Nat \ {0}
           /\ \A c \in Nat \X Nat : c[2] >= 1 => Move(c) \in Nat
<1>1. plan.target \in Int /\ plan.fanout \in Nat \ {0}
  BY SearchAssumption DEF Types
<1>2. CurrentValue \in Nat
  <2>1. CASE gens = << >>
    BY <2>1 DEF CurrentValue
  <2>2. CASE gens # << >>
    <3>1. gens[Len(gens)] \in Records
      BY <2>2 DEF Types
    <3> QED
      BY <2>2, <3>1 DEF CurrentValue, Records
  <2> QED
    BY <2>1, <2>2
<1> DEFINE way == Most(0, plan.target - CurrentValue)
<1>3. way \in Nat
  BY <1>1, <1>2 DEF Most
<1> HIDE DEF way
<1>4. way \div plan.fanout \in Nat
  BY <1>1, <1>3
<1>5. StepSize(CurrentValue) = Most(1, way \div plan.fanout)
  BY DEF StepSize, way
<1>6. StepSize(CurrentValue) \in Nat \ {0}
  BY <1>4, <1>5 DEF Most
<1>7. ASSUME NEW c \in Nat \X Nat, c[2] >= 1 PROVE Move(c) \in Nat
  <2>1. c[2] - 1 \in Nat
    BY <1>7
  <2>2. \A a, b \in Nat : a * b \in Nat
    OBVIOUS
  <2>3. (c[2] - 1) * StepSize(CurrentValue) \in Nat
    BY <1>6, <2>1, <2>2
  <2> QED
    BY <2>3 DEF Move
<1> QED
  BY <1>2, <1>6, <1>7

\* The command of a candidate only writes its value, its name and its move.
LEMMA CommandWrites ==
    ASSUME SearchInv, NEW c \in Batch(Number), NEW at \in Contents
    PROVE  CandidateCommand(c, at) \in Contents
<1>1. c \in Nat \X Nat /\ c[2] >= 1 /\ c \in Names
  BY NamesApart DEF Names
<1>2. Move(c) \in Nat
  BY <1>1, MovesAreNumbers DEF SearchInv
<1>3. at.value + Move(c) \in Nat
  BY <1>2 DEF Contents
<1>4. [at EXCEPT !.value = at.value + Move(c), !.by = c, !.move = Move(c)] \in Contents
  BY <1>1, <1>2, <1>3 DEF Contents
<1> QED
  BY <1>4 DEF CandidateCommand

\* Candidates are forked from the frontier, when there is one.
LEMMA ForkBatchStep ==
    ASSUME SearchInv, NEW missing \in SUBSET Candidates, ForkBatch(missing)
    PROVE  SearchInv'
<1>1. /\ step = "fork" /\ step' = "work" /\ (Frontier = 0 => missing = Candidates)
      /\ forks' = [f \in DOMAIN forks \cup (Candidates \ missing) |->
                      IF f \in Candidates THEN [at |-> saved[Frontier].at, base |-> Frontier]
                                          ELSE forks[f]]
      /\ worker' = [c \in Candidates |-> "idle"] /\ result' = [c \in Candidates |-> Nobody]
  BY DEF ForkBatch
<1>2. UNCHANGED <<plan, saved, current, prepared, gens, restored, endVars, benchVars>>
  BY DEF ForkBatch
<1>3. UNCHANGED <<plan, saved, current, prepared, gens, restored, session, lock, counter, log>>
  BY <1>2 DEF endVars, benchVars
<1>4. /\ Types /\ IdsOK /\ Live /\ Joined /\ Main \in DOMAIN forks /\ current \in DOMAIN forks
      /\ \A f \in DOMAIN forks : f[1] <= Len(gens)
  BY <1>1, CalmPlace
<1>5. faults' \in Nat
  BY TryCounts DEF ForkBatch, Types, SearchInv
<1>6. /\ Len(gens) \in Nat /\ Number = Len(gens) + 1 /\ Candidates = Batch(Number)
      /\ \A c \in Candidates : c \in Nat \X Nat /\ c[1] = Len(gens) + 1
  BY NamesApart
<1>7. Frontier # 0 => Frontier \in Ids
  <2>1. CASE gens = << >>
    BY <1>4, <2>1 DEF Frontier, Types, IdsOK, Ids
  <2>2. CASE gens # << >>
    <3>1. Len(gens) \in DOMAIN gens /\ gens[Len(gens)] \in Records
      BY <1>4, <2>2 DEF Types
    <3>2. gens[Len(gens)].checkpoint <= Len(saved) /\ Len(saved) \in Nat
      BY <1>4, <3>1 DEF IdsOK, Types
    <3> QED
      BY <2>2, <3>1, <3>2 DEF Frontier, Records, Ids
  <2> QED
    BY <2>1, <2>2
<1>8. \A f \in DOMAIN forks : f \notin Candidates /\ f \in DOMAIN forks' /\ forks'[f] = forks[f]
  BY <1>1, <1>4, <1>6 DEF Types
<1>9. \A f \in DOMAIN forks' \ DOMAIN forks : f \in Candidates \ missing /\ Frontier # 0
  BY <1>1
<1>10. \A f \in DOMAIN forks' \ DOMAIN forks :
          /\ forks'[f] = [at |-> saved[Frontier].at, base |-> Frontier]
          /\ forks'[f] \in [at : Contents, base : Nat] /\ forks'[f].base \in Ids
  <2> SUFFICES ASSUME NEW f \in DOMAIN forks' \ DOMAIN forks
               PROVE  /\ forks'[f] = [at |-> saved[Frontier].at, base |-> Frontier]
                      /\ forks'[f] \in [at : Contents, base : Nat] /\ forks'[f].base \in Ids
    OBVIOUS
  <2>1. Frontier \in Ids /\ forks'[f] = [at |-> saved[Frontier].at, base |-> Frontier]
    BY <1>1, <1>7, <1>9
  <2>2. saved[Frontier] \in Saved /\ Frontier \in Nat
    BY <1>4, <2>1 DEF Types, Ids
  <2> QED
    BY <2>1, <2>2 DEF Saved
<1>11. forks' \in [DOMAIN forks' -> [at : Contents, base : Nat]]
  <2>1. \A f \in DOMAIN forks' : forks'[f] \in [at : Contents, base : Nat]
    BY <1>4, <1>8, <1>10 DEF Types
  <2> QED
    BY <1>1, <2>1
<1>12. DOMAIN forks' \subseteq Nat \X Nat
  BY <1>4, <1>6, <1>9 DEF Types
<1>13. DOMAIN worker' = Candidates /\ DOMAIN result' = Candidates
  BY <1>1
<1>14. Types'
  BY <1>1, <1>3, <1>4, <1>5, <1>11, <1>12, <1>13 DEF Types, Fresh
<1>15. IdsOK'
  BY <1>3, <1>4, <1>8, <1>10 DEF IdsOK, Ids
<1>16. ForksOK'
  <2>1. \A f \in DOMAIN forks' : f[1] <= Len(gens) \/ (f \in Batch(Number) /\ Frontier # 0)
    BY <1>4, <1>6, <1>9
  <2>2. /\ Len(gens') = Len(gens) /\ Batch(Number)' = Batch(Number) /\ Frontier' = Frontier
    BY <1>3 DEF Batch, Number, Frontier
  <2>3. session = "live"
    BY <1>4 DEF SearchInv, ForksOK
  <2> QED
    BY <1>1, <1>3, <1>4, <1>8, <2>1, <2>2, <2>3 DEF ForksOK, Live
<1>17. WorkOK'
  <2>1. Batch(Number)' = Candidates
    BY <1>3, <1>6 DEF Batch, Number
  <2>2. \A c \in DOMAIN worker' : result'[c] = Nobody
    BY <1>1, <1>13
  <2> QED
    BY <1>1, <1>13, <2>1, <2>2 DEF WorkOK
<1>18. RoundsOK'
  BY <1>1, <1>3 DEF SearchInv, RoundsOK, Last, Backtracking, SourceOf, Batch
<1>19. BenchOK'
  <2>1. lock = Nobody
    BY <1>4 DEF SearchInv, BenchOK, Joined
  <2>2. \A c \in DOMAIN worker' : worker'[c] # "counted" /\ c # Nobody
    BY <1>1, <1>6, NamesApart
  <2> QED
    BY <1>3, <2>1, <2>2 DEF SearchInv, BenchOK
<1>20. WinnersSurvive'
  BY <1>3, <1>8 DEF SearchInv, WinnersSurvive
<1> QED
  BY <1>14, <1>15, <1>16, <1>17, <1>18, <1>19, <1>20 DEF SearchInv

\* What a step of a candidate leaves as it is.
LEMMA CandidateMoves ==
    ASSUME SearchInv, step = "work", NEW c \in DOMAIN worker,
           UNCHANGED <<plan, step, saved, current, prepared, gens, restored, session>>,
           faults' \in Nat,
           DOMAIN forks' = DOMAIN forks, \A f \in DOMAIN forks \ {c} : forks'[f] = forks[f],
           c \in DOMAIN forks => /\ forks'[c] \in [at : Contents, base : Nat]
                                 /\ forks'[c].base = forks[c].base,
           forks' = [f \in DOMAIN forks' |-> forks'[f]],
           worker' \in [DOMAIN worker -> {"idle", "ran", "counted", "done"}],
           result' \in [DOMAIN worker -> Nat \cup {Nobody}],
           \A d \in DOMAIN worker : result'[d] # Nobody => d \in DOMAIN forks,
           BenchOK'
    PROVE  SearchInv'
<1>1. /\ Types /\ IdsOK /\ ForksOK /\ WorkOK /\ RoundsOK /\ WinnersSurvive
      /\ DOMAIN worker = Batch(Number)
  BY DEF SearchInv, WorkOK
<1>2. /\ Len(gens) \in Nat /\ Number = Len(gens) + 1 /\ c[1] = Number
  BY <1>1, NamesApart
<1>3. \A f \in DOMAIN forks : /\ forks'[f] \in [at : Contents, base : Nat]
                              /\ forks'[f].base = forks[f].base
  BY <1>1 DEF Types
<1>4. Types'
  BY <1>1, <1>3 DEF Types, Fresh
<1>5. IdsOK'
  BY <1>1, <1>3 DEF IdsOK, Ids
<1>6. ForksOK'
  BY <1>1 DEF ForksOK, Live, Batch, Number, Frontier
<1>7. WorkOK'
  <2>1. Batch(Number)' = Batch(Number)
    BY DEF Batch, Number
  <2> QED
    BY <1>1, <2>1 DEF WorkOK
<1>8. RoundsOK'
  BY <1>1 DEF RoundsOK, Last, Backtracking, SourceOf, Batch
<1>9. WinnersSurvive'
  <2> SUFFICES ASSUME session = "live", NEW g \in DOMAIN gens, gens[g].checkpoint # 0
               PROVE  /\ gens[g].winner \in DOMAIN forks'
                      /\ forks'[gens[g].winner].at = saved[gens[g].checkpoint].at
    BY DEF WinnersSurvive
  <2>1. gens[g].winner # Nobody
    BY <1>1 DEF RoundsOK
  <2>2. gens[g].winner[1] = g /\ g \in 1 .. Len(gens)
    BY <2>1, NamesApart
  <2>3. gens[g].winner # c
    BY <1>2, <2>2
  <2> QED
    BY <1>1, <2>3 DEF WinnersSurvive
<1> QED
  BY <1>1, <1>4, <1>5, <1>6, <1>7, <1>8, <1>9 DEF SearchInv

\* A candidate runs its command.
LEMMA RunStep ==
    ASSUME SearchInv, NEW c \in DOMAIN worker, NEW ok \in BOOLEAN, NEW done \in BOOLEAN,
           Run(c, ok, done)
    PROVE  SearchInv'
<1> DEFINE after == IF done THEN CandidateCommand(c, forks[c].at) ELSE forks[c].at
<1>1. /\ step = "work" /\ worker[c] = "idle" /\ c \in DOMAIN forks
      /\ forks' = [forks EXCEPT ![c].at = after]
      /\ result' = [result EXCEPT ![c] = IF ok /\ after.by = c THEN after.value ELSE Nobody]
      /\ worker' = [worker EXCEPT ![c] = "ran"]
  BY DEF Run
<1>2. UNCHANGED <<plan, step, saved, current, prepared, gens, restored, failed, endVars, benchVars>>
  BY DEF Run
<1>3. UNCHANGED <<plan, step, saved, current, prepared, gens, restored, session, lock, counter, log>>
  BY <1>2 DEF endVars, benchVars
<1>4. faults' \in Nat
  BY TryCounts DEF Run
<1>5. /\ Types /\ DOMAIN worker = Batch(Number) /\ BenchOK
      /\ \A d \in DOMAIN worker : result[d] # Nobody => d \in DOMAIN forks
  BY <1>1 DEF SearchInv, WorkOK
<1>6. forks[c] \in [at : Contents, base : Nat]
  BY <1>1, <1>5 DEF Types
<1>7. after \in Contents
  <2>1. CandidateCommand(c, forks[c].at) \in Contents
    BY <1>5, <1>6, CommandWrites
  <2> QED
    BY <1>6, <2>1
<1>8. after.value \in Nat
  BY <1>7 DEF Contents
<1> HIDE DEF after
<1>9. forks'[c] = [forks[c] EXCEPT !.at = after]
  BY <1>1
<1>10. forks'[c] \in [at : Contents, base : Nat] /\ forks'[c].base = forks[c].base
  BY <1>6, <1>7, <1>9
<1>11. /\ DOMAIN forks' = DOMAIN forks /\ \A f \in DOMAIN forks \ {c} : forks'[f] = forks[f]
       /\ forks' = [f \in DOMAIN forks' |-> forks'[f]]
  BY <1>1, <1>5 DEF Types
<1>12. worker' \in [DOMAIN worker -> {"idle", "ran", "counted", "done"}]
  BY <1>1, <1>5 DEF Types
<1>13. result' \in [DOMAIN worker -> Nat \cup {Nobody}]
  BY <1>1, <1>5, <1>8 DEF Types
<1>14. \A d \in DOMAIN worker : result'[d] # Nobody => d \in DOMAIN forks
  BY <1>1, <1>5 DEF Types
<1>15. BenchOK'
  BY <1>1, <1>3, <1>5 DEF BenchOK, Types
<1> QED
  BY <1>1, <1>3, <1>4, <1>10, <1>11, <1>12, <1>13, <1>14, <1>15, CandidateMoves

\* A candidate that is not there, and the two statements that make an entry under the lock.
LEMMA RecordSteps ==
    ASSUME SearchInv, NEW c \in DOMAIN worker, NotFound(c) \/ RecordCount(c) \/ RecordEnter(c)
    PROVE  SearchInv'
<1>1. /\ step = "work"
      /\ \E s \in {"counted", "done"} : worker' = [worker EXCEPT ![c] = s]
      /\ UNCHANGED <<plan, step, treeVars, prepared, gens, result, restored, failed, faults, endVars>>
  BY DEF NotFound, RecordCount, RecordEnter
<1>2. UNCHANGED <<plan, step, forks, saved, current, prepared, gens, result, restored, faults, session>>
  BY <1>1 DEF treeVars, endVars
<1>3. Types /\ WorkOK /\ BenchOK
  BY DEF SearchInv
<1>4. worker' \in [DOMAIN worker -> {"idle", "ran", "counted", "done"}]
  BY <1>1, <1>3 DEF Types
<1>5. /\ faults' \in Nat /\ result' \in [DOMAIN worker -> Nat \cup {Nobody}]
      /\ forks' = [f \in DOMAIN forks' |-> forks'[f]]
      /\ \A f \in DOMAIN forks : forks[f] \in [at : Contents, base : Nat]
      /\ \A d \in DOMAIN worker : result'[d] # Nobody => d \in DOMAIN forks
  BY <1>1, <1>2, <1>3 DEF Types, WorkOK
<1>6. \A d \in DOMAIN worker : d # Nobody
  <2>1. DOMAIN worker = Batch(Number) /\ Number \in Nat /\ Nobody \notin Nat \X Nat
    BY <1>1, <1>3, NamesApart DEF WorkOK
  <2>2. \A d \in Batch(Number) : d \in Nat \X Nat
    BY <2>1, NamesApart
  <2> QED
    BY <2>1, <2>2
<1>7. BenchOK'
  <2>1. CASE NotFound(c)
    <3>1. worker' = [worker EXCEPT ![c] = "done"] /\ worker[c] = "idle"
          /\ UNCHANGED <<lock, counter, log>>
      BY <2>1 DEF NotFound, benchVars
    <3> QED
      BY <1>3, <3>1 DEF BenchOK, Types
  <2>2. CASE RecordCount(c)
    <3>1. /\ worker' = [worker EXCEPT ![c] = "counted"] /\ worker[c] = "ran"
          /\ lock = Nobody /\ lock' = c /\ counter' = counter + 1 /\ log' = log
      BY <2>2 DEF RecordCount, Stats!Count
    <3>2. \A d \in DOMAIN worker : worker[d] # "counted"
      BY <1>3, <1>6, <3>1 DEF BenchOK
    <3>3. Len(log) \in Nat
      BY <1>3 DEF BenchOK
    <3>4. \A d \in DOMAIN worker : worker'[d] = "counted" <=> c = d
      BY <1>3, <3>1, <3>2 DEF Types
    <3>5. counter' = Len(log') + 1
      BY <1>3, <3>1, <3>3 DEF BenchOK
    <3> QED
      BY <1>3, <1>4, <3>1, <3>2, <3>4, <3>5 DEF BenchOK
  <2>3. CASE RecordEnter(c)
    <3>1. /\ worker' = [worker EXCEPT ![c] = "done"] /\ worker[c] = "counted"
          /\ lock' = Nobody /\ counter' = counter /\ log' = Append(log, counter)
      BY <2>3 DEF RecordEnter, Stats!Enter
    <3>2. c # Nobody /\ lock = c
      BY <1>3, <1>6, <3>1 DEF BenchOK
    <3>3. Len(log) \in Nat /\ counter = Len(log) + 1 /\ log \in Seq(Nat)
      BY <1>3, <3>2 DEF BenchOK
    <3>4. log' \in Seq(Nat) /\ Len(log') = Len(log) + 1 /\ \A i \in 1 .. Len(log') : log'[i] = i
      BY <1>3, <3>1, <3>3 DEF BenchOK
    <3>5. \A d \in DOMAIN worker : worker'[d] # "counted" /\ d # Nobody
      BY <1>3, <1>6, <3>1, <3>2 DEF BenchOK, Types
    <3>6. counter' = Len(log')
      BY <3>1, <3>3, <3>4
    <3> QED
      BY <1>4, <3>1, <3>4, <3>5, <3>6 DEF BenchOK
  <2> QED
    BY <2>1, <2>2, <2>3
<1> QED
  BY <1>1, <1>2, <1>4, <1>5, <1>7, CandidateMoves

-----------------------------------------------------------------------------
(* The generation is recorded.                                             *)

\* A record of a generation is added, of candidates that are there.
LEMMA RecordAdded ==
    ASSUME SearchInv, step = "work", Joined, NEW rec \in Records,
           rec.checkpoint = 0, rec.parked = 0,
           rec.winner # Nobody => rec.winner \in Batch(Number) /\ rec.winner \in DOMAIN forks,
           rec.runner # Nobody => rec.runner \in Batch(Number) \ {rec.winner}
                                  /\ rec.runner \in DOMAIN forks,
           gens' = Append(gens, rec),
           step' = IF rec.winner = Nobody THEN "decide" ELSE "seal_winner",
           UNCHANGED <<plan, forks, saved, current, prepared, worker, result, restored, faults,
                       session, lock, counter, log>>
    PROVE  SearchInv'
<1>1. /\ Types /\ IdsOK /\ ForksOK /\ WorkOK /\ RoundsOK /\ BenchOK /\ WinnersSurvive
      /\ DOMAIN worker = Batch(Number)
  BY DEF SearchInv, WorkOK
<1>2. /\ Len(gens) \in Nat /\ DOMAIN gens = 1 .. Len(gens) /\ Number = Len(gens) + 1
      /\ \A c \in Batch(Number) : c[1] = Number
  BY NamesApart
<1>3. gens \in Seq(Records)
  BY <1>1 DEF Types
<1>4. /\ gens' \in Seq(Records) /\ Len(gens') = Number /\ DOMAIN gens' = 1 .. Number
      /\ gens'[Number] = rec /\ \A g \in DOMAIN gens : gens'[g] = gens[g]
  BY <1>2, <1>3
<1>5. Batch(Len(gens))' = Batch(Number) /\ \A g : Batch(g)' = Batch(g)
  BY <1>4 DEF Batch
<1>6. Winner' = rec.winner /\ Runner' = rec.runner
  BY <1>4 DEF Winner, Runner
<1>7. step' \in {"decide", "seal_winner"}
  OBVIOUS
<1>8. Types'
  BY <1>1, <1>4 DEF Types, Fresh
<1>9. IdsOK'
  <2>1. Len(saved) \in Nat
    BY <1>1 DEF Types
  <2>2. \A g \in DOMAIN gens' : gens'[g].checkpoint <= Len(saved) /\ gens'[g].parked <= Len(saved)
    BY <1>1, <1>2, <1>4, <2>1 DEF IdsOK
  <2> QED
    BY <1>1, <2>2 DEF IdsOK, Ids
<1>10. ForksOK'
  <2>1. \A f \in DOMAIN forks : f[1] <= Number
    <3>1. \A f \in DOMAIN forks : f[1] \in Nat
      BY <1>1 DEF Types
    <3> QED
      BY <1>1, <1>2, <3>1 DEF ForksOK
  <2> QED
    BY <1>1, <1>4, <1>7, <2>1 DEF ForksOK, Live
<1>11. WorkOK'
  BY <1>1, <1>4, <1>5, <1>6, <1>7 DEF WorkOK, Joined
<1>12. RoundsOK'
  <2>1. gens' # << >>
    BY <1>2, <1>4
  <2>2. \A g \in DOMAIN gens : SourceOf(g)' = SourceOf(g)
    BY <1>2, <1>4 DEF SourceOf
  <2>3. \A n \in Nat : n = Number => SourceOf(n)' = Frontier
    <3>1. gens = << >> <=> Len(gens) = 0
      BY <1>3
    <3>2. Len(gens) # 0 => gens'[Len(gens)] = gens[Len(gens)]
      <4>1. Len(gens) # 0 => Len(gens) \in DOMAIN gens
        BY <1>2
      <4> QED
        BY <1>4, <4>1
    <3>3. ASSUME NEW n \in Nat, n = Number PROVE SourceOf(n)' = Frontier
      <4>1. n - 1 = Len(gens) /\ (n = 1 <=> Len(gens) = 0)
        BY <1>2, <3>3
      <4>2. SourceOf(n)' = IF n = 1 THEN prepared ELSE gens'[n - 1].checkpoint
        BY DEF SourceOf
      <4> QED
        BY <3>1, <3>2, <4>1, <4>2 DEF Frontier
    <3> QED
      BY <3>3
  <2>4. rec.winner # Nobody => Frontier # 0
    <3>1. rec.winner # Nobody => rec.winner[1] = Number
      BY <1>2
    <3> QED
      BY <1>1, <1>2, <3>1 DEF ForksOK
  <2>5. ASSUME NEW g \in DOMAIN gens
        PROVE  /\ gens'[g].winner # Nobody => gens'[g].winner \in Batch(g) /\ SourceOf(g)' # 0
               /\ gens'[g].runner # Nobody => gens'[g].runner \in Batch(g) \ {gens'[g].winner}
               /\ gens'[g].checkpoint # 0 => gens'[g].winner # Nobody
               /\ gens'[g].checkpoint # 0
    <3>1. gens[g].checkpoint # 0
      BY <1>1, <1>2 DEF RoundsOK, Last
    <3> QED
      BY <1>1, <1>4, <2>2, <3>1 DEF RoundsOK
  <2>6. \A g \in DOMAIN gens' :
           /\ gens'[g].winner # Nobody => gens'[g].winner \in Batch(g) /\ SourceOf(g)' # 0
           /\ gens'[g].runner # Nobody => gens'[g].runner \in Batch(g) \ {gens'[g].winner}
           /\ gens'[g].checkpoint # 0 => gens'[g].winner # Nobody
           /\ g < Len(gens') => gens'[g].checkpoint # 0
    <3> SUFFICES ASSUME NEW g \in DOMAIN gens'
                 PROVE  /\ gens'[g].winner # Nobody => gens'[g].winner \in Batch(g) /\ SourceOf(g)' # 0
                        /\ gens'[g].runner # Nobody => gens'[g].runner \in Batch(g) \ {gens'[g].winner}
                        /\ gens'[g].checkpoint # 0 => gens'[g].winner # Nobody
                        /\ g < Len(gens') => gens'[g].checkpoint # 0
      OBVIOUS
    <3>1. CASE g \in DOMAIN gens
      BY <2>5, <3>1
    <3>2. CASE g \notin DOMAIN gens
      <4>1. g = Number /\ g \in Nat /\ gens'[g] = rec /\ ~(g < Len(gens'))
        BY <1>2, <1>4, <3>2
      <4> QED
        BY <2>3, <2>4, <4>1
    <3> QED
      BY <3>1, <3>2
  <2> QED
    BY <1>5, <1>7, <2>1, <2>6 DEF RoundsOK, Backtracking
<1>13. BenchOK'
  BY <1>1 DEF BenchOK
<1>14. WinnersSurvive'
  BY <1>1, <1>2, <1>4 DEF WinnersSurvive
<1> QED
  BY <1>8, <1>9, <1>10, <1>11, <1>12, <1>13, <1>14 DEF SearchInv

\* The winner and the runner-up are candidates with a value.
LEMMA ScoreStep ==
    ASSUME SearchInv, Score
    PROVE  SearchInv'
<1> DEFINE all == Candidates \ {Rejected}
           scored == {c \in all : Scored(c)}
           winner == First(scored, result)
           runner == First(scored \ {winner}, result)
           none == [winner |-> Nobody, value |-> 0, runner |-> Nobody, rvalue |-> 0,
                    rmove |-> 0, checkpoint |-> 0, parked |-> 0]
           one == [none EXCEPT !.winner = winner, !.value = result[winner]]
           two == [none EXCEPT !.winner = winner, !.value = result[winner],
                               !.runner = runner, !.rvalue = result[runner],
                               !.rmove = Move(runner)]
<1>1. /\ step = "work" /\ Joined
      /\ \/ scored = {} /\ gens' = Append(gens, none) /\ step' = "decide"
         \/ scored = {winner} /\ gens' = Append(gens, one) /\ step' = "seal_winner"
         \/ /\ scored # {} /\ scored # {winner}
            /\ gens' = Append(gens, two) /\ step' = "seal_winner"
  BY DEF Score
<1>2. UNCHANGED <<plan, treeVars, prepared, worker, result, restored, faults, endVars, benchVars>>
  BY DEF Score
<1>3. UNCHANGED <<plan, forks, saved, current, prepared, worker, result, restored, faults, session,
                  lock, counter, log>>
  BY <1>2 DEF treeVars, endVars, benchVars
<1>4. /\ Types /\ DOMAIN worker = Batch(Number) /\ Candidates = Batch(Number)
      /\ \A c \in DOMAIN worker : result[c] # Nobody => c \in DOMAIN forks
      /\ Number \in Nat
  BY <1>1, NamesApart DEF SearchInv, WorkOK
<1>5. /\ scored \in SUBSET Batch(Number)
      /\ \A c \in scored : /\ result[c] \in Nat /\ c \in DOMAIN forks /\ c \in Names
                           /\ c # Nobody /\ Move(c) \in Nat
  <2> SUFFICES ASSUME NEW c \in scored
               PROVE  /\ result[c] \in Nat /\ c \in DOMAIN forks /\ c \in Names
                      /\ c # Nobody /\ Move(c) \in Nat
    BY <1>4
  <2>1. c \in Batch(Number) /\ result[c] # Nobody
    BY <1>4 DEF Scored
  <2>2. result[c] \in Nat /\ c \in DOMAIN forks
    BY <1>4, <2>1 DEF Types
  <2>3. c \in Nat \X Nat /\ c[2] >= 1
    BY <1>4, <2>1, NamesApart
  <2>4. c \in Names /\ c # Nobody
    BY <2>3, NamesApart DEF Names
  <2>5. Move(c) \in Nat
    BY <1>4, <2>3, MovesAreNumbers
  <2> QED
    BY <2>2, <2>4, <2>5
<1>6. plan.target \in Int /\ plan.fanout \in Nat
  BY <1>4, SearchAssumption DEF Types
<1>7. ASSUME NEW S \in SUBSET scored, S # {} PROVE First(S, result) \in S
  <2>1. S \in SUBSET Batch(Number) /\ \A c \in S : result[c] \in Nat
    BY <1>5
  <2> QED
    BY <1>4, <1>6, <1>7, <2>1, FirstIsLeast
<1> HIDE DEF all, scored
<1>8. none \in Records /\ none.winner = Nobody /\ none.runner = Nobody
      /\ none.checkpoint = 0 /\ none.parked = 0
  BY DEF Records, Names
<1> HIDE DEF winner, runner, none
<1>9. CASE scored = {} /\ gens' = Append(gens, none) /\ step' = "decide"
  BY <1>1, <1>3, <1>8, <1>9, RecordAdded
<1>10. CASE scored = {winner} /\ gens' = Append(gens, one) /\ step' = "seal_winner"
  <2>1. /\ winner \in Batch(Number) /\ winner \in DOMAIN forks /\ winner \in Names
        /\ winner # Nobody /\ result[winner] \in Nat
    BY <1>5, <1>10
  <2>2. /\ one \in Records /\ one.winner = winner /\ one.runner = Nobody
        /\ one.checkpoint = 0 /\ one.parked = 0
    BY <1>8, <2>1 DEF Records
  <2> HIDE DEF one
  <2> QED
    BY <1>1, <1>3, <1>10, <2>1, <2>2, RecordAdded
<1>11. CASE /\ scored # {} /\ scored # {winner}
            /\ gens' = Append(gens, two) /\ step' = "seal_winner"
  <2>1. winner \in scored
    BY <1>7, <1>11 DEF winner
  <2>2. scored \ {winner} # {} /\ scored \ {winner} \in SUBSET scored
    BY <1>11, <2>1
  <2>3. runner \in scored \ {winner}
    BY <1>7, <2>2 DEF runner
  <2>4. /\ winner \in Batch(Number) /\ winner \in DOMAIN forks /\ winner \in Names
        /\ winner # Nobody /\ result[winner] \in Nat
        /\ runner \in Batch(Number) /\ runner \in DOMAIN forks /\ runner \in Names
        /\ runner # winner /\ result[runner] \in Nat /\ Move(runner) \in Nat
    BY <1>5, <2>1, <2>3
  <2>5. /\ two \in Records /\ two.winner = winner /\ two.runner = runner
        /\ two.checkpoint = 0 /\ two.parked = 0
    BY <1>8, <2>4 DEF Records
  <2> HIDE DEF two
  <2> QED
    BY <1>1, <1>3, <1>11, <2>4, <2>5, RecordAdded
<1> QED
  BY <1>1, <1>9, <1>10, <1>11

\* What a later entry in the record of the generation changes.
LEMMA RecordedChanges ==
    ASSUME SearchInv, gens # << >>, NEW field \in {"checkpoint", "parked"}, NEW id \in Nat
    PROVE  /\ Recorded(field, id) \in Seq(Records) /\ Len(Recorded(field, id)) = Len(gens)
           /\ DOMAIN Recorded(field, id) = DOMAIN gens
           /\ Recorded(field, id)[Len(gens)] = [Last EXCEPT ![field] = id]
           /\ \A g \in DOMAIN gens \ {Len(gens)} : Recorded(field, id)[g] = gens[g]
<1>1. /\ gens \in Seq(Records) /\ Len(gens) \in DOMAIN gens /\ Last = gens[Len(gens)]
      /\ Last \in Records
  BY DEF SearchInv, Types, Last
<1>2. [Last EXCEPT ![field] = id] \in Records
  <2>1. CASE field = "checkpoint"
    BY <1>1, <2>1 DEF Records
  <2>2. CASE field = "parked"
    BY <1>1, <2>2 DEF Records
  <2> QED
    BY <2>1, <2>2
<1> DEFINE rec == [Last EXCEPT ![field] = id]
<1>3. Recorded(field, id) = [gens EXCEPT ![Len(gens)] = rec]
  BY <1>1 DEF Recorded
<1> HIDE DEF rec
<1>4. rec \in Records
  BY <1>2 DEF rec
<1>5. /\ Recorded(field, id) \in Seq(Records) /\ Len(Recorded(field, id)) = Len(gens)
      /\ DOMAIN Recorded(field, id) = DOMAIN gens
      /\ Recorded(field, id)[Len(gens)] = rec
      /\ \A g \in DOMAIN gens \ {Len(gens)} : Recorded(field, id)[g] = gens[g]
  BY <1>1, <1>3, <1>4
<1> QED
  BY <1>5 DEF rec

\* The step after a generation: what holds of the rest when only its records are completed.
LEMMA RoundsGoOn ==
    ASSUME SearchInv, step \in {"seal_winner", "park_runner", "discard"},
           step' \in {"park_runner", "discard", "decide"},
           UNCHANGED <<plan, prepared>>, Len(gens') = Len(gens), DOMAIN gens' = DOMAIN gens, gens' # << >>,
           \A g \in DOMAIN gens : gens'[g].winner = gens[g].winner /\ gens'[g].runner = gens[g].runner,
           \A g \in DOMAIN gens \ {Len(gens)} : gens'[g] = gens[g],
           gens'[Len(gens)].checkpoint # 0 => gens[Len(gens)].winner # Nobody
    PROVE  RoundsOK'
<1>1. RoundsOK /\ Len(gens) \in Nat /\ DOMAIN gens = 1 .. Len(gens)
  BY NamesApart DEF SearchInv
<1>2. \A g \in DOMAIN gens : SourceOf(g)' = SourceOf(g) /\ Batch(g)' = Batch(g)
  BY <1>1 DEF SourceOf, Batch
<1>3. \A g \in DOMAIN gens :
         /\ gens'[g].winner # Nobody => gens'[g].winner \in Batch(g)' /\ SourceOf(g)' # 0
         /\ gens'[g].runner # Nobody => gens'[g].runner \in Batch(g)' \ {gens'[g].winner}
         /\ gens'[g].checkpoint # 0 => gens'[g].winner # Nobody
         /\ g < Len(gens) => gens'[g].checkpoint # 0
  <2> SUFFICES ASSUME NEW g \in DOMAIN gens
               PROVE  /\ gens'[g].winner # Nobody => gens'[g].winner \in Batch(g)' /\ SourceOf(g)' # 0
                      /\ gens'[g].runner # Nobody => gens'[g].runner \in Batch(g)' \ {gens'[g].winner}
                      /\ gens'[g].checkpoint # 0 => gens'[g].winner # Nobody
                      /\ g < Len(gens) => gens'[g].checkpoint # 0
    OBVIOUS
  <2>1. /\ gens'[g].winner # Nobody => gens'[g].winner \in Batch(g)' /\ SourceOf(g)' # 0
        /\ gens'[g].runner # Nobody => gens'[g].runner \in Batch(g)' \ {gens'[g].winner}
    BY <1>1, <1>2 DEF RoundsOK
  <2>2. CASE g = Len(gens)
    BY <1>1, <2>1, <2>2
  <2>3. CASE g # Len(gens)
    BY <1>1, <2>1, <2>3 DEF RoundsOK
  <2> QED
    BY <2>2, <2>3
<1> QED
  BY <1>3 DEF RoundsOK, Backtracking

\* The winner of the last generation is sealed, or that fails.
LEMMA SealWinnerStep ==
    ASSUME SearchInv, NEW ok \in BOOLEAN, SealWinner(ok)
    PROVE  SearchInv'
<1>1. /\ step = "seal_winner" /\ step' = IF Runner = Nobody THEN "discard" ELSE "park_runner"
      /\ saved' = IF ok THEN Sealed(Winner) ELSE saved
      /\ forks' = IF ok THEN [forks EXCEPT ![Winner].base = NextId] ELSE forks
      /\ gens' = IF ok THEN Recorded("checkpoint", NextId) ELSE gens
  BY DEF SealWinner
<1>2. UNCHANGED <<plan, current, prepared, worker, result, restored, endVars, benchVars>>
  BY DEF SealWinner
<1>3. UNCHANGED <<plan, current, prepared, worker, result, restored, session, lock, counter, log>>
  BY <1>2 DEF endVars, benchVars
<1>4. faults' \in Nat
  BY TryCounts DEF SealWinner
<1>5. /\ Types /\ IdsOK /\ ForksOK /\ WorkOK /\ RoundsOK /\ BenchOK /\ WinnersSurvive
      /\ gens # << >> /\ Winner \in DOMAIN forks
      /\ DOMAIN worker = Batch(Len(gens)) /\ Joined
      /\ Runner # Nobody => Runner \in DOMAIN forks
  BY <1>1 DEF SearchInv, RoundsOK, WorkOK
<1>6. /\ Len(gens) \in Nat /\ Len(gens) \in DOMAIN gens /\ DOMAIN gens = 1 .. Len(gens)
      /\ Last \in Records /\ Last = gens[Len(gens)] /\ Winner = Last.winner /\ Runner = Last.runner
      /\ Winner # Nobody
  <2>1. Winner # Nobody
    BY <1>5, NamesApart DEF Types
  <2> QED
    BY <1>5, <2>1 DEF Types, Last, Winner, Runner
<1>7. \A f \in DOMAIN forks : forks[f] \in [at : Contents, base : Nat] /\ forks[f].base \in Ids
  BY <1>5 DEF Types, IdsOK
<1>8. /\ saved' \in Seq(Saved) /\ Len(saved) \in Nat /\ Len(saved) <= Len(saved')
      /\ \A i \in Ids : saved'[i] = saved[i]
      /\ ok => /\ NextId \in Nat /\ NextId = Len(saved') /\ NextId # 0
               /\ saved'[NextId].at = forks[Winner].at
  <2>1. CASE ok
    <3>1. /\ saved' \in Seq(Saved) /\ Len(saved') = Len(saved) + 1
          /\ NextId = Len(saved) + 1 /\ Len(saved) \in Nat
          /\ \A i \in Ids : saved'[i] = saved[i]
          /\ saved'[NextId] = [at |-> forks[Winner].at, parent |-> forks[Winner].base]
      BY <1>1, <1>5, <2>1, SealedAdds
    <3> QED
      BY <3>1
  <2>2. CASE ~ok
    BY <1>1, <1>5, <2>2 DEF Types
  <2> QED
    BY <2>1, <2>2
<1>9. Ids \subseteq Ids' /\ (ok => NextId \in Ids')
  BY <1>8 DEF Ids
<1>10. /\ DOMAIN forks' = DOMAIN forks
       /\ forks' \in [DOMAIN forks -> [at : Contents, base : Nat]]
       /\ \A f \in DOMAIN forks : forks'[f].base \in Ids' /\ forks'[f].at = forks[f].at
  <2>1. CASE ok
    <3>1. /\ forks'[Winner] = [forks[Winner] EXCEPT !.base = NextId]
          /\ DOMAIN forks' = DOMAIN forks
          /\ \A f \in DOMAIN forks \ {Winner} : forks'[f] = forks[f]
      BY <1>1, <1>5, <2>1
    <3>2. /\ forks'[Winner] \in [at : Contents, base : Nat] /\ forks'[Winner].base = NextId
          /\ forks'[Winner].at = forks[Winner].at
      BY <1>5, <1>7, <1>8, <2>1, <3>1
    <3>3. forks' \in [DOMAIN forks -> [at : Contents, base : Nat]]
      BY <1>1, <1>5, <1>7, <2>1, <3>1, <3>2
    <3>4. \A f \in DOMAIN forks : forks'[f].base \in Ids' /\ forks'[f].at = forks[f].at
      BY <1>7, <1>9, <2>1, <3>1, <3>2
    <3> QED
      BY <3>1, <3>3, <3>4
  <2>2. CASE ~ok
    BY <1>1, <1>5, <1>7, <1>9, <2>2 DEF Types
  <2> QED
    BY <2>1, <2>2
<1>11. /\ gens' \in Seq(Records) /\ Len(gens') = Len(gens) /\ DOMAIN gens' = DOMAIN gens
       /\ \A g \in DOMAIN gens : /\ gens'[g].winner = gens[g].winner
                                 /\ gens'[g].runner = gens[g].runner
                                 /\ gens'[g].parked = gens[g].parked
       /\ \A g \in DOMAIN gens \ {Len(gens)} : gens'[g] = gens[g]
       /\ gens'[Len(gens)].checkpoint = IF ok THEN NextId ELSE gens[Len(gens)].checkpoint
  <2>1. CASE ok
    <3>1. /\ gens' \in Seq(Records) /\ Len(gens') = Len(gens) /\ DOMAIN gens' = DOMAIN gens
          /\ gens'[Len(gens)] = [Last EXCEPT !["checkpoint"] = NextId]
          /\ \A g \in DOMAIN gens \ {Len(gens)} : gens'[g] = gens[g]
      BY <1>1, <1>5, <1>8, <2>1, RecordedChanges
    <3>2. /\ gens'[Len(gens)].winner = Last.winner /\ gens'[Len(gens)].runner = Last.runner
          /\ gens'[Len(gens)].parked = Last.parked /\ gens'[Len(gens)].checkpoint = NextId
      BY <1>6, <3>1 DEF Records
    <3> QED
      BY <1>6, <2>1, <3>1, <3>2
  <2>2. CASE ~ok
    BY <1>1, <1>5, <2>2 DEF Types
  <2> QED
    BY <2>1, <2>2
<1>12. Types'
  BY <1>3, <1>4, <1>5, <1>8, <1>10, <1>11 DEF Types, Fresh
<1>13. IdsOK'
  <2>1. \A g \in DOMAIN gens : gens[g] \in Records
    BY <1>5 DEF Types
  <2>2. \A g \in DOMAIN gens : gens'[g].checkpoint <= Len(saved') /\ gens'[g].parked <= Len(saved')
    <3> SUFFICES ASSUME NEW g \in DOMAIN gens
                 PROVE  gens'[g].checkpoint <= Len(saved') /\ gens'[g].parked <= Len(saved')
      OBVIOUS
    <3>1. /\ gens[g].checkpoint \in Nat /\ gens[g].parked \in Nat /\ Len(saved') \in Nat
          /\ gens[g].checkpoint <= Len(saved) /\ gens[g].parked <= Len(saved)
      BY <1>5, <1>8, <2>1 DEF IdsOK, Records
    <3>2. gens'[g].checkpoint = gens[g].checkpoint \/ (ok /\ gens'[g].checkpoint = NextId)
      BY <1>11
    <3> QED
      BY <1>8, <1>11, <3>1, <3>2
  <2>3. prepared <= Len(saved')
    BY <1>5, <1>8 DEF IdsOK, Types
  <2> QED
    BY <1>3, <1>10, <1>11, <2>2, <2>3 DEF IdsOK
<1>14. Winner' = Winner /\ Runner' = Runner /\ Batch(Len(gens))' = Batch(Len(gens))
  BY <1>3, <1>6, <1>11 DEF Winner, Runner, Batch
<1>15. step' \in {"discard", "park_runner"}
  BY <1>1
<1>16. ForksOK'
  BY <1>1, <1>3, <1>5, <1>10, <1>11, <1>15 DEF ForksOK, Live
<1>17. WorkOK'
  BY <1>1, <1>3, <1>5, <1>10, <1>14, <1>15 DEF WorkOK, Joined
<1>18. RoundsOK'
  BY <1>1, <1>3, <1>5, <1>6, <1>11, <1>15, RoundsGoOn
<1>19. BenchOK'
  BY <1>3, <1>5 DEF BenchOK
<1>20. WinnersSurvive'
  <2> SUFFICES ASSUME NEW g \in DOMAIN gens, gens'[g].checkpoint # 0, session = "live"
               PROVE  /\ gens[g].winner \in DOMAIN forks
                      /\ forks[gens[g].winner].at = saved'[gens'[g].checkpoint].at
    BY <1>3, <1>10, <1>11 DEF WinnersSurvive
  <2>1. CASE ok /\ g = Len(gens)
    BY <1>5, <1>6, <1>8, <1>11, <2>1
  <2>2. CASE ~(ok /\ g = Len(gens))
    <3>1. gens'[g].checkpoint = gens[g].checkpoint
      BY <1>11, <2>2
    <3>2. gens[g].checkpoint \in Ids
      <4>1. gens[g] \in Records
        BY <1>5 DEF Types
      <4> QED
        BY <1>5, <1>8, <3>1, <4>1 DEF IdsOK, Records, Ids
    <3> QED
      BY <1>5, <1>8, <3>1, <3>2 DEF WinnersSurvive
  <2> QED
    BY <2>1, <2>2
<1> QED
  BY <1>12, <1>13, <1>16, <1>17, <1>18, <1>19, <1>20 DEF SearchInv

\* The runner-up is sealed and removed, or that fails.
LEMMA ParkRunnerStep ==
    ASSUME SearchInv, NEW ok \in BOOLEAN, ParkRunner(ok)
    PROVE  SearchInv'
<1>1. /\ step = "park_runner" /\ step' = "discard"
      /\ saved' = IF ok THEN Sealed(Runner) ELSE saved
      /\ forks' = IF ok THEN Without(forks, {Runner}) ELSE forks
      /\ gens' = IF ok THEN Recorded("parked", NextId) ELSE gens
  BY DEF ParkRunner
<1>2. UNCHANGED <<plan, current, prepared, worker, result, restored, endVars, benchVars>>
  BY DEF ParkRunner
<1>3. UNCHANGED <<plan, current, prepared, worker, result, restored, session, lock, counter, log>>
  BY <1>2 DEF endVars, benchVars
<1>4. faults' \in Nat
  BY TryCounts DEF ParkRunner
<1>5. /\ Types /\ IdsOK /\ ForksOK /\ WorkOK /\ RoundsOK /\ BenchOK /\ WinnersSurvive
      /\ gens # << >> /\ Runner # Nobody /\ Runner \in DOMAIN forks
      /\ DOMAIN worker = Batch(Len(gens)) /\ Joined
  BY <1>1 DEF SearchInv, RoundsOK, WorkOK
<1>6. /\ Len(gens) \in Nat /\ Len(gens) \in DOMAIN gens /\ DOMAIN gens = 1 .. Len(gens)
      /\ Last \in Records /\ Last = gens[Len(gens)] /\ Runner = Last.runner
  BY <1>5 DEF Types, Last, Runner
<1>7. /\ Runner \in Batch(Len(gens)) /\ Runner[1] = Len(gens) /\ Len(gens) # 0
      /\ Runner # Main /\ Runner # current
      /\ \A g \in DOMAIN gens : gens[g].winner # Nobody => gens[g].winner # Runner
  <2>1. Runner \in Batch(Len(gens)) \ {gens[Len(gens)].winner}
    BY <1>5, <1>6 DEF RoundsOK
  <2>2. Runner[1] = Len(gens) /\ Len(gens) # 0 /\ Runner # Main /\ Runner # current
    BY <1>6, <2>1, NamesApart
  <2>3. ASSUME NEW g \in DOMAIN gens, gens[g].winner # Nobody PROVE gens[g].winner # Runner
    <3>1. gens[g].winner[1] = g
      BY <2>3, NamesApart
    <3> QED
      BY <1>6, <2>1, <2>2, <3>1
  <2> QED
    BY <2>1, <2>2, <2>3
<1>8. /\ saved' \in Seq(Saved) /\ Len(saved) \in Nat /\ Len(saved) <= Len(saved')
      /\ \A i \in Ids : saved'[i] = saved[i]
      /\ ok => NextId \in Nat /\ NextId = Len(saved')
  <2>1. CASE ok
    <3>1. /\ saved' \in Seq(Saved) /\ Len(saved') = Len(saved) + 1
          /\ NextId = Len(saved) + 1 /\ Len(saved) \in Nat
          /\ \A i \in Ids : saved'[i] = saved[i]
      BY <1>1, <1>5, <2>1, SealedAdds
    <3> QED
      BY <3>1
  <2>2. CASE ~ok
    BY <1>1, <1>5, <2>2 DEF Types
  <2> QED
    BY <2>1, <2>2
<1>9. Ids \subseteq Ids'
  BY <1>8 DEF Ids
<1>10. /\ DOMAIN forks' \subseteq DOMAIN forks /\ DOMAIN forks \subseteq DOMAIN forks' \cup {Runner}
       /\ forks' \in [DOMAIN forks' -> [at : Contents, base : Nat]]
       /\ \A f \in DOMAIN forks' : forks'[f] = forks[f]
  <2>1. CASE ok
    <3>1. /\ DOMAIN forks' = DOMAIN forks \ {Runner}
          /\ forks' \in [DOMAIN forks' -> [at : Contents, base : Nat]]
          /\ \A f \in DOMAIN forks \ {Runner} : forks'[f] = forks[f]
      BY <1>1, <1>5, <2>1, WithoutKeeps
    <3> QED
      BY <3>1
  <2>2. CASE ~ok
    BY <1>1, <1>5, <2>2 DEF Types
  <2> QED
    BY <2>1, <2>2
<1>11. /\ gens' \in Seq(Records) /\ Len(gens') = Len(gens) /\ DOMAIN gens' = DOMAIN gens
       /\ \A g \in DOMAIN gens : /\ gens'[g].winner = gens[g].winner
                                 /\ gens'[g].runner = gens[g].runner
                                 /\ gens'[g].checkpoint = gens[g].checkpoint
       /\ \A g \in DOMAIN gens \ {Len(gens)} : gens'[g] = gens[g]
       /\ gens'[Len(gens)].parked = IF ok THEN NextId ELSE gens[Len(gens)].parked
  <2>1. CASE ok
    <3>1. /\ gens' \in Seq(Records) /\ Len(gens') = Len(gens) /\ DOMAIN gens' = DOMAIN gens
          /\ gens'[Len(gens)] = [Last EXCEPT !["parked"] = NextId]
          /\ \A g \in DOMAIN gens \ {Len(gens)} : gens'[g] = gens[g]
      BY <1>1, <1>5, <1>8, <2>1, RecordedChanges
    <3>2. /\ gens'[Len(gens)].winner = Last.winner /\ gens'[Len(gens)].runner = Last.runner
          /\ gens'[Len(gens)].checkpoint = Last.checkpoint /\ gens'[Len(gens)].parked = NextId
      BY <1>6, <3>1 DEF Records
    <3> QED
      BY <1>6, <2>1, <3>1, <3>2
  <2>2. CASE ~ok
    BY <1>1, <1>5, <2>2 DEF Types
  <2> QED
    BY <2>1, <2>2
<1>12. Types'
  BY <1>3, <1>4, <1>5, <1>8, <1>10, <1>11 DEF Types, Fresh
<1>13. IdsOK'
  <2>1. \A g \in DOMAIN gens : gens[g] \in Records
    BY <1>5 DEF Types
  <2>2. \A g \in DOMAIN gens : gens'[g].checkpoint <= Len(saved') /\ gens'[g].parked <= Len(saved')
    <3> SUFFICES ASSUME NEW g \in DOMAIN gens
                 PROVE  gens'[g].checkpoint <= Len(saved') /\ gens'[g].parked <= Len(saved')
      OBVIOUS
    <3>1. /\ gens[g].checkpoint \in Nat /\ gens[g].parked \in Nat /\ Len(saved') \in Nat
          /\ gens[g].checkpoint <= Len(saved) /\ gens[g].parked <= Len(saved)
      BY <1>5, <1>8, <2>1 DEF IdsOK, Records
    <3>2. gens'[g].parked = gens[g].parked \/ (ok /\ gens'[g].parked = NextId)
      BY <1>11
    <3> QED
      BY <1>8, <1>11, <3>1, <3>2
  <2>3. prepared <= Len(saved')
    BY <1>5, <1>8 DEF IdsOK, Types
  <2>4. \A f \in DOMAIN forks' : forks'[f].base \in Ids'
    BY <1>5, <1>9, <1>10 DEF IdsOK
  <2> QED
    BY <1>3, <1>11, <2>2, <2>3, <2>4 DEF IdsOK
<1>14. Batch(Len(gens))' = Batch(Len(gens))
  BY <1>3, <1>11 DEF Batch
<1>15. ForksOK'
  BY <1>1, <1>3, <1>5, <1>7, <1>10, <1>11 DEF ForksOK, Live
<1>16. WorkOK'
  BY <1>1, <1>3, <1>5, <1>14 DEF WorkOK, Joined
<1>17. RoundsOK'
  <2>1. gens' # << >>
    BY <1>6, <1>11
  <2> QED
    BY <1>1, <1>3, <1>5, <1>6, <1>11, <2>1, RoundsGoOn DEF RoundsOK
<1>18. BenchOK'
  BY <1>3, <1>5 DEF BenchOK
<1>19. WinnersSurvive'
  <2> SUFFICES ASSUME NEW g \in DOMAIN gens, gens[g].checkpoint # 0, session = "live"
               PROVE  /\ gens[g].winner \in DOMAIN forks'
                      /\ forks'[gens[g].winner].at = saved'[gens[g].checkpoint].at
    BY <1>3, <1>11 DEF WinnersSurvive
  <2>1. gens[g].winner # Nobody /\ gens[g].checkpoint \in Ids
    <3>1. gens[g] \in Records
      BY <1>5 DEF Types
    <3> QED
      BY <1>5, <1>8, <3>1 DEF IdsOK, Records, Ids, RoundsOK
  <2>2. gens[g].winner \in DOMAIN forks /\ gens[g].winner # Runner
    BY <1>5, <1>7, <2>1 DEF WinnersSurvive
  <2> QED
    BY <1>5, <1>8, <1>10, <2>1, <2>2 DEF WinnersSurvive
<1> QED
  BY <1>12, <1>13, <1>15, <1>16, <1>17, <1>18, <1>19 DEF SearchInv

\* The rest of the generation goes: no winner, and neither main nor the current fork.
LEMMA DiscardStep ==
    ASSUME SearchInv, NEW stuck \in SUBSET DOMAIN worker, DiscardRest(stuck)
    PROVE  SearchInv'
<1>1. /\ step = "discard" /\ step' = "decide" /\ forks' = Without(forks, RestOf \ stuck)
  BY DEF DiscardRest
<1>2. UNCHANGED <<plan, saved, current, searchVars, restored, endVars, benchVars>>
  BY DEF DiscardRest
<1>3. UNCHANGED <<plan, saved, current, prepared, gens, worker, result, restored, session, lock,
                  counter, log>>
  BY <1>2 DEF searchVars, endVars, benchVars
<1>4. faults' \in Nat
  BY TryCounts DEF DiscardRest
<1>5. /\ Types /\ IdsOK /\ ForksOK /\ WorkOK /\ RoundsOK /\ BenchOK /\ WinnersSurvive
      /\ gens # << >> /\ DOMAIN worker = Batch(Len(gens)) /\ Joined
  BY <1>1 DEF SearchInv, RoundsOK, WorkOK
<1>6. /\ DOMAIN forks' = DOMAIN forks \ (RestOf \ stuck)
      /\ forks' \in [DOMAIN forks' -> [at : Contents, base : Nat]]
      /\ \A f \in DOMAIN forks' : forks'[f] = forks[f]
  <2>1. forks' = [x \in DOMAIN forks \ (RestOf \ stuck) |-> forks[x]]
    BY <1>1 DEF Without
  <2> QED
    BY <1>5, <2>1 DEF Types
<1>7. Len(gens) \in Nat /\ Len(gens) # 0 /\ DOMAIN gens = 1 .. Len(gens)
  BY <1>5, NamesApart
<1>8. \A f \in RestOf : f[1] = Len(gens) /\ f # Winner
  BY <1>5, <1>7, NamesApart DEF RestOf
<1>9. Main \notin RestOf /\ current \notin RestOf
  BY <1>7, <1>8, NamesApart
<1>10. ASSUME NEW g \in DOMAIN gens, gens[g].winner # Nobody PROVE gens[g].winner \notin RestOf
  <2>1. gens[g].winner[1] = g
    BY <1>10, NamesApart
  <2> QED
    BY <1>8, <2>1 DEF Winner
<1>11. Types' /\ IdsOK'
  <2>1. DOMAIN forks' \subseteq Nat \X Nat
    BY <1>5, <1>6 DEF Types
  <2>2. Types'
    BY <1>3, <1>4, <1>5, <1>6, <2>1 DEF Types, Fresh
  <2>3. IdsOK'
    BY <1>3, <1>5, <1>6 DEF IdsOK, Ids
  <2> QED
    BY <2>2, <2>3
<1>12. ForksOK'
  BY <1>1, <1>3, <1>5, <1>6, <1>9 DEF ForksOK, Live
<1>13. WorkOK'
  BY <1>1, <1>3, <1>5 DEF WorkOK, Joined
<1>14. RoundsOK'
  BY <1>1, <1>3, <1>5 DEF RoundsOK, Backtracking, SourceOf, Batch
<1>15. BenchOK'
  BY <1>3, <1>5 DEF BenchOK
<1>16. WinnersSurvive'
  <2> SUFFICES ASSUME NEW g \in DOMAIN gens, gens[g].checkpoint # 0, session = "live"
               PROVE  /\ gens[g].winner \in DOMAIN forks'
                      /\ forks'[gens[g].winner].at = saved[gens[g].checkpoint].at
    BY <1>3 DEF WinnersSurvive
  <2>1. gens[g].winner \notin RestOf /\ gens[g].winner \in DOMAIN forks
    BY <1>5, <1>10 DEF RoundsOK, WinnersSurvive
  <2> QED
    BY <1>5, <1>6, <2>1 DEF WinnersSurvive
<1> QED
  BY <1>11, <1>12, <1>13, <1>14, <1>15, <1>16 DEF SearchInv

-----------------------------------------------------------------------------
(* The invariant.                                                          *)

\* Nothing is there at the start.
LEMMA SearchInit ==
    ASSUME Init
    PROVE  SearchInv
<1>1. /\ plan \in [fanout : Fanouts, generations : Generations, target : Targets, keep : BOOLEAN]
      /\ step = "build" /\ forks = [f \in {} |-> Empty] /\ saved = << >> /\ current = Main
      /\ prepared = 0 /\ gens = << >> /\ worker = [c \in {} |-> "idle"]
      /\ result = [c \in {} |-> Nobody] /\ restored = 0 /\ faults = 0 /\ session = "none"
      /\ lock = Nobody /\ counter = 0 /\ log = << >>
  BY DEF Init, Stats!InitBench
<1>2. DOMAIN forks = {} /\ DOMAIN worker = {} /\ DOMAIN result = {} /\ DOMAIN gens = {}
      /\ Len(gens) = 0 /\ Len(saved) = 0 /\ Len(log) = 0
  BY <1>1
<1>3. Types
  BY <1>1, <1>2 DEF Types
<1>4. IdsOK /\ ForksOK /\ WorkOK
  BY <1>1, <1>2 DEF IdsOK, ForksOK, WorkOK, Live, Joined
<1>5. RoundsOK /\ WinnersSurvive
  BY <1>1, <1>2 DEF RoundsOK, WinnersSurvive, Backtracking
<1>6. BenchOK
  BY <1>1, <1>2 DEF BenchOK
<1> QED
  BY <1>3, <1>4, <1>5, <1>6 DEF SearchInv

\* Every step of the script, and of its candidates, keeps what is known.
LEMMA SearchStep ==
    ASSUME SearchInv, [Next]_vars
    PROVE  SearchInv'
<1>1. CASE Build \/ \E left \in {"none", "open", "left"} : BuildFails(left)
  BY <1>1, BuildSteps
<1>2. CASE \E mkdir, copied, ran \in BOOLEAN : Prepare(mkdir, copied, ran)
  BY <1>2, PrepareSteps
<1>3. CASE \E missing \in SUBSET Candidates : ForkBatch(missing)
  <2>1. PICK missing : missing \in SUBSET Candidates /\ ForkBatch(missing)
    BY <1>3
  <2> QED
    BY <2>1, ForkBatchStep
<1>4. CASE \E c \in DOMAIN worker, ok, done \in BOOLEAN : Run(c, ok, done)
  BY <1>4, RunStep
<1>5. CASE \E c \in DOMAIN worker : NotFound(c) \/ RecordCount(c) \/ RecordEnter(c)
  BY <1>5, RecordSteps
<1>6. CASE Score
  BY <1>6, ScoreStep
<1>7. CASE \E stuck \in SUBSET DOMAIN worker : DiscardRest(stuck)
  <2>1. PICK stuck : stuck \in SUBSET DOMAIN worker /\ DiscardRest(stuck)
    BY <1>7
  <2> QED
    BY <2>1, DiscardStep
<1>8. CASE Decide
  BY <1>8, DecideStep
<1>9. CASE \E done, ok \in BOOLEAN : WriteAlternate(done, ok)
  BY <1>9, WriteAlternateStep
<1>10. CASE \E ok, stuck \in BOOLEAN : RestoreWinner(ok, stuck)
  BY <1>10, RestoreWinnerStep
<1>11. CASE \E ok \in BOOLEAN : SealMain(ok)
  BY <1>11, PrepareSteps
<1>12. CASE \E ok \in BOOLEAN : \/ SealWinner(ok) \/ ParkRunner(ok) \/ RestorePrepared(ok)
                                \/ ForkAlternate(ok) \/ ParkCurrent(ok) \/ Revive(ok)
  BY <1>12, SealWinnerStep, ParkRunnerStep, RestorePreparedStep, ForkAlternateStep,
     ParkCurrentStep, ReviveStep
<1>13. CASE (\E ok \in BOOLEAN : Export(ok)) \/ ReportStats \/ Raise
  BY <1>13, ClosingSteps
<1>14. CASE AfterTry
  BY <1>14, AfterTryStep
<1>15. CASE AnswerLost \/ UNCHANGED vars
  BY <1>15, QuietSteps
<1> QED
  BY <1>1, <1>2, <1>3, <1>4, <1>5, <1>6, <1>7, <1>8, <1>9, <1>10, <1>11, <1>12, <1>13, <1>14,
     <1>15 DEF Next, AfterTry

\* What is known at each step of the script holds, whatever calls fail.
THEOREM SearchInvariant == Spec => []SearchInv
<1>1. Init => SearchInv
  BY SearchInit
<1>2. SearchInv /\ [Next]_vars => SearchInv'
  BY SearchStep
<1> QED
  BY <1>1, <1>2, PTL DEF Spec

\* Whatever fails, a winner whose checkpoint is the next frontier stays live with what was sealed,
\* while its descendants run, losers are discarded and the backtracking restores and destroys
\* forks (search_workflow_demo.py, lines 261-263, 348-350).
THEOREM WinnersStay == Spec => []WinnersSurvive
<1>1. SearchInv => WinnersSurvive
  BY DEF SearchInv
<1> QED
  BY <1>1, SearchInvariant, PTL

\* The entries of candidates that run at the same time are numbered in the order of the log,
\* without a gap (benchmark.py, line 174).
THEOREM EntriesAreInOrder == Spec => []EntriesInOrder
<1>1. SearchInv => EntriesInOrder
  BY DEF SearchInv, BenchOK, EntriesInOrder, Stats!InSequence
<1> QED
  BY <1>1, SearchInvariant, PTL

-----------------------------------------------------------------------------
(* The search approaches its target.                                       *)

\* Steps of one f-th of the way: the place that is nearest to the target is on this side of it.
LEMMA NearestIsBefore ==
    ASSUME NEW v \in Nat, NEW target \in Int, v < target, NEW f \in Nat \ {0, 1},
           NEW s, s = Most(1, (target - v) \div f), NEW i \in 2 .. f,
           \A j \in 2 .. f : v + (j - 1) * s = target => v + (i - 1) * s = target
    PROVE  v < v + (i - 1) * s /\ v + (i - 1) * s <= target
<1> DEFINE way == target - v
           part == way \div f
<1>1. way \in Nat \ {0} /\ v + way = target
  OBVIOUS
<1>2. part \in Nat /\ f * part <= way
  <2> HIDE DEF way
  <2>1. f \in Nat \ {0}
    OBVIOUS
  <2> QED
    BY <1>1, <2>1
<1>3. s = Most(1, part)
  OBVIOUS
<1> HIDE DEF way, part
<1>4. s \in Nat \ {0} /\ (s = 1 \/ f * s <= way)
  BY <1>2, <1>3 DEF Most
<1>5. i - 1 \in Nat \ {0} /\ i - 1 <= f /\ i \in Nat
  OBVIOUS
<1>6. \A a \in Nat \ {0} : a * s >= s /\ a * s \in Nat
  BY <1>4
<1>7. (i - 1) * s >= s /\ (i - 1) * s \in Nat
  BY <1>5, <1>6
<1>8. (i - 1) * s <= way
  <2>1. CASE f * s <= way
    <3>1. \A a, b \in Nat : a <= b => a * s <= b * s
      BY <1>4
    <3>2. (i - 1) * s <= f * s
      BY <1>5, <3>1
    <3>3. f * s \in Nat
      BY <1>6
    <3> QED
      BY <1>1, <1>7, <2>1, <3>2, <3>3
  <2>2. CASE s = 1
    <3> SUFFICES ASSUME i - 1 > way PROVE FALSE
      BY <1>1, <1>5, <2>2
    <3>1. way + 1 \in 2 .. f /\ v + ((way + 1) - 1) * s = target
      BY <1>1, <1>5, <2>2
    <3>2. v + (i - 1) * s = target
      BY <3>1
    <3> QED
      BY <1>1, <1>5, <2>2, <3>2
  <2> QED
    BY <1>4, <2>1, <2>2
<1> QED
  BY <1>1, <1>4, <1>7, <1>8

\* The candidate that the script expects to win: nearer to the target, and not past it.
LEMMA ExpectedNears ==
    ASSUME SearchInv, CurrentValue < plan.target
    PROVE  /\ ExpectedWinner \in Candidates \ {Rejected}
           /\ CurrentValue < Expected(ExpectedWinner) /\ Expected(ExpectedWinner) <= plan.target
<1> DEFINE all == Candidates \ {Rejected}
           value == [c \in all |-> Expected(c)]
           w == First(all, value)
           v == CurrentValue
           s == StepSize(v)
<1>1. /\ Types /\ plan.target \in Int /\ plan.fanout \in Nat \ {0, 1}
      /\ v \in Nat /\ s \in Nat \ {0} /\ Number \in Nat
  <2>1. Types
    BY DEF SearchInv
  <2> QED
    BY <2>1, SearchAssumption, MovesAreNumbers, NamesApart DEF Types
<1>2. Candidates = Batch(Number) /\ Rejected = <<Number, 1>>
  BY NamesApart
<1>3. /\ all \in SUBSET Batch(Number)
      /\ \A c \in all : c \in Nat \X Nat /\ c[2] \in 2 .. plan.fanout
      /\ \A j \in 2 .. plan.fanout : <<Number, j>> \in all
  <2>1. all \in SUBSET Batch(Number)
    BY <1>2
  <2>2. ASSUME NEW c \in all PROVE c \in Nat \X Nat /\ c[2] \in 2 .. plan.fanout
    <3>1. c \in Nat \X Nat /\ c[2] \in 1 .. plan.fanout /\ c = <<Number, c[2]>>
      BY <1>1, <2>1, NamesApart
    <3>2. c[2] # 1
      BY <1>2, <3>1
    <3> QED
      BY <1>1, <3>1, <3>2
  <2>3. ASSUME NEW j \in 2 .. plan.fanout PROVE <<Number, j>> \in all
    BY <1>1, <1>2, <2>3 DEF Batch
  <2> QED
    BY <2>1, <2>2, <2>3
<1> HIDE DEF all
<1>4. \A c \in all : value[c] = v + (c[2] - 1) * s /\ value[c] \in Nat /\ value[c] = Expected(c)
  <2> SUFFICES ASSUME NEW c \in all
               PROVE  value[c] = v + (c[2] - 1) * s /\ value[c] \in Nat /\ value[c] = Expected(c)
    OBVIOUS
  <2>1. value[c] = Expected(c)
    OBVIOUS
  <2>2. Move(c) \in Nat
    BY <1>1, <1>3, MovesAreNumbers
  <2>3. Expected(c) = v + Move(c) /\ Move(c) = (c[2] - 1) * s
    BY DEF Expected, Move
  <2>4. v + Move(c) \in Nat
    BY <1>1, <2>2
  <2> QED
    BY <2>1, <2>3, <2>4
<1> HIDE DEF value
<1>5. /\ w \in all
      /\ \A d \in all \ {w} : Before(w, d, value)
  <2>1. 2 \in 2 .. plan.fanout
    BY <1>1
  <2>2. all # {}
    BY <1>3, <2>1
  <2> QED
    BY <1>1, <1>3, <1>4, <2>2, FirstIsLeast
<1> HIDE DEF w
<1>6. ASSUME NEW j \in 2 .. plan.fanout, v + (j - 1) * s = plan.target
      PROVE  v + (w[2] - 1) * s = plan.target
  <2> DEFINE d == <<Number, j>>
  <2>1. d \in all /\ d[2] = j
    BY <1>3
  <2>2. value[d] = plan.target
    BY <1>4, <1>6, <2>1
  <2>3. value[w] = plan.target
    <3>1. CASE w = d
      BY <2>2, <3>1
    <3>2. CASE w # d
      <4>1. Before(w, d, value)
        BY <1>5, <2>1, <3>2
      <4>2. Distance(value[d]) = 0
        BY <1>1, <2>2 DEF Distance
      <4>3. Distance(value[w]) \in Nat /\ (Distance(value[w]) = 0 => value[w] = plan.target)
        BY <1>1, <1>4, <1>5 DEF Distance
      <4> QED
        BY <4>1, <4>2, <4>3 DEF Before
    <3> QED
      BY <3>1, <3>2
  <2> QED
    BY <1>4, <1>5, <2>3
<1>7. s = Most(1, (plan.target - v) \div plan.fanout)
  BY <1>1 DEF StepSize, Most
<1>8. w[2] \in 2 .. plan.fanout
  BY <1>3, <1>5
<1> HIDE DEF s
<1>9. v < v + (w[2] - 1) * s /\ v + (w[2] - 1) * s <= plan.target
  <2>1. v < plan.target
    OBVIOUS
  <2> HIDE DEF v
  <2>2. \A j \in 2 .. plan.fanout : v + (j - 1) * s = plan.target => v + (w[2] - 1) * s = plan.target
    BY <1>6
  <2> QED
    BY <1>1, <1>7, <1>8, <2>1, <2>2, NearestIsBefore
<1>10. w = ExpectedWinner
  BY DEF w, value, all, ExpectedWinner
<1>11. value[w] = Expected(w) /\ value[w] = v + (w[2] - 1) * s
  BY <1>4, <1>5
<1> QED
  BY <1>5, <1>9, <1>10, <1>11 DEF all

\* The actions of the script by what they do to the records of the generations.
Plain ==
    \/ Build \/ Decide \/ ReportStats \/ AnswerLost \/ Raise \/ AfterTry
    \/ \E left \in {"none", "open", "left"} : BuildFails(left)
    \/ \E mkdir, copied, ran \in BOOLEAN : Prepare(mkdir, copied, ran)
    \/ \E missing \in SUBSET Candidates : ForkBatch(missing)
    \/ \E c \in DOMAIN worker, ok, done \in BOOLEAN : Run(c, ok, done)
    \/ \E c \in DOMAIN worker : NotFound(c) \/ RecordCount(c) \/ RecordEnter(c)
    \/ \E stuck \in SUBSET DOMAIN worker : DiscardRest(stuck)
    \/ \E done, ok \in BOOLEAN : WriteAlternate(done, ok)
    \/ \E ok, stuck \in BOOLEAN : RestoreWinner(ok, stuck)
    \/ \E ok \in BOOLEAN : \/ SealMain(ok) \/ RestorePrepared(ok) \/ ForkAlternate(ok)
                           \/ ParkCurrent(ok) \/ Revive(ok) \/ Export(ok)

\* A failed assertion stays failed, and outside the generation at work no record changes.
LEMMA FailuresStay ==
    ASSUME Plain
    PROVE  failed \subseteq failed' /\ plan' = plan /\ gens' = gens
<1>1. CASE Build \/ Decide \/ ReportStats \/ AnswerLost \/ Raise
  BY <1>1 DEF Build, Decide, ReportStats, AnswerLost, Raise, searchVars
<1>2. CASE \E left \in {"none", "open", "left"} : BuildFails(left)
  BY <1>2 DEF BuildFails, searchVars
<1>3. CASE \E mkdir, copied, ran \in BOOLEAN : Prepare(mkdir, copied, ran)
  BY <1>3 DEF Prepare, searchVars
<1>4. CASE \E missing \in SUBSET Candidates : ForkBatch(missing)
  BY <1>4 DEF ForkBatch
<1>5. CASE \E c \in DOMAIN worker, ok, done \in BOOLEAN : Run(c, ok, done)
  BY <1>5 DEF Run
<1>6. CASE \E c \in DOMAIN worker : NotFound(c) \/ RecordCount(c) \/ RecordEnter(c)
  BY <1>6 DEF NotFound, RecordCount, RecordEnter
<1>7. CASE \E stuck \in SUBSET DOMAIN worker : DiscardRest(stuck)
  BY <1>7 DEF DiscardRest, searchVars
<1>8. CASE \E done, ok \in BOOLEAN : WriteAlternate(done, ok)
  BY <1>8 DEF WriteAlternate, searchVars
<1>9. CASE \E ok, stuck \in BOOLEAN : RestoreWinner(ok, stuck)
  BY <1>9 DEF RestoreWinner, searchVars
<1>10. CASE \E ok \in BOOLEAN : SealMain(ok) \/ RestorePrepared(ok) \/ ForkAlternate(ok)
  BY <1>10 DEF SealMain, RestorePrepared, ForkAlternate, searchVars
<1>11. CASE \E ok \in BOOLEAN : ParkCurrent(ok) \/ Revive(ok) \/ Export(ok)
  BY <1>11 DEF ParkCurrent, Revive, Export, searchVars
<1>12. CASE AfterTry
  BY <1>12 DEF AfterTry, Cleanup, EndSession, WriteSummary, Destructor, searchVars
<1> QED
  BY <1>1, <1>2, <1>3, <1>4, <1>5, <1>6, <1>7, <1>8, <1>9, <1>10, <1>11, <1>12 DEF Plain

\* When no assertion of the scoring fails, every candidate has its value and the record is of the
\* one that was expected to win.
LEMMA ScoredWell ==
    ASSUME SearchInv, Score, failed' = {}
    PROVE  /\ failed = {} /\ plan' = plan /\ step' = "seal_winner"
           /\ ExpectedWinner \in Candidates \ {Rejected} /\ OwnEditsOnly(ExpectedWinner)
           /\ \A c \in Candidates \ {Rejected} : result[c] = Expected(c)
           /\ Len(gens') = Number /\ \A g \in DOMAIN gens : gens'[g] = gens[g]
           /\ gens'[Number].winner = ExpectedWinner
           /\ gens'[Number].value = result[ExpectedWinner]
<1> DEFINE all == Candidates \ {Rejected}
           scored == {c \in all : Scored(c)}
           winner == First(scored, result)
           runner == First(scored \ {winner}, result)
           none == [winner |-> Nobody, value |-> 0, runner |-> Nobody, rvalue |-> 0,
                    rmove |-> 0, checkpoint |-> 0, parked |-> 0]
           one == [none EXCEPT !.winner = winner, !.value = result[winner]]
           two == [none EXCEPT !.winner = winner, !.value = result[winner],
                               !.runner = runner, !.rvalue = result[runner],
                               !.rmove = Move(runner)]
<1>1. plan' = plan /\ failed \subseteq failed' /\ scored # {}
  BY DEF Score
<1>2. /\ failed' = failed \cup Check(Rejected \in DOMAIN forks, "usable")
                    \cup Check(scored = all, "answers")
                    \cup Check(\A c \in all : result[c] = Expected(c), "arithmetic")
                    \cup Check(winner = ExpectedWinner, "winner")
                    \cup Check(\A c \in all : OwnEditsOnly(c), "isolation")
                    \cup Check(FrontierUntouched, "frontier")
      /\ step' = "seal_winner"
      /\ gens' = Append(gens, one) \/ gens' = Append(gens, two)
  BY <1>1 DEF Score
<1> HIDE DEF all, scored, winner, runner
<1>3. /\ Check(scored = all, "answers") = {}
      /\ Check(\A c \in all : result[c] = Expected(c), "arithmetic") = {}
      /\ Check(winner = ExpectedWinner, "winner") = {}
      /\ Check(\A c \in all : OwnEditsOnly(c), "isolation") = {}
  BY <1>2
<1>4. /\ failed = {} /\ scored = all /\ \A c \in all : result[c] = Expected(c)
      /\ winner = ExpectedWinner /\ \A c \in all : OwnEditsOnly(c)
  BY <1>1, <1>3 DEF Check
<1>5. winner \in all
  <2>1. Candidates = Batch(Number) /\ Number \in Nat
    BY NamesApart
  <2>2. \A c \in scored : result[c] \in Nat
    <3>1. DOMAIN worker = Batch(Number) /\ Types
      BY DEF SearchInv, WorkOK, Score
    <3> QED
      BY <2>1, <3>1 DEF scored, all, Scored, Types
  <2>3. plan.target \in Int /\ plan.fanout \in Nat
    BY SearchAssumption DEF SearchInv, Types
  <2>4. scored \in SUBSET Batch(Number)
    BY <2>1 DEF scored, all
  <2> QED
    BY <1>1, <1>4, <2>1, <2>2, <2>3, <2>4, FirstIsLeast DEF winner
<1>6. /\ one.winner = winner /\ one.value = result[winner]
      /\ two.winner = winner /\ two.value = result[winner]
  OBVIOUS
<1> HIDE DEF one, two
<1>7. PICK rec : gens' = Append(gens, rec) /\ rec.winner = winner /\ rec.value = result[winner]
  BY <1>2, <1>6
<1>8. /\ Len(gens') = Number /\ gens'[Number] = rec
      /\ \A g \in DOMAIN gens : gens'[g] = gens[g]
  BY <1>7, NamesApart DEF SearchInv, Types
<1> QED
  BY <1>1, <1>2, <1>4, <1>5, <1>7, <1>8 DEF all

\* As long as no assertion fails, every new record is nearer to the target, and no old one changes.
LEMMA ProgressStep ==
    ASSUME SearchInv, ProgressTowardsTarget, [Next]_vars
    PROVE  ProgressTowardsTarget'
<1> SUFFICES ASSUME failed' = {}, NEW g \in DOMAIN gens',
                    (IF g = 1 THEN 0 ELSE gens'[g - 1].value) < plan'.target
             PROVE  /\ (IF g = 1 THEN 0 ELSE gens'[g - 1].value) < gens'[g].value
                    /\ gens'[g].value <= plan'.target
  BY DEF ProgressTowardsTarget
<1>1. /\ Len(gens) \in Nat /\ DOMAIN gens = 1 .. Len(gens) /\ Number = Len(gens) + 1
      /\ gens \in Seq(Records)
  BY NamesApart DEF SearchInv, Types
<1>2. ASSUME failed \subseteq failed', plan' = plan, DOMAIN gens' = DOMAIN gens,
             \A k \in DOMAIN gens : gens'[k].value = gens[k].value
      PROVE  /\ (IF g = 1 THEN 0 ELSE gens'[g - 1].value) < gens'[g].value
             /\ gens'[g].value <= plan'.target
  <2>1. failed = {} /\ g \in DOMAIN gens /\ (g # 1 => g - 1 \in DOMAIN gens)
    BY <1>1, <1>2
  <2> QED
    BY <1>2, <2>1 DEF ProgressTowardsTarget
<1>3. CASE Plain
  BY <1>2, <1>3, FailuresStay
<1>4. CASE UNCHANGED vars
  BY <1>2, <1>4 DEF vars, searchVars
<1>5. CASE \E ok \in BOOLEAN : SealWinner(ok) \/ ParkRunner(ok)
  <2>1. PICK ok \in BOOLEAN : SealWinner(ok) \/ ParkRunner(ok)
    BY <1>5
  <2>2. failed \subseteq failed' /\ plan' = plan /\ gens # << >> /\ NextId \in Nat
    <3>1. failed \subseteq failed' /\ plan' = plan /\ step \in {"seal_winner", "park_runner"}
      BY <2>1 DEF SealWinner, ParkRunner
    <3>2. gens # << >>
      BY <3>1 DEF SearchInv, RoundsOK
    <3>3. NextId \in Nat
      BY DEF NextId, SearchInv, Types
    <3> QED
      BY <3>1, <3>2, <3>3
  <2>3. gens' = gens \/ \E field \in {"checkpoint", "parked"} : gens' = Recorded(field, NextId)
    BY <2>1 DEF SealWinner, ParkRunner
  <2>4. ASSUME NEW field \in {"checkpoint", "parked"}, gens' = Recorded(field, NextId)
        PROVE  /\ DOMAIN gens' = DOMAIN gens
               /\ \A k \in DOMAIN gens : gens'[k].value = gens[k].value
    <3>1. /\ DOMAIN gens' = DOMAIN gens /\ gens'[Len(gens)] = [Last EXCEPT ![field] = NextId]
          /\ \A k \in DOMAIN gens \ {Len(gens)} : gens'[k] = gens[k]
      BY <2>2, <2>4, RecordedChanges
    <3>2. Last \in Records /\ Last = gens[Len(gens)]
      BY <1>1, <2>2 DEF Last
    <3>3. gens'[Len(gens)].value = Last.value
      BY <3>1, <3>2 DEF Records
    <3> QED
      BY <3>1, <3>2, <3>3
  <2>5. /\ DOMAIN gens' = DOMAIN gens
        /\ \A k \in DOMAIN gens : gens'[k].value = gens[k].value
    BY <2>3, <2>4
  <2> QED
    BY <1>2, <2>2, <2>5
<1>6. CASE Score
  <2>1. /\ failed = {} /\ plan' = plan /\ Len(gens') = Number
        /\ \A k \in DOMAIN gens : gens'[k] = gens[k]
        /\ gens'[Number].value = Expected(ExpectedWinner)
    BY <1>6, ScoredWell
  <2>2. g \in 1 .. Number
    <3>1. SearchInv'
      BY SearchStep
    <3>2. gens' \in Seq(Records)
      BY <3>1 DEF SearchInv, Types
    <3> QED
      BY <2>1, <3>2
  <2>3. CASE g \in DOMAIN gens
    <3>1. g # 1 => g - 1 \in DOMAIN gens
      BY <1>1, <2>3
    <3> QED
      BY <2>1, <2>3, <3>1 DEF ProgressTowardsTarget
  <2>4. CASE g \notin DOMAIN gens
    <3>1. g = Number /\ g - 1 = Len(gens)
      BY <1>1, <2>2, <2>4
    <3>2. (IF g = 1 THEN 0 ELSE gens'[g - 1].value) = CurrentValue
      <4>1. CASE Len(gens) = 0
        BY <1>1, <3>1, <4>1 DEF CurrentValue
      <4>2. CASE Len(gens) # 0
        <5>1. Len(gens) \in DOMAIN gens /\ gens # << >>
          BY <1>1, <4>2
        <5> QED
          BY <1>1, <2>1, <3>1, <4>2, <5>1 DEF CurrentValue
      <4> QED
        BY <4>1, <4>2
    <3>3. CurrentValue < plan.target
      BY <2>1, <3>2
    <3> QED
      BY <2>1, <3>1, <3>2, <3>3, ExpectedNears
  <2> QED
    BY <2>3, <2>4
<1> QED
  BY <1>3, <1>4, <1>5, <1>6 DEF Next, Plain, AfterTry

\* As long as the target is ahead and no assertion has failed, a generation comes nearer to it and
\* never runs past it, for any number of candidates (search_workflow_demo.py, lines 198 to 202).
THEOREM TargetIsApproached == Spec => []ProgressTowardsTarget
<1>1. Init => ProgressTowardsTarget
  BY DEF Init, ProgressTowardsTarget
<1>2. SearchInv /\ ProgressTowardsTarget /\ [Next]_vars => ProgressTowardsTarget'
  BY ProgressStep
<1> QED
  BY <1>1, <1>2, SearchInvariant, PTL DEF Spec
=============================================================================
