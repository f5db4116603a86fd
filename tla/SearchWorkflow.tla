--------------------------- MODULE SearchWorkflow ---------------------------
(***************************************************************************)
(* The agent-style search of scripts/search_workflow_demo.py, the client   *)
(* the forkable interface is made for and its integration test: prepare    *)
(* main, fork a generation of candidates from the frontier, run them at    *)
(* the same time, seal the winner, park the runner-up, discard the rest,   *)
(* and so on; then backtrack, export and clean up.  The exit code counts   *)
(* the assertions that failed.                                             *)
(*                                                                         *)
(* A step is one call on the manager (or the reading ones between two      *)
(* calls that change something) with the assertions made of its answer.    *)
(* The manager is what ForkableManager shows it to be for one client: each *)
(* call is atomic here, and may fail; only the candidates of a generation  *)
(* run concurrently, and meet in the manager's Benchmark records.          *)
(***************************************************************************)
EXTENDS Integers, Sequences, FiniteSets

CONSTANTS
    Fanouts,        \* --fanout: candidates per generation, the first one fails
    Generations,    \* --generations
    Targets,        \* --target: value the search moves towards
    MaxFaults,      \* bound: calls that fail in a run
    Nobody          \* no candidate, no thread

ASSUME SearchAssumption ==
    /\ Fanouts \subseteq Nat \ {0, 1}
    /\ Generations \subseteq Nat \ {0}
    /\ Targets \subseteq Int
    /\ MaxFaults \in Nat
    /\ Nobody \notin Nat \cup (Nat \X Nat)

\* Names of forks: a candidate is <<generation, index>>, the others <<0, _>>.
Main == <<0, 0>>
AltChild == <<0, 1>>
Revived == <<0, 2>>
Fresh(k) == <<0, 2 + k>>    \* allocated by the k-th restore
Alternate == <<0, 0>>       \* what the backtracked fork writes as candidate

VARIABLES
    plan,       \* the arguments: fanout, generations, target, keep_session
    step,       \* where the script stands
    forks,      \* live fork -> what is in it, and the checkpoint it is based on
    saved,      \* the checkpoints: what is in each, and its parent
    current,    \* the manager's current branch
    prepared,   \* checkpoint of the prepared main, 0 if there is none
    gens,       \* the Generation records so far
    worker,     \* candidate of this generation -> where its thread stands
    result,     \* candidate of this generation -> value it printed, or Nobody
    restored,   \* restores of the backtracking that moved to a fresh fork
    failed,     \* assertions that failed
    faults,     \* calls that failed
    exported,   \* what is in the exported workspace, or Nobody
    summary,    \* entries the statistics were made of
    session,    \* "none", "live", "open" (only the destructor is left to remove
                \* it), "gone", "failed" (it refused to go), "left" (for good)
    code,       \* exit code of the script
    lock, counter, log      \* the manager's Benchmark records

Stats == INSTANCE Benchmark

treeVars == <<forks, saved, current>>
searchVars == <<prepared, gens, worker, result>>
endVars == <<exported, summary, session, code>>
benchVars == <<lock, counter, log>>
vars == <<plan, step, treeVars, searchVars, restored, failed, faults, endVars,
          benchVars>>

-----------------------------------------------------------------------------
(* The environment: only what a later assertion can tell apart. *)

\* What a fork holds: prepared shell state, copied files, state.txt,
\* candidate.txt and LAST_MOVE.
Empty == [warm |-> FALSE, files |-> FALSE, value |-> 0, by |-> Nobody, move |-> 0]

\* The live forks once f is forked from checkpoint s.
Forked(fs, f, s) ==
    [x \in DOMAIN fs \cup {f} |->
        IF x = f THEN [at |-> saved[s].at, base |-> s] ELSE fs[x]]

Without(fs, gone) == [x \in DOMAIN fs \ gone |-> fs[x]]

\* The checkpoints once f is sealed.
Sealed(f) == Append(saved, [at |-> forks[f].at, parent |-> forks[f].base])

NextId == Len(saved) + 1

Check(ok, name) == IF ok THEN {} ELSE {name}

\* A call fails, unless MaxFaults calls have.
Try(ok) ==
    /\ ok \/ faults < MaxFaults
    /\ faults' = faults + (IF ok THEN 0 ELSE 1)

-----------------------------------------------------------------------------
(* The generation at work: run_generation's local variables. *)

Number == Len(gens) + 1
Frontier == IF gens = << >> THEN prepared ELSE gens[Len(gens)].checkpoint
FrontierFork == IF gens = << >> THEN Nobody ELSE gens[Len(gens)].winner
CurrentValue == IF gens = << >> THEN 0 ELSE gens[Len(gens)].value

Candidates == {<<Number, i>> : i \in 1 .. plan.fanout}
Rejected == <<Number, 1>>
Scored(c) == c # Rejected /\ result[c] # Nobody

Most(a, b) == IF a > b THEN a ELSE b

\* Mutant: no smallest step.
StepMayBeZero(v) == Most(0, plan.target - v) \div plan.fanout

\* The step from value v: the rest of the way in as many parts as candidates.
StepSize(v) == Most(1, Most(0, plan.target - v) \div plan.fanout)

\* moves[c] of a candidate that is to be scored.
Move(c) == (c[2] - 1) * StepSize(CurrentValue)

\* Mutant: the moves are taken for the values.
ExpectedFromZero(c) == Move(c)

Expected(c) == CurrentValue + Move(c)

Distance(v) == IF v > plan.target THEN v - plan.target ELSE plan.target - v

\* c comes before d in the order of scores: by distance, then by index.
Before(c, d, value) ==
    \/ Distance(value[c]) < Distance(value[d])
    \/ Distance(value[c]) = Distance(value[d]) /\ c[2] < d[2]

\* The first of a set in that order.
First(S, value) == CHOOSE c \in S : \A d \in S \ {c} : Before(c, d, value)

ExpectedWinner ==
    LET all == Candidates \ {Rejected} IN First(all, [c \in all |-> Expected(c)])

Winner == gens[Len(gens)].winner
Runner == gens[Len(gens)].runner
Last == gens[Len(gens)]

\* Winner's checkpoint and the parked one are set after the record is made.
Recorded(field, id) == [gens EXCEPT ![Len(gens)][field] = id]

\* The frontier the generation at work was forked from, once it is recorded.
LastFrontier == IF Len(gens) = 1 THEN prepared ELSE gens[Len(gens) - 1].checkpoint

-----------------------------------------------------------------------------
Init ==
    /\ plan \in [fanout : Fanouts, generations : Generations, target : Targets,
                 keep : BOOLEAN]
    /\ step = "build"
    /\ forks = [f \in {} |-> Empty]
    /\ saved = << >>
    /\ current = Main
    /\ prepared = 0
    /\ gens = << >>
    /\ worker = [c \in {} |-> "idle"]
    /\ result = [c \in {} |-> Nobody]
    /\ restored = 0
    /\ failed = {}
    /\ faults = 0
    /\ exported = Nobody
    /\ summary = -1
    /\ session = "none"
    /\ code = "running"
    /\ Stats!InitBench

\* build_manager: the session with main and the initial checkpoint.
Build ==
    /\ step = "build"
    /\ step' = "prepare"
    /\ forks' = [f \in {Main} |-> [at |-> Empty, base |-> 1]]
    /\ saved' = <<[at |-> Empty, parent |-> 0]>>
    /\ session' = "live"
    /\ UNCHANGED <<plan, current, searchVars, restored, failed, faults, exported,
                   summary, code, benchVars>>

\* The build fails, or the script is stopped before it reaches the try: no
\* cleanup of its own.  The session is not there, or left to the destructor of
\* the manager, or to nobody (a manager that was not built to its end).
BuildFails(left) ==
    /\ step = "build"
    /\ Try(FALSE)
    /\ step' = "exit"
    /\ session' = left
    /\ code' = "exception"
    /\ UNCHANGED <<plan, treeVars, searchVars, restored, failed, exported,
                   summary, benchVars>>

\* prepare: mkdir, copy_in and the command that makes the shell state.
Prepare(mkdir, copied, ran) ==
    /\ step = "prepare"
    /\ Try(mkdir /\ copied /\ ran)
    /\ step' = "seal_main"
    /\ LET warm == mkdir /\ ran
       IN /\ forks' = [forks EXCEPT ![Main].at = [@ EXCEPT !.warm = warm, !.files = copied]]
          /\ failed' = failed \cup Check(mkdir, "workspace") \cup Check(copied, "copy_in")
                              \cup Check(warm /\ copied, "prepared")
    /\ UNCHANGED <<plan, saved, current, searchVars, restored, endVars, benchVars>>

SealMain(ok) ==
    /\ step = "seal_main"
    /\ Try(ok)
    /\ step' = "fork"
    /\ prepared' = IF ok THEN NextId ELSE 0
    /\ saved' = IF ok THEN Sealed(Main) ELSE saved
    /\ forks' = IF ok THEN [forks EXCEPT ![Main].base = NextId] ELSE forks
    /\ failed' = failed \cup Check(ok, "seal_main")
                        \cup Check(forks[Main].at.warm, "shell_state")
    /\ UNCHANGED <<plan, current, gens, worker, result, restored, endVars, benchVars>>

-----------------------------------------------------------------------------
(* One generation. *)

\* fork(frontier, ids): one call for all, each candidate on its own may fail.
\* Without a checkpoint there is nothing to fork from.
ForkBatch(missing) ==
    /\ step = "fork"
    /\ Frontier = 0 => missing = Candidates
    /\ IF Frontier = 0 THEN UNCHANGED faults ELSE Try(missing = {})
    /\ step' = "work"
    /\ forks' = [f \in DOMAIN forks \cup (Candidates \ missing) |->
                    IF f \in Candidates THEN [at |-> saved[Frontier].at, base |-> Frontier]
                                        ELSE forks[f]]
    /\ worker' = [c \in Candidates |-> "idle"]
    /\ result' = [c \in Candidates |-> Nobody]
    /\ failed' = failed \cup Check(missing = {}, "forked")
    /\ UNCHANGED <<plan, saved, current, prepared, gens, restored, endVars, benchVars>>

\* The command of a candidate: nothing without the inherited shell state.
CandidateCommand(c, at) ==
    IF c = Rejected \/ ~at.warm THEN at
    ELSE [at EXCEPT !.value = @ + Move(c), !.by = c, !.move = Move(c)]

\* exec_on_branch of a candidate in its thread.  A call that fails may have done
\* its work (a timeout) or not.
Run(c, ok, done) ==
    /\ step = "work"
    /\ worker[c] = "idle"
    /\ c \in DOMAIN forks
    /\ Try(ok)
    /\ ok => done
    /\ LET after == IF done THEN CandidateCommand(c, forks[c].at) ELSE forks[c].at
       IN /\ forks' = [forks EXCEPT ![c].at = after]
          /\ result' = [result EXCEPT ![c] =
                IF ok /\ after.by = c THEN after.value ELSE Nobody]
    /\ worker' = [worker EXCEPT ![c] = "ran"]
    /\ UNCHANGED <<plan, step, saved, current, prepared, gens, restored, failed,
                   endVars, benchVars>>

\* There is no such branch: -1, and no entry.
NotFound(c) ==
    /\ step = "work"
    /\ worker[c] = "idle"
    /\ c \notin DOMAIN forks
    /\ worker' = [worker EXCEPT ![c] = "done"]
    /\ UNCHANGED <<plan, step, treeVars, prepared, gens, result, restored, failed,
                   faults, endVars, benchVars>>

\* The entry of the command.
RecordCount(c) ==
    /\ step = "work"
    /\ worker[c] = "ran"
    /\ Stats!Count(c)
    /\ worker' = [worker EXCEPT ![c] = "counted"]
    /\ UNCHANGED <<plan, step, treeVars, prepared, gens, result, restored, failed,
                   faults, endVars>>

RecordEnter(c) ==
    /\ step = "work"
    /\ worker[c] = "counted"
    /\ Stats!Enter(c)
    /\ worker' = [worker EXCEPT ![c] = "done"]
    /\ UNCHANGED <<plan, step, treeVars, prepared, gens, result, restored, failed,
                   faults, endVars>>

Joined == \A c \in DOMAIN worker : worker[c] = "done"

\* What every candidate sees once all have run, and what the frontier fork sees.
OwnEditsOnly(c) ==
    /\ c \in DOMAIN forks
    /\ forks[c].at.by = c
    /\ forks[c].at.value = result[c]
    /\ forks[c].at.move = Move(c)

FrontierUntouched ==
    FrontierFork # Nobody =>
        /\ FrontierFork \in DOMAIN forks
        /\ forks[FrontierFork].at.value = CurrentValue

\* The answers are read, the winner and the runner-up chosen.
Score ==
    /\ step = "work"
    /\ Joined
    /\ LET all == Candidates \ {Rejected}
           scored == {c \in all : Scored(c)}
           winner == First(scored, result)
           runner == First(scored \ {winner}, result)
           none == [winner |-> Nobody, value |-> 0, runner |-> Nobody, rvalue |-> 0,
                    rmove |-> 0, checkpoint |-> 0, parked |-> 0]
           usable == Check(Rejected \in DOMAIN forks, "usable")
           answers == Check(scored = all, "answers")
           sums == Check(\A c \in all : result[c] = Expected(c), "arithmetic")
       IN IF scored = {}
          THEN /\ gens' = Append(gens, none)
               /\ failed' = failed \cup usable \cup answers \cup sums \cup {"score"}
               /\ step' = "decide"
          ELSE /\ gens' = Append(gens,
                    IF scored = {winner}
                    THEN [none EXCEPT !.winner = winner, !.value = result[winner]]
                    ELSE [none EXCEPT !.winner = winner, !.value = result[winner],
                                      !.runner = runner, !.rvalue = result[runner],
                                      !.rmove = Move(runner)])
               /\ failed' = failed \cup usable \cup answers \cup sums
                        \cup Check(winner = ExpectedWinner, "winner")
                        \cup Check(\A c \in all : OwnEditsOnly(c), "isolation")
                        \cup Check(FrontierUntouched, "frontier")
               /\ step' = "seal_winner"
    /\ UNCHANGED <<plan, treeVars, prepared, worker, result, restored, faults,
                   endVars, benchVars>>

SealWinner(ok) ==
    /\ step = "seal_winner"
    /\ Try(ok)
    /\ step' = IF Runner = Nobody THEN "discard" ELSE "park_runner"
    /\ saved' = IF ok THEN Sealed(Winner) ELSE saved
    /\ forks' = IF ok THEN [forks EXCEPT ![Winner].base = NextId] ELSE forks
    /\ gens' = IF ok THEN Recorded("checkpoint", NextId) ELSE gens
    /\ failed' = failed \cup Check(ok, "seal_winner")
                        \cup Check(forks[Winner].base = LastFrontier, "winner_parent")
                        \cup Check(forks[Winner].at.value = Last.value, "winner_resumed")
    /\ UNCHANGED <<plan, current, prepared, worker, result, restored, endVars, benchVars>>

ParkRunner(ok) ==
    /\ step = "park_runner"
    /\ Try(ok)
    /\ step' = "discard"
    /\ saved' = IF ok THEN Sealed(Runner) ELSE saved
    /\ forks' = IF ok THEN Without(forks, {Runner}) ELSE forks
    /\ gens' = IF ok THEN Recorded("parked", NextId) ELSE gens
    /\ failed' = failed \cup Check(ok, "park_runner")
                        \cup Check(forks[Runner].base = LastFrontier, "parked_parent")
    /\ UNCHANGED <<plan, current, prepared, worker, result, restored, endVars, benchVars>>

\* Mutant: the loop over the candidates spares the runner-up only.
RestOfMistaken == DOMAIN worker \ {Runner}

RestOf == DOMAIN worker \ {Winner, Runner}

\* Every other candidate is discarded; a discard may fail, and one of a
\* candidate that was never forked does.
DiscardRest(stuck) ==
    /\ step = "discard"
    /\ stuck \subseteq RestOf \cap DOMAIN forks
    /\ Try(stuck = {})
    /\ step' = "decide"
    /\ LET left == Without(forks, RestOf \ stuck)
       IN /\ forks' = left
          /\ failed' = failed
                \cup Check(stuck = {} /\ RestOf \subseteq DOMAIN forks, "discard")
                \cup Check(DOMAIN left = {Main} \cup {gens[g].winner : g \in DOMAIN gens},
                           "live")
    /\ UNCHANGED <<plan, saved, current, searchVars, restored, endVars, benchVars>>

\* Mutant: one generation less than asked for, unless it is the only one.
DecideEarly ==
    /\ step = "decide"
    /\ step' = IF Last.checkpoint = 0 THEN "report"
               ELSE IF Len(gens) + 1 < plan.generations THEN "fork" ELSE "restore"
    /\ worker' = [c \in {} |-> "idle"]
    /\ result' = [c \in {} |-> Nobody]
    /\ UNCHANGED <<plan, treeVars, prepared, gens, restored, failed, faults, endVars,
                   benchVars>>

\* main: go on from the winner, or stop when it has no checkpoint.
Decide ==
    /\ step = "decide"
    /\ step' = IF Last.checkpoint = 0 THEN "report"
               ELSE IF Len(gens) < plan.generations THEN "fork" ELSE "restore"
    /\ worker' = [c \in {} |-> "idle"]
    /\ result' = [c \in {} |-> Nobody]
    /\ UNCHANGED <<plan, treeVars, prepared, gens, restored, failed, faults, endVars,
                   benchVars>>

-----------------------------------------------------------------------------
(* Backtracking. *)

RestorePrepared(ok) ==
    /\ step = "restore"
    /\ Try(ok)
    /\ step' = "write"
    /\ IF ok
       THEN /\ forks' = Forked(forks, Fresh(1), prepared)
            /\ current' = Fresh(1)
            /\ restored' = 1
       ELSE UNCHANGED <<forks, current, restored>>
    /\ failed' = failed
         \cup Check(current = Main /\ forks[Main].at.value = 0, "main_untouched")
         \cup Check(ok, "restore_prepared")
         \cup Check(LET at == forks'[current'].at
                    IN at.warm /\ at.value = 0 /\ at.by = Nobody, "backtracked")
    /\ UNCHANGED <<plan, saved, searchVars, endVars, benchVars>>

\* The alternative is written in the current fork, which is main when the
\* restore has failed, and sealed.  Nothing looks at the answer of the command.
WriteAlternate(done, ok) ==
    /\ step = "write"
    /\ Try(done /\ ok)
    /\ step' = "alternate"
    /\ LET at == IF done THEN [forks[current].at EXCEPT !.value = 7, !.by = Alternate]
                         ELSE forks[current].at
       IN /\ saved' = IF ok THEN Append(saved, [at |-> at, parent |-> forks[current].base])
                            ELSE saved
          /\ forks' = [forks EXCEPT ![current] =
                [at |-> at, base |-> IF ok THEN NextId ELSE @.base]]
    /\ failed' = failed \cup Check(ok /\ forks[current].base = prepared, "alternate")
    /\ UNCHANGED <<plan, current, searchVars, restored, endVars, benchVars>>

\* fork(alternate, ["alt-child"]); no alternate, no child.
ForkAlternate(ok) ==
    /\ step = "alternate"
    /\ Try(ok)
    /\ step' = "return"
    /\ LET id == forks[current].base
           made == ok /\ id # prepared
       IN /\ forks' = IF made THEN Forked(forks, AltChild, id) ELSE forks
          /\ failed' = failed \cup
                Check(made /\ saved[id].at.value = 7 /\ saved[id].at.by = Alternate, "alt_child")
    /\ UNCHANGED <<plan, saved, current, searchVars, restored, endVars, benchVars>>

\* restore(last winner): to a fresh fork; the fork departed from is destroyed,
\* unless it is main or that fails.
RestoreWinner(ok, stuck) ==
    /\ step = "return"
    /\ Try(ok /\ ~stuck)
    /\ step' = "park"
    /\ IF ok
       THEN /\ LET to == Fresh(restored + 1)
                   made == Forked(forks, to, Last.checkpoint)
               IN /\ current' = to
                  /\ forks' = IF stuck \/ current = Main THEN made
                                                         ELSE Without(made, {current})
            /\ restored' = restored + 1
       ELSE UNCHANGED <<forks, current, restored>>
    /\ failed' = failed
         \cup Check(ok /\ current' \notin {current, Main}, "restore_winner")
         \cup Check(current \notin DOMAIN forks', "departed")
         \cup Check(forks'[current'].at.value = Last.value, "returned")
    /\ UNCHANGED <<plan, saved, searchVars, endVars, benchVars>>

\* park_branch of the current fork returns to main; main itself is refused.
ParkCurrent(ok) ==
    /\ step = "park"
    /\ Try(ok)
    /\ step' = "revive"
    /\ LET parks == ok /\ current # Main
       IN /\ IF parks
             THEN /\ saved' = Sealed(current)
                  /\ forks' = Without(forks, {current})
                  /\ current' = Main
             ELSE UNCHANGED treeVars
          /\ failed' = failed
               \cup Check(parks, "parked")
               \cup Check(parks /\ forks[current].base = Last.checkpoint, "parked_onto")
    /\ UNCHANGED <<plan, searchVars, restored, endVars, benchVars>>

\* The runner-up of the first generation is revived, if it was parked, and
\* every winner is looked at again.
Revive(ok) ==
    /\ step = "revive"
    /\ Try(ok)
    /\ step' = "export"
    /\ LET first == gens[1]
           wanted == first.parked # 0
       IN /\ forks' = IF ok /\ wanted THEN Forked(forks, Revived, first.parked) ELSE forks
          /\ failed' = failed
               \cup Check(wanted => /\ ok
                                    /\ saved[first.parked].at.value = first.rvalue
                                    /\ saved[first.parked].at.move = first.rmove, "revived")
               \cup Check(\A g \in DOMAIN gens :
                            /\ gens[g].winner \in DOMAIN forks
                            /\ forks[gens[g].winner].at.value = gens[g].value, "winners")
    /\ UNCHANGED <<plan, saved, current, searchVars, restored, endVars, benchVars>>

-----------------------------------------------------------------------------
(* The end. *)

\* The winner's workspace is copied out, then a single file of it.
Export(ok) ==
    /\ step = "export"
    /\ Try(ok)
    /\ step' = "report"
    /\ exported' = IF ok THEN forks[Winner].at ELSE Nobody
    /\ failed' = failed \cup
         Check(/\ ok
               /\ forks[Winner].at.value = Last.value
               /\ forks[Winner].at.files
               /\ forks[Winner].at.by = Winner, "export")
    /\ UNCHANGED <<plan, treeVars, searchVars, restored, summary, session, code, benchVars>>

\* The statistics are made of a copy of the records.
ReportStats ==
    /\ step = "report"
    /\ Stats!Read(log)
    /\ summary' = Len(log)
    /\ step' = "cleanup"
    /\ UNCHANGED <<plan, treeVars, searchVars, restored, failed, faults, exported,
                   session, code, benchVars>>

TrySteps == {"prepare", "seal_main", "fork", "work", "seal_winner", "park_runner",
             "discard", "restore", "write", "alternate", "return", "park", "revive",
             "export", "report"}

\* A command that only reads fails: one assertion does, and the script goes on.
AnswerLost ==
    /\ step \in TrySteps \ {"prepare", "fork", "discard", "write", "report"}
    /\ Joined
    /\ Try(FALSE)
    /\ failed' = failed \cup {"answer"}
    /\ UNCHANGED <<plan, step, treeVars, searchVars, restored, endVars, benchVars>>

\* An exception in the try, a file of the host or Ctrl-C: the candidates'
\* threads are waited for, then the finally runs.
Raise ==
    /\ step \in TrySteps
    /\ Joined
    /\ Try(FALSE)
    /\ step' = "cleanup"
    /\ code' = "exception"
    /\ UNCHANGED <<plan, treeVars, searchVars, restored, failed, exported, summary,
                   session, benchVars>>

\* The end of the try: with --keep-session nothing but a line of output.
\* Otherwise the manager's cleanup, after which its destructor does nothing,
\* whatever the answer, unless it was left by an exception (Ctrl-C in it).
EndSession(answer) ==
    /\ step = "cleanup"
    /\ Try(answer = "ok")
    /\ plan.keep => answer = "ok"
    /\ step' = IF answer = "raised" THEN "exit" ELSE "write_summary"
    /\ session' = IF plan.keep \/ answer = "raised" THEN "open"
                  ELSE IF answer = "ok" THEN "gone" ELSE "failed"
    /\ forks' = IF session' = "gone" THEN Without(forks, DOMAIN forks) ELSE forks
    /\ code' = IF answer = "raised" THEN "exception" ELSE code
    /\ UNCHANGED <<plan, saved, current, searchVars, restored, exported, summary,
                   benchVars>>

\* Mutant: nobody looks at the answer of the cleanup.
CleanupUnchecked(answer) == EndSession(answer) /\ UNCHANGED failed

\* The finally: the session, and the assertion made of the answer.
Cleanup(answer) ==
    /\ EndSession(answer)
    /\ failed' = failed \cup Check(answer # "refused", "cleanup")

\* The rest of the finally, which writes the --json file, and the exit code.
WriteSummary(ok) ==
    /\ step = "write_summary"
    /\ Try(ok)
    /\ step' = "exit"
    /\ code' = IF code = "exception" \/ ~ok THEN "exception"
               ELSE IF failed = {} THEN "zero" ELSE "failures"
    /\ UNCHANGED <<plan, treeVars, searchVars, restored, failed, exported, summary,
                   session, benchVars>>

\* main is left, and with it the manager: the destructor's cleanup, whose answer
\* nobody sees.  It knows nothing of --keep-session.
Destructor(ok) ==
    /\ step = "exit"
    /\ session # "open" => ok
    /\ Try(ok)
    /\ step' = "done"
    /\ session' = IF session # "open" THEN session ELSE IF ok THEN "gone" ELSE "left"
    /\ forks' = IF session' = "gone" THEN Without(forks, DOMAIN forks) ELSE forks
    /\ UNCHANGED <<plan, saved, current, searchVars, restored, failed, exported,
                   summary, code, benchVars>>

Next ==
    \/ Build
    \/ \E left \in {"none", "open", "left"} : BuildFails(left)
    \/ \E mkdir, copied, ran \in BOOLEAN : Prepare(mkdir, copied, ran)
    \/ \E missing \in SUBSET Candidates : ForkBatch(missing)
    \/ \E c \in DOMAIN worker, ok, done \in BOOLEAN : Run(c, ok, done)
    \/ \E c \in DOMAIN worker : NotFound(c) \/ RecordCount(c) \/ RecordEnter(c)
    \/ Score
    \/ \E stuck \in SUBSET DOMAIN worker : DiscardRest(stuck)
    \/ Decide
    \/ \E done, ok \in BOOLEAN : WriteAlternate(done, ok)
    \/ \E ok, stuck \in BOOLEAN : RestoreWinner(ok, stuck)
    \/ \E ok \in BOOLEAN :
        \/ SealMain(ok) \/ SealWinner(ok) \/ ParkRunner(ok)
        \/ RestorePrepared(ok) \/ ForkAlternate(ok) \/ ParkCurrent(ok) \/ Revive(ok)
        \/ Export(ok) \/ WriteSummary(ok) \/ Destructor(ok)
    \/ \E answer \in {"ok", "refused", "raised"} : Cleanup(answer)
    \/ ReportStats
    \/ AnswerLost
    \/ Raise

\* The script is one thread and its pool: every call it makes returns.
Spec == Init /\ [][Next]_vars
FairSpec == Spec /\ WF_vars(Next)

-----------------------------------------------------------------------------
(* Properties. *)

Ids == 1 .. Len(saved)

\* When no call fails no assertion does, whatever the arguments: the script is
\* usable as a regression test (its head comment, lines 16 to 20).
NoFalseAlarm == faults = 0 => failed = {}

\* What an exit code of 0 lets one conclude, although some of the calls may
\* have failed: every generation has a winner whose checkpoint continues the
\* one before it, the exported workspace is the last winner's with the files
\* copied in at the start and every candidate is counted once in the statistics.
\* A session that was not to be kept is gone; one that was may be left only in
\* the hands of the manager's destructor, or because that could not remove it.
SearchDone ==
    /\ Len(gens) = plan.generations
    /\ \A g \in DOMAIN gens :
        LET s == saved[gens[g].checkpoint]
        IN /\ gens[g].checkpoint \in Ids
           /\ s.at.by = gens[g].winner
           /\ s.at.value = gens[g].value
           /\ s.parent = IF g = 1 THEN prepared ELSE gens[g - 1].checkpoint
    /\ exported = saved[Last.checkpoint].at
    /\ exported.files
    /\ current = Main
    /\ summary = plan.fanout * plan.generations
    /\ session \in IF plan.keep THEN {"open", "gone", "left"} ELSE {"gone"}

ExitZeroMeansDone == code = "zero" => SearchDone

\* Whatever fails, a winner whose checkpoint is the next frontier stays live
\* with what was sealed, while its descendants run, losers are discarded and
\* the backtracking restores and destroys forks (lines 261-263, 348-350).
WinnersSurvive ==
    session = "live" =>
        \A g \in DOMAIN gens : gens[g].checkpoint # 0 =>
            /\ gens[g].winner \in DOMAIN forks
            /\ forks[gens[g].winner].at = saved[gens[g].checkpoint].at

\* As long as the target is ahead and every candidate scores, a generation
\* comes nearer to it and never runs past it (the step of lines 198 to 202).
ProgressTowardsTarget ==
    failed = {} =>
        \A g \in DOMAIN gens :
            LET v == IF g = 1 THEN 0 ELSE gens[g - 1].value
            IN v < plan.target => v < gens[g].value /\ gens[g].value <= plan.target

\* The entries of candidates that run at the same time are numbered in the
\* order of the log, without a gap (benchmark.py, line 174).
EntriesInOrder == Stats!InSequence

\* The script always ends, and unless it was told to keep its session it never
\* exits with 0 while the session is up: a cleanup that was refused, raised or
\* was never reached shows in the exit code (lines 444 to 466, after the
\* destructor of base_env_manager.py, lines 84 to 88).
AlwaysSettles ==
    <>(/\ step = "done"
       /\ session \in {"none", "gone", "failed", "left"}
       /\ session = "gone" => DOMAIN forks = {}
       /\ session \in {"failed", "left"} =>
            plan.keep \/ code \in {"failures", "exception"})

\* A session that was to be kept is still there when the script is over (the
\* help of --keep-session, line 382: "skip cleanup").  False: the destructor
\* of the manager is not told, and removes it when main returns.
KeptSessionStays == step = "done" /\ plan.keep /\ code = "zero" => session # "gone"
=============================================================================
