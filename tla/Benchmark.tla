----------------------------- MODULE Benchmark -----------------------------
(***************************************************************************)
(* The records of a manager, BenchmarkStats in controller/benchmark.py:    *)
(* threads add entries to one log, under one lock, while others copy it.   *)
(* An entry is its sequence number: what it measures decides nothing.      *)
(***************************************************************************)
EXTENDS Integers, Sequences

CONSTANT Nobody

VARIABLES
    lock,       \* holder of _lock
    counter,    \* sequence_counter
    log         \* the sequence number of each entry

benchVars == <<lock, counter, log>>

InitBench ==
    /\ lock = Nobody
    /\ counter = 0
    /\ log = << >>

\* Mutant: the number is drawn before the lock is taken.
CountUnlocked(r) ==
    /\ counter' = counter + 1
    /\ UNCHANGED <<lock, log>>

\* The two statements of add_entry: the lock is held from one to the other.
Count(r) ==
    /\ lock = Nobody
    /\ lock' = r
    /\ counter' = counter + 1
    /\ UNCHANGED log

Enter(r) ==
    /\ log' = Append(log, counter)
    /\ lock' = Nobody
    /\ UNCHANGED counter

\* print_stats, print_history and get_all_statistics read a copy of the log.
Read(copy) ==
    /\ lock = Nobody
    /\ copy = log

\* Sequence numbers are unique, without gaps, and in the order of the log.
InSequence == \A i \in 1 .. Len(log) : log[i] = i
=============================================================================
