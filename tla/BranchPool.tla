----------------------------- MODULE BranchPool -----------------------------
(***************************************************************************)
(* What the clients of one ForkableEnvironmentManager may rely on, however *)
(* their calls overlap: a pool of live branches, each based on a           *)
(* checkpoint, and one branch that is current.  Each of the calls that     *)
(* change the pool takes effect in one step; a restore also lets the       *)
(* branch it departs from be discarded, which may fail.                    *)
(***************************************************************************)
EXTENDS Integers

CONSTANTS
    Branch,     \* branch identifiers
    Main,       \* DEFAULT_BRANCH_ID
    Checkpoint  \* identities of checkpoints

VARIABLES
    pool,       \* live branch -> the checkpoint it is based on
    lineage,    \* checkpoint -> the one its branch was based on when it was made
    current     \* the branch of snapshot, exec_command and restore

vars == <<pool, lineage, current>>

Extended(f, keys, v) ==
    [x \in DOMAIN f \cup keys |-> IF x \in keys THEN v ELSE f[x]]
Without(f, keys) == [x \in DOMAIN f \ keys |-> f[x]]

\* The session has been built, and sealed once.
Init ==
    /\ pool = [b \in {Main} |-> 1]
    /\ lineage = [s \in {1} |-> 0]
    /\ current = Main

\* snapshot, snapshot_branch: b goes on from a new checkpoint.
Seal(b) ==
    \E s \in Checkpoint \ DOMAIN lineage :
        /\ lineage' = Extended(lineage, {s}, pool[b])
        /\ pool' = Extended(pool, {b}, s)
        /\ UNCHANGED current

\* fork: new branches, all at once, and the current one stays.  A fork or a restore
\* whose backend's answer is not understood may leave branches behind likewise.
Fork(s, new) ==
    /\ Main \in DOMAIN pool
    /\ new # {}
    /\ pool' = Extended(pool, new, s)
    /\ UNCHANGED <<lineage, current>>

\* restore: the current branch is a new one, based on the target.
Restore(s, b) ==
    /\ Main \in DOMAIN pool
    /\ pool' = Extended(pool, {b}, s)
    /\ current' = b
    /\ UNCHANGED lineage

Discard(b) ==
    /\ b \notin {Main, current}
    /\ pool' = Without(pool, {b})
    /\ UNCHANGED <<lineage, current>>

\* park_branch: b is sealed and gone; a current one gives way to main.
Park(b) ==
    /\ b # Main
    /\ \E s \in Checkpoint \ DOMAIN lineage : lineage' = Extended(lineage, {s}, pool[b])
    /\ pool' = Without(pool, {b})
    /\ current' = IF current = b THEN Main ELSE current

\* cleanup: nothing is left to be current, and nothing comes back.
CleanUp ==
    /\ pool' = Without(pool, DOMAIN pool)
    /\ current' = Main
    /\ UNCHANGED lineage

Next ==
    \/ \E b \in DOMAIN pool : Seal(b) \/ Discard(b) \/ Park(b)
    \/ \E s \in DOMAIN lineage :
          \/ \E new \in SUBSET (Branch \ DOMAIN pool) : Fork(s, new)
          \/ \E b \in Branch \ DOMAIN pool : Restore(s, b)
    \/ CleanUp

Spec == Init /\ [][Next]_vars
=============================================================================
