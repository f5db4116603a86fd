--------------------------- MODULE SnapshotStore ---------------------------
(***************************************************************************)
(* What a client of EnvironmentManager may rely on: an environment whose   *)
(* content is the sequence of commands that shaped it, and a growing list  *)
(* of immutable saved contents.  A snapshot saves the content, a restore   *)
(* brings a saved content back, in one step each; whether a snapshot is    *)
(* physical or virtual is invisible here.                                  *)
(***************************************************************************)
EXTENDS Naturals, Sequences

CONSTANT Command

VARIABLES
    content,    \* the content of the live environment
    saved       \* saved[s] is the content that snapshot s brings back

vars == <<content, saved>>

\* The manager is handed over with one snapshot, of the initial environment.
Init ==
    /\ content = << >>
    /\ saved = << << >> >>

Exec(c) ==
    /\ content' = Append(content, c)
    /\ UNCHANGED saved

Snapshot ==
    /\ saved' = Append(saved, content)
    /\ UNCHANGED content

Restore(s) ==
    /\ content' = saved[s]
    /\ UNCHANGED saved

Next ==
    \/ \E c \in Command : Exec(c)
    \/ Snapshot
    \/ \E s \in DOMAIN saved : Restore(s)

Spec == Init /\ [][Next]_vars
=============================================================================
