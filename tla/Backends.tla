------------------------------ MODULE Backends ------------------------------
(***************************************************************************)
(* The life cycle of the environment behind each sequential backend: a     *)
(* container (Docker or Podman), a Podman container with CRIU exports      *)
(* (hybrid), a gVisor container, a process under CRIU, a Firecracker       *)
(* machine.  The hooks _core_snapshot, _core_restore and _core_cleanup are *)
(* split at the calls of external programs, and composed with what the     *)
(* templates of EnvironmentManager do with their results.  A snapshot is   *)
(* physical here; virtual ones touch no backend.                           *)
(*                                                                         *)
(* External programs are modelled by the answers that the hooks tell       *)
(* apart.  A hook that raises ends the call like one that returns False.   *)
(***************************************************************************)
EXTENDS Integers

CONSTANTS
    Kinds,          \* the backends to consider
    MaxSnapshots    \* bound: snapshots that are asked for

AllKinds == {"container", "hybrid", "gvisor", "criu", "firecracker"}

\* Backends whose restore removes the old container, then starts the new one
\* and waits for the answer.
Containers == {"container", "hybrid", "gvisor"}

ASSUME BackendsAssumption ==
    /\ Kinds \subseteq AllKinds
    /\ MaxSnapshots \in Nat \ {0}

VARIABLES
    kind,       \* the backend; it never changes
    instance,   \* the live container, process or machine
    holds,      \* the snapshot whose state it is in, or Changed
    stored,     \* snapshots whose image is complete on disk
    snapshots,  \* the dictionary snapshots
    position,   \* current_snapshot_id
    released,   \* is_cleaned_up
    last,       \* the id given out last
    leaked,     \* history: the last cleanup could not remove everything
    pc,         \* where the call in progress stands
    target,     \* its snapshot
    failed,     \* history: an external program has failed during the call
    said        \* what the last call answered

envVars == <<instance, holds>>
diskVars == <<stored, snapshots, last>>
lifeVars == <<released, leaked>>
vars == <<kind, instance, holds, stored, snapshots, position, released, last,
          leaked, pc, target, failed, said>>

Changed == 0
States == {"running", "paused", "starting", "gone"}
Places == {"idle", "create", "resume", "start", "launch", "load"}
Silent == [op |-> "none", ok |-> TRUE, clean |-> TRUE]
Says(op, ok) == [op |-> op, ok |-> ok, clean |-> ~failed']

\* An attach manager has taken its first snapshot; the container manager has
\* registered the base image instead, which the container may have left behind.
Init ==
    /\ kind \in Kinds
    /\ instance = "running"
    /\ holds \in IF kind = "container" THEN {1, Changed} ELSE {1}
    /\ stored = {1}
    /\ snapshots = {1}
    /\ position = 1
    /\ released = FALSE
    /\ leaked = FALSE
    /\ last = 1
    /\ pc = "idle"
    /\ target = 1
    /\ failed = FALSE
    /\ said = Silent

-----------------------------------------------------------------------------
\* A call answers and ends.
Answer(op, ok) ==
    /\ pc' = "idle"
    /\ said' = Says(op, ok)

\* A command in the running environment.
Exec ==
    /\ pc = "idle"
    /\ instance = "running"
    /\ holds' = Changed
    /\ said' = Silent
    /\ UNCHANGED <<kind, instance, diskVars, position, lifeVars, pc, target, failed>>

-----------------------------------------------------------------------------
(* snapshot.                                                               *)

NewId == last + 1
MaySnapshot == pc = "idle" /\ last < MaxSnapshots

\* The hook registers s, the template positions the branch on it.
Sealed(s) ==
    /\ snapshots' = snapshots \cup {s}
    /\ position' = s
    /\ holds' = s
    /\ released' = FALSE
    /\ UNCHANGED leaked
    /\ failed' = FALSE
    /\ Answer("snapshot", TRUE)

\* Mutant: the id is not a fresh one the next time.
SealReusesId ==
    /\ kind # "firecracker"
    /\ MaySnapshot
    /\ instance = "running"
    /\ stored' = stored \cup {NewId}
    /\ Sealed(NewId)
    /\ UNCHANGED <<kind, instance, last, target>>

\* commit, podman checkpoint, docker checkpoint or criu dump, in one answer.
Seal ==
    /\ kind # "firecracker"
    /\ MaySnapshot
    /\ instance = "running"
    /\ last' = NewId
    /\ stored' = stored \cup {NewId}
    /\ Sealed(NewId)
    /\ UNCHANGED <<kind, instance, target>>

\* Mutant: the resource is registered before the program has answered.
SealFailsRegistered ==
    /\ kind # "firecracker"
    /\ MaySnapshot
    /\ last' = NewId
    /\ snapshots' = snapshots \cup {NewId}
    /\ failed' = TRUE
    /\ Answer("snapshot", FALSE)
    /\ UNCHANGED <<kind, envVars, stored, position, lifeVars, target>>

SealFails ==
    /\ kind # "firecracker"
    /\ MaySnapshot
    /\ last' = NewId
    /\ failed' = TRUE
    /\ Answer("snapshot", FALSE)
    /\ UNCHANGED <<kind, envVars, stored, snapshots, position, lifeVars, target>>

\* Firecracker pauses the machine, writes the image and resumes it.  A machine
\* that is still paused may let itself be paused again.
Pause ==
    /\ kind = "firecracker"
    /\ MaySnapshot
    /\ instance \in {"running", "paused"}
    /\ last' = NewId
    /\ instance' = "paused"
    /\ pc' = "create"
    /\ target' = NewId
    /\ failed' = FALSE
    /\ said' = Silent
    /\ UNCHANGED <<kind, holds, stored, snapshots, position, lifeVars>>

PauseFails ==
    /\ kind = "firecracker"
    /\ MaySnapshot
    /\ last' = NewId
    /\ failed' = TRUE
    /\ Answer("snapshot", FALSE)
    /\ UNCHANGED <<kind, envVars, stored, snapshots, position, lifeVars, target>>

Create ==
    /\ pc = "create"
    /\ stored' = stored \cup {target}
    /\ pc' = "resume"
    /\ UNCHANGED <<kind, envVars, snapshots, last, position, lifeVars, target,
                   failed, said>>

\* The answer 400 ends the call; the machine stays paused.
CreateRefused ==
    /\ pc = "create"
    /\ failed' = TRUE
    /\ Answer("snapshot", FALSE)
    /\ UNCHANGED <<kind, envVars, diskVars, position, lifeVars, target>>

\* Any other answer, or none, is taken for a success.
CreateUnseen ==
    /\ pc = "create"
    /\ failed' = TRUE
    /\ pc' = "resume"
    /\ UNCHANGED <<kind, envVars, diskVars, position, lifeVars, target, said>>

Resume ==
    /\ pc = "resume"
    /\ instance' = "running"
    /\ Sealed(target)
    /\ UNCHANGED <<kind, stored, last, target>>

ResumeFails ==
    /\ pc = "resume"
    /\ failed' = TRUE
    /\ Answer("snapshot", FALSE)
    /\ UNCHANGED <<kind, envVars, diskVars, position, lifeVars, target>>

-----------------------------------------------------------------------------
(* restore of a registered snapshot.                                       *)

MayRestore(s) == pc = "idle" /\ s \in snapshots

\* The first step of the hook leads to the next one.
Enters(place, s) ==
    /\ pc' = place
    /\ target' = s
    /\ said' = Silent
    /\ UNCHANGED <<kind, holds, diskVars, position, lifeVars>>

\* The call ends without success, in its first step.
RestoreRaises(s) ==
    /\ target' = s
    /\ Answer("restore", FALSE)
    /\ UNCHANGED <<kind, holds, diskVars, position, lifeVars>>

\* The hook returned True, and the template positions the branch.
Restored ==
    /\ position' = target
    /\ Answer("restore", TRUE)
    /\ UNCHANGED <<kind, diskVars, lifeVars, target>>

\* Mutant: removing a container that is not there is an error.
TeardownChecked(s) ==
    /\ kind \in Containers
    /\ MayRestore(s)
    /\ failed' = FALSE
    /\ instance' = "gone"
    /\ IF instance = "gone" THEN RestoreRaises(s) ELSE Enters("start", s)

\* rm -f or stop: whether there was a container, and what the program
\* answers, is not looked at.
Teardown(s) ==
    /\ kind \in Containers
    /\ MayRestore(s)
    /\ failed' = FALSE
    /\ instance' = "gone"
    /\ Enters("start", s)

\* The old container cannot be removed, or stopped.
TeardownFails(s) ==
    /\ kind \in Containers
    /\ MayRestore(s)
    /\ instance = "running"
    /\ failed' = TRUE
    /\ UNCHANGED instance
    /\ Enters("start", s)

\* Mutant: the answer is not looked at.
StartUnchecked ==
    /\ pc = "start"
    /\ failed' = TRUE
    /\ UNCHANGED <<instance, holds>>
    /\ Restored

Start ==
    /\ pc = "start"
    /\ instance = "gone"
    /\ target \in stored
    /\ instance' = "running"
    /\ holds' = target
    /\ UNCHANGED failed
    /\ Restored

\* Mutant: the branch is positioned first.
StartFailsPositioned ==
    /\ pc = "start"
    /\ failed' = (failed \/ (instance = "gone" /\ target \in stored))
    /\ position' = target
    /\ Answer("restore", FALSE)
    /\ UNCHANGED <<kind, envVars, diskVars, lifeVars, target>>

\* The name is in use, the image is not there, or the program fails.
StartFails ==
    /\ pc = "start"
    /\ failed' = (failed \/ (instance = "gone" /\ target \in stored))
    /\ Answer("restore", FALSE)
    /\ UNCHANGED <<kind, envVars, diskVars, position, lifeVars, target>>

\* docker start has nothing to do for a container that has not stopped, and
\* says that all is well.
StartNothing ==
    /\ pc = "start"
    /\ kind = "gvisor"
    /\ instance = "running"
    /\ UNCHANGED <<instance, holds, failed>>
    /\ Restored

\* CRIU: the process is killed and waited for.
Kill(s) ==
    /\ kind = "criu"
    /\ MayRestore(s)
    /\ instance \in {"running", "starting"}
    /\ failed' = FALSE
    /\ instance' = "gone"
    /\ Enters("launch", s)

\* The wait of 10 ms raises, but the process is dying.
KillTimesOut(s) ==
    /\ kind = "criu"
    /\ MayRestore(s)
    /\ instance \in {"running", "starting"}
    /\ failed' = TRUE
    /\ instance' = "gone"
    /\ RestoreRaises(s)

\* psutil.Process raises when there is no process, or none yet.
NoSuchProcess(s) ==
    /\ kind = "criu"
    /\ MayRestore(s)
    /\ instance \in {"gone", "starting"}
    /\ failed' = FALSE
    /\ UNCHANGED instance
    /\ RestoreRaises(s)

\* criu restore is started; nobody waits for it.
Launch ==
    /\ pc = "launch"
    /\ instance' = "starting"
    /\ holds' = target
    /\ UNCHANGED failed
    /\ Restored

\* It comes to an end, at any time, and nobody looks at its answer.
Arrive ==
    /\ instance = "starting"
    /\ \/ holds \in stored /\ instance' = "running"
       \/ instance' = "gone"
    /\ UNCHANGED <<kind, holds, diskVars, position, lifeVars, pc, target, failed, said>>

\* Firecracker: the machine is asked over ssh to reboot, and goes away.
Reboot(s) ==
    /\ kind = "firecracker"
    /\ MayRestore(s)
    /\ instance = "running"
    /\ failed' = FALSE
    /\ instance' = "gone"
    /\ Enters("load", s)

\* A machine that is not running, or that ssh does not reach.
Unreachable(s) ==
    /\ kind = "firecracker"
    /\ MayRestore(s)
    /\ failed' = (instance = "running")
    /\ UNCHANGED instance
    /\ RestoreRaises(s)

Load ==
    /\ pc = "load"
    /\ target \in stored
    /\ instance' = "running"
    /\ holds' = target
    /\ UNCHANGED failed
    /\ Restored

LoadRefused ==
    /\ pc = "load"
    /\ failed' = (target \in stored)
    /\ Answer("restore", FALSE)
    /\ UNCHANGED <<kind, envVars, diskVars, position, lifeVars, target>>

\* An answer that is not 400, or none when the socket is not there yet.
LoadUnseen ==
    /\ pc = "load"
    /\ failed' = TRUE
    /\ UNCHANGED envVars
    /\ Restored

-----------------------------------------------------------------------------
(* cleanup, called by a client or by the destructor.                       *)

\* Whether the programs that remove things did so is not looked at.
Cleaned(all) ==
    /\ pc = "idle"
    /\ released' = TRUE
    /\ leaked' = ~all
    /\ failed' = ~all
    /\ Answer("cleanup", TRUE)
    /\ UNCHANGED <<kind, holds, position, last, target>>

\* Only the container manager forgets the resources.
Forgets == snapshots' = IF kind = "container" THEN {} ELSE snapshots

\* Mutant: the images stay.
CleanupKeepsImages ==
    /\ kind \in Containers
    /\ instance' = "gone"
    /\ UNCHANGED stored
    /\ Forgets
    /\ Cleaned(TRUE)

CleanupContainer ==
    /\ kind \in Containers
    /\ instance' = "gone"
    /\ stored' = {}
    /\ Forgets
    /\ Cleaned(TRUE)

\* The container stays, and some of the images.
CleanupContainerFails ==
    /\ kind \in Containers
    /\ UNCHANGED instance
    /\ stored' \in SUBSET stored
    /\ Forgets
    /\ Cleaned(FALSE)

\* A process that has not come up yet may be missed.
CleanupProcess ==
    /\ kind = "criu"
    /\ instance' \in IF instance = "starting"
                     THEN {"starting", "running", "gone"}
                     ELSE {"gone"}
    /\ stored' = {}
    /\ UNCHANGED snapshots
    /\ Cleaned(instance # "starting")

\* The wait for the killed process raises.
CleanupRaises ==
    /\ kind = "criu"
    /\ pc = "idle"
    /\ instance \in {"running", "starting"}
    /\ instance' = "gone"
    /\ failed' = TRUE
    /\ Answer("cleanup", FALSE)
    /\ UNCHANGED <<kind, holds, diskVars, position, lifeVars, target>>

CleanupMachine ==
    /\ kind = "firecracker"
    /\ instance = "running"
    /\ instance' = "gone"
    /\ stored' = {}
    /\ UNCHANGED snapshots
    /\ Cleaned(TRUE)

\* ssh does not reach the machine, or a program fails after the reboot.  The
\* exception is caught, and the hook returns None, which is not False.
CleanupMachineFails ==
    /\ kind = "firecracker"
    /\ instance' \in IF instance = "running" THEN {"running", "gone"} ELSE {instance}
    /\ UNCHANGED <<stored, snapshots>>
    /\ Cleaned(FALSE)

-----------------------------------------------------------------------------
Next ==
    \/ Exec
    \/ Seal \/ SealFails
    \/ Pause \/ PauseFails
    \/ Create \/ CreateRefused \/ CreateUnseen
    \/ Resume \/ ResumeFails
    \/ \E s \in snapshots :
          \/ Teardown(s) \/ TeardownFails(s)
          \/ Kill(s) \/ KillTimesOut(s) \/ NoSuchProcess(s)
          \/ Reboot(s) \/ Unreachable(s)
    \/ Start \/ StartFails \/ StartNothing
    \/ Launch \/ Arrive
    \/ Load \/ LoadRefused \/ LoadUnseen
    \/ CleanupContainer \/ CleanupContainerFails
    \/ CleanupProcess \/ CleanupRaises
    \/ CleanupMachine \/ CleanupMachineFails

Spec == Init /\ [][Next]_vars

-----------------------------------------------------------------------------
(* Properties.                                                             *)

Answers == [op : {"none", "snapshot", "restore", "cleanup"},
            ok : BOOLEAN, clean : BOOLEAN]

\* The one type invariant of the module; ids are given out once.
TypeOK ==
    /\ kind \in Kinds
    /\ instance \in States
    /\ last \in 1 .. MaxSnapshots
    /\ stored \subseteq 1 .. last
    /\ snapshots \subseteq 1 .. last
    /\ {position, target} \subseteq 1 .. last
    /\ holds \in 0 .. last
    /\ {released, leaked, failed} \subseteq BOOLEAN
    /\ pc \in Places
    /\ said \in Answers

\* "Return (True, elapsed_seconds) only when subsequent commands can execute
\* against the restored state" (base_env_manager.py:397-398).
RestoredUsable ==
    said.op = "restore" /\ said.ok => instance = "running" /\ holds = target

\* Where a new container takes the old one's name, that promise is kept although
\* nobody looks at whether the old one has been removed.
ContainerRestored == kind \in {"container", "hybrid"} => RestoredUsable

\* A failure is not final: over the containers, a restore during which nothing
\* fails succeeds, whatever earlier restores have left behind.
RestoreRecovers ==
    kind \in Containers /\ said.op = "restore" /\ said.clean /\ target \in stored
        => said.ok

\* Every registered snapshot has its image, unless Firecracker takes it or a
\* cleanup has failed over a container, which then can be snapshotted again.
NoPhantoms ==
    kind # "firecracker" /\ ~released /\ ~leaked => snapshots \subseteq stored

\* Whatever fails, and in whatever order: an environment that is there is at
\* the branch position, or was taken on from it by commands.  No failed restore
\* leaves another snapshot's state, to be recorded under it by the next one.
\* gVisor is left out for StartNothing.
EnvOnPosition ==
    kind # "gvisor" /\ instance # "gone" => holds \in {position, Changed}

\* When everything could be removed, is_cleaned_up, which keeps the destructor
\* from cleaning up again, stays set only as long as nothing is left: nothing
\* comes back to life without resetting it.
ReleasedMeansGone == released /\ ~leaked => instance = "gone" /\ stored = {}
=============================================================================
