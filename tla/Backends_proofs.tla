-------------------------- MODULE Backends_proofs --------------------------
(***************************************************************************)
(* Theorems about the life cycles of the sequential backends, for any set  *)
(* of backends and any number of snapshots.                                *)
(***************************************************************************)
EXTENDS Backends, TLAPS

\* Each place belongs to one kind of backend, and so do the odd states.
PlacesOfKinds ==
    /\ pc = "start" => kind \in Containers
    /\ pc = "launch" => kind = "criu"
    /\ pc \in {"create", "resume", "load"} => kind = "firecracker"
    /\ instance = "paused" => kind = "firecracker"
    /\ instance = "starting" => kind = "criu"

\* What is known in the middle of a call.
Midway ==
    /\ pc # "idle" => said.op = "none"
    /\ pc \in {"launch", "load"} => instance = "gone"
    /\ pc = "start" /\ ~failed => instance = "gone"
    /\ pc \in {"create", "resume"} => instance = "paused"
    /\ pc = "launch" => ~released \/ leaked

\* After a cleanup that could remove everything, nothing runs and no image is
\* there to start from.
NothingLeft == released /\ ~leaked => stored = {} /\ instance = "gone"

BackendsInv ==
    /\ TypeOK
    /\ PlacesOfKinds
    /\ Midway
    /\ NothingLeft
    /\ ContainerRestored
    /\ RestoreRecovers
    /\ NoPhantoms
    /\ EnvOnPosition

USE DEF Changed, States, Places, Silent, Answers, Says, AllKinds, Containers

\* A new environment is running, on its initial snapshot.
LEMMA InitBackends == Init => BackendsInv
<1> SUFFICES ASSUME Init PROVE BackendsInv
  OBVIOUS
<1>1. TypeOK
  <2>1. last \in 1 .. MaxSnapshots /\ 1 \in 1 .. last /\ {1, 0} \subseteq 0 .. last
    BY BackendsAssumption DEF Init
  <2>2. stored \subseteq 1 .. last /\ snapshots \subseteq 1 .. last
    BY <2>1 DEF Init
  <2>3. position \in 1 .. last /\ target \in 1 .. last /\ holds \in 0 .. last
    BY <2>1 DEF Init
  <2>4. kind \in Kinds /\ instance \in States /\ released \in BOOLEAN /\ leaked \in BOOLEAN
        /\ failed \in BOOLEAN /\ pc \in Places /\ said \in Answers
    BY DEF Init
  <2> QED
    BY <2>1, <2>2, <2>3, <2>4 DEF TypeOK
<1>2. PlacesOfKinds /\ Midway /\ NothingLeft
  BY DEF Init, PlacesOfKinds, Midway, NothingLeft
<1>3. ContainerRestored /\ RestoreRecovers /\ NoPhantoms
  BY DEF Init, ContainerRestored, RestoredUsable, RestoreRecovers, NoPhantoms
<1>4. EnvOnPosition
  BY DEF Init, EnvOnPosition
<1> QED
  BY <1>1, <1>2, <1>3, <1>4 DEF BackendsInv

\* The calls that take a snapshot.
LEMMA SnapshotSteps ==
    ASSUME BackendsInv,
           \/ Seal \/ SealFails \/ Pause \/ PauseFails \/ Create
           \/ CreateRefused \/ CreateUnseen \/ Resume \/ ResumeFails
    PROVE  BackendsInv'
<1> USE DEF BackendsInv, TypeOK, PlacesOfKinds, Midway, NothingLeft,
        ContainerRestored, RestoredUsable, RestoreRecovers, NoPhantoms,
        EnvOnPosition, Answer, MaySnapshot, NewId, Sealed, diskVars, envVars, lifeVars
<1>1. CASE Seal
  <2>0. /\ last' = last + 1 /\ last' \in 1 .. MaxSnapshots
        /\ \A i : i \in 1 .. last' <=> i \in 1 .. last \/ i = last + 1
    BY <1>1, BackendsAssumption DEF Seal
  <2>1. TypeOK'
    <3>1. stored' \subseteq 1 .. last' /\ snapshots' \subseteq 1 .. last'
      BY <1>1, <2>0 DEF Seal
    <3>2. position' \in 1 .. last' /\ target' \in 1 .. last' /\ holds' \in 0 .. last'
      BY <1>1, <2>0 DEF Seal
    <3>3. released' \in BOOLEAN /\ leaked' \in BOOLEAN /\ failed' \in BOOLEAN /\ said' \in Answers
      BY <1>1 DEF Seal
    <3> QED
      BY <1>1, <2>0, <3>1, <3>2, <3>3 DEF Seal
  <2>2. PlacesOfKinds' /\ Midway' /\ NothingLeft'
    BY <1>1 DEF Seal
  <2>3. ContainerRestored' /\ RestoreRecovers' /\ NoPhantoms' /\ EnvOnPosition'
    BY <1>1 DEF Seal
  <2> QED
    BY <2>1, <2>2, <2>3
<1>2. CASE SealFails
  BY <1>2, BackendsAssumption DEF SealFails
<1>3. CASE Pause
  <2>0. /\ last' = last + 1 /\ last' \in 1 .. MaxSnapshots
        /\ \A i : i \in 1 .. last' <=> i \in 1 .. last \/ i = last + 1
    BY <1>3, BackendsAssumption DEF Pause
  <2>1. TypeOK'
    <3>1. stored' \subseteq 1 .. last' /\ snapshots' \subseteq 1 .. last'
      BY <1>3, <2>0 DEF Pause
    <3>2. position' \in 1 .. last' /\ target' \in 1 .. last' /\ holds' \in 0 .. last'
      BY <1>3, <2>0 DEF Pause
    <3>3. released' \in BOOLEAN /\ leaked' \in BOOLEAN /\ failed' \in BOOLEAN /\ said' \in Answers
      BY <1>3 DEF Pause
    <3> QED
      BY <1>3, <2>0, <3>1, <3>2, <3>3 DEF Pause
  <2>2. PlacesOfKinds' /\ Midway' /\ NothingLeft'
    BY <1>3 DEF Pause
  <2>3. ContainerRestored' /\ RestoreRecovers' /\ NoPhantoms' /\ EnvOnPosition'
    BY <1>3 DEF Pause
  <2> QED
    BY <2>1, <2>2, <2>3
<1>4. CASE PauseFails
  BY <1>4, BackendsAssumption DEF PauseFails
<1>5. CASE Create
  BY <1>5 DEF Create
<1>6. CASE CreateRefused
  BY <1>6 DEF CreateRefused
<1>7. CASE CreateUnseen
  BY <1>7 DEF CreateUnseen
<1>8. CASE Resume
  <2>1. TypeOK'
    <3>1. target \in 1 .. last /\ last' = last /\ 1 .. last \subseteq 0 .. last
      BY <1>8 DEF Resume
    <3>2. stored' \subseteq 1 .. last' /\ snapshots' \subseteq 1 .. last'
      BY <1>8, <3>1 DEF Resume
    <3>3. position' \in 1 .. last' /\ target' \in 1 .. last' /\ holds' \in 0 .. last'
      BY <1>8, <3>1 DEF Resume
    <3>4. released' \in BOOLEAN /\ leaked' \in BOOLEAN /\ failed' \in BOOLEAN /\ said' \in Answers
      BY <1>8 DEF Resume
    <3> QED
      BY <1>8, <3>1, <3>2, <3>3, <3>4 DEF Resume
  <2>2. PlacesOfKinds' /\ Midway' /\ NothingLeft'
    BY <1>8 DEF Resume
  <2>3. ContainerRestored' /\ RestoreRecovers' /\ NoPhantoms' /\ EnvOnPosition'
    BY <1>8 DEF Resume
  <2> QED
    BY <2>1, <2>2, <2>3
<1>9. CASE ResumeFails
  BY <1>9 DEF ResumeFails
<1> QED
  BY <1>1, <1>2, <1>3, <1>4, <1>5, <1>6, <1>7, <1>8, <1>9

\* The first steps of a restore.
LEMMA RestoreBegins ==
    ASSUME BackendsInv, NEW s \in snapshots,
           \/ Teardown(s) \/ TeardownFails(s)
           \/ Kill(s) \/ KillTimesOut(s) \/ NoSuchProcess(s)
           \/ Reboot(s) \/ Unreachable(s)
    PROVE  BackendsInv'
<1> USE DEF BackendsInv, TypeOK, PlacesOfKinds, Midway, NothingLeft,
        ContainerRestored, RestoredUsable, RestoreRecovers, NoPhantoms,
        EnvOnPosition, Answer, MayRestore, Enters, RestoreRaises, diskVars, lifeVars
<1>1. CASE Teardown(s)
  BY <1>1 DEF Teardown
<1>2. CASE TeardownFails(s)
  BY <1>2 DEF TeardownFails
<1>3. CASE Kill(s)
  BY <1>3 DEF Kill
<1>4. CASE KillTimesOut(s)
  BY <1>4 DEF KillTimesOut
<1>5. CASE NoSuchProcess(s)
  BY <1>5 DEF NoSuchProcess
<1>6. CASE Reboot(s)
  BY <1>6 DEF Reboot
<1>7. CASE Unreachable(s)
  BY <1>7 DEF Unreachable
<1> QED
  BY <1>1, <1>2, <1>3, <1>4, <1>5, <1>6, <1>7

\* The steps that end one, and the process that comes up by itself.
LEMMA RestoreEnds ==
    ASSUME BackendsInv,
           \/ Start \/ StartFails \/ StartNothing \/ Launch \/ Arrive
           \/ Load \/ LoadRefused \/ LoadUnseen
    PROVE  BackendsInv'
<1> USE DEF BackendsInv, TypeOK, PlacesOfKinds, Midway, NothingLeft,
        ContainerRestored, RestoredUsable, RestoreRecovers, NoPhantoms,
        EnvOnPosition, Answer, Restored, diskVars, envVars, lifeVars
<1>1. CASE Start
  BY <1>1 DEF Start
<1>2. CASE StartFails
  BY <1>2 DEF StartFails
<1>3. CASE Launch
  BY <1>3 DEF Launch
<1>4. CASE Arrive
  BY <1>4 DEF Arrive
<1>5. CASE Load
  BY <1>5 DEF Load
<1>6. CASE LoadRefused
  BY <1>6 DEF LoadRefused
<1>7. CASE LoadUnseen
  BY <1>7 DEF LoadUnseen
<1>8. CASE StartNothing
  BY <1>8 DEF StartNothing
<1> QED
  BY <1>1, <1>2, <1>3, <1>4, <1>5, <1>6, <1>7, <1>8

\* Steps that end no restore: an execution, the cleanups, and stuttering.
LEMMA OtherSteps ==
    ASSUME BackendsInv,
           \/ Exec \/ CleanupContainer \/ CleanupContainerFails
           \/ CleanupProcess \/ CleanupRaises
           \/ CleanupMachine \/ CleanupMachineFails
           \/ UNCHANGED vars
    PROVE  BackendsInv'
<1> USE DEF BackendsInv, TypeOK, PlacesOfKinds, Midway, NothingLeft,
        ContainerRestored, RestoredUsable, RestoreRecovers, NoPhantoms,
        EnvOnPosition, Answer, Cleaned, Forgets, diskVars, lifeVars
<1>1. CASE Exec
  BY <1>1 DEF Exec
<1>2. CASE CleanupContainer
  BY <1>2 DEF CleanupContainer
<1>3. CASE CleanupProcess
  BY <1>3 DEF CleanupProcess
<1>4. CASE CleanupMachine
  BY <1>4 DEF CleanupMachine
<1>5. CASE UNCHANGED vars
  BY <1>5 DEF vars
<1>6. CASE CleanupContainerFails
  BY <1>6 DEF CleanupContainerFails
<1>7. CASE CleanupRaises
  BY <1>7 DEF CleanupRaises
<1>8. CASE CleanupMachineFails
  BY <1>8 DEF CleanupMachineFails
<1> QED
  BY <1>1, <1>2, <1>3, <1>4, <1>5, <1>6, <1>7, <1>8

\* One group of steps per operation.
LEMMA BackendsStep == BackendsInv /\ [Next]_vars => BackendsInv'
  BY SnapshotSteps, RestoreBegins, RestoreEnds, OtherSteps DEF Next

\* The inductive invariant of the five life cycles: it says in which state of
\* the environment each hook may be interrupted by a failure.
THEOREM BackendsInvariant == Spec => []BackendsInv
  BY InitBackends, BackendsStep, PTL DEF Spec

\* The records hold snapshots that have been taken, and a call is at one of its places.
THEOREM TypesCorrect == Spec => []TypeOK
<1>1. BackendsInv => TypeOK
  BY DEF BackendsInv
<1> QED
  BY <1>1, BackendsInvariant, PTL

\* A container backend that says it has restored a snapshot has done so.
THEOREM ContainersRestore == Spec => []ContainerRestored
<1>1. BackendsInv => ContainerRestored
  BY DEF BackendsInv
<1> QED
  BY <1>1, BackendsInvariant, PTL

\* Over a container backend a failure of one restore does not make the next
\* one fail.
THEOREM FailuresAreNotFinal == Spec => []RestoreRecovers
<1>1. BackendsInv => RestoreRecovers
  BY DEF BackendsInv
<1> QED
  BY <1>1, BackendsInvariant, PTL

\* A registered snapshot has its image, except over Firecracker and after a
\* cleanup that failed.
THEOREM ImagesExist == Spec => []NoPhantoms
<1>1. BackendsInv => NoPhantoms
  BY DEF BackendsInv
<1> QED
  BY <1>1, BackendsInvariant, PTL

\* Except over gVisor, and whatever fails: the environment that is there is the
\* one the branch position names, or goes on from it.
THEOREM EnvironmentAtPosition == Spec => []EnvOnPosition
<1>1. BackendsInv => EnvOnPosition
  BY DEF BackendsInv
<1> QED
  BY <1>1, BackendsInvariant, PTL

\* A manager that is cleaned up has left nothing, unless it could not remove it.
THEOREM CleanupReleases == Spec => []ReleasedMeansGone
<1>1. BackendsInv => ReleasedMeansGone
  BY DEF BackendsInv, NothingLeft, ReleasedMeansGone
<1> QED
  BY <1>1, BackendsInvariant, PTL
=============================================================================
