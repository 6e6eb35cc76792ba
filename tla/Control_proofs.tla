--------------------------- MODULE Control_proofs ---------------------------
(***************************************************************************)
(* One lifecycle of the controller, proved for every volume and every      *)
(* number of failing calls: its report of a clean end is true, although a  *)
(* control child that was given up goes on by itself; what it publishes is *)
(* complete at every moment; and it fails only if something disturbs it.   *)
(***************************************************************************)
EXTENDS NameiExtControl, TLAPS

Steps ==
    {"start", "attach", "setup", "files", "register", "configure", "move", "publish", "send",
     "await", "evidence", "collect", "enter", "replay", "validate", "leave", "unmanaged", "stop",
     "stopping", "depart", "unpublish", "unconfigure", "destroy", "clear", "rmdir", "trees",
     "done", "killed"}
Errors == {"ok", "EIO", "ENOMEM", "EAGAIN", "ETIMEDOUT", "ESRCH", "EINVAL", "EPIPE", "EXDEV", "ECHILD",
           "EBUSY"}
Undoable == {"consumer", "policy", "cgroup", "targets", "maps", "generation", "managed"}
ChildSteps == {"none", "started", "inside", "writing", "exited", "failed", "dead"}

CtlType ==
    ctl \in [pc : Steps, ret : Errors, k : Nat, undo : SUBSET Undoable, cleanup : BOOLEAN,
             states : Nat, acks : Nat]
ChildType == child \in [Children -> [pc : ChildSteps, i : Nat, killed : BOOLEAN]]
PlaceType == home \in [Procs -> {"none", "root", "cgroup"}] /\ attached \in BOOLEAN
ControlTypes == CtlType /\ ChildType /\ PlaceType

\* From the end of setup_directories to the cleanup the cgroup is there.
Managing ==
    {"files", "register", "configure", "move", "publish", "send", "await", "evidence", "collect",
     "enter", "replay", "validate", "leave", "unmanaged"}

\* What was not set up is not there.
UndoInv ==
    /\ ctl.pc = "start" => ctl.undo = {}
    /\ "policy" \notin ctl.undo => ~attached
    /\ "cgroup" \notin ctl.undo => cgroup = "absent"
    /\ ctl.pc \in Managing => cgroup = "live"

\* A child that writes for the cgroup is inside it, killed or not, and a cgroup is
\* removed only when nobody is: so no write comes after its release.
InsideInv ==
    /\ \A c \in Children : child[c].pc \in {"inside", "writing"} => home[c] = "cgroup"
    /\ cgroup # "live" => \A p \in Procs : home[p] # "cgroup"
    /\ cgroup = "released" => targets = {}

\* How far a cleanup without an error has got.
CleanupInv ==
    /\ ctl.cleanup /\ ctl.pc \in {"clear", "rmdir", "trees", "done"} => ~attached
    /\ ctl.cleanup /\ ctl.pc \in {"trees", "done"} => cgroup # "live"
    /\ result # Nil => ctl.pc = "done" /\ result = [ret |-> ctl.ret, cleanup |-> ctl.cleanup]

\* The inductive invariant of what is left behind.
ControlInv == ControlTypes /\ UndoInv /\ InsideInv /\ CleanupInv

-----------------------------------------------------------------------------
(* Steps of the controller that only move it, or spoil its result.         *)

\* Indices of the loops stay numbers.
LEMMA Successor == \A m \in Nat : m + 1 \in Nat
OBVIOUS

\* The three ways on keep the type of the controller: the next step,
LEMMA GotoType ==
    ASSUME CtlType, NEW pc \in Steps, Goto(pc)
    PROVE  CtlType'
BY DEF CtlType, Goto

\* an error,
LEMMA FailsType ==
    ASSUME CtlType, NEW e \in Errors, Fails(e)
    PROVE  CtlType'
BY DEF CtlType, Fails, Steps

\* or an error noted while the unwinding goes on.
LEMMA SpoilsType ==
    ASSUME CtlType, NEW pc \in Steps, NEW e \in Errors, Spoils(pc, e)
    PROVE  CtlType'
BY DEF CtlType, Spoils

\* The way to the running volume.
LEMMA SetupKeeps ==
    ASSUME ControlInv,
           \/ StartConsumer \/ StartConsumerFails \/ LoadAttach \/ SetupDirectories \/ SetupFiles
           \/ ConfigureMaps
           \/ ConfigureFails \/ MoveConsumer \/ MoveFails \/ Publish
    PROVE  ControlInv'
<1>0. ControlTypes /\ UndoInv /\ InsideInv /\ CleanupInv
  BY DEF ControlInv
<1>1. CASE StartConsumer
  <2> USE DEF StartConsumer, ControlTypes, CtlType, ChildType, PlaceType, kernel
  <2>1. CtlType'
    BY <1>0, <1>1 DEF Steps, Errors, Undoable, Children
  <2>2. ChildType' /\ PlaceType'
    BY <1>0, <1>1 DEF ChildSteps, Procs, Children
  <2>3. UndoInv'
    BY <1>0, <1>1 DEF UndoInv, Managing, Children
  <2>4. InsideInv'
    BY <1>0, <1>1 DEF InsideInv, UndoInv, Managing, Procs, Children
  <2>5. CleanupInv'
    BY <1>0, <1>1 DEF CleanupInv, UndoInv, Children
  <2> QED  BY <2>1, <2>2, <2>3, <2>4, <2>5 DEF ControlInv
<1>2. CASE LoadAttach
  BY <1>2 DEF LoadAttach, ControlInv, ControlTypes, CtlType, ChildType, PlaceType, UndoInv,
     InsideInv, CleanupInv,
     Managing, kernel, Procs, Children, Steps, Errors, Undoable, ChildSteps
<1>3. CASE SetupDirectories
  BY <1>3 DEF SetupDirectories, ControlInv, ControlTypes, CtlType, ChildType, PlaceType, UndoInv,
     InsideInv, CleanupInv,
     Managing, kernel, Procs, Children, Steps, Errors, Undoable, ChildSteps
<1>4. CASE SetupFiles
  BY <1>4 DEF SetupFiles, ControlInv, ControlTypes, CtlType, ChildType, PlaceType, UndoInv,
     InsideInv, CleanupInv,
     Managing, kernel, Procs, Children, Steps, Errors, Undoable, ChildSteps
<1>5. CASE ConfigureMaps
  <2>1. CtlType'
    <3>1. PICK n \in Nat : n = IF ctl.k = 2 * Len(Entries) THEN 1 ELSE ctl.k + 1
      BY <1>0 DEF ControlTypes, CtlType
    <3>2. PICK pc \in {"move", "configure"} :
            pc = IF ctl.k = 2 * Len(Entries) THEN "move" ELSE "configure"
      BY Zenon
    <3>3. ctl' = [ctl EXCEPT !.undo = @ \cup {"maps"}, !.k = n, !.pc = pc]
      BY <1>5, <3>1, <3>2, Zenon DEF ConfigureMaps
    <3> QED  BY <1>0, <3>3 DEF ControlTypes, CtlType, Steps, Undoable
  <2> USE DEF ConfigureMaps, ControlTypes, CtlType, ChildType, PlaceType, kernel
  <2>2. ChildType' /\ PlaceType'
    BY <1>0, <1>5 DEF ChildSteps, Procs, Children
  <2>3. UndoInv'
    BY <1>0, <1>5 DEF UndoInv, Managing, Children
  <2>4. InsideInv'
    BY <1>0, <1>5 DEF InsideInv, UndoInv, Managing, Procs, Children
  <2>5. CleanupInv'
    BY <1>0, <1>5 DEF CleanupInv, UndoInv, Children
  <2> QED  BY <2>1, <2>2, <2>3, <2>4, <2>5 DEF ControlInv
<1>6. CASE ConfigureFails
  BY <1>6 DEF ConfigureFails, Fault, ControlInv, ControlTypes, CtlType, ChildType, PlaceType,
     UndoInv,
     InsideInv, CleanupInv,
     Managing, kernel, Procs, Children, Steps, Errors, Undoable, ChildSteps
<1>7. CASE MoveConsumer
  BY <1>7 DEF MoveConsumer, Goto, ControlInv, ControlTypes, CtlType, ChildType, PlaceType, UndoInv,
     InsideInv, CleanupInv,
     Managing, kernel, Procs, Children, Steps, Errors, Undoable, ChildSteps
<1>8. CASE MoveFails
  BY <1>8 DEF MoveFails, Fails, ControlInv, ControlTypes, CtlType, ChildType, PlaceType, UndoInv,
     InsideInv, CleanupInv,
     Managing, kernel, Procs, Children, Steps, Errors, Undoable, ChildSteps
<1>9. CASE Publish
  BY <1>9 DEF Publish, ControlInv, ControlTypes, CtlType, ChildType, PlaceType, UndoInv,
     InsideInv, CleanupInv,
     Managing, kernel, Procs, Children, Steps, Errors, Undoable, ChildSteps
<1>10. CASE StartConsumerFails
  <2> USE DEF StartConsumerFails, Fails, Fault, ControlTypes, CtlType, ChildType, PlaceType, kernel
  <2>1. CtlType'
    BY <1>0, <1>10 DEF Steps, Errors, Undoable, Children
  <2>2. ChildType' /\ PlaceType'
    BY <1>0, <1>10 DEF ChildSteps, Procs, Children
  <2>3. UndoInv'
    BY <1>0, <1>10 DEF UndoInv, Managing, Children
  <2>4. InsideInv'
    BY <1>0, <1>10 DEF InsideInv, UndoInv, Managing, Procs, Children
  <2>5. CleanupInv'
    BY <1>0, <1>10 DEF CleanupInv, UndoInv, Children
  <2> QED  BY <2>1, <2>2, <2>3, <2>4, <2>5 DEF ControlInv
<1> QED  BY <1>1, <1>2, <1>3, <1>4, <1>5, <1>6, <1>7, <1>8, <1>9, <1>10

\* States, evidence and the replay.
LEMMA RunKeeps ==
    ASSUME ControlInv,
           \/ Send \/ BrokenPipe \/ Await \/ AwaitFails \/ Enter \/ Replay \/ ReplayFails
           \/ Validate \/ Leave \/ LeaveFails \/ Unmanaged
    PROVE  ControlInv'
<1>0. ControlTypes /\ UndoInv /\ InsideInv /\ CleanupInv
  BY DEF ControlInv
<1>1. CASE Send
  BY <1>1 DEF Send, Goto, ControlInv, ControlTypes, CtlType, ChildType, PlaceType, UndoInv,
     InsideInv, CleanupInv,
     Managing, kernel, Procs, Children, Steps, Errors, Undoable, ChildSteps
<1>2. CASE BrokenPipe
  BY <1>2 DEF BrokenPipe, Goto, ControlInv, ControlTypes, CtlType, ChildType, PlaceType, UndoInv,
     InsideInv, CleanupInv,
     Managing, kernel, Procs, Children, Steps, Errors, Undoable, ChildSteps
<1>3. CASE Await
  <2>1. CtlType'
    <3>1. \/ ctl' = [ctl EXCEPT !.states = @ + 1, !.k = @ + 1, !.pc = "publish"]
          \/ ctl' = [ctl EXCEPT !.states = @ + 1, !.pc = "evidence"]
          \/ ctl' = [ctl EXCEPT !.acks = 4, !.pc = "enter", !.k = 1]
      BY <1>3 DEF Await
    <3>2. ctl.k + 1 \in Nat /\ ctl.states + 1 \in Nat
      BY <1>0 DEF ControlTypes, CtlType
    <3>3. PICK k, st \in Nat : k = ctl.k + 1 /\ st = ctl.states + 1
      BY <3>2
    <3>4. \/ ctl' = [ctl EXCEPT !.states = st, !.k = k, !.pc = "publish"]
          \/ ctl' = [ctl EXCEPT !.states = st, !.pc = "evidence"]
          \/ ctl' = [ctl EXCEPT !.acks = 4, !.pc = "enter", !.k = 1]
      BY <3>1, <3>3, Zenon
    <3>5. CtlType
      BY <1>0 DEF ControlTypes
    <3>6. CASE ctl' = [ctl EXCEPT !.states = st, !.k = k, !.pc = "publish"]
      BY ONLY <3>5, <3>6, k \in Nat, st \in Nat DEF CtlType, Steps
    <3>7. CASE ctl' = [ctl EXCEPT !.states = st, !.pc = "evidence"]
      BY ONLY <3>5, <3>7, st \in Nat DEF CtlType, Steps
    <3>8. CASE ctl' = [ctl EXCEPT !.acks = 4, !.pc = "enter", !.k = 1]
      BY ONLY <3>5, <3>8 DEF CtlType, Steps
    <3> QED  BY <3>4, <3>6, <3>7, <3>8
  <2> USE DEF Await, ControlTypes, CtlType, ChildType, PlaceType, kernel
  <2>2. ChildType' /\ PlaceType'
    BY <1>0, <1>3 DEF ChildSteps, Procs, Children
  <2>3. UndoInv'
    BY <1>0, <1>3 DEF UndoInv, Managing, Children
  <2>4. InsideInv'
    BY <1>0, <1>3 DEF InsideInv, UndoInv, Managing, Procs, Children
  <2>5. CleanupInv'
    BY <1>0, <1>3 DEF CleanupInv, UndoInv, Children
  <2> QED  BY <2>1, <2>2, <2>3, <2>4, <2>5 DEF ControlInv
<1>4. CASE AwaitFails
  BY <1>4 DEF AwaitFails, Fails, ControlInv, ControlTypes, CtlType, ChildType, PlaceType, UndoInv,
     InsideInv, CleanupInv,
     Managing, kernel, Procs, Children, Steps, Errors, Undoable, ChildSteps
<1>5. CASE Enter
  BY <1>5 DEF Enter, ControlInv, ControlTypes, CtlType, ChildType, PlaceType, UndoInv,
     InsideInv, CleanupInv,
     Managing, kernel, Procs, Children, Steps, Errors, Undoable, ChildSteps
<1>6. CASE Replay
  BY <1>6 DEF Replay, Goto, ControlInv, ControlTypes, CtlType, ChildType, PlaceType, UndoInv,
     InsideInv, CleanupInv,
     Managing, kernel, Procs, Children, Steps, Errors, Undoable, ChildSteps
<1>7. CASE ReplayFails
  BY <1>7 DEF ReplayFails, Fault, ControlInv, ControlTypes, CtlType, ChildType, PlaceType, UndoInv,
     InsideInv, CleanupInv,
     Managing, kernel, Procs, Children, Steps, Errors, Undoable, ChildSteps
<1>8. CASE Validate
  <2>1. CtlType'
    <3>1. \/ ctl' = [ctl EXCEPT !.pc = "leave", !.ret = "EXDEV"]
          \/ ctl' = [ctl EXCEPT !.pc = IF ctl.k = 4 THEN "leave" ELSE "replay",
                                !.k = IF @ = 4 THEN 1 ELSE @ + 1]
      BY <1>8, Zenon DEF Validate
    <3>2. PICK n \in Nat : n = IF ctl.k = 4 THEN 1 ELSE ctl.k + 1
      BY <1>0 DEF ControlTypes, CtlType
    <3>3. PICK pc \in {"leave", "replay"} : pc = IF ctl.k = 4 THEN "leave" ELSE "replay"
      BY Zenon
    <3>4. \/ ctl' = [ctl EXCEPT !.pc = "leave", !.ret = "EXDEV"]
          \/ ctl' = [ctl EXCEPT !.pc = pc, !.k = n]
      BY <3>1, <3>2, <3>3, Zenon
    <3> QED  BY <1>0, <3>4 DEF ControlTypes, CtlType, Steps, Errors
  <2> USE DEF Validate, ControlTypes, CtlType, ChildType, PlaceType, kernel
  <2>2. ChildType' /\ PlaceType'
    BY <1>0, <1>8 DEF ChildSteps, Procs, Children
  <2>3. UndoInv'
    BY <1>0, <1>8 DEF UndoInv, Managing, Children
  <2>4. InsideInv'
    BY <1>0, <1>8 DEF InsideInv, UndoInv, Managing, Procs, Children
  <2>5. CleanupInv'
    BY <1>0, <1>8 DEF CleanupInv, UndoInv, Children
  <2> QED  BY <2>1, <2>2, <2>3, <2>4, <2>5 DEF ControlInv
<1>9. CASE Leave
  BY <1>9 DEF Leave, ControlInv, ControlTypes, CtlType, ChildType, PlaceType, UndoInv,
     InsideInv, CleanupInv,
     Managing, kernel, Procs, Children, Steps, Errors, Undoable, ChildSteps
<1>10. CASE LeaveFails
  <2> USE DEF LeaveFails, Fault, ControlTypes, CtlType, ChildType, PlaceType, kernel
  <2>1. CtlType'
    BY <1>0, <1>10 DEF Steps, Errors, Undoable, Children
  <2>2. ChildType' /\ PlaceType'
    BY <1>0, <1>10 DEF ChildSteps, Procs, Children
  <2>3. UndoInv'
    BY <1>0, <1>10 DEF UndoInv, Managing, Children
  <2>4. InsideInv'
    BY <1>0, <1>10 DEF InsideInv, UndoInv, Managing, Procs, Children
  <2>5. CleanupInv'
    BY <1>0, <1>10 DEF CleanupInv, UndoInv, Children
  <2> QED  BY <2>1, <2>2, <2>3, <2>4, <2>5 DEF ControlInv
<1>11. CASE Unmanaged
  <2>1. CtlType'
    BY <1>0, <1>11, GotoType, FailsType DEF Unmanaged, ControlTypes, Steps, Errors
  <2> USE DEF Unmanaged, Goto, Fails, ControlTypes, CtlType, ChildType, PlaceType, kernel
  <2>2. ChildType' /\ PlaceType'
    BY <1>0, <1>11 DEF ChildSteps, Procs, Children
  <2>3. UndoInv'
    BY <1>0, <1>11 DEF UndoInv, Managing, Children
  <2>4. InsideInv'
    BY <1>0, <1>11 DEF InsideInv, UndoInv, Managing, Procs, Children
  <2>5. CleanupInv'
    BY <1>0, <1>11 DEF CleanupInv, UndoInv, Children
  <2> QED  BY <2>1, <2>2, <2>3, <2>4, <2>5 DEF ControlInv
<1> QED  BY <1>1, <1>2, <1>3, <1>4, <1>5, <1>6, <1>7, <1>8, <1>9, <1>10, <1>11

\* The cleanup.
LEMMA CleanupKeeps ==
    ASSUME ControlInv,
           \/ SkipStep \/ StopConsumer \/ ReapConsumer \/ Unpublish \/ Unconfigure
           \/ PolicyDestroy \/ RmdirCgroup \/ Report \/ ReleaseCgroup
    PROVE  ControlInv'
<1>0. ControlTypes /\ UndoInv /\ InsideInv /\ CleanupInv
  BY DEF ControlInv
<1>1. CASE SkipStep
  <2> USE DEF SkipStep, Skip, Goto, ControlTypes, CtlType, ChildType, PlaceType, kernel
  <2>1. CtlType'
    BY <1>0, <1>1 DEF Steps, Errors, Undoable, Children
  <2>2. ChildType' /\ PlaceType'
    BY <1>0, <1>1 DEF ChildSteps, Procs, Children
  <2>3. UndoInv'
    BY <1>0, <1>1 DEF UndoInv, Managing, Children
  <2>4. InsideInv'
    BY <1>0, <1>1 DEF InsideInv, UndoInv, Managing, Procs, Children
  <2>5. CleanupInv'
    BY <1>0, <1>1 DEF CleanupInv, UndoInv, Children
  <2> QED  BY <2>1, <2>2, <2>3, <2>4, <2>5 DEF ControlInv
<1>2. CASE StopConsumer
  BY <1>2 DEF StopConsumer, Goto, ControlInv, ControlTypes, CtlType, ChildType, PlaceType, UndoInv,
     InsideInv, CleanupInv,
     Managing, kernel, Procs, Children, Steps, Errors, Undoable, ChildSteps
<1>3. CASE ReapConsumer
  <2>1. CtlType'
    BY <1>0, <1>3, GotoType, SpoilsType DEF ReapConsumer, ControlTypes, Steps, Errors
  <2> USE DEF ReapConsumer, Goto, Spoils, ControlTypes, CtlType, ChildType, PlaceType, kernel
  <2>2. ChildType' /\ PlaceType'
    BY <1>0, <1>3 DEF ChildSteps, Procs, Children
  <2>3. UndoInv'
    BY <1>0, <1>3 DEF UndoInv, Managing, Children
  <2>4. InsideInv'
    BY <1>0, <1>3 DEF InsideInv, UndoInv, Managing, Procs, Children
  <2>5. CleanupInv'
    BY <1>0, <1>3 DEF CleanupInv, UndoInv, Children
  <2> QED  BY <2>1, <2>2, <2>3, <2>4, <2>5 DEF ControlInv
<1>4. CASE Unpublish
  <2>1. CtlType'
    BY <1>0, <1>4, GotoType, SpoilsType DEF Unpublish, ControlTypes, Steps, Errors
  <2> USE DEF Unpublish, Goto, Spoils, Fault, ControlTypes, CtlType, ChildType, PlaceType, kernel
  <2>2. ChildType' /\ PlaceType'
    BY <1>0, <1>4 DEF ChildSteps, Procs, Children
  <2>3. UndoInv'
    BY <1>0, <1>4 DEF UndoInv, Managing, Children
  <2>4. InsideInv'
    BY <1>0, <1>4 DEF InsideInv, UndoInv, Managing, Procs, Children
  <2>5. CleanupInv'
    BY <1>0, <1>4 DEF CleanupInv, UndoInv, Children
  <2> QED  BY <2>1, <2>2, <2>3, <2>4, <2>5 DEF ControlInv
<1>5. CASE Unconfigure
  <2>1. CtlType'
    BY <1>0, <1>5, GotoType, SpoilsType DEF Unconfigure, ControlTypes, Steps, Errors
  <2> USE DEF Unconfigure, Goto, Spoils, Fault, ControlTypes, CtlType, ChildType, PlaceType, kernel
  <2>2. ChildType' /\ PlaceType'
    BY <1>0, <1>5 DEF ChildSteps, Procs, Children
  <2>3. UndoInv'
    BY <1>0, <1>5 DEF UndoInv, Managing, Children
  <2>4. InsideInv'
    BY <1>0, <1>5 DEF InsideInv, UndoInv, Managing, Procs, Children
  <2>5. CleanupInv'
    BY <1>0, <1>5 DEF CleanupInv, UndoInv, Children
  <2> QED  BY <2>1, <2>2, <2>3, <2>4, <2>5 DEF ControlInv
<1>6. CASE PolicyDestroy
  <2>1. CtlType'
    BY <1>0, <1>6, GotoType, SpoilsType DEF PolicyDestroy, ControlTypes, Steps, Errors
  <2> USE DEF PolicyDestroy, Goto, Spoils, Fault, ControlTypes, CtlType, ChildType, PlaceType,
     kernel
  <2>2. ChildType' /\ PlaceType'
    BY <1>0, <1>6 DEF ChildSteps, Procs, Children
  <2>3. UndoInv'
    BY <1>0, <1>6 DEF UndoInv, Managing, Children
  <2>4. InsideInv'
    BY <1>0, <1>6 DEF InsideInv, UndoInv, Managing, Procs, Children
  <2>5. CleanupInv'
    BY <1>0, <1>6 DEF CleanupInv, UndoInv, Children
  <2> QED  BY <2>1, <2>2, <2>3, <2>4, <2>5 DEF ControlInv
<1>7. CASE RmdirCgroup
  <2>1. CtlType'
    BY <1>0, <1>7, GotoType, SpoilsType DEF RmdirCgroup, ControlTypes, Steps, Errors
  <2> USE DEF RmdirCgroup, Goto, Spoils, ControlTypes, CtlType, ChildType, PlaceType, kernel
  <2>2. ChildType' /\ PlaceType'
    BY <1>0, <1>7 DEF ChildSteps, Procs, Children
  <2>3. UndoInv'
    BY <1>0, <1>7 DEF UndoInv, Managing, Children
  <2>4. InsideInv'
    BY <1>0, <1>7 DEF InsideInv, UndoInv, Managing, Procs, Children
  <2>5. CleanupInv'
    BY <1>0, <1>7 DEF CleanupInv, UndoInv, Children
  <2> QED  BY <2>1, <2>2, <2>3, <2>4, <2>5 DEF ControlInv
<1>8. CASE Report
  <2>1. CtlType'
    <3>1. Goto("done") \/ Spoils("done", "EBUSY")
      BY <1>8 DEF Report, Goto
    <3> QED  BY <1>0, <3>1, GotoType, SpoilsType DEF ControlTypes, Steps, Errors
  <2> USE DEF Report, Spoils, Fault, ControlTypes, CtlType, ChildType, PlaceType, kernel
  <2>2. ChildType' /\ PlaceType'
    BY <1>0, <1>8 DEF ChildSteps, Procs, Children
  <2>3. UndoInv'
    BY <1>0, <1>8 DEF UndoInv, Managing, Children
  <2>4. InsideInv'
    BY <1>0, <1>8 DEF InsideInv, UndoInv, Managing, Procs, Children
  <2>5. CleanupInv'
    BY <1>0, <1>8 DEF CleanupInv, UndoInv, Children
  <2> QED  BY <2>1, <2>2, <2>3, <2>4, <2>5 DEF ControlInv
<1>9. CASE ReleaseCgroup
  <2> USE DEF ReleaseCgroup, ControlTypes, CtlType, ChildType, PlaceType, kernel
  <2>1. CtlType'
    BY <1>0, <1>9 DEF Steps, Errors, Undoable, Children
  <2>2. ChildType' /\ PlaceType'
    BY <1>0, <1>9 DEF ChildSteps, Procs, Children
  <2>3. UndoInv'
    BY <1>0, <1>9 DEF UndoInv, Managing, Children
  <2>4. InsideInv'
    BY <1>0, <1>9 DEF InsideInv, UndoInv, Managing, Procs, Children
  <2>5. CleanupInv'
    BY <1>0, <1>9 DEF CleanupInv, UndoInv, Children
  <2> QED  BY <2>1, <2>2, <2>3, <2>4, <2>5 DEF ControlInv
<1> QED  BY <1>1, <1>2, <1>3, <1>4, <1>5, <1>6, <1>7, <1>8, <1>9

\* The consumer.
LEMMA ConsumerKeeps ==
    ASSUME ControlInv,
           ConsumerCheck \/ ConsumerPrint \/ ConsumerQuits \/ ConsumerKilled
    PROVE  ControlInv'
<1>0. ControlTypes /\ UndoInv /\ InsideInv /\ CleanupInv
  BY DEF ControlInv
<1>1. CASE ConsumerCheck
  <2> USE DEF ConsumerCheck, ConsumerDies, ControlTypes, CtlType, ChildType, PlaceType, kernel
  <2>1. CtlType'
    BY <1>0, <1>1 DEF Steps, Errors, Undoable, Children
  <2>2. ChildType' /\ PlaceType'
    BY <1>0, <1>1 DEF ChildSteps, Procs, Children
  <2>3. UndoInv'
    BY <1>0, <1>1 DEF UndoInv, Managing, Children
  <2>4. InsideInv'
    BY <1>0, <1>1 DEF InsideInv, UndoInv, Managing, Procs, Children
  <2>5. CleanupInv'
    BY <1>0, <1>1 DEF CleanupInv, UndoInv, Children
  <2> QED  BY <2>1, <2>2, <2>3, <2>4, <2>5 DEF ControlInv
<1>2. CASE ConsumerPrint
  <2> USE DEF ConsumerPrint, ControlTypes, CtlType, ChildType, PlaceType, kernel
  <2>1. CtlType'
    BY <1>0, <1>2 DEF Steps, Errors, Undoable, Children
  <2>2. ChildType' /\ PlaceType'
    BY <1>0, <1>2 DEF ChildSteps, Procs, Children
  <2>3. UndoInv'
    BY <1>0, <1>2 DEF UndoInv, Managing, Children
  <2>4. InsideInv'
    BY <1>0, <1>2 DEF InsideInv, UndoInv, Managing, Procs, Children
  <2>5. CleanupInv'
    BY <1>0, <1>2 DEF CleanupInv, UndoInv, Children
  <2> QED  BY <2>1, <2>2, <2>3, <2>4, <2>5 DEF ControlInv
<1>3. CASE ConsumerQuits
  <2> USE DEF ConsumerQuits, ConsumerDies, ControlTypes, CtlType, ChildType, PlaceType, kernel
  <2>1. CtlType'
    BY <1>0, <1>3
  <2>2. ChildType' /\ PlaceType'
    BY <1>0, <1>3
  <2>3. UndoInv'
    BY <1>0, <1>3 DEF UndoInv
  <2>4. InsideInv'
    BY <1>0, <1>3 DEF InsideInv, Procs, Children
  <2>5. CleanupInv'
    BY <1>0, <1>3 DEF CleanupInv
  <2> QED  BY <2>1, <2>2, <2>3, <2>4, <2>5 DEF ControlInv
<1>4. CASE ConsumerKilled
  <2> USE DEF ConsumerKilled, ConsumerDies, Fault, ControlTypes, CtlType, ChildType, PlaceType,
     kernel
  <2>1. CtlType'
    BY <1>0, <1>4 DEF Steps, Errors, Undoable, Children
  <2>2. ChildType' /\ PlaceType'
    BY <1>0, <1>4 DEF ChildSteps, Procs, Children
  <2>3. UndoInv'
    BY <1>0, <1>4 DEF UndoInv, Managing, Children
  <2>4. InsideInv'
    BY <1>0, <1>4 DEF InsideInv, UndoInv, Managing, Procs, Children
  <2>5. CleanupInv'
    BY <1>0, <1>4 DEF CleanupInv, UndoInv, Children
  <2> QED  BY <2>1, <2>2, <2>3, <2>4, <2>5 DEF ControlInv
<1> QED  BY <1>1, <1>2, <1>3, <1>4

\* What a write of a control child does to the child itself.
LEMMA WriteReturns ==
    ASSUME NEW c \in Children, ChildWriteEnd(c)
    PROVE  \E pc \in {"exited", "dead", "inside"}, i \in Nat :
                /\ child' = [child EXCEPT ![c].i = i, ![c].pc = pc]
                /\ home' = IF pc = "inside" THEN home ELSE [home EXCEPT ![c] = "none"]
                /\ pc = "dead" <=> child[c].killed
<1>1. PICK i \in Nat, last \in BOOLEAN : ChildReturns(c, i, last)
  <2>1. CASE c = "register"
    <3>1. PICK n \in Batch : ChildReturns(c, n, \A k \in Batch : k <= n)
      BY <2>1 DEF ChildWriteEnd
    <3>2. n \in Nat
      BY DEF Batch, Slots
    <3>3. (\A k \in Batch : k <= n) \in BOOLEAN
      OBVIOUS
    <3> QED  BY <3>1, <3>2, <3>3, Zenon
  <2>2. CASE c = "clear"
    BY <2>2 DEF ChildWriteEnd
  <2> QED  BY <2>1, <2>2 DEF Children
<1>2. PICK pc \in {"exited", "dead", "inside"} :
            /\ pc = IF child[c].killed THEN "dead" ELSE IF last THEN "exited" ELSE "inside"
            /\ pc = "dead" <=> child[c].killed
  OBVIOUS
<1> QED  BY <1>1, <1>2, Zenon DEF ChildReturns

\* A control child, and its parent's wait for it.
LEMMA ChildKeeps ==
    ASSUME ControlInv, NEW c \in Children,
           \/ \/ ChildMove(c) \/ ChildWriteBegin(c) \/ ChildWriteEnd(c) \/ ChildFails(c)
           \/ ChildDies(c)
           \/ ForkChild(c) \/ ForkFails(c) \/ WaitChild(c) \/ WaitTimesOut(c)
    PROVE  ControlInv'
<1>0. ControlTypes /\ UndoInv /\ InsideInv /\ CleanupInv
  BY DEF ControlInv
<1>1. CASE ChildMove(c)
  <2> USE DEF ChildMove, ChildBecomes, ControlTypes, CtlType, ChildType, PlaceType, kernel
  <2>1. CtlType'
    BY <1>0, <1>1 DEF Steps, Errors, Undoable, Children
  <2>2. ChildType' /\ PlaceType'
    BY <1>0, <1>1 DEF ChildSteps, Procs, Children
  <2>3. UndoInv'
    BY <1>0, <1>1 DEF UndoInv, Managing, Children
  <2>4. InsideInv'
    BY <1>0, <1>1 DEF InsideInv, UndoInv, Managing, Procs, Children
  <2>5. CleanupInv'
    BY <1>0, <1>1 DEF CleanupInv, UndoInv, Children
  <2> QED  BY <2>1, <2>2, <2>3, <2>4, <2>5 DEF ControlInv
<1>2. CASE ChildWriteBegin(c)
  <2> USE DEF ChildWriteBegin, ChildBecomes, ControlTypes, CtlType, ChildType, PlaceType, kernel
  <2>1. CtlType'
    BY <1>0, <1>2 DEF Steps, Errors, Undoable, Children
  <2>2. ChildType' /\ PlaceType'
    BY <1>0, <1>2 DEF ChildSteps, Procs, Children
  <2>3. UndoInv'
    BY <1>0, <1>2 DEF UndoInv, Managing, Children
  <2>4. InsideInv'
    BY <1>0, <1>2 DEF InsideInv, UndoInv, Managing, Procs, Children
  <2>5. CleanupInv'
    BY <1>0, <1>2 DEF CleanupInv, UndoInv, Children
  <2> QED  BY <2>1, <2>2, <2>3, <2>4, <2>5 DEF ControlInv
<1>3. CASE ChildWriteEnd(c)
  <2>1. PICK pc \in {"exited", "dead", "inside"}, i \in Nat :
            /\ child' = [child EXCEPT ![c].i = i, ![c].pc = pc]
            /\ home' = IF pc = "inside" THEN home ELSE [home EXCEPT ![c] = "none"]
    BY <1>3, WriteReturns
  <2>2. /\ child[c].pc = "writing" /\ (c = "clear" => targets' = {})
        /\ UNCHANGED <<ctl, consumer, cgroup, attached, views, generation, disturbed, result>>
    BY <1>3 DEF ChildWriteEnd
  <2> USE DEF ControlTypes, CtlType, ChildType, PlaceType
  <2>3. CtlType'
    BY <1>0, <2>2
  <2>4. ChildType'
    BY <1>0, <2>1 DEF ChildSteps
  <2>5. PlaceType'
    BY <1>0, <2>1, <2>2
  <2>6. UndoInv'
    BY <1>0, <2>2 DEF UndoInv
  <2>7. InsideInv'
    <3>1. c \in Procs /\ home[c] = "cgroup" /\ cgroup = "live"
      BY <1>0, <2>2 DEF InsideInv, Procs, Children
    <3>2. \A d \in Children : child'[d].pc \in {"inside", "writing"} => home'[d] = "cgroup"
      BY <1>0, <2>1, <3>1 DEF InsideInv, Procs, Children
    <3> QED  BY <2>2, <3>1, <3>2 DEF InsideInv
  <2>8. CleanupInv'
    BY <1>0, <2>2 DEF CleanupInv
  <2> QED  BY <2>3, <2>4, <2>5, <2>6, <2>7, <2>8 DEF ControlInv
<1>4. CASE ChildFails(c)
  <2> USE DEF ChildFails, ChildBecomes, Running, Fault, ControlTypes, CtlType, ChildType,
     PlaceType, kernel
  <2>1. CtlType'
    BY <1>0, <1>4 DEF Steps, Errors, Undoable, Children
  <2>2. ChildType' /\ PlaceType'
    BY <1>0, <1>4 DEF ChildSteps, Procs, Children
  <2>3. UndoInv'
    BY <1>0, <1>4 DEF UndoInv, Managing, Children
  <2>4. InsideInv'
    BY <1>0, <1>4 DEF InsideInv, UndoInv, Managing, Procs, Children
  <2>5. CleanupInv'
    BY <1>0, <1>4 DEF CleanupInv, UndoInv, Children
  <2> QED  BY <2>1, <2>2, <2>3, <2>4, <2>5 DEF ControlInv
<1>5. CASE ChildDies(c)
  <2> USE DEF ChildDies, ChildBecomes, Running, ControlTypes, CtlType, ChildType, PlaceType, kernel
  <2>1. CtlType'
    BY <1>0, <1>5 DEF Steps, Errors, Undoable, Children
  <2>2. ChildType' /\ PlaceType'
    BY <1>0, <1>5 DEF ChildSteps, Procs, Children
  <2>3. UndoInv'
    BY <1>0, <1>5 DEF UndoInv, Managing, Children
  <2>4. InsideInv'
    BY <1>0, <1>5 DEF InsideInv, UndoInv, Managing, Procs, Children
  <2>5. CleanupInv'
    BY <1>0, <1>5 DEF CleanupInv, UndoInv, Children
  <2> QED  BY <2>1, <2>2, <2>3, <2>4, <2>5 DEF ControlInv
<1>6. CASE ForkChild(c)
  <2> USE DEF ForkChild, ChildBecomes, ControlTypes, CtlType, ChildType, PlaceType, kernel
  <2>1. CtlType'
    BY <1>0, <1>6 DEF Steps, Errors, Undoable, Children
  <2>2. ChildType' /\ PlaceType'
    BY <1>0, <1>6 DEF ChildSteps, Procs, Children
  <2>3. UndoInv'
    BY <1>0, <1>6 DEF UndoInv, Managing, Children
  <2>4. InsideInv'
    BY <1>0, <1>6 DEF InsideInv, UndoInv, Managing, Procs, Children
  <2>5. CleanupInv'
    BY <1>0, <1>6 DEF CleanupInv, UndoInv, Children
  <2> QED  BY <2>1, <2>2, <2>3, <2>4, <2>5 DEF ControlInv
<1>7. CASE ForkFails(c)
  <2> USE DEF ForkFails, Waited, Fault, ControlTypes, CtlType, ChildType, PlaceType, kernel
  <2>1. CtlType'
    BY <1>0, <1>7 DEF Steps, Errors, Undoable, Children
  <2>2. ChildType' /\ PlaceType'
    BY <1>0, <1>7 DEF ChildSteps, Procs, Children
  <2>3. UndoInv'
    BY <1>0, <1>7 DEF UndoInv, Managing, Children
  <2>4. InsideInv'
    BY <1>0, <1>7 DEF InsideInv, UndoInv, Managing, Procs, Children
  <2>5. CleanupInv'
    BY <1>0, <1>7 DEF CleanupInv, UndoInv, Children
  <2> QED  BY <2>1, <2>2, <2>3, <2>4, <2>5 DEF ControlInv
<1>8. CASE WaitChild(c)
  <2> USE DEF WaitChild, Waited, ControlTypes, CtlType, ChildType, PlaceType, kernel
  <2>1. CtlType'
    BY <1>0, <1>8 DEF Steps, Errors, Undoable, Children
  <2>2. ChildType' /\ PlaceType'
    BY <1>0, <1>8 DEF ChildSteps, Procs, Children
  <2>3. UndoInv'
    BY <1>0, <1>8 DEF UndoInv, Managing, Children
  <2>4. InsideInv'
    BY <1>0, <1>8 DEF InsideInv, UndoInv, Managing, Procs, Children
  <2>5. CleanupInv'
    BY <1>0, <1>8 DEF CleanupInv, UndoInv, Children
  <2> QED  BY <2>1, <2>2, <2>3, <2>4, <2>5 DEF ControlInv
<1>9. CASE WaitTimesOut(c)
  <2> USE DEF WaitTimesOut, Waited, TimeoutError, ControlTypes, CtlType, ChildType, PlaceType,
     kernel
  <2>1. CtlType'
    BY <1>0, <1>9 DEF Steps, Errors, Undoable, Children
  <2>2. ChildType' /\ PlaceType'
    BY <1>0, <1>9 DEF ChildSteps, Procs, Children
  <2>3. UndoInv'
    BY <1>0, <1>9 DEF UndoInv, Managing, Children
  <2>4. InsideInv'
    BY <1>0, <1>9 DEF InsideInv, UndoInv, Managing, Procs, Children
  <2>5. CleanupInv'
    BY <1>0, <1>9 DEF CleanupInv, UndoInv, Children
  <2> QED  BY <2>1, <2>2, <2>3, <2>4, <2>5 DEF ControlInv
<1> QED  BY <1>1, <1>2, <1>3, <1>4, <1>5, <1>6, <1>7, <1>8, <1>9

\* The invariant holds at the start and is kept by every step.
LEMMA ControlStart == Init => ControlInv
<1> SUFFICES ASSUME Init  PROVE ControlInv
  OBVIOUS
<1>1. CtlType
  BY DEF Init, CtlType, Steps, Errors
<1>2. ChildType /\ PlaceType
  BY DEF Init, ChildType, PlaceType, ChildSteps
<1>3. UndoInv /\ InsideInv /\ CleanupInv
  BY DEF Init, UndoInv, InsideInv, CleanupInv, Managing
<1> QED  BY <1>1, <1>2, <1>3 DEF ControlInv, ControlTypes

\* Every step of the harness keeps the invariant.
LEMMA ControlStep == ControlInv /\ [Next]_vars => ControlInv'
<1> SUFFICES ASSUME ControlInv, [Next]_vars  PROVE ControlInv'
  OBVIOUS
<1>1. ASSUME NEW pc \in {"start", "attach", "setup", "files", "move", "publish", "enter", "unmanaged"},
             FailsAt(pc)
      PROVE  ControlInv'
  BY <1>1 DEF FailsAt, Fails, ControlInv, ControlTypes, CtlType, ChildType, PlaceType, UndoInv,
     InsideInv, CleanupInv, Managing,
     kernel, Steps, Errors
<1>2. CASE UNCHANGED vars
  BY <1>2 DEF vars, kernel, ControlInv, ControlTypes, CtlType, ChildType, PlaceType, UndoInv,
     InsideInv, CleanupInv
<1>3. CASE Exited
  BY <1>2, <1>3 DEF Exited
<1> QED
  BY <1>1, <1>2, <1>3, SetupKeeps, RunKeeps, CleanupKeeps, ConsumerKeeps, ChildKeeps
     DEF Next, Controller, Consumer

\* The invariant of a lifecycle holds always.
THEOREM LifecycleInvariant == Spec => []ControlInv
BY ControlStart, ControlStep, PTL DEF Spec

\* For every volume and every number of failing calls, slow children and dead
\* consumers: if emit_observation reports a clean end, policy and cgroup are gone and
\* nobody is inside; and no target outlives the release of the cgroup, although a
\* child that wait_control_child has given up may still register some.
THEOREM CleanMeansClean == Spec => []CleanReportIsClean
<1>1. ControlInv => CleanReportIsClean
  BY DEF ControlInv, InsideInv, CleanupInv, CleanReportIsClean
<1> QED  BY <1>1, LifecycleInvariant, PTL
-----------------------------------------------------------------------------
(* What a published generation rests on.                                   *)

ConsumerSteps == {"none", "waiting", "checking", "printing", "dead"}
Marks == {Nil, Hidden} \cup ({0, 1} \X Names)

ConsumerType ==
    consumer \in [pc : ConsumerSteps, status : {"ok", "mismatch", "killed"}, state : Nat,
                  i : 1..Len(Entries), ack : {"none", "ok", "mismatch"}]
MapsType ==
    views \in [{0, 1} -> [Names -> Marks]] /\ generation \in {Nil, 0, 1} /\ disturbed \in Nat

\* The steps before register_targets, and those after configure_maps.
Before == {"start", "attach", "setup", "files"}
Ready ==
    {"move", "publish", "send", "await", "evidence", "collect", "enter", "replay", "validate",
     "leave", "unmanaged"}
\* The steps behind stop_consumer.
Cleaning ==
    {"depart", "unpublish", "unconfigure", "destroy", "clear", "rmdir", "trees", "done"}

\* What configure_maps writes, how far it and the register child have got, and a volume
\* that has all its parts.
Mark(g, e) == IF Present[g][e] THEN Target(g, e) ELSE Hidden
WrittenSoFar ==
    \A k \in Slots : k < ctl.k =>
        views[SlotGeneration(k)][SlotEntry(k)] = Mark(SlotGeneration(k), SlotEntry(k))
RegisteredSoFar == \A k \in Batch : k <= child["register"].i => SlotTarget(k) \in targets
AllWritten == \A g \in {0, 1}, e \in Names : views[g][e] = Mark(g, e)
AllRegistered == \A k \in Batch : SlotTarget(k) \in targets
Complete == attached /\ AllWritten /\ AllRegistered

\* The register child has written the batch up to its index, and goes on to the next
\* step only when it is through; targets are cleared only after the policy.
RegisterInv ==
    /\ ctl.pc \in Before => child["register"].pc = "none"
    /\ child["register"].pc = "none" => child["register"].i = 0
    /\ ctl.pc = "register" =>
            /\ RegisteredSoFar
            /\ child["register"].pc = "exited" => AllRegistered
    /\ child["clear"].pc # "none" => ctl.pc \in {"clear", "rmdir", "trees", "done"}

\* The parts of the volume are there once the steps that make them are behind.
VolumeInv ==
    /\ ctl.pc \in {"setup", "register", "files", "configure"} \cup Ready => attached
    /\ ctl.pc \in {"configure"} \cup Ready => AllRegistered
    /\ ctl.pc = "configure" => ctl.k \in Slots /\ WrittenSoFar
    /\ ctl.pc \in Ready => AllWritten
    /\ ctl.pc \in Ready \ {"leave", "unmanaged"} => ctl.k \in 1..4

\* The consumer is in the cgroup only while the volume is complete: from its move until
\* it is reaped, which comes before everything that takes the volume apart.
ConsumerInv ==
    /\ consumer.pc \in {"none", "dead"} <=> home["consumer"] = "none"
    /\ "consumer" \notin ctl.undo =>
            home["consumer"] # "cgroup" /\ ctl.pc \in {"start", "stop"} \cup Cleaning
    /\ ctl.pc \in Cleaning \cup {"killed"} => home["consumer"] # "cgroup"
    /\ home["consumer"] = "cgroup" => ctl.pc \in Ready \cup {"stop", "stopping"} /\ Complete

\* Where the controller and its children are.
WhereInv ==
    /\ ctl.pc \in {"replay", "validate"} => home["controller"] = "cgroup"
    /\ "managed" \notin ctl.undo => home["controller"] # "cgroup"
    /\ ctl.pc = "unmanaged" => "managed" \notin ctl.undo
    /\ \A c \in Children : child[c].pc \in {"none", "exited", "failed", "dead"} => home[c] = "none"

\* The inductive invariant of publication.
PublishInv == ConsumerType /\ MapsType /\ RegisterInv /\ VolumeInv /\ ConsumerInv /\ WhereInv

\* A lifecycle that nothing has disturbed: no error so far, no child that was given up,
\* a consumer that waits for its line or looks at the generation it was asked about.
QuietController ==
    /\ ctl.ret = "ok" /\ ctl.cleanup /\ ctl.pc # "killed"
    /\ ctl.pc \in Cleaning \ {"depart"} => "managed" \notin ctl.undo
    /\ ctl.pc \in {"send", "await", "validate"} => generation = Generations[ctl.k]
QuietChildren ==
    /\ \A c \in Children : /\ ~child[c].killed /\ child[c].pc \notin {"failed", "dead"}
                           /\ child[c].pc \in {"none", "exited"} \/ ctl.pc = c
    /\ child["clear"].pc # "none" => "targets" \in ctl.undo
QuietConsumer ==
    /\ ctl.pc \in {"attach", "setup", "files", "register", "configure", "stop"} \cup Ready =>
            consumer.pc \notin {"none", "dead"}
    /\ ctl.pc \in Ready \ {"move"} => home["consumer"] = "cgroup"
    /\ consumer.status = "ok" /\ consumer.ack # "mismatch"
    /\ ctl.pc \notin {"await", "collect"} =>
            consumer.ack = "none" /\ consumer.pc \notin {"checking", "printing"}
    /\ consumer.ack = "ok" => consumer.pc = "waiting"
    /\ consumer.pc = "checking" => ctl.pc = "await" /\ consumer.state = ctl.k
Quiet == QuietController /\ QuietChildren /\ QuietConsumer
QuietInv == disturbed = 0 => Quiet

-----------------------------------------------------------------------------
(* Slots, and what a complete volume resolves to.                          *)

\* A slot is a generation of an entry,
LEMMA SlotType == \A k \in Slots : SlotGeneration(k) \in {0, 1} /\ SlotEntry(k) \in Names
<1> SUFFICES ASSUME NEW k \in Slots  PROVE SlotGeneration(k) \in {0, 1} /\ SlotEntry(k) \in Names
  OBVIOUS
<1>1. Len(Entries) \in Nat /\ DOMAIN Entries = 1..Len(Entries)
  BY ControlConstants
<1>2. (k + 1) % 2 \in {0, 1}
  BY <1>1 DEF Slots
<1>3. (k + 1) \div 2 \in 1..Len(Entries)
  BY <1>1 DEF Slots
<1>4. Entries[(k + 1) \div 2] \in Names
  BY <1>1, <1>3 DEF Names, ToSet
<1> QED  BY <1>2, <1>4 DEF SlotGeneration, SlotEntry

\* and every generation of every entry has one.
LEMMA EverySlot ==
    \A g \in {0, 1}, e \in Names : \E k \in Slots : SlotGeneration(k) = g /\ SlotEntry(k) = e
<1> SUFFICES ASSUME NEW g \in {0, 1}, NEW e \in Names
             PROVE  \E k \in Slots : SlotGeneration(k) = g /\ SlotEntry(k) = e
  OBVIOUS
<1>1. Len(Entries) \in Nat /\ DOMAIN Entries = 1..Len(Entries)
  BY ControlConstants
<1>2. PICK i \in 1..Len(Entries) : Entries[i] = e
  BY <1>1 DEF Names, ToSet
<1>3. PICK k \in Nat : k = 2 * i - 1 + g
  BY <1>2
<1>4. k \in Slots
  BY <1>1, <1>2, <1>3 DEF Slots
<1>5. (k + 1) % 2 = g /\ (k + 1) \div 2 = i
  BY <1>2, <1>3
<1> QED  BY <1>2, <1>4, <1>5 DEF SlotGeneration, SlotEntry

\* A mark names a target or hides; it is never the missing entry of a map.
LEMMA MarkType ==
    \A g \in {0, 1}, e \in Names : Mark(g, e) \in Marks /\ Mark(g, e) # Nil
                                    /\ (Mark(g, e) = Hidden <=> ~Present[g][e])
<1> SUFFICES ASSUME NEW g \in {0, 1}, NEW e \in Names
             PROVE  Mark(g, e) \in Marks /\ Mark(g, e) # Nil /\ (Mark(g, e) = Hidden <=> ~Present[g][e])
  OBVIOUS
<1>1. Target(g, e) \in {0, 1} \X Names /\ Target(g, e) # <<>>
  BY DEF Target
<1>2. Nil # <<>> /\ Nil \notin {0, 1} \X Names
  BY ControlConstants DEF Names
<1> QED  BY <1>1, <1>2 DEF Mark, Marks, Hidden

\* What a process in the cgroup sees of a complete volume is the published generation.
LEMMA CompleteResolves ==
    ASSUME Complete, generation \in {0, 1}, NEW p, home[p] = "cgroup", NEW e \in Names
    PROVE  Resolve(p, e) = Payload(generation, e)
<1>1. attached /\ views[generation][e] = Mark(generation, e)
  BY DEF Complete, AllWritten
<1>2. generation # Nil
  BY ControlConstants
<1>3. Mark(generation, e) # Nil /\ (Mark(generation, e) = Hidden <=> ~Present[generation][e])
  BY MarkType
<1>4. CASE Present[generation][e]
  <2>1. Decision(p, e) = "select"
    BY <1>1, <1>2, <1>3, <1>4 DEF Decision
  <2>2. PICK k \in Slots : SlotGeneration(k) = generation /\ SlotEntry(k) = e
    BY EverySlot
  <2>3. k \in Batch
    BY <1>4, <2>2, Zenon DEF Batch
  <2>4. SlotTarget(k) = Target(generation, e)
    BY <2>2 DEF SlotTarget
  <2>5. Target(generation, e) \in targets
    BY <2>3, <2>4 DEF Complete, AllRegistered
  <2>6. views[generation][e] = Target(generation, e)
    BY <1>1, <1>4 DEF Mark
  <2> QED  BY <1>1, <1>4, <2>1, <2>5, <2>6 DEF Resolve, Payload
<1>5. CASE ~Present[generation][e]
  <2>1. Decision(p, e) = "hide"
    BY <1>1, <1>2, <1>3, <1>5 DEF Decision
  <2> QED  BY <1>1, <1>5, <2>1 DEF Resolve, Payload
<1> QED  BY <1>4, <1>5

\* The batch is a set of slots.
LEMMA BatchType == \A k \in Batch : k \in Nat /\ k \in Slots
BY DEF Batch, Slots

\* What the marks and the batch say does not depend on the rest of the state.
LEMMA SameVolume ==
    /\ UNCHANGED views => (AllWritten' <=> AllWritten)
    /\ UNCHANGED <<views, ctl>> => (WrittenSoFar' <=> WrittenSoFar)
    /\ UNCHANGED targets => (AllRegistered' <=> AllRegistered)
    /\ UNCHANGED targets /\ child'["register"].i = child["register"].i =>
            (RegisteredSoFar' <=> RegisteredSoFar)
    /\ UNCHANGED <<attached, views, targets>> => (Complete' <=> Complete)
<1>1. UNCHANGED views => (AllWritten' <=> AllWritten)
  BY DEF AllWritten
<1>2. UNCHANGED <<views, ctl>> => (WrittenSoFar' <=> WrittenSoFar)
  BY DEF WrittenSoFar
<1>3. UNCHANGED targets => (AllRegistered' <=> AllRegistered)
  BY DEF AllRegistered
<1>4. UNCHANGED targets /\ child'["register"].i = child["register"].i =>
            (RegisteredSoFar' <=> RegisteredSoFar)
  BY DEF RegisteredSoFar
<1> QED  BY <1>1, <1>2, <1>3, <1>4 DEF Complete

\* The volume has an entry.
LEMMA FirstEntry == Len(Entries) \in Nat /\ 1 \in 1..Len(Entries)
BY ControlConstants

\* The four states.
LEMMA StatesType == \A k \in 1..4 : Generations[k] \in {0, 1}
BY DEF Generations

\* The way to the running volume keeps what publication rests on.
LEMMA SetupPublishes ==
    ASSUME ControlInv, PublishInv,
           \/ StartConsumer
           \/ StartConsumerFails
           \/ LoadAttach
           \/ SetupDirectories
           \/ SetupFiles
           \/ ConfigureMaps
           \/ ConfigureFails
           \/ MoveConsumer
           \/ MoveFails
           \/ Publish
    PROVE  PublishInv'
<1>0. /\ CtlType /\ ChildType /\ PlaceType /\ UndoInv /\ InsideInv
      /\ ConsumerType /\ MapsType /\ RegisterInv /\ VolumeInv /\ ConsumerInv /\ WhereInv
  BY DEF ControlInv, ControlTypes, PublishInv
<1> USE DEF CtlType, ChildType, PlaceType
<1>1. CASE StartConsumer
  <2> USE DEF StartConsumer, kernel
  <2>1. ConsumerType'
    BY <1>0, <1>1 DEF ConsumerType, ConsumerSteps
  <2>2. MapsType'
    BY <1>0, <1>1 DEF MapsType
  <2>3. RegisterInv'
    BY <1>0, <1>1, SameVolume DEF RegisterInv, Before, Children
  <2>4. VolumeInv'
    BY <1>0, <1>1, SameVolume DEF VolumeInv, Ready
  <2>5. ConsumerInv'
    BY <1>0, <1>1, SameVolume DEF ConsumerInv, VolumeInv, Complete, Ready, Cleaning, Procs
  <2>6. WhereInv'
    BY <1>0, <1>1 DEF WhereInv, UndoInv, Procs, Children
  <2> QED  BY <2>1, <2>2, <2>3, <2>4, <2>5, <2>6 DEF PublishInv
<1>2. CASE LoadAttach
  <2> USE DEF LoadAttach, kernel
  <2>1. ConsumerType'
    BY <1>0, <1>2 DEF ConsumerType, ConsumerSteps
  <2>2. MapsType'
    BY <1>0, <1>2 DEF MapsType
  <2>3. RegisterInv'
    BY <1>0, <1>2, SameVolume DEF RegisterInv, Before, Children
  <2>4. VolumeInv'
    BY <1>0, <1>2, SameVolume DEF VolumeInv, Ready
  <2>5. ConsumerInv'
    BY <1>0, <1>2, SameVolume DEF ConsumerInv, VolumeInv, Complete, Ready, Cleaning, Procs
  <2>6. WhereInv'
    BY <1>0, <1>2 DEF WhereInv, Procs, Children
  <2> QED  BY <2>1, <2>2, <2>3, <2>4, <2>5, <2>6 DEF PublishInv
<1>3. CASE SetupDirectories
  <2> USE DEF SetupDirectories, kernel
  <2>1. ConsumerType'
    BY <1>0, <1>3 DEF ConsumerType, ConsumerSteps
  <2>2. MapsType'
    BY <1>0, <1>3 DEF MapsType
  <2>3. RegisterInv'
    BY <1>0, <1>3, SameVolume DEF RegisterInv, Before, Children
  <2>4. VolumeInv'
    BY <1>0, <1>3, SameVolume DEF VolumeInv, Ready
  <2>5. ConsumerInv'
    BY <1>0, <1>3, SameVolume DEF ConsumerInv, VolumeInv, Complete, Ready, Cleaning, Procs
  <2>6. WhereInv'
    BY <1>0, <1>3 DEF WhereInv, Procs, Children
  <2> QED  BY <2>1, <2>2, <2>3, <2>4, <2>5, <2>6 DEF PublishInv
<1>4. CASE SetupFiles
  <2> USE DEF SetupFiles, kernel
  <2>1. ConsumerType'
    BY <1>0, <1>4 DEF ConsumerType, ConsumerSteps
  <2>2. MapsType'
    BY <1>0, <1>4 DEF MapsType
  <2>3. RegisterInv'
    <3>1. child["register"].pc = "none" /\ child["register"].i = 0
      BY <1>0, <1>4 DEF RegisterInv, Before
    <3>2. RegisteredSoFar'
      BY <1>4, <3>1 DEF RegisteredSoFar, Batch, Slots
    <3> QED  BY <1>0, <1>4, <3>1, <3>2 DEF RegisterInv, Before, Children
  <2>4. VolumeInv'
    BY <1>0, <1>4, SameVolume DEF VolumeInv, Ready
  <2>5. ConsumerInv'
    BY <1>0, <1>4, SameVolume DEF ConsumerInv, VolumeInv, Complete, Ready, Cleaning, Procs
  <2>6. WhereInv'
    BY <1>0, <1>4 DEF WhereInv, Procs, Children
  <2> QED  BY <2>1, <2>2, <2>3, <2>4, <2>5, <2>6 DEF PublishInv
<1>5. CASE ConfigureMaps
  <2> USE DEF ConfigureMaps, kernel
  <2>a. PICK g \in {0, 1}, e \in Names : g = SlotGeneration(ctl.k) /\ e = SlotEntry(ctl.k)
    BY <1>0, <1>5, SlotType DEF VolumeInv
  <2>b. views' = [views EXCEPT ![g][e] = Mark(g, e)]
    BY <1>5, <2>a DEF Mark
  <2>c. \A h \in {0, 1}, d \in Names :
            views'[h][d] = IF h = g /\ d = e THEN Mark(g, e) ELSE views[h][d]
    BY <1>0, <2>b DEF MapsType
  <2>1. ConsumerType'
    BY <1>0, <1>5 DEF ConsumerType, ConsumerSteps
  <2>2. MapsType'
    BY <1>0, <1>5, <2>a, <2>b, MarkType DEF MapsType
  <2>3. RegisterInv'
    BY <1>0, <1>5, SameVolume DEF RegisterInv, Before, Children
  <2>4. VolumeInv'
    <3>1. \A k \in Slots : k <= ctl.k =>
                views'[SlotGeneration(k)][SlotEntry(k)] = Mark(SlotGeneration(k), SlotEntry(k))
      <4> SUFFICES ASSUME NEW k \in Slots, k <= ctl.k
                   PROVE  views'[SlotGeneration(k)][SlotEntry(k)] = Mark(SlotGeneration(k), SlotEntry(k))
        OBVIOUS
      <4>1. CASE k = ctl.k
        BY <2>a, <2>c, <4>1
      <4>2. CASE k < ctl.k
        <5>1. views[SlotGeneration(k)][SlotEntry(k)] = Mark(SlotGeneration(k), SlotEntry(k))
          BY <1>0, <1>5, <4>2 DEF VolumeInv, WrittenSoFar
        <5> QED  BY <2>a, <2>c, <5>1, SlotType
      <4>3. k \in Nat /\ ctl.k \in Nat
        BY <1>0 DEF Slots
      <4> QED  BY <4>1, <4>2, <4>3
    <3>2. CASE ctl.k = 2 * Len(Entries)
      <4>1. \A k \in Slots : k <= ctl.k
        BY <3>2, ControlConstants DEF Slots
      <4>2. AllWritten'
        BY <3>1, <4>1, EverySlot DEF AllWritten
      <4>3. ctl'.pc = "move" /\ ctl'.k = 1
        BY <1>0, <1>5, <3>2
      <4> QED  BY <1>0, <1>5, <4>2, <4>3, SameVolume DEF VolumeInv, Ready
    <3>3. CASE ctl.k # 2 * Len(Entries)
      <4>1. ctl'.pc = "configure" /\ ctl'.k = ctl.k + 1
        BY <1>0, <1>5, <3>3
      <4>2. ctl'.k \in Slots
        <5>1. ctl.k \in Slots
          BY <1>0, <1>5 DEF VolumeInv
        <5>2. Len(Entries) \in Nat
          BY ControlConstants
        <5> QED  BY ONLY <3>3, <4>1, <5>1, <5>2 DEF Slots
      <4>3. WrittenSoFar'
        <5>1. ctl.k \in Nat /\ \A k \in Slots : k \in Nat
          BY <1>0 DEF Slots
        <5>2. \A k \in Slots : k < ctl'.k => k <= ctl.k
          BY <4>1, <5>1
        <5> QED  BY <3>1, <5>2, Zenon DEF WrittenSoFar
      <4> QED  BY <1>0, <1>5, <4>1, <4>2, <4>3, SameVolume DEF VolumeInv, Ready
    <3> QED  BY <3>2, <3>3
  <2>5. ConsumerInv'
    BY <1>0, <1>5, SameVolume DEF ConsumerInv, VolumeInv, Complete, Ready, Cleaning, Procs
  <2>6. WhereInv'
    BY <1>0, <1>5 DEF WhereInv, Procs, Children
  <2> QED  BY <2>1, <2>2, <2>3, <2>4, <2>5, <2>6 DEF PublishInv
<1>6. CASE ConfigureFails
  <2> USE DEF ConfigureFails, Fault, kernel
  <2>1. ConsumerType'
    BY <1>0, <1>6 DEF ConsumerType, ConsumerSteps
  <2>2. MapsType'
    BY <1>0, <1>6 DEF MapsType
  <2>3. RegisterInv'
    BY <1>0, <1>6, SameVolume DEF RegisterInv, Before, Children
  <2>4. VolumeInv'
    BY <1>0, <1>6, SameVolume DEF VolumeInv, Ready
  <2>5. ConsumerInv'
    BY <1>0, <1>6, SameVolume DEF ConsumerInv, VolumeInv, Complete, Ready, Cleaning, Procs
  <2>6. WhereInv'
    BY <1>0, <1>6 DEF WhereInv, Procs, Children
  <2> QED  BY <2>1, <2>2, <2>3, <2>4, <2>5, <2>6 DEF PublishInv
<1>7. CASE MoveConsumer
  <2> USE DEF MoveConsumer, Goto, kernel
  <2>1. ConsumerType'
    BY <1>0, <1>7 DEF ConsumerType, ConsumerSteps
  <2>2. MapsType'
    BY <1>0, <1>7 DEF MapsType
  <2>3. RegisterInv'
    BY <1>0, <1>7, SameVolume DEF RegisterInv, Before, Children
  <2>4. VolumeInv'
    BY <1>0, <1>7, SameVolume DEF VolumeInv, Ready
  <2>5. ConsumerInv'
    BY <1>0, <1>7, SameVolume DEF ConsumerInv, VolumeInv, Complete, Ready, Cleaning, Procs
  <2>6. WhereInv'
    BY <1>0, <1>7 DEF WhereInv, Procs, Children
  <2> QED  BY <2>1, <2>2, <2>3, <2>4, <2>5, <2>6 DEF PublishInv
<1>8. CASE MoveFails
  <2> USE DEF MoveFails, Fails, kernel
  <2>1. ConsumerType'
    BY <1>0, <1>8 DEF ConsumerType, ConsumerSteps
  <2>2. MapsType'
    BY <1>0, <1>8 DEF MapsType
  <2>3. RegisterInv'
    BY <1>0, <1>8, SameVolume DEF RegisterInv, Before, Children
  <2>4. VolumeInv'
    BY <1>0, <1>8, SameVolume DEF VolumeInv, Ready
  <2>5. ConsumerInv'
    BY <1>0, <1>8, SameVolume DEF ConsumerInv, VolumeInv, Complete, Ready, Cleaning, Procs
  <2>6. WhereInv'
    BY <1>0, <1>8 DEF WhereInv, Procs, Children
  <2> QED  BY <2>1, <2>2, <2>3, <2>4, <2>5, <2>6 DEF PublishInv
<1>9. CASE Publish
  <2> USE DEF Publish, kernel
  <2>1. ConsumerType'
    BY <1>0, <1>9 DEF ConsumerType, ConsumerSteps
  <2>2. MapsType'
    BY <1>0, <1>9, StatesType DEF MapsType, VolumeInv, Ready
  <2>3. RegisterInv'
    BY <1>0, <1>9, SameVolume DEF RegisterInv, Before, Children
  <2>4. VolumeInv'
    BY <1>0, <1>9, SameVolume DEF VolumeInv, Ready
  <2>5. ConsumerInv'
    BY <1>0, <1>9, SameVolume DEF ConsumerInv, VolumeInv, Complete, Ready, Cleaning, Procs
  <2>6. WhereInv'
    BY <1>0, <1>9 DEF WhereInv, Procs, Children
  <2> QED  BY <2>1, <2>2, <2>3, <2>4, <2>5, <2>6 DEF PublishInv
<1>10. CASE StartConsumerFails
  <2> USE DEF StartConsumerFails, Fails, Fault, kernel
  <2>1. ConsumerType'
    BY <1>0, <1>10 DEF ConsumerType, ConsumerSteps
  <2>2. MapsType'
    BY <1>0, <1>10 DEF MapsType
  <2>3. RegisterInv'
    BY <1>0, <1>10, SameVolume DEF RegisterInv, Before, Children
  <2>4. VolumeInv'
    BY <1>0, <1>10, SameVolume DEF VolumeInv, Ready
  <2>5. ConsumerInv'
    BY <1>0, <1>10, SameVolume DEF ConsumerInv, Cleaning, Procs
  <2>6. WhereInv'
    BY <1>0, <1>10 DEF WhereInv, UndoInv, Procs, Children
  <2> QED  BY <2>1, <2>2, <2>3, <2>4, <2>5, <2>6 DEF PublishInv
<1> QED  BY <1>1, <1>2, <1>3, <1>4, <1>5, <1>6, <1>7, <1>8, <1>9, <1>10

\* So do the states, the evidence and the replay,
LEMMA RunPublishes ==
    ASSUME ControlInv, PublishInv,
           \/ Send
           \/ BrokenPipe
           \/ Await
           \/ AwaitFails
           \/ Enter
           \/ Replay
           \/ ReplayFails
           \/ Validate
           \/ Leave
           \/ LeaveFails
           \/ Unmanaged
    PROVE  PublishInv'
<1>0. /\ CtlType /\ ChildType /\ PlaceType /\ UndoInv /\ InsideInv
      /\ ConsumerType /\ MapsType /\ RegisterInv /\ VolumeInv /\ ConsumerInv /\ WhereInv
  BY DEF ControlInv, ControlTypes, PublishInv
<1> USE DEF CtlType, ChildType, PlaceType
<1>1. CASE Send
  <2> USE DEF Send, Goto, kernel
  <2>1. ConsumerType'
    BY <1>0, <1>1, FirstEntry DEF ConsumerType, ConsumerSteps
  <2>2. MapsType'
    BY <1>0, <1>1 DEF MapsType
  <2>3. RegisterInv'
    BY <1>0, <1>1, SameVolume DEF RegisterInv, Before, Children
  <2>4. VolumeInv'
    BY <1>0, <1>1, SameVolume DEF VolumeInv, Ready
  <2>5. ConsumerInv'
    BY <1>0, <1>1, SameVolume DEF ConsumerInv, VolumeInv, Complete, Ready, Cleaning, Procs
  <2>6. WhereInv'
    BY <1>0, <1>1 DEF WhereInv, Procs, Children
  <2> QED  BY <2>1, <2>2, <2>3, <2>4, <2>5, <2>6 DEF PublishInv
<1>2. CASE BrokenPipe
  <2> USE DEF BrokenPipe, Goto, kernel
  <2>1. ConsumerType'
    BY <1>0, <1>2 DEF ConsumerType, ConsumerSteps
  <2>2. MapsType'
    BY <1>0, <1>2 DEF MapsType
  <2>3. RegisterInv'
    BY <1>0, <1>2, SameVolume DEF RegisterInv, Before, Children
  <2>4. VolumeInv'
    BY <1>0, <1>2, SameVolume DEF VolumeInv, Ready
  <2>5. ConsumerInv'
    BY <1>0, <1>2, SameVolume DEF ConsumerInv, VolumeInv, Complete, Ready, Cleaning, Procs
  <2>6. WhereInv'
    BY <1>0, <1>2 DEF WhereInv, Procs, Children
  <2> QED  BY <2>1, <2>2, <2>3, <2>4, <2>5, <2>6 DEF PublishInv
<1>3. CASE Await
  <2> USE DEF Await, kernel
  <2>1. ConsumerType'
    BY <1>0, <1>3 DEF ConsumerType, ConsumerSteps
  <2>2. MapsType'
    BY <1>0, <1>3 DEF MapsType
  <2>3. RegisterInv'
    BY <1>0, <1>3, SameVolume DEF RegisterInv, Before, Children
  <2>4. VolumeInv'
    BY <1>0, <1>3, SameVolume DEF VolumeInv, Ready
  <2>5. ConsumerInv'
    BY <1>0, <1>3, SameVolume DEF ConsumerInv, VolumeInv, Complete, Ready, Cleaning, Procs
  <2>6. WhereInv'
    BY <1>0, <1>3 DEF WhereInv, Procs, Children
  <2> QED  BY <2>1, <2>2, <2>3, <2>4, <2>5, <2>6 DEF PublishInv
<1>4. CASE AwaitFails
  <2> USE DEF AwaitFails, Fails, kernel
  <2>1. ConsumerType'
    BY <1>0, <1>4 DEF ConsumerType, ConsumerSteps
  <2>2. MapsType'
    BY <1>0, <1>4 DEF MapsType
  <2>3. RegisterInv'
    BY <1>0, <1>4, SameVolume DEF RegisterInv, Before, Children
  <2>4. VolumeInv'
    BY <1>0, <1>4, SameVolume DEF VolumeInv, Ready
  <2>5. ConsumerInv'
    BY <1>0, <1>4, SameVolume DEF ConsumerInv, VolumeInv, Complete, Ready, Cleaning, Procs
  <2>6. WhereInv'
    BY <1>0, <1>4 DEF WhereInv, Procs, Children
  <2> QED  BY <2>1, <2>2, <2>3, <2>4, <2>5, <2>6 DEF PublishInv
<1>5. CASE Enter
  <2> USE DEF Enter, kernel
  <2>1. ConsumerType'
    BY <1>0, <1>5 DEF ConsumerType, ConsumerSteps
  <2>2. MapsType'
    BY <1>0, <1>5 DEF MapsType
  <2>3. RegisterInv'
    BY <1>0, <1>5, SameVolume DEF RegisterInv, Before, Children
  <2>4. VolumeInv'
    BY <1>0, <1>5, SameVolume DEF VolumeInv, Ready
  <2>5. ConsumerInv'
    BY <1>0, <1>5, SameVolume DEF ConsumerInv, VolumeInv, Complete, Ready, Cleaning, Procs
  <2>6. WhereInv'
    BY <1>0, <1>5 DEF WhereInv, Procs, Children
  <2> QED  BY <2>1, <2>2, <2>3, <2>4, <2>5, <2>6 DEF PublishInv
<1>6. CASE Replay
  <2> USE DEF Replay, Goto, kernel
  <2>1. ConsumerType'
    BY <1>0, <1>6 DEF ConsumerType, ConsumerSteps
  <2>2. MapsType'
    BY <1>0, <1>6, StatesType DEF MapsType, VolumeInv, Ready
  <2>3. RegisterInv'
    BY <1>0, <1>6, SameVolume DEF RegisterInv, Before, Children
  <2>4. VolumeInv'
    BY <1>0, <1>6, SameVolume DEF VolumeInv, Ready
  <2>5. ConsumerInv'
    BY <1>0, <1>6, SameVolume DEF ConsumerInv, VolumeInv, Complete, Ready, Cleaning, Procs
  <2>6. WhereInv'
    BY <1>0, <1>6 DEF WhereInv, Procs, Children
  <2> QED  BY <2>1, <2>2, <2>3, <2>4, <2>5, <2>6 DEF PublishInv
<1>7. CASE ReplayFails
  <2> USE DEF ReplayFails, Fault, kernel
  <2>1. ConsumerType'
    BY <1>0, <1>7 DEF ConsumerType, ConsumerSteps
  <2>2. MapsType'
    BY <1>0, <1>7 DEF MapsType
  <2>3. RegisterInv'
    BY <1>0, <1>7, SameVolume DEF RegisterInv, Before, Children
  <2>4. VolumeInv'
    BY <1>0, <1>7, SameVolume DEF VolumeInv, Ready
  <2>5. ConsumerInv'
    BY <1>0, <1>7, SameVolume DEF ConsumerInv, VolumeInv, Complete, Ready, Cleaning, Procs
  <2>6. WhereInv'
    BY <1>0, <1>7 DEF WhereInv, Procs, Children
  <2> QED  BY <2>1, <2>2, <2>3, <2>4, <2>5, <2>6 DEF PublishInv
<1>8. CASE Validate
  <2> USE DEF Validate, kernel
  <2>1. ConsumerType'
    BY <1>0, <1>8 DEF ConsumerType, ConsumerSteps
  <2>2. MapsType'
    BY <1>0, <1>8 DEF MapsType
  <2>3. RegisterInv'
    BY <1>0, <1>8, SameVolume DEF RegisterInv, Before, Children
  <2>4. VolumeInv'
    BY <1>0, <1>8, SameVolume DEF VolumeInv, Ready
  <2>5. ConsumerInv'
    BY <1>0, <1>8, SameVolume DEF ConsumerInv, VolumeInv, Complete, Ready, Cleaning, Procs
  <2>6. WhereInv'
    BY <1>0, <1>8 DEF WhereInv, Procs, Children
  <2> QED  BY <2>1, <2>2, <2>3, <2>4, <2>5, <2>6 DEF PublishInv
<1>9. CASE Leave
  <2> USE DEF Leave, kernel
  <2>1. ConsumerType'
    BY <1>0, <1>9 DEF ConsumerType, ConsumerSteps
  <2>2. MapsType'
    BY <1>0, <1>9 DEF MapsType
  <2>3. RegisterInv'
    BY <1>0, <1>9, SameVolume DEF RegisterInv, Before, Children
  <2>4. VolumeInv'
    BY <1>0, <1>9, SameVolume DEF VolumeInv, Ready
  <2>5. ConsumerInv'
    BY <1>0, <1>9, SameVolume DEF ConsumerInv, VolumeInv, Complete, Ready, Cleaning, Procs
  <2>6. WhereInv'
    BY <1>0, <1>9 DEF WhereInv, Procs, Children
  <2> QED  BY <2>1, <2>2, <2>3, <2>4, <2>5, <2>6 DEF PublishInv
<1>10. CASE LeaveFails
  <2> USE DEF LeaveFails, Fault, kernel
  <2>1. ConsumerType'
    BY <1>0, <1>10 DEF ConsumerType, ConsumerSteps
  <2>2. MapsType'
    BY <1>0, <1>10 DEF MapsType
  <2>3. RegisterInv'
    BY <1>0, <1>10, SameVolume DEF RegisterInv, Before, Children
  <2>4. VolumeInv'
    BY <1>0, <1>10, SameVolume DEF VolumeInv, Ready
  <2>5. ConsumerInv'
    BY <1>0, <1>10, SameVolume DEF ConsumerInv, VolumeInv, Complete, Ready, Cleaning, Procs
  <2>6. WhereInv'
    BY <1>0, <1>10 DEF WhereInv, Procs, Children
  <2> QED  BY <2>1, <2>2, <2>3, <2>4, <2>5, <2>6 DEF PublishInv
<1>11. CASE Unmanaged
  <2> USE DEF Unmanaged, Goto, Fails, kernel
  <2>1. ConsumerType'
    BY <1>0, <1>11 DEF ConsumerType, ConsumerSteps
  <2>2. MapsType'
    BY <1>0, <1>11 DEF MapsType
  <2>3. RegisterInv'
    BY <1>0, <1>11, SameVolume DEF RegisterInv, Before, Children
  <2>4. VolumeInv'
    BY <1>0, <1>11, SameVolume DEF VolumeInv, Ready
  <2>5. ConsumerInv'
    BY <1>0, <1>11, SameVolume DEF ConsumerInv, VolumeInv, Complete, Ready, Cleaning, Procs
  <2>6. WhereInv'
    BY <1>0, <1>11 DEF WhereInv, Procs, Children
  <2> QED  BY <2>1, <2>2, <2>3, <2>4, <2>5, <2>6 DEF PublishInv
<1> QED  BY <1>1, <1>2, <1>3, <1>4, <1>5, <1>6, <1>7, <1>8, <1>9, <1>10, <1>11

\* the cleanup,
LEMMA CleanupPublishes ==
    ASSUME ControlInv, PublishInv,
           \/ SkipStep
           \/ StopConsumer
           \/ ReapConsumer
           \/ Unpublish
           \/ Unconfigure
           \/ PolicyDestroy
           \/ RmdirCgroup
           \/ Report
           \/ ReleaseCgroup
    PROVE  PublishInv'
<1>0. /\ CtlType /\ ChildType /\ PlaceType /\ UndoInv /\ InsideInv
      /\ ConsumerType /\ MapsType /\ RegisterInv /\ VolumeInv /\ ConsumerInv /\ WhereInv
  BY DEF ControlInv, ControlTypes, PublishInv
<1> USE DEF CtlType, ChildType, PlaceType
<1>1. CASE SkipStep
  <2> USE DEF SkipStep, Skip, Goto, kernel
  <2>1. ConsumerType'
    BY <1>0, <1>1 DEF ConsumerType, ConsumerSteps
  <2>2. MapsType'
    BY <1>0, <1>1 DEF MapsType
  <2>3. RegisterInv'
    BY <1>0, <1>1, SameVolume DEF RegisterInv, Before, Children
  <2>4. VolumeInv'
    BY <1>0, <1>1, SameVolume DEF VolumeInv, Ready
  <2>5. ConsumerInv'
    BY <1>0, <1>1, SameVolume DEF ConsumerInv, VolumeInv, Complete, Ready, Cleaning, Procs
  <2>6. WhereInv'
    BY <1>0, <1>1 DEF WhereInv, Procs, Children
  <2> QED  BY <2>1, <2>2, <2>3, <2>4, <2>5, <2>6 DEF PublishInv
<1>2. CASE StopConsumer
  <2> USE DEF StopConsumer, Goto, kernel
  <2>1. ConsumerType'
    BY <1>0, <1>2 DEF ConsumerType, ConsumerSteps
  <2>2. MapsType'
    BY <1>0, <1>2 DEF MapsType
  <2>3. RegisterInv'
    BY <1>0, <1>2, SameVolume DEF RegisterInv, Before, Children
  <2>4. VolumeInv'
    BY <1>0, <1>2, SameVolume DEF VolumeInv, Ready
  <2>5. ConsumerInv'
    BY <1>0, <1>2, SameVolume DEF ConsumerInv, VolumeInv, Complete, Ready, Cleaning, Procs
  <2>6. WhereInv'
    BY <1>0, <1>2 DEF WhereInv, Procs, Children
  <2> QED  BY <2>1, <2>2, <2>3, <2>4, <2>5, <2>6 DEF PublishInv
<1>3. CASE ReapConsumer
  <2> USE DEF ReapConsumer, Goto, Spoils, kernel
  <2>1. ConsumerType'
    BY <1>0, <1>3 DEF ConsumerType, ConsumerSteps
  <2>2. MapsType'
    BY <1>0, <1>3 DEF MapsType
  <2>3. RegisterInv'
    BY <1>0, <1>3, SameVolume DEF RegisterInv, Before, Children
  <2>4. VolumeInv'
    BY <1>0, <1>3, SameVolume DEF VolumeInv, Ready
  <2>5. ConsumerInv'
    BY <1>0, <1>3, SameVolume DEF ConsumerInv, VolumeInv, Complete, Ready, Cleaning, Procs
  <2>6. WhereInv'
    BY <1>0, <1>3 DEF WhereInv, Procs, Children
  <2> QED  BY <2>1, <2>2, <2>3, <2>4, <2>5, <2>6 DEF PublishInv
<1>4. CASE Unpublish
  <2> USE DEF Unpublish, Goto, Spoils, Fault, kernel
  <2>1. ConsumerType'
    BY <1>0, <1>4 DEF ConsumerType, ConsumerSteps
  <2>2. MapsType'
    BY <1>0, <1>4 DEF MapsType
  <2>3. RegisterInv'
    BY <1>0, <1>4, SameVolume DEF RegisterInv, Before, Children
  <2>4. VolumeInv'
    BY <1>0, <1>4, SameVolume DEF VolumeInv, Ready
  <2>5. ConsumerInv'
    BY <1>0, <1>4, SameVolume DEF ConsumerInv, VolumeInv, Complete, Ready, Cleaning, Procs
  <2>6. WhereInv'
    BY <1>0, <1>4 DEF WhereInv, Procs, Children
  <2> QED  BY <2>1, <2>2, <2>3, <2>4, <2>5, <2>6 DEF PublishInv
<1>5. CASE Unconfigure
  <2> USE DEF Unconfigure, Goto, Spoils, Fault, kernel
  <2>1. ConsumerType'
    BY <1>0, <1>5 DEF ConsumerType, ConsumerSteps
  <2>2. MapsType'
    <3>1. generation' = generation /\ (disturbed' = disturbed \/ disturbed' = disturbed + 1)
      BY <1>5
    <3> DEFINE empty == [e \in Names |-> Nil]
    <3>3. empty \in [Names -> Marks]
      BY DEF Marks
    <3>4. views' \in [{0, 1} -> [Names -> Marks]]
      <4>1. CASE views' = [g \in {0, 1} |-> empty]
        BY <3>3, <4>1
      <4>2. CASE \E g \in {0, 1}, e \in Names :
                    views' = [h \in {0, 1} |-> IF h = g THEN [empty EXCEPT ![e] = views[g][e]] ELSE empty]
        BY <1>0, <3>3, <4>2 DEF MapsType
      <4> QED  BY <1>5, <4>1, <4>2, Zenon
    <3> QED  BY <1>0, <3>1, <3>4 DEF MapsType
  <2>3. RegisterInv'
    BY <1>0, <1>5, SameVolume DEF RegisterInv, Before, Children
  <2>4. VolumeInv'
    BY <1>0, <1>5, SameVolume DEF VolumeInv, Ready
  <2>5. ConsumerInv'
    BY <1>0, <1>5, SameVolume DEF ConsumerInv, VolumeInv, Complete, Ready, Cleaning, Procs
  <2>6. WhereInv'
    BY <1>0, <1>5 DEF WhereInv, Procs, Children
  <2> QED  BY <2>1, <2>2, <2>3, <2>4, <2>5, <2>6 DEF PublishInv
<1>6. CASE PolicyDestroy
  <2> USE DEF PolicyDestroy, Goto, Spoils, Fault, kernel
  <2>1. ConsumerType'
    BY <1>0, <1>6 DEF ConsumerType, ConsumerSteps
  <2>2. MapsType'
    BY <1>0, <1>6 DEF MapsType, Marks
  <2>3. RegisterInv'
    BY <1>0, <1>6, SameVolume DEF RegisterInv, Before, Children
  <2>4. VolumeInv'
    BY <1>0, <1>6, SameVolume DEF VolumeInv, Ready
  <2>5. ConsumerInv'
    BY <1>0, <1>6, SameVolume DEF ConsumerInv, VolumeInv, Complete, Ready, Cleaning, Procs
  <2>6. WhereInv'
    BY <1>0, <1>6 DEF WhereInv, Procs, Children
  <2> QED  BY <2>1, <2>2, <2>3, <2>4, <2>5, <2>6 DEF PublishInv
<1>7. CASE RmdirCgroup
  <2> USE DEF RmdirCgroup, Goto, Spoils, kernel
  <2>1. ConsumerType'
    BY <1>0, <1>7 DEF ConsumerType, ConsumerSteps
  <2>2. MapsType'
    BY <1>0, <1>7 DEF MapsType
  <2>3. RegisterInv'
    BY <1>0, <1>7, SameVolume DEF RegisterInv, Before, Children
  <2>4. VolumeInv'
    BY <1>0, <1>7, SameVolume DEF VolumeInv, Ready
  <2>5. ConsumerInv'
    BY <1>0, <1>7, SameVolume DEF ConsumerInv, VolumeInv, Complete, Ready, Cleaning, Procs
  <2>6. WhereInv'
    BY <1>0, <1>7 DEF WhereInv, Procs, Children
  <2> QED  BY <2>1, <2>2, <2>3, <2>4, <2>5, <2>6 DEF PublishInv
<1>8. CASE Report
  <2> USE DEF Report, Spoils, Fault, kernel
  <2>1. ConsumerType'
    BY <1>0, <1>8 DEF ConsumerType, ConsumerSteps
  <2>2. MapsType'
    BY <1>0, <1>8 DEF MapsType
  <2>3. RegisterInv'
    BY <1>0, <1>8, SameVolume DEF RegisterInv, Before, Children
  <2>4. VolumeInv'
    BY <1>0, <1>8, SameVolume DEF VolumeInv, Ready
  <2>5. ConsumerInv'
    BY <1>0, <1>8, SameVolume DEF ConsumerInv, VolumeInv, Complete, Ready, Cleaning, Procs
  <2>6. WhereInv'
    BY <1>0, <1>8 DEF WhereInv, Procs, Children
  <2> QED  BY <2>1, <2>2, <2>3, <2>4, <2>5, <2>6 DEF PublishInv
<1>9. CASE ReleaseCgroup
  <2> USE DEF ReleaseCgroup, kernel
  <2>0. ctl.pc \notin Managing /\ home["consumer"] # "cgroup"
    BY <1>0, <1>9 DEF UndoInv, InsideInv, Procs
  <2>1. ConsumerType'
    BY <1>0, <1>9 DEF ConsumerType, ConsumerSteps
  <2>2. MapsType'
    BY <1>0, <1>9 DEF MapsType
  <2>3. RegisterInv'
    BY <1>0, <1>9, <2>0 DEF RegisterInv, Managing
  <2>4. VolumeInv'
    BY <1>0, <1>9, <2>0 DEF VolumeInv, Ready, Managing
  <2>5. ConsumerInv'
    BY <1>0, <1>9, <2>0 DEF ConsumerInv
  <2>6. WhereInv'
    BY <1>0, <1>9 DEF WhereInv, Procs, Children
  <2> QED  BY <2>1, <2>2, <2>3, <2>4, <2>5, <2>6 DEF PublishInv
<1> QED  BY <1>1, <1>2, <1>3, <1>4, <1>5, <1>6, <1>7, <1>8, <1>9

\* the consumer,
LEMMA ConsumerPublishes ==
    ASSUME ControlInv, PublishInv,
           \/ ConsumerCheck
           \/ ConsumerPrint
           \/ ConsumerQuits
           \/ ConsumerKilled
    PROVE  PublishInv'
<1>0. /\ CtlType /\ ChildType /\ PlaceType /\ UndoInv /\ InsideInv
      /\ ConsumerType /\ MapsType /\ RegisterInv /\ VolumeInv /\ ConsumerInv /\ WhereInv
  BY DEF ControlInv, ControlTypes, PublishInv
<1> USE DEF CtlType, ChildType, PlaceType
<1>1. CASE ConsumerCheck
  <2> USE DEF ConsumerCheck, ConsumerDies, kernel
  <2>1. ConsumerType'
    <3>1. \/ consumer' = [consumer EXCEPT !.pc = "waiting", !.ack = "ok"]
          \/ consumer.i # Len(Entries) /\ consumer' = [consumer EXCEPT !.i = @ + 1]
          \/ consumer' = [consumer EXCEPT !.pc = "dead", !.status = "mismatch", !.ack = "mismatch"]
      BY <1>1
    <3>2. CASE consumer.i # Len(Entries) /\ consumer' = [consumer EXCEPT !.i = @ + 1]
      <4>1. consumer.i \in 1..Len(Entries)
        BY <1>0 DEF ConsumerType
      <4>2. PICK i \in 1..Len(Entries) : i = consumer.i + 1
        BY <3>2, <4>1, FirstEntry
      <4>3. consumer' = [consumer EXCEPT !.i = i]
        BY <3>2, <4>2
      <4> QED  BY <1>0, <4>3 DEF ConsumerType
    <3> QED  BY <1>0, <3>1, <3>2 DEF ConsumerType, ConsumerSteps
  <2>2. MapsType'
    BY <1>0, <1>1 DEF MapsType
  <2>3. RegisterInv'
    BY <1>0, <1>1, SameVolume DEF RegisterInv, Before, Children
  <2>4. VolumeInv'
    BY <1>0, <1>1, SameVolume DEF VolumeInv, Ready
  <2>5. ConsumerInv'
    <3>1. /\ UNCHANGED <<ctl, attached, views, targets>> /\ consumer.pc = "checking"
          /\ \/ UNCHANGED home /\ consumer'.pc \in {"waiting", "checking"}
             \/ home' = [home EXCEPT !["consumer"] = "none"] /\ consumer'.pc = "dead"
      BY <1>0, <1>1 DEF ConsumerType
    <3> QED  BY <1>0, <3>1, SameVolume DEF ConsumerInv, Cleaning, Procs
  <2>6. WhereInv'
    BY <1>0, <1>1 DEF WhereInv, Procs, Children
  <2> QED  BY <2>1, <2>2, <2>3, <2>4, <2>5, <2>6 DEF PublishInv
<1>2. CASE ConsumerPrint
  <2> USE DEF ConsumerPrint, kernel
  <2>1. ConsumerType'
    BY <1>0, <1>2 DEF ConsumerType, ConsumerSteps
  <2>2. MapsType'
    BY <1>0, <1>2 DEF MapsType
  <2>3. RegisterInv'
    BY <1>0, <1>2, SameVolume DEF RegisterInv, Before, Children
  <2>4. VolumeInv'
    BY <1>0, <1>2, SameVolume DEF VolumeInv, Ready
  <2>5. ConsumerInv'
    BY <1>0, <1>2, SameVolume DEF ConsumerInv, VolumeInv, Complete, Ready, Cleaning, Procs
  <2>6. WhereInv'
    BY <1>0, <1>2 DEF WhereInv, Procs, Children
  <2> QED  BY <2>1, <2>2, <2>3, <2>4, <2>5, <2>6 DEF PublishInv
<1>3. CASE ConsumerQuits
  <2> USE DEF ConsumerQuits, ConsumerDies, kernel
  <2>1. ConsumerType'
    BY <1>0, <1>3 DEF ConsumerType, ConsumerSteps
  <2>2. MapsType'
    BY <1>0, <1>3 DEF MapsType
  <2>3. RegisterInv'
    BY <1>0, <1>3, SameVolume DEF RegisterInv, Before, Children
  <2>4. VolumeInv'
    BY <1>0, <1>3, SameVolume DEF VolumeInv, Ready
  <2>5. ConsumerInv'
    BY <1>0, <1>3, SameVolume DEF ConsumerInv, VolumeInv, Complete, Ready, Cleaning, Procs
  <2>6. WhereInv'
    BY <1>0, <1>3 DEF WhereInv, Procs, Children
  <2> QED  BY <2>1, <2>2, <2>3, <2>4, <2>5, <2>6 DEF PublishInv
<1>4. CASE ConsumerKilled
  <2> USE DEF ConsumerKilled, ConsumerDies, Fault, kernel
  <2>1. ConsumerType'
    BY <1>0, <1>4 DEF ConsumerType, ConsumerSteps
  <2>2. MapsType'
    BY <1>0, <1>4 DEF MapsType
  <2>3. RegisterInv'
    BY <1>0, <1>4, SameVolume DEF RegisterInv, Before, Children
  <2>4. VolumeInv'
    BY <1>0, <1>4, SameVolume DEF VolumeInv, Ready
  <2>5. ConsumerInv'
    BY <1>0, <1>4, SameVolume DEF ConsumerInv, VolumeInv, Complete, Ready, Cleaning, Procs
  <2>6. WhereInv'
    BY <1>0, <1>4 DEF WhereInv, Procs, Children
  <2> QED  BY <2>1, <2>2, <2>3, <2>4, <2>5, <2>6 DEF PublishInv
<1> QED  BY <1>1, <1>2, <1>3, <1>4

\* a control child that moves on without writing,
LEMMA ChildOnlyMoves ==
    ASSUME ControlInv, PublishInv, NEW c \in Children,
           NEW pc \in {"started", "inside", "writing", "failed", "dead"}, NEW place,
           pc \in {"failed", "dead"} => place = "none",
           child[c].pc # "none" \/ ctl.pc = c,
           child' = [child EXCEPT ![c].pc = pc],
           home' = [home EXCEPT ![c] = place],
           UNCHANGED <<ctl, consumer, kernel>>, disturbed' \in Nat
    PROVE  PublishInv'
<1>0. /\ ChildType /\ PlaceType
      /\ ConsumerType /\ MapsType /\ RegisterInv /\ VolumeInv /\ ConsumerInv /\ WhereInv
  BY DEF ControlInv, ControlTypes, PublishInv
<1>1. /\ \A d \in Children : child'[d].i = child[d].i
                             /\ child'[d].pc = IF d = c THEN pc ELSE child[d].pc
      /\ \A p \in Procs : home'[p] = IF p = c THEN place ELSE home[p]
  BY <1>0 DEF ChildType, PlaceType, Procs, Children
<1>2. c \in Procs /\ c # "consumer" /\ c # "controller" /\ c \in {"register", "clear"}
  BY DEF Children, Procs
<1>3. home'["consumer"] = home["consumer"] /\ home'["controller"] = home["controller"]
  BY <1>1, <1>2 DEF Procs
<1>4. (AllWritten' <=> AllWritten) /\ (WrittenSoFar' <=> WrittenSoFar)
      /\ (AllRegistered' <=> AllRegistered) /\ (Complete' <=> Complete)
  BY SameVolume DEF kernel
<1>5. RegisteredSoFar' <=> RegisteredSoFar
  BY <1>1, SameVolume DEF kernel, Children
<1>6. ConsumerType' /\ MapsType'
  BY <1>0 DEF ConsumerType, MapsType, kernel
<1>7. RegisterInv'
  BY <1>0, <1>1, <1>2, <1>4, <1>5 DEF RegisterInv, Before, Children
<1>8. VolumeInv'
  BY <1>0, <1>4 DEF VolumeInv, kernel
<1>9. ConsumerInv'
  BY <1>0, <1>3, <1>4 DEF ConsumerInv
<1>10. WhereInv'
  BY <1>0, <1>1, <1>3 DEF WhereInv, Procs, Children
<1> QED  BY <1>6, <1>7, <1>8, <1>9, <1>10 DEF PublishInv

\* one that writes: the batch goes on, and what is cleared is no longer published,
LEMMA WritePublishes ==
    ASSUME ControlInv, PublishInv, NEW c \in Children, ChildWriteEnd(c)
    PROVE  PublishInv'
<1>0. /\ CtlType /\ ChildType /\ PlaceType
      /\ ConsumerType /\ MapsType /\ RegisterInv /\ VolumeInv /\ ConsumerInv /\ WhereInv
  BY DEF ControlInv, ControlTypes, PublishInv
<1>1. PICK pc \in {"exited", "dead", "inside"}, i \in Nat :
            /\ child' = [child EXCEPT ![c].i = i, ![c].pc = pc]
            /\ home' = IF pc = "inside" THEN home ELSE [home EXCEPT ![c] = "none"]
  BY WriteReturns
<1>2. /\ child[c].pc = "writing"
      /\ UNCHANGED <<ctl, consumer, cgroup, attached, views, generation, disturbed, result>>
  BY DEF ChildWriteEnd
<1>3. /\ \A d \in Children : child'[d].i = (IF d = c THEN i ELSE child[d].i)
                             /\ child'[d].pc = (IF d = c THEN pc ELSE child[d].pc)
      /\ \A p \in Procs : home'[p] = home[p] \/ (p = c /\ pc # "inside" /\ home'[p] = "none")
  BY <1>0, <1>1 DEF ChildType, PlaceType, Procs, Children
<1>4. c \in Procs /\ c # "consumer" /\ c # "controller"
  BY DEF Children, Procs
<1>5. home'["consumer"] = home["consumer"] /\ home'["controller"] = home["controller"]
  BY <1>3, <1>4 DEF Procs
<1>6. ConsumerType' /\ MapsType'
  BY <1>0, <1>2 DEF ConsumerType, MapsType
<1>7. WhereInv'
  <2>1. \A d \in Children : child'[d].pc \in {"none", "exited", "failed", "dead"} => home'[d] = "none"
    <3> SUFFICES ASSUME NEW d \in Children, child'[d].pc \in {"none", "exited", "failed", "dead"}
                 PROVE  home'[d] = "none"
      OBVIOUS
    <3>1. CASE d = c
      BY <1>0, <1>1, <1>3, <3>1 DEF PlaceType, Procs, Children
    <3>2. CASE d # c
      <4>1. child'[d].pc = child[d].pc /\ d \in Procs
        BY <1>3, <3>2 DEF Procs, Children
      <4>2. home'[d] = home[d]
        BY <1>3, <3>2, <4>1
      <4>3. home[d] = "none"
        BY <1>0, <4>1 DEF WhereInv
      <4> QED  BY <4>2, <4>3
    <3> QED  BY <3>1, <3>2
  <2> QED  BY <1>0, <1>2, <1>5, <2>1 DEF WhereInv
<1>8. (AllWritten' <=> AllWritten) /\ (WrittenSoFar' <=> WrittenSoFar)
  BY <1>2, SameVolume
<1>9. CASE c = "clear"
  <2>1. ctl.pc \in {"clear", "rmdir", "trees", "done"}
    BY <1>0, <1>2, <1>9 DEF RegisterInv
  <2>2. home["consumer"] # "cgroup"
    BY <1>0, <2>1 DEF ConsumerInv, Ready
  <2>3. RegisterInv'
    BY <1>0, <1>2, <1>3, <1>9, <2>1 DEF RegisterInv, Before, Children
  <2>4. VolumeInv'
    BY <1>0, <1>2, <2>1 DEF VolumeInv, Ready
  <2>5. ConsumerInv'
    BY <1>0, <1>2, <1>5, <2>1, <2>2 DEF ConsumerInv
  <2> QED  BY <1>6, <1>7, <2>3, <2>4, <2>5 DEF PublishInv
<1>10. CASE c = "register"
  <2>1. PICK n \in Batch : /\ ComesNext(n, child[c].i)
                           /\ targets' = targets \cup {SlotTarget(n)}
                           /\ ChildReturns(c, n, \A k \in Batch : k <= n)
    BY <1>10 DEF ChildWriteEnd
  <2>2. /\ child'["register"].i = n
        /\ child'["register"].pc = "exited" => \A k \in Batch : k <= n
        /\ child'["register"].pc # "none" /\ child'["clear"].pc = child["clear"].pc
    BY <1>0, <1>10, <2>1 DEF ChildReturns, ChildType, Children
  <2>3. \A k \in Batch : k \in Nat
    BY BatchType, Zenon
  <2>4. child[c].i \in Nat
    BY <1>0 DEF ChildType
  <2>5. RegisteredSoFar => RegisteredSoFar'
    <3> SUFFICES ASSUME RegisteredSoFar, NEW k \in Batch, k <= n
                 PROVE  SlotTarget(k) \in targets'
      BY <2>2, Zenon DEF RegisteredSoFar
    <3>1. CASE k <= child[c].i
      BY <1>10, <2>1, <3>1 DEF RegisteredSoFar
    <3>2. CASE k > child[c].i
      <4>1. n <= k
        BY <2>1, <3>2 DEF ComesNext
      <4>2. n = k
        <5>1. k \in Nat /\ n \in Nat
          BY <2>3, Zenon
        <5> QED  BY ONLY <4>1, <5>1, k <= n
      <4>3. SlotTarget(k) = SlotTarget(n)
        BY <4>2, Zenon
      <4> QED  BY ONLY <2>1, <4>3
    <3>3. k \in Nat
      BY <2>3, Zenon
    <3>4. k <= child[c].i \/ k > child[c].i
      BY ONLY <2>4, <3>3
    <3> QED  BY <3>1, <3>2, <3>4, Zenon
  <2>6. RegisteredSoFar' /\ child'["register"].pc = "exited" => AllRegistered'
    BY <2>2 DEF RegisteredSoFar, AllRegistered
  <2>7. AllRegistered => AllRegistered'
    BY <2>1 DEF AllRegistered
  <2>8. RegisterInv'
    BY <1>0, <1>2, <1>10, <2>2, <2>5, <2>6 DEF RegisterInv
  <2>9. VolumeInv'
    BY <1>0, <1>2, <1>8, <2>7 DEF VolumeInv
  <2>10. ConsumerInv'
    BY <1>0, <1>2, <1>5, <1>8, <2>7 DEF ConsumerInv, Complete
  <2> QED  BY <1>6, <1>7, <2>8, <2>9, <2>10 DEF PublishInv
<1> QED  BY <1>9, <1>10 DEF Children

\* and the controller that goes on with what a child has made of its command.
LEMMA WaitedPublishes ==
    ASSUME ControlInv, PublishInv, NEW c \in Children, ctl.pc = c, NEW e \in Errors,
           ctl' = Waited(c, e), c = "register" /\ e = "ok" => AllRegistered,
           \A d \in Children : child'[d].pc = child[d].pc /\ child'[d].i = child[d].i,
           UNCHANGED <<home, consumer, kernel>>, disturbed' \in Nat
    PROVE  PublishInv'
<1>0. /\ CtlType /\ PlaceType
      /\ ConsumerType /\ MapsType /\ RegisterInv /\ VolumeInv /\ ConsumerInv /\ WhereInv
  BY DEF ControlInv, ControlTypes, PublishInv
<1>1. /\ ctl'.undo = ctl.undo
      /\ \/ c = "register" /\ e = "ok" /\ ctl'.pc = "configure" /\ ctl'.k = 1
         \/ c = "register" /\ ctl'.pc = "stop"
         \/ c = "clear" /\ ctl'.pc = "rmdir"
  BY <1>0 DEF CtlType, Waited, Children
<1>2. (AllWritten' <=> AllWritten) /\ (AllRegistered' <=> AllRegistered) /\ (Complete' <=> Complete)
  BY SameVolume DEF kernel
<1>3. ConsumerType' /\ MapsType'
  BY <1>0 DEF ConsumerType, MapsType, kernel
<1>4. RegisterInv'
  BY <1>0, <1>1 DEF RegisterInv, Before, Children
<1>5. VolumeInv'
  <2>1. ctl'.pc = "configure" => ctl'.k \in Slots /\ WrittenSoFar'
    <3>1. 1 \in Slots /\ \A k \in Slots : ~(k < 1)
      BY FirstEntry DEF Slots
    <3> QED  BY <1>1, <3>1 DEF WrittenSoFar
  <2> QED  BY <1>0, <1>1, <1>2, <2>1 DEF VolumeInv, Ready, kernel
<1>6. ConsumerInv'
  BY <1>0, <1>1, <1>2 DEF ConsumerInv, Ready, Cleaning
<1>7. WhereInv'
  BY <1>0, <1>1 DEF WhereInv, Children
<1> QED  BY <1>3, <1>4, <1>5, <1>6, <1>7 DEF PublishInv

\* Every step of a control child and of the wait for it.
LEMMA ChildPublishes ==
    ASSUME ControlInv, PublishInv, NEW c \in Children,
           \/ ChildMove(c) \/ ChildWriteBegin(c) \/ ChildWriteEnd(c) \/ ChildFails(c)
           \/ ChildDies(c)
           \/ ForkChild(c) \/ ForkFails(c) \/ WaitChild(c) \/ WaitTimesOut(c)
    PROVE  PublishInv'
<1>0. ChildType /\ PlaceType /\ disturbed \in Nat /\ RegisterInv
  BY DEF ControlInv, ControlTypes, PublishInv, MapsType
<1>1. CASE ChildMove(c)
  BY <1>0, <1>1, ChildOnlyMoves DEF ChildMove, ChildBecomes
<1>2. CASE ChildWriteBegin(c)
  <2>1. home' = [home EXCEPT ![c] = home[c]]
    BY <1>0, <1>2 DEF ChildWriteBegin, PlaceType
  <2>2. /\ child[c].pc # "none" /\ child' = [child EXCEPT ![c].pc = "writing"]
        /\ UNCHANGED <<ctl, consumer, kernel>> /\ disturbed' \in Nat
    BY <1>0, <1>2 DEF ChildWriteBegin, ChildBecomes
  <2> QED  BY <2>1, <2>2, ChildOnlyMoves
<1>3. CASE ChildWriteEnd(c)
  BY <1>3, WritePublishes
<1>4. CASE ChildFails(c)
  <2>1. /\ child[c].pc # "none" /\ child' = [child EXCEPT ![c].pc = "failed"]
        /\ home' = [home EXCEPT ![c] = "none"]
        /\ UNCHANGED <<ctl, consumer, kernel>>
    BY <1>4 DEF ChildFails, ChildBecomes, Running
  <2>2. disturbed' \in Nat
    BY <1>0, <1>4 DEF ChildFails, Fault
  <2> QED  BY <2>1, <2>2, ChildOnlyMoves
<1>5. CASE ChildDies(c)
  BY <1>0, <1>5, ChildOnlyMoves DEF ChildDies, ChildBecomes, Running
<1>6. CASE ForkChild(c)
  BY <1>0, <1>6, ChildOnlyMoves DEF ForkChild, ChildBecomes
<1>7. CASE ForkFails(c)
  BY <1>0, <1>7, WaitedPublishes DEF ForkFails, Fault, Errors
<1>8. CASE WaitChild(c)
  <2>1. PICK e \in {"ok", "EIO"} : e = IF child[c].pc = "exited" THEN "ok" ELSE "EIO"
    OBVIOUS
  <2>2. ctl' = Waited(c, e) /\ ctl.pc = c /\ UNCHANGED <<child, home, consumer, kernel>>
        /\ disturbed' \in Nat
    BY <1>0, <1>8, <2>1, Zenon DEF WaitChild
  <2>3. c = "register" /\ e = "ok" => AllRegistered
    BY <1>0, <2>1, <2>2 DEF RegisterInv
  <2>4. e \in Errors
    BY <2>1 DEF Errors
  <2> QED  BY <2>2, <2>3, <2>4, WaitedPublishes
<1>9. CASE WaitTimesOut(c)
  <2>1. \A d \in Children : child'[d].pc = child[d].pc /\ child'[d].i = child[d].i
    BY <1>0, <1>9 DEF WaitTimesOut, ChildType
  <2>2. ctl' = Waited(c, "ETIMEDOUT") /\ ctl.pc = c /\ UNCHANGED <<home, consumer, kernel>>
        /\ disturbed' \in Nat
    BY <1>0, <1>9 DEF WaitTimesOut, TimeoutError
  <2>3. "ETIMEDOUT" \in Errors /\ "ETIMEDOUT" # "ok"
    BY DEF Errors
  <2> QED  BY <2>1, <2>2, <2>3, WaitedPublishes
<1> QED  BY <1>1, <1>2, <1>3, <1>4, <1>5, <1>6, <1>7, <1>8, <1>9

\* What publication rests on holds at the start,
LEMMA PublishStart == Init => PublishInv
<1> SUFFICES ASSUME Init  PROVE PublishInv
  OBVIOUS
<1>1. ConsumerType
  BY FirstEntry DEF Init, ConsumerType, ConsumerSteps
<1>2. MapsType
  BY DEF Init, MapsType, Marks
<1>3. RegisterInv /\ VolumeInv
  BY DEF Init, RegisterInv, VolumeInv, Ready, Children
<1>4. ConsumerInv /\ WhereInv
  BY DEF Init, ConsumerInv, WhereInv, Cleaning, Procs, Children
<1> QED  BY <1>1, <1>2, <1>3, <1>4 DEF PublishInv

\* is kept by an operation that fails,
LEMMA FailurePublishes ==
    ASSUME ControlInv, PublishInv,
           NEW pc \in {"start", "attach", "setup", "files", "move", "publish", "enter", "unmanaged"},
           FailsAt(pc)
    PROVE  PublishInv'
<1>0. /\ CtlType /\ ConsumerType /\ MapsType /\ RegisterInv /\ VolumeInv /\ ConsumerInv /\ WhereInv
      /\ UndoInv
  BY DEF ControlInv, ControlTypes, PublishInv
<1>1. /\ ctl.pc = pc /\ ctl'.pc = "stop" /\ ctl'.undo = ctl.undo
      /\ UNCHANGED <<child, home, consumer, attached, targets, views, generation>>
  BY <1>0 DEF FailsAt, Fails, CtlType, kernel
<1>2. disturbed' \in Nat
  BY <1>0 DEF FailsAt, Fault, MapsType
<1>3. ConsumerType' /\ MapsType'
  BY <1>0, <1>1, <1>2 DEF ConsumerType, MapsType
<1>4. RegisterInv' /\ VolumeInv'
  BY <1>0, <1>1 DEF RegisterInv, VolumeInv, Before, Ready
<1>5. ConsumerInv'
  BY <1>0, <1>1, SameVolume DEF ConsumerInv, Cleaning
<1>6. WhereInv'
  BY <1>0, <1>1 DEF WhereInv
<1> QED  BY <1>3, <1>4, <1>5, <1>6 DEF PublishInv

\* and by every other step.
LEMMA PublishStep == ControlInv /\ PublishInv /\ [Next]_vars => PublishInv'
<1> SUFFICES ASSUME ControlInv, PublishInv, [Next]_vars  PROVE PublishInv'
  OBVIOUS
<1>1. CASE UNCHANGED vars
  BY <1>1, SameVolume DEF vars, kernel, PublishInv, ConsumerType, MapsType, RegisterInv, VolumeInv,
     ConsumerInv, WhereInv
<1>2. CASE Exited
  BY <1>1, <1>2 DEF Exited
<1> QED
  BY <1>1, <1>2, SetupPublishes, RunPublishes, CleanupPublishes, ConsumerPublishes, ChildPublishes,
     FailurePublishes DEF Next, Controller, Consumer

\* The invariant of publication holds always.
THEOREM PublishInvariant == Spec => [](ControlInv /\ PublishInv)
<1>1. Init => ControlInv /\ PublishInv
  BY ControlStart, PublishStart
<1>2. ControlInv /\ PublishInv /\ [Next]_vars => (ControlInv /\ PublishInv)'
  BY ControlStep, PublishStep
<1> QED  BY <1>1, <1>2, PTL DEF Spec

\* For every volume and every number of failing calls, slow children and dead
\* consumers: at any moment at which the consumer is in the cgroup and a generation is
\* published, every path of the volume is what that generation holds.
THEOREM PublishedComplete == Spec => []PublishedIsComplete
<1>1. PublishInv => PublishedIsComplete
  <2> SUFFICES ASSUME PublishInv, home["consumer"] = "cgroup", generation # Nil, NEW e \in Names
               PROVE  Resolve("consumer", e) = Payload(generation, e)
    BY DEF PublishedIsComplete
  <2>1. Complete /\ generation \in {0, 1}
    BY DEF PublishInv, ConsumerInv, MapsType
  <2> QED  BY <2>1, CompleteResolves
<1> QED  BY <1>1, PublishInvariant, PTL

-----------------------------------------------------------------------------
(* A lifecycle that nothing disturbs.                                      *)

\* Undisturbed, the way to the running volume meets no error,
LEMMA SetupQuiet ==
    ASSUME ControlInv, PublishInv, Quiet, disturbed = 0, disturbed' = 0,
           \/ StartConsumer
           \/ LoadAttach
           \/ SetupDirectories
           \/ SetupFiles
           \/ ConfigureMaps
           \/ MoveConsumer
           \/ MoveFails
           \/ Publish
    PROVE  Quiet'
<1>0. /\ CtlType /\ ChildType /\ PlaceType /\ ConsumerType /\ UndoInv
      /\ RegisterInv /\ VolumeInv /\ ConsumerInv /\ WhereInv
      /\ QuietController /\ QuietChildren /\ QuietConsumer
  BY DEF ControlInv, ControlTypes, PublishInv, Quiet
<1> USE DEF CtlType, ChildType, PlaceType, ConsumerType
<1>1. CASE StartConsumer
  <2> USE DEF StartConsumer, kernel
  <2>1. QuietController'
    BY <1>0, <1>1 DEF QuietController, Cleaning
  <2>2. QuietChildren'
    BY <1>0, <1>1 DEF QuietChildren, RegisterInv, Children
  <2>3. QuietConsumer'
    BY <1>0, <1>1 DEF QuietConsumer, ConsumerInv, Ready, Procs
  <2> QED  BY <2>1, <2>2, <2>3 DEF Quiet
<1>2. CASE LoadAttach
  <2> USE DEF LoadAttach, kernel
  <2>1. QuietController'
    BY <1>0, <1>2 DEF QuietController, Cleaning
  <2>2. QuietChildren'
    BY <1>0, <1>2 DEF QuietChildren, Children
  <2>3. QuietConsumer'
    BY <1>0, <1>2 DEF QuietConsumer, ConsumerInv, Ready, Procs
  <2> QED  BY <2>1, <2>2, <2>3 DEF Quiet
<1>3. CASE SetupDirectories
  <2> USE DEF SetupDirectories, kernel
  <2>1. QuietController'
    BY <1>0, <1>3 DEF QuietController, Cleaning
  <2>2. QuietChildren'
    BY <1>0, <1>3 DEF QuietChildren, Children
  <2>3. QuietConsumer'
    BY <1>0, <1>3 DEF QuietConsumer, ConsumerInv, Ready, Procs
  <2> QED  BY <2>1, <2>2, <2>3 DEF Quiet
<1>4. CASE SetupFiles
  <2> USE DEF SetupFiles, kernel
  <2>1. QuietController'
    BY <1>0, <1>4 DEF QuietController, Cleaning
  <2>2. QuietChildren'
    BY <1>0, <1>4 DEF QuietChildren, Children
  <2>3. QuietConsumer'
    BY <1>0, <1>4 DEF QuietConsumer, ConsumerInv, Ready, Procs
  <2> QED  BY <2>1, <2>2, <2>3 DEF Quiet
<1>5. CASE ConfigureMaps
  <2> USE DEF ConfigureMaps, kernel
  <2>1. QuietController'
    BY <1>0, <1>5 DEF QuietController, Cleaning
  <2>2. QuietChildren'
    BY <1>0, <1>5 DEF QuietChildren, Children
  <2>3. QuietConsumer'
    BY <1>0, <1>5 DEF QuietConsumer, ConsumerInv, Ready, Procs
  <2> QED  BY <2>1, <2>2, <2>3 DEF Quiet
<1>6. CASE MoveConsumer
  <2> USE DEF MoveConsumer, Goto, kernel
  <2>1. QuietController'
    BY <1>0, <1>6 DEF QuietController, Cleaning
  <2>2. QuietChildren'
    BY <1>0, <1>6 DEF QuietChildren, Children
  <2>3. QuietConsumer'
    BY <1>0, <1>6 DEF QuietConsumer, ConsumerInv, Ready, Procs
  <2> QED  BY <2>1, <2>2, <2>3 DEF Quiet
<1>7. CASE MoveFails
  BY <1>0, <1>7 DEF MoveFails, QuietConsumer, Ready
<1>8. CASE Publish
  <2> USE DEF Publish, kernel
  <2>1. QuietController'
    BY <1>0, <1>8 DEF QuietController, Cleaning
  <2>2. QuietChildren'
    BY <1>0, <1>8 DEF QuietChildren, Children
  <2>3. QuietConsumer'
    BY <1>0, <1>8 DEF QuietConsumer, ConsumerInv, Ready, Procs
  <2> QED  BY <2>1, <2>2, <2>3 DEF Quiet
<1> QED  BY <1>1, <1>2, <1>3, <1>4, <1>5, <1>6, <1>7, <1>8

\* every state is confirmed and replayed,
LEMMA RunQuiet ==
    ASSUME ControlInv, PublishInv, Quiet, disturbed = 0, disturbed' = 0,
           \/ Send
           \/ BrokenPipe
           \/ Await
           \/ AwaitFails
           \/ Enter
           \/ Replay
           \/ Validate
           \/ Leave
           \/ Unmanaged
    PROVE  Quiet'
<1>0. /\ CtlType /\ ChildType /\ PlaceType /\ ConsumerType /\ UndoInv
      /\ RegisterInv /\ VolumeInv /\ ConsumerInv /\ WhereInv
      /\ QuietController /\ QuietChildren /\ QuietConsumer
  BY DEF ControlInv, ControlTypes, PublishInv, Quiet
<1> USE DEF CtlType, ChildType, PlaceType, ConsumerType
<1>1. CASE Send
  <2> USE DEF Send, Goto, kernel
  <2>1. QuietController'
    BY <1>0, <1>1 DEF QuietController, Cleaning
  <2>2. QuietChildren'
    BY <1>0, <1>1 DEF QuietChildren, Children
  <2>3. QuietConsumer'
    BY <1>0, <1>1 DEF QuietConsumer, ConsumerInv, Ready, Procs
  <2> QED  BY <2>1, <2>2, <2>3 DEF Quiet
<1>2. CASE BrokenPipe
  BY <1>0, <1>2 DEF BrokenPipe, QuietConsumer, Ready
<1>3. CASE Await
  <2> USE DEF Await, kernel
  <2>1. QuietController'
    BY <1>0, <1>3 DEF QuietController, Cleaning
  <2>2. QuietChildren'
    BY <1>0, <1>3 DEF QuietChildren, Children
  <2>3. QuietConsumer'
    BY <1>0, <1>3 DEF QuietConsumer, ConsumerInv, Ready, Procs
  <2> QED  BY <2>1, <2>2, <2>3 DEF Quiet
<1>4. CASE AwaitFails
  BY <1>0, <1>4 DEF AwaitFails, QuietConsumer, Ready
<1>5. CASE Enter
  <2> USE DEF Enter, kernel
  <2>1. QuietController'
    BY <1>0, <1>5 DEF QuietController, Cleaning
  <2>2. QuietChildren'
    BY <1>0, <1>5 DEF QuietChildren, Children
  <2>3. QuietConsumer'
    BY <1>0, <1>5 DEF QuietConsumer, ConsumerInv, Ready, Procs
  <2> QED  BY <2>1, <2>2, <2>3 DEF Quiet
<1>6. CASE Replay
  <2> USE DEF Replay, Goto, kernel
  <2>1. QuietController'
    BY <1>0, <1>6 DEF QuietController, Cleaning
  <2>2. QuietChildren'
    BY <1>0, <1>6 DEF QuietChildren, Children
  <2>3. QuietConsumer'
    BY <1>0, <1>6 DEF QuietConsumer, ConsumerInv, Ready, Procs
  <2> QED  BY <2>1, <2>2, <2>3 DEF Quiet
<1>7. CASE Validate
  <2> USE DEF Validate, kernel
  <2>1. QuietController'
    <3>1. Complete /\ home["controller"] = "cgroup" /\ generation = Generations[ctl.k]
      BY <1>0, <1>7 DEF VolumeInv, Complete, Ready, WhereInv, QuietController
    <3>2. generation \in {0, 1}
      BY <1>0, <1>7, <3>1, StatesType DEF VolumeInv, Ready
    <3>3. \A e \in Names : Resolve("controller", e) = Payload(Generations[ctl.k], e)
      BY <3>1, <3>2, CompleteResolves
    <3>4. ctl' = [ctl EXCEPT !.pc = IF ctl.k = 4 THEN "leave" ELSE "replay",
                             !.k = IF @ = 4 THEN 1 ELSE @ + 1]
      BY <1>7, <3>3, Zenon
    <3> QED  BY <1>0, <3>4 DEF QuietController, Cleaning
  <2>2. QuietChildren'
    BY <1>0, <1>7 DEF QuietChildren, Children
  <2>3. QuietConsumer'
    BY <1>0, <1>7 DEF QuietConsumer, ConsumerInv, Ready, Procs
  <2> QED  BY <2>1, <2>2, <2>3 DEF Quiet
<1>8. CASE Leave
  <2> USE DEF Leave, kernel
  <2>1. QuietController'
    BY <1>0, <1>8 DEF QuietController, Cleaning
  <2>2. QuietChildren'
    BY <1>0, <1>8 DEF QuietChildren, Children
  <2>3. QuietConsumer'
    BY <1>0, <1>8 DEF QuietConsumer, ConsumerInv, Ready, Procs
  <2> QED  BY <2>1, <2>2, <2>3 DEF Quiet
<1>9. CASE Unmanaged
  <2> USE DEF Unmanaged, Goto, Fails, kernel
  <2>1. QuietController'
    <3>1. home["controller"] # "cgroup"
      BY <1>0, <1>9 DEF WhereInv
    <3>2. \A e \in Names : Resolve("controller", e) = Placeholder
      BY <3>1 DEF Resolve, Decision
    <3>3. ctl' = [ctl EXCEPT !.pc = "stop"]
      BY <1>9, <3>2, Zenon
    <3> QED  BY <1>0, <3>3 DEF QuietController, Cleaning
  <2>2. QuietChildren'
    BY <1>0, <1>9 DEF QuietChildren, Children
  <2>3. QuietConsumer'
    BY <1>0, <1>9 DEF QuietConsumer, ConsumerInv, Ready, Procs
  <2> QED  BY <2>1, <2>2, <2>3 DEF Quiet
<1> QED  BY <1>1, <1>2, <1>3, <1>4, <1>5, <1>6, <1>7, <1>8, <1>9

\* the cleanup undoes everything,
LEMMA CleanupQuiet ==
    ASSUME ControlInv, PublishInv, Quiet, disturbed = 0, disturbed' = 0,
           \/ SkipStep
           \/ StopConsumer
           \/ ReapConsumer
           \/ Unpublish
           \/ Unconfigure
           \/ PolicyDestroy
           \/ RmdirCgroup
           \/ Report
           \/ ReleaseCgroup
    PROVE  Quiet'
<1>0. /\ CtlType /\ ChildType /\ PlaceType /\ ConsumerType /\ UndoInv
      /\ RegisterInv /\ VolumeInv /\ ConsumerInv /\ WhereInv
      /\ QuietController /\ QuietChildren /\ QuietConsumer
  BY DEF ControlInv, ControlTypes, PublishInv, Quiet
<1> USE DEF CtlType, ChildType, PlaceType, ConsumerType
<1>1. CASE SkipStep
  <2> USE DEF SkipStep, Skip, Goto, kernel
  <2>1. QuietController'
    BY <1>0, <1>1 DEF QuietController, Cleaning
  <2>2. QuietChildren'
    BY <1>0, <1>1 DEF QuietChildren, Children
  <2>3. QuietConsumer'
    BY <1>0, <1>1 DEF QuietConsumer, ConsumerInv, Ready, Procs
  <2> QED  BY <2>1, <2>2, <2>3 DEF Quiet
<1>2. CASE StopConsumer
  <2> USE DEF StopConsumer, Goto, kernel
  <2>1. QuietController'
    BY <1>0, <1>2 DEF QuietController, Cleaning
  <2>2. QuietChildren'
    BY <1>0, <1>2 DEF QuietChildren, Children
  <2>3. QuietConsumer'
    BY <1>0, <1>2 DEF QuietConsumer, ConsumerInv, Ready, Procs
  <2> QED  BY <2>1, <2>2, <2>3 DEF Quiet
<1>3. CASE ReapConsumer
  <2> USE DEF ReapConsumer, Goto, Spoils, kernel
  <2>1. QuietController'
    BY <1>0, <1>3 DEF QuietController, QuietConsumer, Cleaning
  <2>2. QuietChildren'
    BY <1>0, <1>3 DEF QuietChildren, Children
  <2>3. QuietConsumer'
    BY <1>0, <1>3 DEF QuietConsumer, ConsumerInv, Ready, Procs
  <2> QED  BY <2>1, <2>2, <2>3 DEF Quiet
<1>4. CASE Unpublish
  <2> USE DEF Unpublish, Goto, Spoils, Fault, kernel
  <2>1. QuietController'
    BY <1>0, <1>4 DEF QuietController, Cleaning
  <2>2. QuietChildren'
    BY <1>0, <1>4 DEF QuietChildren, Children
  <2>3. QuietConsumer'
    BY <1>0, <1>4 DEF QuietConsumer, ConsumerInv, Ready, Procs
  <2> QED  BY <2>1, <2>2, <2>3 DEF Quiet
<1>5. CASE Unconfigure
  <2> USE DEF Unconfigure, Goto, Spoils, Fault, kernel
  <2>1. QuietController'
    BY <1>0, <1>5 DEF QuietController, Cleaning
  <2>2. QuietChildren'
    BY <1>0, <1>5 DEF QuietChildren, Children
  <2>3. QuietConsumer'
    BY <1>0, <1>5 DEF QuietConsumer, ConsumerInv, Ready, Procs
  <2> QED  BY <2>1, <2>2, <2>3 DEF Quiet
<1>6. CASE PolicyDestroy
  <2> USE DEF PolicyDestroy, Goto, Spoils, Fault, kernel
  <2>1. QuietController'
    BY <1>0, <1>6 DEF QuietController, Cleaning
  <2>2. QuietChildren'
    BY <1>0, <1>6 DEF QuietChildren, Children
  <2>3. QuietConsumer'
    BY <1>0, <1>6 DEF QuietConsumer, ConsumerInv, Ready, Procs
  <2> QED  BY <2>1, <2>2, <2>3 DEF Quiet
<1>7. CASE RmdirCgroup
  <2> USE DEF RmdirCgroup, Goto, Spoils, kernel
  <2>0. ctl' = [ctl EXCEPT !.pc = "trees"] /\ UNCHANGED <<child, home, consumer, generation>>
    <3>1. home["controller"] # "cgroup"
      BY <1>0, <1>7 DEF WhereInv, QuietController, Cleaning
    <3>2. home["consumer"] # "cgroup"
      BY <1>0, <1>7 DEF ConsumerInv, Cleaning
    <3>3. home["register"] # "cgroup" /\ home["clear"] # "cgroup"
      BY <1>0, <1>7 DEF WhereInv, QuietChildren, Children
    <3>4. \A q \in Procs : home[q] # "cgroup"
      BY <3>1, <3>2, <3>3 DEF Procs
    <3> QED  BY <1>7, <3>4, Zenon
  <2>1. QuietController'
    BY <1>0, <1>7, <2>0 DEF QuietController, Cleaning
  <2>2. QuietChildren'
    BY <1>0, <1>7 DEF QuietChildren, Children
  <2>3. QuietConsumer'
    BY <1>0, <1>7, <2>0 DEF QuietConsumer, Ready
  <2> QED  BY <2>1, <2>2, <2>3 DEF Quiet
<1>8. CASE Report
  <2> USE DEF Report, Spoils, Fault, kernel
  <2>1. QuietController'
    BY <1>0, <1>8 DEF QuietController, Cleaning
  <2>2. QuietChildren'
    BY <1>0, <1>8 DEF QuietChildren, Children
  <2>3. QuietConsumer'
    BY <1>0, <1>8 DEF QuietConsumer, ConsumerInv, Ready, Procs
  <2> QED  BY <2>1, <2>2, <2>3 DEF Quiet
<1>9. CASE ReleaseCgroup
  <2> USE DEF ReleaseCgroup, kernel
  <2>1. QuietController'
    BY <1>0, <1>9 DEF QuietController, Cleaning
  <2>2. QuietChildren'
    BY <1>0, <1>9 DEF QuietChildren, Children
  <2>3. QuietConsumer'
    BY <1>0, <1>9 DEF QuietConsumer, ConsumerInv, Ready, Procs
  <2> QED  BY <2>1, <2>2, <2>3 DEF Quiet
<1> QED  BY <1>1, <1>2, <1>3, <1>4, <1>5, <1>6, <1>7, <1>8, <1>9

\* the consumer finds what it was asked about,
LEMMA ConsumerQuiet ==
    ASSUME ControlInv, PublishInv, Quiet, disturbed = 0, disturbed' = 0,
           \/ ConsumerCheck
           \/ ConsumerPrint
           \/ ConsumerQuits
    PROVE  Quiet'
<1>0. /\ CtlType /\ ChildType /\ PlaceType /\ ConsumerType /\ UndoInv
      /\ RegisterInv /\ VolumeInv /\ ConsumerInv /\ WhereInv
      /\ QuietController /\ QuietChildren /\ QuietConsumer
  BY DEF ControlInv, ControlTypes, PublishInv, Quiet
<1> USE DEF CtlType, ChildType, PlaceType, ConsumerType
<1>1. CASE ConsumerCheck
  <2> USE DEF ConsumerCheck, ConsumerDies, kernel
  <2>0. /\ UNCHANGED <<ctl, child, home, generation>>
        /\ \/ consumer' = [consumer EXCEPT !.pc = "waiting", !.ack = "ok"]
           \/ consumer' = [consumer EXCEPT !.i = @ + 1]
    <3>1. ctl.pc = "await" /\ consumer.state = ctl.k /\ ctl.k \in 1..4 /\ generation = Generations[ctl.k]
      BY <1>0, <1>1 DEF QuietConsumer, QuietController, VolumeInv, Ready
    <3>2. Complete /\ home["consumer"] = "cgroup"
      BY <1>0, <3>1 DEF QuietConsumer, ConsumerInv, Ready
    <3>3. generation = (IF SecondGeneration(consumer.state) THEN 1 ELSE 0)
      BY <3>1 DEF SecondGeneration, Generations
    <3>4. Entries[consumer.i] \in Names
      BY <1>0, ControlConstants DEF Names, ToSet
    <3>5. generation \in {0, 1}
      BY <3>3
    <3>6. Resolve("consumer", Entries[consumer.i]) = Payload(generation, Entries[consumer.i])
      BY <3>2, <3>4, <3>5, CompleteResolves
    <3> QED  BY <1>1, <3>3, <3>6
  <2>1. QuietController'
    BY <1>0, <1>1 DEF QuietController, Cleaning
  <2>2. QuietChildren'
    BY <1>0, <1>1 DEF QuietChildren, Children
  <2>3. QuietConsumer'
    BY <1>0, <1>1, <2>0 DEF QuietConsumer, Ready
  <2> QED  BY <2>1, <2>2, <2>3 DEF Quiet
<1>2. CASE ConsumerPrint
  <2> USE DEF ConsumerPrint, kernel
  <2>1. QuietController'
    BY <1>0, <1>2 DEF QuietController, Cleaning
  <2>2. QuietChildren'
    BY <1>0, <1>2 DEF QuietChildren, Children
  <2>3. QuietConsumer'
    BY <1>0, <1>2 DEF QuietConsumer, ConsumerInv, Ready, Procs
  <2> QED  BY <2>1, <2>2, <2>3 DEF Quiet
<1>3. CASE ConsumerQuits
  <2> USE DEF ConsumerQuits, ConsumerDies, kernel
  <2>1. QuietController'
    BY <1>0, <1>3 DEF QuietController, Cleaning
  <2>2. QuietChildren'
    BY <1>0, <1>3 DEF QuietChildren, Children
  <2>3. QuietConsumer'
    BY <1>0, <1>3 DEF QuietConsumer, ConsumerInv, Ready, Procs
  <2> QED  BY <2>1, <2>2, <2>3 DEF Quiet
<1> QED  BY <1>1, <1>2, <1>3

\* and a control child ends with its command done.
LEMMA ChildQuiet ==
    ASSUME ControlInv, PublishInv, Quiet, disturbed = 0, disturbed' = 0, NEW c \in Children,
           \/ ChildMove(c)
           \/ ChildWriteBegin(c)
           \/ ChildWriteEnd(c)
           \/ ChildDies(c)
           \/ ForkChild(c)
           \/ WaitChild(c)
    PROVE  Quiet'
<1>0. /\ CtlType /\ ChildType /\ PlaceType /\ ConsumerType /\ UndoInv
      /\ RegisterInv /\ VolumeInv /\ ConsumerInv /\ WhereInv
      /\ QuietController /\ QuietChildren /\ QuietConsumer
  BY DEF ControlInv, ControlTypes, PublishInv, Quiet
<1> USE DEF CtlType, ChildType, PlaceType, ConsumerType
<1>1. CASE ChildMove(c)
  <2> USE DEF ChildMove, ChildBecomes, kernel
  <2>1. QuietController'
    BY <1>0, <1>1 DEF QuietController, Cleaning
  <2>2. QuietChildren'
    BY <1>0, <1>1 DEF QuietChildren, Children
  <2>3. QuietConsumer'
    BY <1>0, <1>1 DEF QuietConsumer, ConsumerInv, Ready, Procs
  <2> QED  BY <2>1, <2>2, <2>3 DEF Quiet
<1>2. CASE ChildWriteBegin(c)
  <2> USE DEF ChildWriteBegin, ChildBecomes, kernel
  <2>1. QuietController'
    BY <1>0, <1>2 DEF QuietController, Cleaning
  <2>2. QuietChildren'
    BY <1>0, <1>2 DEF QuietChildren, Children
  <2>3. QuietConsumer'
    BY <1>0, <1>2 DEF QuietConsumer, ConsumerInv, Ready, Procs
  <2> QED  BY <2>1, <2>2, <2>3 DEF Quiet
<1>3. CASE ChildWriteEnd(c)
  <2> USE DEF ChildWriteEnd, kernel
  <2>0. PICK pc \in {"exited", "dead", "inside"}, i \in Nat :
            /\ child' = [child EXCEPT ![c].i = i, ![c].pc = pc]
            /\ home' = IF pc = "inside" THEN home ELSE [home EXCEPT ![c] = "none"]
            /\ pc = "dead" <=> child[c].killed
    BY <1>3, WriteReturns
  <2>a. child[c].pc = "writing" /\ UNCHANGED <<ctl, consumer>>
    BY <1>3
  <2>1. QuietController'
    BY <1>0, <1>3 DEF QuietController, Cleaning
  <2>2. QuietChildren'
    BY <1>0, <2>0, <2>a DEF QuietChildren, Children
  <2>3. QuietConsumer'
    <3>1. home'["consumer"] = home["consumer"]
      BY <1>0, <2>0 DEF Procs, Children
    <3> QED  BY <1>0, <2>a, <3>1 DEF QuietConsumer
  <2> QED  BY <2>1, <2>2, <2>3 DEF Quiet
<1>4. CASE ChildDies(c)
  BY <1>0, <1>4 DEF ChildDies, QuietChildren
<1>5. CASE ForkChild(c)
  <2> USE DEF ForkChild, ChildBecomes, kernel
  <2>1. QuietController'
    BY <1>0, <1>5 DEF QuietController, Cleaning
  <2>2. QuietChildren'
    BY <1>0, <1>5 DEF QuietChildren, Children
  <2>3. QuietConsumer'
    BY <1>0, <1>5 DEF QuietConsumer, ConsumerInv, Ready, Procs
  <2> QED  BY <2>1, <2>2, <2>3 DEF Quiet
<1>6. CASE WaitChild(c)
  <2> USE DEF WaitChild, Waited, kernel
  <2>0. /\ UNCHANGED <<child, home, consumer, generation>> /\ ctl.pc = c
        /\ ctl'.ret = ctl.ret /\ ctl'.cleanup = ctl.cleanup /\ ctl'.undo = ctl.undo
        /\ ctl'.pc = IF c = "register" THEN "configure" ELSE "rmdir"
    <3>1. child[c].pc = "exited"
      BY <1>0, <1>6 DEF QuietChildren
    <3>2. ctl' = Waited(c, "ok")
      BY <1>6, <3>1
    <3>3. ctl.ret = "ok"
      BY <1>0 DEF QuietController
    <3> QED  BY <1>0, <1>6, <3>2, <3>3
  <2>1. QuietController'
    BY <1>0, <2>0 DEF QuietController, Cleaning, Children
  <2>2. QuietChildren'
    BY <1>0, <1>6 DEF QuietChildren, Children
  <2>3. QuietConsumer'
    BY <1>0, <2>0 DEF QuietConsumer, Ready, Children
  <2> QED  BY <2>1, <2>2, <2>3 DEF Quiet
<1> QED  BY <1>1, <1>2, <1>3, <1>4, <1>5, <1>6

\* A lifecycle starts undisturbed,
LEMMA QuietStart == Init => QuietInv
<1> SUFFICES ASSUME Init  PROVE Quiet
  BY DEF QuietInv
<1>1. QuietController
  BY DEF Init, QuietController, Cleaning
<1>2. QuietChildren
  BY DEF Init, QuietChildren, Children
<1>3. QuietConsumer
  BY DEF Init, QuietConsumer, Ready
<1> QED  BY <1>1, <1>2, <1>3 DEF Quiet

\* a failure is counted,
LEMMA FailureDisturbs ==
    ASSUME disturbed \in Nat,
           \/ Fault
           \/ \E c \in Children : ForkFails(c) \/ WaitTimesOut(c) \/ ChildFails(c)
           \/ \E pc \in {"start", "attach", "setup", "files", "move", "publish", "enter", "unmanaged"} :
                FailsAt(pc)
           \/ StartConsumerFails \/ ConfigureFails \/ ReplayFails \/ LeaveFails \/ ConsumerKilled
    PROVE  disturbed' # 0
<1>1. disturbed' = disturbed + 1
  BY DEF Fault, ForkFails, WaitTimesOut, ChildFails, FailsAt, StartConsumerFails,
     ConfigureFails, ReplayFails, LeaveFails, ConsumerKilled
<1> QED  BY <1>1

\* and the count never falls.
LEMMA NeverUndisturbed == disturbed \in Nat /\ [Next]_vars /\ disturbed' = 0 => disturbed = 0
<1> SUFFICES ASSUME disturbed \in Nat, [Next]_vars
             PROVE  disturbed' = disturbed \/ disturbed' = disturbed + 1
  OBVIOUS
<1>1. CASE Controller
  BY <1>1 DEF Controller, StartConsumer, StartConsumerFails, LoadAttach, SetupDirectories, SetupFiles, ForkChild,
     ForkFails, WaitChild, WaitTimesOut, ConfigureMaps, ConfigureFails, MoveConsumer, MoveFails,
     Publish, Send, BrokenPipe, Await, AwaitFails, Enter, Replay, ReplayFails, Validate, Leave,
     LeaveFails, Unmanaged, FailsAt, SkipStep, Skip, StopConsumer, ReapConsumer, Unpublish,
     Unconfigure, PolicyDestroy, RmdirCgroup, Report, Fault
<1>2. CASE Consumer \/ ConsumerKilled \/ ReleaseCgroup \/ Exited \/ UNCHANGED vars
  BY <1>2 DEF Consumer, ConsumerCheck, ConsumerPrint, ConsumerQuits, ConsumerKilled, ConsumerDies,
     ReleaseCgroup, Exited, Fault, vars
<1>3. ASSUME NEW c \in Children,
             \/ ChildMove(c) \/ ChildWriteBegin(c) \/ ChildWriteEnd(c) \/ ChildFails(c) \/ ChildDies(c)
      PROVE  disturbed' = disturbed \/ disturbed' = disturbed + 1
  BY <1>3 DEF ChildMove, ChildWriteBegin, ChildWriteEnd, ChildFails, ChildDies, Fault
<1> QED  BY <1>1, <1>2, <1>3 DEF Next

\* Every step keeps an undisturbed lifecycle free of errors.
LEMMA QuietStep == ControlInv /\ PublishInv /\ QuietInv /\ [Next]_vars => QuietInv'
<1> SUFFICES ASSUME ControlInv, PublishInv, QuietInv, [Next]_vars, disturbed' = 0
             PROVE  Quiet'
  BY DEF QuietInv
<1>1. disturbed \in Nat
  BY DEF PublishInv, MapsType
<1>2. disturbed = 0 /\ Quiet
  BY <1>1, NeverUndisturbed DEF QuietInv
<1>3. CASE UNCHANGED vars
  BY <1>2, <1>3 DEF vars, kernel, Quiet, QuietController, QuietChildren, QuietConsumer
<1>4. CASE Exited
  BY <1>3, <1>4 DEF Exited
<1> QED
  BY <1>1, <1>2, <1>3, <1>4, FailureDisturbs, SetupQuiet, RunQuiet, CleanupQuiet, ConsumerQuiet,
     ChildQuiet DEF Next, Controller, Consumer

\* The invariant of an undisturbed lifecycle holds always.
THEOREM QuietInvariant == Spec => []QuietInv
<1>1. Init => ControlInv /\ PublishInv /\ QuietInv
  BY ControlStart, PublishStart, QuietStart
<1>2. ControlInv /\ PublishInv /\ QuietInv /\ [Next]_vars
        => (ControlInv /\ PublishInv /\ QuietInv)'
  BY ControlStep, PublishStep, QuietStep
<1> QED  BY <1>1, <1>2, PTL DEF Spec

\* For every volume: a lifecycle in which no call fails, no child is given up and the
\* consumer is not killed reports success and a clean end, in every interleaving of
\* controller, children and consumer.
THEOREM FailsOnlyDisturbed == Spec => []FailsOnlyIfDisturbed
<1>1. ControlInv /\ QuietInv => FailsOnlyIfDisturbed
  <2> SUFFICES ASSUME ControlInv, QuietInv, disturbed = 0
               PROVE  ctl.pc # "killed" /\ (result # Nil => result = [ret |-> "ok", cleanup |-> TRUE])
    BY DEF FailsOnlyIfDisturbed
  <2>1. ctl.pc # "killed" /\ ctl.ret = "ok" /\ ctl.cleanup = TRUE
    BY DEF QuietInv, Quiet, QuietController, ControlInv, ControlTypes, CtlType
  <2> QED  BY <2>1 DEF ControlInv, CleanupInv
<1> QED  BY <1>1, LifecycleInvariant, QuietInvariant, PTL
=============================================================================
