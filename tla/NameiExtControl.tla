--------------------------- MODULE NameiExtControl --------------------------
(***************************************************************************)
(* The controller from user space: one lifecycle of the ConfigMap          *)
(* publication experiment (run_sample) on top of the shared harness, with  *)
(* the control children it forks, the consumer it starts, the BPF maps and *)
(* the policy that reads them.                                             *)
(*                                                                         *)
(* A control child that its parent has given up is killed, but a write to  *)
(* debugfs that the child is inside of still takes effect.  Any operation  *)
(* that can fail may fail (at most MaxFaults of them), any child may be    *)
(* slow for ever, and the consumer may die.                                *)
(*                                                                         *)
(* The kernel is external here: registered targets, the cgroup and its     *)
(* processes are what NameiExtTargets and NameiExtAttach leave visible to  *)
(* user space.  Clocks do not fail.                                        *)
(***************************************************************************)
EXTENDS Naturals, Sequences, FiniteSets, SequencesExt

CONSTANTS
    Entries,        \* the paths of the volume, in order
    Present,        \* Present[g][e]: entry e exists in generation g (0 or 1)
    MaxFaults,
    Nil

ASSUME ControlConstants ==
    /\ Entries \in Seq(ToSet(Entries)) /\ Len(Entries) > 0
    /\ Present \in [{0, 1} -> [ToSet(Entries) -> BOOLEAN]]
    /\ MaxFaults \in Nat
    /\ Nil \notin {0, 1} /\ Nil # <<>> /\ Nil \notin {0, 1} \X ToSet(Entries)

Names == ToSet(Entries)

\* A target id, and the object registered under it, is written <<generation, entry>>;
\* Hidden is target 0.  A path may also be the placeholder of the logical tree, or not
\* be there.
Target(g, e) == <<g, e>>
Hidden == <<>>
Placeholder == <<Nil>>
Missing == <<>>

Procs == {"controller", "consumer", "register", "clear"}
Children == {"register", "clear"}

VARIABLES
    ctl,        \* run_sample: where it is, its error, what it has to undo
    child,      \* [Children -> control child]
    home,       \* [Procs -> "none", "root" or "cgroup"]: where a process runs
    consumer,   \* configmap_consumer
    cgroup,     \* "absent", "live", "removed", "released"
    attached,   \* the policy is attached to the root
    targets,    \* ids registered for the cgroup
    views,      \* configmap_publication_v0_views and _v1_views
    generation, \* configmap_publication_generations, Nil without an entry
    disturbed,  \* how many operations have failed
    result      \* what emit_observation wrote

kernel == <<cgroup, attached, targets, views, generation>>
vars == <<ctl, child, home, consumer, kernel, disturbed, result>>

Init ==
    /\ ctl = [pc |-> "start", ret |-> "ok", k |-> 1, undo |-> {}, cleanup |-> TRUE, states |-> 0,
              acks |-> 0]
    /\ child = [c \in Children |-> [pc |-> "none", i |-> 0, killed |-> FALSE]]
    /\ home = [p \in Procs |-> IF p = "controller" THEN "root" ELSE "none"]
    /\ consumer = [pc |-> "none", status |-> "ok", state |-> 1, i |-> 1, ack |-> "none"]
    /\ cgroup = "absent" /\ attached = FALSE /\ targets = {}
    /\ views = [g \in {0, 1} |-> [e \in Names |-> Nil]]
    /\ generation = Nil
    /\ disturbed = 0
    /\ result = Nil

-----------------------------------------------------------------------------
(* What a path of the volume resolves to.                                  *)

\* The policy: the caller's generation picks a view, the view an object.
Decision(p, e) ==
    CASE home[p] # "cgroup" \/ generation = Nil -> "pass"
      [] home[p] = "cgroup" /\ generation # Nil /\ views[generation][e] = Nil -> "pass"
      [] home[p] = "cgroup" /\ generation # Nil /\ views[generation][e] = Hidden -> "hide"
      [] OTHER -> "select"

\* The object an application reaches: the placeholder of the logical tree, a
\* registered target, or none.
Resolve(p, e) ==
    CASE ~attached \/ Decision(p, e) = "pass" -> Placeholder
      [] attached /\ Decision(p, e) = "select" /\ views[generation][e] \in targets -> views[generation][e]
      [] OTHER -> Missing

\* What generation g of the payload has there.
Payload(g, e) == IF Present[g][e] THEN Target(g, e) ELSE Missing

-----------------------------------------------------------------------------
(* Control children (namei_ext_harness.c).                                 *)

\* register_targets and configure_maps visit both generations of an entry side by
\* side: slot k is generation SlotGeneration(k) of SlotEntry(k).
Slots == 1..(2 * Len(Entries))
SlotGeneration(k) == (k + 1) % 2
SlotEntry(k) == Entries[(k + 1) \div 2]
SlotTarget(k) == Target(SlotGeneration(k), SlotEntry(k))

\* The slots of the targets that register_targets puts into its array, and that
\* target n of it comes next after target i.
Batch == {k \in Slots : Present[SlotGeneration(k)][SlotEntry(k)]}
ComesNext(n, i) == n > i /\ \A k \in Batch : k > i => n <= k

Running(c) == child[c].pc \in {"started", "inside", "writing"}

Fault == disturbed < MaxFaults /\ disturbed' = disturbed + 1

ChildBecomes(c, pc) == child' = [child EXCEPT ![c].pc = pc]

\* namei_ext_move_self_to_cgroup, also in a child that is killed while it does.
ChildMove(c) ==
    /\ child[c].pc = "started"
    /\ cgroup = "live"
    /\ ChildBecomes(c, "inside")
    /\ home' = [home EXCEPT ![c] = "cgroup"]
    /\ UNCHANGED <<ctl, consumer, kernel, disturbed, result>>

\* It opens the target and enters write(2) on debugfs.
ChildWriteBegin(c) ==
    /\ child[c].pc = "inside" /\ ~child[c].killed
    /\ ChildBecomes(c, "writing")
    /\ UNCHANGED <<ctl, home, consumer, kernel, disturbed, result>>

\* A write returns, to a child that goes on, that is through or that SIGKILL ends.
ChildReturns(c, i, last) ==
    LET pc == IF child[c].killed THEN "dead" ELSE IF last THEN "exited" ELSE "inside"
    IN  /\ child' = [child EXCEPT ![c].i = i, ![c].pc = pc]
        /\ home' = IF pc = "inside" THEN home ELSE [home EXCEPT ![c] = "none"]

\* The write takes effect: the next target of the batch, or none any more.
ChildWriteEnd(c) ==
    /\ child[c].pc = "writing"
    /\ \/ /\ c = "register"
          /\ \E n \in Batch : /\ ComesNext(n, child[c].i)
                              /\ targets' = targets \cup {SlotTarget(n)}
                              /\ ChildReturns(c, n, \A k \in Batch : k <= n)
       \/ c = "clear" /\ targets' = {} /\ ChildReturns(c, 1, TRUE)
    /\ UNCHANGED <<ctl, consumer, cgroup, attached, views, generation, disturbed, result>>

\* Any of its calls fails and it exits with 1; what it has registered stays.
ChildFails(c) ==
    /\ Running(c) /\ ~child[c].killed
    /\ Fault
    /\ ChildBecomes(c, "failed")
    /\ home' = [home EXCEPT ![c] = "none"]
    /\ UNCHANGED <<ctl, consumer, kernel, result>>

\* SIGKILL, outside of a write.
ChildDies(c) ==
    /\ Running(c) /\ child[c].killed /\ child[c].pc # "writing"
    /\ ChildBecomes(c, "dead")
    /\ home' = [home EXCEPT ![c] = "none"]
    /\ UNCHANGED <<ctl, consumer, kernel, disturbed, result>>

-----------------------------------------------------------------------------
(* The lifecycle (run_sample).                                             *)

\* An error skips the rest of the lifecycle.
Goto(pc) == ctl' = [ctl EXCEPT !.pc = pc]
Fails(e) == ctl' = [ctl EXCEPT !.pc = "stop", !.ret = e]

\* An operation without an effect of its own that fails at pc.
FailsAt(pc) ==
    /\ ctl.pc = pc
    /\ Fault
    /\ Fails("EIO")
    /\ UNCHANGED <<child, home, consumer, kernel, result>>

StartConsumer ==
    /\ ctl.pc = "start"
    /\ ctl' = [ctl EXCEPT !.pc = "attach", !.undo = {"consumer"}]
    /\ consumer' = [consumer EXCEPT !.pc = "waiting"]
    /\ home' = [home EXCEPT !["consumer"] = "root"]
    /\ UNCHANGED <<child, kernel, disturbed, result>>

\* fdopen fails after the fork: the consumer runs, and nobody will stop it.
StartConsumerFails ==
    /\ ctl.pc = "start"
    /\ Fault
    /\ Fails("ENOMEM")
    /\ consumer' = [consumer EXCEPT !.pc = "waiting"]
    /\ home' = [home EXCEPT !["consumer"] = "root"]
    /\ UNCHANGED <<child, kernel, result>>

\* namei_ext_policy_load_attach
LoadAttach ==
    /\ ctl.pc = "attach"
    /\ ctl' = [ctl EXCEPT !.pc = "setup", !.undo = @ \cup {"policy"}]
    /\ attached' = TRUE
    /\ UNCHANGED <<child, home, consumer, cgroup, targets, views, generation, disturbed, result>>

\* setup_directories makes the cgroup last.
SetupDirectories ==
    /\ ctl.pc = "setup"
    /\ ctl' = [ctl EXCEPT !.pc = "files", !.undo = @ \cup {"cgroup"}]
    /\ cgroup' = "live"
    /\ UNCHANGED <<child, home, consumer, attached, targets, views, generation, disturbed, result>>

\* setup_files and namei_ext_cgroup_id; from here on targets are to be cleared.
SetupFiles ==
    /\ ctl.pc = "files"
    /\ ctl' = [ctl EXCEPT !.pc = "register", !.undo = @ \cup {"targets"}]
    /\ UNCHANGED <<child, home, consumer, kernel, disturbed, result>>

\* fork in namei_ext_register_target_batch and namei_ext_clear_targets.
ForkChild(c) ==
    /\ ctl.pc = c /\ child[c].pc = "none"
    /\ c = "clear" => "targets" \in ctl.undo
    /\ ChildBecomes(c, "started")
    /\ home' = [home EXCEPT ![c] = "root"]
    /\ UNCHANGED <<ctl, consumer, kernel, disturbed, result>>

\* Where the controller goes with what a control child has made of its command.
Waited(c, e) ==
    IF c = "register"
    THEN IF e = "ok" THEN [ctl EXCEPT !.pc = "configure", !.k = 1]
         ELSE [ctl EXCEPT !.pc = "stop", !.ret = e]
    ELSE [ctl EXCEPT !.pc = "rmdir", !.cleanup = @ /\ e = "ok",
                     !.ret = IF @ = "ok" THEN e ELSE @]

ForkFails(c) ==
    /\ ctl.pc = c /\ child[c].pc = "none"
    /\ c = "clear" => "targets" \in ctl.undo
    /\ Fault
    /\ ctl' = Waited(c, "EAGAIN")
    /\ UNCHANGED <<child, home, consumer, kernel, result>>

\* namei_ext_wait_control_child: the child ends in time ...
WaitChild(c) ==
    /\ ctl.pc = c /\ child[c].pc \in {"exited", "failed"}
    /\ ctl' = Waited(c, IF child[c].pc = "exited" THEN "ok" ELSE "EIO")
    /\ UNCHANGED <<child, home, consumer, kernel, disturbed, result>>

\* Mutant: the time-out is not made an error.
TimeoutErrorLost == "ok"

TimeoutError == "ETIMEDOUT"

\* Mutant: the wait has no deadline.
WaitTimesOutNever(c) == FALSE /\ UNCHANGED vars

\* ... or is killed, and perhaps reaped, when the time is over; it may have ended
\* since the last look at it.
WaitTimesOut(c) ==
    /\ ctl.pc = c /\ child[c].pc # "none"
    /\ child' = [child EXCEPT ![c].killed = TRUE]
    /\ ctl' = Waited(c, TimeoutError)
    /\ disturbed' = disturbed + 1
    /\ UNCHANGED <<home, consumer, kernel, result>>

\* configure_maps: step k writes one entry of one view.
ConfigureMaps ==
    /\ ctl.pc = "configure"
    /\ LET g == SlotGeneration(ctl.k)
           e == SlotEntry(ctl.k)
           last == ctl.k = 2 * Len(Entries)
       IN  /\ views' = [views EXCEPT ![g][e] = IF Present[g][e] THEN Target(g, e) ELSE Hidden]
           /\ ctl' = [ctl EXCEPT !.undo = @ \cup {"maps"}, !.k = IF last THEN 1 ELSE @ + 1,
                                 !.pc = IF last THEN "move" ELSE "configure"]
    /\ UNCHANGED <<child, home, consumer, cgroup, attached, targets, generation, disturbed, result>>

ConfigureFails ==
    /\ ctl.pc = "configure"
    /\ Fault
    /\ ctl' = [ctl EXCEPT !.undo = @ \cup {"maps"}, !.pc = "stop", !.ret = "EIO"]
    /\ UNCHANGED <<child, home, consumer, kernel, result>>

\* move_pid_to_cgroup; a consumer that is gone stays gone.
MoveConsumer ==
    /\ ctl.pc = "move"
    /\ Goto("publish")
    /\ home' = IF home["consumer"] = "none" THEN home ELSE [home EXCEPT !["consumer"] = "cgroup"]
    /\ UNCHANGED <<child, consumer, kernel, disturbed, result>>

MoveFails ==
    /\ ctl.pc = "move" /\ consumer.pc = "dead"
    /\ Fails("ESRCH")
    /\ UNCHANGED <<child, home, consumer, kernel, disturbed, result>>

\* The states the consumer is asked to confirm: initial, update, no-op, rollback.
Generations == <<0, 1, 1, 0>>

\* timed_generation
Publish ==
    /\ ctl.pc = "publish"
    /\ generation' = Generations[ctl.k]
    /\ ctl' = [ctl EXCEPT !.pc = "send", !.undo = @ \cup {"generation"}]
    /\ UNCHANGED <<child, home, consumer, cgroup, attached, targets, views, disturbed, result>>

\* send_state and collect_evidence write a line to the consumer.
Send ==
    /\ ctl.pc \in {"send", "evidence"} /\ consumer.pc = "waiting"
    /\ Goto(IF ctl.pc = "send" THEN "await" ELSE "collect")
    /\ consumer' = [consumer EXCEPT !.pc = IF ctl.pc = "send" THEN "checking" ELSE "printing",
                                    !.state = ctl.k, !.i = 1]
    /\ UNCHANGED <<child, home, kernel, disturbed, result>>

\* A write to a consumer that is gone: SIGPIPE is not ignored.
BrokenPipe ==
    /\ \/ ctl.pc \in {"send", "evidence"}
       \/ ctl.pc = "stop" /\ "consumer" \in ctl.undo /\ ctl.acks = 4
    /\ consumer.pc = "dead"
    /\ Goto("killed")
    /\ home' = [home EXCEPT !["controller"] = "none"]
    /\ UNCHANGED <<child, consumer, kernel, disturbed, result>>

\* The acknowledgement: the next state, then the evidence, then the replay.
Await ==
    /\ ctl.pc \in {"await", "collect"} /\ consumer.ack = "ok"
    /\ consumer' = [consumer EXCEPT !.ack = "none"]
    /\ ctl' = CASE ctl.pc = "await" /\ ctl.k < 4 ->
                        [ctl EXCEPT !.states = @ + 1, !.k = @ + 1, !.pc = "publish"]
                [] ctl.pc = "await" /\ ctl.k = 4 ->
                        [ctl EXCEPT !.states = @ + 1, !.pc = "evidence"]
                [] OTHER -> [ctl EXCEPT !.acks = 4, !.pc = "enter", !.k = 1]
    /\ UNCHANGED <<child, home, kernel, disturbed, result>>

\* ... a negative one, or the end of the pipe.
AwaitFails ==
    /\ ctl.pc \in {"await", "collect"}
    /\ consumer.ack = "mismatch" \/ (consumer.ack = "none" /\ consumer.pc = "dead")
    /\ Fails(IF consumer.ack = "mismatch" THEN "EINVAL" ELSE "EPIPE")
    /\ UNCHANGED <<child, home, consumer, kernel, disturbed, result>>

\* validate_lower, then the controller enters the cgroup itself.
Enter ==
    /\ ctl.pc = "enter"
    /\ ctl' = [ctl EXCEPT !.pc = "replay", !.undo = @ \cup {"managed"}]
    /\ home' = [home EXCEPT !["controller"] = "cgroup"]
    /\ UNCHANGED <<child, consumer, kernel, disturbed, result>>

\* validate_managed_replay: state k is published once more ...
Replay ==
    /\ ctl.pc = "replay"
    /\ generation' = Generations[ctl.k]
    /\ Goto("validate")
    /\ UNCHANGED <<child, home, consumer, cgroup, attached, targets, views, disturbed, result>>

ReplayFails ==
    /\ ctl.pc = "replay"
    /\ Fault
    /\ ctl' = [ctl EXCEPT !.pc = "leave", !.ret = "EIO"]
    /\ UNCHANGED <<child, home, consumer, kernel, result>>

\* ... and looked at by validate_selected_generation.
Validate ==
    /\ ctl.pc = "validate"
    /\ ctl' = IF \E e \in Names : Resolve("controller", e) # Payload(Generations[ctl.k], e)
              THEN [ctl EXCEPT !.pc = "leave", !.ret = "EXDEV"]
              ELSE [ctl EXCEPT !.pc = IF ctl.k = 4 THEN "leave" ELSE "replay", !.k = IF @ = 4 THEN 1 ELSE @ + 1]
    /\ UNCHANGED <<child, home, consumer, kernel, disturbed, result>>

\* The controller leaves the cgroup, also after an error; at "depart" once more.
Leave ==
    /\ ctl.pc \in {"leave", "depart"} /\ "managed" \in ctl.undo
    /\ ctl' = [ctl EXCEPT !.undo = @ \ {"managed"},
                          !.pc = CASE ctl.pc = "depart" -> "unpublish"
                                   [] ctl.pc = "leave" /\ ctl.ret = "ok" -> "unmanaged"
                                   [] OTHER -> "stop"]
    /\ home' = [home EXCEPT !["controller"] = "root"]
    /\ UNCHANGED <<child, consumer, kernel, disturbed, result>>

LeaveFails ==
    /\ ctl.pc \in {"leave", "depart"} /\ "managed" \in ctl.undo
    /\ Fault
    /\ ctl' = [ctl EXCEPT !.pc = IF @ = "leave" THEN "stop" ELSE "unpublish",
                          !.cleanup = @ /\ ctl.pc = "leave",
                          !.ret = IF @ = "ok" THEN "EIO" ELSE @]
    /\ UNCHANGED <<child, home, consumer, kernel, result>>

\* validate_unmanaged and the policy's counters.
Unmanaged ==
    /\ ctl.pc = "unmanaged"
    /\ IF \A e \in Names : Resolve("controller", e) = Placeholder THEN Goto("stop") ELSE Fails("EINVAL")
    /\ UNCHANGED <<child, home, consumer, kernel, disturbed, result>>

-----------------------------------------------------------------------------
(* The end of run_sample: what was done is undone, in this order.          *)

\* A step of the cleanup that had an error.
Spoils(pc, e) ==
    ctl' = [ctl EXCEPT !.pc = pc, !.cleanup = FALSE, !.ret = IF @ = "ok" THEN e ELSE @]

\* A step of the cleanup that does not apply.
Skip(pc, what, next) ==
    /\ ctl.pc = pc /\ ~(what \subseteq ctl.undo)
    /\ Goto(next)
    /\ UNCHANGED <<child, home, consumer, kernel, disturbed, result>>

SkipStep ==
    \/ Skip("stop", {"consumer"}, "depart")
    \/ Skip("depart", {"managed"}, "unpublish")
    \/ Skip("unpublish", {"policy", "generation"}, "unconfigure")
    \/ Skip("unconfigure", {"policy", "maps"}, "destroy")
    \/ Skip("destroy", {"policy"}, "clear")
    \/ Skip("clear", {"targets"}, "rmdir")
    \/ Skip("rmdir", {"cgroup"}, "trees")

\* stop_consumer: "quit" if all went well, then both pipes are closed ...
StopConsumer ==
    /\ ctl.pc = "stop" /\ "consumer" \in ctl.undo
    /\ ctl.acks = 4 => consumer.pc # "dead"
    /\ Goto("stopping")
    /\ UNCHANGED <<child, home, consumer, kernel, disturbed, result>>

\* ... and the consumer is waited for.
ReapConsumer ==
    /\ ctl.pc = "stopping" /\ consumer.pc = "dead"
    /\ IF consumer.status = "ok" THEN Goto("depart") ELSE Spoils("depart", "ECHILD")
    /\ UNCHANGED <<child, home, consumer, kernel, disturbed, result>>

Unpublish ==
    /\ ctl.pc = "unpublish" /\ {"policy", "generation"} \subseteq ctl.undo
    /\ \/ generation' = Nil /\ Goto("unconfigure") /\ UNCHANGED disturbed
       \/ Fault /\ Spoils("unconfigure", "EIO") /\ UNCHANGED generation
    /\ UNCHANGED <<child, home, consumer, cgroup, attached, targets, views, result>>

\* delete_maps goes on after an error; then both maps are counted.
Unconfigure ==
    /\ ctl.pc = "unconfigure" /\ {"policy", "maps"} \subseteq ctl.undo
    /\ LET empty == [e \in Names |-> Nil]
       IN  \/ views' = [g \in {0, 1} |-> empty] /\ Goto("destroy") /\ UNCHANGED disturbed
           \/ /\ Fault
              /\ \E g \in {0, 1}, e \in Names :
                    views' = [h \in {0, 1} |-> IF h = g THEN [empty EXCEPT ![e] = views[g][e]] ELSE empty]
              /\ Spoils("destroy", "EIO")
    /\ UNCHANGED <<child, home, consumer, cgroup, attached, targets, generation, result>>

\* Mutant: an error of namei_ext_policy_destroy is not a failed cleanup.
PolicyDestroyQuiet ==
    /\ ctl.pc = "destroy" /\ "policy" \in ctl.undo
    /\ \/ /\ attached' = FALSE
          /\ views' = [g \in {0, 1} |-> [e \in Names |-> Nil]] /\ generation' = Nil
          /\ Goto("clear") /\ UNCHANGED disturbed
       \/ Fault /\ Goto("clear") /\ UNCHANGED <<attached, views, generation>>
    /\ UNCHANGED <<child, home, consumer, cgroup, targets, result>>

\* namei_ext_policy_destroy; the maps go with the program.
PolicyDestroy ==
    /\ ctl.pc = "destroy" /\ "policy" \in ctl.undo
    /\ \/ /\ attached' = FALSE
          /\ views' = [g \in {0, 1} |-> [e \in Names |-> Nil]] /\ generation' = Nil
          /\ Goto("clear") /\ UNCHANGED disturbed
       \/ Fault /\ Spoils("clear", "EIO") /\ UNCHANGED <<attached, views, generation>>
    /\ UNCHANGED <<child, home, consumer, cgroup, targets, result>>

\* rmdir: EBUSY while a process is inside.
RmdirCgroup ==
    /\ ctl.pc = "rmdir" /\ "cgroup" \in ctl.undo
    /\ IF \E p \in Procs : home[p] = "cgroup"
       THEN Spoils("trees", "EBUSY") /\ UNCHANGED cgroup
       ELSE cgroup' = "removed" /\ Goto("trees")
    /\ UNCHANGED <<child, home, consumer, attached, targets, views, generation, disturbed, result>>

\* namei_ext_remove_tree and the checks behind it, then emit_observation.
Report ==
    /\ ctl.pc = "trees"
    /\ \/ ctl' = [ctl EXCEPT !.pc = "done"] /\ UNCHANGED disturbed
       \/ Fault /\ Spoils("done", "EBUSY")
    /\ result' = [ret |-> ctl'.ret, cleanup |-> ctl'.cleanup]
    /\ home' = [home EXCEPT !["controller"] = "none"]
    /\ UNCHANGED <<child, consumer, kernel>>

\* namei_ext_cgroup_release, some time after rmdir.
ReleaseCgroup ==
    /\ cgroup = "removed"
    /\ cgroup' = "released" /\ targets' = {}
    /\ UNCHANGED <<ctl, child, home, consumer, attached, views, generation, disturbed, result>>

-----------------------------------------------------------------------------
(* The consumer (configmap_consumer.c).                                    *)

\* Mutant: a no-op is taken for a step back.
SecondGenerationUpdate(k) == k = 2

SecondGeneration(k) == k \in {2, 3}

ConsumerDies(status, ack) ==
    /\ consumer' = [consumer EXCEPT !.pc = "dead", !.status = status, !.ack = ack]
    /\ home' = [home EXCEPT !["consumer"] = "none"]
    /\ UNCHANGED <<ctl, child, kernel, result>>

\* check_state, one path after the other.
ConsumerCheck ==
    /\ consumer.pc = "checking"
    /\ LET e == Entries[consumer.i]
           g == IF SecondGeneration(consumer.state) THEN 1 ELSE 0
       IN  IF Resolve("consumer", e) = Payload(g, e)
           THEN /\ consumer' = IF consumer.i = Len(Entries)
                               THEN [consumer EXCEPT !.pc = "waiting", !.ack = "ok"]
                               ELSE [consumer EXCEPT !.i = @ + 1]
                /\ UNCHANGED <<ctl, child, home, kernel, disturbed, result>>
           ELSE ConsumerDies("mismatch", "mismatch") /\ UNCHANGED disturbed

\* The evidence of the four states.
ConsumerPrint ==
    /\ consumer.pc = "printing"
    /\ consumer' = [consumer EXCEPT !.pc = "waiting", !.ack = "ok"]
    /\ UNCHANGED <<ctl, child, home, kernel, disturbed, result>>

\* "quit", or the end of its input.  The register child is forked without an exec
\* while the controller has the write end of that pipe, and keeps its copy as long
\* as it lives; the clear child is forked after stop_consumer has closed it.
ConsumerQuits ==
    /\ consumer.pc = "waiting"
    /\ \/ ctl.pc = "stopping" /\ ctl.acks = 4
       \/ ctl.pc \in {"stopping", "done"} /\ ~Running("register")
    /\ ConsumerDies("ok", consumer.ack) /\ UNCHANGED disturbed

\* It fails to start, or something kills it.
ConsumerKilled ==
    /\ consumer.pc \in {"waiting", "checking", "printing"}
    /\ Fault
    /\ ConsumerDies("killed", consumer.ack)

\* The program has exited.
Exited == ctl.pc \in {"done", "killed"} /\ UNCHANGED vars

Controller ==
    \/ StartConsumer \/ StartConsumerFails \/ LoadAttach \/ SetupDirectories \/ SetupFiles
    \/ \E c \in Children : ForkChild(c) \/ ForkFails(c) \/ WaitChild(c) \/ WaitTimesOut(c)
    \/ ConfigureMaps \/ ConfigureFails \/ MoveConsumer \/ MoveFails \/ Publish
    \/ Send \/ BrokenPipe \/ Await \/ AwaitFails
    \/ Enter \/ Replay \/ ReplayFails \/ Validate \/ Leave \/ LeaveFails \/ Unmanaged
    \/ \E pc \in {"start", "attach", "setup", "files", "move", "publish", "enter", "unmanaged"} : FailsAt(pc)
    \/ SkipStep \/ StopConsumer \/ ReapConsumer \/ Unpublish \/ Unconfigure \/ PolicyDestroy
    \/ RmdirCgroup \/ Report

Consumer == ConsumerCheck \/ ConsumerPrint \/ ConsumerQuits

Next ==
    \/ Controller \/ Consumer \/ ConsumerKilled \/ ReleaseCgroup \/ Exited
    \/ \E c \in Children : \/ ChildMove(c) \/ ChildWriteBegin(c) \/ ChildWriteEnd(c)
                           \/ ChildFails(c) \/ ChildDies(c)

\* The scheduler runs the controller and the consumer; a control child may hang.
Spec == Init /\ [][Next]_vars /\ WF_vars(Controller) /\ WF_vars(Consumer)

-----------------------------------------------------------------------------
(* Properties.                                                             *)

\* As long as the consumer is in the cgroup and a generation is published, every
\* path of the volume is exactly what that generation holds: no placeholder, no
\* selection of an id that is not registered, nothing of the other generation, at
\* any moment and whatever failed (register_target_batch, configure_maps, the order
\* of run_sample and of its cleanup).
PublishedIsComplete ==
    home["consumer"] = "cgroup" /\ generation # Nil =>
        \A e \in Names : Resolve("consumer", e) = Payload(generation, e)

\* A lifecycle that reports a clean end has left nothing: no policy, no cgroup, no
\* process in it, and, once the kernel has released the cgroup, no target, although
\* a control child that was given up may register after the targets were cleared
\* (wait_control_child, clear_targets, rmdir).
CleanReportIsClean ==
    /\ result # Nil /\ result.cleanup =>
            ~attached /\ cgroup # "live" /\ \A p \in Procs : home[p] # "cgroup"
    /\ cgroup = "released" => targets = {}

\* Without a failing call, a slow child or a dead consumer the lifecycle reports
\* success: no interleaving of controller, children, consumer and publications
\* makes a check fail or keeps the cgroup busy.
FailsOnlyIfDisturbed ==
    disturbed = 0 => ctl.pc # "killed" /\ (result # Nil => result = [ret |-> "ok", cleanup |-> TRUE])

\* The lifecycle ends with a report, however late the register child is and even
\* if the clear child hangs for ever (NAMEI_EXT_CONTROL_TIMEOUT_SECONDS in
\* wait_control_child), unless somebody kills the consumer.  A register child that
\* SIGKILL never ends is excluded: it keeps the consumer's input open, and
\* stop_consumer waits for the consumer without a deadline.
LifecycleEnds ==
    (<>[]~Running("register")) =>
        <>(result # Nil \/ (ctl.pc = "killed" /\ consumer.status = "killed"))
=============================================================================
