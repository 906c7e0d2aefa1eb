---------------------------- MODULE MCVmLifecycle ----------------------------
(* Both kinds of callers in one state space: careful ones, and ones that    *)
(* call whenever the host's own state lets them.                            *)
EXTENDS VmLifecycle

VARIABLE careful

MCInit == Init /\ careful \in BOOLEAN
MCNext ==
    /\ \/ ~careful /\ Next
       \/ careful /\ NextQuiet
    /\ UNCHANGED careful
MCSpec == MCInit /\ [][MCNext]_<<vars, careful>>

(* Careful callers find host and worker in agreement whenever no message is *)
(* on its way, although each changes its state before the other knows       *)
(* (vm_runtime.js:447-501, 232-237), and a VM that the host calls RUNNING   *)
(* executes: what crossed on the way never leaves the worker paused.        *)
AgreementIfCareful == careful => Agreement /\ RunningMeansRunning

=============================================================================
