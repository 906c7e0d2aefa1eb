---------------------------- MODULE MCIrqDelivery ----------------------------
(* Two devices share line 11; the host injects on a line of its own.       *)
EXTENDS IrqDelivery

CONSTANTS blk, net

MCDevice   == {blk, net}
MCLine     == {0, 11}
MCLineOf   == [d \in MCDevice |-> 11]
MCHostLine == {0}

=============================================================================
