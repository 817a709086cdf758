---------------------------- MODULE MCI2pStreams ----------------------------
(* Messages to one destination.                                            *)
EXTENDS I2pStreams

ToOne == [m \in Msgs |-> CHOOSE d \in Dests : TRUE]
=============================================================================
