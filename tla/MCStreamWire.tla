---------------------------- MODULE MCStreamWire ----------------------------
(***************************************************************************)
(* Instance of StreamWire for TLC: sockets that hold one message, so that  *)
(* every write can block.                                                  *)
(***************************************************************************)
EXTENDS StreamWire

CONSTANTS east, west

TwoBoxes == {east, west}
TwoZooms == {0, 4}
=============================================================================
