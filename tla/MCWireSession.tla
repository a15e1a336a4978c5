--------------------------- MODULE MCWireSession ---------------------------
(* TLC instance of a worker's connections. *)
EXTENDS WireSession

\* The client takes payloads of two bytes, the coordinator sends up to three.  An
\* empty frame fits either end; one of two bytes does not fit after another.
MCClientLimits == [max_frame_bytes |-> 2, max_wire_assembly_bytes |-> 5]
MCServerLimits == [max_frame_bytes |-> 3, max_wire_assembly_bytes |-> 5]
=============================================================================
