--------------------------- MODULE MCNcpFirmware ----------------------------
(* A small NCP for TLC: frames of one and of two bytes, a buffer of three and *)
(* a queue of two, so that room and queue run out.                            *)
EXTENDS NcpFirmware

CONSTANTS c1, c2, n1, n2, n3

Sizes == [f \in Frame |-> IF f \in {c1, n1, n2} THEN 2 ELSE 1]
=============================================================================
