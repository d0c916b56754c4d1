----------------------------- MODULE MCNcpLink -----------------------------
(* Small instances of NcpLink for TLC.                                     *)
EXTENDS NcpLink
=============================================================================
