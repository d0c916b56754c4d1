---------------------------- MODULE MCDeviceBase -----------------------------
(* Instances of DeviceBase for TLC. *)
EXTENDS DeviceBase, TLC

CONSTANTS i1, i2

TwoDevices == {i1, i2}
Symmetry   == Permutations(TwoDevices)

\* 0xFFFE and 2 share a bucket of a table of two; 1 is in the other.
TwoAddresses == {1, 2}

Calm    == {"leave", "router"}
Crossed == {"web", "leave", "router", "reuse"}
Crowded == {"overlap"}
Rename  == {"web"}
=============================================================================
