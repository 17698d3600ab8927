--------------------------- MODULE MCBleDiscovery ----------------------------
(***************************************************************************)
(* Two peers that the phone may connect to and one that it may not.        *)
(***************************************************************************)
EXTENDS BleDiscovery

CONSTANTS p, q, r

MCDevice == {p, q, r}
MCSmaller == {p, q}

\* The phone has one connection at a time, whatever overtakes what.  Not so: nothing holds
\* the test of started and connectGatt together.
AlwaysOneConnection == \A d, e \in Open : d = e
=============================================================================
