----------------------------- MODULE MCHipSine ------------------------------
(***************************************************************************)
(* A host with an IPv4 address on a wired interface and an address of each *)
(* family on a wireless one.                                               *)
(***************************************************************************)
EXTENDS HipSine

MCAddrs == {"e4", "w4", "w6"}

MCIfOf == [a \in MCAddrs |-> IF a = "e4" THEN "eth0" ELSE "wlan0"]

MCFamilyOf == [a \in MCAddrs |-> IF a = "w6" THEN "inet6" ELSE "inet"]
=============================================================================
