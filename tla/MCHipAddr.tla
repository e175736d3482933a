----------------------------- MODULE MCHipAddr ------------------------------
(***************************************************************************)
(* A host with a wired interface and a wireless one that also has an IPv6  *)
(* address.                                                                *)
(***************************************************************************)
EXTENDS HipAddr

MCAddrs == {"e4", "w4", "w6"}

MCIfOf == [a \in MCAddrs |-> IF a = "e4" THEN "eth0" ELSE "wlan0"]

MCFamilyOf == [a \in MCAddrs |-> IF a = "w6" THEN "inet6" ELSE "inet"]
=============================================================================
