--------------------------- MODULE MCPolicyEngine ---------------------------
(***************************************************************************)
(* A small daemon: one or two processes running the same application, two  *)
(* locations, two interfaces, and a policy file with two policies for the  *)
(* application, so that both loops of evaluate() matter.                   *)
(***************************************************************************)
EXTENDS PolicyEngine

MCAppDescs == {"vlc", "other"}

MCLocations == {"home", "car"}

MCInterfaces == {"eth0", "ppp0"}

MCPpp == {"ppp0"} \cap Interfaces

R(l, i) == [location |-> l, interface |-> i]

MCPolicyFile ==
    << [app |-> "vlc", rules |-> << R("home", "eth0"), R("home", "ppp0") >>],
       [app |-> "vlc", rules |-> << R("home", "ppp0") >>] >>

\* One rule, for runs with two connections.
MCOneInterface == {"eth0"}

MCOneRule == << [app |-> "vlc", rules |-> << R("home", "eth0") >>] >>

MCDescOf == [p \in Pids |-> "vlc"]
=============================================================================
