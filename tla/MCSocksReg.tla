----------------------------- MODULE MCSocksReg ----------------------------
(***************************************************************************)
(* Small instances of SocksReg: descriptors and connections are            *)
(* interchangeable.                                                        *)
(***************************************************************************)
EXTENDS SocksReg, TLC

Symmetry == Permutations(Fds) \cup Permutations(Conns)
=============================================================================
