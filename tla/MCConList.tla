----------------------------- MODULE MCConList -----------------------------
(***************************************************************************)
(* A small instance of ConList; its constants are model values given by    *)
(* ConList.cfg.  The run checks liveness, so no symmetry is used.          *)
(***************************************************************************)
EXTENDS ConList
=============================================================================
