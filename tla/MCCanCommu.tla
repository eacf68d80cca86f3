----------------------------- MODULE MCCanCommu -----------------------------
(***************************************************************************)
(* Instance of CanCommu: two motors and another sender on the bus, and a   *)
(* link beside can0 that an unset interface index may name.                *)
(***************************************************************************)
EXTENDS CanCommu
=============================================================================
