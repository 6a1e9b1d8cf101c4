-------------------------- MODULE MCMdnsdBrowsing --------------------------
(***************************************************************************)
(* A small instance of MdnsdBrowsing: one service seen on two interfaces   *)
(* and another one on one of them.                                         *)
(***************************************************************************)
EXTENDS MdnsdBrowsing

MCNames == {"both", "other"}
MCInterfaces == [both |-> 2, other |-> 1]
=============================================================================
