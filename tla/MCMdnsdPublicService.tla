------------------------ MODULE MCMdnsdPublicService ------------------------
(***************************************************************************)
(* A small instance of MdnsdPublicService: two names, two configurations.  *)
(***************************************************************************)
EXTENDS MdnsdPublicService, TLC

CONSTANTS n1, n2, c1, c2

MCNames == {n1, n2}
MCConfigs == {c1, c2}
=============================================================================
