----------------------- MODULE MCAvahiRemoteService ------------------------
(***************************************************************************)
(* A small instance of AvahiRemoteService.                                 *)
(***************************************************************************)
EXTENDS AvahiRemoteService

\* Paths enough for the object and for every signal on the bus.
MCPaths == 1..(MaxQueue + 2)
=============================================================================
