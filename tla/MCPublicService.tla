-------------------------- MODULE MCPublicService --------------------------
(***************************************************************************)
(* A small instance of PublicService: two names, two configurations.       *)
(***************************************************************************)
EXTENDS PublicService

CONSTANTS n1, n2, c1, c2

MCNames == {n1, n2}
MCConfigs == {c1, c2}
NoServerFailure == {"REGISTERING", "RUNNING", "COLLISION"}
\* Every method of the daemon's interface but Commit and Reset.
CommitAccepted ==
    {"GetState", "EntryGroupNew", "GetHostName", "AddService", "AddServiceSubtype",
     "GetAlternativeServiceName"}
=============================================================================
