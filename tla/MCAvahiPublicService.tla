------------------------ MODULE MCAvahiPublicService ------------------------
(***************************************************************************)
(* Small instances of AvahiPublicService: two names (one and its           *)
(* alternative), two configurations, a bus of up to three signals.         *)
(***************************************************************************)
EXTENDS AvahiPublicService, TLC

CONSTANTS n1, n2, c1, c2

MCNames == {n1, n2}
MCConfigs == {c1, c2}
MCOneConfig == {c1}
AllServerStates == {"REGISTERING", "RUNNING", "COLLISION", "FAILURE"}
NoServerFailure == AllServerStates \ {"FAILURE"}
AllFaults == Methods
ResetObeyed == Methods \ {"Reset"}
CommitAccepted == ResetObeyed \ {"Commit"}
CommitRefused == {"Commit"}
NoFaults == {}

Symmetry == Permutations(MCNames) \cup Permutations(MCConfigs)
=============================================================================
