-------------------------- MODULE MCAvahiListeners --------------------------
(***************************************************************************)
(* A small instance of AvahiListeners.  A ServiceBrowser sees one service  *)
(* on two interfaces; a ServiceTypeBrowser sees one type on two interfaces *)
(* and another one on one of them; a RemoteService has two hosts to be     *)
(* resolved to.                                                            *)
(***************************************************************************)
EXTENDS AvahiListeners

CONSTANTS eth, wlan, other

MCServiceInstances == {eth, wlan}
MCNameOf == [a \in MCServiceInstances |-> "Files"]
MCTypeInstances == {eth, wlan, other}
MCTypeOf == [a \in MCTypeInstances |-> IF a = other THEN "_ipp._tcp" ELSE "_http._tcp"]
\* Paths enough for the object and for every signal on the bus.
MCPaths == 1..(MaxQueue + 2)
=============================================================================
