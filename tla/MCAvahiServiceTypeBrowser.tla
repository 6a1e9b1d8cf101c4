--------------------- MODULE MCAvahiServiceTypeBrowser ---------------------
(***************************************************************************)
(* A small instance of AvahiServiceTypeBrowser: one type seen on two       *)
(* interfaces and another one on one of them.                              *)
(***************************************************************************)
EXTENDS AvahiServiceTypeBrowser

CONSTANTS eth, wlan, other

MCAnnouncements == {eth, wlan, other}
MCTypeOf == [a \in MCAnnouncements |-> IF a = other THEN "_ipp._tcp" ELSE "_http._tcp"]
=============================================================================
