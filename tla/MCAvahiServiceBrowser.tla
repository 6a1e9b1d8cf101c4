----------------------- MODULE MCAvahiServiceBrowser -----------------------
(***************************************************************************)
(* Small instances of AvahiServiceBrowser: one service seen on two         *)
(* interfaces and another one on one of them.                              *)
(***************************************************************************)
EXTENDS AvahiServiceBrowser

CONSTANTS eth, wlan, other

MCAnnouncements == {eth, wlan, other}
MCNameOf == [a \in MCAnnouncements |-> IF a = other THEN "Mail" ELSE "Files"]
OneService == {eth, wlan}
OneServiceName == [a \in OneService |-> "Files"]
=============================================================================
