--------------------------- MODULE MCDomainModel ---------------------------
(***************************************************************************)
(* A small instance of DomainModel: a domain with umlauts that one         *)
(* interface has in IDN encoding and another one in capitals, the local    *)
(* domain, and one in a script that is lost on the way; a configuration    *)
(* that names the first of them, as a user writes it, and the last.        *)
(***************************************************************************)
EXTENDS DomainModel

CONSTANTS eth, wlan, lan, vpn

Umlaut(encoding, section) ==
    [label |-> "u", script |-> "latin1", encoding |-> encoding, section |-> section]
MCAnnouncements == {eth, wlan, lan, vpn}
MCWireOf ==
    [a \in MCAnnouncements |->
        CASE a = eth -> Umlaut("ace", "org")
          [] a = wlan -> Umlaut("ace", "ORG")
          [] a = lan -> [label |-> "", script |-> "ascii", encoding |-> "plain", section |-> "local"]
          [] a = vpn -> [label |-> "k", script |-> "other", encoding |-> "plain", section |-> "org"]]
MCConfigured ==
    <<Umlaut("plain", "org"),
      [label |-> "k", script |-> "other", encoding |-> "plain", section |-> "org"]>>
=============================================================================
