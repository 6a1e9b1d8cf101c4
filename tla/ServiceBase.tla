---------------------------- MODULE ServiceBase ----------------------------
(***************************************************************************)
(* Names of services and domains (src/src/servicebase.cpp), and how they   *)
(* are put on the wire and read from it by the Avahi backend               *)
(* (src/src/avahi_server_interface.cpp) and by the mdnsd backend           *)
(* (src/src/mdnsd-responder.cpp).                                          *)
(*                                                                         *)
(* A domain is its label, the script that is written in, its encoding and  *)
(* its last section: "plain" is the name as a reader writes it, "ace" its  *)
(* IDN encoding (xn--...), "garbled" what is left of it when characters    *)
(* are lost.  "local." has an empty last section.                          *)
(***************************************************************************)

Scripts == {"ascii", "latin1", "other"}
LocalSections == {"local", "LOCAL"}
Folded(section) == CASE section = "ORG" -> "org" [] OTHER -> section

Domain == [label : STRING, script : Scripts,
           encoding : {"plain", "ace", "garbled"},
           section : LocalSections \cup {"local.", "org", "ORG"}]

\* The last section is "local" in any case.
DomainIsLocal(d) == d.section \in LocalSections

\* QUrl::toAce and QUrl::fromAce; both fold the case.
ToAce(d) == [d EXCEPT !.section = Folded(@),
                      !.encoding = IF d.script = "ascii" THEN @ ELSE "ace"]
FromAce(d) == [d EXCEPT !.section = Folded(@),
                        !.encoding = IF @ = "ace" THEN "plain" ELSE @]

\* A plain name that is handed to fromAce as bytes: toLatin1() loses what is not
\* in Latin 1, a UTF-8 char pointer everything that is not ASCII.
Bytes(d, kept) ==
    [d EXCEPT !.encoding = IF @ = "plain" /\ d.script \notin kept THEN "garbled" ELSE @]

DomainToDNS(d) == IF DomainIsLocal(d) THEN d ELSE ToAce(d)

MutAvahiDNSToDomain(d) == d
AvahiDNSToDomain(d) ==
    IF DomainIsLocal(d) THEN d ELSE FromAce(Bytes(d, {"ascii", "latin1"}))
MdnsdDNSToDomain(d) ==
    IF DomainIsLocal(d) THEN d ELSE FromAce(Bytes(d, {"ascii"}))

\* operator==: name, type and domain; host, port and text do not matter.
SameService(a, b) ==
    a.domain = b.domain /\ a.serviceName = b.serviceName /\ a.type = b.type

\* The domain a name stands for, and whether the name still can be used for it.
Meant(d) == <<d.label, Folded(d.section)>>
Legible(d) == d.encoding # "garbled"
=============================================================================
