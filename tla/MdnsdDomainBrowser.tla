------------------------- MODULE MdnsdDomainBrowser -------------------------
(***************************************************************************)
(* KDNSSD::DomainBrowser over the mdnsd backend                            *)
(* (src/src/mdnsd-domainbrowser.cpp).                                      *)
(*                                                                         *)
(* The object is a Responder: it reads the daemon's replies from its own   *)
(* connection, one at a time, and each of them is an event that is handled *)
(* at once and emits in tail position.  With the connection the unread     *)
(* replies are gone, and nobody is told; the object may then be started    *)
(* again.  m_type makes no difference here: both kinds ask for the domains *)
(* recommended for browsing.                                               *)
(***************************************************************************)
EXTENDS Naturals, Sequences, SequencesExt, QList, MdnsdResponder, ServiceBase

CONSTANTS
    Announcements,  \* one (interface, domain)
    WireOf,         \* the domain of each as it is on the wire
    Failures,       \* ways in which DNSServiceEnumerateDomains may fail
    CanFail,        \* may the browsing fail later?
    DaemonMayDie,
    MaxQueue        \* bound: replies not read yet

VARIABLES
    responder,
    m_domains,
    bus,            \* replies sent and not read yet, oldest first
    served,         \* the daemon lives at the other end of the connection
    known,          \* the daemon has announced these on it
    leftover,       \* history: listed since an earlier connection
    said            \* history: signals the browser emitted in the last step

vars == <<responder, m_domains, bus, served, known, leftover, said>>

Decoded(a) == MdnsdDNSToDomain(WireOf[a])
Domains == {Decoded(a) : a \in Announcements}
Operation == {"Add", "Remove", "Default"}
Reply == [op : Operation, item : Announcements] \cup [op : {"Error"}]

\* The object lets go of its connection, if it has one.
Disconnect ==
    /\ responder' = Stopped(responder)
    /\ bus' = << >> /\ served' = FALSE /\ known' = {}

(***************************************************************************)
(* The application.                                                        *)
(***************************************************************************)
StartBrowse ==
    /\ ~responder.m_running
    /\ responder' \in Requested(responder, Failures)
    /\ served' = responder'.m_running
    /\ known' = {} /\ bus' = << >>
    /\ leftover' = ToSet(m_domains)
    /\ said' = {}
    /\ UNCHANGED m_domains

\* The application deletes the browser and makes a new one.
Recreate ==
    /\ responder.m_ref \/ m_domains # << >>
    /\ Stopped(responder).allocated = 0
    /\ responder' = NoConnection
    /\ bus' = << >> /\ served' = FALSE /\ known' = {}
    /\ m_domains' = << >> /\ leftover' = {} /\ said' = {}

(***************************************************************************)
(* domain_callback and customEvent.                                        *)
(***************************************************************************)
Added(d) ==
    /\ IF Contains(m_domains, d)
       THEN said' = {} /\ UNCHANGED m_domains
       ELSE /\ m_domains' = Append(m_domains, d)
            /\ said' = {<<"domainAdded", d>>}
    /\ UNCHANGED leftover

\* removeAll(), and the signal even for a domain that is not listed.
Removed(d) ==
    /\ m_domains' = RemoveAll(m_domains, {d})
    /\ said' = {<<"domainRemoved", d>>}
    /\ leftover' = leftover \ {d}

\* The default domain is reported once more with a flag, and skipped.
Skipped == said' = {} /\ UNCHANGED <<m_domains, leftover>>

Process ==
    /\ responder.m_running /\ bus # << >>
    /\ LET reply == Head(bus) IN
         \/ /\ reply.op = "Error"
            /\ Disconnect /\ Skipped
         \/ /\ reply.op # "Error"
            /\ \/ reply.op = "Add" /\ Added(Decoded(reply.item))
               \/ reply.op = "Remove" /\ Removed(Decoded(reply.item))
               \/ reply.op = "Default" /\ Skipped
            /\ bus' = Tail(bus)
            /\ UNCHANGED <<responder, served, known>>

\* DNSServiceProcessResult finds the connection closed: process() stops.
ProcessFails ==
    /\ responder.m_running /\ ~served /\ bus = << >>
    /\ Disconnect /\ Skipped

(***************************************************************************)
(* The daemon, as the code relies on it.                                   *)
(***************************************************************************)
Send(reply) ==
    /\ served /\ Len(bus) < MaxQueue
    /\ bus' = Append(bus, reply)
    /\ said' = {}
    /\ UNCHANGED <<responder, m_domains, served, leftover>>

Announces(a) ==
    /\ a \notin known
    /\ known' = known \cup {a}
    /\ Send([op |-> "Add", item |-> a])

RepeatsDefault(a) == Send([op |-> "Default", item |-> a]) /\ UNCHANGED known

Withdraws(a) ==
    /\ a \in known
    /\ known' = known \ {a}
    /\ Send([op |-> "Remove", item |-> a])

BrowsingFails == CanFail /\ Send([op |-> "Error"]) /\ UNCHANGED known

DaemonDies ==
    /\ DaemonMayDie /\ served
    /\ served' = FALSE /\ known' = {}
    /\ said' = {}
    /\ UNCHANGED <<responder, m_domains, bus, leftover>>

-----------------------------------------------------------------------------
Init ==
    /\ responder = NoConnection
    /\ m_domains = << >> /\ bus = << >>
    /\ served = FALSE /\ known = {}
    /\ leftover = {} /\ said = {}

\* What one browser object does between construction and destruction.
Step ==
    \/ StartBrowse
    \/ Process
    \/ ProcessFails
    \/ \E a \in Announcements : Announces(a) \/ RepeatsDefault(a) \/ Withdraws(a)
    \/ BrowsingFails
    \/ DaemonDies

Next == Step \/ Recreate

Spec == Init /\ [][Next]_vars

-----------------------------------------------------------------------------
\* Whatever fails, and however often the browser is started again, the object
\* owns one connection at most and loses none, and without one it hears nothing.
TypeOK ==
    /\ responder \in Responder /\ OwnsItsConnection(responder)
    /\ m_domains \in Seq(Domains)
    /\ bus \in Seq(Reply)
    /\ served \in BOOLEAN /\ known \subseteq Announcements
    /\ leftover \subseteq ToSet(m_domains)
    /\ served => responder.m_running
    /\ bus # << >> => responder.m_running

\* With no reply about it unread, a listed domain is announced or was listed on
\* an earlier connection, and one that has a single source, which is there, is
\* listed.
Mentioned(d) == \E i \in DOMAIN bus : bus[i].op # "Error" /\ Decoded(bus[i].item) = d
Sources(d) == {a \in Announcements : Decoded(a) = d}
ListIsCurrent ==
    served => \A d \in Domains : ~Mentioned(d) =>
        /\ Contains(m_domains, d) => Sources(d) \cap known # {} \/ d \in leftover
        /\ \A a \in known : Sources(d) = {a} => Contains(m_domains, d)
=============================================================================
