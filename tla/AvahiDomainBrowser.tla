------------------------- MODULE AvahiDomainBrowser -------------------------
(***************************************************************************)
(* KDNSSD::DomainBrowser over the Avahi backend                            *)
(* (src/src/avahi-domainbrowser.cpp).                                      *)
(*                                                                         *)
(* Domains come from the daemon, once per interface, and from the user's   *)
(* configuration (AVAHI_BROWSE_DOMAINS, then the file browse-domains),     *)
(* which is read line by line after the request.  A slot may run an event  *)
(* loop, so signals are handled inside one another.  Where the emission is *)
(* the last thing a handler does, that is the same as handling them        *)
(* afterwards; gotRemoveDomain and the loops of startBrowse have more to   *)
(* do, and that is a step of its own, Resume.                              *)
(***************************************************************************)
EXTENDS Naturals, Sequences, SequencesExt, ServiceBase

CONSTANTS
    Announcements,  \* one (interface, protocol, domain)
    WireOf,         \* the domain of each as it is on the wire
    Configured,     \* the configured names, as they are read
    CanFail,        \* may DomainBrowserNew fail?
    DaemonMayDie,
    MaxQueue,       \* bound: undelivered signals on the bus
    MaxNesting      \* bound: event loops inside one another, besides the main one

VARIABLES
    m_type,
    m_started,
    m_browser,      \* m_browser is not null: the request was answered
    m_domains,
    suspended,      \* handlers waiting for a slot to return, outermost first
    bus,            \* signals sent and not yet delivered, oldest first
    served,         \* the daemon has a browser object for us
    known,          \* the daemon has announced these to it
    disturbed,      \* history: domains dealt with while one is being removed
    said            \* history: signals the browser emitted in the last step

object == <<m_type, m_started, m_browser, m_domains, suspended>>
vars == <<object, bus, served, known, disturbed, said>>

Decoded(a) == AvahiDNSToDomain(WireOf[a])
DecodedConfig == {AvahiDNSToDomain(Configured[i]) : i \in DOMAIN Configured}
Domains == {Decoded(a) : a \in Announcements} \cup DecodedConfig

Signal == [kind : {"ItemNew", "ItemRemove"}, item : Announcements]
Handler == [of : {"startBrowse"}, rest : Seq(ToSet(Configured)), inSlot : BOOLEAN]
              \cup [of : {"gotRemoveDomain"}, domain : Domains, inSlot : {TRUE}]

\* Domains a suspended gotRemoveDomain has emitted the signal for and has still
\* to take off the list, and the list without them.
Leaving == {h.domain : h \in {h \in ToSet(suspended) : h.of = "gotRemoveDomain"}}
Listed == m_domains \ Leaving

(***************************************************************************)
(* The application.                                                        *)
(***************************************************************************)
MutRefused ==
    /\ m_started' = TRUE
    /\ suspended' = IF Configured # << >>
                    THEN <<[of |-> "startBrowse", rest |-> Configured, inSlot |-> FALSE]>>
                    ELSE << >>
    /\ UNCHANGED <<m_browser, served>>
\* DomainBrowserNew fails: startBrowse() has returned for good.
Refused == m_started' = TRUE /\ UNCHANGED <<m_browser, suspended, served>>

Accepted ==
    /\ m_started' = TRUE /\ m_browser' = TRUE
    /\ served' = TRUE
    /\ suspended' = IF m_type = "Browsing" /\ Configured # << >>
                    THEN <<[of |-> "startBrowse", rest |-> Configured, inSlot |-> FALSE]>>
                    ELSE << >>

StartBrowse ==
    /\ ~m_started
    /\ Accepted \/ (CanFail /\ Refused)
    /\ said' = {}
    /\ UNCHANGED <<m_type, m_domains, bus, known, disturbed>>

\* The application deletes the browser (not in one of its slots) and makes a new
\* one.
Recreate ==
    /\ m_started /\ suspended = << >>
    /\ m_type' \in {"Browsing", "Publishing"}
    /\ m_started' = FALSE /\ m_browser' = FALSE
    /\ m_domains' = {} /\ suspended' = << >>
    /\ bus' = << >>
    /\ served' = FALSE /\ known' = {}
    /\ disturbed' = {} /\ said' = {}

(***************************************************************************)
(* The slots.                                                              *)
(***************************************************************************)
Disturbs(d) == disturbed' = IF d \in Leaving THEN disturbed \cup {d} ELSE disturbed

MutGotNewDomain(d) ==
    /\ Disturbs(d)
    /\ m_domains' = m_domains \cup {d}
    /\ said' = {<<"domainAdded", d>>}
GotNewDomain(d) ==
    /\ Disturbs(d)
    /\ IF d \in m_domains
       THEN said' = {} /\ UNCHANGED m_domains
       ELSE /\ m_domains' = m_domains \cup {d}
            /\ said' = {<<"domainAdded", d>>}

MutGotRemoveDomain(d) ==
    /\ Disturbs(d)
    /\ said' = {<<"domainRemoved", d>>}
    /\ UNCHANGED <<m_domains, suspended>>
\* The domain is taken off the list when the slots of domainRemoved() return.
GotRemoveDomain(d) ==
    /\ Disturbs(d)
    /\ IF d \notin m_domains
       THEN said' = {} /\ UNCHANGED suspended
       ELSE /\ said' = {<<"domainRemoved", d>>}
            /\ suspended' = Append(suspended,
                                   [of |-> "gotRemoveDomain", domain |-> d, inSlot |-> TRUE])
    /\ UNCHANGED m_domains

\* An event loop runs: the main one, or one in a slot of the innermost handler.
LoopRuns == suspended # << >> => Last(suspended).inSlot /\ Len(suspended) <= MaxNesting

Deliver ==
    /\ bus # << >> /\ LoopRuns
    /\ LET sig == Head(bus) IN
         \/ sig.kind = "ItemNew" /\ GotNewDomain(Decoded(sig.item)) /\ UNCHANGED suspended
         \/ sig.kind = "ItemRemove" /\ GotRemoveDomain(Decoded(sig.item))
    /\ bus' = Tail(bus)
    /\ UNCHANGED <<m_type, m_started, m_browser, served, known>>

\* gotRemoveDomain goes on, and ends.
RemovalResumes(h) ==
    /\ h.of = "gotRemoveDomain"
    /\ m_domains' = m_domains \ {h.domain}
    /\ suspended' = Front(suspended)
    /\ said' = {}
    /\ UNCHANGED disturbed

\* startBrowse goes on with the next configured name; it ends with the last one.
StartResumes(h) ==
    /\ h.of = "startBrowse"
    /\ GotNewDomain(AvahiDNSToDomain(Head(h.rest)))
    /\ suspended' =
         IF Len(h.rest) = 1 THEN Front(suspended)
         ELSE Append(Front(suspended),
                     [of |-> "startBrowse", rest |-> Tail(h.rest), inSlot |-> said' # {}])

Resume ==
    /\ suspended # << >>
    /\ RemovalResumes(Last(suspended)) \/ StartResumes(Last(suspended))
    /\ UNCHANGED <<m_type, m_started, m_browser, bus, served, known>>

(***************************************************************************)
(* The Avahi daemon, as the code relies on it.                             *)
(***************************************************************************)
Send(sig) ==
    /\ served /\ Len(bus) < MaxQueue
    /\ bus' = Append(bus, sig)
    /\ said' = {}
    /\ UNCHANGED <<object, served, disturbed>>

Announces(a) ==
    /\ a \notin known
    /\ known' = known \cup {a}
    /\ Send([kind |-> "ItemNew", item |-> a])

Withdraws(a) ==
    /\ a \in known
    /\ known' = known \ {a}
    /\ Send([kind |-> "ItemRemove", item |-> a])

\* The daemon dies with the browser it held; nobody here looks.
DaemonDies ==
    /\ DaemonMayDie /\ served
    /\ served' = FALSE /\ known' = {}
    /\ said' = {}
    /\ UNCHANGED <<object, bus, disturbed>>

-----------------------------------------------------------------------------
Init ==
    /\ m_type \in {"Browsing", "Publishing"}
    /\ m_started = FALSE /\ m_browser = FALSE
    /\ m_domains = {} /\ suspended = << >>
    /\ bus = << >>
    /\ served = FALSE /\ known = {}
    /\ disturbed = {} /\ said = {}

\* What one browser object does between construction and destruction.
Step ==
    \/ StartBrowse
    \/ Deliver
    \/ Resume
    \/ \E a \in Announcements : Announces(a) \/ Withdraws(a)
    \/ DaemonDies

Next == Step \/ Recreate

Spec == Init /\ [][Next]_vars

-----------------------------------------------------------------------------
\* An object without a browser at the daemon hears nothing and lists nothing.
TypeOK ==
    /\ m_type \in {"Browsing", "Publishing"}
    /\ m_started \in BOOLEAN /\ m_browser \in BOOLEAN
    /\ m_domains \subseteq Domains
    /\ suspended \in Seq(Handler)
    /\ bus \in Seq(Signal)
    /\ served \in BOOLEAN /\ known \subseteq Announcements
    /\ disturbed \subseteq Domains
    /\ m_browser => m_started
    /\ served \/ bus # << >> \/ suspended # << >> \/ m_domains # {} => m_browser

\* The browser keeps the promises of DomainDirectory: a domain that several
\* interfaces and the configuration name is told of once, and the list and the
\* signals agree whatever handlers the slots let in - except for a domain that
\* is dealt with again while it is being removed.
Directory == INSTANCE DomainDirectory WITH
    open <- m_browser, domains <- Listed \ disturbed,
    said <- {s \in said : s[2] \notin disturbed}
ImplementsDirectory == Directory!Spec

\* The list follows the daemon: with no signal about it queued, a listed domain
\* is announced or configured, and one that has a single source, which is there,
\* is listed.  (Of several sources the first that goes takes the domain off.)
Mentioned(d) == \E i \in DOMAIN bus : Decoded(bus[i].item) = d
Sources(d) == {a \in Announcements : Decoded(a) = d}
ListIsCurrent ==
    served => \A d \in Domains : ~Mentioned(d) =>
        /\ d \in Listed => Sources(d) \cap known # {} \/ d \in DecodedConfig
        /\ \A a \in known :
             Sources(d) = {a} /\ d \notin DecodedConfig \cup disturbed => d \in Listed
=============================================================================
