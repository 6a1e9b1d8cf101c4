---------------------------- MODULE DomainModel ----------------------------
(***************************************************************************)
(* KDNSSD::DomainModel (src/src/domainmodel.cpp) with the DomainBrowser it *)
(* owns.  The library is built with one backend; "backend" says which, and *)
(* the variables of the other one keep their initial values.               *)
(*                                                                         *)
(* The model keeps no rows: every question of the view is answered from    *)
(* domains().  It forwards the browser's signals as layoutChanged(), upon  *)
(* which a view lays out the rows it finds then.                           *)
(***************************************************************************)
EXTENDS Integers, Sequences, SequencesExt, FiniteSets, ServiceBase

CONSTANTS Announcements, WireOf, Configured, Failures, CanFail, DaemonMayDie, MaxQueue, MaxNesting

ASSUME WiresAssumption == WireOf \in [Announcements -> Domain]
ASSUME ConfiguredAssumption == Configured \in Seq(Domain)
ASSUME BoundsAssumption == MaxQueue \in Nat \ {0} /\ MaxNesting \in Nat
\* A label is a text, and its script is that text's.
ASSUME ScriptsAssumption ==
    \A d, e \in {WireOf[a] : a \in Announcements} \cup ToSet(Configured) :
        d.label = e.label => d.script = e.script

VARIABLES
    backend,
    m_type, m_started, m_browser, domainSet, suspended, disturbed,  \* Avahi
    responder, domainList, leftover,                                \* mdnsd
    bus, served, known, said,
    laidOut         \* the domains a view showed after the last layoutChanged()

avahiVars == <<m_type, m_started, m_browser, domainSet, suspended, disturbed>>
mdnsdVars == <<responder, domainList, leftover>>
vars == <<backend, avahiVars, mdnsdVars, bus, served, known, said, laidOut>>

Avahi == INSTANCE AvahiDomainBrowser WITH m_domains <- domainSet
Mdnsd == INSTANCE MdnsdDomainBrowser WITH m_domains <- domainList

ASSUME FlagsAssumption ==
    Failures \subseteq Mdnsd!RequestFailures /\ CanFail \in BOOLEAN /\ DaemonMayDie \in BOOLEAN

(***************************************************************************)
(* The model's answers, for a list of rows.                                *)
(***************************************************************************)
\* domains(): QSet::values() has some order.
Rows == IF backend = "avahi" THEN SetToSeq(domainSet) ELSE domainList

RowCount(parentIsValid) == IF parentIsValid THEN 0 ELSE Len(Rows)

MutHasIndex(row, column, parentIsValid) ==
    ~parentIsValid /\ column = 0 /\ row > 0 /\ row < RowCount(parentIsValid)
HasIndex(row, column, parentIsValid) ==
    /\ ~parentIsValid
    /\ column = 0
    /\ row >= 0 /\ row < RowCount(parentIsValid)

\* data(): the invalid QVariant for whatever is not a row.
Data(row, column, parentIsValid, role) ==
    IF HasIndex(row, column, parentIsValid) /\ role = "DisplayRole"
    THEN {Rows[row + 1]} ELSE {}

Shown == UNION {Data(row, 0, FALSE, "DisplayRole") : row \in -1 .. Len(Rows)}

-----------------------------------------------------------------------------
Init ==
    /\ backend \in {"avahi", "mdnsd"}
    /\ Avahi!Init /\ Mdnsd!Init
    /\ laidOut = {}

\* The constructor connects the signals and starts the browser.
Relayout == laidOut' = IF said' # {} THEN Shown' ELSE laidOut

BrowserSteps ==
    /\ UNCHANGED backend
    /\ \/ backend = "avahi" /\ Avahi!Step /\ UNCHANGED mdnsdVars
       \/ backend = "mdnsd" /\ Mdnsd!Step /\ UNCHANGED avahiVars
    /\ Relayout

\* The model goes, and the browser it owns with it.
Recreate ==
    /\ \/ backend = "avahi" /\ Avahi!Recreate /\ UNCHANGED mdnsdVars
       \/ backend = "mdnsd" /\ Mdnsd!Recreate /\ UNCHANGED avahiVars
    /\ laidOut' = {}
    /\ UNCHANGED backend

Next == BrowserSteps \/ Recreate

Spec == Init /\ [][Next]_vars

-----------------------------------------------------------------------------
Listed == IF backend = "avahi" THEN domainSet ELSE ToSet(domainList)

\* The backend in use keeps its types, and the other one is not touched.
TypeOK ==
    /\ IF backend = "avahi" THEN Avahi!TypeOK /\ responder = Mdnsd!NoConnection /\ domainList = << >>
       ELSE Mdnsd!TypeOK /\ ~m_started /\ domainSet = {}
    /\ laidOut \subseteq Avahi!Domains \cup Mdnsd!Domains

\* With Avahi's backend, list and signals keep the promises of DomainDirectory;
\* with mdnsd's there are only the lapses it names, and the list still changes as
\* the signals say, over any number of connections.
Directory == INSTANCE DomainDirectory WITH
    Domains <- Avahi!Domains \cup Mdnsd!Domains,
    open <- m_browser \/ responder.m_running,
    domains <- Listed \ (Avahi!Leaving \cup disturbed),
    said <- {s \in said : s[2] \notin disturbed}
ImplementsDirectory ==
    /\ Directory!Init
    /\ [][Directory!Next \/ (backend = "mdnsd" /\ Directory!Lapses)]_(Directory!vars)

\* "Only the first call to [startBrowse()] will have any effect"
\* (domainbrowser.h:84): a browser that has listed domains is not connected anew.
OnlyFirstStart == [][domainList # << >> /\ responder'.m_running => responder.m_running]_vars

\* domainRemoved() tells that "a domain has disappeared from the browsed list"
\* (domainbrowser.h:104): it was on the list.
RemovedWasListed ==
    [][\A d \in Avahi!Domains \cup Mdnsd!Domains : <<"domainRemoved", d>> \in said' => d \in Listed]_vars

\* The two promises of the header that mdnsd's browser does not keep, together:
\* startBrowse() tests whether it is running, which it is no longer when the
\* daemon is lost (mdnsd-domainbrowser.cpp:34), and domainRemoved() is emitted for
\* every removal it reads (:63-64).
KeepsDirectory == OnlyFirstStart /\ RemovedWasListed

\* domains() is "the current known list of domains" (domainbrowser.h:75): with
\* nothing about it on the way, what the daemon has announced and not withdrawn is
\* listed.  Neither backend counts the interfaces a domain was announced on: the
\* first withdrawal takes it off (avahi-domainbrowser.cpp:136-137,
\* mdnsd-domainbrowser.cpp:63).
KnownIsListed ==
    served /\ suspended = << >> =>
        IF backend = "avahi"
        THEN \A a \in known : ~Avahi!Mentioned(Avahi!Decoded(a)) => Avahi!Decoded(a) \in Listed
        ELSE \A a \in known : ~Mdnsd!Mentioned(Mdnsd!Decoded(a)) => Mdnsd!Decoded(a) \in Listed

\* With either backend the list follows the daemon, interface by interface.
ListIsCurrent ==
    IF backend = "avahi" THEN Avahi!ListIsCurrent ELSE Mdnsd!ListIsCurrent

\* A domain that several sources spell differently is listed once, and a listed
\* one survives the way to the daemon and back - so that services found in it
\* compare equal - unless its name has been garbled.  (Local names are taken as
\* they are.)
Normal(d) == DomainIsLocal(d) \/ ~Legible(d)
BackFromDNS(d) ==
    IF backend = "avahi" THEN AvahiDNSToDomain(DomainToDNS(d)) ELSE MdnsdDNSToDomain(DomainToDNS(d))
DomainsAreDistinct ==
    \A d \in {d \in Listed : ~Normal(d)} :
        /\ BackFromDNS(d) = d
        /\ \A e \in {e \in Listed : ~Normal(e)} : Meant(d) = Meant(e) => d = e

\* What a view has laid out holds every listed domain; besides them only domains
\* that have been told to leave after the layout was read: layoutChanged() is
\* emitted before Avahi's browser takes the domain off.
ViewShowsDomains ==
    /\ Listed \subseteq laidOut
    /\ Cardinality(laidOut \ Listed) <= MaxNesting + 1
    /\ backend = "mdnsd" => laidOut = Listed
    /\ Shown = Listed
=============================================================================
