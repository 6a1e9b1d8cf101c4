--------------------------- MODULE AvahiListeners ---------------------------
(***************************************************************************)
(* What listens to the bus in the Avahi backend: a ServiceBrowser (with    *)
(* the RemoteService objects it resolves), a ServiceTypeBrowser, or a      *)
(* RemoteService that the application uses itself.  (The DomainBrowser is  *)
(* in DomainModel.)  They share the bus, the daemon and the pattern - a    *)
(* request, signals that are queued and handled later, a timer - but no    *)
(* state: "kind" says which of them this is and never changes, and the     *)
(* variables of the others stay what they were.                            *)
(***************************************************************************)
EXTENDS Sequences, AvahiListener

CONSTANTS
    ServiceInstances, NameOf,      \* what the daemon announces to a ServiceBrowser
    Ids, MaxNesting,        \* bounds: its objects, and its event loops
    TypeInstances, TypeOf,  \* what it announces to a ServiceTypeBrowser
    Hosts, Keys             \* what a RemoteService may be resolved to

VARIABLES
    kind,
    \* of several of them: m_started of a ServiceTypeBrowser is its m_running
    bus, m_running, timer, served, known, allForNow, batch,
    \* of a ServiceBrowser
    m_autoResolve, m_browserFinished, m_services, m_duringResolve, suspended, crashed,
    resolvers, heard, disturbed,
    \* of a ServiceTypeBrowser
    m_browser, m_servicetypes, said,
    \* of a RemoteService
    m_resolved, m_dbusObjectPath, m_hostName, m_textData, resolving, service, told,
    source, watch

browsing == <<timer, served, known, allForNow, batch>>
ofBrowser == <<m_autoResolve, m_browserFinished, m_services, m_duringResolve, suspended,
               crashed, resolvers, heard, disturbed>>
ofTypeBrowser == <<m_browser, m_servicetypes, said>>
ofRemote == <<m_resolved, m_dbusObjectPath, m_hostName, m_textData, resolving, service,
              told, source, watch>>
vars == <<kind, bus, m_running, browsing, ofBrowser, ofTypeBrowser, ofRemote>>

Browser == INSTANCE AvahiServiceBrowser WITH
    Announcements <- ServiceInstances, DaemonMayDie <- TRUE
TypeBrowser == INSTANCE AvahiServiceTypeBrowser WITH
    Announcements <- TypeInstances, DaemonMayDie <- TRUE,
    m_started <- m_running, m_timer <- timer
Remote == INSTANCE AvahiRemoteService

ASSUME TypesAssumption == DOMAIN TypeOf = TypeInstances
ASSUME HostsAssumption == Hosts # {}

-----------------------------------------------------------------------------
IsBrowser == kind = "ServiceBrowser"
IsTypeBrowser == kind = "ServiceTypeBrowser"
IsRemote == kind = "RemoteService"

OfBrowser(A) == IsBrowser /\ A /\ UNCHANGED <<kind, ofTypeBrowser, ofRemote>>
OfTypeBrowser(A) == IsTypeBrowser /\ A /\ UNCHANGED <<kind, ofBrowser, ofRemote>>
OfRemote(A) == IsRemote /\ A /\ UNCHANGED <<kind, browsing, ofBrowser, ofTypeBrowser>>

Init ==
    /\ kind \in {"ServiceBrowser", "ServiceTypeBrowser", "RemoteService"}
    /\ Browser!Init /\ TypeBrowser!Init /\ Remote!Init
    /\ ~IsBrowser => ~m_autoResolve
    /\ ~IsRemote => service = CHOOSE r \in Remote!Record : TRUE

Next ==
    \/ OfBrowser(Browser!Next)
    \/ OfTypeBrowser(TypeBrowser!Next)
    \/ OfRemote(Remote!Next)

Spec == Init /\ [][Next]_vars

\* The fairness of the three modules, for the one that is there.  Of a
\* RemoteService some resolver speaks; it has no more than one.
Deliver ==
    \/ OfBrowser(Browser!Deliver)
    \/ OfTypeBrowser(TypeBrowser!Deliver)
    \/ OfRemote(Remote!Deliver)
TimerFires == OfBrowser(Browser!TimerFires) \/ OfTypeBrowser(TypeBrowser!TimerFires)
Returns == OfBrowser(Browser!Resume) \/ OfRemote(Remote!ResolveReturns)
Answers(id) == OfBrowser(Browser!Answers(id, "Found") \/ Browser!Answers(id, "Failure"))
Speaks == OfRemote(\E p \in Paths : Remote!Finds(p) \/ Remote!Fails(p))
FairSpec ==
    /\ Spec
    /\ WF_vars(Deliver) /\ WF_vars(TimerFires) /\ WF_vars(Returns)
    /\ SF_vars(Speaks)
    /\ \A id \in Ids : SF_vars(Answers(id))

-----------------------------------------------------------------------------
TypeOK ==
    /\ IsBrowser => Browser!TypeOK
    /\ IsTypeBrowser => TypeBrowser!TypeOK
    /\ IsRemote => Remote!TypeOK

\* Whoever waits for an answer has one coming, while the daemon lives: a resolver
\* that has still to speak or a signal on the bus.  Without it a ServiceBrowser
\* would never emit finished() again and resolve() would spin for ever.
AnswerComing ==
    /\ IsBrowser => Browser!AnswerComing
    /\ IsRemote => Remote!AnswerComing

\* An announcement no queued signal is about is in the ServiceTypeBrowser's vector
\* once if the daemon has it and not at all otherwise.
ListIsCurrent == IsTypeBrowser => TypeBrowser!ListIsCurrent

\* A ServiceTypeBrowser keeps the promises of TypeDirectory: its list and its
\* signals say the same, type by type, though it hears of interfaces.
Directory == INSTANCE TypeDirectory WITH
    Types <- TypeBrowser!Types, open <- m_browser, types <- TypeBrowser!ServiceTypes,
    pending <- IsTypeBrowser /\ batch
ImplementsDirectory == Directory!Spec

\* The daemon holds one resolver for a running RemoteService and none for any
\* other: every resolver is freed that should be, and none that is needed.
OneResolver == IsRemote => Remote!OneResolver

\* The answer to an earlier request, delivered after a new one was made, is not
\* taken for the answer to the new one.
OwnAnswer == Remote!OwnAnswer

\* "RemoteService will keep monitoring the service for changes in hostname and
\* port" (remoteservice.h:74-75): it reports what its resolver has said last,
\* unless that is still on the bus.
Monitored == IsRemote => Remote!Monitored

\* "the whole batch will be concluded by finished()" (servicebrowser.h:264,
\* servicetypebrowser.h:119), once the daemon stops announcing and withdrawing -
\* also if slots of a ServiceBrowser run event loops of their own, and of a
\* ServiceTypeBrowser also if the daemon has died.
BatchConcludes ==
    /\ Browser!Quiet /\ Browser!Works => (IsBrowser /\ batch ~> ~batch)
    /\ TypeBrowser!Quiet => (m_browser /\ batch ~> ~batch)

\* resolve() returns, unless slots keep making new requests.
ResolveTerminates == Remote!ResolveTerminates
=============================================================================
