---------------------- MODULE AvahiServiceTypeBrowser ----------------------
(***************************************************************************)
(* KDNSSD::ServiceTypeBrowser over the Avahi backend                       *)
(* (src/src/avahi-servicetypebrowser.cpp).                                 *)
(*                                                                         *)
(* The daemon announces a type once per interface and protocol.  The       *)
(* browser keeps every announcement and tells the application of the first *)
(* and the last one of a type.  Signals are queued by the bus and handled  *)
(* one at a time; each handler emits in tail position, so a slot that runs *)
(* an event loop is a sequence of steps after the handler.                 *)
(***************************************************************************)
EXTENDS Naturals, Sequences

CONSTANTS
    Announcements,  \* one (interface, protocol, type, domain)
    TypeOf,         \* the type of each
    CanFail,        \* may ServiceTypeBrowserNew fail?
    DaemonMayDie,
    MaxQueue        \* bound: undelivered signals on the bus

Types == {TypeOf[a] : a \in Announcements}

VARIABLES
    m_started,
    m_browser,      \* m_browser is not null: the request was answered
    m_timer,        \* m_timer is active
    m_servicetypes, \* how often the vector holds each announcement
    bus,            \* signals sent and not yet delivered, oldest first
    served,         \* the daemon has a browser object for us
    known,          \* the daemon has announced these to it
    allForNow,      \* the daemon has sent AllForNow
    batch,          \* history: something no finished() has concluded
    said            \* history: signals the browser emitted in the last step

object == <<m_started, m_browser, m_timer, m_servicetypes>>
vars == <<object, bus, served, known, allForNow, batch, said>>

ItemSignal == [kind : {"ItemNew", "ItemRemove"}, item : Announcements]
Signal == ItemSignal \cup [kind : {"AllForNow"}]

\* find_if over the vector, by type.
HasType(list, t) == \E a \in Announcements : list[a] > 0 /\ TypeOf[a] = t

\* serviceTypes(): each type once.
ServiceTypes == {t \in Types : HasType(m_servicetypes, t)}

MutErased(list, a) ==
    LET hit == CHOOSE b \in Announcements : list[b] > 0 /\ TypeOf[b] = TypeOf[a]
    IN  IF HasType(list, TypeOf[a]) THEN [list EXCEPT ![hit] = @ - 1] ELSE list
\* find and erase: one element that is equal in all four fields, if there is one.
Erased(list, a) == [list EXCEPT ![a] = IF @ > 0 THEN @ - 1 ELSE @]

(***************************************************************************)
(* The application.                                                        *)
(***************************************************************************)
MutRefused ==
    /\ m_started' = TRUE /\ m_timer' = TRUE
    /\ batch' = TRUE
    /\ UNCHANGED <<m_browser, served>>
\* ServiceTypeBrowserNew fails: startBrowse() has returned for good.
Refused ==
    /\ m_started' = TRUE
    /\ batch' = TRUE
    /\ UNCHANGED <<m_browser, m_timer, served>>

Accepted ==
    /\ m_started' = TRUE /\ m_browser' = TRUE /\ m_timer' = TRUE
    /\ served' = TRUE
    /\ batch' = TRUE

StartBrowse ==
    /\ ~m_started
    /\ Accepted \/ (CanFail /\ Refused)
    /\ said' = {}
    /\ UNCHANGED <<m_servicetypes, bus, known, allForNow>>

\* The application deletes the browser and makes a new one.
Recreate ==
    /\ m_started
    /\ m_started' = FALSE /\ m_browser' = FALSE /\ m_timer' = FALSE
    /\ m_servicetypes' = [a \in Announcements |-> 0]
    /\ bus' = << >>
    /\ served' = FALSE /\ known' = {} /\ allForNow' = FALSE
    /\ batch' = FALSE /\ said' = {}

(***************************************************************************)
(* The slots.                                                              *)
(***************************************************************************)

MutGotNewServiceType(a) ==
    /\ m_servicetypes' = [m_servicetypes EXCEPT ![a] = @ + 1]
    /\ said' = IF HasType(m_servicetypes, TypeOf[a]) THEN {}
               ELSE {<<"serviceTypeAdded", TypeOf[a]>>}
    /\ batch' = TRUE
    /\ UNCHANGED m_timer
GotNewServiceType(a) ==
    /\ m_timer' = TRUE
    /\ m_servicetypes' = [m_servicetypes EXCEPT ![a] = @ + 1]
    /\ said' = IF HasType(m_servicetypes, TypeOf[a]) THEN {}
               ELSE {<<"serviceTypeAdded", TypeOf[a]>>}
    /\ batch' = TRUE

MutGotRemoveServiceType(a) ==
    /\ m_timer' = TRUE
    /\ m_servicetypes' = Erased(m_servicetypes, a)
    /\ said' = IF m_servicetypes[a] > 0 THEN {<<"serviceTypeRemoved", TypeOf[a]>>} ELSE {}
    /\ batch' = TRUE
GotRemoveServiceType(a) ==
    /\ m_timer' = TRUE
    /\ m_servicetypes' = Erased(m_servicetypes, a)
    /\ said' = IF m_servicetypes[a] > 0 /\ ~HasType(m_servicetypes', TypeOf[a])
               THEN {<<"serviceTypeRemoved", TypeOf[a]>>} ELSE {}
    /\ batch' = TRUE

\* finished(), of AllForNow and of the timer.
Finished ==
    /\ m_timer' = FALSE
    /\ said' = {<<"finished">>}
    /\ batch' = FALSE
    /\ UNCHANGED m_servicetypes

Deliver ==
    /\ bus # << >>
    /\ LET sig == Head(bus) IN
         \/ sig.kind = "ItemNew" /\ GotNewServiceType(sig.item)
         \/ sig.kind = "ItemRemove" /\ GotRemoveServiceType(sig.item)
         \/ sig.kind = "AllForNow" /\ Finished
    /\ bus' = Tail(bus)
    /\ UNCHANGED <<m_started, m_browser, served, known, allForNow>>

TimerFires ==
    /\ m_timer
    /\ Finished
    /\ UNCHANGED <<m_started, m_browser, bus, served, known, allForNow>>

(***************************************************************************)
(* The Avahi daemon, as the code relies on it.                             *)
(***************************************************************************)
Send(sig) ==
    /\ served /\ Len(bus) < MaxQueue
    /\ bus' = Append(bus, sig)
    /\ said' = {}
    /\ UNCHANGED <<object, served, batch>>

Announces(a) ==
    /\ a \notin known
    /\ known' = known \cup {a}
    /\ Send([kind |-> "ItemNew", item |-> a])
    /\ UNCHANGED allForNow

Withdraws(a) ==
    /\ a \in known
    /\ known' = known \ {a}
    /\ Send([kind |-> "ItemRemove", item |-> a])
    /\ UNCHANGED allForNow

SaysAllForNow ==
    /\ ~allForNow
    /\ allForNow' = TRUE
    /\ Send([kind |-> "AllForNow"])
    /\ UNCHANGED known

\* The daemon dies with the browser it held; nobody here looks.
DaemonDies ==
    /\ DaemonMayDie /\ served
    /\ served' = FALSE /\ known' = {} /\ allForNow' = FALSE
    /\ said' = {}
    /\ UNCHANGED <<object, bus, batch>>

-----------------------------------------------------------------------------
Init ==
    /\ m_started = FALSE /\ m_browser = FALSE /\ m_timer = FALSE
    /\ m_servicetypes = [a \in Announcements |-> 0]
    /\ bus = << >>
    /\ served = FALSE /\ known = {} /\ allForNow = FALSE
    /\ batch = FALSE /\ said = {}

Next ==
    \/ StartBrowse
    \/ Recreate
    \/ Deliver
    \/ TimerFires
    \/ \E a \in Announcements : Announces(a) \/ Withdraws(a)
    \/ SaysAllForNow
    \/ DaemonDies

Spec == Init /\ [][Next]_vars

\* The event loop runs.  A timer that is restarted for ever need not fire, so
\* what this is good for is stated for a daemon that falls quiet.
FairSpec == Spec /\ WF_vars(Deliver) /\ WF_vars(TimerFires)

-----------------------------------------------------------------------------
\* An object without a browser at the daemon hears nothing and times nothing.
TypeOK ==
    /\ m_started \in BOOLEAN /\ m_browser \in BOOLEAN /\ m_timer \in BOOLEAN
    /\ m_servicetypes \in [Announcements -> Nat]
    /\ bus \in Seq(Signal)
    /\ served \in BOOLEAN /\ known \subseteq Announcements /\ allForNow \in BOOLEAN
    /\ batch \in BOOLEAN
    /\ m_browser => m_started
    /\ m_timer \/ served \/ bus # << >> => m_browser
    /\ batch => m_started

\* The browser keeps the promises of TypeDirectory: its list and its signals
\* say the same, type by type, though it hears of interfaces and protocols.
Directory == INSTANCE TypeDirectory WITH
    open <- m_browser, types <- ServiceTypes, pending <- batch, said <- said
ImplementsDirectory == Directory!Spec

\* An announcement no queued signal is about is in the vector once if the
\* daemon has it and not at all otherwise: one entry too many and its type
\* would never be removed, one too few and it would go too early.
Mentioned(a) == \E i \in DOMAIN bus : bus[i] \in ItemSignal /\ bus[i].item = a
ListIsCurrent ==
    served => \A a \in Announcements :
        ~Mentioned(a) => m_servicetypes[a] = IF a \in known THEN 1 ELSE 0

\* "the whole batch will be concluded by finished()" (servicetypebrowser.h:119),
\* once the daemon stops announcing and withdrawing - even if it has died.
\* Of a browser that browses: see StartConcludes for the others.
Quiet == <>[][\A a \in Announcements : ~Announces(a) /\ ~Withdraws(a)]_vars
BatchConcludes == Quiet => (batch /\ m_browser ~> ~batch)

\* finished() "is emitted once after startBrowse() is called", "even if no
\* services are available or the DNS-SD service is not available"
\* (servicetypebrowser.h:109-112).  The code does not keep this: a refused
\* request returns before the timer is started (avahi-servicetypebrowser.cpp:69).
StartConcludes == Quiet => (batch ~> ~batch)
=============================================================================
