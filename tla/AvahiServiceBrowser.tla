------------------------ MODULE AvahiServiceBrowser ------------------------
(***************************************************************************)
(* KDNSSD::ServiceBrowser over the Avahi backend                           *)
(* (src/src/avahi-servicebrowser.cpp), with the RemoteService objects it   *)
(* resolves (src/src/avahi-remoteservice.cpp) as far as the browser sees   *)
(* them: their resolver and its answer.                                    *)
(*                                                                         *)
(* The daemon announces instances one by one; the same service name may be *)
(* announced several times, once per interface and protocol.  Signals are  *)
(* queued by the bus and handled one at a time, except that a slot of the  *)
(* application may run an event loop of its own (a dialog, resolve(),      *)
(* publish()): then further handlers run while the one that emitted the    *)
(* signal is suspended.  Where the emission is the last thing a handler    *)
(* does, this is the same as running them afterwards.  In two places it is *)
(* not, and there the handler's rest is a step of its own, Resume.         *)
(***************************************************************************)
EXTENDS Naturals, Sequences, FiniteSets, SequencesExt, QList

CONSTANTS
    Announcements,  \* one instance on one interface and protocol
    NameOf,         \* the service (name, type, domain) each announces
    Ids,            \* bound: RemoteService objects, also the path of their resolver
    CanFail,        \* may ServiceResolverNew or a resolver fail?
    DaemonMayDie,
    MaxQueue,       \* bound: undelivered signals on the bus
    MaxNesting      \* bound: event loops inside one another, besides the main one

ASSUME FlagsAssumption ==
    CanFail \in BOOLEAN /\ DaemonMayDie \in BOOLEAN
ASSUME AnnouncementsAssumption ==
    IsFiniteSet(Announcements) /\ DOMAIN NameOf = Announcements
ASSUME BoundsAssumption == MaxQueue \in Nat \ {0} /\ MaxNesting \in Nat
ASSUME IdsAssumption == IsFiniteSet(Ids)

VARIABLES
    m_autoResolve, m_running, m_browserFinished,
    timer,              \* m_timer is active
    m_services,         \* reported objects, oldest first
    m_duringResolve,    \* objects whose answer is awaited
    suspended,          \* handlers waiting for a slot to return, outermost first
    crashed,            \* a dead iterator has been used
    bus,                \* signals sent and not yet delivered, oldest first
    served,             \* the daemon has a browser object for us
    known,              \* the daemon has announced these to our browser
    allForNow,          \* the daemon has sent AllForNow
    resolvers,          \* resolvers the daemon holds for our objects
    heard,              \* history: announced, as far as signals are delivered
    batch,              \* history: changes not yet concluded by finished()
    disturbed           \* history: services of which a resolve has failed or that
                        \* handlers inside one another have dealt with

flags == <<m_autoResolve, m_running, m_browserFinished, timer>>
object == <<flags, m_services, m_duringResolve, suspended, crashed>>
daemon == <<served, known, allForNow, resolvers>>
vars == <<object, bus, daemon, heard, batch, disturbed>>

Names == {NameOf[a] : a \in Announcements}
Object == [id : Ids, name : Names]
Signal == [kind : {"ItemNew", "ItemRemove"}, item : Announcements]
             \cup [kind : {"AllForNow"}]
             \cup [kind : {"Found", "Failure"}, id : Ids]
Handler == [of : {"serviceAdded", "serviceRemoved"}, object : Object, stale : BOOLEAN]

IdsIn(list) == {list[i].id : i \in DOMAIN list}
NamesIn(list) == {list[i].name : i \in DOMAIN list}

(***************************************************************************)
(* Steps the handlers share.                                               *)
(***************************************************************************)

\* The objects a suspended handler has emitted this signal for.
SuspendedFor(signal) == {h.object : h \in {h \in ToSet(suspended) : h.of = signal}}

\* Identities of objects that a list or a suspended handler refers to.
Held == IdsIn(m_services) \cup IdsIn(m_duringResolve)
            \cup {suspended[i].object.id : i \in DOMAIN suspended}

\* An object that nothing refers to is deleted and frees its resolver.
DropsResolvers == resolvers' = resolvers \cap Held'

\* Identities in use: also those in queued signals.
InUse == Held \cup {bus[i].id : i \in {i \in DOMAIN bus : bus[i].kind \in {"Found", "Failure"}}}
FreshId == CHOOSE id \in Ids : id \notin InUse

\* The handler emits this signal: the slot returns at once, or it runs an event
\* loop and the handler is suspended.
Suspends(signal, o) ==
    /\ Len(suspended) < MaxNesting
    /\ suspended' = Append(suspended, [of |-> signal, object |-> o, stale |-> FALSE])

\* A change of m_duringResolve kills the iterators into it that suspended handlers
\* hold, also if it is taken back.
Dead(handlers) == [i \in DOMAIN handlers |-> [handlers[i] EXCEPT !.stale = TRUE]]
IteratorsDie == suspended' = Dead(suspended)
KeepsSuspended ==
    IF m_duringResolve' = m_duringResolve THEN UNCHANGED suspended ELSE IteratorsDie

\* A handler deals with this service while another one for it is suspended.
Meets(name) ==
    disturbed' = IF \E i \in DOMAIN suspended : suspended[i].object.name = name
                 THEN disturbed \cup {name} ELSE disturbed

MutWithoutFirst(list, name) == RemoveAll(list, {o \in ToSet(list) : o.name = name})
\* find() and removeAll() of what it found: objects are equal by name, and only
\* the first one goes.
WithoutFirst(list, name) == RemoveFirstMatch(list, LAMBDA o : o.name = name)
MutWithoutId(list, id) == list
WithoutId(list, id) == RemoveAll(list, {o \in ToSet(list) : o.id = id})

MutQueryFinished(during) == batch' = TRUE
\* The handler ends in queryFinished(): finished() concludes the batch, or not.
QueryFinished(during) == batch' = ~(during = << >> /\ m_browserFinished')

\* The handler ends without queryFinished(), after the list has changed.
InBatch == batch' = TRUE

(***************************************************************************)
(* The application.                                                        *)
(***************************************************************************)

\* startBrowse(): browsing starts with the timer armed.  If ServiceBrowserNew
\* fails, finished() is emitted and nothing changes.
StartBrowse ==
    /\ ~m_running
    /\ m_running' = TRUE
    /\ m_browserFinished' = TRUE
    /\ timer' = TRUE
    /\ served' = TRUE
    /\ InBatch
    /\ UNCHANGED <<m_autoResolve, m_services, m_duringResolve, suspended, crashed, bus, known,
                   allForNow, resolvers, heard, disturbed>>

\* The application deletes the browser, with every object only the browser
\* holds, and makes a new one; or it crashed and starts again.  (Deleting the
\* browser in one of its slots is not provided for.)
Recreate ==
    /\ m_running
    /\ suspended = << >> \/ crashed
    /\ m_autoResolve' \in BOOLEAN
    /\ m_running' = FALSE /\ m_browserFinished' = FALSE /\ timer' = FALSE
    /\ m_services' = << >> /\ m_duringResolve' = << >>
    /\ suspended' = << >> /\ crashed' = FALSE
    /\ bus' = << >>
    /\ served' = FALSE /\ known' = {} /\ allForNow' = FALSE /\ resolvers' = {}
    /\ heard' = {} /\ batch' = FALSE /\ disturbed' = {}

(***************************************************************************)
(* The slots.                                                              *)
(***************************************************************************)

\* gotNewService without autoResolve.
ItemNewReported(name) ==
    /\ m_services' = Append(m_services, [id |-> FreshId, name |-> name])
    /\ InBatch
    /\ Meets(name)
    /\ UNCHANGED <<m_duringResolve, suspended, resolvers>>

MutResolverRefused(name) ==
    /\ m_duringResolve' = Append(m_duringResolve, [id |-> FreshId, name |-> name])
    /\ InBatch
\* ServiceResolverNew fails: resolved(false) is emitted within resolveAsync()
\* and serviceResolved() drops the object that was just appended.
ResolverRefused(name) ==
    /\ UNCHANGED m_duringResolve
    /\ QueryFinished(m_duringResolve)

\* gotNewService with autoResolve: the new object starts to resolve.
ItemNewResolving(name) ==
    /\ UNCHANGED m_services
    /\ IteratorsDie
    /\ \/ /\ m_duringResolve' = Append(m_duringResolve, [id |-> FreshId, name |-> name])
          /\ resolvers' = resolvers \cup {FreshId}
          /\ InBatch
          /\ Meets(name)
       \/ /\ CanFail
          /\ ResolverRefused(name)
          /\ disturbed' = disturbed \cup {name}
          /\ UNCHANGED resolvers

ItemNew(a) ==
    /\ Ids \ InUse # {}
    /\ timer' = TRUE
    /\ UNCHANGED m_browserFinished
    /\ heard' = heard \cup {a}
    /\ IF m_autoResolve THEN ItemNewResolving(NameOf[a]) ELSE ItemNewReported(NameOf[a])

FirstOf(list, name) == SelectInSeq(list, LAMBDA o : o.name = name)

\* gotRemoveService of a service that is reported: serviceRemoved is emitted
\* while the object is still in the list.
ServiceRemoved(name) ==
    LET found == m_services[FirstOf(m_services, name)] IN
    /\ UNCHANGED m_duringResolve
    /\ InBatch
    /\ \/ m_services' = WithoutFirst(m_services, name) /\ KeepsSuspended
       \/ UNCHANGED m_services /\ Suspends("serviceRemoved", found)

\* gotRemoveService: an object still being resolved goes silently, a reported
\* one with serviceRemoved.  Its resolver goes with it.
ItemRemove(a) ==
    LET name == NameOf[a] IN
    /\ timer' = TRUE
    /\ heard' = heard \ {a}
    /\ CASE name \in NamesIn(m_duringResolve) ->
              /\ m_duringResolve' = WithoutFirst(m_duringResolve, name)
              /\ UNCHANGED m_services
              /\ InBatch
              /\ KeepsSuspended
         [] name \notin NamesIn(m_duringResolve) /\ name \in NamesIn(m_services) ->
              ServiceRemoved(name)
         [] OTHER ->
              UNCHANGED <<m_services, m_duringResolve, suspended>> /\ InBatch
    /\ Meets(name)
    /\ DropsResolvers
    /\ UNCHANGED m_browserFinished

\* browserFinished(), of AllForNow and of the timer.
BrowserFinished ==
    /\ timer' = FALSE
    /\ m_browserFinished' = TRUE
    /\ QueryFinished(m_duringResolve)
    /\ UNCHANGED <<m_services, m_duringResolve, suspended, resolvers, heard, disturbed>>

\* serviceResolved(true): the object is reported while it is still awaited, and
\* then taken from m_duringResolve by an iterator that was found before.
ServiceAdded(o) ==
    /\ m_services' = Append(m_services, o)
    /\ Meets(o.name)
    /\ \/ /\ m_duringResolve' = WithoutId(m_duringResolve, o.id)
          /\ QueryFinished(m_duringResolve')
          /\ KeepsSuspended
       \/ /\ UNCHANGED m_duringResolve
          /\ InBatch
          /\ Suspends("serviceAdded", o)

\* serviceResolved(false).
ResolveFailed(o) ==
    /\ m_duringResolve' = WithoutId(m_duringResolve, o.id)
    /\ QueryFinished(m_duringResolve')
    /\ disturbed' = disturbed \cup {o.name}
    /\ KeepsSuspended
    /\ UNCHANGED m_services

\* Objects whose resolved() is still connected to serviceResolved().
Awaited == ToSet(m_duringResolve) \ SuspendedFor("serviceAdded")

\* A resolver answers.  The answer for an object that is gone, or was answered
\* before, reaches nobody here.  After a failure the object frees its resolver.
Resolved(id, success) ==
    /\ resolvers' = IF success THEN resolvers ELSE resolvers \ {id}
    /\ UNCHANGED <<timer, m_browserFinished, heard>>
    /\ \/ \E o \in Awaited :
            o.id = id /\ IF success THEN ServiceAdded(o) ELSE ResolveFailed(o)
       \/ /\ \A o \in Awaited : o.id # id
          /\ UNCHANGED <<m_services, m_duringResolve, suspended, batch, disturbed>>

\* The slot returns and the rest of the innermost suspended handler runs:
\* m_services.removeAll(found), which finds nothing if it has gone already, or
\* m_duringResolve.erase(it), undefined if the list has changed meanwhile.
Resume ==
    /\ suspended # << >> /\ ~crashed
    /\ UNCHANGED <<flags, bus, served, known, allForNow, heard, disturbed>>
    /\ LET handler == Last(suspended)
           rest == Front(suspended)
           id == handler.object.id IN
       CASE handler.of = "serviceRemoved" ->
              /\ m_services' = WithoutId(m_services, id)
              /\ suspended' = rest
              /\ UNCHANGED <<m_duringResolve, crashed, batch>>
              /\ DropsResolvers
         [] handler.of = "serviceAdded" /\ ~handler.stale ->
              /\ m_duringResolve' = WithoutId(m_duringResolve, id)
              /\ suspended' = Dead(rest)
              /\ QueryFinished(m_duringResolve')
              /\ UNCHANGED <<m_services, resolvers, crashed>>
         [] handler.of = "serviceAdded" /\ handler.stale ->
              /\ crashed' = TRUE
              /\ UNCHANGED <<m_services, m_duringResolve, suspended, resolvers, batch>>

Deliver ==
    /\ bus # << >> /\ ~crashed
    /\ LET sig == Head(bus) IN
         \/ sig.kind = "ItemNew" /\ ItemNew(sig.item)
         \/ sig.kind = "ItemRemove" /\ ItemRemove(sig.item)
         \/ sig.kind = "AllForNow" /\ BrowserFinished
         \/ sig.kind = "Found" /\ Resolved(sig.id, TRUE)
         \/ sig.kind = "Failure" /\ Resolved(sig.id, FALSE)
    /\ bus' = Tail(bus)
    /\ UNCHANGED <<m_autoResolve, m_running, crashed, served, known, allForNow>>

TimerFires ==
    /\ timer /\ ~crashed
    /\ BrowserFinished
    /\ UNCHANGED <<m_autoResolve, m_running, crashed, bus, served, known, allForNow>>

(***************************************************************************)
(* The Avahi daemon, as the code relies on it.                             *)
(***************************************************************************)
Send(sig) ==
    /\ Len(bus) < MaxQueue
    /\ bus' = Append(bus, sig)
    /\ UNCHANGED <<object, served, resolvers, heard, batch, disturbed>>

Announces(a) ==
    /\ served /\ a \notin known
    /\ Cardinality(InUse) + Cardinality({i \in DOMAIN bus : bus[i].kind = "ItemNew"})
          < Cardinality(Ids)
    /\ known' = known \cup {a}
    /\ Send([kind |-> "ItemNew", item |-> a])
    /\ UNCHANGED allForNow

Withdraws(a) ==
    /\ served /\ a \in known
    /\ known' = known \ {a}
    /\ Send([kind |-> "ItemRemove", item |-> a])
    /\ UNCHANGED allForNow

SaysAllForNow ==
    /\ served /\ ~allForNow
    /\ allForNow' = TRUE
    /\ Send([kind |-> "AllForNow"])
    /\ UNCHANGED known

\* A resolver finds its service, again whenever it changes, or gives up.
Answers(id, kind) ==
    /\ id \in resolvers
    /\ kind = "Failure" => CanFail
    /\ Send([kind |-> kind, id |-> id])
    /\ UNCHANGED <<known, allForNow>>

\* The daemon dies with the browser and the resolvers it held; the next one may
\* resolve, but knows nothing of our browser.  The code does not look: it waits
\* for signals on paths that no longer exist.
DaemonDies ==
    /\ DaemonMayDie /\ served
    /\ served' = FALSE /\ known' = {} /\ allForNow' = FALSE /\ resolvers' = {}
    /\ UNCHANGED <<object, bus, heard, batch, disturbed>>

-----------------------------------------------------------------------------
Init ==
    /\ m_autoResolve \in BOOLEAN
    /\ m_running = FALSE /\ m_browserFinished = FALSE /\ timer = FALSE
    /\ m_services = << >> /\ m_duringResolve = << >>
    /\ suspended = << >> /\ crashed = FALSE
    /\ bus = << >>
    /\ served = FALSE /\ known = {} /\ allForNow = FALSE /\ resolvers = {}
    /\ heard = {} /\ batch = FALSE /\ disturbed = {}

Next ==
    \/ StartBrowse
    \/ Recreate
    \/ Deliver
    \/ TimerFires
    \/ Resume
    \/ \E a \in Announcements : Announces(a) \/ Withdraws(a)
    \/ SaysAllForNow
    \/ \E id \in Ids, kind \in {"Found", "Failure"} : Answers(id, kind)
    \/ DaemonDies

Spec == Init /\ [][Next]_vars

(***************************************************************************)
(* Fairness: the event loops run (signals are delivered, a timer that      *)
(* stays active fires), slots return, and the daemon's resolvers answer - Avahi's give   *)
(* up after a timeout of their own.  Strong for the answers, because other *)
(* signals may keep filling the bounded bus.                               *)
(***************************************************************************)
Fairness ==
    /\ WF_vars(Deliver)
    /\ WF_vars(TimerFires)
    /\ WF_vars(Resume)
    /\ \A id \in Ids : SF_vars(Answers(id, "Found") \/ Answers(id, "Failure"))

FairSpec == Spec /\ Fairness

-----------------------------------------------------------------------------
\* Every object is one object, in each list once; only an object that a handler
\* suspended in serviceAdded has moved can be in both lists.  A resolver belongs
\* to a live object.
TypeOK ==
    /\ m_autoResolve \in BOOLEAN /\ m_running \in BOOLEAN
    /\ m_browserFinished \in BOOLEAN /\ timer \in BOOLEAN
    /\ m_services \in Seq(Object) /\ m_duringResolve \in Seq(Object)
    /\ IsInjective(m_services) /\ IsInjective(m_duringResolve)
    /\ ToSet(m_services) \cap ToSet(m_duringResolve) \subseteq SuspendedFor("serviceAdded")
    /\ suspended \in Seq(Handler) /\ crashed \in BOOLEAN
    /\ bus \in Seq(Signal)
    /\ served \in BOOLEAN /\ known \subseteq Announcements /\ allForNow \in BOOLEAN
    /\ resolvers \subseteq Held
    /\ heard \subseteq Announcements
    /\ batch \in BOOLEAN /\ disturbed \subseteq Names

Instances(name) ==
    Cardinality({i \in DOMAIN m_services : m_services[i].name = name})
        + Cardinality({i \in DOMAIN m_duringResolve : m_duringResolve[i].name = name})
Heard(name) == Cardinality({a \in heard : NameOf[a] = name})

\* Interfaces and protocols are dropped and ItemRemove takes the first object
\* of the name, yet the books balance: a service has as many objects as it has
\* instances announced, however ItemNew, ItemRemove and answers alternate,
\* unless one of its resolves has failed or its handlers have run inside one
\* another.
InstancesAccounted ==
    suspended = << >> => \A name \in Names \ disturbed : Instances(name) = Heard(name)

\* An object that is waited for has an answer coming, while the daemon lives: a
\* live resolver of its own or an answer on the bus.  One that had neither would
\* keep finished() from ever being emitted again.
AnswerComing ==
    served => \A o \in Awaited :
        o.id \in resolvers \/ \E i \in DOMAIN bus : /\ bus[i].kind \in {"Found", "Failure"}
                                                    /\ bus[i].id = o.id

\* Changes not yet concluded by finished() have something to conclude them: the
\* timer or an object still in m_duringResolve.
BatchHasAnEnd == batch => timer \/ m_duringResolve # << >>

\* "the whole batch will be concluded by finished()" (servicebrowser.h:264),
\* once the daemon stops announcing and withdrawing - also if slots of the
\* application run event loops of their own.
Quiet == <>[][\A a \in Announcements : ~Announces(a) /\ ~Withdraws(a)]_vars
Works == <>[](~crashed /\ (m_running => served))
BatchConcludes == Quiet /\ Works => (batch ~> ~batch)

\* finished() is emitted "when all the services of the requested type that are
\* currently published have been reported" (servicebrowser.h:255-256): once the
\* daemon has sent AllForNow or the timer has run out.  The code does not keep
\* this: m_browserFinished is true from startBrowse() on
\* (avahi-servicebrowser.cpp:96), so that the answer of the last awaited object
\* brings finished() while the daemon is still announcing.
FinishedWhenSettled == [][batch /\ ~batch' => allForNow \/ ~timer']_vars

=============================================================================
