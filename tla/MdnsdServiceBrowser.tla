------------------------ MODULE MdnsdServiceBrowser ------------------------
(***************************************************************************)
(* KDNSSD::ServiceBrowser over the mdnsd backend                           *)
(* (src/src/mdnsd-servicebrowser.cpp), with the RemoteService objects it   *)
(* keeps.                                                                  *)
(*                                                                         *)
(* The browser has one connection and every object that is being resolved  *)
(* or monitored has another; what is on one of them is not ordered with    *)
(* what is on the others.  A reply is handled at once.  MoreComing is set  *)
(* on a reply while further ones wait behind it.  Connections break one by *)
(* one, once what is on them is read, also when the daemon dies; a broken  *)
(* one is closed without a word.  Browsing may then be started again, on   *)
(* top of what is listed.  serviceAdded() is emitted just after an object has     *)
(* joined m_services, serviceRemoved() just before one leaves it; finished *)
(* ends a batch of changes.  Slots are taken to return without running an  *)
(* event loop (AvahiServiceBrowser has those that do).                     *)
(***************************************************************************)
EXTENDS Naturals, Sequences, SequencesExt, FiniteSets, QList, MdnsdRemoteService

CONSTANTS
    Names,          \* services: name, type and domain
    Interfaces,     \* on how many interfaces each may be announced at a time
    Failures,       \* ways in which a request may fail
    CanFail,        \* may what it has started fail later?
    MayBreak,       \* may a connection to the daemon break?
    MaxQueue,       \* bound: replies not read yet
    MaxObjects      \* bound: objects in the lists

ASSUME FlagsAssumption ==
    Failures \subseteq RequestFailures /\ CanFail \in BOOLEAN /\ MayBreak \in BOOLEAN
ASSUME InterfacesAssumption ==
    IsFiniteSet(Names) /\ Interfaces \in [Names -> Nat \ {0}]
ASSUME BoundsAssumption == MaxQueue \in Nat \ {0} /\ MaxObjects \in Nat \ {0}

VARIABLES
    m_autoResolve,
    responder,
    m_finished,
    timeout,            \* the timer is active
    m_services,         \* reported objects, oldest first
    m_duringResolve,    \* objects whose answer is awaited
    replies,            \* replies of the browse not read yet
    known,              \* how many instances of each the daemon has announced on it
    leftover,           \* history: how many of each name an earlier connection left
    failed,             \* history: names of which a resolve has failed on this one
    batch               \* history: changes not yet concluded by finished()

flags == <<m_autoResolve, m_finished, timeout>>
lists == <<m_services, m_duringResolve>>
connection == <<responder, replies, known>>
vars == <<flags, lists, connection, leftover, failed, batch>>

Nothing == [n \in Names |-> 0]
Reply == [op : {"Add", "Remove"}, name : Names] \cup [op : {"Error"}]

NamesIn(list) == {list[i].name : i \in DOMAIN list}
Count(list, n) == Cardinality({i \in DOMAIN list : list[i].name = n})

(***************************************************************************)
(* Steps the handlers share.                                               *)
(***************************************************************************)
\* find() and removeAll() of what it found: objects are equal by name, and only
\* the first one goes.
MutWithoutFirst(list, n) == RemoveAll(list, {o \in ToSet(list) : o.name = n})
WithoutFirst(list, n) == RemoveFirstMatch(list, LAMBDA o : o.name = n)

MutQueryFinished(finished) == batch' = TRUE
\* A handler ends in queryFinished(), for this m_finished, or without it: finished()
\* concludes the batch or not.
QueryFinished(finished) == batch' = ~(finished /\ m_duringResolve' = << >>)

(***************************************************************************)
(* The application.                                                        *)
(***************************************************************************)
\* startBrowse(): a refused request is concluded at once.
StartBrowse ==
    /\ ~responder.m_running
    /\ m_finished' = FALSE
    /\ responder' \in Requested(responder, Failures)
    /\ known' = Nothing
    /\ leftover' = [n \in Names |-> Count(m_services, n) + Count(m_duringResolve, n)]
    /\ IF responder'.m_running
       THEN timeout' = TRUE /\ batch' = TRUE
       ELSE batch' = FALSE /\ UNCHANGED timeout
    /\ failed' = {}
    /\ UNCHANGED <<m_autoResolve, lists, replies>>

\* The application resolves a reported object itself, or has it monitored.
CallResolve(i) ==
    /\ \E o \in Resolve(m_services[i], Failures, CanFail, MayBreak) :
         m_services' = [m_services EXCEPT ![i] = o]
    /\ UNCHANGED <<flags, m_duringResolve, connection, leftover, failed, batch>>

CallResolveAsync(i) ==
    /\ \E o \in ResolveAsync(m_services[i], Failures) :
         m_services' = [m_services EXCEPT ![i] = o]
    /\ UNCHANGED <<flags, m_duringResolve, connection, leftover, failed, batch>>

\* The application deletes the browser with its objects and makes a new one.
Recreate ==
    /\ m_autoResolve' \in BOOLEAN
    /\ responder' = NoConnection
    /\ m_finished' = FALSE /\ timeout' = FALSE
    /\ m_services' = << >> /\ m_duringResolve' = << >>
    /\ replies' = << >> /\ known' = Nothing
    /\ leftover' = Nothing
    /\ failed' = {} /\ batch' = FALSE

(***************************************************************************)
(* query_callback and customEvent of the browser.                          *)
(***************************************************************************)
AddReported(n) ==
    /\ ~m_autoResolve
    /\ m_services' = Append(m_services, RemoteService(n))
    /\ UNCHANGED <<m_duringResolve, failed>>
    /\ QueryFinished(m_finished')

\* The object waits for its answer, or the request fails and serviceResolved()
\* takes it off again, before m_finished is set.
AddResolving(n) ==
    /\ m_autoResolve
    /\ \E o \in ResolveAsync(RemoteService(n), Failures) :
         IF Resolving(o)
         THEN /\ m_duringResolve' = Append(m_duringResolve, o)
              /\ QueryFinished(m_finished')
              /\ UNCHANGED failed
         ELSE /\ UNCHANGED m_duringResolve
              /\ QueryFinished(m_finished \/ m_finished')
              /\ failed' = failed \cup {n}
    /\ UNCHANGED m_services

\* An object that is still awaited goes without a word.
RemoveAwaited(n) ==
    /\ n \in NamesIn(m_duringResolve)
    /\ m_duringResolve' = WithoutFirst(m_duringResolve, n)
    /\ QueryFinished(m_finished')
    /\ UNCHANGED m_services

RemoveReported(n) ==
    /\ n \notin NamesIn(m_duringResolve)
    /\ m_services' = WithoutFirst(m_services, n)
    /\ UNCHANGED m_duringResolve
    /\ QueryFinished(m_finished')

OnAddRemove(reply, last) ==
    /\ m_finished' = last
    /\ \/ reply.op = "Add" /\ (AddReported(reply.name) \/ AddResolving(reply.name))
       \/ /\ reply.op = "Remove"
          /\ RemoveAwaited(reply.name) \/ RemoveReported(reply.name)
          /\ UNCHANGED failed

\* stop(); the batch is not concluded, as m_finished is cleared first.
OnBrowseError ==
    /\ responder' = Stopped(responder)
    /\ replies' = << >> /\ known' = Nothing
    /\ m_finished' = FALSE
    /\ failed' = {}
    /\ UNCHANGED <<lists, batch>>

Process ==
    /\ responder.m_running /\ replies # << >>
    /\ LET reply == Head(replies) IN
         \/ reply.op = "Error" /\ OnBrowseError
         \/ /\ reply.op # "Error"
            /\ replies' = Tail(replies)
            /\ OnAddRemove(reply, Len(replies) = 1)
            /\ UNCHANGED <<responder, known>>
    /\ UNCHANGED <<m_autoResolve, timeout, leftover>>

\* process() finds the connection broken.
ProcessFails ==
    /\ MayBreak /\ responder.m_running /\ replies = << >>
    /\ responder' = Stopped(responder) /\ known' = Nothing
    /\ failed' = {}
    /\ UNCHANGED <<flags, lists, replies, leftover, batch>>

OnTimeout ==
    /\ timeout
    /\ timeout' = FALSE /\ m_finished' = TRUE
    /\ UNCHANGED lists
    /\ QueryFinished(TRUE)
    /\ UNCHANGED <<m_autoResolve, connection, leftover, failed>>

(***************************************************************************)
(* The replies of the objects' connections.                                *)
(***************************************************************************)
MutServiceResolved(i, o) ==
    /\ m_services' = Append(m_services, o)
    /\ m_duringResolve' = RemoveAt(m_duringResolve, i)
    /\ failed' = IF o.m_resolved THEN failed ELSE failed \cup {o.name}
    /\ UNCHANGED m_finished
    /\ QueryFinished(m_finished)
\* The awaited object i has its answer: serviceResolved().
ServiceResolved(i, o) ==
    /\ m_services' = IF o.m_resolved THEN Append(m_services, o) ELSE m_services
    /\ m_duringResolve' = RemoveAt(m_duringResolve, i)
    /\ failed' = IF o.m_resolved THEN failed ELSE failed \cup {o.name}
    /\ UNCHANGED m_finished
    /\ QueryFinished(m_finished)

AwaitedReads(i, o) ==
    /\ Resolving(m_duringResolve[i])
    /\ ServiceResolved(i, o)
    /\ UNCHANGED <<m_autoResolve, timeout, connection, leftover>>

\* process() finds the connection of an awaited object broken.
AwaitedBreaks(i) ==
    /\ MayBreak /\ Resolving(m_duringResolve[i])
    /\ m_duringResolve' = [m_duringResolve EXCEPT ![i] = StopResolving(@)]
    /\ UNCHANGED <<flags, m_services, connection, leftover, failed, batch>>

\* A reported object goes on monitoring; the browser has disconnected from it.
MonitoredReads(i) ==
    /\ Resolving(m_services[i])
    /\ \E o \in Heard(m_services[i], CanFail)
                    \cup (IF MayBreak THEN {StopResolving(m_services[i])} ELSE {}) :
         m_services' = [m_services EXCEPT ![i] = o]
    /\ UNCHANGED <<flags, m_duringResolve, connection, leftover, failed, batch>>

(***************************************************************************)
(* The daemon, as the code relies on it.                                   *)
(***************************************************************************)
Send(reply) ==
    /\ responder.m_running /\ Len(replies) < MaxQueue
    /\ replies' = Append(replies, reply)
    /\ UNCHANGED <<flags, lists, responder, leftover, failed, batch>>

Announces(n) ==
    /\ known[n] < Interfaces[n]
    /\ Len(replies) + Len(m_services) + Len(m_duringResolve) < MaxObjects
    /\ known' = [known EXCEPT ![n] = @ + 1]
    /\ Send([op |-> "Add", name |-> n])

Withdraws(n) ==
    /\ known[n] > 0
    /\ known' = [known EXCEPT ![n] = @ - 1]
    /\ Send([op |-> "Remove", name |-> n])

BrowsingFails == CanFail /\ Send([op |-> "Error"]) /\ UNCHANGED known

-----------------------------------------------------------------------------
Init ==
    /\ m_autoResolve \in BOOLEAN
    /\ responder = NoConnection
    /\ m_finished = FALSE /\ timeout = FALSE
    /\ m_services = << >> /\ m_duringResolve = << >>
    /\ replies = << >> /\ known = Nothing
    /\ leftover = Nothing
    /\ failed = {} /\ batch = FALSE

Reads ==
    \/ Process
    \/ ProcessFails
    \/ \E i \in DOMAIN m_duringResolve :
         (\E o \in Heard(m_duringResolve[i], CanFail) : AwaitedReads(i, o)) \/ AwaitedBreaks(i)
    \/ \E i \in DOMAIN m_services : MonitoredReads(i)

\* What one browser does between construction and destruction.
Step ==
    \/ StartBrowse
    \/ \E i \in DOMAIN m_services : CallResolve(i) \/ CallResolveAsync(i)
    \/ Reads
    \/ OnTimeout
    \/ \E n \in Names : Announces(n) \/ Withdraws(n)
    \/ BrowsingFails

-----------------------------------------------------------------------------
\* An object has one connection at most, and a resolved one knows its host.
ObjectOK(o) ==
    /\ o \in Service(Names)
    /\ OwnsItsConnection(o.responder)
    /\ o.m_resolved => o.hostName

TypeOK ==
    /\ m_autoResolve \in BOOLEAN /\ m_finished \in BOOLEAN /\ timeout \in BOOLEAN
    /\ responder \in Responder /\ OwnsItsConnection(responder)
    /\ \A list \in {m_services, m_duringResolve} : \A i \in DOMAIN list : ObjectOK(list[i])
    /\ replies \in Seq(Reply)
    /\ \A n \in Names : known[n] \in 0 .. Interfaces[n]
    /\ leftover \in [Names -> Nat] /\ failed \subseteq Names
    /\ batch \in BOOLEAN
    /\ replies # << >> \/ known # Nothing => responder.m_running
    /\ m_duringResolve # << >> => m_autoResolve
    /\ m_autoResolve => \A i \in DOMAIN m_services : m_services[i].hostName
    /\ \A i \in DOMAIN m_duringResolve : ~m_duringResolve[i].m_resolved

\* There are as many objects of a service as the daemon has announced instances
\* of it, but for the replies still to be read and for what an earlier connection
\* has left - unless a resolve of that service has failed: then an object too few
\* is there, and the Remove of its instance takes another one.
Unread(op, n) ==
    Cardinality({i \in DOMAIN replies : replies[i].op = op /\ replies[i].name = n})
InstancesAccounted ==
    responder.m_running => \A n \in Names \ failed :
        Count(m_services, n) + Count(m_duringResolve, n) + Unread("Add", n)
            = known[n] + Unread("Remove", n) + leftover[n]

\* Every batch is concluded by finished() (servicebrowser.h:251-257) once the
\* daemon is quiet, also when resolves fail - if browsing goes on and no connection of
\* an awaited object breaks: nothing says so, and the object is awaited for ever.
Quiet == <>[][\A n \in Names : ~Announces(n) /\ ~Withdraws(n)]_vars
Works == <>[](responder.m_running /\ \A i \in DOMAIN m_duringResolve : Resolving(m_duringResolve[i]))
BatchConcludes == Quiet /\ Works => (batch ~> ~batch)

\* "even if none are available or the DNS-SD service is not available"
\* (servicebrowser.h:256-257): a batch is concluded also when browsing ends with an
\* error.  The code does not keep this: it clears m_finished before it asks
\* queryFinished() (mdnsd-servicebrowser.cpp:138), and once the timer has fired
\* nothing sets it again.
ErrorConcludes == Quiet => (batch ~> ~batch)

\* "Only the first call to this function will have any effect"
\* (servicebrowser.h:128): a browser that has listed services does not start again.
\* The code does, when its connection has broken (mdnsd-servicebrowser.cpp:88),
\* and lists on top of them what it is told anew.
OnlyFirstStart == [][m_services # << >> /\ responder'.m_running => responder.m_running]_vars
=============================================================================
