------------------------ MODULE AvahiRemoteService -------------------------
(***************************************************************************)
(* KDNSSD::RemoteService over the Avahi backend                            *)
(* (src/src/avahi-remoteservice.cpp): one object, used by the application  *)
(* itself, that resolves its service once or keeps watching it.            *)
(*                                                                         *)
(* Every request has a resolver of its own at the daemon.  Its signals are *)
(* queued by the bus and told apart by its path alone, so those of earlier *)
(* requests are still delivered.  Both handlers emit resolved() in tail    *)
(* position: what a slot calls is a step after the handler.                *)
(***************************************************************************)
EXTENDS Sequences, AvahiListener

CONSTANTS
    Hosts,          \* host name and port, as one value
    Keys            \* keys of the TXT record

Record == [host : Hosts, txt : SUBSET Keys]

VARIABLES
    m_running,          \* also: m_resolver is not null
    m_resolved,
    m_dbusObjectPath,
    m_hostName,         \* and m_port; {} until the first answer, then {host}
    m_textData,         \* the keys of the map
    resolving,          \* the application is inside resolve()
    service,            \* what the service announces
    told,               \* the last each resolver the daemon holds for us has said
    bus,                \* signals sent and not yet delivered, oldest first
    source,             \* history: the path of the answer last taken
    watch               \* history: since the last request was made the application
                        \* has called resolveAsync(), not resolve() alone

object == <<m_running, m_resolved, m_dbusObjectPath, m_hostName, m_textData>>
vars == <<object, resolving, service, told, bus, source, watch>>

resolvers == DOMAIN told

Signal == [path : Paths, kind : {"Found"}, record : Record]
             \cup [path : Paths, kind : {"Failure"}]

\* What a resolver may have said.
Nothing == [kind |-> "Nothing"]
Failure == [kind |-> "Failure"]
Found(record) == [kind |-> "Found", record |-> record]
Word == {Nothing, Failure} \cup {Found(r) : r \in Record}

FreshPath ==
    CHOOSE p \in Paths : /\ p # m_dbusObjectPath /\ p \notin resolvers
                         /\ \A i \in DOMAIN bus : bus[i].path # p

(***************************************************************************)
(* The application.                                                        *)
(***************************************************************************)
MutResolverNew(path) ==
    /\ m_dbusObjectPath' = path
    /\ told' = [p \in resolvers \cup {path} |-> IF p = path THEN Found(service) ELSE told[p]]
\* The daemon starts a resolver, which has said nothing yet: the object listens
\* to every path before it asks, so it will hear the first word.
ResolverNew(path) ==
    /\ m_dbusObjectPath' = path
    /\ told' = [p \in resolvers \cup {path} |-> IF p = path THEN Nothing ELSE told[p]]

\* resolveAsync() of an object that is not running: a resolver is started, or
\* resolved(false) is emitted at once.
Request ==
    /\ ~m_running
    /\ m_resolved' = FALSE
    /\ \/ /\ m_running' = TRUE
          /\ ResolverNew(FreshPath)
       \/ /\ CanFail
          /\ m_dbusObjectPath' = NoPath
          /\ UNCHANGED <<m_running, told>>
    /\ UNCHANGED <<m_hostName, m_textData, service, bus, source>>

\* On a running object resolveAsync() returns without doing anything.
Returns == m_running /\ UNCHANGED <<object, service, told, bus, source>>

ResolveAsync ==
    /\ Request \/ Returns
    /\ watch' = TRUE
    /\ UNCHANGED resolving

\* resolve() up to its loop (one resolve() at a time): it calls resolveAsync().
Resolve ==
    /\ ~resolving
    /\ resolving' = TRUE
    /\ \/ Request /\ watch' = FALSE
       \/ Returns /\ UNCHANGED watch

\* The condition of the loop is false: resolve() returns m_resolved.
ResolveReturns ==
    /\ resolving
    /\ ~(m_running /\ ~m_resolved)
    /\ resolving' = FALSE
    /\ UNCHANGED <<object, service, told, bus, source, watch>>

MutFreed == UNCHANGED told
\* ServiceResolver.Free, if there is a resolver.
Freed == told' = [p \in resolvers \ {m_dbusObjectPath} |-> told[p]]
\* The object is deleted, with ServiceResolver.Free, and a new one is made.
Recreate ==
    /\ ~resolving
    /\ Freed
    /\ m_running' = FALSE /\ m_resolved' = FALSE /\ m_dbusObjectPath' = NoPath
    /\ m_hostName' = {} /\ m_textData' = {}
    /\ source' = NoPath /\ watch' = FALSE
    /\ UNCHANGED <<resolving, service, bus>>

(***************************************************************************)
(* The slots.                                                              *)
(***************************************************************************)
MutGotFoundNoHost(record) ==
    /\ m_textData' = m_textData \cup record.txt
    /\ m_resolved' = TRUE
    /\ source' = Head(bus).path
    /\ UNCHANGED <<m_running, m_dbusObjectPath, m_hostName, told>>
MutGotFoundOnce(record) ==
    /\ m_hostName' = IF m_resolved THEN m_hostName ELSE {record.host}
    /\ m_textData' = m_textData \cup record.txt
    /\ m_resolved' = TRUE
    /\ source' = Head(bus).path
    /\ UNCHANGED <<m_running, m_dbusObjectPath, told>>
\* Text data is added to what an earlier answer has left.
GotFound(record) ==
    /\ m_hostName' = {record.host}
    /\ m_textData' = m_textData \cup record.txt
    /\ m_resolved' = TRUE
    /\ source' = Head(bus).path
    /\ UNCHANGED <<m_running, m_dbusObjectPath, told>>

MutGotError ==
    /\ m_resolved' = FALSE
    /\ Freed
    /\ UNCHANGED <<m_running, m_dbusObjectPath, m_hostName, m_textData, source>>
\* stop() frees the resolver and leaves its path: later signals are still ours.
GotError ==
    /\ m_resolved' = FALSE
    /\ m_running' = FALSE
    /\ Freed
    /\ UNCHANGED <<m_dbusObjectPath, m_hostName, m_textData, source>>

Deliver ==
    /\ bus # << >>
    /\ LET sig == Head(bus) IN
         \/ IsOurMsg(m_dbusObjectPath, sig) /\ sig.kind = "Found" /\ GotFound(sig.record)
         \/ IsOurMsg(m_dbusObjectPath, sig) /\ sig.kind = "Failure" /\ GotError
         \/ ~IsOurMsg(m_dbusObjectPath, sig) /\ UNCHANGED <<object, told, source>>
    /\ bus' = Tail(bus)
    /\ UNCHANGED <<resolving, service, watch>>

(***************************************************************************)
(* The Avahi daemon, as the code relies on it.                             *)
(***************************************************************************)
Send(sig) ==
    /\ Len(bus) < MaxQueue
    /\ bus' = Append(bus, sig)
    /\ UNCHANGED <<object, resolving, service, source, watch>>

\* A resolver finds the service - perhaps after it had given up - and again
\* whenever the service has changed.
Finds(path) ==
    /\ path \in resolvers /\ told[path] # Found(service)
    /\ told' = [told EXCEPT ![path] = Found(service)]
    /\ Send([path |-> path, kind |-> "Found", record |-> service])

\* It gives up, before or after an answer.
Fails(path) ==
    /\ CanFail
    /\ path \in resolvers /\ told[path] # Failure
    /\ told' = [told EXCEPT ![path] = Failure]
    /\ Send([path |-> path, kind |-> "Failure"])

ServiceChanges(record) ==
    /\ service' = record
    /\ UNCHANGED <<object, resolving, told, bus, source, watch>>

-----------------------------------------------------------------------------
Init ==
    /\ m_running = FALSE /\ m_resolved = FALSE /\ m_dbusObjectPath = NoPath
    /\ m_hostName = {} /\ m_textData = {}
    /\ resolving = FALSE
    /\ service \in Record
    /\ told = [p \in {} |-> Nothing]
    /\ bus = << >>
    /\ source = NoPath /\ watch = FALSE

Next ==
    \/ ResolveAsync
    \/ Resolve
    \/ ResolveReturns
    \/ Recreate
    \/ Deliver
    \/ \E p \in Paths : Finds(p) \/ Fails(p)
    \/ \E r \in Record : ServiceChanges(r)

Spec == Init /\ [][Next]_vars

(***************************************************************************)
(* resolve() spins on processEvents, so signals are delivered and the      *)
(* loop's condition is tested (weak); a resolver answers - Avahi's give up *)
(* after a time of their own (strong, as for AvahiServiceBrowser).         *)
(***************************************************************************)
FairSpec ==
    /\ Spec
    /\ WF_vars(Deliver) /\ WF_vars(ResolveReturns)
    /\ \A p \in Paths : SF_vars(Finds(p) \/ Fails(p))

-----------------------------------------------------------------------------
TypeOK ==
    /\ m_running \in BOOLEAN /\ m_resolved \in BOOLEAN /\ resolving \in BOOLEAN
    /\ m_dbusObjectPath \in Paths \cup {NoPath} /\ source \in Paths \cup {NoPath}
    /\ m_hostName \in {{}} \cup {{h} : h \in Hosts} /\ m_textData \subseteq Keys
    /\ m_resolved => m_hostName # {}
    /\ watch \in BOOLEAN
    /\ service \in Record
    /\ resolvers \subseteq Paths /\ told \in [resolvers -> Word]
    /\ bus \in Seq(Signal)

\* The daemon holds one resolver for a running object and none for any other:
\* stop(), a new request and the destructor free each resolver they should, and
\* a running object never loses the resolver that monitors its service.
OneResolver == resolvers = IF m_running THEN {m_dbusObjectPath} ELSE {}

\* An object that is to be resolved will hear of it: its resolver has still to
\* speak, or has spoken and the signal is on the bus.  Without that resolve()
\* would spin for ever.
Queued == \E i \in DOMAIN bus : bus[i].path = m_dbusObjectPath
AnswerComing ==
    m_running /\ ~m_resolved =>
        (m_dbusObjectPath \in resolvers /\ told[m_dbusObjectPath] = Nothing) \/ Queued

\* The answer to an earlier request, delivered after a new one was made, is
\* not taken for the answer to the new one.
OwnAnswer == m_resolved => source = m_dbusObjectPath

\* "RemoteService will keep monitoring the service for changes in hostname and
\* port" (remoteservice.h:74-75): what its resolver has said last is what the
\* object reports, unless it is still on the bus.  The code does so for every
\* running object, also for one that only resolve() was called on: see
\* ResolvedOnce.
Heard == /\ m_running /\ ~Queued
         /\ m_dbusObjectPath \in resolvers /\ told[m_dbusObjectPath].kind = "Found"
Monitored ==
    Heard =>
        /\ m_resolved
        /\ m_hostName = {told[m_dbusObjectPath].record.host}
        /\ told[m_dbusObjectPath].record.txt \subseteq m_textData

\* resolve() returns, unless slots keep making new requests.
ResolveTerminates == <>[][~(ResolveAsync /\ ~m_running)]_vars => (resolving ~> ~resolving)

\* "resolve() will not cause RemoteService to monitor for changes in the
\* hostname or port of the service" (remoteservice.h:90-91): once it has
\* returned, the host of an object that was not asked for more stays what it
\* is.  The code does not keep this: resolve() starts the resolver of
\* resolveAsync() and leaves it running (avahi-remoteservice.cpp:32).
ResolvedOnce ==
    [][~watch /\ ~resolving /\ m_hostName # {} => m_hostName' \in {m_hostName, {}}]_vars

\* textData() "returns additional text data associated with the service"
\* (servicebase.h:128), "valid for [...] resolved remote services" (:130): a key
\* the service no longer announces is no longer reported.  The code does not
\* keep this: keys are only ever added to m_textData, by every answer of this
\* request and of later ones (avahi-remoteservice.cpp:145-152).
TextIsCurrent == Heard => m_textData = told[m_dbusObjectPath].record.txt

\* "RemoteService will keep monitoring the service for changes in hostname and
\* port" (remoteservice.h:74-75): an object that says it is resolved still has
\* its resolver.  The code does not keep this: gotError() stops the object but
\* leaves its path, so a Found that is queued behind the Failure still resolves
\* it, with nothing left at the daemon (avahi-remoteservice.cpp:157-165).
ResolvedIsMonitored == m_resolved => m_running
=============================================================================
