------------------------- MODULE AvahiPublicService -------------------------
(***************************************************************************)
(* KDNSSD::PublicService over the Avahi backend                            *)
(* (src/src/avahi-publicservice.cpp, src/src/avahi-publicservice_p.h).     *)
(*                                                                         *)
(* One PublicService object announces one service through an entry group   *)
(* of the Avahi daemon.  The object calls the daemon with blocking D-Bus   *)
(* calls; the daemon's StateChanged signals of the server and of the group *)
(* are queued by the bus and delivered, in order, when the application     *)
(* runs its event loop - so every handler sees states that may have        *)
(* changed since the signal was sent.                                      *)
(*                                                                         *)
(* Each C++ method is an operator that takes the state of the object (with *)
(* the daemon's entry group, which only this object changes) and yields    *)
(* the set of states the method can leave it in: one per choice of D-Bus   *)
(* replies.  Every published() signal is emitted in tail position, so a    *)
(* slot that calls back into the object is a step after the handler.       *)
(***************************************************************************)
EXTENDS Naturals, Sequences

CONSTANTS
    Names,          \* service names; GetAlternativeServiceName picks from them
    NoName,         \* the null QString: "use the computer name"
    Configs,        \* domain, type, subtypes, port and text data, as one value
    ServerStates,   \* what the daemon's server may report
    Faults,         \* D-Bus methods whose reply may be an error
    MaxQueue,       \* bound: undelivered signals on the bus
    Reentrant       \* may slots and timers call the object inside publish()?

Methods == {"GetState", "EntryGroupNew", "GetHostName", "AddService",
            "GetAlternativeServiceName", "AddServiceSubtype", "Commit", "Reset"}

ASSUME NamesAssumption ==
    /\ NoName \notin Names
    /\ \A n \in Names : Names \ {n} # {}
    /\ Names # {} /\ Configs # {}
ASSUME ServerAssumption ==
    /\ ServerStates \subseteq {"REGISTERING", "RUNNING", "COLLISION", "FAILURE"}
    /\ ServerStates # {}
ASSUME FaultsAssumption == Faults \subseteq Methods
ASSUME BoundsAssumption == MaxQueue \in Nat \ {0} /\ Reentrant \in BOOLEAN

VARIABLES
    svc,            \* the PublicServicePrivate object and its entry group
    serverState,    \* state of the Avahi server
    bus,            \* signals sent and not yet delivered, oldest first
    phase,          \* "alive", "destroyed" or "crashed"
    publishing,     \* the application is inside publish()
    confirmed       \* history: the group got established since the last publish

vars == <<svc, serverState, bus, phase, publishing, confirmed>>

(***************************************************************************)
(* State of the object.  "remote" is the daemon's entry group: "NONE" when *)
(* the daemon has none for us - with m_group TRUE that is a proxy whose    *)
(* path died with a daemon.  "entries" is what the group holds; an entry   *)
(* is "whole" if it got all its subtypes.  "app" is what the application   *)
(* was last told about its last request.                                   *)
(***************************************************************************)
GroupStates == {"UNCOMMITED", "REGISTERING", "ESTABLISHED", "COLLISION", "FAILURE"}
Entry == [name : Names, config : Configs, whole : BOOLEAN]
AppStates == {"idle", "waiting", "published", "failed"}

Object ==
    [m_running : BOOLEAN, m_published : BOOLEAN, m_collision : BOOLEAN,
     m_group : BOOLEAN, m_server : BOOLEAN,
     m_serviceName : Names \cup {NoName}, m_config : Configs,
     remote : GroupStates \cup {"NONE"}, entries : SUBSET Entry,
     app : AppStates]

Signal == [from : {"server"}, state : ServerStates]
             \cup [from : {"group"}, state : {"ESTABLISHED", "COLLISION", "FAILURE"}]

\* PublicService::PublicService and the PublicServicePrivate constructor.
Constructed(n, c) ==
    [m_running |-> FALSE, m_published |-> FALSE, m_collision |-> FALSE,
     m_group |-> FALSE, m_server |-> FALSE,
     m_serviceName |-> n, m_config |-> c,
     remote |-> "NONE", entries |-> {}, app |-> "idle"]

(***************************************************************************)
(* The methods.                                                            *)
(***************************************************************************)

\* What a D-Bus call adds to the outcomes when its reply may be an error.
OnError(calls, outcomes) == IF calls \cap Faults # {} THEN outcomes ELSE {}

Emptied(s) == [s EXCEPT !.remote = "UNCOMMITED", !.entries = {}]

\* EntryGroup.Reset, the reply of which nobody looks at.  A dead path has nothing
\* to empty, nor has an object without a group, so this is also
\* "if (m_group) m_group->Reset()".
Reset(s) ==
    IF s.remote = "NONE" THEN {s} ELSE {Emptied(s)} \cup OnError({"Reset"}, {s})

Emit(s, ok) == [s EXCEPT !.app = IF ok THEN "published" ELSE "failed"]

MutStop(s) == {[s EXCEPT !.m_running = FALSE, !.m_published = FALSE]}
Stop(s) == {[t EXCEPT !.m_running = FALSE, !.m_published = FALSE] : t \in Reset(s)}

MutInvalidate(s) == Stop(s)
\* m_parent->stop() followed by published(false).
Invalidate(s) == {Emit(t, FALSE) : t \in Stop(s)}

\* The group the object has, or the one EntryGroupNew gives it.
WithGroup(s) ==
    IF s.m_group THEN s
    ELSE [s EXCEPT !.m_group = TRUE, !.remote = "UNCOMMITED", !.entries = {}]

\* The names the AddService loop may end with: the given one or the computer
\* name, then alternatives while the daemon answers CollisionError - which it
\* does not for a group that no longer exists.
StartNames(s) == IF s.m_serviceName = NoName THEN Names ELSE {s.m_serviceName}
MutTriedNames(s) ==
    IF s.remote = "NONE" THEN {s.m_serviceName} ELSE {s.m_serviceName} \cup Names
TriedNames(s) == IF s.remote = "NONE" THEN StartNames(s) ELSE Names

\* fillEntryGroup returning false, by early return: EntryGroupNew fails,
\* GetHostName fails, AddService or the search for an alternative name fails.
FillFailures(s) ==
    LET g == WithGroup(s) IN
    UNION {
      IF s.m_group THEN {} ELSE OnError({"EntryGroupNew"}, {s}),
      IF s.m_serviceName = NoName THEN OnError({"GetHostName"}, {g}) ELSE {},
      IF g.remote = "NONE" \/ {"AddService", "GetAlternativeServiceName"} \cap Faults # {}
      THEN {[g EXCEPT !.m_serviceName = n] : n \in TriedNames(g)}
      ELSE {} }

\* The names AddService accepts: the group is there and does not hold the name
\* yet (the daemon answers CollisionError for one that is taken).
Accepted(s) ==
    {n \in TriedNames(s) :
        s.remote # "NONE" /\ \A e \in s.entries : <<e.name, e.config>> # <<n, s.m_config>>}

\* Have all of the service's subtypes been taken?  The replies of
\* AddServiceSubtype are not looked at.
SubtypesTaken == {TRUE} \cup OnError({"AddServiceSubtype"}, {FALSE})

MutAdded(s, n) ==
    {[s EXCEPT !.entries = @ \cup {[name |-> n, config |-> s.m_config, whole |-> w]}] :
        w \in SubtypesTaken}
\* The object after AddService has accepted name n, and after the subtypes.
Added(s, n) ==
    {[s EXCEPT !.m_serviceName = n,
               !.entries = @ \cup {[name |-> n, config |-> s.m_config, whole |-> w]}] :
        w \in SubtypesTaken}

\* fillEntryGroup returning true.
FillSuccesses(s) ==
    LET g == WithGroup(s) IN UNION {Added(g, n) : n \in Accepted(g)}

MutCommit(s) == {[s EXCEPT !.remote = "REGISTERING"]}
\* commit(): the reply of EntryGroup.Commit is not looked at.
Commit(s) ==
    IF s.m_collision THEN {s}
    ELSE {[s EXCEPT !.remote = "REGISTERING"]} \cup OnError({"Commit"}, {s})

TryApply(s) ==
    (UNION {Commit(t) : t \in FillSuccesses(s)})
        \cup UNION {Invalidate(t) : t \in FillFailures(s)}

\* What every setter does after its assignment, when m_group is not null.
Reapply(s) == IF s.m_running THEN UNION {TryApply(t) : t \in Reset(s)} ELSE {s}

MutWithdraw(s) == Reset(s)
Withdraw(s) == {[t EXCEPT !.m_collision = TRUE] : t \in Reset(s)}

\* The slot of the server's StateChanged.  AVAHI_SERVER_FAILURE has no case in
\* the switch.
ServerStateChanged(s, state) ==
    CASE s.m_running /\ state = "INVALID" -> Invalidate(s)
      [] s.m_running /\ state \in {"REGISTERING", "COLLISION"} -> Withdraw(s)
      [] s.m_running /\ state = "RUNNING" /\ s.m_collision ->
            TryApply([s EXCEPT !.m_collision = FALSE])
      [] OTHER -> {s}

MutRename(s) ==
    (UNION {Reapply([s EXCEPT !.m_serviceName = n]) : n \in Names \ {s.m_serviceName}})
        \cup OnError({"GetAlternativeServiceName"}, {s})
\* The group's COLLISION: setServiceName with an alternative.
Rename(s) ==
    (UNION {Reapply([s EXCEPT !.m_serviceName = n]) : n \in Names \ {s.m_serviceName}})
        \cup OnError({"GetAlternativeServiceName"}, ServerStateChanged(s, "INVALID"))

\* groupStateChanged, for a signal of our group (isOurMsg); it does not look
\* at m_running.
GroupStateChanged(s, state) ==
    CASE state = "COLLISION" -> Rename(s)
      [] state = "ESTABLISHED" -> {Emit([s EXCEPT !.m_published = TRUE], TRUE)}
      [] state = "FAILURE" -> ServerStateChanged(s, "INVALID")

\* GetState replies with the server's state, or an error stands for INVALID.
StateReplies == {serverState} \cup OnError({"GetState"}, {"INVALID"})

\* The object takes the server's state for a signal, out of a collision.
AsksServer(s) ==
    UNION {ServerStateChanged([s EXCEPT !.m_server = TRUE, !.m_running = TRUE,
                                        !.m_collision = TRUE, !.app = "waiting"],
                              state) : state \in StateReplies}

PublishAsync(s) == UNION {AsksServer(t) : t \in IF s.m_running THEN Stop(s) ELSE {s}}

(***************************************************************************)
(* The application.                                                        *)
(***************************************************************************)
AppMayCall == phase = "alive" /\ (publishing => Reentrant)

\* A setter on the object it has assigned to; with m_running and no group it
\* dereferences the null m_group, and the process and its state are gone.
Setter(s) ==
    /\ AppMayCall
    /\ \/ /\ s.m_running => s.m_group
          /\ svc' \in Reapply(s)
          /\ UNCHANGED <<bus, phase, publishing, confirmed>>
       \/ /\ s.m_running /\ ~s.m_group
          /\ phase' = "crashed"
          /\ svc' = Constructed(NoName, s.m_config)
          /\ bus' = << >>
          /\ publishing' = FALSE
          /\ confirmed' = FALSE
    /\ UNCHANGED serverState

SetServiceName(n) == Setter([svc EXCEPT !.m_serviceName = n])

\* setDomain, setType, setSubTypes, setPort, setTextData.
SetConfig(c) == Setter([svc EXCEPT !.m_config = c])

CallStop ==
    /\ AppMayCall
    /\ svc' \in {[t EXCEPT !.app = "idle"] : t \in Stop(svc)}
    /\ UNCHANGED <<serverState, bus, phase, publishing, confirmed>>

CallPublishAsync ==
    /\ AppMayCall
    /\ svc' \in PublishAsync(svc)
    /\ confirmed' = FALSE
    /\ UNCHANGED <<serverState, bus, phase, publishing>>

\* publish() up to the entry of its event loop (one publish() at a time).
CallPublish ==
    /\ AppMayCall /\ ~publishing
    /\ svc' \in PublishAsync(svc)
    /\ publishing' = TRUE
    /\ confirmed' = FALSE
    /\ UNCHANGED <<serverState, bus, phase>>

\* The condition of publish()'s loop is false: it returns m_published.
PublishReturns ==
    /\ publishing
    /\ ~(svc.m_running /\ ~svc.m_published)
    /\ publishing' = FALSE
    /\ UNCHANGED <<svc, serverState, bus, phase, confirmed>>

\* stop(), then EntryGroup.Free and the end of the signal connections.
Destroy ==
    /\ phase = "alive" /\ ~publishing
    /\ phase' = "destroyed"
    /\ svc' = Constructed(NoName, svc.m_config)
    /\ bus' = << >>
    /\ confirmed' = FALSE
    /\ UNCHANGED <<serverState, publishing>>

Construct(n, c) ==
    /\ phase # "alive"
    /\ phase' = "alive"
    /\ svc' = Constructed(n, c)
    /\ UNCHANGED <<serverState, bus, publishing, confirmed>>

\* The event loop hands the oldest signal to its slot.
Deliver ==
    /\ phase = "alive" /\ bus # << >>
    /\ svc' \in IF Head(bus).from = "server" THEN ServerStateChanged(svc, Head(bus).state)
                ELSE GroupStateChanged(svc, Head(bus).state)
    /\ bus' = Tail(bus)
    /\ UNCHANGED <<serverState, phase, publishing, confirmed>>

(***************************************************************************)
(* The Avahi daemon, as the code relies on it.                             *)
(***************************************************************************)
Send(from, state) == bus' = Append(bus, [from |-> from, state |-> state])

\* Only the Server proxy of publishAsync subscribes to the server's signals.
SendServerState(state) == IF svc.m_server THEN Send("server", state) ELSE UNCHANGED bus

\* A failed server stays so until the daemon is restarted.
ServerChanges(state) ==
    /\ Len(bus) < MaxQueue
    /\ state # serverState /\ serverState # "FAILURE"
    /\ serverState' = state
    /\ SendServerState(state)
    /\ UNCHANGED <<svc, phase, publishing, confirmed>>

\* Probing ends in one of three ways; an established name may still collide.
GroupSteps == {<<"REGISTERING", "ESTABLISHED">>, <<"REGISTERING", "COLLISION">>,
               <<"REGISTERING", "FAILURE">>, <<"ESTABLISHED", "COLLISION">>}

GroupChanges(state) ==
    /\ Len(bus) < MaxQueue
    /\ <<svc.remote, state>> \in GroupSteps
    /\ svc' = [svc EXCEPT !.remote = state]
    /\ Send("group", state)
    /\ confirmed' = (confirmed \/ state = "ESTABLISHED")
    /\ UNCHANGED <<serverState, phase, publishing>>

\* The daemon dies with every group and a new one takes its bus name.
Restart ==
    /\ "REGISTERING" \in ServerStates
    /\ Len(bus) < MaxQueue
    /\ serverState' = "REGISTERING"
    /\ svc' = [svc EXCEPT !.remote = "NONE", !.entries = {}]
    /\ SendServerState("REGISTERING")
    /\ UNCHANGED <<phase, publishing, confirmed>>

-----------------------------------------------------------------------------
Init ==
    /\ svc \in {Constructed(n, c) : n \in Names \cup {NoName}, c \in Configs}
    /\ serverState \in ServerStates
    /\ bus = << >>
    /\ phase = "alive"
    /\ publishing = FALSE
    /\ confirmed = FALSE

App ==
    \/ \E n \in Names \cup {NoName} : SetServiceName(n)
    \/ \E c \in Configs : SetConfig(c)
    \/ CallStop
    \/ CallPublishAsync
    \/ CallPublish
    \/ Destroy
    \/ \E n \in Names \cup {NoName}, c \in Configs : Construct(n, c)

EventLoop == Deliver \/ PublishReturns

Daemon ==
    \/ \E state \in ServerStates : ServerChanges(state)
    \/ \E state \in GroupStates : GroupChanges(state)
    \/ Restart

Next == App \/ EventLoop \/ Daemon

Spec == Init /\ [][Next]_vars

(***************************************************************************)
(* Fairness.  publish() spins on processEvents, and an application runs    *)
(* its event loop, so queued signals are delivered and the loop's          *)
(* condition is tested (weak).  A group that keeps being probed is one day *)
(* established, and the daemon's server does not stay away from RUNNING    *)
(* for ever (strong: the application and other hosts may disturb either).  *)
(* Nothing is assumed of the application, of collisions or of restarts.    *)
(***************************************************************************)
Fairness ==
    /\ WF_vars(Deliver)
    /\ WF_vars(PublishReturns)
    /\ SF_vars(GroupChanges("ESTABLISHED"))
    /\ SF_vars(ServerChanges("RUNNING"))

FairSpec == Spec /\ Fairness

-----------------------------------------------------------------------------
TypeOK ==
    /\ svc \in Object
    /\ serverState \in ServerStates
    /\ bus \in Seq(Signal)
    /\ phase \in {"alive", "destroyed", "crashed"}
    /\ publishing \in BOOLEAN
    /\ confirmed \in BOOLEAN

Withdrawn(s) == s.remote \in {"NONE", "UNCOMMITED"}
Current(s) == [name |-> s.m_serviceName, config |-> s.m_config, whole |-> TRUE]
Announces(s) == \E e \in s.entries : <<e.name, e.config>> = <<s.m_serviceName, s.m_config>>
Pending(from) == {i \in DOMAIN bus : bus[i].from = from}
PendingGroup(state) == \E i \in DOMAIN bus : bus[i] = [from |-> "group", state |-> state]

\* The invariants about what is withdrawn and about verdicts hold with a daemon
\* that obeys Reset; StopStopsPublishing is about one that does not.

\* However a publication ends - stop(), a failed D-Bus call, the server gone
\* INVALID, a group FAILURE - and whatever setter or signal comes after it,
\* a service that is not running has nothing registered at the daemon and
\* nothing left in its group that a later Commit would announce.
StoppedIsWithdrawn == ~svc.m_running => Withdrawn(svc) /\ svc.entries = {}

\* While the object waits for the server to get out of a collision its records
\* are withdrawn, also if setters refill the group meanwhile
\* (avahi-publicservice_p.h, commit()).
CollisionIsWithdrawn == svc.m_running /\ svc.m_collision => Withdrawn(svc)

\* Whatever renaming took place - by the application, by the AddService loop,
\* by a late collision - the name, type, port and text the object reports are
\* the ones it has put on the network.
AnnouncedIsCurrent == ~Withdrawn(svc) => Announces(svc)

\* When every server signal is delivered, a running object agrees with the
\* server on whether registering is allowed: no transition is lost between
\* GetState in publishAsync and the signals, or while handlers run, and so the
\* service is not parked when the server runs nor announced when it may not be.
NoLostWakeup ==
    svc.m_running /\ Pending("server") = {} =>
        /\ serverState = "RUNNING" => ~svc.m_collision
        /\ serverState \in {"REGISTERING", "COLLISION"} => svc.m_collision

\* The daemon's verdict on the group in force is known to the object or on its
\* way: neither Reset nor a stale signal handled in between swallows it.
VerdictNotLost ==
    /\ svc.remote = "ESTABLISHED" => svc.m_published \/ PendingGroup("ESTABLISHED")
    /\ svc.remote \in {"COLLISION", "FAILURE"} => PendingGroup(svc.remote)

\* published() tells the truth about the object: while the application waits
\* for it the request is still being worked on, and after published(false)
\* nothing is on the network or about to be.
AppNeverStranded ==
    /\ svc.app = "waiting" => svc.m_running
    /\ svc.app = "failed" => ~svc.m_running /\ ~svc.m_published /\ Withdrawn(svc)
    /\ svc.app = "published" => svc.m_published

\* publish() does return, when the service is published or "publishing fails"
\* (publicservice.h:104-106).  That takes a daemon that accepts Commit and a
\* server that does not enter FAILURE; with either the code does not keep it.
PublishTerminates == publishing ~> ~publishing

\* publishAsync() "emits published() when completed" (publicservice.h:125),
\* under the same conditions, unless it is stopped or the object goes away.
AsyncCompletes == svc.app = "waiting" ~> svc.app # "waiting"

-----------------------------------------------------------------------------
\* Promises of the headers and comments that the code does not keep.

\* "it is still safe to call any of the methods in this library"
\* (servicebrowser.h:146) when the daemon is not working.
NoCrash == phase # "crashed"

\* publish() "Returns true if the service was successfully published"
\* (publicservice.h:110): the group was established since the call.
PublishIsTruthful ==
    [][publishing /\ ~publishing' /\ phase' = "alive" /\ svc.m_published => confirmed]_vars

\* An object "represents a service to be published" (publicservice.h:25), and a
\* number is appended to the name "if there is already a service" of that name
\* (:56): one that is published has one entry, not also an alternative to itself.
OneServicePerGroup == svc.m_published /\ ~Withdrawn(svc) => svc.entries = {Current(svc)}

\* stop() "stops publishing or aborts an incomplete publish request"
\* (publicservice.h:92); it does not look at the reply of Reset.
StopStopsPublishing == ~svc.m_running => Withdrawn(svc)

\* After setSubTypes() the service is "re-announced with the new subtypes"
\* (publicservice.h:169); the replies of AddServiceSubtype are not looked at.
SubtypesAreAnnounced == ~Withdrawn(svc) => Current(svc) \in svc.entries
=============================================================================
