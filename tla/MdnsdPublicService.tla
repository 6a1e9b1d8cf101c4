------------------------- MODULE MdnsdPublicService -------------------------
(***************************************************************************)
(* KDNSSD::PublicService over the mdnsd backend                            *)
(* (src/src/mdnsd-publicservice.cpp, src/src/mdnsd-responder.cpp).         *)
(*                                                                         *)
(* The object registers one service over a connection of its own; closing  *)
(* it withdraws the service and loses the replies nobody has read.  The    *)
(* daemon chooses another name where the given one is taken, and says so.  *)
(* If it dies, process() closes the connection and tells nobody.           *)
(*                                                                         *)
(* customEvent emits published(true) before it takes over the name, and    *)
(* publish() reads replies in a loop; both can be suspended while a slot   *)
(* calls the object, so "suspended" is the stack of them: a slot may call  *)
(* publish() again, also inside publish().  published(false) is emitted in *)
(* tail position, but publish() is still there when its slots return.      *)
(***************************************************************************)
EXTENDS Naturals, Sequences, SequencesExt, MdnsdResponder

CONSTANTS
    Names,          \* service names; the daemon picks alternatives from them
    Configs,        \* domain, type, subtypes, port and text data, as one value
    Failures,       \* ways in which a request may fail; "refused" also stands for
                    \* a text record that TXTRecordSetValue does not take
    CanFail,        \* may the registration fail later?
    DaemonMayDie,
    MaxReplies,     \* bound: replies not read yet
    MaxNesting      \* bound: handlers suspended inside one another

VARIABLES
    svc,        \* the PublicServicePrivate object and its connection
    suspended   \* publish() and customEvent calls in progress, outermost first

vars == <<svc, suspended>>

(***************************************************************************)
(* State of the object.  "record" is what the daemon has registered over   *)
(* its connection and "probing" says that it has still to decide.  "app"   *)
(* is what the application was last told about its last request.  Two      *)
(* histories: "confirmed", a registration has been reported over this      *)
(* connection; "crossed", a reply was read while customEvent was           *)
(* suspended.  A publish() that is "inSlot" has called a slot of           *)
(* published(false) that may still be running.                             *)
(***************************************************************************)
Entry == [name : Names, config : Configs]
Reply == [is : {"Registered"}, name : Names] \cup [is : {"Error"}]
Frame == [of : {"publish"}, inSlot : BOOLEAN] \cup [of : {"customEvent"}, name : Names]

Object ==
    [responder : Responder, m_published : BOOLEAN,
     m_serviceName : Names, m_config : Configs,
     served : BOOLEAN, record : SUBSET Entry, probing : BOOLEAN, replies : Seq(Reply),
     app : {"idle", "waiting", "published", "failed"},
     confirmed : BOOLEAN, crossed : BOOLEAN]

\* The PublicService and PublicServicePrivate constructors.
Constructed(n, c) ==
    [responder |-> NoConnection, m_published |-> FALSE,
     m_serviceName |-> n, m_config |-> c,
     served |-> FALSE, record |-> {}, probing |-> FALSE, replies |-> << >>,
     app |-> "idle", confirmed |-> FALSE, crossed |-> FALSE]

IsRunning(s) == s.responder.m_running

(***************************************************************************)
(* The methods.                                                            *)
(***************************************************************************)
MutDisconnect(s) ==
    [s EXCEPT !.responder = Stopped(@), !.served = FALSE, !.record = {},
              !.probing = FALSE, !.confirmed = FALSE]
\* Responder::stop(): everything that hangs on the connection goes with it.
Disconnect(s) ==
    [s EXCEPT !.responder = Stopped(@), !.served = FALSE, !.record = {},
              !.probing = FALSE, !.replies = << >>, !.confirmed = FALSE]

MutStop(s) == Disconnect(s)
\* PublicService::stop().
Stop(s) == [Disconnect(s) EXCEPT !.m_published = FALSE]

Emit(s, ok) == [s EXCEPT !.app = IF ok THEN "published" ELSE "failed"]

\* The daemon has the registration of a new connection.
Registering(s, r) ==
    [s EXCEPT !.responder = r, !.served = TRUE, !.probing = TRUE, !.replies = << >>,
              !.record = {[name |-> s.m_serviceName, config |-> s.m_config]},
              !.app = "waiting"]

\* publishAsync(): the text record or the registration may be refused.
PublishAsync(s) ==
    LET stopped == IF IsRunning(s) THEN Stop(s) ELSE s IN
    {IF r.m_running THEN Registering(stopped, r)
     ELSE Emit([stopped EXCEPT !.responder = r], FALSE) :
        r \in Requested(stopped.responder, Failures)}

\* What every setter does after its assignment.
Republish(s) == IF IsRunning(s) THEN PublishAsync(Stop(s)) ELSE {s}

\* publish_callback and customEvent, for an error.
MutOnError(s) == Emit(Disconnect(s), FALSE)
OnError(s) == Emit(Stop(s), FALSE)

\* customEvent, for a registration, up to the return of the slots...
OnRegistered(s) ==
    [Emit(s, TRUE) EXCEPT !.m_published = TRUE, !.confirmed = TRUE]
\* ... and after it.
MutTakesName(s, n) == s
TakesName(s, n) == [s EXCEPT !.m_serviceName = n]

MutBroken(s) == s
\* process() finds the connection closed: m_published stays.
Broken(s) == Disconnect(s)

(***************************************************************************)
(* The stack.                                                              *)
(***************************************************************************)
Is(frame) == suspended # << >> /\ Last(suspended).of = frame
Publishing == \E i \in DOMAIN suspended : suspended[i].of = "publish"
InEvent == \E i \in DOMAIN suspended : suspended[i].of = "customEvent"
Crossing(s) == IF InEvent THEN [s EXCEPT !.crossed = TRUE] ELSE s

\* publish() is in its loop, or has called a slot.
InSlot == Is("publish") /\ Last(suspended).inSlot
InLoop == Is("publish") /\ ~Last(suspended).inSlot
\* ... which it does now, or which has returned.
SlotOf(flag) == [suspended EXCEPT ![Len(suspended)] = [of |-> "publish", inSlot |-> flag]]

\* publish() goes round its loop while this holds.
LoopHolds == IsRunning(svc) /\ ~svc.m_published

\* The socket is read by the main event loop, by the loop of publish() and by
\* event loops in slots.
Reads ==
    /\ IsRunning(svc)
    /\ InLoop => LoopHolds
    /\ Is("customEvent") \/ InSlot => Len(suspended) <= MaxNesting

(***************************************************************************)
(* The application.  It calls the object from its own code or from a slot, *)
(* never while publish() is in its loop.                                   *)
(***************************************************************************)
AppMayCall == ~InLoop

Calls(outcomes) ==
    /\ AppMayCall
    /\ svc' \in outcomes
    /\ UNCHANGED suspended

SetServiceName(n) == Calls(Republish([svc EXCEPT !.m_serviceName = n]))

\* setDomain, setType, setSubTypes, setPort, setTextData.
SetConfig(c) == Calls(Republish([svc EXCEPT !.m_config = c]))

CallStop == Calls({[Stop(svc) EXCEPT !.app = "idle"]})

CallPublishAsync == Calls(PublishAsync(svc))

\* publish() up to its loop; publishAsync() may have emitted published(false).
CallPublish ==
    /\ AppMayCall /\ Len(suspended) <= MaxNesting
    /\ svc' \in PublishAsync(svc)
    /\ suspended' = Append(suspended, [of |-> "publish", inSlot |-> svc'.app = "failed"])

PublishReturns ==
    /\ InLoop /\ ~LoopHolds
    /\ suspended' = Front(suspended)
    /\ UNCHANGED svc

\* The application deletes the object, not in one of its slots, and makes
\* another one.
Recreate(n, c) ==
    /\ suspended = << >> /\ svc # Constructed(n, c)
    /\ Stop(svc).responder = NoConnection
    /\ svc' = Constructed(n, c)
    /\ UNCHANGED suspended

\* A slot of published(false) returns to the publish() below it.
SlotReturns ==
    /\ InSlot
    /\ suspended' = SlotOf(FALSE)
    /\ UNCHANGED svc

(***************************************************************************)
(* Replies.                                                                *)
(***************************************************************************)
Process ==
    /\ Reads /\ svc.replies # << >>
    /\ LET reply == Head(svc.replies)
           read == Crossing([svc EXCEPT !.replies = Tail(@)])
       IN  \/ /\ reply.is = "Error"
              /\ svc' = OnError(read)
              /\ suspended' = IF Is("publish") THEN SlotOf(TRUE) ELSE suspended
           \/ /\ reply.is = "Registered"
              /\ svc' = OnRegistered(read)
              /\ suspended' = Append(suspended, [of |-> "customEvent", name |-> reply.name])

\* The slots of published(true) return, and customEvent ends.
Resume ==
    /\ Is("customEvent")
    /\ svc' = TakesName(svc, Last(suspended).name)
    /\ suspended' = Front(suspended)

ProcessFails ==
    /\ Reads /\ svc.replies = << >> /\ ~svc.served
    /\ svc' = Crossing(Broken(svc))
    /\ UNCHANGED suspended

(***************************************************************************)
(* The daemon, as the code relies on it.                                   *)
(***************************************************************************)
Says(s, reply) ==
    /\ svc.served /\ Len(svc.replies) < MaxReplies
    /\ svc' = [s EXCEPT !.replies = Append(@, reply)]
    /\ UNCHANGED suspended

\* What it registers is what it was asked for, but for the name.
Under(n) == {[e EXCEPT !.name = n] : e \in svc.record}

\* It answers a registration, under the given name or another one.
Registers(n) ==
    /\ svc.probing
    /\ Says([svc EXCEPT !.probing = FALSE, !.record = Under(n)], [is |-> "Registered", name |-> n])

\* A conflict shows later: the daemon changes the name by itself.
Renames(n) ==
    /\ ~svc.probing /\ svc.record # Under(n)
    /\ Says([svc EXCEPT !.record = Under(n)], [is |-> "Registered", name |-> n])

\* It gives the registration up.
Refuses ==
    /\ CanFail /\ svc.record # {}
    /\ Says([svc EXCEPT !.probing = FALSE, !.record = {}], [is |-> "Error"])

DaemonDies ==
    /\ DaemonMayDie /\ svc.served
    /\ svc' = [svc EXCEPT !.served = FALSE, !.record = {}, !.probing = FALSE]
    /\ UNCHANGED suspended

-----------------------------------------------------------------------------
Init ==
    /\ svc \in {Constructed(n, c) : n \in Names, c \in Configs}
    /\ suspended = << >>

App ==
    \/ \E n \in Names : SetServiceName(n)
    \/ \E c \in Configs : SetConfig(c)
    \/ CallStop
    \/ CallPublishAsync
    \/ CallPublish
    \/ \E n \in Names, c \in Configs : Recreate(n, c)

Daemon ==
    \/ \E n \in Names : Registers(n) \/ Renames(n)
    \/ Refuses
    \/ DaemonDies

Next == App \/ PublishReturns \/ SlotReturns \/ Process \/ Resume \/ ProcessFails \/ Daemon

Spec == Init /\ [][Next]_vars

(***************************************************************************)
(* Fairness.  publish() blocks in process() until there is something to    *)
(* read, slots return, and the daemon answers a registration in the end.   *)
(***************************************************************************)
Fairness ==
    /\ WF_vars(Process) /\ WF_vars(ProcessFails)
    /\ WF_vars(Resume) /\ WF_vars(SlotReturns) /\ WF_vars(PublishReturns)
    /\ \A n \in Names : WF_vars(Registers(n))

FairSpec == Spec /\ Fairness

-----------------------------------------------------------------------------
TypeOK ==
    /\ svc \in Object
    /\ suspended \in Seq(Frame)
    /\ svc.served \/ svc.replies # << >> \/ svc.confirmed => IsRunning(svc)
    /\ svc.record # {} \/ svc.probing => svc.served

\* Setters, failed calls and broken connections in any order: the object owns
\* one connection at most, so no second registration of it survives.
NoConnectionLeaks == OwnsItsConnection(svc.responder)

\* Once the replies are read, name, type, port and text the object reports are
\* the registered ones, whatever the daemon has renamed: no reply to an earlier
\* request is taken for one to the present.  (A slot that reads replies while
\* customEvent has still to take over an older name upsets that.)
Current(s) == [name |-> s.m_serviceName, config |-> s.m_config]
AnnouncedIsCurrent ==
    svc.record # {} /\ ~svc.probing /\ svc.replies = << >> /\ ~InEvent /\ ~svc.crossed =>
        svc.record = {Current(svc)}

\* isPublished(), which publish() returns, is about the present registration:
\* with a daemon that lives.  See PublishIsTruthful for one that dies.
PublishedIsConfirmed == svc.m_published => svc.confirmed

\* published() tells the truth about the object: while the application waits for
\* it the request is still being worked on, and after published(false) the
\* object does not claim to be published - again with a daemon that lives.
AppNeverStranded ==
    /\ svc.app = "waiting" => IsRunning(svc)
    /\ svc.app = "failed" => ~IsRunning(svc) /\ ~svc.m_published
    /\ svc.app = "published" => svc.m_published

\* publish() "returns true if the service was successfully published"
\* (publicservice.h:110).  The code does not keep this: when the connection
\* breaks m_published stays, publishAsync() does not call stop() for an object
\* that is not running (mdnsd-publicservice.cpp:151), and the loop of publish()
\* is never entered.
PublishIsTruthful == [][PublishReturns /\ svc.m_published => svc.confirmed]_vars

\* publishAsync() "emits published() when completed" (publicservice.h:125), and
\* publish() before it returns (:108).  The code does not keep this: process()
\* closes a broken connection and tells nobody (mdnsd-responder.cpp:61).
AnswerComes == svc.app = "waiting" => IsRunning(svc)

\* "If the service is already published, it will be re-announced with the new
\* name" (publicservice.h:147), and while the daemon decides on it that is the
\* name of the object, which the next setter announces.  The code does not keep
\* this: after a slot of published(true) has set a name customEvent overwrites it
\* (mdnsd-publicservice.cpp:211).
NewNameIsKept == svc.probing => svc.record = {Current(svc)}

\* publish() returns even if the daemon dies, refuses or renames, once the
\* application's slots leave the object alone and the daemon stays with a name.
Calm == <>[][~App /\ \A n \in Names : ~Renames(n)]_vars
PublishTerminates == Calm => (Publishing ~> ~Publishing)
=============================================================================
