--------------------------- MODULE PublicService ---------------------------
(***************************************************************************)
(* KDNSSD::PublicService as an application sees it                         *)
(* (src/src/publicservice.h), over either backend.  The class is one, its  *)
(* documentation is one, and which backend is behind it is decided when    *)
(* the library is built (src/CMakeLists.txt): "backend" never changes, and *)
(* the object of the other backend never comes to life.                    *)
(*                                                                         *)
(* What the header promises whatever the backend is stated here once.      *)
(***************************************************************************)
EXTENDS Naturals, Sequences

CONSTANTS
    Names, NoName, Configs,
    ServerStates, Faults, MaxQueue,         \* of the Avahi backend
    Failures, MaxReplies, MaxNesting        \* of the mdnsd backend

VARIABLES
    backend,
    group,                                  \* the object over Avahi
    serverState, bus, phase, publishing, confirmed,
    connection,                             \* the object over mdnsd
    suspended,
    mortal                                  \* the mdnsd daemon may die

Avahi == INSTANCE AvahiPublicService WITH svc <- group, Reentrant <- FALSE
Mdnsd == INSTANCE MdnsdPublicService WITH
            svc <- connection, CanFail <- TRUE, DaemonMayDie <- TRUE

ASSUME FailuresAssumption == Failures \subseteq Mdnsd!RequestFailures
ASSUME NestingAssumption == MaxReplies \in Nat \ {0} /\ MaxNesting \in Nat

build == <<backend, mortal>>
overAvahi == <<group, serverState, bus, phase, publishing, confirmed>>
overMdnsd == <<connection, suspended>>
vars == <<build, overAvahi, overMdnsd>>

OverAvahi(A) == backend = "avahi" /\ A /\ UNCHANGED <<build, overMdnsd>>
OverMdnsd(A) ==
    /\ backend = "mdnsd"
    /\ A
    /\ Mdnsd!DaemonDies => mortal
    /\ UNCHANGED <<build, overAvahi>>

\* The object that will never be, and the server it would have asked.
NoGroup ==
    /\ group = Avahi!Constructed(NoName, CHOOSE c \in Configs : TRUE)
    /\ serverState = CHOOSE state \in ServerStates : TRUE
NoConnection ==
    /\ connection = Mdnsd!Constructed(CHOOSE n \in Names : TRUE, CHOOSE c \in Configs : TRUE)
    /\ ~mortal

Init ==
    /\ backend \in {"avahi", "mdnsd"}
    /\ mortal \in BOOLEAN
    /\ Avahi!Init /\ Mdnsd!Init
    /\ backend = "avahi" => NoConnection
    /\ backend = "mdnsd" => NoGroup

Next == OverAvahi(Avahi!Next) \/ OverMdnsd(Mdnsd!Next)

Spec == Init /\ [][Next]_vars

\* The fairness of the two modules, each for the backend that is there.
FairSpec ==
    /\ Spec
    /\ WF_vars(OverAvahi(Avahi!Deliver))
    /\ WF_vars(OverAvahi(Avahi!PublishReturns))
    /\ SF_vars(OverAvahi(Avahi!GroupChanges("ESTABLISHED")))
    /\ SF_vars(OverAvahi(Avahi!ServerChanges("RUNNING")))
    /\ WF_vars(OverMdnsd(Mdnsd!Process)) /\ WF_vars(OverMdnsd(Mdnsd!ProcessFails))
    /\ WF_vars(OverMdnsd(Mdnsd!Resume)) /\ WF_vars(OverMdnsd(Mdnsd!SlotReturns))
    /\ WF_vars(OverMdnsd(Mdnsd!PublishReturns))
    /\ \A n \in Names : WF_vars(OverMdnsd(Mdnsd!Registers(n)))

-----------------------------------------------------------------------------
TypeOK == Avahi!TypeOK /\ Mdnsd!TypeOK

\* Setters, failed calls and broken connections in any order: the object owns
\* one connection to the mdnsd daemon at most, so that no second registration of
\* it survives.
NoConnectionLeaks == Mdnsd!NoConnectionLeaks

\* Whatever the application, the AddService loop or the daemon have renamed: the
\* name, type, port and text the object reports are the ones on the network.
AnnouncedIsCurrent == Avahi!AnnouncedIsCurrent /\ Mdnsd!AnnouncedIsCurrent

\* With an mdnsd daemon that lives isPublished(), which publish() returns, is
\* about the present registration, never about an earlier one.
PublishedIsConfirmed == ~mortal => Mdnsd!PublishedIsConfirmed

\* published() tells the truth: who waits for it is being worked for, and after
\* published(false) nothing is claimed to be published - with an mdnsd daemon
\* that lives.
AppNeverStranded == Avahi!AppNeverStranded /\ (~mortal => Mdnsd!AppNeverStranded)

\* publish() does return, when the service is published or "publishing fails"
\* (publicservice.h:104-106): over Avahi if the daemon accepts Commit and its
\* server does not enter FAILURE, over mdnsd also if the daemon dies, once the
\* application's slots leave the object alone.
PublishTerminates == Avahi!PublishTerminates /\ Mdnsd!PublishTerminates

\* publishAsync() "emits published() when completed" (publicservice.h:125), under
\* the same conditions and with an mdnsd daemon that lives, unless it is stopped
\* or the object goes away.
Waiting == connection.app = "waiting"
AsyncCompletes ==
    /\ Avahi!AsyncCompletes
    /\ Mdnsd!Calm => (Waiting /\ ~mortal ~> ~Waiting)
=============================================================================
