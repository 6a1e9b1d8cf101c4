--------------------------- MODULE AvahiListener ---------------------------
(***************************************************************************)
(* KDNSSD::AvahiListener (src/src/avahi_listener_p.h), the base class of   *)
(* the browsers and of RemoteService over the Avahi backend.               *)
(*                                                                         *)
(* The daemon sends signals as soon as it has made an object for a client, *)
(* before the client has read its path from the reply.  So as to lose none *)
(* a listener connects to the signals of every path before it asks, and    *)
(* throws away those that are not from the path it was given.              *)
(***************************************************************************)
EXTENDS Naturals, FiniteSets

CONSTANTS
    Paths, NoPath,  \* D-Bus paths of the daemon's objects, and the empty one
    CanFail,        \* may a request be refused, or a resolver fail?
    MaxQueue        \* bound: undelivered signals on the bus

ASSUME FlagsAssumption == CanFail \in BOOLEAN /\ MaxQueue \in Nat \ {0}
\* The daemon numbers its objects: a path is not used twice, as far as a listener
\* and the signals on the bus can tell.
ASSUME PathsAssumption ==
    NoPath \notin Paths /\ IsFiniteSet(Paths) /\ Cardinality(Paths) > MaxQueue + 1

MutIsOurMsg(m_dbusObjectPath, msg) == m_dbusObjectPath # NoPath
\* The empty path matches nothing.
IsOurMsg(m_dbusObjectPath, msg) ==
    m_dbusObjectPath # NoPath /\ m_dbusObjectPath = msg.path
=============================================================================
