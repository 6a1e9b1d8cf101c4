------------------------- MODULE MdnsdRemoteService -------------------------
(***************************************************************************)
(* KDNSSD::RemoteService over the mdnsd backend                            *)
(* (src/src/mdnsd-remoteservice.cpp): the methods of one object, as        *)
(* operators on its state.  The object resolves over a connection of its   *)
(* own, and a reply on it is read in the step in which it comes.  Host,    *)
(* port and text data come together and are one flag, hostName: they are   *)
(* known.  It stays set when a later request fails.                        *)
(***************************************************************************)
EXTENDS MdnsdResponder

Service(Names) ==
    [name : Names, responder : Responder, m_resolved : BOOLEAN, hostName : BOOLEAN]

RemoteService(n) ==
    [name |-> n, responder |-> NoConnection, m_resolved |-> FALSE, hostName |-> FALSE]

Resolving(o) == o.responder.m_running

\* Responder::stop(), and process() on a connection that has broken.
StopResolving(o) == [o EXCEPT !.responder = Stopped(@)]

\* resolveAsync(); it emits resolved(false) if the object is not running after it.
ResolveAsync(o, failures) ==
    IF Resolving(o) THEN {o}
    ELSE {[o EXCEPT !.m_resolved = FALSE, !.responder = r] :
          r \in Requested(o.responder, failures)}

\* resolve_callback and customEvent.
OnResolve(o) == [o EXCEPT !.hostName = TRUE, !.m_resolved = TRUE]
OnError(o) == [StopResolving(o) EXCEPT !.m_resolved = FALSE]

\* The replies the daemon may send.
Heard(o, canFail) == {OnResolve(o)} \cup (IF canFail THEN {OnError(o)} ELSE {})

\* resolve(): it reads its own connection until there is a verdict or the
\* connection has broken, and keeps none.
Resolve(o, failures, canFail, mayBreak) ==
    UNION {IF ~Resolving(t) \/ t.m_resolved THEN {StopResolving(t)}
           ELSE {StopResolving(v) : v \in Heard(t, canFail)}
                   \cup (IF mayBreak THEN {StopResolving(t)} ELSE {}) :
           t \in ResolveAsync(o, failures)}
=============================================================================
