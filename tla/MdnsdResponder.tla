--------------------------- MODULE MdnsdResponder ---------------------------
(***************************************************************************)
(* KDNSSD::Responder (src/src/mdnsd-responder.cpp), the base class of      *)
(* every object of the mdnsd backend: it owns one connection to the        *)
(* responder daemon and reads its replies when the socket is readable.     *)
(*                                                                         *)
(* Its state is a record: m_ref (there is a connection), m_running, which  *)
(* is also the presence of m_socket, and how many connections the client   *)
(* library has allocated for the object and not yet been told to free.     *)
(***************************************************************************)
EXTENDS Naturals

Responder == [m_ref : BOOLEAN, m_running : BOOLEAN, allocated : Nat]

NoConnection == [m_ref |-> FALSE, m_running |-> FALSE, allocated |-> 0]

MutStopped(r) == [m_ref |-> FALSE, m_running |-> FALSE, allocated |-> r.allocated]
\* stop(), also of the destructor and of a process() that fails.
Stopped(r) ==
    [m_ref |-> FALSE, m_running |-> FALSE,
     allocated |-> IF r.m_ref THEN r.allocated - 1 ELSE r.allocated]

\* setRef(), for a new connection that has a socket or has none.
WithRef(r, socket) ==
    LET new == [r EXCEPT !.allocated = @ + 1]
        old == IF r.m_ref THEN Stopped(new) ELSE new
    IN  [old EXCEPT !.m_ref = TRUE, !.m_running = socket]

\* What a DNSService... call and the setRef() after it may lead to: it works, the
\* call is refused, or the connection it makes has no socket.
RequestFailures == {"refused", "no socket"}
Requested(r, failures) ==
    {WithRef(r, TRUE)}
        \cup (IF "refused" \in failures THEN {r} ELSE {})
        \cup (IF "no socket" \in failures THEN {WithRef(r, FALSE)} ELSE {})

\* One connection at most, and the object knows it: none is left to the daemon
\* when the object lets go of it.
OwnsItsConnection(r) == r.allocated = IF r.m_ref THEN 1 ELSE 0
=============================================================================
