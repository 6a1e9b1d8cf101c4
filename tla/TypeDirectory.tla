--------------------------- MODULE TypeDirectory ---------------------------
(***************************************************************************)
(* What KDNSSD::ServiceTypeBrowser promises (src/src/servicetypebrowser.h):*)
(* a list of the types that at least one service has, signals that tell    *)
(* each change of that list exactly once, and finished() to conclude a     *)
(* batch of changes.  Interfaces, protocols, timers and the bus are not    *)
(* visible here.                                                           *)
(***************************************************************************)
CONSTANT Types

VARIABLES
    open,       \* the browser is browsing; without the service it never does
    types,      \* serviceTypes()
    pending,    \* something has happened that no finished() has concluded
    said        \* signals of the last step

vars == <<open, types, pending, said>>

Init == open = FALSE /\ types = {} /\ pending = FALSE /\ said = {}

Open ==
    /\ ~open
    /\ open' = TRUE /\ pending' = TRUE /\ said' = {}
    /\ UNCHANGED types

\* startBrowse() without the DNS-SD service: finished() is due all the same.
Unavailable ==
    /\ ~open
    /\ pending' = TRUE /\ said' = {}
    /\ UNCHANGED <<open, types>>

\* A type appears with its first service and disappears with its last one.
Appears(t) ==
    /\ open /\ t \notin types
    /\ types' = types \cup {t}
    /\ said' = {<<"serviceTypeAdded", t>>}
    /\ pending' = TRUE
    /\ UNCHANGED open

Disappears(t) ==
    /\ open /\ t \in types
    /\ types' = types \ {t}
    /\ said' = {<<"serviceTypeRemoved", t>>}
    /\ pending' = TRUE
    /\ UNCHANGED open

\* Services come and go without a change of the list: nothing is said.
Stirs ==
    /\ open
    /\ said' = {}
    /\ pending' = TRUE
    /\ UNCHANGED <<open, types>>

Conclude ==
    /\ open \/ pending
    /\ said' = {<<"finished">>}
    /\ pending' = FALSE
    /\ UNCHANGED <<open, types>>

\* A step that does not concern the list; what was said has been said.
Elsewhere == said' = {} /\ UNCHANGED <<open, types, pending>>

Close ==
    /\ open \/ pending
    /\ open' = FALSE /\ types' = {} /\ pending' = FALSE /\ said' = {}

Next ==
    \/ Open
    \/ Unavailable
    \/ \E t \in Types : Appears(t) \/ Disappears(t)
    \/ Stirs
    \/ Conclude
    \/ Elsewhere
    \/ Close

Spec == Init /\ [][Next]_vars
=============================================================================
