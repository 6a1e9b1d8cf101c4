-------------------------- MODULE DomainDirectory --------------------------
(***************************************************************************)
(* What KDNSSD::DomainBrowser promises (src/src/domainbrowser.h): a set of *)
(* domains, domainAdded() exactly when one joins it and domainRemoved()    *)
(* exactly when one leaves it, from the first call of startBrowse() to the *)
(* destruction of the object.  Interfaces, encodings, the daemon and the   *)
(* queue of its messages are not visible here.                             *)
(*                                                                         *)
(* Avahi's browser keeps these promises.  mdnsd's does not: what it does   *)
(* besides is stated apart from them, as Lapses.                           *)
(***************************************************************************)
CONSTANT Domains

VARIABLES
    open,       \* the browser is browsing
    domains,    \* domains()
    said        \* signals of the last step

vars == <<open, domains, said>>

Init == open = FALSE /\ domains = {} /\ said = {}

\* "Only the first call to this function will have any effect"
\* (domainbrowser.h:84): nothing is listed before it.
Open ==
    /\ ~open /\ domains = {}
    /\ open' = TRUE /\ said' = {}
    /\ UNCHANGED domains

Appears(d) ==
    /\ open /\ d \notin domains
    /\ domains' = domains \cup {d}
    /\ said' = {<<"domainAdded", d>>}
    /\ UNCHANGED open

Disappears(d) ==
    /\ open /\ d \in domains
    /\ domains' = domains \ {d}
    /\ said' = {<<"domainRemoved", d>>}
    /\ UNCHANGED open

\* A step that does not concern the list; what was said has been said.
Elsewhere == said' = {} /\ UNCHANGED <<open, domains>>

\* "Browsing stops when the DomainBrowser object is destroyed" (:86).
Close == open' = FALSE /\ domains' = {} /\ said' = {}

Next ==
    \/ Open
    \/ \E d \in Domains : Appears(d) \/ Disappears(d)
    \/ Elsewhere
    \/ Close

Spec == Init /\ [][Next]_vars

(***************************************************************************)
(* What the mdnsd backend does and the header does not allow.              *)
(***************************************************************************)
\* The daemon is lost: browsing stops, and what was listed stays.
Loses == open /\ open' = FALSE /\ said' = {} /\ UNCHANGED domains

\* startBrowse() starts it again, with what is left.
Reopens == ~open /\ open' = TRUE /\ said' = {} /\ UNCHANGED domains

\* A domain is said to disappear which is not there.
Vanishes(d) ==
    /\ open /\ d \notin domains
    /\ said' = {<<"domainRemoved", d>>}
    /\ UNCHANGED <<open, domains>>

Lapses == Loses \/ Reopens \/ \E d \in Domains : Vanishes(d)
=============================================================================
