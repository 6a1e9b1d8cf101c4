--------------------------- MODULE MdnsdBrowsing ---------------------------
(***************************************************************************)
(* What sits on top of the mdnsd backend's ServiceBrowser:                 *)
(*   - KDNSSD::ServiceTypeBrowser (src/src/mdnsd-servicetypebrowser.cpp),  *)
(*     which browses "_services._dns-sd._udp", unresolved, for the names   *)
(*     of types;                                                           *)
(*   - KDNSSD::ServiceModel (src/src/servicemodel.cpp), which keeps no     *)
(*     rows and answers a view from services().                            *)
(* "owner" says which of them has the browser.  Both act in the slots of   *)
(* the browser's signals.                                                  *)
(***************************************************************************)
EXTENDS Integers, MdnsdServiceBrowser

VARIABLES
    owner,
    m_servicetypes,
    laidOut         \* the names a view showed after the last layoutChanged()

allVars == <<vars, owner, m_servicetypes, laidOut>>

(***************************************************************************)
(* ServiceTypeBrowser: newService() and removeService().                   *)
(***************************************************************************)
\* The names of the objects the last step has listed, or taken off.
Joined == {n \in Names : Count(m_services', n) > Count(m_services, n)}
Left == {n \in Names : Count(m_services', n) < Count(m_services, n)}

MutTypesAfter(list) == list \o SetToSeq(Joined)
\* newService() appends; removeService() removes all.
TypesAfter(list) == RemoveAll(list, Left) \o SetToSeq(Joined)

(***************************************************************************)
(* ServiceModel.                                                           *)
(***************************************************************************)
Columns == [ServiceName |-> 0, Host |-> 1, Port |-> 2]
ColumnCount == IF m_autoResolve THEN 3 ELSE 1
RowCount(parentIsValid) == IF parentIsValid THEN 0 ELSE Len(m_services)

HasIndex(row, column, parentIsValid) ==
    /\ ~parentIsValid
    /\ column >= 0 /\ column < ColumnCount
    /\ row >= 0 /\ row < RowCount(parentIsValid)

\* data(): the invalid QVariant for whatever is not a cell.  Host and port are
\* known or not.
Data(row, column, role) ==
    IF ~HasIndex(row, column, FALSE) THEN {}
    ELSE LET svr == m_services[row + 1] IN
         CASE role = "ServicePtrRole" -> {svr}
           [] role = "DisplayRole" /\ column = Columns.ServiceName -> {svr.name}
           [] role = "DisplayRole" /\ column \in {Columns.Host, Columns.Port} -> {svr.hostName}
           [] OTHER -> {}

NamesOf(list) == [i \in DOMAIN list |-> list[i].name]

\* layoutChanged() comes with serviceAdded() after the object is listed, and with
\* serviceRemoved() before it is taken off.
LaidOut ==
    CASE Left # {} -> NamesOf(m_services)
      [] Joined # {} -> NamesOf(m_services')
      [] OTHER -> laidOut

-----------------------------------------------------------------------------
OwnerInit ==
    /\ owner \in {"ServiceModel", "ServiceTypeBrowser"}
    /\ owner = "ServiceTypeBrowser" => ~m_autoResolve
    /\ m_servicetypes = << >> /\ laidOut = << >>

\* The owner's slots run before the handler's step is over.
Slots ==
    IF owner = "ServiceModel"
    THEN laidOut' = LaidOut /\ UNCHANGED m_servicetypes
    ELSE m_servicetypes' = TypesAfter(m_servicetypes) /\ UNCHANGED laidOut

OwnedInit == Init /\ OwnerInit

\* The owner goes with its browser, and makes another one.
OwnedRecreate ==
    /\ Recreate
    /\ owner = "ServiceTypeBrowser" => ~m_autoResolve'
    /\ m_servicetypes' = << >> /\ laidOut' = << >>
    /\ UNCHANGED owner

Next == (Step /\ Slots /\ UNCHANGED owner) \/ OwnedRecreate

Spec == OwnedInit /\ [][Next]_allVars

(***************************************************************************)
(* Fairness.  The event loop reads every connection and fires timers, and  *)
(* the daemon answers each resolver it serves in the end.                  *)
(***************************************************************************)
Owned(A) == A /\ Slots /\ UNCHANGED owner
AnyAnswer ==
    \E i \in DOMAIN m_duringResolve :
        \E o \in Heard(m_duringResolve[i], CanFail) : AwaitedReads(i, o)
FairSpec ==
    /\ Spec
    /\ WF_allVars(Owned(Process)) /\ WF_allVars(Owned(OnTimeout))
    /\ WF_allVars(Owned(AnyAnswer))

-----------------------------------------------------------------------------
\* The types listed are those of services(); one that has a single announcement
\* is listed while that is there.  (removeAll() takes a type off with the first
\* of several.)
TypesFollow ==
    /\ ToSet(m_servicetypes) \subseteq NamesIn(m_services)
    /\ \A n \in NamesIn(m_services) :
         Interfaces[n] = 1 /\ leftover[n] = 0
             => Contains(m_servicetypes, n)

\* serviceTypeRemoved() is "Emitted when there are no more services of this type"
\* (servicetypebrowser.h:84): a type stays listed while any object of it is.  The
\* code does not keep this: removeAll() takes every entry of the type with the first
\* of its objects that goes (mdnsd-servicetypebrowser.cpp:50).
TypeStays == owner = "ServiceTypeBrowser" => NamesIn(m_services) \subseteq ToSet(m_servicetypes)

\* A view shows every listed service, in the order of services(), and at most one
\* that has just gone; with an auto-resolving browser every row has a host.
Cells(column) == UNION {Data(row, column, "DisplayRole") : row \in -1 .. Len(m_services)}
ViewFollows ==
    /\ \/ laidOut = NamesOf(m_services)
       \/ \E i \in DOMAIN laidOut : RemoveAt(laidOut, i) = NamesOf(m_services)
    /\ Cells(Columns.ServiceName) = NamesIn(m_services)
    /\ m_autoResolve => Cells(Columns.Host) \subseteq {TRUE}

\* Whichever of them owns the browser follows services().
ObserversFollow == IF owner = "ServiceModel" THEN ViewFollows ELSE TypesFollow
=============================================================================
