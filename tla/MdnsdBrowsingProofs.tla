------------------------ MODULE MdnsdBrowsingProofs ------------------------
(***************************************************************************)
(* Theorems about the mdnsd backend's ServiceBrowser with its objects and  *)
(* with what sits on top of it, for every set of services, every number of *)
(* interfaces, every queue and list, and whatever fails or breaks.         *)
(*                                                                         *)
(* Each step is first reduced to what it does to the list of reported      *)
(* objects, which the owner's slots see, and to the books: how many        *)
(* objects of a service there are, the replies not read yet, and what the  *)
(* daemon has announced.  The parts of the inductive invariant speak of    *)
(* these alone.                                                            *)
(***************************************************************************)
EXTENDS MdnsdBrowsing, ListFacts

(***************************************************************************)
(* Objects and their connections.                                          *)
(***************************************************************************)
Object == {o \in Service(Names) : ObjectOK(o)}
Named(n) == {o \in Object : o.name = n}

\* The same object, after something has happened to its connection.
StillIs(o, p) == p \in Object /\ p.name = o.name /\ (o.hostName => p.hostName)

LEMMA RequestedFacts ==
    ASSUME NEW r \in Responder, OwnsItsConnection(r), NEW failures, NEW s \in Requested(r, failures)
    PROVE  s \in Responder /\ OwnsItsConnection(s)
<1>1. ASSUME NEW socket \in BOOLEAN
      PROVE  WithRef(r, socket) \in Responder /\ OwnsItsConnection(WithRef(r, socket))
  <2> DEFINE new == [r EXCEPT !.allocated = @ + 1]
             old == IF r.m_ref THEN Stopped(new) ELSE new
  <2>1. new \in Responder /\ new.m_ref = r.m_ref /\ new.allocated = r.allocated + 1
    BY DEF Responder
  <2>2. r.allocated = IF r.m_ref THEN 1 ELSE 0
    BY DEF OwnsItsConnection
  <2>3. old \in Responder /\ old.allocated = 1
    <3> HIDE DEF new
    <3> QED
      BY <2>1, <2>2 DEF Stopped, Responder
  <2>4. WithRef(r, socket) = [old EXCEPT !.m_ref = TRUE, !.m_running = socket]
    BY DEF WithRef
  <2> HIDE DEF old
  <2> QED
    BY <2>3, <2>4 DEF Responder, OwnsItsConnection
<1>2. s = r \/ s = WithRef(r, TRUE) \/ s = WithRef(r, FALSE)
  BY DEF Requested
<1> QED
  BY <1>1, <1>2

LEMMA StoppedFacts ==
    ASSUME NEW r \in Responder, OwnsItsConnection(r)
    PROVE  Stopped(r) \in Responder /\ OwnsItsConnection(Stopped(r)) /\ ~Stopped(r).m_running
  BY DEF Stopped, Responder, OwnsItsConnection

LEMMA NewObject ==
    ASSUME NEW n \in Names
    PROVE  /\ RemoteService(n) \in Named(n)
           /\ ~Resolving(RemoteService(n))
           /\ ~RemoteService(n).m_resolved
  BY DEF RemoteService, NoConnection, Named, Object, ObjectOK, Service, Responder,
         OwnsItsConnection, Resolving

LEMMA StopResolvingFacts ==
    ASSUME NEW o \in Object
    PROVE  /\ StillIs(o, StopResolving(o))
           /\ StopResolving(o).m_resolved = o.m_resolved
<1>1. o.responder \in Responder /\ OwnsItsConnection(o.responder)
  BY DEF Object, Service, ObjectOK
<1>2. Stopped(o.responder) \in Responder /\ OwnsItsConnection(Stopped(o.responder))
  BY <1>1, StoppedFacts
<1> DEFINE r == Stopped(o.responder)
<1> HIDE DEF r
<1> QED
  BY <1>2 DEF r, StopResolving, StillIs, Object, Service, ObjectOK

LEMMA ResolveAsyncFacts ==
    ASSUME NEW o \in Object, NEW failures, NEW t \in ResolveAsync(o, failures)
    PROVE  /\ StillIs(o, t)
           /\ ~o.m_resolved => ~t.m_resolved
<1>1. o.responder \in Responder /\ OwnsItsConnection(o.responder)
  BY DEF Object, Service, ObjectOK
<1>2. CASE t = o
  BY <1>2 DEF StillIs
<1>3. ASSUME NEW r \in Requested(o.responder, failures),
             t = [o EXCEPT !.m_resolved = FALSE, !.responder = r]
      PROVE  StillIs(o, t) /\ ~t.m_resolved
  <2>1. r \in Responder /\ OwnsItsConnection(r)
    BY <1>1, RequestedFacts
  <2> QED
    BY <1>3, <2>1 DEF StillIs, Object, Service, ObjectOK
<1> QED
  BY <1>2, <1>3 DEF ResolveAsync

LEMMA HeardFacts ==
    ASSUME NEW o \in Object, NEW canFail, NEW v \in Heard(o, canFail)
    PROVE  /\ StillIs(o, v)
           /\ v.m_resolved => v.hostName
<1>1. CASE v = OnResolve(o)
  BY <1>1 DEF OnResolve, StillIs, Object, Service, ObjectOK
<1>2. CASE v = OnError(o)
  <2>1. StillIs(o, StopResolving(o))
    BY StopResolvingFacts
  <2> DEFINE s == StopResolving(o)
  <2> HIDE DEF s
  <2> QED
    BY <1>2, <2>1 DEF s, OnError, StillIs, Object, Service, ObjectOK
<1> QED
  BY <1>1, <1>2 DEF Heard

LEMMA StillIsFacts ==
    ASSUME NEW o \in Object, NEW p, NEW q, StillIs(o, p), StillIs(p, q)
    PROVE  StillIs(o, q)
  BY DEF StillIs

LEMMA ResolveFacts ==
    ASSUME NEW o \in Object, NEW failures, NEW canFail, NEW mayBreak,
           NEW v \in Resolve(o, failures, canFail, mayBreak)
    PROVE  StillIs(o, v)
<1>1. PICK t \in ResolveAsync(o, failures) :
        v = StopResolving(t) \/ \E u \in Heard(t, canFail) : v = StopResolving(u)
  BY DEF Resolve
<1>2. StillIs(o, t) /\ t \in Object
  BY ResolveAsyncFacts DEF StillIs
<1>3. CASE v = StopResolving(t)
  BY <1>2, <1>3, StopResolvingFacts, StillIsFacts
<1>4. ASSUME NEW u \in Heard(t, canFail), v = StopResolving(u)
      PROVE  StillIs(o, v)
  <2>1. StillIs(t, u) /\ u \in Object
    BY <1>2, HeardFacts DEF StillIs
  <2>2. StillIs(u, v)
    BY <1>4, <2>1, StopResolvingFacts
  <2> QED
    BY <1>2, <2>1, <2>2, StillIsFacts
<1> QED
  BY <1>1, <1>3, <1>4

-----------------------------------------------------------------------------
(***************************************************************************)
(* Lists of objects.                                                       *)
(***************************************************************************)
LEMMA CountIs ==
    ASSUME NEW list \in Seq(Object), NEW n
    PROVE  /\ Count(list, n) = Occurrences(list, Named(n))
           /\ Count(list, n) \in Nat
           /\ n \in NamesIn(list) <=> Occurrences(list, Named(n)) # 0
<1>1. {i \in DOMAIN list : list[i].name = n} = Places(list, Named(n))
  BY ListBasics DEF Places, Named
<1>2. Occurrences(list, Named(n)) \in Nat
  BY PlacesFinite
<1>3. Occurrences(list, Named(n)) = 0 <=> \A i \in DOMAIN list : list[i] \notin Named(n)
  BY PlacesFinite
<1>4. n \in NamesIn(list) <=> \E i \in DOMAIN list : list[i] \in Named(n)
  BY ListBasics DEF NamesIn, Named
<1> QED
  BY <1>1, <1>2, <1>3, <1>4 DEF Count, Occurrences

LEMMA NamesOfFacts ==
    ASSUME NEW list \in Seq(Object)
    PROVE  /\ NamesOf(list) \in Seq(Names)
           /\ DOMAIN NamesOf(list) = DOMAIN list
           /\ Len(NamesOf(list)) = Len(list)
           /\ \A i \in DOMAIN list : NamesOf(list)[i] = list[i].name
<1>1. /\ Len(list) \in Nat /\ DOMAIN list = 1..Len(list)
      /\ \A i \in DOMAIN list : list[i] \in Object
  BY ListBasics
<1>2. NamesOf(list) \in [1..Len(list) -> Names]
  BY <1>1 DEF NamesOf, Object, Service
<1>3. NamesOf(list) \in Seq(Names)
  BY <1>1, <1>2, IsASeq
<1> QED
  BY <1>1, <1>2, <1>3, LenProperties DEF NamesOf

\* Lists with the same names have the same numbers of every name.
LEMMA SameNames ==
    ASSUME NEW list \in Seq(Object), NEW new \in Seq(Object), NamesOf(new) = NamesOf(list)
    PROVE  \A n : Occurrences(new, Named(n)) = Occurrences(list, Named(n))
<1>1. /\ DOMAIN new = DOMAIN list
      /\ \A i \in DOMAIN list : new[i].name = list[i].name
  BY NamesOfFacts
<1>2. \A i \in DOMAIN list : new[i] \in Object /\ list[i] \in Object
  BY <1>1, ListBasics
<1> SUFFICES ASSUME NEW n PROVE Places(new, Named(n)) = Places(list, Named(n))
  BY DEF Occurrences
<1> QED
  BY <1>1, <1>2 DEF Places, Named

\* What happens to an object's connection changes no names.
LEMMA ReplaceFacts ==
    ASSUME NEW list \in Seq(Object), NEW i \in DOMAIN list, NEW p, StillIs(list[i], p)
    PROVE  /\ [list EXCEPT ![i] = p] \in Seq(Object)
           /\ DOMAIN [list EXCEPT ![i] = p] = DOMAIN list
           /\ [list EXCEPT ![i] = p][i] = p
           /\ \A j \in DOMAIN list \ {i} : [list EXCEPT ![i] = p][j] = list[j]
           /\ NamesOf([list EXCEPT ![i] = p]) = NamesOf(list)
<1>1. p \in Object /\ p.name = list[i].name
  BY DEF StillIs
<1>2. [list EXCEPT ![i] = p] \in Seq(Object)
  BY <1>1, ExceptSeq
<1> QED
  BY <1>1, <1>2 DEF NamesOf

\* find() gives the first object of the name, and it alone goes.
LEMMA WithoutFirstFacts ==
    ASSUME NEW list \in Seq(Object), NEW n
    PROVE  /\ n \in NamesIn(list) =>
                \E i \in DOMAIN list : /\ list[i].name = n /\ list[i] \in Named(n)
                                       /\ WithoutFirst(list, n) = RemoveAt(list, i)
           /\ n \notin NamesIn(list) => WithoutFirst(list, n) = list
<1>1. DOMAIN list = 1..Len(list) /\ \A i \in DOMAIN list : list[i] \in Object
  BY ListBasics
<1>2. CASE n \in NamesIn(list)
  <2> DEFINE first == Min(Places(list, Named(n)))
  <2>1. PICK i \in DOMAIN list : list[i].name = n
    BY <1>2 DEF NamesIn
  <2>2. {j \in 1..Len(list) : list[j].name = n} = Places(list, Named(n))
    BY <1>1 DEF Places, Named
  <2>3. i \in Places(list, Named(n))
    BY <1>1, <2>1 DEF Places, Named
  <2>4. WithoutFirst(list, n) = RemoveAt(list, first)
    BY <1>1, <2>1, <2>2, <2>3 DEF WithoutFirst, RemoveFirstMatch, SelectInSeq
  <2>5. first \in DOMAIN list /\ list[first] \in Named(n)
    BY <1>1, <2>1, <2>3, FirstPlace DEF Places
  <2> HIDE DEF first
  <2> QED
    BY <1>2, <2>4, <2>5 DEF Named
<1>3. CASE n \notin NamesIn(list)
  BY <1>1, <1>3 DEF NamesIn, WithoutFirst, RemoveFirstMatch
<1> QED
  BY <1>2, <1>3

\* Taking off the object at a place.
LEMMA TakenOff ==
    ASSUME NEW list \in Seq(Object), NEW i \in DOMAIN list
    PROVE  /\ RemoveAt(list, i) \in Seq(Object)
           /\ \A j \in DOMAIN RemoveAt(list, i) : \E k \in DOMAIN list : RemoveAt(list, i)[j] = list[k]
           /\ list # << >>
           /\ \A n : Occurrences(list, Named(n))
                        = Occurrences(RemoveAt(list, i), Named(n))
                             + IF list[i].name = n THEN 1 ELSE 0
           /\ \A n : Occurrences(RemoveAt(list, i), Named(n)) \in Nat
<1>1. DOMAIN list = 1..Len(list) /\ Len(list) \in Nat /\ list[i] \in Object
  BY ListBasics
<1>2. /\ RemoveAt(list, i) \in Seq(Object)
      /\ DOMAIN RemoveAt(list, i) = 1..(Len(list) - 1)
      /\ \A j \in 1..(Len(list) - 1) :
            RemoveAt(list, i)[j] = IF j < i THEN list[j] ELSE list[j + 1]
  BY RemoveAtFacts
<1>3. \A j \in 1..(Len(list) - 1) : j \in DOMAIN list /\ j + 1 \in DOMAIN list
  BY <1>1
<1>4. ASSUME NEW n
      PROVE  Occurrences(list, Named(n))
               = Occurrences(RemoveAt(list, i), Named(n)) + IF list[i].name = n THEN 1 ELSE 0
  <2>1. list[i] \in Named(n) <=> list[i].name = n
    BY <1>1 DEF Named
  <2> QED
    BY <2>1, RemoveAtOccurrences
<1>5. \A n : Occurrences(RemoveAt(list, i), Named(n)) \in Nat
  BY <1>2, PlacesFinite
<1>6. list # << >>
  BY ListBasics
<1> QED
  BY <1>2, <1>3, <1>4, <1>5, <1>6

\* Putting an object at the end.
LEMMA PutOn ==
    ASSUME NEW list \in Seq(Object), NEW o \in Object
    PROVE  /\ Append(list, o) \in Seq(Object)
           /\ \A j \in DOMAIN Append(list, o) :
                 Append(list, o)[j] = o \/ \E k \in DOMAIN list : Append(list, o)[j] = list[k]
           /\ \A n : Occurrences(Append(list, o), Named(n))
                        = Occurrences(list, Named(n)) + IF o.name = n THEN 1 ELSE 0
<1>1. /\ Append(list, o) \in Seq(Object)
      /\ DOMAIN Append(list, o) = DOMAIN list \cup {Len(list) + 1}
      /\ \A i \in DOMAIN list : Append(list, o)[i] = list[i]
      /\ Append(list, o)[Len(list) + 1] = o
  BY AppendFacts
<1>2. ASSUME NEW n
      PROVE  Occurrences(Append(list, o), Named(n))
                 = Occurrences(list, Named(n)) + IF o.name = n THEN 1 ELSE 0
  <2>1. o \in Named(n) <=> o.name = n
    BY DEF Named
  <2> QED
    BY <2>1, AppendOccurrences
<1> QED
  BY <1>1, <1>2

-----------------------------------------------------------------------------
(***************************************************************************)
(* The replies of the browse lead from the number of instances of a        *)
(* service that have been read of to the number the daemon has announced.  *)
(* f is what will have been read of after each of them: never fewer than   *)
(* none, so a Remove has an instance to take away, and never more than     *)
(* there are interfaces.                                                   *)
(***************************************************************************)
Added(n) == {[op |-> "Add", name |-> n]}
Removed(n) == {[op |-> "Remove", name |-> n]}

Walks(f, list, n, top, from, to) ==
    /\ f \in [0..Len(list) -> 0..top]
    /\ f[0] = from /\ f[Len(list)] = to
    /\ \A i \in 1..Len(list) :
          f[i] + (IF list[i] \in Removed(n) THEN 1 ELSE 0)
              = f[i - 1] + (IF list[i] \in Added(n) THEN 1 ELSE 0)

Accounts(list, n, top, from, to) == \E f : Walks(f, list, n, top, from, to)

LEMMA OpsDiffer == \A n, m : Added(n) \cap Removed(m) = {}
<1> SUFFICES ASSUME NEW n, NEW m, [op |-> "Add", name |-> n] = [op |-> "Remove", name |-> m]
             PROVE  FALSE
  BY DEF Added, Removed
<1> DEFINE a == [op |-> "Add", name |-> n]
           r == [op |-> "Remove", name |-> m]
<1>1. a.op = "Add" /\ r.op = "Remove" /\ a = r
  OBVIOUS
<1> HIDE DEF a, r
<1> QED
  BY <1>1

LEMMA EmptyAccounts ==
    ASSUME NEW n, NEW top \in Nat, NEW from \in 0..top
    PROVE  Accounts(<< >>, n, top, from, from)
<1>1. Len(<< >>) = 0
  OBVIOUS
<1>2. Walks([i \in 0..0 |-> from], << >>, n, top, from, from)
  BY <1>1 DEF Walks
<1> QED
  BY <1>2 DEF Accounts

LEMMA AccountsRange ==
    ASSUME NEW list \in Seq(Reply), NEW n, NEW top, NEW from, NEW to,
           Accounts(list, n, top, from, to)
    PROVE  from \in 0..top /\ to \in 0..top
<1>1. Len(list) \in Nat
  BY ListBasics
<1> QED
  BY <1>1 DEF Accounts, Walks

LEMMA AppendAccounts ==
    ASSUME NEW list \in Seq(Reply), NEW e \in Reply, NEW n, NEW top \in Nat, NEW from, NEW to,
           Accounts(list, n, top, from, to),
           NEW new \in 0..top,
           new + (IF e \in Removed(n) THEN 1 ELSE 0) = to + (IF e \in Added(n) THEN 1 ELSE 0)
    PROVE  Accounts(Append(list, e), n, top, from, new)
<1> DEFINE end == Len(list) + 1
           longer == Append(list, e)
<1>1. PICK f : Walks(f, list, n, top, from, to)
  BY DEF Accounts
<1> DEFINE g == [i \in 0..end |-> IF i = end THEN new ELSE f[i]]
<1>2. /\ Len(list) \in Nat
      /\ Len(longer) = end
      /\ \A i \in 1..Len(list) : longer[i] = list[i]
      /\ longer[end] = e
  BY AppendFacts, ListBasics
<1>3. g[0] = from /\ g[end] = new /\ g[end - 1] = to
  BY <1>1, <1>2 DEF Walks
<1>4. g \in [0..end -> 0..top]
  BY <1>1, <1>2 DEF Walks
<1>5. ASSUME NEW i \in 1..end
      PROVE  g[i] + (IF longer[i] \in Removed(n) THEN 1 ELSE 0)
               = g[i - 1] + (IF longer[i] \in Added(n) THEN 1 ELSE 0)
  <2>1. CASE i = end
    BY <1>2, <1>3, <2>1
  <2>2. CASE i # end
    <3>1. i \in 1..Len(list) /\ g[i] = f[i] /\ g[i - 1] = f[i - 1]
      BY <1>2, <2>2
    <3>2. longer[i] = list[i]
      BY <1>2, <3>1
    <3> HIDE DEF g, longer
    <3> QED
      BY <1>1, <3>1, <3>2 DEF Walks
  <2> QED
    BY <2>1, <2>2
<1> HIDE DEF g, longer, end
<1>6. Walks(g, longer, n, top, from, new)
  BY <1>2, <1>3, <1>4, <1>5 DEF Walks
<1> QED
  BY <1>6 DEF Accounts, longer

LEMMA TailAccounts ==
    ASSUME NEW list \in Seq(Reply), list # << >>, NEW n, NEW top \in Nat, NEW from, NEW to,
           Accounts(list, n, top, from, to)
    PROVE  \E new \in 0..top :
             /\ new + (IF Head(list) \in Removed(n) THEN 1 ELSE 0)
                  = from + (IF Head(list) \in Added(n) THEN 1 ELSE 0)
             /\ Accounts(Tail(list), n, top, new, to)
<1>1. PICK f : Walks(f, list, n, top, from, to)
  BY DEF Accounts
<1> DEFINE rest == Tail(list)
           g == [i \in 0..Len(rest) |-> f[i + 1]]
<1>2. /\ Head(list) = list[1]
      /\ Len(list) \in Nat \ {0}
      /\ Len(rest) = Len(list) - 1
      /\ DOMAIN rest = 1..(Len(list) - 1)
      /\ \A i \in DOMAIN rest : i + 1 \in DOMAIN list /\ rest[i] = list[i + 1]
  BY HeadTailFacts
<1> HIDE DEF rest
<1>3. g \in [0..Len(rest) -> 0..top] /\ g[0] = f[1] /\ g[Len(rest)] = f[Len(list)]
  BY <1>1, <1>2 DEF Walks
<1>4. ASSUME NEW i \in 1..Len(rest)
      PROVE  g[i] + (IF rest[i] \in Removed(n) THEN 1 ELSE 0)
               = g[i - 1] + (IF rest[i] \in Added(n) THEN 1 ELSE 0)
  <2>1. i + 1 \in 1..Len(list) /\ g[i] = f[i + 1] /\ g[i - 1] = f[(i + 1) - 1]
    BY <1>2
  <2>2. rest[i] = list[i + 1]
    BY <1>2
  <2> HIDE DEF g
  <2> QED
    BY <1>1, <2>1, <2>2 DEF Walks
<1>5. 1 \in 1..Len(list) /\ f[1] \in 0..top /\ f[0] = from /\ f[Len(list)] = to
  BY <1>1, <1>2 DEF Walks
<1>6. f[1] + (IF Head(list) \in Removed(n) THEN 1 ELSE 0)
        = from + (IF Head(list) \in Added(n) THEN 1 ELSE 0)
  BY <1>1, <1>2, <1>5 DEF Walks
<1> HIDE DEF g
<1>7. Accounts(rest, n, top, f[1], to)
  BY <1>3, <1>4, <1>5 DEF Walks, Accounts
<1> QED
  BY <1>5, <1>6, <1>7 DEF rest

-----------------------------------------------------------------------------
(***************************************************************************)
(* The parts of the inductive invariant.                                   *)
(***************************************************************************)
Listed(n) == Occurrences(m_services, Named(n))
Awaited(n) == Occurrences(m_duringResolve, Named(n))
Total(n) == Listed(n) + Awaited(n)

ObjectsSound ==
    /\ m_services \in Seq(Object) /\ m_duringResolve \in Seq(Object)
    /\ failed \subseteq Names
    /\ m_duringResolve # << >> \/ failed # {} => m_autoResolve
    /\ m_autoResolve => \A i \in DOMAIN m_services : m_services[i].hostName
    /\ \A i \in DOMAIN m_duringResolve : ~m_duringResolve[i].m_resolved

BrowserSound ==
    /\ m_autoResolve \in BOOLEAN /\ m_finished \in BOOLEAN /\ timeout \in BOOLEAN
    /\ batch \in BOOLEAN
    /\ responder \in Responder /\ OwnsItsConnection(responder)
    /\ replies \in Seq(Reply)
    /\ known \in [Names -> Nat] /\ \A n \in Names : known[n] <= Interfaces[n]
    /\ leftover \in [Names -> Nat]
    /\ replies # << >> \/ known # Nothing => responder.m_running

OwnerSound ==
    /\ owner \in {"ServiceModel", "ServiceTypeBrowser"}
    /\ owner = "ServiceTypeBrowser" => ~m_autoResolve
    /\ m_servicetypes \in Seq(Names) /\ laidOut \in Seq(Names)

\* The objects of a service are those left over and one for each instance read
\* of; the unread replies lead from there to what the daemon has announced.
InStep(n) ==
    /\ \E read : /\ Total(n) = read + leftover[n]
                 /\ Accounts(replies, n, Interfaces[n], read, known[n])
    /\ Total(n) + Occurrences(replies, Added(n))
           = known[n] + Occurrences(replies, Removed(n)) + leftover[n]

BooksBalance == responder.m_running => \A n \in Names \ failed : InStep(n)

\* Without resolving there are never more objects than interfaces and leftovers,
\* also when the connection has gone.
FewListed == ~m_autoResolve => \A n \in Names : Total(n) <= Interfaces[n] + leftover[n]

\* What the owner holds follows the list.
RowsFollow ==
    \/ laidOut = NamesOf(m_services)
    \/ \E i \in DOMAIN laidOut : RemoveAt(laidOut, i) = NamesOf(m_services)

OwnerFollows == IF owner = "ServiceModel" THEN RowsFollow ELSE TypesFollow

IInv ==
    /\ ObjectsSound
    /\ BrowserSound
    /\ OwnerSound
    /\ BooksBalance
    /\ FewListed
    /\ OwnerFollows

-----------------------------------------------------------------------------
(***************************************************************************)
(* What a step does to the reported objects, and to the books.             *)
(***************************************************************************)
SameList == NamesOf(m_services') = NamesOf(m_services)
Joins == \E o \in Object : m_services' = Append(m_services, o)
Leaves == \E i \in DOMAIN m_services : m_services' = RemoveAt(m_services, i)
ListEffect == SameList \/ Joins \/ Leaves

TotalsStay == \A n \in Names : Total(n)' = Total(n)
OthersStay(m) == \A n \in Names \ {m} : Total(n)' = Total(n)
QueueStays == UNCHANGED <<replies, known, leftover>> /\ responder'.m_running = responder.m_running
IsRead(op, n) ==
    /\ replies # << >> /\ Head(replies) = [op |-> op, name |-> n] /\ replies' = Tail(replies)
    /\ UNCHANGED <<known, leftover>> /\ responder'.m_running = responder.m_running
IsSent(reply) ==
    /\ replies' = Append(replies, reply)
    /\ UNCHANGED <<leftover, failed>> /\ responder'.m_running = responder.m_running
    /\ TotalsStay

Resolves == QueueStays /\ TotalsStay /\ failed' = failed
Fails(n) == QueueStays /\ OthersStay(n) /\ failed' = failed \cup {n}
AddRead(n) ==
    /\ IsRead("Add", n)
    /\ OthersStay(n)
    /\ \/ failed' = failed /\ Total(n)' = Total(n) + 1
       \/ failed' = failed \cup {n}
RemoveRead(n) ==
    /\ IsRead("Remove", n)
    /\ OthersStay(n)
    /\ failed' = failed
    /\ Total(n)' = IF Total(n) = 0 THEN 0 ELSE Total(n) - 1
Closes == ~responder'.m_running /\ failed' = {} /\ leftover' = leftover /\ TotalsStay
Starts ==
    /\ failed' = {} /\ replies = << >> /\ replies' = << >> /\ known' = Nothing
    /\ leftover' = [n \in Names |-> Total(n)] /\ TotalsStay
AddSent(n) ==
    /\ IsSent([op |-> "Add", name |-> n])
    /\ known[n] < Interfaces[n] /\ known' = [known EXCEPT ![n] = @ + 1]
RemoveSent(n) ==
    /\ IsSent([op |-> "Remove", name |-> n])
    /\ known[n] > 0 /\ known' = [known EXCEPT ![n] = @ - 1]
ErrorSent == IsSent([op |-> "Error"]) /\ known' = known

BooksEffect ==
    \/ Resolves \/ Closes \/ Starts \/ ErrorSent
    \/ \E n \in Names : Fails(n) \/ AddRead(n) \/ RemoveRead(n) \/ AddSent(n) \/ RemoveSent(n)

\* All that is known of a step.
Effects ==
    /\ ObjectsSound' /\ BrowserSound'
    /\ ListEffect /\ BooksEffect
    /\ m_autoResolve' = m_autoResolve

-----------------------------------------------------------------------------
(***************************************************************************)
(* Handlers that leave the names alone.                                    *)
(***************************************************************************)
LEMMA TotalIs ==
    ASSUME ObjectsSound, NEW n
    PROVE  /\ Listed(n) \in Nat /\ Awaited(n) \in Nat /\ Total(n) \in Nat
           /\ Count(m_services, n) = Listed(n)
           /\ Count(m_duringResolve, n) = Awaited(n)
           /\ n \in NamesIn(m_services) <=> Listed(n) # 0
           /\ n \in NamesIn(m_duringResolve) <=> Awaited(n) # 0
<1>1. m_services \in Seq(Object) /\ m_duringResolve \in Seq(Object)
  BY DEF ObjectsSound
<1> QED
  BY <1>1, CountIs DEF Listed, Awaited, Total

LEMMA NamesStay ==
    ASSUME m_services \in Seq(Object), m_duringResolve \in Seq(Object),
           m_services' \in Seq(Object), m_duringResolve' \in Seq(Object),
           NamesOf(m_services') = NamesOf(m_services),
           NamesOf(m_duringResolve') = NamesOf(m_duringResolve)
    PROVE  TotalsStay
<1>1. \A n : Listed(n)' = Listed(n) /\ Awaited(n)' = Awaited(n)
  BY SameNames DEF Listed, Awaited
<1> QED
  BY <1>1 DEF TotalsStay, Total

\* A reported object has news of its connection.
LEMMA ServiceReplaced ==
    ASSUME ObjectsSound, BrowserSound, NEW i \in DOMAIN m_services, NEW p,
           StillIs(m_services[i], p), m_services' = [m_services EXCEPT ![i] = p],
           UNCHANGED <<flags, m_duringResolve, connection, leftover, failed, batch>>
    PROVE  Effects
<1>1. m_services \in Seq(Object) /\ m_duringResolve \in Seq(Object)
  BY DEF ObjectsSound
<1>2. /\ m_services' \in Seq(Object) /\ DOMAIN m_services' = DOMAIN m_services
      /\ m_services'[i] = p /\ \A j \in DOMAIN m_services \ {i} : m_services'[j] = m_services[j]
      /\ NamesOf(m_services') = NamesOf(m_services)
  BY <1>1, ReplaceFacts
<1>3. \A j \in DOMAIN m_services : m_services[j].hostName => m_services'[j].hostName
  BY <1>2 DEF StillIs
<1>4. ObjectsSound'
  BY <1>2, <1>3 DEF ObjectsSound, flags
<1>5. TotalsStay
  BY <1>1, <1>2, NamesStay
<1>6. BrowserSound'
  BY DEF BrowserSound, flags, connection
<1>7. BooksEffect
  BY <1>5 DEF BooksEffect, Resolves, QueueStays, connection
<1> QED
  BY <1>2, <1>4, <1>6, <1>7 DEF Effects, ListEffect, SameList, flags

LEMMA CallResolveEffects ==
    ASSUME ObjectsSound, BrowserSound, NEW i \in DOMAIN m_services, CallResolve(i)
    PROVE  Effects
<1>1. m_services[i] \in Object
  BY ListBasics DEF ObjectsSound
<1>2. PICK o \in Resolve(m_services[i], Failures, CanFail, MayBreak) :
        m_services' = [m_services EXCEPT ![i] = o]
  BY DEF CallResolve
<1>3. StillIs(m_services[i], o)
  BY <1>1, <1>2, ResolveFacts
<1> QED
  BY <1>2, <1>3, ServiceReplaced DEF CallResolve

LEMMA CallResolveAsyncEffects ==
    ASSUME ObjectsSound, BrowserSound, NEW i \in DOMAIN m_services, CallResolveAsync(i)
    PROVE  Effects
<1>1. m_services[i] \in Object
  BY ListBasics DEF ObjectsSound
<1>2. PICK o \in ResolveAsync(m_services[i], Failures) :
        m_services' = [m_services EXCEPT ![i] = o]
  BY DEF CallResolveAsync
<1>3. StillIs(m_services[i], o)
  BY <1>1, <1>2, ResolveAsyncFacts
<1> QED
  BY <1>2, <1>3, ServiceReplaced DEF CallResolveAsync

LEMMA MonitoredEffects ==
    ASSUME ObjectsSound, BrowserSound, NEW i \in DOMAIN m_services, MonitoredReads(i)
    PROVE  Effects
<1>1. m_services[i] \in Object
  BY ListBasics DEF ObjectsSound
<1>2. PICK o : /\ o \in Heard(m_services[i], CanFail) \/ o = StopResolving(m_services[i])
               /\ m_services' = [m_services EXCEPT ![i] = o]
  BY DEF MonitoredReads
<1>3. StillIs(m_services[i], o)
  BY <1>1, <1>2, HeardFacts, StopResolvingFacts
<1> QED
  BY <1>2, <1>3, ServiceReplaced DEF MonitoredReads

LEMMA AwaitedBreaksEffects ==
    ASSUME ObjectsSound, BrowserSound, NEW i \in DOMAIN m_duringResolve, AwaitedBreaks(i)
    PROVE  Effects
<1> DEFINE p == StopResolving(m_duringResolve[i])
<1>1. m_services \in Seq(Object) /\ m_duringResolve \in Seq(Object) /\ m_duringResolve[i] \in Object
  BY ListBasics DEF ObjectsSound
<1>2. StillIs(m_duringResolve[i], p) /\ p.m_resolved = m_duringResolve[i].m_resolved
  BY <1>1, StopResolvingFacts
<1>3. m_duringResolve' = [m_duringResolve EXCEPT ![i] = p]
  BY DEF AwaitedBreaks
<1> HIDE DEF p
<1>4. /\ m_duringResolve' \in Seq(Object) /\ DOMAIN m_duringResolve' = DOMAIN m_duringResolve
      /\ m_duringResolve'[i] = p
      /\ \A j \in DOMAIN m_duringResolve \ {i} : m_duringResolve'[j] = m_duringResolve[j]
      /\ NamesOf(m_duringResolve') = NamesOf(m_duringResolve)
  BY <1>1, <1>2, <1>3, ReplaceFacts
<1>5. /\ m_duringResolve # << >>
      /\ \A j \in DOMAIN m_duringResolve : ~m_duringResolve'[j].m_resolved
  <2>1. m_duringResolve # << >>
    BY <1>1, ListBasics
  <2>2. \A j \in DOMAIN m_duringResolve : ~m_duringResolve[j].m_resolved
    BY DEF ObjectsSound
  <2>3. ~p.m_resolved
    BY <1>2, <2>2
  <2> QED
    BY <1>4, <2>1, <2>2, <2>3
<1>6. ObjectsSound'
  BY <1>4, <1>5 DEF ObjectsSound, AwaitedBreaks, flags
<1>7. TotalsStay
  BY <1>1, <1>4, NamesStay DEF AwaitedBreaks
<1>8. BrowserSound'
  BY DEF BrowserSound, flags, connection, AwaitedBreaks
<1>9. BooksEffect
  BY <1>7 DEF BooksEffect, Resolves, QueueStays, connection, AwaitedBreaks
<1> QED
  BY <1>6, <1>8, <1>9 DEF Effects, ListEffect, SameList, flags, AwaitedBreaks

-----------------------------------------------------------------------------
(***************************************************************************)
(* Answers to awaited objects.                                             *)
(***************************************************************************)
LEMMA FinishedIsBoolean ==
    ASSUME NEW finished, QueryFinished(finished)
    PROVE  batch' \in BOOLEAN
  BY DEF QueryFinished

LEMMA AwaitedReadsEffects ==
    ASSUME ObjectsSound, BrowserSound, NEW i \in DOMAIN m_duringResolve,
           NEW o \in Heard(m_duringResolve[i], CanFail), AwaitedReads(i, o)
    PROVE  Effects
<1> DEFINE n == m_duringResolve[i].name
<1>1. /\ m_services \in Seq(Object) /\ m_duringResolve \in Seq(Object)
      /\ m_duringResolve[i] \in Object /\ n \in Names
  BY ListBasics DEF ObjectsSound, Object, Service
<1>2. o \in Object /\ o.name = n /\ (o.m_resolved => o.hostName)
  BY <1>1, HeardFacts DEF StillIs
<1>3. /\ m_services' = IF o.m_resolved THEN Append(m_services, o) ELSE m_services
      /\ m_duringResolve' = RemoveAt(m_duringResolve, i)
      /\ failed' = IF o.m_resolved THEN failed ELSE failed \cup {o.name}
      /\ UNCHANGED <<m_finished, m_autoResolve, timeout, connection, leftover>>
      /\ QueryFinished(m_finished)
  BY DEF AwaitedReads, ServiceResolved
<1>4. /\ m_duringResolve' \in Seq(Object)
      /\ \A j \in DOMAIN m_duringResolve' :
            \E k \in DOMAIN m_duringResolve : m_duringResolve'[j] = m_duringResolve[k]
      /\ m_duringResolve # << >>
      /\ \A m : Awaited(m) = Awaited(m)' + IF n = m THEN 1 ELSE 0
      /\ \A m : Awaited(m)' \in Nat
  BY <1>1, <1>3, TakenOff DEF Awaited
<1>5. \A m : Listed(m) \in Nat /\ Awaited(m) \in Nat
  BY TotalIs
<1> HIDE DEF n
<1>6. m_autoResolve
  BY <1>4 DEF ObjectsSound
<1>7. BrowserSound'
  BY <1>3, FinishedIsBoolean DEF BrowserSound, connection
<1>8. /\ \A j \in DOMAIN m_duringResolve' : ~m_duringResolve'[j].m_resolved
      /\ failed' \subseteq Names
  BY <1>1, <1>2, <1>3, <1>4 DEF ObjectsSound
<1>9. CASE o.m_resolved
  <2>1. /\ m_services' \in Seq(Object)
        /\ \A j \in DOMAIN m_services' :
              m_services'[j] = o \/ \E k \in DOMAIN m_services : m_services'[j] = m_services[k]
        /\ \A m : Listed(m)' = Listed(m) + IF n = m THEN 1 ELSE 0
    BY <1>1, <1>2, <1>3, <1>9, PutOn DEF Listed
  <2>2. ObjectsSound'
    BY <1>2, <1>3, <1>4, <1>6, <1>8, <1>9, <2>1 DEF ObjectsSound
  <2>3. TotalsStay
    BY <1>4, <1>5, <2>1 DEF TotalsStay, Total
  <2>4. BooksEffect
    BY <1>3, <1>9, <2>3 DEF BooksEffect, Resolves, QueueStays, connection
  <2> QED
    BY <1>2, <1>3, <1>7, <1>9, <2>2, <2>4 DEF Effects, ListEffect, Joins
<1>10. CASE ~o.m_resolved
  <2>1. \A m : Listed(m)' = Listed(m)
    BY <1>3, <1>10 DEF Listed
  <2>2. ObjectsSound'
    BY <1>1, <1>3, <1>4, <1>6, <1>8, <1>10 DEF ObjectsSound
  <2>3. OthersStay(n)
    BY <1>4, <1>5, <2>1 DEF OthersStay, Total
  <2>4. BooksEffect
    BY <1>1, <1>2, <1>3, <1>10, <2>3 DEF BooksEffect, Fails, QueueStays, connection
  <2> QED
    BY <1>3, <1>7, <1>10, <2>2, <2>4 DEF Effects, ListEffect, SameList
<1> QED
  BY <1>9, <1>10

-----------------------------------------------------------------------------
(***************************************************************************)
(* Steps that leave the lists alone.                                       *)
(***************************************************************************)
LEMMA ListsStay ==
    ASSUME UNCHANGED lists
    PROVE  SameList /\ TotalsStay /\ \A n : Total(n)' = Total(n)
  BY DEF lists, SameList, TotalsStay, Total, Listed, Awaited

LEMMA NothingFacts ==
    /\ Nothing \in [Names -> Nat] /\ \A n \in Names : Nothing[n] = 0 /\ Nothing[n] <= Interfaces[n]
  BY InterfacesAssumption DEF Nothing

LEMMA StartEffects ==
    ASSUME ObjectsSound, BrowserSound, StartBrowse
    PROVE  Effects
<1>1. SameList /\ TotalsStay
  BY ListsStay DEF StartBrowse
<1>2. replies = << >> /\ replies' = << >>
  BY DEF BrowserSound, StartBrowse
<1>3. responder' \in Responder /\ OwnsItsConnection(responder')
  BY RequestedFacts DEF BrowserSound, StartBrowse
<1>4. \A n : Total(n) \in Nat /\ Count(m_services, n) + Count(m_duringResolve, n) = Total(n)
  BY TotalIs DEF Total
<1>5. leftover' = [n \in Names |-> Total(n)]
  BY <1>4 DEF StartBrowse
<1>6. ObjectsSound'
  BY DEF ObjectsSound, StartBrowse, lists
<1>7. known' = Nothing /\ known' \in [Names -> Nat] /\ \A n \in Names : known'[n] <= Interfaces[n]
  BY NothingFacts DEF StartBrowse
<1>8. BrowserSound'
  <2>1. leftover' \in [Names -> Nat]
    BY <1>4, <1>5
  <2>2. timeout' \in BOOLEAN /\ batch' \in BOOLEAN /\ m_finished' \in BOOLEAN /\ m_autoResolve' \in BOOLEAN
    BY DEF BrowserSound, StartBrowse
  <2>3. replies' \in Seq(Reply)
    BY <1>2 DEF BrowserSound
  <2> QED
    BY <1>2, <1>3, <1>7, <2>1, <2>2, <2>3 DEF BrowserSound
<1>9. Starts
  BY <1>1, <1>2, <1>5, <1>7 DEF Starts, StartBrowse
<1> QED
  BY <1>1, <1>6, <1>8, <1>9 DEF Effects, ListEffect, BooksEffect, StartBrowse

LEMMA TimeoutEffects ==
    ASSUME ObjectsSound, BrowserSound, OnTimeout
    PROVE  Effects
<1>1. SameList /\ TotalsStay
  BY ListsStay DEF OnTimeout
<1>2. ObjectsSound'
  BY DEF ObjectsSound, OnTimeout, lists
<1>3. BrowserSound'
  BY FinishedIsBoolean DEF BrowserSound, OnTimeout, connection
<1>4. Resolves
  BY <1>1 DEF Resolves, QueueStays, OnTimeout, connection
<1> QED
  BY <1>1, <1>2, <1>3, <1>4 DEF Effects, ListEffect, BooksEffect, OnTimeout

\* The connection goes: stop(), or process() finds it broken.
LEMMA ClosedEffects ==
    ASSUME ObjectsSound, BrowserSound, UNCHANGED lists,
           responder' = Stopped(responder), replies' = << >>, known' = Nothing,
           failed' = {}, m_finished' \in BOOLEAN,
           UNCHANGED <<m_autoResolve, timeout, leftover, batch>>
    PROVE  Effects
<1>1. SameList /\ TotalsStay
  BY ListsStay
<1>2. responder' \in Responder /\ OwnsItsConnection(responder') /\ ~responder'.m_running
  BY StoppedFacts DEF BrowserSound
<1>3. ObjectsSound'
  BY DEF ObjectsSound, lists
<1>4. BrowserSound'
  <2>1. replies' \in Seq(Reply)
    BY EmptySeq
  <2> QED
    BY <1>2, <2>1, NothingFacts DEF BrowserSound
<1>5. Closes
  BY <1>1, <1>2 DEF Closes
<1> QED
  BY <1>1, <1>3, <1>4, <1>5 DEF Effects, ListEffect, BooksEffect

LEMMA ProcessFailsEffects ==
    ASSUME ObjectsSound, BrowserSound, ProcessFails
    PROVE  Effects
<1>1. /\ UNCHANGED lists /\ responder' = Stopped(responder) /\ replies' = << >> /\ known' = Nothing
      /\ failed' = {} /\ m_finished' \in BOOLEAN
      /\ UNCHANGED <<m_autoResolve, timeout, leftover, batch>>
  BY DEF BrowserSound, ProcessFails, flags
<1> QED
  BY <1>1, ClosedEffects

LEMMA SendEffects ==
    ASSUME ObjectsSound, BrowserSound, NEW reply \in Reply, Send(reply),
           known' \in [Names -> Nat], \A n \in Names : known'[n] <= Interfaces[n]
    PROVE  ObjectsSound' /\ BrowserSound' /\ SameList /\ IsSent(reply) /\ m_autoResolve' = m_autoResolve
<1>1. SameList /\ TotalsStay
  BY ListsStay DEF Send
<1>2. replies' \in Seq(Reply)
  BY AppendFacts DEF BrowserSound, Send
<1>3. BrowserSound'
  BY <1>2 DEF BrowserSound, Send, flags
<1>4. ObjectsSound'
  BY DEF ObjectsSound, Send, flags, lists
<1> QED
  BY <1>1, <1>3, <1>4 DEF IsSent, Send, flags

LEMMA DaemonEffects ==
    ASSUME ObjectsSound, BrowserSound,
           (\E n \in Names : Announces(n) \/ Withdraws(n)) \/ BrowsingFails
    PROVE  Effects
<1>1. known \in [Names -> Nat] /\ \A n \in Names : known[n] <= Interfaces[n] /\ Interfaces[n] \in Nat
  BY InterfacesAssumption DEF BrowserSound
<1>2. ASSUME NEW n \in Names, Announces(n)
      PROVE  Effects
  <2>1. known' \in [Names -> Nat] /\ \A m \in Names : known'[m] <= Interfaces[m]
    BY <1>1, <1>2 DEF Announces
  <2>2. [op |-> "Add", name |-> n] \in Reply
    BY DEF Reply
  <2>3. /\ ObjectsSound' /\ BrowserSound' /\ SameList /\ IsSent([op |-> "Add", name |-> n])
        /\ m_autoResolve' = m_autoResolve
    BY <1>2, <2>1, <2>2, SendEffects DEF Announces
  <2>4. AddSent(n)
    BY <1>2, <2>3 DEF AddSent, Announces
  <2> QED
    BY <2>3, <2>4 DEF Effects, ListEffect, BooksEffect
<1>3. ASSUME NEW n \in Names, Withdraws(n)
      PROVE  Effects
  <2>1. known' \in [Names -> Nat] /\ \A m \in Names : known'[m] <= Interfaces[m]
    BY <1>1, <1>3 DEF Withdraws
  <2>2. [op |-> "Remove", name |-> n] \in Reply
    BY DEF Reply
  <2>3. /\ ObjectsSound' /\ BrowserSound' /\ SameList /\ IsSent([op |-> "Remove", name |-> n])
        /\ m_autoResolve' = m_autoResolve
    BY <1>3, <2>1, <2>2, SendEffects DEF Withdraws
  <2>4. RemoveSent(n)
    BY <1>3, <2>3 DEF RemoveSent, Withdraws
  <2> QED
    BY <2>3, <2>4 DEF Effects, ListEffect, BooksEffect
<1>4. ASSUME BrowsingFails
      PROVE  Effects
  <2>1. [op |-> "Error"] \in Reply
    BY DEF Reply
  <2>2. /\ ObjectsSound' /\ BrowserSound' /\ SameList /\ IsSent([op |-> "Error"])
        /\ m_autoResolve' = m_autoResolve
    BY <1>1, <1>4, <2>1, SendEffects DEF BrowsingFails
  <2>3. ErrorSent
    BY <1>4, <2>2 DEF ErrorSent, BrowsingFails
  <2> QED
    BY <2>2, <2>3 DEF Effects, ListEffect, BooksEffect
<1> QED
  BY <1>2, <1>3, <1>4

-----------------------------------------------------------------------------
(***************************************************************************)
(* customEvent: a reply of the browse is read.                             *)
(***************************************************************************)
Reading ==
    /\ responder.m_running /\ replies # << >> /\ replies' = Tail(replies)
    /\ m_finished' \in BOOLEAN /\ batch' \in BOOLEAN
    /\ UNCHANGED <<m_autoResolve, responder, known, timeout, leftover>>

LEMMA ReplyFacts ==
    ASSUME NEW reply \in Reply, reply.op # "Error"
    PROVE  /\ reply.name \in Names /\ reply.op \in {"Add", "Remove"}
           /\ reply = [op |-> reply.op, name |-> reply.name]
<1>1. [op |-> "Error"].op = "Error"
  OBVIOUS
<1>2. reply \in [op : {"Add", "Remove"}, name : Names]
  BY <1>1 DEF Reply
<1> QED
  BY <1>2

LEMMA ReadingSound ==
    ASSUME BrowserSound, Reading
    PROVE  BrowserSound'
<1>1. replies' \in Seq(Reply)
  BY HeadTailFacts DEF BrowserSound, Reading
<1> QED
  BY <1>1 DEF BrowserSound, Reading

\* A failed resolve leaves the lists alone; a new object joins one of them.
LEMMA AddEffects ==
    ASSUME ObjectsSound, BrowserSound, Reading, NEW n \in Names,
           Head(replies) = [op |-> "Add", name |-> n],
           AddReported(n) \/ AddResolving(n)
    PROVE  Effects
<1>1. m_services \in Seq(Object) /\ m_duringResolve \in Seq(Object)
  BY DEF ObjectsSound
<1>2. \A m : Listed(m) \in Nat /\ Awaited(m) \in Nat
  BY TotalIs
<1>3. RemoteService(n) \in Object /\ RemoteService(n).name = n /\ ~RemoteService(n).m_resolved
  BY NewObject DEF Named
<1>4. BrowserSound' /\ m_autoResolve' = m_autoResolve
  BY ReadingSound DEF Reading
<1>5. IsRead("Add", n)
  BY DEF IsRead, Reading
<1>6. CASE AddReported(n)
  <2>1. /\ m_services' \in Seq(Object)
        /\ \A m : Listed(m)' = Listed(m) + IF n = m THEN 1 ELSE 0
    BY <1>1, <1>3, <1>6, PutOn DEF Listed, AddReported
  <2>2. ObjectsSound'
    BY <1>1, <1>4, <1>6, <2>1 DEF ObjectsSound, AddReported
  <2>3. \A m : Awaited(m)' = Awaited(m)
    BY <1>6 DEF Awaited, AddReported
  <2>4. OthersStay(n) /\ Total(n)' = Total(n) + 1
    BY <1>2, <2>1, <2>3 DEF OthersStay, Total
  <2>5. AddRead(n)
    BY <1>5, <1>6, <2>4 DEF AddRead, AddReported
  <2>6. Joins
    BY <1>3, <1>6 DEF Joins, AddReported
  <2> QED
    BY <1>4, <2>2, <2>5, <2>6 DEF Effects, ListEffect, BooksEffect
<1>7. CASE AddResolving(n)
  <2>1. PICK o \in ResolveAsync(RemoteService(n), Failures) :
          \/ /\ m_duringResolve' = Append(m_duringResolve, o) /\ failed' = failed
          \/ /\ m_duringResolve' = m_duringResolve /\ failed' = failed \cup {n}
    BY <1>7 DEF AddResolving
  <2>2. o \in Object /\ o.name = n /\ ~o.m_resolved
    BY <1>3, <2>1, ResolveAsyncFacts DEF StillIs
  <2>3. m_autoResolve /\ m_services' = m_services
    BY <1>7 DEF AddResolving
  <2>4. (\A m : Listed(m)' = Listed(m)) /\ SameList
    BY <2>3 DEF Listed, SameList
  <2>5. CASE m_duringResolve' = Append(m_duringResolve, o) /\ failed' = failed
    <3>1. /\ m_duringResolve' \in Seq(Object)
          /\ \A j \in DOMAIN m_duringResolve' :
                \/ m_duringResolve'[j] = o
                \/ \E k \in DOMAIN m_duringResolve : m_duringResolve'[j] = m_duringResolve[k]
          /\ \A m : Awaited(m)' = Awaited(m) + IF n = m THEN 1 ELSE 0
      BY <1>1, <2>2, <2>5, PutOn DEF Awaited
    <3>2. ObjectsSound'
      BY <1>4, <2>2, <2>3, <2>5, <3>1 DEF ObjectsSound
    <3>3. OthersStay(n) /\ Total(n)' = Total(n) + 1
      BY <1>2, <2>4, <3>1 DEF OthersStay, Total
    <3>4. AddRead(n)
      BY <1>5, <2>5, <3>3 DEF AddRead
    <3> QED
      BY <1>4, <2>4, <3>2, <3>4 DEF Effects, ListEffect, BooksEffect
  <2>6. CASE m_duringResolve' = m_duringResolve /\ failed' = failed \cup {n}
    <3>1. ObjectsSound'
      BY <1>4, <2>3, <2>6 DEF ObjectsSound
    <3>2. OthersStay(n)
      BY <2>4, <2>6 DEF OthersStay, Total, Awaited
    <3>3. AddRead(n)
      BY <1>5, <2>6, <3>2 DEF AddRead
    <3> QED
      BY <1>4, <2>4, <3>1, <3>3 DEF Effects, ListEffect, BooksEffect
  <2> QED
    BY <2>1, <2>5, <2>6
<1> QED
  BY <1>6, <1>7

\* The awaited object goes first, if there is one.
LEMMA RemoveEffects ==
    ASSUME ObjectsSound, BrowserSound, Reading, NEW n \in Names,
           Head(replies) = [op |-> "Remove", name |-> n],
           RemoveAwaited(n) \/ RemoveReported(n), failed' = failed
    PROVE  Effects
<1>1. m_services \in Seq(Object) /\ m_duringResolve \in Seq(Object)
  BY DEF ObjectsSound
<1>2. \A m : Listed(m) \in Nat /\ Awaited(m) \in Nat
  BY TotalIs
<1>3. BrowserSound' /\ m_autoResolve' = m_autoResolve
  BY ReadingSound DEF Reading
<1>4. IsRead("Remove", n)
  BY DEF IsRead, Reading
<1>5. CASE RemoveAwaited(n)
  <2>1. PICK i \in DOMAIN m_duringResolve :
          m_duringResolve[i].name = n /\ m_duringResolve' = RemoveAt(m_duringResolve, i)
    BY <1>1, <1>5, WithoutFirstFacts DEF RemoveAwaited
  <2>2. /\ m_duringResolve' \in Seq(Object)
        /\ \A j \in DOMAIN m_duringResolve' :
              \E k \in DOMAIN m_duringResolve : m_duringResolve'[j] = m_duringResolve[k]
        /\ m_duringResolve # << >>
        /\ \A m : Awaited(m) = Awaited(m)' + IF n = m THEN 1 ELSE 0
        /\ \A m : Awaited(m)' \in Nat
    <3> DEFINE less == RemoveAt(m_duringResolve, i)
    <3>1. /\ less \in Seq(Object)
          /\ \A j \in DOMAIN less : \E k \in DOMAIN m_duringResolve : less[j] = m_duringResolve[k]
          /\ m_duringResolve # << >>
          /\ \A m : Occurrences(m_duringResolve, Named(m))
                       = Occurrences(less, Named(m)) + IF n = m THEN 1 ELSE 0
          /\ \A m : Occurrences(less, Named(m)) \in Nat
      <4>1. /\ less \in Seq(Object)
            /\ \A j \in DOMAIN less : \E k \in DOMAIN m_duringResolve : less[j] = m_duringResolve[k]
            /\ m_duringResolve # << >>
            /\ \A m : Occurrences(less, Named(m)) \in Nat
        BY <1>1, TakenOff
      <4>2. \A m : Occurrences(m_duringResolve, Named(m))
                     = Occurrences(less, Named(m)) + IF m_duringResolve[i].name = m THEN 1 ELSE 0
        BY <1>1, TakenOff
      <4> HIDE DEF less
      <4> QED
        BY <2>1, <4>1, <4>2
    <3>2. m_duringResolve' = less
      BY <2>1
    <3> HIDE DEF less
    <3> QED
      BY <3>1, <3>2 DEF Awaited
  <2>3. m_services' = m_services /\ SameList /\ \A m : Listed(m)' = Listed(m)
    BY <1>5 DEF RemoveAwaited, SameList, Listed
  <2>4. ObjectsSound'
    BY <1>3, <2>2, <2>3 DEF ObjectsSound
  <2>5. OthersStay(n)
    BY <1>2, <2>2, <2>3 DEF OthersStay, Total
  <2>6. Total(n)' = IF Total(n) = 0 THEN 0 ELSE Total(n) - 1
    <3>1. Awaited(n) = Awaited(n)' + 1 /\ Listed(n)' = Listed(n)
      BY <2>2, <2>3
    <3>2. Listed(n) \in Nat /\ Awaited(n)' \in Nat /\ Awaited(n) \in Nat
      BY <1>2, <2>2
    <3> QED
      BY <3>1, <3>2 DEF Total
  <2>7. RemoveRead(n)
    BY <1>4, <2>5, <2>6 DEF RemoveRead
  <2> QED
    BY <1>3, <2>3, <2>4, <2>7 DEF Effects, ListEffect, BooksEffect
<1>6. CASE RemoveReported(n)
  <2>1. m_duringResolve' = m_duringResolve /\ Awaited(n) = 0 /\ \A m : Awaited(m)' = Awaited(m)
    BY <1>6, TotalIs DEF RemoveReported, Awaited
  <2>2. m_services' = WithoutFirst(m_services, n)
    BY <1>6 DEF RemoveReported
  <2>3. CASE n \in NamesIn(m_services)
    <3>1. PICK i \in DOMAIN m_services :
            m_services[i].name = n /\ m_services' = RemoveAt(m_services, i)
      BY <1>1, <2>2, <2>3, WithoutFirstFacts
    <3>2. /\ m_services' \in Seq(Object)
          /\ \A j \in DOMAIN m_services' : \E k \in DOMAIN m_services : m_services'[j] = m_services[k]
          /\ \A m : Listed(m) = Listed(m)' + IF n = m THEN 1 ELSE 0
          /\ \A m : Listed(m)' \in Nat
      BY <1>1, <3>1, TakenOff DEF Listed
    <3>3. ObjectsSound'
      BY <1>3, <2>1, <3>2 DEF ObjectsSound
    <3>4. OthersStay(n)
      BY <1>2, <2>1, <3>2 DEF OthersStay, Total
    <3>5. Total(n)' = IF Total(n) = 0 THEN 0 ELSE Total(n) - 1
      <4>1. Listed(n) = Listed(n)' + 1 /\ Awaited(n)' = 0 /\ Listed(n)' \in Nat
        BY <2>1, <3>2
      <4> QED
        BY <2>1, <4>1 DEF Total
    <3>6. RemoveRead(n)
      BY <1>4, <3>4, <3>5 DEF RemoveRead
    <3>7. Leaves
      BY <3>1 DEF Leaves
    <3> QED
      BY <1>3, <3>3, <3>6, <3>7 DEF Effects, ListEffect, BooksEffect
  <2>4. CASE n \notin NamesIn(m_services)
    <3>1. m_services' = m_services /\ Listed(n) = 0
      BY <1>1, <2>2, <2>4, WithoutFirstFacts, TotalIs
    <3>2. SameList /\ \A m : Listed(m)' = Listed(m)
      BY <3>1 DEF SameList, Listed
    <3>3. ObjectsSound'
      BY <1>3, <2>1, <3>1 DEF ObjectsSound
    <3>4. OthersStay(n) /\ Total(n) = 0 /\ Total(n)' = 0
      BY <2>1, <3>1, <3>2 DEF OthersStay, Total
    <3>5. RemoveRead(n)
      BY <1>4, <3>4 DEF RemoveRead
    <3> QED
      BY <1>3, <3>2, <3>3, <3>5 DEF Effects, ListEffect, BooksEffect
  <2> QED
    BY <2>3, <2>4
<1> QED
  BY <1>5, <1>6

LEMMA ProcessEffects ==
    ASSUME ObjectsSound, BrowserSound, Process
    PROVE  Effects
<1> DEFINE reply == Head(replies)
<1>1. reply \in Reply
  BY HeadTailFacts DEF BrowserSound, Process
<1>2. CASE reply.op = "Error" /\ OnBrowseError
  <2>1. /\ UNCHANGED lists /\ responder' = Stopped(responder) /\ replies' = << >> /\ known' = Nothing
        /\ failed' = {} /\ m_finished' \in BOOLEAN
        /\ UNCHANGED <<m_autoResolve, timeout, leftover, batch>>
    BY <1>2 DEF Process, OnBrowseError
  <2> QED
    BY <2>1, ClosedEffects
<1>3. CASE /\ reply.op # "Error"
           /\ replies' = Tail(replies)
           /\ OnAddRemove(reply, Len(replies) = 1)
           /\ UNCHANGED <<responder, known>>
  <2>1. PICK n \in Names : reply.name = n /\ reply = [op |-> reply.op, name |-> n]
    BY <1>1, <1>3, ReplyFacts
  <2> HIDE DEF reply
  <2>2. batch' \in BOOLEAN
    BY <1>3, FinishedIsBoolean
       DEF OnAddRemove, AddReported, AddResolving, RemoveAwaited, RemoveReported
  <2>3. Reading
    BY <1>3, <2>2 DEF Reading, Process, OnAddRemove
  <2>4. CASE reply.op = "Add"
    <3>1. AddReported(n) \/ AddResolving(n)
      BY <1>3, <2>1, <2>4 DEF OnAddRemove
    <3>2. Head(replies) = [op |-> "Add", name |-> n]
      BY <2>1, <2>4 DEF reply
    <3> QED
      BY <2>3, <3>1, <3>2, AddEffects
  <2>5. CASE reply.op # "Add"
    <3>1. reply.op = "Remove" /\ (RemoveAwaited(n) \/ RemoveReported(n)) /\ failed' = failed
      BY <1>3, <2>1, <2>5 DEF OnAddRemove
    <3>2. Head(replies) = [op |-> "Remove", name |-> n]
      BY <2>1, <3>1 DEF reply
    <3> QED
      BY <2>3, <3>1, <3>2, RemoveEffects
  <2> QED
    BY <2>4, <2>5
<1> QED
  BY <1>2, <1>3 DEF Process

LEMMA StepEffects ==
    ASSUME ObjectsSound, BrowserSound, Step
    PROVE  Effects
<1>1. CASE Reads
  BY <1>1, ProcessEffects, ProcessFailsEffects, AwaitedReadsEffects, AwaitedBreaksEffects,
     MonitoredEffects DEF Reads
<1> QED
  BY <1>1, StartEffects, CallResolveEffects, CallResolveAsyncEffects, TimeoutEffects, DaemonEffects DEF Step

-----------------------------------------------------------------------------
(***************************************************************************)
(* The books balance.                                                      *)
(***************************************************************************)
LEMMA MovesOne == \A i, j \in Nat : (i + j) + 1 = (i + 1) + j
  OBVIOUS

LEMMA SentSums ==
    ASSUME NEW total \in Nat, NEW adds \in Nat, NEW removes \in Nat, NEW left \in Nat,
           NEW was \in Nat, NEW is \in Nat, NEW a \in {0, 1}, NEW r \in {0, 1},
           total + adds = was + removes + left, is + r = was + a
    PROVE  total + (adds + a) = is + (removes + r) + left
  OBVIOUS

LEMMA ReadSums ==
    ASSUME NEW read \in Nat, NEW new \in Nat, NEW adds \in Nat, NEW removes \in Nat,
           NEW left \in Nat, NEW was \in Nat, NEW a \in {0, 1}, NEW r \in {0, 1},
           (read + left) + (adds + a) = was + (removes + r) + left, new + r = read + a
    PROVE  (new + left) + adds = was + removes + left
  OBVIOUS

\* A reply is sent, or read, and the numbers follow it.
LEMMA SentInStep ==
    ASSUME ObjectsSound, BrowserSound, BrowserSound', NEW n \in Names, InStep(n),
           NEW e \in Reply, replies' = Append(replies, e), leftover' = leftover,
           Total(n)' = Total(n),
           known'[n] + (IF e \in Removed(n) THEN 1 ELSE 0)
               = known[n] + (IF e \in Added(n) THEN 1 ELSE 0)
    PROVE  InStep(n)'
<1>1. /\ replies \in Seq(Reply) /\ Interfaces[n] \in Nat
      /\ known'[n] \in 0..Interfaces[n] /\ known[n] \in Nat /\ leftover[n] \in Nat
  BY InterfacesAssumption DEF BrowserSound
<1>2. PICK read : /\ Total(n) = read + leftover[n]
                  /\ Accounts(replies, n, Interfaces[n], read, known[n])
  BY DEF InStep
<1>3. Accounts(replies', n, Interfaces[n], read, known'[n])
  BY <1>1, <1>2, AppendAccounts
<1>4. /\ Occurrences(replies', Added(n))
             = Occurrences(replies, Added(n)) + IF e \in Added(n) THEN 1 ELSE 0
      /\ Occurrences(replies', Removed(n))
             = Occurrences(replies, Removed(n)) + IF e \in Removed(n) THEN 1 ELSE 0
      /\ Occurrences(replies, Added(n)) \in Nat /\ Occurrences(replies, Removed(n)) \in Nat
  BY <1>1, AppendOccurrences, PlacesFinite
<1>5. Total(n) \in Nat
  BY TotalIs
<1>6. Total(n)' + Occurrences(replies', Added(n))
        = known'[n] + Occurrences(replies', Removed(n)) + leftover'[n]
  <2>1. Total(n) + Occurrences(replies, Added(n))
          = known[n] + Occurrences(replies, Removed(n)) + leftover[n]
    BY DEF InStep
  <2> DEFINE adds == Occurrences(replies, Added(n))
             removes == Occurrences(replies, Removed(n))
             total == Total(n)
             a == IF e \in Added(n) THEN 1 ELSE 0
             r == IF e \in Removed(n) THEN 1 ELSE 0
             was == known[n]
             is == known'[n]
             left == leftover[n]
  <2>2. /\ adds \in Nat /\ removes \in Nat /\ total \in Nat
        /\ a \in {0, 1} /\ r \in {0, 1}
        /\ was \in Nat /\ is \in Nat /\ left \in Nat
        /\ total + adds = was + removes + left
        /\ is + r = was + a
        /\ Occurrences(replies', Added(n)) = adds + a
        /\ Occurrences(replies', Removed(n)) = removes + r
        /\ Total(n)' = total
    BY <1>1, <1>4, <1>5, <2>1
  <2>3. ASSUME total + (adds + a) = is + (removes + r) + left
        PROVE  Total(n)' + Occurrences(replies', Added(n))
                 = known'[n] + Occurrences(replies', Removed(n)) + leftover'[n]
    BY <2>2, <2>3
  <2> HIDE DEF adds, removes, total, a, r, was, is, left
  <2>4. total + (adds + a) = is + (removes + r) + left
    BY <2>2, SentSums
  <2> QED
    BY <2>3, <2>4
<1> QED
  BY <1>2, <1>3, <1>6 DEF InStep

LEMMA ReadInStep ==
    ASSUME ObjectsSound, BrowserSound, NEW n \in Names, InStep(n),
           replies # << >>, replies' = Tail(replies), UNCHANGED <<known, leftover>>,
           Head(replies) \in Added(n) => Total(n)' = Total(n) + 1,
           Head(replies) \in Removed(n) => Total(n)' = IF Total(n) = 0 THEN 0 ELSE Total(n) - 1,
           Head(replies) \notin Added(n) \cup Removed(n) => Total(n)' = Total(n)
    PROVE  InStep(n)'
<1> DEFINE e == Head(replies)
<1>1. /\ replies \in Seq(Reply) /\ Interfaces[n] \in Nat
      /\ known[n] \in Nat /\ leftover[n] \in Nat
  BY InterfacesAssumption DEF BrowserSound
<1>2. PICK read : /\ Total(n) = read + leftover[n]
                  /\ Accounts(replies, n, Interfaces[n], read, known[n])
  BY DEF InStep
<1>3. read \in 0..Interfaces[n]
  BY <1>1, <1>2, AccountsRange
<1>4. PICK new \in 0..Interfaces[n] :
        /\ new + (IF e \in Removed(n) THEN 1 ELSE 0) = read + (IF e \in Added(n) THEN 1 ELSE 0)
        /\ Accounts(Tail(replies), n, Interfaces[n], new, known[n])
  BY <1>1, <1>2, TailAccounts
<1>5. /\ Occurrences(replies, Added(n))
             = Occurrences(replies', Added(n)) + IF e \in Added(n) THEN 1 ELSE 0
      /\ Occurrences(replies, Removed(n))
             = Occurrences(replies', Removed(n)) + IF e \in Removed(n) THEN 1 ELSE 0
  BY <1>1, TailOccurrences
<1>6. Occurrences(replies', Added(n)) \in Nat /\ Occurrences(replies', Removed(n)) \in Nat
  <2>1. replies' \in Seq(Reply)
    BY <1>1, HeadTailFacts
  <2> QED
    BY <2>1, PlacesFinite
<1>7. Added(n) \cap Removed(n) = {}
  BY OpsDiffer
<1> HIDE DEF e
<1>8. Total(n)' = new + leftover[n]
  <2>1. CASE e \in Added(n)
    <3>1. e \notin Removed(n) /\ new = read + 1
      BY <1>3, <1>4, <1>7, <2>1
    <3>2. Total(n)' = Total(n) + 1
      BY <2>1 DEF e
    <3>3. Total(n)' = (read + leftover[n]) + 1
      BY <1>2, <3>2
    <3>4. PICK left \in Nat : left = leftover[n]
      BY <1>1
    <3>5. read \in Nat
      BY <1>1, <1>3
    <3>6. (read + left) + 1 = (read + 1) + left
      BY <3>4, <3>5, MovesOne
    <3> QED
      BY <3>1, <3>3, <3>4, <3>6
  <2>2. CASE e \in Removed(n)
    <3>1. e \notin Added(n) /\ new + 1 = read
      BY <1>3, <1>4, <1>7, <2>2
    <3>2. Total(n) = new + 1 + leftover[n]
      BY <1>2, <3>1
    <3>3. Total(n)' = IF Total(n) = 0 THEN 0 ELSE Total(n) - 1
      BY <2>2 DEF e
    <3> QED
      BY <1>1, <3>2, <3>3
  <2>3. CASE e \notin Added(n) \cup Removed(n)
    <3>1. new = read
      BY <1>3, <1>4, <2>3
    <3>2. Total(n)' = Total(n)
      BY <2>3 DEF e
    <3> QED
      BY <1>2, <3>1, <3>2
  <2> QED
    BY <2>1, <2>2, <2>3
<1>9. Total(n)' + Occurrences(replies', Added(n))
        = known'[n] + Occurrences(replies', Removed(n)) + leftover'[n]
  <2>1. Total(n) + Occurrences(replies, Added(n))
          = known[n] + Occurrences(replies, Removed(n)) + leftover[n]
    BY DEF InStep
  <2> DEFINE adds == Occurrences(replies', Added(n))
             removes == Occurrences(replies', Removed(n))
             a == IF e \in Added(n) THEN 1 ELSE 0
             r == IF e \in Removed(n) THEN 1 ELSE 0
             was == known[n]
             left == leftover[n]
  <2>2. /\ adds \in Nat /\ removes \in Nat /\ a \in {0, 1} /\ r \in {0, 1}
        /\ was \in Nat /\ left \in Nat
        /\ (read + left) + (adds + a) = was + (removes + r) + left
        /\ new + r = read + a
    BY <1>1, <1>2, <1>4, <1>5, <1>6, <2>1
  <2>3. ASSUME (new + left) + adds = was + removes + left
        PROVE  Total(n)' + Occurrences(replies', Added(n))
                 = known'[n] + Occurrences(replies', Removed(n)) + leftover'[n]
    BY <1>8, <2>3
  <2>4. new \in Nat /\ read \in Nat
    BY <1>1, <1>3
  <2> HIDE DEF adds, removes, a, r, was, left
  <2>5. (new + left) + adds = was + removes + left
    BY <2>2, <2>4, ReadSums
  <2> QED
    BY <2>3, <2>5
<1> QED
  BY <1>4, <1>8, <1>9 DEF InStep

LEMMA BooksBalanceAfter ==
    ASSUME IInv, Effects
    PROVE  BooksBalance'
<1>1. ObjectsSound /\ BrowserSound /\ BooksBalance /\ BrowserSound'
  BY DEF IInv, Effects
<1> SUFFICES ASSUME responder'.m_running, NEW n \in Names, n \notin failed' PROVE InStep(n)'
  BY DEF BooksBalance
<1>2. CASE Starts
  <2>1. /\ replies' = << >> /\ known'[n] = 0 /\ leftover'[n] = Total(n) /\ Total(n)' = Total(n)
    BY <1>2, NothingFacts DEF Starts, TotalsStay
  <2>2. Interfaces[n] \in Nat /\ Total(n) \in Nat
    BY <1>1, TotalIs, InterfacesAssumption
  <2>3. Accounts(<< >>, n, Interfaces[n], 0, 0)
    BY <2>2, EmptyAccounts
  <2>4. Occurrences(<< >>, Added(n)) = 0 /\ Occurrences(<< >>, Removed(n)) = 0
    BY EmptyOccurrences
  <2> QED
    BY <2>1, <2>2, <2>3, <2>4 DEF InStep
<1>3. CASE Closes
  BY <1>3 DEF Closes
<1>4. ASSUME responder.m_running, n \notin failed
      PROVE  InStep(n)
  BY <1>1, <1>4 DEF BooksBalance
<1>5. CASE Resolves
  BY <1>4, <1>5 DEF Resolves, QueueStays, TotalsStay, InStep
<1>6. ASSUME NEW m \in Names, Fails(m)
      PROVE  InStep(n)'
  BY <1>4, <1>6 DEF Fails, QueueStays, OthersStay, InStep
<1>7. ASSUME NEW e \in Reply, IsSent(e),
             known'[n] + (IF e \in Removed(n) THEN 1 ELSE 0)
                 = known[n] + (IF e \in Added(n) THEN 1 ELSE 0)
      PROVE  InStep(n)'
  <2>1. InStep(n) /\ Total(n)' = Total(n) /\ replies' = Append(replies, e) /\ leftover' = leftover
    BY <1>4, <1>7 DEF IsSent, TotalsStay
  <2> QED
    BY <1>1, <1>7, <2>1, SentInStep
<1>8. known \in [Names -> Nat]
  BY <1>1 DEF BrowserSound
<1>9. \A m, k : /\ [op |-> "Add", name |-> m] \in Added(k) <=> m = k
                /\ [op |-> "Remove", name |-> m] \in Removed(k) <=> m = k
  <2>1. \A m : [op |-> "Add", name |-> m].name = m /\ [op |-> "Remove", name |-> m].name = m
    OBVIOUS
  <2> QED
    BY <2>1 DEF Added, Removed
<1>10. \A m : /\ [op |-> "Add", name |-> m] \notin Removed(n)
              /\ [op |-> "Remove", name |-> m] \notin Added(n)
  BY <1>9, OpsDiffer
<1>11. CASE ErrorSent
  <2>1. [op |-> "Error"] \in Reply /\ [op |-> "Error"] \notin Added(n) \cup Removed(n)
    <3>1. /\ [op |-> "Error"].op = "Error"
          /\ [op |-> "Add", name |-> n].op = "Add" /\ [op |-> "Remove", name |-> n].op = "Remove"
      OBVIOUS
    <3> QED
      BY <3>1 DEF Reply, Added, Removed
  <2> QED
    BY <1>7, <1>11, <2>1 DEF ErrorSent
<1>12. ASSUME NEW m \in Names, AddSent(m)
       PROVE  InStep(n)'
  <2>1. [op |-> "Add", name |-> m] \in Reply
    BY DEF Reply
  <2>2. known'[n] = known[n] + IF m = n THEN 1 ELSE 0
    BY <1>8, <1>12 DEF AddSent
  <2>3. known[n] \in Nat
    BY <1>8
  <2>4. IsSent([op |-> "Add", name |-> m])
    BY <1>12 DEF AddSent
  <2> DEFINE e == [op |-> "Add", name |-> m]
  <2>5. (e \in Added(n) <=> m = n) /\ e \notin Removed(n)
    BY <1>9, <1>10
  <2> HIDE DEF e
  <2>6. known'[n] + (IF e \in Removed(n) THEN 1 ELSE 0)
          = known[n] + (IF e \in Added(n) THEN 1 ELSE 0)
    BY <2>2, <2>3, <2>5
  <2> QED
    BY <1>7, <2>1, <2>4, <2>6 DEF e
<1>13. ASSUME NEW m \in Names, RemoveSent(m)
       PROVE  InStep(n)'
  <2>1. [op |-> "Remove", name |-> m] \in Reply
    BY DEF Reply
  <2>2. known'[n] = known[n] - (IF m = n THEN 1 ELSE 0)
    BY <1>8, <1>13 DEF RemoveSent
  <2>3. known[n] \in Nat
    BY <1>8
  <2>4. IsSent([op |-> "Remove", name |-> m])
    BY <1>13 DEF RemoveSent
  <2> DEFINE e == [op |-> "Remove", name |-> m]
  <2>5. (e \in Removed(n) <=> m = n) /\ e \notin Added(n)
    BY <1>9, <1>10
  <2> HIDE DEF e
  <2>6. known'[n] + (IF e \in Removed(n) THEN 1 ELSE 0)
          = known[n] + (IF e \in Added(n) THEN 1 ELSE 0)
    BY <2>2, <2>3, <2>5
  <2> QED
    BY <1>7, <2>1, <2>4, <2>6 DEF e
<1>14. ASSUME NEW m \in Names, AddRead(m)
       PROVE  InStep(n)'
  <2>1. /\ replies # << >> /\ replies' = Tail(replies) /\ UNCHANGED <<known, leftover>>
        /\ InStep(n)
    BY <1>4, <1>14 DEF AddRead, IsRead
  <2>2. Head(replies) \in Added(n) <=> m = n
    <3>1. Head(replies) = [op |-> "Add", name |-> m]
      BY <1>14 DEF AddRead, IsRead
    <3>2. [op |-> "Add", name |-> m] \in Added(n) <=> m = n
      BY <1>9
    <3> QED
      BY <3>1, <3>2
  <2>3. Head(replies) \notin Removed(n)
    BY <1>10, <1>14 DEF AddRead, IsRead
  <2>4. IF m = n THEN Total(n)' = Total(n) + 1 ELSE Total(n)' = Total(n)
    BY <1>14 DEF AddRead, OthersStay
  <2> QED
    BY <1>1, <2>1, <2>2, <2>3, <2>4, ReadInStep
<1>15. ASSUME NEW m \in Names, RemoveRead(m)
       PROVE  InStep(n)'
  <2>1. /\ replies # << >> /\ replies' = Tail(replies) /\ UNCHANGED <<known, leftover>>
        /\ InStep(n)
    BY <1>4, <1>15 DEF RemoveRead, IsRead
  <2>2. Head(replies) \in Removed(n) <=> m = n
    <3>1. Head(replies) = [op |-> "Remove", name |-> m]
      BY <1>15 DEF RemoveRead, IsRead
    <3>2. [op |-> "Remove", name |-> m] \in Removed(n) <=> m = n
      BY <1>9
    <3> QED
      BY <3>1, <3>2
  <2>3. Head(replies) \notin Added(n)
    BY <1>10, <1>15 DEF RemoveRead, IsRead
  <2>4. IF m = n THEN Total(n)' = IF Total(n) = 0 THEN 0 ELSE Total(n) - 1
                 ELSE Total(n)' = Total(n)
    BY <1>15 DEF RemoveRead, OthersStay
  <2> QED
    BY <1>1, <2>1, <2>2, <2>3, <2>4, ReadInStep
<1> QED
  BY <1>2, <1>3, <1>5, <1>6, <1>11, <1>12, <1>13, <1>14, <1>15 DEF Effects, BooksEffect

LEMMA FewListedAfter ==
    ASSUME IInv, Effects
    PROVE  FewListed'
<1>1. BooksBalance'
  BY BooksBalanceAfter
<1>2. ObjectsSound /\ BrowserSound /\ FewListed /\ ObjectsSound' /\ BrowserSound'
  BY DEF IInv, Effects
<1> SUFFICES ASSUME ~m_autoResolve', NEW n \in Names PROVE Total(n)' <= Interfaces[n] + leftover'[n]
  BY DEF FewListed
<1>3. failed' = {} /\ ~m_autoResolve
  BY <1>2 DEF ObjectsSound, Effects
<1>4. Interfaces[n] \in Nat /\ leftover'[n] \in Nat /\ Total(n) \in Nat
  BY <1>2, TotalIs, InterfacesAssumption DEF BrowserSound
<1>5. CASE responder'.m_running
  <2>1. InStep(n)'
    BY <1>1, <1>3, <1>5 DEF BooksBalance
  <2>2. PICK read : /\ Total(n)' = read + leftover'[n]
                    /\ Accounts(replies', n, Interfaces[n], read, known'[n])
    BY <2>1 DEF InStep
  <2>3. replies' \in Seq(Reply)
    BY <1>2 DEF BrowserSound
  <2>4. read \in 0..Interfaces[n]
    BY <2>2, <2>3, AccountsRange
  <2> QED
    BY <1>4, <2>2, <2>4
<1>6. CASE ~responder'.m_running
  <2>1. Total(n) <= Interfaces[n] + leftover[n]
    BY <1>2, <1>3 DEF FewListed
  <2>2. CASE Resolves \/ Closes
    BY <2>1, <2>2 DEF Resolves, Closes, QueueStays, TotalsStay
  <2>3. CASE Starts
    BY <1>4, <2>3 DEF Starts, TotalsStay
  <2>4. ASSUME NEW m \in Names, Fails(m)
        PROVE  FALSE
    BY <1>3, <2>4 DEF Fails
  <2>5. (replies = << >> /\ replies' = << >>) \/ responder.m_running
    BY <1>2, <1>6 DEF BrowserSound
  <2>6. ASSUME NEW m \in Names, AddRead(m) \/ RemoveRead(m)
        PROVE  FALSE
    BY <1>6, <2>5, <2>6 DEF AddRead, RemoveRead, IsRead
  <2>7. ASSUME NEW e \in Reply, IsSent(e)
        PROVE  FALSE
    <3>1. replies' # << >>
      BY <1>2, <2>7, AppendFacts DEF IsSent, BrowserSound
    <3> QED
      BY <1>2, <1>6, <3>1 DEF BrowserSound
  <2>8. ~ErrorSent /\ \A m \in Names : ~AddSent(m) /\ ~RemoveSent(m)
    BY <2>7 DEF ErrorSent, AddSent, RemoveSent, Reply
  <2> QED
    BY <2>2, <2>3, <2>4, <2>6, <2>8 DEF Effects, BooksEffect
<1> QED
  BY <1>5, <1>6

-----------------------------------------------------------------------------
(***************************************************************************)
(* The owner follows.                                                      *)
(***************************************************************************)
\* What has joined or left the list, by its effect.
LEMMA JoinedAndLeft ==
    ASSUME ObjectsSound, ObjectsSound'
    PROVE  /\ SameList => Joined = {} /\ Left = {} /\ NamesIn(m_services') = NamesIn(m_services)
           /\ \A o \in Object : m_services' = Append(m_services, o) =>
                /\ Joined = {o.name} /\ Left = {}
                /\ NamesIn(m_services') = NamesIn(m_services) \cup {o.name}
           /\ \A i \in DOMAIN m_services : m_services' = RemoveAt(m_services, i) =>
                /\ Joined = {} /\ Left = {m_services[i].name}
                /\ NamesIn(m_services) = NamesIn(m_services') \cup {m_services[i].name}
                /\ \A n : n = m_services[i].name => Listed(n) = Listed(n)' + 1
<1>1. m_services \in Seq(Object) /\ m_services' \in Seq(Object)
  BY DEF ObjectsSound
<1>2. \A n : /\ Count(m_services, n) = Listed(n) /\ Count(m_services', n) = Listed(n)'
             /\ Listed(n) \in Nat /\ Listed(n)' \in Nat
             /\ n \in NamesIn(m_services) <=> Listed(n) # 0
             /\ n \in NamesIn(m_services') <=> Listed(n)' # 0
  BY <1>1, CountIs DEF Listed
<1>3. /\ Joined = {n \in Names : Listed(n)' > Listed(n)}
      /\ Left = {n \in Names : Listed(n)' < Listed(n)}
  BY <1>2 DEF Joined, Left
<1>4. ASSUME SameList
      PROVE  Joined = {} /\ Left = {} /\ NamesIn(m_services') = NamesIn(m_services)
  <2>1. \A n : Listed(n)' = Listed(n)
    BY <1>1, <1>4, SameNames DEF Listed, SameList
  <2>2. NamesIn(m_services') = NamesIn(m_services)
    BY <1>1, <1>4, NamesOfFacts DEF SameList, NamesIn
  <2> QED
    BY <1>2, <1>3, <2>1, <2>2
<1>5. ASSUME NEW o \in Object, m_services' = Append(m_services, o)
      PROVE  /\ Joined = {o.name} /\ Left = {}
             /\ NamesIn(m_services') = NamesIn(m_services) \cup {o.name}
  <2>1. \A n : Listed(n)' = Listed(n) + IF o.name = n THEN 1 ELSE 0
    BY <1>1, <1>5, PutOn DEF Listed
  <2>2. o.name \in Names
    BY DEF Object, Service
  <2>3. Joined = {o.name} /\ Left = {}
    BY <1>2, <1>3, <2>1, <2>2
  <2>4. /\ DOMAIN m_services' = DOMAIN m_services \cup {Len(m_services) + 1}
        /\ \A i \in DOMAIN m_services : m_services'[i] = m_services[i]
        /\ m_services'[Len(m_services) + 1] = o
    BY <1>1, <1>5, AppendFacts
  <2>5. NamesIn(m_services') = NamesIn(m_services) \cup {o.name}
    BY <2>4 DEF NamesIn
  <2> QED
    BY <2>3, <2>5
<1>6. ASSUME NEW i \in DOMAIN m_services, m_services' = RemoveAt(m_services, i)
      PROVE  /\ Joined = {} /\ Left = {m_services[i].name}
             /\ NamesIn(m_services) = NamesIn(m_services') \cup {m_services[i].name}
             /\ \A n : n = m_services[i].name => Listed(n) = Listed(n)' + 1
  <2> DEFINE less == RemoveAt(m_services, i)
  <2> PICK x \in Names : x = m_services[i].name
    BY <1>1, ListBasics DEF Object, Service
  <2>1. \A n : Listed(n) = Listed(n)' + IF x = n THEN 1 ELSE 0
    <3>1. \A n : Occurrences(m_services, Named(n))
                   = Occurrences(less, Named(n)) + IF x = n THEN 1 ELSE 0
      BY <1>1, TakenOff
    <3>2. m_services' = less
      BY <1>6
    <3> HIDE DEF less
    <3> QED
      BY <3>1, <3>2 DEF Listed
  <2> HIDE DEF less
  <2>3. Joined = {} /\ Left = {x}
    BY <1>2, <1>3, <2>1
  <2>4. ASSUME NEW n
        PROVE  n \in NamesIn(m_services) <=> n \in NamesIn(m_services') \/ n = x
    BY <1>2, <2>1
  <2>5. Listed(x) = Listed(x)' + 1
    BY <2>1
  <2> QED
    BY <2>3, <2>4, <2>5
<1> QED
  BY <1>4, <1>5, <1>6

LEMMA ConcatElements ==
    ASSUME NEW S, NEW s \in Seq(S), NEW t \in Seq(S)
    PROVE  s \o t \in Seq(S) /\ ToSet(s \o t) = ToSet(s) \cup ToSet(t)
<1>1. /\ s \o t \in Seq(S) /\ Len(s \o t) = Len(s) + Len(t)
      /\ \A i \in 1..Len(s) + Len(t) : (s \o t)[i] = IF i <= Len(s) THEN s[i] ELSE t[i - Len(s)]
  BY ConcatProperties
<1>2. /\ Len(s) \in Nat /\ DOMAIN s = 1..Len(s)
      /\ Len(t) \in Nat /\ DOMAIN t = 1..Len(t)
      /\ DOMAIN (s \o t) = 1..Len(s \o t)
  BY <1>1, ListBasics
<1>3. ASSUME NEW e \in ToSet(s) PROVE e \in ToSet(s \o t)
  <2>1. PICK i \in 1..Len(s) : s[i] = e
    BY <1>2 DEF ToSet
  <2>2. i \in DOMAIN (s \o t) /\ (s \o t)[i] = e
    BY <1>1, <1>2, <2>1
  <2> QED
    BY <2>2 DEF ToSet
<1>4. ASSUME NEW e \in ToSet(t) PROVE e \in ToSet(s \o t)
  <2>1. PICK i \in 1..Len(t) : t[i] = e
    BY <1>2 DEF ToSet
  <2>2. /\ Len(s) + i \in 1..Len(s) + Len(t) /\ ~(Len(s) + i <= Len(s))
        /\ (Len(s) + i) - Len(s) = i
    BY <1>2, <2>1
  <2>3. Len(s) + i \in DOMAIN (s \o t) /\ (s \o t)[Len(s) + i] = e
    BY <1>1, <1>2, <2>1, <2>2
  <2> QED
    BY <2>3 DEF ToSet
<1>5. ASSUME NEW e \in ToSet(s \o t) PROVE e \in ToSet(s) \cup ToSet(t)
  <2>1. PICK i \in 1..Len(s) + Len(t) : (s \o t)[i] = e
    BY <1>1, <1>2 DEF ToSet
  <2>2. CASE i <= Len(s)
    BY <1>1, <1>2, <2>1, <2>2 DEF ToSet
  <2>3. CASE ~(i <= Len(s))
    <3>1. i - Len(s) \in DOMAIN t /\ t[i - Len(s)] = e
      BY <1>1, <1>2, <2>1, <2>3
    <3> QED
      BY <3>1 DEF ToSet
  <2> QED
    BY <2>2, <2>3
<1> QED
  BY <1>1, <1>3, <1>4, <1>5

LEMMA TypesAfterFacts ==
    ASSUME NEW list \in Seq(Names), Joined \subseteq Names
    PROVE  /\ TypesAfter(list) \in Seq(Names)
           /\ ToSet(TypesAfter(list)) = (ToSet(list) \ Left) \cup Joined
<1>1. IsFiniteSet(Joined)
  BY InterfacesAssumption, FS_Subset
<1>2. SetToSeq(Joined) \in Seq(Joined) /\ ToSet(SetToSeq(Joined)) = Joined
  BY <1>1, SetToSeqFacts
<1>3. SetToSeq(Joined) \in Seq(Names)
  <2>1. \A i \in DOMAIN SetToSeq(Joined) : SetToSeq(Joined)[i] \in Names
    BY <1>2, ListBasics
  <2>2. Len(SetToSeq(Joined)) \in Nat /\ DOMAIN SetToSeq(Joined) = 1..Len(SetToSeq(Joined))
    BY <1>2, ListBasics
  <2>3. SetToSeq(Joined) = [i \in 1..Len(SetToSeq(Joined)) |-> SetToSeq(Joined)[i]]
    BY <1>2, <2>2
  <2>4. [i \in 1..Len(SetToSeq(Joined)) |-> SetToSeq(Joined)[i]] \in Seq(Names)
    BY <2>1, <2>2, IsASeq
  <2> QED
    BY <2>3, <2>4
<1>4. RemoveAll(list, Left) \in Seq(Names) /\ ToSet(RemoveAll(list, Left)) = ToSet(list) \ Left
  BY RemoveAllElements
<1> QED
  BY <1>2, <1>3, <1>4, ConcatElements DEF TypesAfter

\* The types that are listed, after a step.
LEMMA TypesFollowAfter ==
    ASSUME IInv, Effects, owner = "ServiceTypeBrowser", m_servicetypes' = TypesAfter(m_servicetypes)
    PROVE  m_servicetypes' \in Seq(Names) /\ (TypesFollow => TypesFollow')
<1>1. /\ ObjectsSound /\ ObjectsSound' /\ BrowserSound /\ BrowserSound' /\ FewListed
      /\ m_servicetypes \in Seq(Names) /\ ~m_autoResolve
  BY DEF IInv, Effects, OwnerSound
<1>2. ListEffect /\ BooksEffect
  BY DEF Effects
<1>3. Joined \subseteq Names
  BY DEF Joined
<1>4. /\ m_servicetypes' \in Seq(Names)
      /\ ToSet(m_servicetypes') = (ToSet(m_servicetypes) \ Left) \cup Joined
  BY <1>1, <1>3, TypesAfterFacts
<1>5. \A list, n : list \in Seq(Names) => (Contains(list, n) <=> n \in ToSet(list))
  BY ListBasics DEF Contains, ToSet
<1>6. ASSUME NEW n
      PROVE  n \in NamesIn(m_services') => Listed(n)' # 0
  <2>1. m_services' \in Seq(Object)
    BY <1>1 DEF ObjectsSound
  <2> QED
    BY <2>1, CountIs DEF Listed
<1>7. ASSUME NEW n \in NamesIn(m_services'), leftover'[n] = 0
      PROVE  leftover[n] = 0 /\ leftover' = leftover
  <2>1. n \in Names
    <3>1. m_services' \in Seq(Object)
      BY <1>1 DEF ObjectsSound
    <3> QED
      BY <3>1, ListBasics DEF NamesIn, Object, Service
  <2>2. CASE Starts
    <3>1. Total(n)' = 0
      BY <1>7, <2>1, <2>2 DEF Starts, TotalsStay
    <3>2. Listed(n)' \in Nat /\ Awaited(n)' \in Nat
      <4>1. m_services' \in Seq(Object) /\ m_duringResolve' \in Seq(Object)
        BY <1>1 DEF ObjectsSound
      <4> QED
        BY <4>1, PlacesFinite DEF Listed, Awaited
    <3>3. Total(n)' = Listed(n)' + Awaited(n)'
      BY DEF Total
    <3> QED
      BY <1>6, <3>1, <3>2, <3>3
  <2>3. CASE ~Starts
    BY <1>2, <1>7, <2>3 DEF BooksEffect, Resolves, Closes, ErrorSent, Fails, AddRead, RemoveRead,
                            AddSent, RemoveSent, QueueStays, IsRead, IsSent
  <2> QED
    BY <2>2, <2>3
<1> SUFFICES ASSUME TypesFollow PROVE TypesFollow'
  BY <1>4
<1>8. ToSet(m_servicetypes) \subseteq NamesIn(m_services)
  BY DEF TypesFollow
<1>9. ASSUME NEW n \in NamesIn(m_services), Interfaces[n] = 1, leftover[n] = 0
      PROVE  n \in ToSet(m_servicetypes)
  BY <1>1, <1>5, <1>9 DEF TypesFollow
<1>10. SUFFICES /\ ToSet(m_servicetypes') \subseteq NamesIn(m_services')
                /\ \A n \in NamesIn(m_services') :
                      Interfaces[n] = 1 /\ leftover'[n] = 0 => n \in ToSet(m_servicetypes')
  BY <1>4, <1>5 DEF TypesFollow
<1>11. CASE SameList
  <2>1. Joined = {} /\ Left = {} /\ NamesIn(m_services') = NamesIn(m_services)
    BY <1>1, <1>11, JoinedAndLeft
  <2>2. ToSet(m_servicetypes') = ToSet(m_servicetypes)
    BY <1>4, <2>1
  <2> QED
    BY <1>7, <1>8, <1>9, <2>1, <2>2
<1>12. ASSUME NEW o \in Object, m_services' = Append(m_services, o)
       PROVE  /\ ToSet(m_servicetypes') \subseteq NamesIn(m_services')
              /\ \A n \in NamesIn(m_services') :
                    Interfaces[n] = 1 /\ leftover'[n] = 0 => n \in ToSet(m_servicetypes')
  <2>1. /\ Joined = {o.name} /\ Left = {}
        /\ NamesIn(m_services') = NamesIn(m_services) \cup {o.name}
    BY <1>1, <1>12, JoinedAndLeft
  <2>2. ToSet(m_servicetypes') = ToSet(m_servicetypes) \cup {o.name}
    BY <1>4, <2>1
  <2> QED
    BY <1>7, <1>8, <1>9, <2>1, <2>2
<1>13. ASSUME NEW i \in DOMAIN m_services, m_services' = RemoveAt(m_services, i)
       PROVE  /\ ToSet(m_servicetypes') \subseteq NamesIn(m_services')
              /\ \A n \in NamesIn(m_services') :
                    Interfaces[n] = 1 /\ leftover'[n] = 0 => n \in ToSet(m_servicetypes')
  <2> PICK x \in Names : x = m_services[i].name
    BY <1>1, ListBasics DEF ObjectsSound, Object, Service
  <2>1. /\ Joined = {} /\ Left = {x}
        /\ NamesIn(m_services) = NamesIn(m_services') \cup {x}
        /\ Listed(x) = Listed(x)' + 1
    BY <1>1, <1>13, JoinedAndLeft
  <2>3. ToSet(m_servicetypes') = ToSet(m_servicetypes) \ {x}
    BY <1>4, <2>1
  <2>4. ASSUME x \in NamesIn(m_services'), Interfaces[x] = 1, leftover'[x] = 0
        PROVE  FALSE
    <3>1. leftover[x] = 0 /\ Listed(x)' # 0
      BY <1>6, <1>7, <2>4
    <3>2. Listed(x) + Awaited(x) <= 1 + 0
      BY <1>1, <2>4, <3>1 DEF FewListed, Total
    <3>3. Listed(x)' \in Nat /\ Awaited(x) \in Nat
      <4>1. m_services' \in Seq(Object) /\ m_duringResolve \in Seq(Object)
        BY <1>1 DEF ObjectsSound
      <4> QED
        BY <4>1, PlacesFinite DEF Listed, Awaited
    <3> QED
      BY <2>1, <3>1, <3>2, <3>3
  <2>5. ToSet(m_servicetypes') \subseteq NamesIn(m_services')
    BY <1>8, <2>1, <2>3
  <2>6. ASSUME NEW n \in NamesIn(m_services'), Interfaces[n] = 1, leftover'[n] = 0
        PROVE  n \in ToSet(m_servicetypes')
    <3>1. n # x
      BY <2>4, <2>6
    <3>2. n \in NamesIn(m_services) /\ leftover[n] = 0
      BY <1>7, <2>1, <2>6
    <3> QED
      BY <1>9, <2>3, <2>6, <3>1, <3>2
  <2> QED
    BY <2>5, <2>6
<1> QED
  BY <1>2, <1>11, <1>12, <1>13 DEF ListEffect, Joins, Leaves

\* Taking a place out of the list takes it out of the names.
LEMMA NamesWithout ==
    ASSUME NEW list \in Seq(Object), NEW i \in DOMAIN list
    PROVE  i \in DOMAIN NamesOf(list) /\ RemoveAt(NamesOf(list), i) = NamesOf(RemoveAt(list, i))
<1> DEFINE names == NamesOf(list)
           less == RemoveAt(list, i)
<1>1. /\ names \in Seq(Names) /\ DOMAIN names = DOMAIN list /\ Len(names) = Len(list)
      /\ \A j \in DOMAIN list : names[j] = list[j].name
  BY NamesOfFacts
<1>2. DOMAIN list = 1..Len(list) /\ Len(list) \in Nat
  BY ListBasics
<1>3. /\ less \in Seq(Object) /\ Len(less) = Len(list) - 1
      /\ DOMAIN less = 1..(Len(list) - 1)
      /\ \A j \in 1..(Len(list) - 1) : less[j] = IF j < i THEN list[j] ELSE list[j + 1]
  BY RemoveAtFacts
<1>4. /\ NamesOf(less) \in Seq(Names) /\ Len(NamesOf(less)) = Len(less)
      /\ \A j \in DOMAIN less : NamesOf(less)[j] = less[j].name
  BY <1>3, NamesOfFacts
<1> HIDE DEF names, less
<1>5. /\ RemoveAt(names, i) \in Seq(Names) /\ Len(RemoveAt(names, i)) = Len(list) - 1
      /\ \A j \in 1..(Len(list) - 1) :
            RemoveAt(names, i)[j] = IF j < i THEN names[j] ELSE names[j + 1]
  BY <1>1, RemoveAtFacts
<1>6. ASSUME NEW j \in 1..(Len(list) - 1)
      PROVE  RemoveAt(names, i)[j] = NamesOf(less)[j]
  <2>1. j \in DOMAIN list /\ j + 1 \in DOMAIN list
    BY <1>2
  <2>2. NamesOf(less)[j] = less[j].name
    BY <1>3, <1>4
  <2>3. CASE j < i
    BY <1>1, <1>3, <1>5, <2>1, <2>2, <2>3
  <2>4. CASE ~(j < i)
    BY <1>1, <1>3, <1>5, <2>1, <2>2, <2>4
  <2> QED
    BY <2>3, <2>4
<1>7. RemoveAt(names, i) = NamesOf(less)
  BY <1>3, <1>4, <1>5, <1>6, SeqEqual
<1> QED
  BY <1>1, <1>7 DEF names, less

LEMMA RowsFollowAfter ==
    ASSUME IInv, Effects, laidOut' = LaidOut
    PROVE  laidOut' \in Seq(Names) /\ (RowsFollow => RowsFollow')
<1>1. /\ ObjectsSound /\ ObjectsSound' /\ laidOut \in Seq(Names)
  BY DEF IInv, Effects, OwnerSound
<1>2. m_services \in Seq(Object) /\ m_services' \in Seq(Object)
  BY <1>1 DEF ObjectsSound
<1>3. NamesOf(m_services) \in Seq(Names) /\ NamesOf(m_services') \in Seq(Names)
  BY <1>2, NamesOfFacts
<1>4. CASE SameList
  <2>1. Joined = {} /\ Left = {}
    BY <1>1, <1>4, JoinedAndLeft
  <2>2. laidOut' = laidOut
    BY <2>1 DEF LaidOut
  <2> QED
    BY <1>1, <1>4, <2>2 DEF SameList, RowsFollow
<1>5. ASSUME NEW o \in Object, m_services' = Append(m_services, o)
      PROVE  laidOut' = NamesOf(m_services')
  <2>1. Joined = {o.name} /\ Left = {}
    BY <1>1, <1>5, JoinedAndLeft
  <2> QED
    BY <2>1 DEF LaidOut
<1>6. ASSUME NEW i \in DOMAIN m_services, m_services' = RemoveAt(m_services, i)
      PROVE  /\ laidOut' = NamesOf(m_services)
             /\ i \in DOMAIN laidOut' /\ RemoveAt(laidOut', i) = NamesOf(m_services')
  <2>1. Joined = {} /\ Left = {m_services[i].name}
    BY <1>1, <1>6, JoinedAndLeft
  <2>2. laidOut' = NamesOf(m_services)
    BY <2>1 DEF LaidOut
  <2> QED
    BY <1>2, <1>6, <2>2, NamesWithout
<1> QED
  BY <1>3, <1>4, <1>5, <1>6 DEF Effects, ListEffect, Joins, Leaves, RowsFollow

LEMMA StepInvariant ==
    ASSUME IInv, Step, Slots, UNCHANGED owner
    PROVE  IInv'
<1>1. Effects
  BY StepEffects DEF IInv
<1>2. ObjectsSound' /\ BrowserSound' /\ BooksBalance' /\ FewListed'
  BY <1>1, BooksBalanceAfter, FewListedAfter DEF Effects
<1>3. m_autoResolve' = m_autoResolve /\ OwnerSound /\ OwnerFollows
  BY <1>1 DEF Effects, IInv
<1>4. CASE owner = "ServiceModel"
  <2>1. laidOut' = LaidOut /\ m_servicetypes' = m_servicetypes
    BY <1>4 DEF Slots
  <2>2. laidOut' \in Seq(Names) /\ RowsFollow'
    BY <1>1, <1>3, <1>4, <2>1, RowsFollowAfter DEF OwnerFollows
  <2> QED
    BY <1>2, <1>3, <1>4, <2>1, <2>2 DEF IInv, OwnerSound, OwnerFollows
<1>5. CASE owner = "ServiceTypeBrowser"
  <2>1. m_servicetypes' = TypesAfter(m_servicetypes) /\ laidOut' = laidOut
    BY <1>5 DEF Slots
  <2>2. m_servicetypes' \in Seq(Names) /\ TypesFollow'
    BY <1>1, <1>3, <1>5, <2>1, TypesFollowAfter DEF OwnerFollows
  <2> QED
    BY <1>2, <1>3, <1>5, <2>1, <2>2 DEF IInv, OwnerSound, OwnerFollows
<1> QED
  BY <1>3, <1>4, <1>5 DEF OwnerSound

-----------------------------------------------------------------------------
LEMMA InitInvariant == OwnedInit => IInv
<1> SUFFICES ASSUME Init, OwnerInit PROVE IInv
  BY DEF OwnedInit
<1>1. \A S : << >> \in Seq(S)
  BY EmptySeq
<1>2. ObjectsSound
  <2>1. {} \subseteq Names
    OBVIOUS
  <2> QED
    BY <1>1, <2>1 DEF Init, ObjectsSound
<1>3. NoConnection \in Responder /\ OwnsItsConnection(NoConnection) /\ ~NoConnection.m_running
  BY DEF NoConnection, Responder, OwnsItsConnection
<1>4. BrowserSound
  BY <1>1, <1>3, NothingFacts DEF Init, BrowserSound
<1>5. OwnerSound
  BY <1>1 DEF OwnerInit, OwnerSound
<1>6. BooksBalance
  BY <1>3 DEF Init, BooksBalance
<1>7. ASSUME NEW n \in Names PROVE Total(n) <= Interfaces[n] + leftover[n]
  <2>1. Total(n) = 0 + 0 /\ leftover[n] = 0 /\ Interfaces[n] \in Nat
    BY EmptyOccurrences, NothingFacts, InterfacesAssumption DEF Init, Total, Listed, Awaited
  <2> QED
    BY <2>1
<1>8. FewListed
  BY <1>7 DEF FewListed
<1>9. OwnerFollows
  <2>1. NamesOf(<< >>) = << >> /\ NamesIn(<< >>) = {} /\ ToSet(<< >>) = {}
    BY DEF NamesOf, NamesIn, ToSet
  <2> QED
    BY <2>1 DEF Init, OwnerInit, OwnerFollows, RowsFollow, TypesFollow
<1> QED
  BY <1>2, <1>4, <1>5, <1>6, <1>8, <1>9 DEF IInv

LEMMA RecreateInvariant ==
    ASSUME IInv, OwnedRecreate
    PROVE  IInv'
<1>1. OwnedInit'
  BY DEF IInv, OwnerSound, OwnedRecreate, Recreate, OwnedInit, Init, OwnerInit
<1>2. (OwnedInit => IInv)'
  BY InitInvariant, PTL
<1> QED
  BY <1>1, <1>2

LEMMA NextInvariant == IInv /\ [Next]_allVars => IInv'
<1> SUFFICES ASSUME IInv, [Next]_allVars PROVE IInv'
  OBVIOUS
<1>1. CASE UNCHANGED allVars
  BY <1>1 DEF allVars, vars, flags, lists, connection, IInv, ObjectsSound, BrowserSound, OwnerSound,
              BooksBalance, InStep, Total, Listed, Awaited, FewListed, OwnerFollows, RowsFollow,
              TypesFollow
<1> QED
  BY <1>1, StepInvariant, RecreateInvariant DEF Next

-----------------------------------------------------------------------------
(***************************************************************************)
(* What the invariant gives.                                               *)
(***************************************************************************)
\* Every reply, timer and call, with the owner's slots inside it, keeps the
\* invariant, whatever is refused, fails or breaks.
THEOREM Invariance == Spec => []IInv
  BY InitInvariant, NextInvariant, PTL DEF Spec

\* Each connection, the browser's and every object's, is owned by the object that
\* has made it, whatever is refused, fails or breaks; what is reported by a
\* resolving browser has a host, and what is awaited is not yet resolved.
THEOREM TypeCorrect == Spec => []TypeOK
<1>1. IInv => TypeOK
  <2> SUFFICES ASSUME IInv PROVE TypeOK
    OBVIOUS
  <2>1. ObjectsSound /\ BrowserSound
    BY DEF IInv
  <2>2. \A list \in {m_services, m_duringResolve} : \A i \in DOMAIN list : ObjectOK(list[i])
    BY <2>1, ListBasics DEF ObjectsSound, Object
  <2>3. \A n \in Names : known[n] \in 0 .. Interfaces[n]
    BY <2>1, InterfacesAssumption DEF BrowserSound
  <2> QED
    BY <2>1, <2>2, <2>3 DEF ObjectsSound, BrowserSound, TypeOK
<1> QED
  BY <1>1, Invariance, PTL

\* A service has as many objects as the daemon has announced instances of it, but
\* for the replies not read yet and for what an earlier connection has left, unless
\* a resolve of it has failed (customEvent, serviceResolved, startBrowse).
THEOREM InstancesBalance == Spec => []InstancesAccounted
<1>1. IInv => InstancesAccounted
  <2> SUFFICES ASSUME IInv, responder.m_running, NEW n \in Names \ failed
               PROVE  Count(m_services, n) + Count(m_duringResolve, n) + Unread("Add", n)
                          = known[n] + Unread("Remove", n) + leftover[n]
    BY DEF InstancesAccounted
  <2>1. ObjectsSound /\ BrowserSound /\ InStep(n)
    BY DEF IInv, BooksBalance
  <2>2. Count(m_services, n) + Count(m_duringResolve, n) = Total(n)
    BY <2>1, TotalIs DEF Total
  <2>3. \A i \in DOMAIN replies : replies[i] \in Reply
    BY <2>1, ListBasics DEF BrowserSound
  <2>4. ASSUME NEW op \in {"Add", "Remove"}, NEW i \in DOMAIN replies
        PROVE  replies[i].op = op /\ replies[i].name = n <=> replies[i] = [op |-> op, name |-> n]
    <3>1. [op |-> op, name |-> n].op = op /\ [op |-> op, name |-> n].name = n
      OBVIOUS
    <3>2. ASSUME replies[i].op = op, replies[i].name = n
          PROVE  replies[i] = [op |-> op, name |-> n]
      BY <2>3, <3>2, ReplyFacts
    <3> QED
      BY <3>1, <3>2
  <2>5. /\ Unread("Add", n) = Occurrences(replies, Added(n))
        /\ Unread("Remove", n) = Occurrences(replies, Removed(n))
    BY <2>4 DEF Unread, Occurrences, Places, Added, Removed
  <2> QED
    BY <2>1, <2>2, <2>5 DEF InStep
<1> QED
  BY <1>1, Invariance, PTL

\* A view that asks for the cells of a column is shown every listed service.
LEMMA CellsShown ==
    ASSUME m_services \in Seq(Object), m_autoResolve \in BOOLEAN
    PROVE  /\ Cells(Columns.ServiceName) = NamesIn(m_services)
           /\ m_autoResolve =>
                Cells(Columns.Host) = {m_services[i].hostName : i \in DOMAIN m_services}
<1>1. Len(m_services) \in Nat /\ DOMAIN m_services = 1..Len(m_services)
  BY ListBasics
<1>2. Columns.ServiceName = 0 /\ Columns.Host = 1 /\ Columns.Port = 2
  BY DEF Columns
<1>3. ColumnCount = IF m_autoResolve THEN 3 ELSE 1
  BY DEF ColumnCount
<1>4. ASSUME NEW row \in -1 .. Len(m_services), NEW column \in {0, 1},
             column = 1 => m_autoResolve
      PROVE  HasIndex(row, column, FALSE) <=> row + 1 \in DOMAIN m_services
  <2>1. column >= 0 /\ column < ColumnCount
    BY <1>3, <1>4
  <2>2. row >= 0 /\ row < Len(m_services) <=> row + 1 \in 1..Len(m_services)
    BY <1>1
  <2> QED
    BY <1>1, <2>1, <2>2 DEF HasIndex, RowCount
<1>5. ASSUME NEW row \in -1 .. Len(m_services)
      PROVE  Data(row, 0, "DisplayRole")
               = IF row + 1 \in DOMAIN m_services THEN {m_services[row + 1].name} ELSE {}
  <2>1. HasIndex(row, 0, FALSE) <=> row + 1 \in DOMAIN m_services
    <3>1. 0 \in {0, 1} /\ (0 = 1 => m_autoResolve)
      OBVIOUS
    <3> QED
      BY <1>4, <3>1
  <2>2. CASE HasIndex(row, 0, FALSE)
    <3>1. Data(row, 0, "DisplayRole") = {m_services[row + 1].name}
      BY <1>2, <2>2 DEF Data
    <3> QED
      BY <2>1, <2>2, <3>1
  <2>3. CASE ~HasIndex(row, 0, FALSE)
    <3>1. Data(row, 0, "DisplayRole") = {}
      BY <2>3 DEF Data
    <3> QED
      BY <2>1, <2>3, <3>1
  <2> QED
    BY <2>2, <2>3
<1>6. ASSUME NEW row \in -1 .. Len(m_services), m_autoResolve
      PROVE  Data(row, 1, "DisplayRole")
               = IF row + 1 \in DOMAIN m_services THEN {m_services[row + 1].hostName} ELSE {}
  <2>1. HasIndex(row, 1, FALSE) <=> row + 1 \in DOMAIN m_services
    <3>1. 1 \in {0, 1} /\ (1 = 1 => m_autoResolve)
      BY <1>6
    <3> QED
      BY <1>4, <3>1
  <2>2. CASE HasIndex(row, 1, FALSE)
    <3>1. Data(row, 1, "DisplayRole") = {m_services[row + 1].hostName}
      BY <1>2, <2>2 DEF Data
    <3> QED
      BY <2>1, <2>2, <3>1
  <2>3. CASE ~HasIndex(row, 1, FALSE)
    <3>1. Data(row, 1, "DisplayRole") = {}
      BY <2>3 DEF Data
    <3> QED
      BY <2>1, <2>3, <3>1
  <2> QED
    BY <2>2, <2>3
<1>7. \A i \in DOMAIN m_services : i - 1 \in -1 .. Len(m_services) /\ (i - 1) + 1 = i
  BY <1>1
<1>8. Cells(Columns.ServiceName) = NamesIn(m_services)
  <2>1. ASSUME NEW v \in NamesIn(m_services)
        PROVE  v \in Cells(0)
    <3>1. PICK i \in DOMAIN m_services : v = m_services[i].name
      BY DEF NamesIn
    <3>2. v \in Data(i - 1, 0, "DisplayRole")
      BY <1>5, <1>7, <3>1
    <3> QED
      BY <1>7, <3>2 DEF Cells
  <2>2. ASSUME NEW v \in Cells(0)
        PROVE  v \in NamesIn(m_services)
    <3>1. PICK row \in -1 .. Len(m_services) : v \in Data(row, 0, "DisplayRole")
      BY DEF Cells
    <3>2. row + 1 \in DOMAIN m_services /\ v = m_services[row + 1].name
      BY <1>5, <3>1
    <3> QED
      BY <3>2 DEF NamesIn
  <2> QED
    BY <1>2, <2>1, <2>2
<1>9. ASSUME m_autoResolve
      PROVE  Cells(Columns.Host) = {m_services[i].hostName : i \in DOMAIN m_services}
  <2> DEFINE hosts == {m_services[i].hostName : i \in DOMAIN m_services}
  <2>1. ASSUME NEW v \in hosts
        PROVE  v \in Cells(1)
    <3>1. PICK i \in DOMAIN m_services : v = m_services[i].hostName
      OBVIOUS
    <3>2. v \in Data(i - 1, 1, "DisplayRole")
      BY <1>6, <1>7, <1>9, <3>1
    <3> QED
      BY <1>7, <3>2 DEF Cells
  <2>2. ASSUME NEW v \in Cells(1)
        PROVE  v \in hosts
    <3>1. PICK row \in -1 .. Len(m_services) : v \in Data(row, 1, "DisplayRole")
      BY DEF Cells
    <3>2. row + 1 \in DOMAIN m_services /\ v = m_services[row + 1].hostName
      BY <1>6, <1>9, <3>1
    <3> QED
      BY <3>2
  <2> HIDE DEF hosts
  <2>3. Cells(1) = hosts
    BY <2>1, <2>2
  <2> QED
    BY <1>2, <2>3 DEF hosts
<1> QED
  BY <1>8, <1>9

\* The service model shows every listed service and at most one that has just
\* gone; the types listed are those of services(), and one with a single
\* announcement is listed while it is there (ServiceModel::data,
\* ServiceTypeBrowserPrivate::newService and removeService).
THEOREM ObserversAgree == Spec => []ObserversFollow
<1>1. IInv => ObserversFollow
  <2> SUFFICES ASSUME IInv PROVE ObserversFollow
    OBVIOUS
  <2>1. ObjectsSound /\ m_autoResolve \in BOOLEAN /\ OwnerFollows
    BY DEF IInv, BrowserSound
  <2>2. CASE owner = "ServiceModel"
    <3>1. RowsFollow
      BY <2>1, <2>2 DEF OwnerFollows
    <3>2. /\ Cells(Columns.ServiceName) = NamesIn(m_services)
          /\ m_autoResolve =>
               Cells(Columns.Host) = {m_services[i].hostName : i \in DOMAIN m_services}
      BY <2>1, CellsShown DEF ObjectsSound
    <3>3. \A i \in DOMAIN m_services : m_services[i].hostName \in BOOLEAN
      BY <2>1, ListBasics DEF ObjectsSound, Object, Service
    <3>4. m_autoResolve => \A i \in DOMAIN m_services : m_services[i].hostName = TRUE
      BY <2>1, <3>3 DEF ObjectsSound
    <3>5. m_autoResolve => Cells(Columns.Host) \subseteq {TRUE}
      BY <3>2, <3>4
    <3> QED
      BY <2>2, <3>1, <3>2, <3>5 DEF ObserversFollow, ViewFollows, RowsFollow
  <2>3. CASE owner # "ServiceModel"
    BY <2>1, <2>3 DEF OwnerFollows, ObserversFollow
  <2> QED
    BY <2>2, <2>3
<1> QED
  BY <1>1, Invariance, PTL
=============================================================================
