--------------------- MODULE AvahiServiceBrowserProofs ---------------------
(***************************************************************************)
(* Theorems about AvahiServiceBrowser, for every set of announcements and  *)
(* objects, every bus length and every depth of event loops inside one     *)
(* another.                                                                *)
(*                                                                         *)
(* Each step is first reduced to what it does to five sets of objects -    *)
(* reported, pending, and those that suspended handlers deal with - and to *)
(* three numbers per service - objects, suspended handlers, announcements  *)
(* heard.  The parts of the inductive invariant speak of these alone.      *)
(***************************************************************************)
EXTENDS AvahiServiceBrowser, ListFacts

Reported == ToSet(m_services)
Pending == ToSet(m_duringResolve)
Adding == SuspendedFor("serviceAdded")
Removing == SuspendedFor("serviceRemoved")

\* Objects whose handler holds an iterator into m_duringResolve that is alive.
Certain == {h.object : h \in {h \in ToSet(suspended) : h.of = "serviceAdded" /\ ~h.stale}}

Alive == Reported \cup Pending \cup Adding \cup Removing

Named(name) == {o \in Object : o.name = name}
HandlersOf(name) == {h \in Handler : h.object.name = name}
Frames(name) == Occurrences(suspended, HandlersOf(name))

(***************************************************************************)
(* The parts of the inductive invariant.                                   *)
(***************************************************************************)
Lists ==
    /\ m_services \in Seq(Object) /\ m_duringResolve \in Seq(Object)
    /\ IsInjective(m_services) /\ IsInjective(m_duringResolve)
    /\ suspended \in Seq(Handler)

Types ==
    /\ Lists
    /\ m_autoResolve \in BOOLEAN /\ m_running \in BOOLEAN
    /\ m_browserFinished \in BOOLEAN /\ timer \in BOOLEAN
    /\ crashed \in BOOLEAN
    /\ bus \in Seq(Signal)
    /\ served \in BOOLEAN /\ known \subseteq Announcements /\ allForNow \in BOOLEAN
    /\ heard \subseteq Announcements
    /\ batch \in BOOLEAN /\ disturbed \subseteq Names

\* An identity is that of one object.  An object is in both lists only while it
\* is being added; one that is being removed awaits no answer.
ObjectsSound ==
    /\ \A o, p \in Alive : o.id = p.id => o = p
    /\ Reported \cap Pending \subseteq Adding
    /\ Certain \subseteq Reported \cap Pending
    /\ Removing \cap Pending = {}
    /\ \A id \in resolvers : \E o \in Alive : o.id = id

\* While its handler is suspended, the object being removed is still listed.
RemovedAreListed == \A o \in Removing : o.name \notin disturbed => o \in Reported

\* A suspended handler has taken its announcement from the books, or entered its
\* object twice.
Accounts ==
    \A name \in Names \ disturbed :
        /\ Frames(name) <= 1
        /\ Instances(name) = Heard(name) + Frames(name)

\* The bus leads from what has been heard to what the daemon has announced.
Gains == [sig \in Signal |-> IF sig.kind = "ItemNew" THEN {sig.item} ELSE {}]
Loses == [sig \in Signal |-> IF sig.kind = "ItemRemove" THEN {sig.item} ELSE {}]
BusLeads ==
    \E announced : /\ Connects(bus, Gains, Loses, heard, announced)
                   /\ served => announced = known

\* Before startBrowse() there is nothing; the daemon serves who has started.
Idle ==
    /\ ~m_running => /\ m_services = << >> /\ m_duringResolve = << >>
                     /\ suspended = << >> /\ bus = << >>
                     /\ known = {} /\ heard = {} /\ disturbed = {} /\ ~served
    /\ m_running => m_browserFinished

IInv ==
    /\ Types
    /\ ObjectsSound
    /\ RemovedAreListed
    /\ Accounts
    /\ BusLeads
    /\ Idle
    /\ AnswerComing
    /\ BatchHasAnEnd

-----------------------------------------------------------------------------
(***************************************************************************)
(* The sets and numbers, from the lists.                                   *)
(***************************************************************************)
LEMMA Elements ==
    ASSUME Lists
    PROVE  /\ Reported \subseteq Object /\ Pending \subseteq Object
           /\ Adding \subseteq Object /\ Removing \subseteq Object
           /\ Certain \subseteq Adding
           /\ \A o \in Object : o.id \in Ids /\ o.name \in Names
<1>1. ToSet(suspended) \subseteq Handler /\ Reported \subseteq Object /\ Pending \subseteq Object
  BY ElementsOccur DEF Lists, Reported, Pending
<1>2. \A h \in Handler : h.object \in Object
  BY DEF Handler
<1>3. \A o \in Object : o.id \in Ids /\ o.name \in Names
  BY DEF Object
<1> QED
  BY <1>1, <1>2, <1>3 DEF Adding, Removing, Certain, SuspendedFor

LEMMA HeldIsAlive ==
    ASSUME Lists
    PROVE  \A id : id \in Held <=> \E o \in Alive : o.id = id
<1>1. \A i \in DOMAIN suspended : suspended[i] \in Handler
  BY ListBasics DEF Lists
<1>2. \A h \in Handler : h.of \in {"serviceAdded", "serviceRemoved"}
  BY DEF Handler
<1>3. \A id : id \in IdsIn(m_services) <=> \E o \in Reported : o.id = id
  BY DEF IdsIn, Reported, ToSet
<1>4. \A id : id \in IdsIn(m_duringResolve) <=> \E o \in Pending : o.id = id
  BY DEF IdsIn, Pending, ToSet
<1>5. ASSUME NEW id
      PROVE  id \in {suspended[i].object.id : i \in DOMAIN suspended}
                 <=> \E o \in Adding \cup Removing : o.id = id
  <2>1. Adding \cup Removing = {suspended[i].object : i \in DOMAIN suspended}
    BY <1>1, <1>2 DEF Adding, Removing, SuspendedFor, ToSet
  <2> QED
    BY <2>1
<1> QED
  BY <1>3, <1>4, <1>5 DEF Held, Alive

LEMMA InstancesAre ==
    ASSUME Lists, NEW name
    PROVE  /\ Instances(name) = Occurrences(m_services, Named(name))
                                   + Occurrences(m_duringResolve, Named(name))
           /\ Occurrences(m_services, Named(name)) \in Nat
           /\ Occurrences(m_duringResolve, Named(name)) \in Nat
           /\ Frames(name) \in Nat
<1>1. ASSUME NEW list \in Seq(Object)
      PROVE  {i \in DOMAIN list : list[i].name = name} = Places(list, Named(name))
  BY ListBasics DEF Places, Named
<1>2. /\ {i \in DOMAIN m_services : m_services[i].name = name} = Places(m_services, Named(name))
      /\ {i \in DOMAIN m_duringResolve : m_duringResolve[i].name = name}
             = Places(m_duringResolve, Named(name))
  BY <1>1 DEF Lists
<1>3. /\ Occurrences(m_services, Named(name)) \in Nat
      /\ Occurrences(m_duringResolve, Named(name)) \in Nat
      /\ Frames(name) \in Nat
  BY PlacesFinite DEF Lists, Frames
<1> QED
  BY <1>2, <1>3 DEF Instances, Occurrences

LEMMA HeardNumber ==
    ASSUME Types, NEW name
    PROVE  Heard(name) \in Nat
<1>1. IsFiniteSet({a \in heard : NameOf[a] = name})
  BY AnnouncementsAssumption, FS_Subset DEF Types
<1> QED
  BY <1>1, FS_CardinalityType DEF Heard

\* No handler of this service is suspended.
LEMMA NoFrames ==
    ASSUME Lists, NEW name
    PROVE  /\ Frames(name) = 0 <=> \A i \in DOMAIN suspended : suspended[i].object.name # name
           /\ Frames(name) = 0 => \A o \in Adding \cup Removing : o.name # name
<1>1. \A i \in DOMAIN suspended : suspended[i] \in Handler
  BY ListBasics DEF Lists
<1>2. Frames(name) = 0 <=> \A i \in DOMAIN suspended : suspended[i] \notin HandlersOf(name)
  BY PlacesFinite DEF Lists, Frames
<1>3. Frames(name) = 0 <=> \A i \in DOMAIN suspended : suspended[i].object.name # name
  BY <1>1, <1>2 DEF HandlersOf
<1> QED
  BY <1>3 DEF Adding, Removing, SuspendedFor, ToSet

\* Without the first object of a name: one object of that name has gone.
LEMMA WithoutFirstFacts ==
    ASSUME NEW list \in Seq(Object), IsInjective(list), NEW name, name \in NamesIn(list)
    PROVE  \E o \in ToSet(list) :
              /\ o.name = name
              /\ o = list[FirstOf(list, name)]
              /\ WithoutFirst(list, name) \in Seq(Object)
              /\ IsInjective(WithoutFirst(list, name))
              /\ ToSet(WithoutFirst(list, name)) = ToSet(list) \ {o}
              /\ \A n : Occurrences(list, Named(n))
                           = Occurrences(WithoutFirst(list, name), Named(n))
                                + IF n = name THEN 1 ELSE 0
<1> DEFINE first == FirstOf(list, name)
<1>1. DOMAIN list = 1..Len(list) /\ \A i \in DOMAIN list : list[i] \in Object
  BY ListBasics
<1>2. PICK i \in DOMAIN list : list[i].name = name
  BY DEF NamesIn
<1>3. {j \in 1..Len(list) : list[j].name = name} = Places(list, Named(name))
  BY <1>1 DEF Places, Named
<1>4. i \in Places(list, Named(name))
  BY <1>1, <1>2 DEF Places, Named
<1>5. first = Min(Places(list, Named(name)))
  BY <1>3, <1>4 DEF FirstOf, SelectInSeq
<1>6. WithoutFirst(list, name) = RemoveAt(list, first)
  BY <1>1, <1>2 DEF WithoutFirst, RemoveFirstMatch, FirstOf
<1>7. first \in DOMAIN list /\ list[first] \in Named(name)
  BY <1>1, <1>2, <1>4, <1>5, FirstPlace DEF Places
<1>8. /\ IsInjective(WithoutFirst(list, name))
      /\ ToSet(WithoutFirst(list, name)) = ToSet(list) \ {list[first]}
  BY <1>6, <1>7, RemoveAtElements
<1>9. WithoutFirst(list, name) \in Seq(Object)
  BY <1>6, <1>7, RemoveAtFacts
<1>10. ASSUME NEW n
       PROVE  Occurrences(list, Named(n))
                  = Occurrences(WithoutFirst(list, name), Named(n)) + IF n = name THEN 1 ELSE 0
  <2>1. list[first] \in Named(n) <=> n = name
    BY <1>7 DEF Named
  <2> QED
    BY <1>6, <1>7, <2>1, RemoveAtOccurrences
<1>11. list[first] \in ToSet(list) /\ list[first].name = name
  BY <1>7 DEF ToSet, Named
<1> QED
  BY <1>8, <1>9, <1>10, <1>11

\* Without one object: nothing else goes.
LEMMA WithoutIdFacts ==
    ASSUME NEW list \in Seq(Object), IsInjective(list), NEW o \in ToSet(list),
           \A p \in ToSet(list) : p.id = o.id => p = o
    PROVE  /\ WithoutId(list, o.id) \in Seq(Object)
           /\ IsInjective(WithoutId(list, o.id))
           /\ ToSet(WithoutId(list, o.id)) = ToSet(list) \ {o}
           /\ \A n : Occurrences(list, Named(n))
                        = Occurrences(WithoutId(list, o.id), Named(n))
                             + IF n = o.name THEN 1 ELSE 0
<1>1. {p \in ToSet(list) : p.id = o.id} = {o}
  OBVIOUS
<1>2. WithoutId(list, o.id) = RemoveAll(list, {o})
  BY <1>1 DEF WithoutId
<1>3. /\ RemoveAll(list, {o}) \in Seq(Object)
      /\ ToSet(RemoveAll(list, {o})) = ToSet(list) \ {o}
      /\ IsInjective(RemoveAll(list, {o}))
  BY RemoveAllElements
<1>4. PICK i \in DOMAIN list : list[i] = o
  BY DEF ToSet
<1>5. \A j \in DOMAIN list : list[j] = o => j = i
  BY <1>4 DEF IsInjective
<1>6. o \in Object
  BY ElementsOccur
<1>7. ASSUME NEW n
      PROVE  Occurrences(list, Named(n))
                 = Occurrences(WithoutId(list, o.id), Named(n)) + IF n = o.name THEN 1 ELSE 0
  <2>1. Occurrences(WithoutId(list, o.id), Named(n)) = Occurrences(list, Named(n) \ {o})
    BY <1>2, RemoveAllFacts
  <2>2. /\ IsFiniteSet(Places(list, Named(n)))
        /\ Occurrences(list, Named(n)) \in Nat
        /\ Occurrences(list, Named(n) \ {o}) \in Nat
    BY PlacesFinite
  <2>3. Places(list, Named(n) \ {o}) = Places(list, Named(n)) \ {i}
    BY <1>4, <1>5 DEF Places
  <2>4. i \in Places(list, Named(n)) <=> n = o.name
    BY <1>4, <1>6 DEF Places, Named
  <2>5. Occurrences(list, Named(n) \ {o})
            = IF n = o.name THEN Occurrences(list, Named(n)) - 1 ELSE Occurrences(list, Named(n))
    BY <2>2, <2>3, <2>4, FS_RemoveElement DEF Occurrences
  <2> QED
    BY <2>1, <2>2, <2>5
<1> QED
  BY <1>2, <1>3, <1>7

-----------------------------------------------------------------------------
(***************************************************************************)
(* What steps do to suspended handlers.                                    *)
(***************************************************************************)
KeepsFrames ==
    /\ Adding' = Adding /\ Removing' = Removing /\ Certain' \subseteq Certain
    /\ \A n : Frames(n)' = Frames(n)

\* The same handlers, some with an iterator that has died.
SameFrames(new, list) ==
    /\ new \in Seq(Handler) /\ DOMAIN new = DOMAIN list
    /\ \A i \in DOMAIN list : /\ new[i].of = list[i].of
                              /\ new[i].object = list[i].object
                              /\ new[i].stale \/ new[i] = list[i]

LEMMA DeadFrames ==
    ASSUME NEW list \in Seq(Handler)
    PROVE  /\ SameFrames(Dead(list), list)
           /\ \A h \in ToSet(Dead(list)) : h.stale = TRUE
<1>1. Len(list) \in Nat /\ DOMAIN list = 1..Len(list) /\ \A i \in DOMAIN list : list[i] \in Handler
  BY ListBasics
<1>2. \A h \in Handler : /\ [h EXCEPT !.stale = TRUE] \in Handler
                         /\ [h EXCEPT !.stale = TRUE].of = h.of
                         /\ [h EXCEPT !.stale = TRUE].object = h.object
                         /\ [h EXCEPT !.stale = TRUE].stale = TRUE
  BY DEF Handler
<1>3. \A i \in DOMAIN list : Dead(list)[i] = [list[i] EXCEPT !.stale = TRUE]
  BY DEF Dead
<1>4. DOMAIN Dead(list) = DOMAIN list
  BY DEF Dead
<1>5. \A i \in DOMAIN list : Dead(list)[i] \in Handler
  BY <1>1, <1>2, <1>3
<1>6. Dead(list) = [i \in DOMAIN list |-> Dead(list)[i]]
  BY DEF Dead
<1>7. Dead(list) \in Seq(Handler)
  BY <1>1, <1>5, <1>6, IsASeq
<1>8. \A i \in DOMAIN list : Dead(list)[i].stale = TRUE
  BY <1>1, <1>2, <1>3
<1>9. \A h \in ToSet(Dead(list)) : h.stale = TRUE
  BY <1>4, <1>8 DEF ToSet
<1> QED
  BY <1>1, <1>2, <1>3, <1>4, <1>7, <1>9 DEF SameFrames

LEMMA SameFramesFacts ==
    ASSUME Lists, SameFrames(suspended', suspended)
    PROVE  KeepsFrames
<1>1. \A i \in DOMAIN suspended : suspended[i] \in Handler /\ suspended'[i] \in Handler
  BY ListBasics DEF Lists, SameFrames
<1>2. Adding' = Adding
  BY DEF SameFrames, Adding, SuspendedFor, ToSet
<1>3. Removing' = Removing
  BY DEF SameFrames, Removing, SuspendedFor, ToSet
<1>4. Certain' \subseteq Certain
  BY DEF SameFrames, Certain, ToSet
<1>5. ASSUME NEW n PROVE Frames(n)' = Frames(n)
  <2>1. Places(suspended', HandlersOf(n)) = Places(suspended, HandlersOf(n))
    BY <1>1 DEF SameFrames, Places, HandlersOf
  <2> QED
    BY <2>1 DEF Frames, Occurrences
<1> QED
  BY <1>2, <1>3, <1>4, <1>5 DEF KeepsFrames

LEMMA DyingFrames ==
    ASSUME Lists, IteratorsDie
    PROVE  suspended' \in Seq(Handler) /\ KeepsFrames /\ Certain' = {}
<1>1. SameFrames(suspended', suspended) /\ \A h \in ToSet(suspended') : h.stale = TRUE
  BY DeadFrames DEF Lists, IteratorsDie
<1>2. Certain' = {}
  BY <1>1 DEF Certain
<1> QED
  BY <1>1, <1>2, SameFramesFacts DEF SameFrames

LEMMA SameSuspended ==
    ASSUME Lists, UNCHANGED suspended
    PROVE  suspended' \in Seq(Handler) /\ KeepsFrames
  BY DEF Lists, KeepsFrames, Adding, Removing, Certain, SuspendedFor, Frames

LEMMA KeptFrames ==
    ASSUME Lists, KeepsSuspended
    PROVE  /\ suspended' \in Seq(Handler)
           /\ KeepsFrames
           /\ m_duringResolve' # m_duringResolve => Certain' = {}
           /\ m_duringResolve' = m_duringResolve => suspended' = suspended
  BY DyingFrames, SameSuspended DEF KeepsSuspended

LEMMA SuspendedFrames ==
    ASSUME Lists, NEW o \in Object, NEW signal \in {"serviceAdded", "serviceRemoved"},
           Suspends(signal, o)
    PROVE  /\ suspended' \in Seq(Handler)
           /\ signal = "serviceAdded" =>
                 Adding' = Adding \cup {o} /\ Removing' = Removing /\ Certain' = Certain \cup {o}
           /\ signal = "serviceRemoved" =>
                 Adding' = Adding /\ Removing' = Removing \cup {o} /\ Certain' = Certain
           /\ \A n : Frames(n)' = Frames(n) + IF n = o.name THEN 1 ELSE 0
<1> DEFINE h == [of |-> signal, object |-> o, stale |-> FALSE]
<1>1. h \in Handler /\ h.of = signal /\ h.object = o /\ h.stale = FALSE
  BY DEF Handler
<1>2. suspended' = Append(suspended, h)
  BY DEF Suspends
<1>3. \A n : h \in HandlersOf(n) <=> n = o.name
  BY <1>1 DEF HandlersOf
<1> HIDE DEF h
<1>4. suspended' \in Seq(Handler) /\ ToSet(suspended') = ToSet(suspended) \cup {h}
  BY <1>1, <1>2, AppendFacts DEF Lists
<1>5. \A n : Frames(n)' = Frames(n) + IF n = o.name THEN 1 ELSE 0
  BY <1>1, <1>2, <1>3, AppendOccurrences DEF Lists, Frames
<1>6. /\ Adding' = {k.object : k \in {k \in ToSet(suspended') : k.of = "serviceAdded"}}
      /\ Removing' = {k.object : k \in {k \in ToSet(suspended') : k.of = "serviceRemoved"}}
      /\ Certain' = {k.object : k \in {k \in ToSet(suspended') : k.of = "serviceAdded" /\ ~k.stale}}
  BY DEF Adding, Removing, Certain, SuspendedFor
<1>7. signal = "serviceAdded" =>
          Adding' = Adding \cup {o} /\ Removing' = Removing /\ Certain' = Certain \cup {o}
  BY <1>1, <1>4, <1>6 DEF Adding, Removing, Certain, SuspendedFor
<1>8. signal = "serviceRemoved" =>
          Adding' = Adding /\ Removing' = Removing \cup {o} /\ Certain' = Certain
  BY <1>1, <1>4, <1>6 DEF Adding, Removing, Certain, SuspendedFor
<1> QED
  BY <1>4, <1>5, <1>7, <1>8

\* The innermost handler leaves; the others may be marked.
LEMMA ReturnedFrames ==
    ASSUME Lists, suspended # << >>,
           suspended' = Front(suspended) \/ SameFrames(suspended', Front(suspended))
    PROVE  LET h == Last(suspended) IN
           /\ h \in Handler
           /\ suspended' \in Seq(Handler)
           /\ h.of = "serviceAdded" => /\ h.object \in Adding
                                       /\ Adding = Adding' \cup {h.object}
                                       /\ Removing' = Removing
                                       /\ ~h.stale => h.object \in Certain
           /\ h.of = "serviceRemoved" => /\ h.object \in Removing
                                         /\ Removing = Removing' \cup {h.object}
                                         /\ Adding' = Adding
           /\ Certain' \subseteq Certain
           /\ \A n : Frames(n) = Frames(n)' + IF n = h.object.name THEN 1 ELSE 0
<1> DEFINE h == Last(suspended)
           rest == Front(suspended)
<1>1. /\ rest \in Seq(Handler) /\ h \in Handler
      /\ rest = RemoveAt(suspended, Len(suspended))
      /\ Len(suspended) \in DOMAIN suspended /\ h = suspended[Len(suspended)]
      /\ ToSet(suspended) = ToSet(rest) \cup {h}
  BY FrontFacts, FrontIsRemoveAt DEF Lists
<1>2. \A n : h \in HandlersOf(n) <=> n = h.object.name
  BY <1>1 DEF HandlersOf
<1>3. \A n : Frames(n) = Occurrences(rest, HandlersOf(n)) + IF n = h.object.name THEN 1 ELSE 0
  BY <1>1, <1>2, RemoveAtOccurrences DEF Lists, Frames
<1>4. \A i \in DOMAIN rest : rest[i] \in Handler
  BY <1>1, ListBasics
<1> HIDE DEF h, rest
<1>5. SameFrames(suspended', rest)
  <2>1. SameFrames(rest, rest)
    BY <1>1 DEF SameFrames
  <2> QED
    BY <2>1 DEF rest
<1>6. \A i \in DOMAIN rest : suspended'[i] \in Handler
  BY <1>5, ListBasics DEF SameFrames
<1>7. \A n : Frames(n)' = Occurrences(rest, HandlersOf(n))
  <2> SUFFICES ASSUME NEW n PROVE Frames(n)' = Occurrences(rest, HandlersOf(n))
    OBVIOUS
  <2>1. Places(suspended', HandlersOf(n)) = Places(rest, HandlersOf(n))
    BY <1>4, <1>5, <1>6 DEF SameFrames, Places, HandlersOf
  <2> QED
    BY <2>1 DEF Frames, Occurrences
<1>8. /\ Adding' = {k.object : k \in {k \in ToSet(rest) : k.of = "serviceAdded"}}
      /\ Removing' = {k.object : k \in {k \in ToSet(rest) : k.of = "serviceRemoved"}}
      /\ Certain' \subseteq {k.object : k \in {k \in ToSet(rest) : k.of = "serviceAdded" /\ ~k.stale}}
  <2>1. Adding' = {k.object : k \in {k \in ToSet(rest) : k.of = "serviceAdded"}}
    BY <1>5 DEF SameFrames, Adding, SuspendedFor, ToSet
  <2>2. Removing' = {k.object : k \in {k \in ToSet(rest) : k.of = "serviceRemoved"}}
    BY <1>5 DEF SameFrames, Removing, SuspendedFor, ToSet
  <2>3. Certain' \subseteq {k.object : k \in {k \in ToSet(rest) : k.of = "serviceAdded" /\ ~k.stale}}
    BY <1>5 DEF SameFrames, Certain, ToSet
  <2> QED
    BY <2>1, <2>2, <2>3
<1>9. ASSUME h.of = "serviceAdded"
      PROVE  /\ h.object \in Adding
             /\ Adding = Adding' \cup {h.object}
             /\ Removing' = Removing
             /\ ~h.stale => h.object \in Certain
  <2>1. h.object \in Adding /\ (~h.stale => h.object \in Certain)
    BY <1>1, <1>9 DEF Adding, Certain, SuspendedFor
  <2>2. Adding = Adding' \cup {h.object}
    BY <1>1, <1>8, <1>9 DEF Adding, SuspendedFor
  <2>3. {k \in ToSet(rest) : k.of = "serviceRemoved"}
            = {k \in ToSet(suspended) : k.of = "serviceRemoved"}
    BY <1>1, <1>9
  <2>4. Removing' = Removing
    BY <1>8, <2>3 DEF Removing, SuspendedFor
  <2> QED
    BY <2>1, <2>2, <2>4
<1>10. ASSUME h.of = "serviceRemoved"
       PROVE  /\ h.object \in Removing
              /\ Removing = Removing' \cup {h.object}
              /\ Adding' = Adding
  <2>1. h.object \in Removing
    BY <1>1, <1>10 DEF Removing, SuspendedFor
  <2>2. Removing = Removing' \cup {h.object}
    BY <1>1, <1>8, <1>10 DEF Removing, SuspendedFor
  <2>3. {k \in ToSet(rest) : k.of = "serviceAdded"}
            = {k \in ToSet(suspended) : k.of = "serviceAdded"}
    BY <1>1, <1>10
  <2>4. Adding' = Adding
    BY <1>8, <2>3 DEF Adding, SuspendedFor
  <2> QED
    BY <2>1, <2>2, <2>4
<1>11. Certain' \subseteq Certain
  BY <1>1, <1>8 DEF Certain
<1> QED
  BY <1>1, <1>3, <1>5, <1>7, <1>9, <1>10, <1>11 DEF h, SameFrames

-----------------------------------------------------------------------------
(***************************************************************************)
(* What steps do to the objects.                                           *)
(***************************************************************************)
One(n, o) == IF n = o.name THEN 1 ELSE 0

KeepsInstances == \A n : Instances(n)' = Instances(n)
AddsInstance(o) == \A n : Instances(n)' = Instances(n) + One(n, o)
TakesInstance(o) == \A n : Instances(n) = Instances(n)' + One(n, o)

\* Of this name no answer is awaited.
NonePending(name) == \A p \in Pending : p.name # name

ReportsNew(o) ==
    /\ o \in Object /\ o.id \notin Held
    /\ Reported' = Reported \cup {o} /\ Pending' = Pending /\ KeepsFrames
    /\ AddsInstance(o)

AwaitsNew(o) ==
    /\ o \in Object /\ o.id \notin Held
    /\ Reported' = Reported /\ Pending' = Pending \cup {o} /\ KeepsFrames
    /\ AddsInstance(o)

Keeps == Reported' = Reported /\ Pending' = Pending /\ KeepsFrames /\ KeepsInstances

DropsPending(o) ==
    /\ o \in Pending
    /\ Reported' = Reported /\ Pending' = Pending \ {o} /\ KeepsFrames /\ Certain' = {}
    /\ TakesInstance(o)

DropsReported(o) ==
    /\ o \in Reported /\ NonePending(o.name)
    /\ Reported' = Reported \ {o} /\ Pending' = Pending /\ KeepsFrames
    /\ TakesInstance(o)

RemovesLater(o) ==
    /\ o \in Reported /\ NonePending(o.name)
    /\ Reported' = Reported /\ Pending' = Pending
    /\ Adding' = Adding /\ Removing' = Removing \cup {o} /\ Certain' = Certain
    /\ KeepsInstances
    /\ \A n : Frames(n)' = Frames(n) + One(n, o)

Adds(o) ==
    /\ o \in Pending \ Adding
    /\ Reported' = Reported \cup {o} /\ Pending' = Pending \ {o}
    /\ KeepsFrames /\ Certain' = {}
    /\ KeepsInstances

AddsLater(o) ==
    /\ o \in Pending \ Adding
    /\ Reported' = Reported \cup {o} /\ Pending' = Pending
    /\ Adding' = Adding \cup {o} /\ Removing' = Removing /\ Certain' = Certain \cup {o}
    /\ AddsInstance(o)
    /\ \A n : Frames(n)' = Frames(n) + One(n, o)

ReturnsRemoved(o) ==
    /\ o \in Removing
    /\ Reported' = Reported \ {o} /\ Pending' = Pending
    /\ Removing = Removing' \cup {o} /\ Adding' = Adding /\ Certain' \subseteq Certain
    /\ o \in Reported => TakesInstance(o)
    /\ o \notin Reported => KeepsInstances
    /\ \A n : Frames(n) = Frames(n)' + One(n, o)

ReturnsAdded(o) ==
    /\ o \in Certain
    /\ Reported' = Reported /\ Pending' = Pending \ {o}
    /\ Adding = Adding' \cup {o} /\ Removing' = Removing /\ Certain' = {}
    /\ TakesInstance(o)
    /\ \A n : Frames(n) = Frames(n)' + One(n, o)

\* Instances depend on the lists alone.
LEMMA NewInstances ==
    ASSUME Lists, Lists', NEW n
    PROVE  /\ Instances(n) = Occurrences(m_services, Named(n)) + Occurrences(m_duringResolve, Named(n))
           /\ Instances(n)' = Occurrences(m_services', Named(n)) + Occurrences(m_duringResolve', Named(n))
           /\ Occurrences(m_services, Named(n)) \in Nat /\ Occurrences(m_services', Named(n)) \in Nat
           /\ Occurrences(m_duringResolve, Named(n)) \in Nat
           /\ Occurrences(m_duringResolve', Named(n)) \in Nat
<1>1. ASSUME NEW list \in Seq(Object)
      PROVE  {i \in DOMAIN list : list[i].name = n} = Places(list, Named(n))
  BY ListBasics DEF Places, Named
<1>2. /\ {i \in DOMAIN m_services' : m_services'[i].name = n} = Places(m_services', Named(n))
      /\ {i \in DOMAIN m_duringResolve' : m_duringResolve'[i].name = n}
             = Places(m_duringResolve', Named(n))
  BY <1>1 DEF Lists
<1>3. /\ Occurrences(m_services', Named(n)) \in Nat
      /\ Occurrences(m_duringResolve', Named(n)) \in Nat
  BY PlacesFinite DEF Lists
<1>4. Instances(n)' = Occurrences(m_services', Named(n)) + Occurrences(m_duringResolve', Named(n))
  BY <1>2 DEF Instances, Occurrences
<1> QED
  BY <1>3, <1>4, InstancesAre

LEMMA SameInstances ==
    ASSUME UNCHANGED <<m_services, m_duringResolve>>
    PROVE  KeepsInstances
  BY DEF KeepsInstances, Instances

\* A new object is appended to one of the lists.
LEMMA Appended ==
    ASSUME NEW list \in Seq(Object), IsInjective(list), NEW o \in Object, o \notin ToSet(list)
    PROVE  /\ Append(list, o) \in Seq(Object)
           /\ IsInjective(Append(list, o))
           /\ ToSet(Append(list, o)) = ToSet(list) \cup {o}
           /\ \A n : Occurrences(Append(list, o), Named(n)) = Occurrences(list, Named(n)) + One(n, o)
<1>1. \A n : o \in Named(n) <=> n = o.name
  BY DEF Named
<1>2. \A n : Occurrences(Append(list, o), Named(n)) = Occurrences(list, Named(n)) + One(n, o)
  BY <1>1, AppendOccurrences DEF One
<1> QED
  BY <1>2, AppendFacts, AppendElements

LEMMA FreshFacts ==
    ASSUME Lists, Ids \ InUse # {}, NEW name \in Names
    PROVE  LET o == [id |-> FreshId, name |-> name] IN
           /\ o \in Object /\ o.id = FreshId /\ o.name = name
           /\ o.id \notin Held /\ o \notin Reported \cup Pending
<1>1. FreshId \in Ids /\ FreshId \notin InUse
  BY DEF FreshId
<1>2. FreshId \notin Held
  BY <1>1 DEF InUse
<1> QED
  BY <1>1, <1>2, HeldIsAlive DEF Object, Alive

LEMMA ReportedNew ==
    ASSUME Lists, Ids \ InUse # {}, NEW name \in Names, ItemNewReported(name)
    PROVE  Lists' /\ \E o : o.name = name /\ ReportsNew(o)
<1> DEFINE o == [id |-> FreshId, name |-> name]
<1>1. /\ o \in Object /\ o.id \notin Held /\ o.name = name
      /\ o \notin ToSet(m_services)
  BY FreshFacts DEF Reported
<1>2. /\ m_services' = Append(m_services, o) /\ m_duringResolve' = m_duringResolve
      /\ UNCHANGED suspended
  BY DEF ItemNewReported
<1> HIDE DEF o
<1>3. /\ m_services' \in Seq(Object) /\ IsInjective(m_services')
      /\ ToSet(m_services') = ToSet(m_services) \cup {o}
      /\ \A n : Occurrences(m_services', Named(n)) = Occurrences(m_services, Named(n)) + One(n, o)
  BY <1>1, <1>2, Appended DEF Lists
<1>4. suspended' \in Seq(Handler) /\ KeepsFrames
  BY <1>2, SameSuspended
<1>5. Lists'
  BY <1>2, <1>3, <1>4 DEF Lists
<1>6. AddsInstance(o)
  BY <1>2, <1>3, <1>5, NewInstances DEF AddsInstance, One
<1>7. ReportsNew(o)
  BY <1>1, <1>2, <1>3, <1>4, <1>6 DEF ReportsNew, Reported, Pending
<1> QED
  BY <1>1, <1>5, <1>7

LEMMA AwaitedNew ==
    ASSUME Lists, Ids \ InUse # {}, NEW name \in Names, UNCHANGED m_services,
           m_duringResolve' = Append(m_duringResolve, [id |-> FreshId, name |-> name]),
           IteratorsDie
    PROVE  Lists' /\ \E o : o.name = name /\ o.id = FreshId /\ AwaitsNew(o)
<1> DEFINE o == [id |-> FreshId, name |-> name]
<1>1. /\ o \in Object /\ o.id \notin Held /\ o.name = name /\ o.id = FreshId
      /\ o \notin ToSet(m_duringResolve)
  BY FreshFacts DEF Pending
<1>2. m_duringResolve' = Append(m_duringResolve, o)
  OBVIOUS
<1> HIDE DEF o
<1>3. /\ m_duringResolve' \in Seq(Object) /\ IsInjective(m_duringResolve')
      /\ ToSet(m_duringResolve') = ToSet(m_duringResolve) \cup {o}
      /\ \A n : Occurrences(m_duringResolve', Named(n))
                   = Occurrences(m_duringResolve, Named(n)) + One(n, o)
  BY <1>1, <1>2, Appended DEF Lists
<1>4. suspended' \in Seq(Handler) /\ KeepsFrames
  BY DyingFrames
<1>5. Lists'
  BY <1>3, <1>4 DEF Lists
<1>6. AddsInstance(o)
  BY <1>3, <1>5, NewInstances DEF AddsInstance, One
<1>7. AwaitsNew(o)
  BY <1>1, <1>3, <1>4, <1>6 DEF AwaitsNew, Reported, Pending
<1> QED
  BY <1>1, <1>5, <1>7

LEMMA Kept ==
    ASSUME Lists, UNCHANGED <<m_services, m_duringResolve>>,
           IteratorsDie \/ UNCHANGED suspended
    PROVE  Lists' /\ Keeps
<1>1. suspended' \in Seq(Handler) /\ KeepsFrames
  BY DyingFrames, SameSuspended
<1> QED
  BY <1>1, SameInstances DEF Lists, Keeps, Reported, Pending

LEMMA PendingDropped ==
    ASSUME Lists, NEW name, name \in NamesIn(m_duringResolve), UNCHANGED m_services,
           m_duringResolve' = WithoutFirst(m_duringResolve, name), KeepsSuspended
    PROVE  Lists' /\ \E o : o.name = name /\ DropsPending(o)
<1>1. PICK o \in ToSet(m_duringResolve) :
        /\ o.name = name
        /\ m_duringResolve' \in Seq(Object) /\ IsInjective(m_duringResolve')
        /\ ToSet(m_duringResolve') = ToSet(m_duringResolve) \ {o}
        /\ \A n : Occurrences(m_duringResolve, Named(n))
                     = Occurrences(m_duringResolve', Named(n)) + IF n = name THEN 1 ELSE 0
  BY WithoutFirstFacts DEF Lists
<1>2. m_duringResolve' # m_duringResolve
  BY <1>1
<1>3. suspended' \in Seq(Handler) /\ KeepsFrames /\ Certain' = {}
  BY <1>2, KeptFrames
<1>4. Lists'
  BY <1>1, <1>3 DEF Lists
<1>5. TakesInstance(o)
  BY <1>1, <1>4, NewInstances DEF TakesInstance, One
<1>6. DropsPending(o)
  BY <1>1, <1>3, <1>5 DEF DropsPending, Reported, Pending
<1> QED
  BY <1>1, <1>4, <1>6

LEMMA NotNamed ==
    ASSUME NEW name, name \notin NamesIn(m_duringResolve)
    PROVE  NonePending(name)
  BY DEF NonePending, NamesIn, Pending, ToSet

LEMMA ReportedDropped ==
    ASSUME Lists, NEW name, name \in NamesIn(m_services), name \notin NamesIn(m_duringResolve),
           UNCHANGED m_duringResolve, m_services' = WithoutFirst(m_services, name), KeepsSuspended
    PROVE  Lists' /\ \E o : o.name = name /\ DropsReported(o)
<1>1. PICK o \in ToSet(m_services) :
        /\ o.name = name
        /\ m_services' \in Seq(Object) /\ IsInjective(m_services')
        /\ ToSet(m_services') = ToSet(m_services) \ {o}
        /\ \A n : Occurrences(m_services, Named(n))
                     = Occurrences(m_services', Named(n)) + IF n = name THEN 1 ELSE 0
  BY WithoutFirstFacts DEF Lists
<1>2. suspended' \in Seq(Handler) /\ KeepsFrames
  BY KeptFrames
<1>3. Lists'
  BY <1>1, <1>2 DEF Lists
<1>4. TakesInstance(o)
  BY <1>1, <1>3, NewInstances DEF TakesInstance, One
<1>5. DropsReported(o)
  BY <1>1, <1>2, <1>4, NotNamed DEF DropsReported, Reported, Pending
<1> QED
  BY <1>1, <1>3, <1>5

LEMMA RemovalSuspended ==
    ASSUME Lists, NEW name, name \in NamesIn(m_services), name \notin NamesIn(m_duringResolve),
           UNCHANGED <<m_services, m_duringResolve>>,
           Suspends("serviceRemoved", m_services[FirstOf(m_services, name)])
    PROVE  Lists' /\ \E o : o.name = name /\ RemovesLater(o)
<1>1. PICK o \in ToSet(m_services) : o.name = name /\ o = m_services[FirstOf(m_services, name)]
  BY WithoutFirstFacts DEF Lists
<1>2. o \in Object /\ o \in Reported
  BY <1>1, Elements DEF Reported
<1>3. /\ suspended' \in Seq(Handler)
      /\ Adding' = Adding /\ Removing' = Removing \cup {o} /\ Certain' = Certain
      /\ \A n : Frames(n)' = Frames(n) + IF n = o.name THEN 1 ELSE 0
  BY <1>1, <1>2, SuspendedFrames
<1>4. RemovesLater(o)
  BY <1>1, <1>2, <1>3, SameInstances, NotNamed DEF RemovesLater, One, Reported, Pending
<1> QED
  BY <1>1, <1>3, <1>4 DEF Lists

\* Taking one object off the list of those awaited, or of those reported.
LEMMA PendingWithout ==
    ASSUME Lists, ObjectsSound, NEW o \in Pending,
           m_duringResolve' = WithoutId(m_duringResolve, o.id)
    PROVE  /\ m_duringResolve' \in Seq(Object) /\ IsInjective(m_duringResolve')
           /\ Pending' = Pending \ {o}
           /\ m_duringResolve' # m_duringResolve
           /\ \A n : Occurrences(m_duringResolve, Named(n))
                        = Occurrences(m_duringResolve', Named(n)) + One(n, o)
<1>1. \A p \in ToSet(m_duringResolve) : p.id = o.id => p = o
  BY DEF ObjectsSound, Alive, Pending
<1>2. /\ m_duringResolve' \in Seq(Object) /\ IsInjective(m_duringResolve')
      /\ ToSet(m_duringResolve') = ToSet(m_duringResolve) \ {o}
      /\ \A n : Occurrences(m_duringResolve, Named(n))
                   = Occurrences(m_duringResolve', Named(n)) + IF n = o.name THEN 1 ELSE 0
  BY <1>1, WithoutIdFacts DEF Lists, Pending
<1>3. m_duringResolve' # m_duringResolve
  BY <1>2 DEF Pending
<1> QED
  BY <1>2, <1>3 DEF Pending, One

LEMMA AddedNow ==
    ASSUME Lists, ObjectsSound, NEW o \in Awaited, m_services' = Append(m_services, o),
           m_duringResolve' = WithoutId(m_duringResolve, o.id), KeepsSuspended
    PROVE  Lists' /\ Adds(o)
<1>1. o \in Pending \ Adding /\ o \in Object /\ o \notin ToSet(m_services)
  BY Elements DEF Awaited, ObjectsSound, Pending, Adding, Reported
<1>2. /\ m_services' \in Seq(Object) /\ IsInjective(m_services')
      /\ ToSet(m_services') = ToSet(m_services) \cup {o}
      /\ \A n : Occurrences(m_services', Named(n)) = Occurrences(m_services, Named(n)) + One(n, o)
  BY <1>1, Appended DEF Lists
<1>3. /\ m_duringResolve' \in Seq(Object) /\ IsInjective(m_duringResolve')
      /\ Pending' = Pending \ {o}
      /\ m_duringResolve' # m_duringResolve
      /\ \A n : Occurrences(m_duringResolve, Named(n))
                   = Occurrences(m_duringResolve', Named(n)) + One(n, o)
  BY <1>1, PendingWithout
<1>4. suspended' \in Seq(Handler) /\ KeepsFrames /\ Certain' = {}
  BY <1>3, KeptFrames
<1>5. Lists'
  BY <1>2, <1>3, <1>4 DEF Lists
<1>6. KeepsInstances
  BY <1>2, <1>3, <1>5, NewInstances DEF KeepsInstances, One
<1> QED
  BY <1>1, <1>2, <1>3, <1>4, <1>5, <1>6 DEF Adds, Reported

LEMMA AddedSuspended ==
    ASSUME Lists, ObjectsSound, NEW o \in Awaited, m_services' = Append(m_services, o),
           UNCHANGED m_duringResolve, Suspends("serviceAdded", o)
    PROVE  Lists' /\ AddsLater(o)
<1>1. o \in Pending \ Adding /\ o \in Object /\ o \notin ToSet(m_services)
  BY Elements DEF Awaited, ObjectsSound, Pending, Adding, Reported
<1>2. /\ m_services' \in Seq(Object) /\ IsInjective(m_services')
      /\ ToSet(m_services') = ToSet(m_services) \cup {o}
      /\ \A n : Occurrences(m_services', Named(n)) = Occurrences(m_services, Named(n)) + One(n, o)
  BY <1>1, Appended DEF Lists
<1>3. /\ suspended' \in Seq(Handler)
      /\ Adding' = Adding \cup {o} /\ Removing' = Removing /\ Certain' = Certain \cup {o}
      /\ \A n : Frames(n)' = Frames(n) + IF n = o.name THEN 1 ELSE 0
  BY <1>1, SuspendedFrames
<1>4. Lists'
  BY <1>2, <1>3 DEF Lists
<1>5. AddsInstance(o)
  BY <1>2, <1>4, NewInstances DEF AddsInstance, One
<1> QED
  BY <1>1, <1>2, <1>3, <1>4, <1>5 DEF AddsLater, Reported, Pending, One

LEMMA FailedDropped ==
    ASSUME Lists, ObjectsSound, NEW o \in Awaited, UNCHANGED m_services,
           m_duringResolve' = WithoutId(m_duringResolve, o.id), KeepsSuspended
    PROVE  Lists' /\ DropsPending(o)
<1>1. o \in Pending
  BY DEF Awaited, Pending
<1>2. /\ m_duringResolve' \in Seq(Object) /\ IsInjective(m_duringResolve')
      /\ Pending' = Pending \ {o}
      /\ m_duringResolve' # m_duringResolve
      /\ \A n : Occurrences(m_duringResolve, Named(n))
                   = Occurrences(m_duringResolve', Named(n)) + One(n, o)
  BY <1>1, PendingWithout
<1>3. suspended' \in Seq(Handler) /\ KeepsFrames /\ Certain' = {}
  BY <1>2, KeptFrames
<1>4. Lists'
  BY <1>2, <1>3 DEF Lists
<1>5. TakesInstance(o)
  BY <1>2, <1>4, NewInstances DEF TakesInstance, One
<1> QED
  BY <1>1, <1>2, <1>3, <1>4, <1>5 DEF DropsPending, Reported

LEMMA RemovalReturns ==
    ASSUME Lists, ObjectsSound, suspended # << >>, Last(suspended).of = "serviceRemoved",
           m_services' = WithoutId(m_services, Last(suspended).object.id),
           suspended' = Front(suspended), UNCHANGED m_duringResolve
    PROVE  Lists' /\ ReturnsRemoved(Last(suspended).object)
<1> DEFINE o == Last(suspended).object
<1>1. /\ suspended' \in Seq(Handler)
      /\ o \in Removing /\ Removing = Removing' \cup {o}
      /\ Adding' = Adding /\ Certain' \subseteq Certain
      /\ \A n : Frames(n) = Frames(n)' + One(n, o)
  BY ReturnedFrames DEF One
<1> HIDE DEF o
<1>2. \A p \in ToSet(m_services) : p.id = o.id => p = o
  BY <1>1 DEF ObjectsSound, Alive, Reported
<1>3. m_services' = WithoutId(m_services, o.id)
  BY DEF o
<1>4. CASE o \in Reported
  <2>1. /\ m_services' \in Seq(Object) /\ IsInjective(m_services')
        /\ ToSet(m_services') = ToSet(m_services) \ {o}
        /\ \A n : Occurrences(m_services, Named(n))
                     = Occurrences(m_services', Named(n)) + IF n = o.name THEN 1 ELSE 0
    BY <1>2, <1>3, <1>4, WithoutIdFacts DEF Lists, Reported
  <2>2. Lists'
    BY <1>1, <2>1 DEF Lists
  <2>3. TakesInstance(o)
    BY <2>1, <2>2, NewInstances DEF TakesInstance, One
  <2> QED
    BY <1>1, <1>4, <2>1, <2>2, <2>3 DEF ReturnsRemoved, Reported, Pending, o
<1>5. CASE o \notin Reported
  <2>1. {p \in ToSet(m_services) : p.id = o.id} = {}
    BY <1>2, <1>5 DEF Reported
  <2>2. m_services' = RemoveAll(m_services, {})
    BY <1>3, <2>1 DEF WithoutId
  <2>3. /\ m_services' \in Seq(Object) /\ IsInjective(m_services')
        /\ ToSet(m_services') = ToSet(m_services)
    <3>1. m_services \in Seq(Object) /\ IsInjective(m_services)
      BY DEF Lists
    <3> DEFINE none == {}
    <3>2. none = {} /\ ToSet(m_services) \ none = ToSet(m_services)
      OBVIOUS
    <3> HIDE DEF none
    <3>3. /\ RemoveAll(m_services, none) \in Seq(Object)
          /\ ToSet(RemoveAll(m_services, none)) = ToSet(m_services) \ none
          /\ IsInjective(RemoveAll(m_services, none))
      BY <3>1, RemoveAllElements
    <3> QED
      BY <2>2, <3>2, <3>3
  <2>4. \A X : Occurrences(m_services', X) = Occurrences(m_services, X)
    <3>1. \A X : Occurrences(m_services', X) = Occurrences(m_services, X \ {})
      BY <2>2, RemoveAllFacts DEF Lists
    <3>2. \A X : X \ {} = X
      OBVIOUS
    <3> QED
      BY <3>1, <3>2
  <2>5. Lists'
    BY <1>1, <2>3 DEF Lists
  <2>6. KeepsInstances
    BY <2>4, <2>5, NewInstances DEF KeepsInstances
  <2>7. Reported' = Reported \ {o} /\ Pending' = Pending
    BY <1>5, <2>3 DEF Reported, Pending
  <2> QED
    BY <1>1, <1>5, <2>5, <2>6, <2>7 DEF ReturnsRemoved, o
<1> QED
  BY <1>4, <1>5

LEMMA AdditionReturns ==
    ASSUME Lists, ObjectsSound, suspended # << >>, Last(suspended).of = "serviceAdded",
           ~Last(suspended).stale, UNCHANGED m_services,
           m_duringResolve' = WithoutId(m_duringResolve, Last(suspended).object.id),
           suspended' = Dead(Front(suspended))
    PROVE  Lists' /\ ReturnsAdded(Last(suspended).object)
<1> DEFINE o == Last(suspended).object
           rest == Front(suspended)
<1>1. rest \in Seq(Handler)
  BY FrontFacts DEF Lists
<1>2. SameFrames(suspended', rest) /\ \A h \in ToSet(suspended') : h.stale = TRUE
  BY <1>1, DeadFrames
<1>3. Certain' = {}
  BY <1>2 DEF Certain
<1>4. /\ suspended' \in Seq(Handler)
      /\ o \in Certain /\ Adding = Adding' \cup {o} /\ Removing' = Removing
      /\ \A n : Frames(n) = Frames(n)' + One(n, o)
  BY <1>2, ReturnedFrames DEF One
<1>5. m_duringResolve' = WithoutId(m_duringResolve, o.id)
  OBVIOUS
<1> HIDE DEF o
<1>6. o \in Pending
  BY <1>4 DEF ObjectsSound
<1>7. /\ m_duringResolve' \in Seq(Object) /\ IsInjective(m_duringResolve')
      /\ Pending' = Pending \ {o}
      /\ \A n : Occurrences(m_duringResolve, Named(n))
                   = Occurrences(m_duringResolve', Named(n)) + One(n, o)
  BY <1>5, <1>6, PendingWithout
<1>8. Lists'
  BY <1>4, <1>7 DEF Lists
<1>9. TakesInstance(o)
  BY <1>7, <1>8, NewInstances DEF TakesInstance, One
<1> QED
  BY <1>3, <1>4, <1>7, <1>8, <1>9 DEF ReturnsAdded, Reported, o

-----------------------------------------------------------------------------
(***************************************************************************)
(* The objects stay sound.  Each resolver must still belong to one of them.*)
(***************************************************************************)
Owned == \A id \in resolvers : \E o \in Alive : o.id = id

Effect(o) ==
    \/ ReportsNew(o) \/ AwaitsNew(o) \/ Keeps \/ DropsPending(o) \/ DropsReported(o)
    \/ RemovesLater(o) \/ Adds(o) \/ AddsLater(o) \/ ReturnsRemoved(o) \/ ReturnsAdded(o)

LEMMA ObjectsStaySound ==
    ASSUME Lists, ObjectsSound, NEW o, Effect(o), Owned'
    PROVE  ObjectsSound'
<1>1. \A p \in Alive : p.id \in Held
  BY HeldIsAlive
<1>2. /\ Reported \subseteq Alive /\ Pending \subseteq Alive
      /\ Adding \subseteq Alive /\ Removing \subseteq Alive
      /\ Alive' = Reported' \cup Pending' \cup Adding' \cup Removing'
  BY DEF Alive
<1>3. \A p, q \in Alive' : p.id = q.id => p = q
  <2>1. Alive' \subseteq Alive \/ (o.id \notin Held /\ Alive' \subseteq Alive \cup {o})
    BY <1>2 DEF Effect, ReportsNew, AwaitsNew, Keeps, DropsPending, DropsReported,
                RemovesLater, Adds, AddsLater, ReturnsRemoved, ReturnsAdded, KeepsFrames
  <2> QED
    BY <1>1, <2>1 DEF ObjectsSound
<1>4. Reported' \cap Pending' \subseteq Adding'
  BY <1>1, <1>2 DEF ObjectsSound, Effect, ReportsNew, AwaitsNew, Keeps, DropsPending, DropsReported,
         RemovesLater, Adds, AddsLater, ReturnsRemoved, ReturnsAdded, KeepsFrames
<1>5. Certain' \subseteq Reported' \cap Pending'
  BY DEF ObjectsSound, Effect, ReportsNew, AwaitsNew, Keeps, DropsPending, DropsReported, NonePending,
         RemovesLater, Adds, AddsLater, ReturnsRemoved, ReturnsAdded, KeepsFrames
<1>6. Removing' \cap Pending' = {}
  BY <1>1, <1>2 DEF ObjectsSound, Effect, ReportsNew, AwaitsNew, Keeps, DropsPending, DropsReported,
         NonePending, RemovesLater, Adds, AddsLater, ReturnsRemoved, ReturnsAdded, KeepsFrames
<1> QED
  BY <1>3, <1>4, <1>5, <1>6 DEF ObjectsSound, Owned

-----------------------------------------------------------------------------
(***************************************************************************)
(* The books.                                                              *)
(***************************************************************************)
KeepsHeard == \A n : Heard(n)' = Heard(n)
HearsOf(name) == \A n : Heard(n)' = Heard(n) + IF n = name THEN 1 ELSE 0
HearsNoMoreOf(name) == \A n : Heard(n) = Heard(n)' + IF n = name THEN 1 ELSE 0

LEMMA HeardOnce ==
    ASSUME Types, NEW a \in Announcements \ heard, heard' = heard \cup {a}
    PROVE  HearsOf(NameOf[a])
<1> SUFFICES ASSUME NEW n
             PROVE  Heard(n)' = Heard(n) + IF n = NameOf[a] THEN 1 ELSE 0
  BY DEF HearsOf
<1> DEFINE Before == {b \in heard : NameOf[b] = n}
           After == {b \in heard' : NameOf[b] = n}
<1>1. IsFiniteSet(Before)
  BY AnnouncementsAssumption, FS_Subset DEF Types
<1>2. After = IF n = NameOf[a] THEN Before \cup {a} ELSE Before
  OBVIOUS
<1>3. a \notin Before
  OBVIOUS
<1>4. Cardinality(Before) \in Nat
  BY <1>1, FS_CardinalityType
<1> HIDE DEF Before, After
<1>5. Cardinality(After) = Cardinality(Before) + IF n = NameOf[a] THEN 1 ELSE 0
  <2>1. CASE n = NameOf[a]
    <3>1. Cardinality(Before \cup {a}) = Cardinality(Before) + 1
      BY <1>1, <1>3, FS_AddElement
    <3> QED
      BY <1>2, <2>1, <3>1
  <2>2. CASE n # NameOf[a]
    BY <1>2, <1>4, <2>2
  <2> QED
    BY <2>1, <2>2
<1> QED
  BY <1>5 DEF Heard, Before, After

LEMMA HeardNoMore ==
    ASSUME Types, NEW a \in heard, heard' = heard \ {a}
    PROVE  HearsNoMoreOf(NameOf[a])
<1> SUFFICES ASSUME NEW n
             PROVE  Heard(n) = Heard(n)' + IF n = NameOf[a] THEN 1 ELSE 0
  BY DEF HearsNoMoreOf
<1> DEFINE Before == {b \in heard : NameOf[b] = n}
           After == {b \in heard' : NameOf[b] = n}
<1>1. IsFiniteSet(Before)
  BY AnnouncementsAssumption, FS_Subset DEF Types
<1>2. Before = IF n = NameOf[a] THEN After \cup {a} ELSE After
  OBVIOUS
<1>3. a \notin After
  OBVIOUS
<1>4. IsFiniteSet(After)
  BY <1>1, <1>2, FS_Subset
<1>5. Cardinality(After) \in Nat
  BY <1>4, FS_CardinalityType
<1> HIDE DEF Before, After
<1>6. Cardinality(Before) = Cardinality(After) + IF n = NameOf[a] THEN 1 ELSE 0
  <2>1. CASE n = NameOf[a]
    <3>1. Cardinality(After \cup {a}) = Cardinality(After) + 1
      BY <1>3, <1>4, FS_AddElement
    <3> QED
      BY <1>2, <2>1, <3>1
  <2>2. CASE n # NameOf[a]
    BY <1>2, <1>5, <2>2
  <2> QED
    BY <2>1, <2>2
<1> QED
  BY <1>6 DEF Heard, Before, After

LEMMA MeetsFacts ==
    ASSUME Lists, NEW name, Meets(name)
    PROVE  /\ disturbed \subseteq disturbed' /\ disturbed' \subseteq disturbed \cup {name}
           /\ name \notin disturbed' => Frames(name) = 0
<1>1. Frames(name) = 0 <=> \A i \in DOMAIN suspended : suspended[i].object.name # name
  BY NoFrames
<1> QED
  BY <1>1 DEF Meets

Unmet == \A n : Frames(n) = 0 => \A q \in Adding \cup Removing : q.name # n

LEMMA NoneSuspended == Lists => Unmet
  BY NoFrames DEF Unmet

\* What a step may do to an object, the books and the services disturbed.
BooksOf(o, name) ==
    \/ (ReportsNew(o) \/ AwaitsNew(o)) /\ HearsOf(name) /\ Meets(name)
    \/ Keeps /\ HearsOf(name) /\ disturbed' = disturbed \cup {name}
    \/ (DropsPending(o) \/ DropsReported(o) \/ RemovesLater(o)) /\ HearsNoMoreOf(name) /\ Meets(name)
    \/ Keeps /\ HearsNoMoreOf(name) /\ Meets(name) /\ Instances(name) = 0
    \/ Keeps /\ KeepsHeard /\ disturbed' = disturbed
    \/ (Adds(o) \/ AddsLater(o)) /\ KeepsHeard /\ Meets(name)
    \/ DropsPending(o) /\ KeepsHeard /\ disturbed' = disturbed \cup {name}
    \/ (ReturnsRemoved(o) \/ ReturnsAdded(o)) /\ KeepsHeard /\ disturbed' = disturbed

Books(o) == BooksOf(o, o.name)

LEMMA NumbersAre ==
    Types => \A n : Instances(n) \in Nat /\ Heard(n) \in Nat /\ Frames(n) \in Nat
  BY InstancesAre, HeardNumber DEF Types

LEMMA Numbers ==
    ASSUME Types, Types'
    PROVE  \A n : /\ Instances(n) \in Nat /\ Heard(n) \in Nat /\ Frames(n) \in Nat
                 /\ Instances(n)' \in Nat /\ Heard(n)' \in Nat /\ Frames(n)' \in Nat
<1>1. \A n : Instances(n) \in Nat /\ Heard(n) \in Nat /\ Frames(n) \in Nat
  BY NumbersAre
<1>2. (Types => \A n : Instances(n) \in Nat /\ Heard(n) \in Nat /\ Frames(n) \in Nat)'
  BY NumbersAre, PTL
<1> QED
  BY <1>1, <1>2

LEMMA AccountsKept ==
    ASSUME Types, Types', RemovedAreListed, Accounts, NEW o, Books(o)
    PROVE  Accounts' /\ RemovedAreListed'
<1> DEFINE name == o.name
<1>1. Lists /\ Lists'
  BY DEF Types
<1>2. /\ disturbed \subseteq disturbed'
      /\ Meets(name) => (name \notin disturbed' => Frames(name) = 0)
  BY <1>1, MeetsFacts DEF Books, BooksOf
<1> SUFFICES /\ \A n \in Names \ disturbed' : Frames(n)' <= 1 /\ Instances(n)' = Heard(n)' + Frames(n)'
             /\ RemovedAreListed'
  BY DEF Accounts
<1>3. ASSUME NEW n \in Names \ disturbed'
      PROVE  Frames(n)' <= 1 /\ Instances(n)' = Heard(n)' + Frames(n)'
  <2>1. Frames(n) <= 1 /\ Instances(n) = Heard(n) + Frames(n)
    BY <1>2 DEF Accounts
  <2>2. /\ Instances(n) \in Nat /\ Heard(n) \in Nat /\ Frames(n) \in Nat
        /\ Instances(n)' \in Nat /\ Heard(n)' \in Nat /\ Frames(n)' \in Nat
    BY Numbers
  <2>3. CASE (ReportsNew(o) \/ AwaitsNew(o)) /\ HearsOf(name) /\ Meets(name)
    BY <1>2, <2>1, <2>2, <2>3 DEF ReportsNew, AwaitsNew, AddsInstance, One, HearsOf, KeepsFrames
  <2>4. CASE Keeps /\ HearsOf(name) /\ disturbed' = disturbed \cup {name}
    BY <2>1, <2>2, <2>4 DEF Keeps, KeepsInstances, KeepsFrames, HearsOf
  <2>5. CASE (DropsPending(o) \/ DropsReported(o)) /\ HearsNoMoreOf(name) /\ Meets(name)
    BY <1>2, <2>1, <2>2, <2>5 DEF DropsPending, DropsReported, TakesInstance, One, HearsNoMoreOf,
                                  KeepsFrames
  <2>6. CASE RemovesLater(o) /\ HearsNoMoreOf(name) /\ Meets(name)
    BY <1>2, <2>1, <2>2, <2>6 DEF RemovesLater, KeepsInstances, One, HearsNoMoreOf
  <2>7. CASE Keeps /\ HearsNoMoreOf(name) /\ Meets(name) /\ Instances(name) = 0
    BY <1>2, <2>1, <2>2, <2>7 DEF Keeps, KeepsInstances, KeepsFrames, HearsNoMoreOf
  <2>8. CASE Keeps /\ KeepsHeard /\ disturbed' = disturbed
    BY <2>1, <2>8 DEF Keeps, KeepsInstances, KeepsFrames, KeepsHeard
  <2>9. CASE (Adds(o) \/ AddsLater(o)) /\ KeepsHeard /\ Meets(name)
    BY <1>2, <2>1, <2>2, <2>9 DEF Adds, AddsLater, KeepsInstances, AddsInstance, One, KeepsFrames,
                                  KeepsHeard
  <2>10. CASE DropsPending(o) /\ KeepsHeard /\ disturbed' = disturbed \cup {name}
    BY <2>1, <2>2, <2>10 DEF DropsPending, TakesInstance, One, KeepsFrames, KeepsHeard
  <2>11. CASE (ReturnsRemoved(o) \/ ReturnsAdded(o)) /\ KeepsHeard /\ disturbed' = disturbed
    <3>1. ASSUME n = name, ReturnsRemoved(o) PROVE TakesInstance(o)
      BY <2>11, <3>1 DEF ReturnsRemoved, RemovedAreListed
    <3>2. ASSUME n # name, ReturnsRemoved(o) PROVE Instances(n)' = Instances(n)
      BY <2>2, <3>2 DEF ReturnsRemoved, TakesInstance, KeepsInstances, One
    <3> QED
      BY <2>1, <2>2, <2>11, <3>1, <3>2 DEF ReturnsRemoved, ReturnsAdded, TakesInstance, One, KeepsHeard
  <2> QED
    BY <2>3, <2>4, <2>5, <2>6, <2>7, <2>8, <2>9, <2>10, <2>11 DEF Books, BooksOf
<1>4. ASSUME NEW p \in Removing', p.name \notin disturbed'
      PROVE  p \in Reported'
  <2>1. p \in Removing => p \in Reported
    BY <1>2, <1>4 DEF RemovedAreListed
  <2>2. \A n : Frames(n) = 0 => p.name # n \/ p \notin Removing
    BY <1>1, NoFrames
  <2>3. \A n : Frames(n)' = 0 => p.name # n
    <3>1. (Lists => Unmet)'
      BY NoneSuspended, PTL
    <3> QED
      BY <1>1, <1>4, <3>1 DEF Unmet
  <2>4. CASE DropsReported(o) /\ Meets(name)
    BY <1>2, <1>4, <2>1, <2>2, <2>4 DEF DropsReported, KeepsFrames
  <2>5. CASE ReturnsRemoved(o) /\ disturbed' = disturbed
    <3>1. p \in Removing
      BY <1>4, <2>5 DEF ReturnsRemoved
    <3>2. CASE p = o
      <4> name \in Names
        BY <1>1, <3>1, <3>2, Elements
      <4>1. Frames(name) <= 1 /\ Frames(name) = Frames(name)' + 1
        BY <1>4, <2>5, <3>2 DEF Accounts, ReturnsRemoved, One
      <4>2. Frames(name)' = 0
        BY <4>1, Numbers
      <4> QED
        BY <2>3, <3>2, <4>2
    <3> QED
      BY <2>1, <2>5, <3>1, <3>2 DEF ReturnsRemoved
  <2>6. CASE ReportsNew(o) \/ AwaitsNew(o) \/ Keeps \/ DropsPending(o) \/ Adds(o) \/ AddsLater(o)
    BY <1>4, <2>1, <2>6 DEF ReportsNew, AwaitsNew, Keeps, DropsPending, Adds, AddsLater, KeepsFrames
  <2>7. CASE RemovesLater(o) \/ ReturnsAdded(o)
    BY <1>4, <2>1, <2>7 DEF RemovesLater, ReturnsAdded
  <2> QED
    BY <2>4, <2>5, <2>6, <2>7 DEF Books, BooksOf
<1> QED
  BY <1>3, <1>4 DEF RemovedAreListed

LEMMA ObjectsKept ==
    ASSUME Types, Types', ObjectsSound, RemovedAreListed, Accounts, NEW o, Books(o), Owned'
    PROVE  ObjectsSound' /\ RemovedAreListed' /\ Accounts'
<1>1. Effect(o)
  BY DEF Books, BooksOf, Effect
<1>2. ObjectsSound'
  BY <1>1, ObjectsStaySound DEF Types
<1> QED
  BY <1>2, AccountsKept

-----------------------------------------------------------------------------
(***************************************************************************)
(* The bus.                                                                *)
(***************************************************************************)
Answered(id) == \E i \in DOMAIN bus : bus[i].kind \in {"Found", "Failure"} /\ bus[i].id = id

LEMMA AnswerComingIs ==
    AnswerComing <=> (served => \A p \in Pending \ Adding : p.id \in resolvers \/ Answered(p.id))
  BY DEF AnswerComing, Awaited, Pending, Adding, Answered

LEMMA Signals ==
    ASSUME NEW sig \in Signal
    PROVE  /\ sig.kind \in {"ItemNew", "ItemRemove", "AllForNow", "Found", "Failure"}
           /\ sig.kind \in {"ItemNew", "ItemRemove"} => sig.item \in Announcements
           /\ sig.kind \in {"Found", "Failure"} => sig.id \in Ids
           /\ Gains[sig] = IF sig.kind = "ItemNew" THEN {sig.item} ELSE {}
           /\ Loses[sig] = IF sig.kind = "ItemRemove" THEN {sig.item} ELSE {}
  BY DEF Signal, Gains, Loses

LEMMA HeadOfBus ==
    ASSUME Types, BusLeads, bus # << >>
    PROVE  /\ Head(bus) \in Signal /\ Tail(bus) \in Seq(Signal)
           /\ Gains[Head(bus)] \cap heard = {} /\ Loses[Head(bus)] \subseteq heard
<1>1. bus \in Seq(Signal)
  BY DEF Types
<1>2. PICK announced : Connects(bus, Gains, Loses, heard, announced)
  BY DEF BusLeads
<1> QED
  BY <1>1, <1>2, HeadTailFacts, TailConnects

LEMMA BusDelivered ==
    ASSUME Types, BusLeads, bus # << >>, bus' = Tail(bus),
           heard' = (heard \ Loses[Head(bus)]) \cup Gains[Head(bus)], UNCHANGED <<served, known>>
    PROVE  BusLeads'
<1>1. bus \in Seq(Signal)
  BY DEF Types
<1>2. PICK announced : /\ Connects(bus, Gains, Loses, heard, announced)
                       /\ served => announced = known
  BY DEF BusLeads
<1>3. Connects(Tail(bus), Gains, Loses, heard', announced)
  BY <1>1, <1>2, TailConnects
<1> QED
  BY <1>2, <1>3 DEF BusLeads

LEMMA BusSent ==
    ASSUME Types, BusLeads, NEW sig \in Signal, Gains[sig] \cap known = {}, Loses[sig] \subseteq known,
           served \/ Gains[sig] \cup Loses[sig] = {},
           known' = (known \ Loses[sig]) \cup Gains[sig], bus' = Append(bus, sig),
           UNCHANGED <<served, heard>>
    PROVE  BusLeads' /\ bus' \in Seq(Signal)
<1>1. bus \in Seq(Signal)
  BY DEF Types
<1>2. PICK announced : /\ Connects(bus, Gains, Loses, heard, announced)
                       /\ served => announced = known
  BY DEF BusLeads
<1>3. Gains[sig] \cap announced = {} /\ Loses[sig] \subseteq announced
  BY <1>2
<1>4. Connects(Append(bus, sig), Gains, Loses, heard, (announced \ Loses[sig]) \cup Gains[sig])
  BY <1>1, <1>2, <1>3, AppendConnects
<1>5. served' => (announced \ Loses[sig]) \cup Gains[sig] = known'
  BY <1>2
<1>6. Connects(bus', Gains, Loses, heard', (announced \ Loses[sig]) \cup Gains[sig])
  BY <1>4
<1>7. BusLeads'
  BY <1>5, <1>6 DEF BusLeads
<1> QED
  BY <1>1, <1>7, AppendFacts

LEMMA AnswersOnBus ==
    ASSUME Types, NEW id, Answered(id)
    PROVE  /\ \A sig \in Signal : bus' = Append(bus, sig) => Answered(id)'
           /\ bus # << >> /\ bus' = Tail(bus)
                 => Answered(id)' \/ (Head(bus).kind \in {"Found", "Failure"} /\ Head(bus).id = id)
<1>1. bus \in Seq(Signal)
  BY DEF Types
<1>2. PICK i \in DOMAIN bus : bus[i].kind \in {"Found", "Failure"} /\ bus[i].id = id
  BY DEF Answered
<1>3. ASSUME NEW sig \in Signal, bus' = Append(bus, sig)
      PROVE  Answered(id)'
  <2>1. i \in DOMAIN bus' /\ bus'[i] = bus[i]
    BY <1>1, <1>3, AppendFacts
  <2> QED
    BY <1>2, <2>1 DEF Answered
<1>4. ASSUME bus # << >>, bus' = Tail(bus), i # 1
      PROVE  Answered(id)'
  <2>1. DOMAIN bus = 1..Len(bus) /\ Len(bus) \in Nat
    BY <1>1, ListBasics
  <2>2. /\ DOMAIN Tail(bus) = 1..(Len(bus) - 1)
        /\ \A j \in DOMAIN Tail(bus) : Tail(bus)[j] = bus[j + 1]
    BY <1>1, <1>4, HeadTailFacts
  <2>3. i - 1 \in DOMAIN Tail(bus) /\ (i - 1) + 1 = i
    BY <1>4, <2>1, <2>2
  <2>4. Tail(bus)[i - 1] = bus[i]
    BY <2>2, <2>3
  <2> QED
    BY <1>2, <1>4, <2>3, <2>4 DEF Answered
<1>5. ASSUME bus # << >>, i = 1
      PROVE  Head(bus) = bus[i]
  BY <1>1, <1>5, HeadTailFacts
<1> QED
  BY <1>2, <1>3, <1>4, <1>5

\* Who awaits an answer after a step has done so before or is new.
LEMMA AwaitedAfter ==
    ASSUME NEW o, Effect(o), NEW p \in Pending' \ Adding'
    PROVE  p \in Pending \ Adding \/ (p = o /\ AwaitsNew(o))
  BY DEF Effect, ReportsNew, AwaitsNew, Keeps, DropsPending, DropsReported,
         RemovesLater, Adds, AddsLater, ReturnsRemoved, ReturnsAdded, KeepsFrames

-----------------------------------------------------------------------------
(***************************************************************************)
(* Signals are delivered.                                                  *)
(***************************************************************************)
Delivering ==
    /\ bus # << >> /\ bus' = Tail(bus)
    /\ UNCHANGED <<m_autoResolve, m_running, crashed, served, known, allForNow>>

LEMMA RunsWhenDelivering ==
    ASSUME Idle, Delivering
    PROVE  m_running /\ m_running' /\ m_browserFinished
  BY DEF Idle, Delivering

LEMMA DeliveredTypes ==
    ASSUME Types, Delivering, Lists', timer' \in BOOLEAN, m_browserFinished' \in BOOLEAN,
           heard' \subseteq Announcements, batch' \in BOOLEAN, disturbed' \subseteq Names
    PROVE  Types'
<1>1. bus' \in Seq(Signal)
  BY HeadTailFacts DEF Types, Delivering
<1> QED
  BY <1>1 DEF Types, Delivering

LEMMA MeetsTypes ==
    ASSUME Types, NEW name \in Names, Meets(name)
    PROVE  disturbed' \subseteq Names
  BY MeetsFacts DEF Types

LEMMA ItemNewEffect ==
    ASSUME Types, NEW a, NEW name \in Names, name = NameOf[a], ItemNew(a)
    PROVE  /\ Lists'
           /\ \E o : /\ o.name = name
                    /\ \/ ReportsNew(o) /\ Meets(name) /\ UNCHANGED resolvers
                       \/ AwaitsNew(o) /\ Meets(name) /\ resolvers' = resolvers \cup {o.id}
                       \/ Keeps /\ disturbed' = disturbed \cup {name} /\ UNCHANGED resolvers
           /\ batch' = TRUE \/ batch' = ~(m_duringResolve = << >> /\ m_browserFinished')
<1>1. Lists /\ Ids \ InUse # {}
  BY DEF Types, ItemNew
<1>2. CASE ItemNewReported(name)
  <2>1. Lists' /\ \E o : o.name = name /\ ReportsNew(o)
    BY <1>1, <1>2, ReportedNew
  <2> QED
    BY <1>2, <2>1 DEF ItemNewReported, InBatch
<1>3. CASE /\ UNCHANGED m_services
           /\ IteratorsDie
           /\ m_duringResolve' = Append(m_duringResolve, [id |-> FreshId, name |-> name])
           /\ resolvers' = resolvers \cup {FreshId}
           /\ InBatch
           /\ Meets(name)
  <2>1. Lists' /\ \E o : o.name = name /\ o.id = FreshId /\ AwaitsNew(o)
    BY <1>1, <1>3, AwaitedNew
  <2> QED
    BY <1>3, <2>1 DEF InBatch
<1>4. CASE /\ UNCHANGED <<m_services, resolvers>>
           /\ IteratorsDie
           /\ ResolverRefused(name)
           /\ disturbed' = disturbed \cup {name}
  <2>1. Lists' /\ Keeps
    BY <1>1, <1>4, Kept DEF ResolverRefused
  <2>2. [name |-> name].name = name
    OBVIOUS
  <2> QED
    BY <1>4, <2>1, <2>2 DEF ResolverRefused, QueryFinished
<1>5. ItemNewReported(name) \/ ItemNewResolving(name)
  BY DEF ItemNew
<1> QED
  BY <1>2, <1>3, <1>4, <1>5 DEF ItemNewResolving

LEMMA ItemNewInv ==
    ASSUME IInv, Delivering, Head(bus).kind = "ItemNew", ItemNew(Head(bus).item)
    PROVE  IInv'
<1> DEFINE a == Head(bus).item
           name == NameOf[a]
<1>1. /\ Types /\ Lists /\ ObjectsSound /\ RemovedAreListed /\ Accounts /\ BusLeads /\ Idle
      /\ AnswerComing
  BY DEF IInv, Types
<1>2. /\ Head(bus) \in Signal
      /\ a \in Announcements \ heard
      /\ Gains[Head(bus)] = {a} /\ Loses[Head(bus)] = {}
  BY <1>1, HeadOfBus, Signals DEF Delivering
<1>3. name \in Names
  BY <1>2 DEF Names
<1>4. heard' = heard \cup {a} /\ timer' = TRUE /\ m_browserFinished' = m_browserFinished
  BY DEF ItemNew
<1>5. HearsOf(name)
  BY <1>1, <1>2, <1>4, HeardOnce
<1> HIDE DEF name
<1>6. /\ Lists'
      /\ batch' = TRUE \/ batch' = ~(m_duringResolve = << >> /\ m_browserFinished')
  BY <1>1, <1>3, ItemNewEffect DEF name
<1>7. PICK o : /\ o.name = name
               /\ \/ ReportsNew(o) /\ Meets(name) /\ UNCHANGED resolvers
                  \/ AwaitsNew(o) /\ Meets(name) /\ resolvers' = resolvers \cup {o.id}
                  \/ Keeps /\ disturbed' = disturbed \cup {name} /\ UNCHANGED resolvers
  BY <1>1, <1>3, ItemNewEffect DEF name
<1>8. Books(o)
  BY <1>5, <1>7 DEF Books, BooksOf
<1>9. Owned'
  <2>1. Alive \subseteq Alive'
    BY <1>7 DEF Alive, ReportsNew, AwaitsNew, Keeps, KeepsFrames
  <2>2. AwaitsNew(o) => o \in Alive'
    BY DEF Alive, AwaitsNew
  <2> QED
    BY <1>1, <1>7, <2>1, <2>2 DEF Owned, ObjectsSound
<1>10. Types'
  <2>1. disturbed' \subseteq Names
    BY <1>1, <1>3, <1>7, MeetsTypes DEF Types
  <2>2. batch' \in BOOLEAN
    BY <1>6
  <2>3. m_browserFinished \in BOOLEAN /\ heard' \subseteq Announcements
    BY <1>1, <1>2, <1>4 DEF Types
  <2> QED
    BY <1>1, <1>4, <1>6, <2>1, <2>2, <2>3, DeliveredTypes
<1>11. ObjectsSound' /\ RemovedAreListed' /\ Accounts'
  BY <1>1, <1>8, <1>9, <1>10, ObjectsKept
<1>12. BusLeads'
  BY <1>1, <1>2, <1>4, BusDelivered DEF Delivering
<1>13. Idle'
  BY <1>1, <1>4, RunsWhenDelivering DEF Idle
<1>14. ASSUME served', NEW p \in Pending' \ Adding'
       PROVE  p.id \in resolvers' \/ Answered(p.id)'
  <2>1. p \in Pending \ Adding \/ p.id \in resolvers'
    BY <1>7 DEF ReportsNew, AwaitsNew, Keeps, KeepsFrames
  <2>2. p \in Pending \ Adding => p.id \in resolvers \/ Answered(p.id)
    BY <1>1, <1>14, AnswerComingIs DEF Delivering
  <2>3. Answered(p.id) => Answered(p.id)'
    BY <1>1, AnswersOnBus DEF Delivering
  <2> QED
    BY <1>7, <2>1, <2>2, <2>3
<1>15. AnswerComing'
  BY <1>14 DEF AnswerComing, Awaited, Pending, Adding, Answered
<1>16. BatchHasAnEnd'
  BY <1>4 DEF BatchHasAnEnd
<1> QED
  BY <1>10, <1>11, <1>12, <1>13, <1>15, <1>16 DEF IInv

HeldAreAlive == \A id : id \in Held <=> \E o \in Alive : o.id = id

LEMMA AliveAreHeld == Lists => HeldAreAlive
  BY HeldIsAlive DEF HeldAreAlive

LEMMA DroppedResolvers ==
    ASSUME Lists', DropsResolvers
    PROVE  /\ Owned'
           /\ \A p \in Pending' : p.id \in resolvers => p.id \in resolvers'
<1>1. (Lists => HeldAreAlive)'
  BY AliveAreHeld, PTL
<1>2. \A id : id \in Held' <=> \E o \in Alive' : o.id = id
  BY <1>1 DEF HeldAreAlive
<1> QED
  BY <1>2 DEF DropsResolvers, Owned, Alive

LEMMA ItemRemoveEffect ==
    ASSUME Types, NEW a, NEW name \in Names, name = NameOf[a], ItemRemove(a)
    PROVE  /\ Lists'
           /\ \E o : /\ o.name = name
                    /\ \/ DropsPending(o) \/ DropsReported(o) \/ RemovesLater(o)
                       \/ Keeps /\ Instances(name) = 0
<1>1. Lists
  BY DEF Types
<1>2. CASE /\ name \in NamesIn(m_duringResolve)
           /\ m_duringResolve' = WithoutFirst(m_duringResolve, name)
           /\ UNCHANGED m_services
           /\ KeepsSuspended
  BY <1>1, <1>2, PendingDropped
<1>3. CASE /\ name \notin NamesIn(m_duringResolve) /\ name \in NamesIn(m_services)
           /\ ServiceRemoved(name)
  <2>1. CASE m_services' = WithoutFirst(m_services, name) /\ KeepsSuspended
    BY <1>1, <1>3, <2>1, ReportedDropped DEF ServiceRemoved
  <2>2. CASE UNCHANGED m_services
               /\ Suspends("serviceRemoved", m_services[FirstOf(m_services, name)])
    BY <1>1, <1>3, <2>2, RemovalSuspended DEF ServiceRemoved
  <2> QED
    BY <1>3, <2>1, <2>2 DEF ServiceRemoved
<1>4. CASE /\ name \notin NamesIn(m_duringResolve) /\ name \notin NamesIn(m_services)
           /\ UNCHANGED <<m_services, m_duringResolve, suspended>>
  <2>1. Lists' /\ Keeps
    BY <1>1, <1>4, Kept
  <2>2. /\ {i \in DOMAIN m_services : m_services[i].name = name} = {}
        /\ {i \in DOMAIN m_duringResolve : m_duringResolve[i].name = name} = {}
    BY <1>4 DEF NamesIn
  <2>3. Instances(name) = 0
    <3>1. Cardinality({}) = 0
      BY FS_EmptySet
    <3>2. Instances(name) = Cardinality({}) + Cardinality({})
      BY <2>2 DEF Instances
    <3> QED
      BY <3>1, <3>2
  <2>4. [name |-> name].name = name
    OBVIOUS
  <2> QED
    BY <2>1, <2>3, <2>4
<1> QED
  BY <1>2, <1>3, <1>4 DEF ItemRemove

LEMMA ItemRemoveInv ==
    ASSUME IInv, Delivering, Head(bus).kind = "ItemRemove", ItemRemove(Head(bus).item)
    PROVE  IInv'
<1> DEFINE a == Head(bus).item
           name == NameOf[a]
<1>1. /\ Types /\ Lists /\ ObjectsSound /\ RemovedAreListed /\ Accounts /\ BusLeads /\ Idle
      /\ AnswerComing
  BY DEF IInv, Types
<1>2. /\ Head(bus) \in Signal
      /\ a \in heard /\ a \in Announcements
      /\ Gains[Head(bus)] = {} /\ Loses[Head(bus)] = {a}
  BY <1>1, HeadOfBus, Signals DEF Delivering
<1>3. name \in Names
  BY <1>2 DEF Names
<1>4. /\ heard' = heard \ {a} /\ timer' = TRUE /\ m_browserFinished' = m_browserFinished
      /\ Meets(name) /\ DropsResolvers
  BY DEF ItemRemove
<1>5. HearsNoMoreOf(name)
  BY <1>1, <1>2, <1>4, HeardNoMore
<1>6. batch' = TRUE
  BY DEF ItemRemove, ServiceRemoved, InBatch
<1> HIDE DEF name
<1>7. Lists'
  BY <1>1, <1>3, ItemRemoveEffect DEF name
<1>8. PICK o : /\ o.name = name
               /\ \/ DropsPending(o) \/ DropsReported(o) \/ RemovesLater(o)
                  \/ Keeps /\ Instances(name) = 0
  BY <1>1, <1>3, ItemRemoveEffect DEF name
<1>9. Books(o)
  BY <1>4, <1>5, <1>8 DEF Books, BooksOf
<1>10. Owned' /\ \A p \in Pending' : p.id \in resolvers => p.id \in resolvers'
  BY <1>4, <1>7, DroppedResolvers
<1>11. Types'
  <2>1. disturbed' \subseteq Names
    BY <1>1, <1>3, <1>4, MeetsTypes
  <2>2. m_browserFinished \in BOOLEAN /\ heard' \subseteq Announcements
    BY <1>1, <1>4 DEF Types
  <2> QED
    BY <1>1, <1>4, <1>6, <1>7, <2>1, <2>2, DeliveredTypes
<1>12. ObjectsSound' /\ RemovedAreListed' /\ Accounts'
  BY <1>1, <1>9, <1>10, <1>11, ObjectsKept
<1>13. BusLeads'
  BY <1>1, <1>2, <1>4, BusDelivered DEF Delivering
<1>14. Idle'
  BY <1>1, <1>4, RunsWhenDelivering DEF Idle
<1>15. ASSUME served', NEW p \in Pending' \ Adding'
       PROVE  p.id \in resolvers' \/ Answered(p.id)'
  <2>1. p \in Pending \ Adding
    BY <1>8 DEF DropsPending, DropsReported, RemovesLater, Keeps, KeepsFrames
  <2>2. p.id \in resolvers \/ Answered(p.id)
    BY <1>1, <1>15, <2>1, AnswerComingIs DEF Delivering
  <2>3. Answered(p.id) => Answered(p.id)'
    BY <1>1, AnswersOnBus DEF Delivering
  <2> QED
    BY <1>10, <2>2, <2>3
<1>16. AnswerComing'
  BY <1>15 DEF AnswerComing, Awaited, Pending, Adding, Answered
<1>17. BatchHasAnEnd'
  BY <1>4 DEF BatchHasAnEnd
<1> QED
  BY <1>11, <1>12, <1>13, <1>14, <1>16, <1>17 DEF IInv

\* AllForNow and the timer.
LEMMA FinishedEffect ==
    ASSUME Types, BrowserFinished
    PROVE  /\ Lists' /\ Keeps /\ Owned' = Owned /\ KeepsHeard
           /\ batch' = ~(m_duringResolve' = << >>)
           /\ timer' = FALSE /\ m_browserFinished' = TRUE
           /\ UNCHANGED <<m_duringResolve, resolvers, heard, disturbed>>
<1>1. Lists' /\ Keeps
  BY Kept DEF Types, BrowserFinished
<1>2. Owned' = Owned /\ KeepsHeard
  BY DEF BrowserFinished, Owned, Alive, Reported, Pending, Adding, Removing, SuspendedFor,
         KeepsHeard, Heard
<1> QED
  BY <1>1, <1>2 DEF BrowserFinished, QueryFinished

LEMMA AllForNowInv ==
    ASSUME IInv, Delivering, Head(bus).kind = "AllForNow", BrowserFinished
    PROVE  IInv'
<1>1. /\ Types /\ Lists /\ ObjectsSound /\ RemovedAreListed /\ Accounts /\ BusLeads /\ Idle
      /\ AnswerComing
  BY DEF IInv, Types
<1>2. Head(bus) \in Signal /\ Gains[Head(bus)] = {} /\ Loses[Head(bus)] = {}
  BY <1>1, HeadOfBus, Signals DEF Delivering
<1>3. /\ Lists' /\ Keeps /\ KeepsHeard
      /\ batch' = ~(m_duringResolve' = << >>)
      /\ timer' = FALSE /\ m_browserFinished' = TRUE
      /\ UNCHANGED <<m_duringResolve, resolvers, heard, disturbed>>
  BY <1>1, FinishedEffect
<1>4. Owned'
  BY <1>1, FinishedEffect DEF Owned, ObjectsSound
<1>5. PICK o : o = 0
  OBVIOUS
<1>6. Books(o)
  BY <1>3 DEF Books, BooksOf
<1>7. Types'
  <2>1. batch' \in BOOLEAN
    BY <1>3
  <2>2. heard' \subseteq Announcements /\ disturbed' \subseteq Names
    BY <1>1, <1>3 DEF Types
  <2> QED
    BY <1>1, <1>3, <2>1, <2>2, DeliveredTypes
<1>8. ObjectsSound' /\ RemovedAreListed' /\ Accounts'
  BY <1>1, <1>4, <1>6, <1>7, ObjectsKept
<1>9. BusLeads'
  BY <1>1, <1>2, <1>3, BusDelivered DEF Delivering
<1>10. Idle'
  BY <1>1, <1>3, RunsWhenDelivering DEF Idle
<1>11. ASSUME served', NEW p \in Pending' \ Adding'
       PROVE  p.id \in resolvers' \/ Answered(p.id)'
  <2>1. p.id \in resolvers \/ Answered(p.id)
    BY <1>1, <1>3, <1>11, AnswerComingIs DEF Delivering, Keeps, KeepsFrames
  <2>2. Answered(p.id) => Answered(p.id)'
    BY <1>1, AnswersOnBus DEF Delivering
  <2> QED
    BY <1>3, <2>1, <2>2
<1>12. AnswerComing'
  BY <1>11 DEF AnswerComing, Awaited, Pending, Adding, Answered
<1>13. BatchHasAnEnd'
  BY <1>3 DEF BatchHasAnEnd
<1> QED
  BY <1>7, <1>8, <1>9, <1>10, <1>12, <1>13 DEF IInv

\* The answer to an object: it is added or goes, or nobody waits for it.
LEMMA ResolvedEffect ==
    ASSUME Types, ObjectsSound, BatchHasAnEnd, m_browserFinished, NEW id, NEW success \in BOOLEAN,
           Resolved(id, success)
    PROVE  /\ Lists' /\ batch' \in BOOLEAN
           /\ \E o : \/ o.id = id /\ success /\ (Adds(o) \/ AddsLater(o)) /\ Meets(o.name)
                     \/ o.id = id /\ ~success /\ DropsPending(o) /\ disturbed' = disturbed \cup {o.name}
                     \/ Keeps /\ disturbed' = disturbed
           /\ \A p \in Pending' \ Adding' : p.id # id
           /\ BatchHasAnEnd'
<1>1. Lists /\ UNCHANGED <<timer, m_browserFinished>>
  BY DEF Types, Resolved
<1>2. ASSUME NEW o \in Awaited, o.id = id, success, ServiceAdded(o)
      PROVE  /\ Lists' /\ (Adds(o) \/ AddsLater(o)) /\ Meets(o.name) /\ batch' \in BOOLEAN
             /\ BatchHasAnEnd'
  <2>1. CASE /\ m_duringResolve' = WithoutId(m_duringResolve, o.id)
             /\ QueryFinished(m_duringResolve')
             /\ KeepsSuspended
    <3>1. Lists' /\ Adds(o)
      BY <1>1, <1>2, <2>1, AddedNow DEF ServiceAdded
    <3>2. batch' = ~(m_duringResolve' = << >>)
      BY <1>1, <2>1 DEF QueryFinished
    <3> QED
      BY <1>2, <3>1, <3>2 DEF ServiceAdded, BatchHasAnEnd
  <2>2. CASE /\ UNCHANGED m_duringResolve
             /\ InBatch
             /\ Suspends("serviceAdded", o)
    <3>1. Lists' /\ AddsLater(o)
      BY <1>1, <1>2, <2>2, AddedSuspended DEF ServiceAdded
    <3>2. m_duringResolve' # << >>
      BY <1>1, <2>2, ListBasics DEF Awaited, ToSet, Lists
    <3> QED
      BY <1>2, <2>2, <3>1, <3>2 DEF ServiceAdded, InBatch, BatchHasAnEnd
  <2> QED
    BY <1>2, <2>1, <2>2 DEF ServiceAdded
<1>3. ASSUME NEW o \in Awaited, o.id = id, ResolveFailed(o)
      PROVE  /\ Lists' /\ DropsPending(o) /\ disturbed' = disturbed \cup {o.name}
             /\ batch' \in BOOLEAN /\ BatchHasAnEnd'
  <2>1. Lists' /\ DropsPending(o)
    BY <1>1, <1>3, FailedDropped DEF ResolveFailed
  <2>2. batch' = ~(m_duringResolve' = << >>)
    BY <1>1, <1>3 DEF ResolveFailed, QueryFinished
  <2> QED
    BY <1>3, <2>1, <2>2 DEF ResolveFailed, BatchHasAnEnd
<1>4. CASE /\ \A o \in Awaited : o.id # id
           /\ UNCHANGED <<m_services, m_duringResolve, suspended, batch, disturbed>>
  <2>1. Lists' /\ Keeps
    BY <1>1, <1>4, Kept
  <2>2. Pending' \ Adding' = Awaited
    BY <2>1 DEF Keeps, KeepsFrames, Awaited, Pending, Adding
  <2> QED
    BY <1>1, <1>4, <2>1, <2>2 DEF Types, BatchHasAnEnd
<1>5. ASSUME NEW o \in Awaited, o.id = id, Adds(o) \/ AddsLater(o) \/ DropsPending(o)
      PROVE  \A p \in Pending' \ Adding' : p.id # id
  BY <1>5 DEF Adds, AddsLater, DropsPending, KeepsFrames, ObjectsSound, Alive
<1>6. CASE \E o \in Awaited : o.id = id /\ IF success THEN ServiceAdded(o) ELSE ResolveFailed(o)
  <2>1. PICK o \in Awaited : o.id = id /\ IF success THEN ServiceAdded(o) ELSE ResolveFailed(o)
    BY <1>6
  <2>2. CASE success
    <3>1. /\ Lists' /\ (Adds(o) \/ AddsLater(o)) /\ Meets(o.name) /\ batch' \in BOOLEAN
          /\ BatchHasAnEnd'
      BY <1>2, <2>1, <2>2
    <3>2. \A p \in Pending' \ Adding' : p.id # id
      BY <1>5, <2>1, <3>1
    <3>3. \E q : \/ q.id = id /\ success /\ (Adds(q) \/ AddsLater(q)) /\ Meets(q.name)
                 \/ q.id = id /\ ~success /\ DropsPending(q) /\ disturbed' = disturbed \cup {q.name}
                 \/ Keeps /\ disturbed' = disturbed
      BY <2>1, <2>2, <3>1
    <3> QED
      BY <3>1, <3>2, <3>3
  <2>3. CASE ~success
    <3>1. /\ Lists' /\ DropsPending(o) /\ disturbed' = disturbed \cup {o.name}
          /\ batch' \in BOOLEAN /\ BatchHasAnEnd'
      BY <1>3, <2>1, <2>3
    <3>2. \A p \in Pending' \ Adding' : p.id # id
      BY <1>5, <2>1, <3>1
    <3>3. \E q : \/ q.id = id /\ success /\ (Adds(q) \/ AddsLater(q)) /\ Meets(q.name)
                 \/ q.id = id /\ ~success /\ DropsPending(q) /\ disturbed' = disturbed \cup {q.name}
                 \/ Keeps /\ disturbed' = disturbed
      BY <2>1, <2>3, <3>1
    <3> QED
      BY <3>1, <3>2, <3>3
  <2> QED
    BY <2>2, <2>3
<1> QED
  BY <1>4, <1>6 DEF Resolved

LEMMA ResolvedInv ==
    ASSUME IInv, Delivering, NEW success \in BOOLEAN,
           Head(bus).kind = IF success THEN "Found" ELSE "Failure", Resolved(Head(bus).id, success)
    PROVE  IInv'
<1> DEFINE id == Head(bus).id
<1>1. /\ Types /\ Lists /\ ObjectsSound /\ RemovedAreListed /\ Accounts /\ BusLeads /\ Idle
      /\ AnswerComing /\ BatchHasAnEnd
  BY DEF IInv, Types
<1>2. Head(bus) \in Signal /\ Gains[Head(bus)] = {} /\ Loses[Head(bus)] = {}
  BY <1>1, HeadOfBus, Signals DEF Delivering
<1>3. m_running /\ m_running' /\ m_browserFinished
  BY <1>1, RunsWhenDelivering
<1>4. /\ UNCHANGED <<timer, m_browserFinished, heard>>
      /\ resolvers' = IF success THEN resolvers ELSE resolvers \ {id}
  BY DEF Resolved
<1>5. KeepsHeard
  BY <1>4 DEF KeepsHeard, Heard
<1>6. /\ Lists' /\ batch' \in BOOLEAN
      /\ \A p \in Pending' \ Adding' : p.id # id
      /\ BatchHasAnEnd'
  BY <1>1, <1>3, ResolvedEffect
<1>7. PICK o : \/ o.id = id /\ success /\ (Adds(o) \/ AddsLater(o)) /\ Meets(o.name)
               \/ o.id = id /\ ~success /\ DropsPending(o) /\ disturbed' = disturbed \cup {o.name}
               \/ Keeps /\ disturbed' = disturbed
  BY <1>1, <1>3, ResolvedEffect
<1>8. Books(o)
  BY <1>5, <1>7 DEF Books, BooksOf
<1>9. Owned'
  <2>1. ASSUME NEW i \in resolvers'
        PROVE  \E p \in Alive' : p.id = i
    <3>1. PICK p \in Alive : p.id = i
      BY <1>1, <1>4, <2>1 DEF ObjectsSound
    <3>2. CASE Adds(o) \/ AddsLater(o) \/ Keeps
      BY <3>1, <3>2 DEF Alive, Adds, AddsLater, Keeps, KeepsFrames
    <3>3. CASE DropsPending(o) /\ ~success /\ o.id = id
      <4>1. p # o
        BY <1>4, <2>1, <3>1, <3>3
      <4> QED
        BY <3>1, <3>3, <4>1 DEF Alive, DropsPending, KeepsFrames
    <3> QED
      BY <1>7, <3>2, <3>3
  <2> QED
    BY <2>1 DEF Owned
<1>10. Types'
  <2>1. disturbed' \subseteq Names
    <3>1. Adds(o) \/ AddsLater(o) \/ DropsPending(o) => o.name \in Names
      BY <1>1, Elements DEF Adds, AddsLater, DropsPending
    <3> QED
      BY <1>1, <1>7, <3>1, MeetsTypes DEF Types
  <2>2. timer' \in BOOLEAN /\ m_browserFinished' \in BOOLEAN /\ heard' \subseteq Announcements
    BY <1>1, <1>4 DEF Types
  <2> QED
    BY <1>1, <1>6, <2>1, <2>2, DeliveredTypes
<1>11. ObjectsSound' /\ RemovedAreListed' /\ Accounts'
  BY <1>1, <1>8, <1>9, <1>10, ObjectsKept
<1>12. BusLeads'
  BY <1>1, <1>2, <1>4, BusDelivered DEF Delivering
<1>13. Idle'
  BY <1>3, <1>4 DEF Idle
<1>14. ASSUME served', NEW p \in Pending' \ Adding'
       PROVE  p.id \in resolvers' \/ Answered(p.id)'
  <2>1. p \in Pending \ Adding /\ p.id # id
    BY <1>6, <1>7, <1>14 DEF Adds, AddsLater, DropsPending, Keeps, KeepsFrames
  <2>2. p.id \in resolvers \/ Answered(p.id)
    BY <1>1, <1>14, <2>1, AnswerComingIs DEF Delivering
  <2>3. Answered(p.id) => Answered(p.id)'
    BY <1>1, <2>1, AnswersOnBus DEF Delivering
  <2> QED
    BY <1>4, <2>1, <2>2, <2>3
<1>15. AnswerComing'
  BY <1>14 DEF AnswerComing, Awaited, Pending, Adding, Answered
<1> QED
  BY <1>6, <1>10, <1>11, <1>12, <1>13, <1>15 DEF IInv

LEMMA DeliverInv ==
    ASSUME IInv, Deliver
    PROVE  IInv'
<1>1. Delivering
  BY DEF Deliver, Delivering
<1>2. CASE Head(bus).kind = "ItemNew" /\ ItemNew(Head(bus).item)
  BY <1>1, <1>2, ItemNewInv
<1>3. CASE Head(bus).kind = "ItemRemove" /\ ItemRemove(Head(bus).item)
  BY <1>1, <1>3, ItemRemoveInv
<1>4. CASE Head(bus).kind = "AllForNow" /\ BrowserFinished
  BY <1>1, <1>4, AllForNowInv
<1>5. CASE Head(bus).kind = "Found" /\ Resolved(Head(bus).id, TRUE)
  BY <1>1, <1>5, ResolvedInv
<1>6. CASE Head(bus).kind = "Failure" /\ Resolved(Head(bus).id, FALSE)
  BY <1>1, <1>6, ResolvedInv
<1> QED
  BY <1>2, <1>3, <1>4, <1>5, <1>6 DEF Deliver

-----------------------------------------------------------------------------
(***************************************************************************)
(* The timer, and slots that return.                                       *)
(***************************************************************************)
LEMMA BusKept ==
    ASSUME BusLeads, UNCHANGED <<bus, heard, served, known>>
    PROVE  BusLeads'
  BY DEF BusLeads

LEMMA TimerInv ==
    ASSUME IInv, TimerFires
    PROVE  IInv'
<1>1. /\ Types /\ Lists /\ ObjectsSound /\ RemovedAreListed /\ Accounts /\ BusLeads /\ Idle
      /\ AnswerComing
  BY DEF IInv, Types
<1>2. BrowserFinished /\ UNCHANGED <<m_autoResolve, m_running, crashed, bus, served, known, allForNow>>
  BY DEF TimerFires
<1>3. /\ Lists' /\ Keeps /\ KeepsHeard
      /\ batch' = ~(m_duringResolve' = << >>)
      /\ timer' = FALSE /\ m_browserFinished' = TRUE
      /\ UNCHANGED <<m_duringResolve, resolvers, heard, disturbed>>
  BY <1>1, <1>2, FinishedEffect
<1>4. Owned'
  BY <1>1, <1>2, FinishedEffect DEF Owned, ObjectsSound
<1>5. PICK o : o = 0
  OBVIOUS
<1>6. Books(o)
  BY <1>3 DEF Books, BooksOf
<1>7. Types'
  <2>1. batch' \in BOOLEAN
    BY <1>3
  <2> QED
    BY <1>1, <1>2, <1>3, <2>1 DEF Types
<1>8. ObjectsSound' /\ RemovedAreListed' /\ Accounts'
  BY <1>1, <1>4, <1>6, <1>7, ObjectsKept
<1>9. BusLeads'
  BY <1>1, <1>2, <1>3, BusKept
<1>10. Idle'
  BY <1>1, <1>2, <1>3 DEF Idle, BrowserFinished
<1>11. ASSUME served', NEW p \in Pending' \ Adding'
       PROVE  p.id \in resolvers' \/ Answered(p.id)'
  <2>1. p.id \in resolvers \/ Answered(p.id)
    BY <1>1, <1>2, <1>3, <1>11, AnswerComingIs DEF Keeps, KeepsFrames
  <2> QED
    BY <1>2, <1>3, <2>1 DEF Answered
<1>12. AnswerComing'
  BY <1>11 DEF AnswerComing, Awaited, Pending, Adding, Answered
<1>13. BatchHasAnEnd'
  BY <1>3 DEF BatchHasAnEnd
<1> QED
  BY <1>7, <1>8, <1>9, <1>10, <1>12, <1>13 DEF IInv

\* What is left for both kinds of handler once their effect is known.
LEMMA ReturnedInv ==
    ASSUME IInv, suspended # << >>, Lists', NEW o, ReturnsRemoved(o) \/ ReturnsAdded(o),
           UNCHANGED <<flags, bus, served, known, allForNow, heard, disturbed, crashed>>,
           batch' \in BOOLEAN, BatchHasAnEnd', Owned',
           \A p \in Pending' : p.id \in resolvers => p.id \in resolvers'
    PROVE  IInv'
<1>1. /\ Types /\ Lists /\ ObjectsSound /\ RemovedAreListed /\ Accounts /\ BusLeads /\ Idle
      /\ AnswerComing
  BY DEF IInv, Types
<1>2. KeepsHeard
  BY DEF KeepsHeard, Heard
<1>3. Books(o)
  BY <1>2 DEF Books, BooksOf
<1>4. Types'
  BY <1>1 DEF Types, flags
<1>5. ObjectsSound' /\ RemovedAreListed' /\ Accounts'
  BY <1>1, <1>3, <1>4, ObjectsKept
<1>6. BusLeads'
  BY <1>1, BusKept
<1>7. Idle'
  BY <1>1 DEF Idle, flags
<1>8. ASSUME served', NEW p \in Pending' \ Adding'
      PROVE  p.id \in resolvers' \/ Answered(p.id)'
  <2>1. p \in Pending \ Adding
    BY <1>8 DEF ReturnsRemoved, ReturnsAdded
  <2>2. p.id \in resolvers \/ Answered(p.id)
    BY <1>1, <1>8, <2>1, AnswerComingIs
  <2> QED
    BY <1>8, <2>2 DEF Answered
<1>9. AnswerComing'
  BY <1>8 DEF AnswerComing, Awaited, Pending, Adding, Answered
<1> QED
  BY <1>4, <1>5, <1>6, <1>7, <1>9 DEF IInv

LEMMA ResumeInv ==
    ASSUME IInv, Resume
    PROVE  IInv'
<1> DEFINE handler == Last(suspended)
           o == handler.object
<1>1. /\ Types /\ Lists /\ ObjectsSound /\ Idle /\ BatchHasAnEnd
  BY DEF IInv, Types
<1>2. /\ suspended # << >>
      /\ UNCHANGED <<flags, bus, served, known, allForNow, heard, disturbed>>
  BY DEF Resume
<1>3. m_running /\ m_running' /\ m_browserFinished /\ m_browserFinished'
  BY <1>1, <1>2 DEF Idle, flags
<1>4. handler \in Handler
  BY <1>1, <1>2, FrontFacts DEF Lists
<1>5. CASE /\ handler.of = "serviceRemoved"
           /\ m_services' = WithoutId(m_services, o.id)
           /\ suspended' = Front(suspended)
           /\ UNCHANGED <<m_duringResolve, crashed, batch>>
           /\ DropsResolvers
  <2>1. Lists' /\ ReturnsRemoved(o)
    BY <1>1, <1>2, <1>5, RemovalReturns
  <2>2. Owned' /\ \A p \in Pending' : p.id \in resolvers => p.id \in resolvers'
    BY <1>5, <2>1, DroppedResolvers
  <2>3. batch' \in BOOLEAN /\ BatchHasAnEnd'
    BY <1>1, <1>2, <1>5 DEF Types, BatchHasAnEnd, flags
  <2> QED
    BY <1>2, <1>5, <2>1, <2>2, <2>3, ReturnedInv
<1>6. CASE /\ handler.of = "serviceAdded" /\ ~handler.stale
           /\ m_duringResolve' = WithoutId(m_duringResolve, o.id)
           /\ suspended' = Dead(Front(suspended))
           /\ QueryFinished(m_duringResolve')
           /\ UNCHANGED <<m_services, resolvers, crashed>>
  <2>1. Lists' /\ ReturnsAdded(o)
    BY <1>1, <1>2, <1>6, AdditionReturns
  <2>2. o \in Reported
    BY <1>1, <2>1 DEF ReturnsAdded, ObjectsSound
  <2>3. Alive' = Alive
    BY <2>1, <2>2 DEF ReturnsAdded, Alive
  <2>4. Owned' /\ \A p \in Pending' : p.id \in resolvers => p.id \in resolvers'
    BY <1>1, <1>6, <2>3 DEF Owned, ObjectsSound
  <2>5. batch' = ~(m_duringResolve' = << >>)
    BY <1>3, <1>6 DEF QueryFinished
  <2>6. batch' \in BOOLEAN /\ BatchHasAnEnd'
    BY <2>5 DEF BatchHasAnEnd
  <2> QED
    BY <1>2, <1>6, <2>1, <2>4, <2>6, ReturnedInv
<1>7. CASE /\ crashed' = TRUE
           /\ UNCHANGED <<m_services, m_duringResolve, suspended, resolvers, batch>>
  <2>1. Types'
    BY <1>1, <1>2, <1>7 DEF Types, Lists, flags
  <2>2. ObjectsSound' /\ RemovedAreListed' /\ Accounts'
    BY <1>1, <1>2, <1>7
       DEF IInv, ObjectsSound, Alive, Reported, Pending, Adding, Removing, Certain,
           SuspendedFor, RemovedAreListed, Accounts, Frames, Instances, Heard
  <2>3. BusLeads'
    BY <1>2, BusKept DEF IInv
  <2>4. Idle' /\ BatchHasAnEnd'
    BY <1>1, <1>2, <1>7 DEF Idle, BatchHasAnEnd, flags
  <2>5. AnswerComing'
    BY <1>2, <1>7 DEF IInv, AnswerComing, Awaited, SuspendedFor
  <2> QED
    BY <2>1, <2>2, <2>3, <2>4, <2>5 DEF IInv
<1> QED
  BY <1>4, <1>5, <1>6, <1>7 DEF Resume, Handler

-----------------------------------------------------------------------------
(***************************************************************************)
(* The daemon and the application.                                         *)
(***************************************************************************)
LEMMA ObjectUnchanged ==
    ASSUME UNCHANGED <<object, heard, batch, disturbed>>,
           ObjectsSound, RemovedAreListed, Accounts, BatchHasAnEnd, Lists
    PROVE  /\ ObjectsSound' <=> Owned'
           /\ RemovedAreListed' /\ Accounts' /\ BatchHasAnEnd' /\ Lists'
           /\ Alive' = Alive /\ Pending' = Pending /\ Adding' = Adding
  BY DEF object, flags, Lists, ObjectsSound, Owned, Alive, Reported, Pending, Adding, Removing, Certain,
         SuspendedFor, RemovedAreListed, Accounts, Frames, Instances, Heard, BatchHasAnEnd

LEMMA SentInv ==
    ASSUME IInv, NEW sig \in Signal, Send(sig), m_running,
           Gains[sig] \cap known = {}, Loses[sig] \subseteq known,
           served \/ Gains[sig] \cup Loses[sig] = {},
           known' = (known \ Loses[sig]) \cup Gains[sig], known' \subseteq Announcements,
           allForNow' \in BOOLEAN
    PROVE  IInv'
<1>1. /\ Types /\ Lists /\ ObjectsSound /\ RemovedAreListed /\ Accounts /\ BusLeads /\ Idle
      /\ AnswerComing /\ BatchHasAnEnd
  BY DEF IInv, Types
<1>2. /\ bus' = Append(bus, sig)
      /\ UNCHANGED <<object, served, resolvers, heard, batch, disturbed>>
  BY DEF Send
<1>3. /\ ObjectsSound' <=> Owned'
      /\ RemovedAreListed' /\ Accounts' /\ BatchHasAnEnd' /\ Lists'
      /\ Alive' = Alive /\ Pending' = Pending /\ Adding' = Adding
  BY <1>1, <1>2, ObjectUnchanged
<1>4. ObjectsSound'
  BY <1>1, <1>2, <1>3 DEF Owned, ObjectsSound
<1>5. BusLeads' /\ bus' \in Seq(Signal)
  BY <1>1, <1>2, BusSent
<1>6. Types'
  BY <1>1, <1>2, <1>3, <1>5 DEF Types, object, flags
<1>7. Idle'
  BY <1>1, <1>2 DEF Idle, object, flags
<1>8. ASSUME served', NEW p \in Pending' \ Adding'
      PROVE  p.id \in resolvers' \/ Answered(p.id)'
  <2>1. p.id \in resolvers \/ Answered(p.id)
    BY <1>1, <1>2, <1>3, <1>8, AnswerComingIs
  <2> QED
    BY <1>1, <1>2, <2>1, AnswersOnBus
<1>9. AnswerComing'
  BY <1>8 DEF AnswerComing, Awaited, Pending, Adding, Answered
<1> QED
  BY <1>3, <1>4, <1>5, <1>6, <1>7, <1>9 DEF IInv

LEMMA DaemonInv ==
    ASSUME IInv,
           \/ \E a \in Announcements : Announces(a) \/ Withdraws(a)
           \/ SaysAllForNow
           \/ \E id \in Ids, kind \in {"Found", "Failure"} : Answers(id, kind)
    PROVE  IInv'
<1>1. Types /\ Lists /\ ObjectsSound /\ Idle
  BY DEF IInv, Types
<1>2. served => m_running
  BY <1>1 DEF Idle
<1>3. known \subseteq Announcements /\ allForNow \in BOOLEAN
  BY <1>1 DEF Types
<1>4. ASSUME NEW a \in Announcements, Announces(a)
      PROVE  IInv'
  <2> DEFINE sig == [kind |-> "ItemNew", item |-> a]
  <2>1. sig \in Signal /\ sig.kind = "ItemNew" /\ sig.item = a
    BY DEF Signal
  <2>2. Gains[sig] = {a} /\ Loses[sig] = {}
    BY <2>1, Signals
  <2>3. /\ served /\ a \notin known /\ known' = known \cup {a} /\ Send(sig) /\ UNCHANGED allForNow
    BY <1>4 DEF Announces
  <2> HIDE DEF sig
  <2>4. known' = (known \ Loses[sig]) \cup Gains[sig] /\ Gains[sig] \cap known = {}
        /\ Loses[sig] \subseteq known /\ known' \subseteq Announcements /\ allForNow' \in BOOLEAN
    BY <1>3, <2>2, <2>3
  <2> QED
    BY <1>2, <2>1, <2>3, <2>4, SentInv
<1>5. ASSUME NEW a \in Announcements, Withdraws(a)
      PROVE  IInv'
  <2> DEFINE sig == [kind |-> "ItemRemove", item |-> a]
  <2>1. sig \in Signal /\ sig.kind = "ItemRemove" /\ sig.item = a
    BY DEF Signal
  <2>2. Gains[sig] = {} /\ Loses[sig] = {a}
    BY <2>1, Signals
  <2>3. /\ served /\ a \in known /\ known' = known \ {a} /\ Send(sig) /\ UNCHANGED allForNow
    BY <1>5 DEF Withdraws
  <2> HIDE DEF sig
  <2>4. known' = (known \ Loses[sig]) \cup Gains[sig] /\ Gains[sig] \cap known = {}
        /\ Loses[sig] \subseteq known /\ known' \subseteq Announcements /\ allForNow' \in BOOLEAN
    BY <1>3, <2>2, <2>3
  <2> QED
    BY <1>2, <2>1, <2>3, <2>4, SentInv
<1>6. ASSUME NEW sig \in Signal, Send(sig), m_running, Gains[sig] = {}, Loses[sig] = {},
             UNCHANGED known, allForNow' \in BOOLEAN
      PROVE  IInv'
  <2>1. known' = (known \ Loses[sig]) \cup Gains[sig] /\ Gains[sig] \cap known = {}
        /\ Loses[sig] \subseteq known /\ known' \subseteq Announcements
        /\ Gains[sig] \cup Loses[sig] = {}
    BY <1>3, <1>6
  <2> QED
    BY <1>6, <2>1, SentInv
<1>7. CASE SaysAllForNow
  <2> DEFINE sig == [kind |-> "AllForNow"]
  <2>1. sig \in Signal /\ sig.kind = "AllForNow"
    BY DEF Signal
  <2>2. Gains[sig] = {} /\ Loses[sig] = {}
    BY <2>1, Signals
  <2>3. Send(sig) /\ served /\ UNCHANGED known /\ allForNow' \in BOOLEAN
    BY <1>7 DEF SaysAllForNow
  <2> HIDE DEF sig
  <2> QED
    BY <1>2, <1>6, <2>1, <2>2, <2>3
<1>8. ASSUME NEW id \in Ids, NEW kind \in {"Found", "Failure"}, Answers(id, kind)
      PROVE  IInv'
  <2> DEFINE sig == [kind |-> kind, id |-> id]
  <2>1. sig \in Signal /\ sig.kind = kind
    BY DEF Signal
  <2>2. Gains[sig] = {} /\ Loses[sig] = {}
    BY <2>1, Signals
  <2>3. Send(sig) /\ id \in resolvers /\ UNCHANGED <<known, allForNow>>
    BY <1>8 DEF Answers
  <2>4. m_running
    <3>1. PICK o \in Alive : o.id = id
      BY <1>1, <2>3 DEF ObjectsSound
    <3>2. CASE m_services = << >> /\ m_duringResolve = << >> /\ suspended = << >>
      BY <3>1, <3>2 DEF Alive, Reported, Pending, Adding, Removing, SuspendedFor, ToSet
    <3> QED
      BY <1>1, <3>2 DEF Idle
  <2> HIDE DEF sig
  <2> QED
    BY <1>3, <1>6, <2>1, <2>2, <2>3, <2>4
<1> QED
  BY <1>4, <1>5, <1>7, <1>8

LEMMA DaemonDiesInv ==
    ASSUME IInv, DaemonDies
    PROVE  IInv'
<1>1. /\ Types /\ Lists /\ ObjectsSound /\ RemovedAreListed /\ Accounts /\ BusLeads /\ Idle
      /\ AnswerComing /\ BatchHasAnEnd
  BY DEF IInv, Types
<1>2. /\ served' = FALSE /\ known' = {} /\ allForNow' = FALSE /\ resolvers' = {}
      /\ UNCHANGED <<object, bus, heard, batch, disturbed>>
  BY DEF DaemonDies
<1>3. /\ ObjectsSound' <=> Owned'
      /\ RemovedAreListed' /\ Accounts' /\ BatchHasAnEnd' /\ Lists'
  BY <1>1, <1>2, ObjectUnchanged
<1>4. ObjectsSound'
  BY <1>2, <1>3 DEF Owned
<1>5. BusLeads'
  BY <1>1, <1>2 DEF BusLeads
<1>6. Types'
  BY <1>1, <1>2, <1>3 DEF Types, object, flags
<1>7. Idle' /\ AnswerComing'
  BY <1>1, <1>2 DEF Idle, AnswerComing, object, flags
<1> QED
  BY <1>3, <1>4, <1>5, <1>6, <1>7 DEF IInv

LEMMA StartInv ==
    ASSUME IInv, StartBrowse
    PROVE  IInv'
<1>1. /\ Types /\ ObjectsSound /\ RemovedAreListed /\ Accounts /\ Idle
  BY DEF IInv
<1>2. /\ m_duringResolve = << >> /\ bus = << >> /\ known = {} /\ heard = {}
  BY <1>1 DEF Idle, StartBrowse
<1>3. Connects(<< >>, Gains, Loses, {}, {})
  BY EmptyConnects
<1>4. BusLeads'
  BY <1>2, <1>3 DEF BusLeads, StartBrowse
<1>5. AnswerComing'
  BY <1>2 DEF AnswerComing, Awaited, ToSet, StartBrowse
<1>6. Types' /\ Idle' /\ BatchHasAnEnd'
  BY <1>1 DEF Types, Lists, Idle, BatchHasAnEnd, StartBrowse, InBatch
<1>7. ObjectsSound' /\ RemovedAreListed' /\ Accounts'
  BY <1>1 DEF ObjectsSound, Alive, Reported, Pending, Adding, Removing, Certain, SuspendedFor,
              RemovedAreListed, Accounts, Frames, Instances, Heard, StartBrowse
<1> QED
  BY <1>4, <1>5, <1>6, <1>7 DEF IInv

LEMMA InitInv == Init => IInv
<1> SUFFICES ASSUME Init PROVE IInv
  OBVIOUS
<1>1. ToSet(<< >>) = {} /\ IsInjective(<< >>) /\ \A S : << >> \in Seq(S)
  BY EmptySeq DEF ToSet, IsInjective
<1>2. Types
  <2>1. {} \subseteq Announcements /\ {} \subseteq Names
    OBVIOUS
  <2> QED
    BY <1>1, <2>1 DEF Init, Types, Lists
<1>3. Reported = {} /\ Pending = {} /\ Adding = {} /\ Removing = {} /\ Certain = {}
  BY <1>1 DEF Init, Reported, Pending, Adding, Removing, Certain, SuspendedFor
<1>4. ObjectsSound /\ RemovedAreListed
  BY <1>3 DEF Init, ObjectsSound, RemovedAreListed, Alive
<1>5. ASSUME NEW n PROVE Instances(n) = 0 /\ Heard(n) = 0 /\ Frames(n) = 0
  <2>1. Cardinality({}) = 0
    BY FS_EmptySet
  <2>2. /\ {i \in DOMAIN m_services : m_services[i].name = n} = {}
        /\ {i \in DOMAIN m_duringResolve : m_duringResolve[i].name = n} = {}
        /\ {a \in heard : NameOf[a] = n} = {}
    BY DEF Init
  <2>3. Instances(n) = Cardinality({}) + Cardinality({}) /\ Heard(n) = Cardinality({})
    BY <2>2 DEF Instances, Heard
  <2>4. Frames(n) = 0
    BY EmptyOccurrences DEF Init, Frames
  <2> QED
    BY <2>1, <2>3, <2>4
<1>6. Accounts
  BY <1>5 DEF Accounts
<1>7. Connects(<< >>, Gains, Loses, {}, {})
  BY EmptyConnects
<1>8. BusLeads
  BY <1>7 DEF BusLeads, Init
<1>9. Idle /\ AnswerComing /\ BatchHasAnEnd
  BY DEF Init, Idle, AnswerComing, BatchHasAnEnd
<1> QED
  BY <1>2, <1>4, <1>6, <1>8, <1>9 DEF IInv

LEMMA RecreateInv ==
    ASSUME Recreate
    PROVE  IInv'
<1>1. Init'
  BY DEF Recreate, Init
<1>2. (Init => IInv)'
  BY InitInv, PTL
<1> QED
  BY <1>1, <1>2

LEMMA StepInv == IInv /\ [Next]_vars => IInv'
<1> SUFFICES ASSUME IInv, [Next]_vars PROVE IInv'
  OBVIOUS
<1>1. CASE UNCHANGED vars
  BY <1>1 DEF vars, object, flags, daemon, IInv, Types, Lists, ObjectsSound, Alive, Reported, Pending,
              Adding, Removing, Certain, SuspendedFor, RemovedAreListed, Accounts, Frames, Instances,
              Heard, BusLeads, Idle, AnswerComing, Awaited, BatchHasAnEnd
<1> QED
  BY <1>1, StartInv, RecreateInv, DeliverInv, TimerInv, ResumeInv, DaemonInv, DaemonDiesInv DEF Next

-----------------------------------------------------------------------------
(***************************************************************************)
(* What the invariant gives.                                               *)
(***************************************************************************)
\* Every slot keeps the invariant, also when it is resumed after others have run
\* inside it, and so does the daemon.
THEOREM Invariance == Spec => []IInv
  BY InitInv, StepInv, PTL DEF Spec

\* However handlers run inside one another, an object is in each list once, in
\* both only while it is being added, and the daemon holds resolvers for live
\* objects alone (gotNewService, serviceResolved, gotRemoveService).
THEOREM TypeCorrect == Spec => []TypeOK
<1>1. IInv => TypeOK
  <2> SUFFICES ASSUME IInv PROVE TypeOK
    OBVIOUS
  <2>1. Types /\ Lists /\ ObjectsSound
    BY DEF IInv, Types
  <2>2. resolvers \subseteq Held
    BY <2>1, HeldIsAlive DEF ObjectsSound
  <2> QED
    BY <2>1, <2>2 DEF Types, Lists, ObjectsSound, TypeOK, Reported, Pending, Adding
<1> QED
  BY <1>1, Invariance, PTL

\* Outside the handlers, every service has as many objects as it has instances
\* announced, whatever order the daemon's signals and the answers come in, unless
\* a resolve has failed or handlers for it have met.
THEOREM InstancesBalance == Spec => []InstancesAccounted
<1>1. IInv => InstancesAccounted
  <2> SUFFICES ASSUME IInv, suspended = << >>, NEW name \in Names \ disturbed
               PROVE  Instances(name) = Heard(name)
    BY DEF InstancesAccounted
  <2>1. Types /\ Frames(name) = 0 /\ Instances(name) = Heard(name) + Frames(name)
    BY EmptyOccurrences DEF IInv, Accounts, Frames
  <2> QED
    BY <2>1, HeardNumber
<1> QED
  BY <1>1, Invariance, PTL

\* An object that is waited for has a resolver or an answer on the bus, while the
\* daemon lives: finished() is not held back for nothing (queryFinished).
THEOREM AnswersCome == Spec => []AnswerComing
<1>1. IInv => AnswerComing
  BY DEF IInv
<1> QED
  BY <1>1, Invariance, PTL

\* Changes not yet concluded have the timer or an awaited object to conclude them
\* (gotNewService, gotRemoveService, browserFinished, queryFinished).
THEOREM BatchesEnd == Spec => []BatchHasAnEnd
<1>1. IInv => BatchHasAnEnd
  BY DEF IInv
<1> QED
  BY <1>1, Invariance, PTL
=============================================================================
