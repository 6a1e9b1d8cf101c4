------------------------- MODULE DomainModelProofs -------------------------
(***************************************************************************)
(* Proofs about DomainModel and the DomainBrowser of either backend that   *)
(* it owns.                                                                *)
(***************************************************************************)
EXTENDS DomainModel, ListFacts

-----------------------------------------------------------------------------
(***************************************************************************)
(* The operators that the instances take from other modules are the ones   *)
(* this module takes from them.                                            *)
(***************************************************************************)
LEMMA SameOperators ==
    /\ \A d : Avahi!AvahiDNSToDomain(d) = AvahiDNSToDomain(d)
    /\ \A d : Mdnsd!MdnsdDNSToDomain(d) = MdnsdDNSToDomain(d)
    /\ \A s : Avahi!ToSet(s) = ToSet(s) /\ Mdnsd!ToSet(s) = ToSet(s)
    /\ \A s : Avahi!Front(s) = Front(s) /\ Avahi!Last(s) = Last(s)
    /\ \A s, e : Mdnsd!Contains(s, e) = Contains(s, e)
    /\ \A s, equal : Mdnsd!RemoveAll(s, equal) = RemoveAll(s, equal)
<1>1. \A d : Avahi!AvahiDNSToDomain(d) = AvahiDNSToDomain(d)
  BY DEF AvahiDNSToDomain, FromAce, Bytes, DomainIsLocal, LocalSections, Folded,
         Avahi!AvahiDNSToDomain, Avahi!FromAce, Avahi!Bytes, Avahi!DomainIsLocal,
         Avahi!LocalSections, Avahi!Folded
<1>2. \A d : Mdnsd!MdnsdDNSToDomain(d) = MdnsdDNSToDomain(d)
  BY DEF MdnsdDNSToDomain, FromAce, Bytes, DomainIsLocal, LocalSections, Folded,
         Mdnsd!MdnsdDNSToDomain, Mdnsd!FromAce, Mdnsd!Bytes, Mdnsd!DomainIsLocal,
         Mdnsd!LocalSections, Mdnsd!Folded
<1>3. \A s : Avahi!ToSet(s) = ToSet(s) /\ Mdnsd!ToSet(s) = ToSet(s)
  BY DEF ToSet, Avahi!ToSet, Mdnsd!ToSet
<1>4. \A s : Avahi!Front(s) = Front(s) /\ Avahi!Last(s) = Last(s)
  BY DEF Front, Last, Avahi!Front, Avahi!Last
<1>5. \A s, e : Mdnsd!Contains(s, e) = Contains(s, e)
  BY DEF Contains, Mdnsd!Contains
<1>6. \A s, equal : Mdnsd!RemoveAll(s, equal) = RemoveAll(s, equal)
  BY DEF RemoveAll, Mdnsd!RemoveAll
<1> QED
  BY <1>1, <1>2, <1>3, <1>4, <1>5, <1>6

-----------------------------------------------------------------------------
(***************************************************************************)
(* Names.  What a backend lists is a name that was read from the wire or   *)
(* from the configuration; if it is not local, its last section is folded  *)
(* and no IDN encoding is left in it.                                      *)
(***************************************************************************)
LEMMA AvahiDecodes ==
    ASSUME NEW w \in Domain, NEW d, d = AvahiDNSToDomain(w)
    PROVE  /\ d \in Domain /\ d.label = w.label /\ d.script = w.script
           /\ DomainIsLocal(d) <=> DomainIsLocal(w)
           /\ ~DomainIsLocal(d) => d.encoding # "ace" /\ Folded(d.section) = d.section
  BY DEF Domain, AvahiDNSToDomain, FromAce, Bytes, DomainIsLocal, LocalSections, Folded, Scripts

LEMMA MdnsdDecodes ==
    ASSUME NEW w \in Domain, NEW d, d = MdnsdDNSToDomain(w)
    PROVE  /\ d \in Domain /\ d.label = w.label /\ d.script = w.script
           /\ DomainIsLocal(d) <=> DomainIsLocal(w)
           /\ ~DomainIsLocal(d) => d.encoding # "ace" /\ Folded(d.section) = d.section
  BY DEF Domain, MdnsdDNSToDomain, FromAce, Bytes, DomainIsLocal, LocalSections, Folded, Scripts

\* Such a name, if it is legible, survives the way to the daemon and back.
LEMMA ThereAndBack ==
    ASSUME NEW d \in Domain, ~DomainIsLocal(d), d.encoding = "plain", Folded(d.section) = d.section
    PROVE  AvahiDNSToDomain(DomainToDNS(d)) = d /\ MdnsdDNSToDomain(DomainToDNS(d)) = d
  BY DEF Domain, DomainToDNS, AvahiDNSToDomain, MdnsdDNSToDomain, ToAce, FromAce, Bytes,
         DomainIsLocal, LocalSections, Folded, Scripts


\* A domain that is listed, by the backend in use, comes from a name that was read.
Read == {WireOf[a] : a \in Announcements} \cup ToSet(Configured)

LEMMA ReadAreDomains == Read \subseteq Domain
<1>1. ToSet(Configured) \subseteq Domain
  BY ConfiguredAssumption, ElementsOccur
<1> QED
  BY <1>1, WiresAssumption DEF Read

LEMMA ListedAreRead ==
    /\ \A d \in Avahi!Domains : \E w \in Read : d = AvahiDNSToDomain(w)
    /\ \A d \in Mdnsd!Domains : \E w \in Read : d = MdnsdDNSToDomain(w)
<1>1. \A a \in Announcements : WireOf[a] \in Read
  BY DEF Read
<1>2. \A i \in DOMAIN Configured : Configured[i] \in Read
  BY DEF Read, ToSet
<1>3. \A d \in Avahi!Domains : \E w \in Read : d = AvahiDNSToDomain(w)
  <2> TAKE d \in Avahi!Domains
  <2>1. CASE \E a \in Announcements : d = Avahi!Decoded(a)
    BY <1>1, <2>1, SameOperators DEF Avahi!Decoded
  <2>2. CASE d \in Avahi!DecodedConfig
    BY <1>2, <2>2, SameOperators DEF Avahi!DecodedConfig
  <2> QED
    BY <2>1, <2>2 DEF Avahi!Domains
<1>4. \A d \in Mdnsd!Domains : \E w \in Read : d = MdnsdDNSToDomain(w)
  BY <1>1, SameOperators DEF Mdnsd!Domains, Mdnsd!Decoded
<1> QED
  BY <1>3, <1>4

LEMMA ReadNamesAreDistinct ==
    ASSUME NEW d, NEW e, NEW v \in Read, NEW w \in Read,
           \/ d = AvahiDNSToDomain(v) /\ e = AvahiDNSToDomain(w)
           \/ d = MdnsdDNSToDomain(v) /\ e = MdnsdDNSToDomain(w),
           ~Normal(d), ~Normal(e), Meant(d) = Meant(e)
    PROVE  d = e
<1>1. /\ d \in Domain /\ d.label = v.label /\ d.script = v.script
      /\ d.encoding # "ace" /\ Folded(d.section) = d.section
  BY ReadAreDomains, AvahiDecodes, MdnsdDecodes DEF Normal
<1>2. /\ e \in Domain /\ e.label = w.label /\ e.script = w.script
      /\ e.encoding # "ace" /\ Folded(e.section) = e.section
  BY ReadAreDomains, AvahiDecodes, MdnsdDecodes DEF Normal
<1>3. d.label = e.label /\ d.section = e.section
  BY <1>1, <1>2 DEF Meant
<1>4. d.script = e.script
  BY <1>1, <1>2, <1>3, ScriptsAssumption DEF Read
<1>5. d.encoding = "plain" /\ e.encoding = "plain"
  BY <1>1, <1>2 DEF Normal, Legible, Domain
<1> QED
  BY <1>1, <1>2, <1>3, <1>4, <1>5 DEF Domain

\* What the lists may hold is enough for DomainsAreDistinct.
ListedAreDomains ==
    /\ backend \in {"avahi", "mdnsd"}
    /\ IF backend = "avahi" THEN Listed \subseteq Avahi!Domains ELSE Listed \subseteq Mdnsd!Domains

LEMMA ListedAreDistinct == ListedAreDomains => DomainsAreDistinct
<1> SUFFICES ASSUME ListedAreDomains, NEW d \in Listed, ~Normal(d)
             PROVE  /\ BackFromDNS(d) = d
                    /\ \A e \in {e \in Listed : ~Normal(e)} : Meant(d) = Meant(e) => d = e
  BY DEF DomainsAreDistinct
<1>1. \A c \in Listed : \E w \in Read :
          IF backend = "avahi" THEN c = AvahiDNSToDomain(w) ELSE c = MdnsdDNSToDomain(w)
  BY ListedAreRead DEF ListedAreDomains
<1>2. PICK v \in Read : IF backend = "avahi" THEN d = AvahiDNSToDomain(v) ELSE d = MdnsdDNSToDomain(v)
  BY <1>1
<1>3. BackFromDNS(d) = d
  <2>1. d \in Domain /\ ~DomainIsLocal(d) /\ d.encoding # "ace" /\ Folded(d.section) = d.section
    BY <1>2, ReadAreDomains, AvahiDecodes, MdnsdDecodes DEF Normal
  <2>2. d.encoding = "plain"
    BY <2>1 DEF Normal, Legible, Domain
  <2> QED
    BY <2>1, <2>2, ThereAndBack DEF BackFromDNS
<1>4. ASSUME NEW e \in Listed, ~Normal(e), Meant(d) = Meant(e)
      PROVE  d = e
  <2>1. PICK w \in Read : IF backend = "avahi" THEN e = AvahiDNSToDomain(w) ELSE e = MdnsdDNSToDomain(w)
    BY <1>1
  <2>2. \/ d = AvahiDNSToDomain(v) /\ e = AvahiDNSToDomain(w)
        \/ d = MdnsdDNSToDomain(v) /\ e = MdnsdDNSToDomain(w)
    BY <1>2, <2>1
  <2> QED
    BY <1>4, <2>2, ReadNamesAreDistinct
<1> QED
  BY <1>3, <1>4

-----------------------------------------------------------------------------
(***************************************************************************)
(* The model shows what is listed.                                         *)
(***************************************************************************)
ListIsFinite ==
    /\ backend \in {"avahi", "mdnsd"}
    /\ IF backend = "avahi" THEN IsFiniteSet(domainSet) ELSE domainList \in Seq(Mdnsd!Domains)

LEMMA ShownIsListed == ListIsFinite => Shown = Listed
<1> SUFFICES ASSUME ListIsFinite PROVE Shown = Listed
  OBVIOUS
<1> DEFINE S == IF backend = "avahi" THEN domainSet ELSE Mdnsd!Domains
<1>1. Rows \in Seq(S) /\ ToSet(Rows) = Listed
  BY SetToSeqFacts DEF ListIsFinite, Rows, Listed
<1>2. Len(Rows) \in Nat /\ DOMAIN Rows = 1..Len(Rows)
  BY <1>1, ListBasics
<1>3. \A row \in -1 .. Len(Rows) :
          Data(row, 0, FALSE, "DisplayRole") = IF row + 1 \in DOMAIN Rows THEN {Rows[row + 1]} ELSE {}
  BY <1>2 DEF Data, HasIndex, RowCount
<1>4. Shown \subseteq ToSet(Rows)
  BY <1>3 DEF Shown, ToSet
<1>5. ASSUME NEW d \in ToSet(Rows)
      PROVE  d \in Shown
  <2>1. PICK i \in DOMAIN Rows : d = Rows[i]
    BY DEF ToSet
  <2>2. i - 1 \in -1 .. Len(Rows) /\ (i - 1) + 1 = i
    BY <1>2
  <2>3. d \in Data(i - 1, 0, FALSE, "DisplayRole")
    BY <1>3, <2>1, <2>2
  <2> QED
    BY <2>2, <2>3 DEF Shown
<1> QED
  BY <1>1, <1>4, <1>5

-----------------------------------------------------------------------------
(***************************************************************************)
(* Avahi.  Suspended handlers, and the domains they have to take off.      *)
(***************************************************************************)
LeavingOf(frames) == {h.domain : h \in {h \in ToSet(frames) : h.of = "gotRemoveDomain"}}

\* A suspended startBrowse() has a name to go on with.
Frame == {h \in Avahi!Handler : h.of = "startBrowse" => h.rest # << >>}
AvahiTypes ==
    /\ Avahi!TypeOK
    /\ suspended \in Seq(Frame)
    /\ ~served => known = {}

LEMMA LeavingIsOf == Avahi!Leaving = LeavingOf(suspended)
  BY SameOperators DEF Avahi!Leaving, LeavingOf

LEMMA NoneLeaving == LeavingOf(<< >>) = {}
  BY DEF LeavingOf, ToSet

LEMMA LeavingFacts ==
    ASSUME NEW frames \in Seq(Avahi!Handler)
    PROVE  /\ \A h \in Avahi!Handler : h.of = "startBrowse" =>
                 LeavingOf(Append(frames, h)) = LeavingOf(frames)
           /\ \A h \in Avahi!Handler : h.of = "gotRemoveDomain" =>
                 LeavingOf(Append(frames, h)) = LeavingOf(frames) \cup {h.domain}
           /\ frames # << >> /\ Last(frames).of = "startBrowse" =>
                 LeavingOf(frames) = LeavingOf(Front(frames))
           /\ frames # << >> /\ Last(frames).of = "gotRemoveDomain" =>
                 LeavingOf(frames) = LeavingOf(Front(frames)) \cup {Last(frames).domain}
<1>2. \A h \in Avahi!Handler : ToSet(Append(frames, h)) = ToSet(frames) \cup {h}
  BY AppendFacts
<1>3. frames # << >> => ToSet(frames) = ToSet(Front(frames)) \cup {Last(frames)}
  BY FrontIsRemoveAt
<1>4. \A h \in Avahi!Handler : h.of = "startBrowse" =>
          LeavingOf(Append(frames, h)) = LeavingOf(frames)
  BY <1>2 DEF LeavingOf
<1>5. \A h \in Avahi!Handler : h.of = "gotRemoveDomain" =>
          LeavingOf(Append(frames, h)) = LeavingOf(frames) \cup {h.domain}
  BY <1>2 DEF LeavingOf
<1>6. frames # << >> /\ Last(frames).of = "startBrowse" =>
          LeavingOf(frames) = LeavingOf(Front(frames))
  BY <1>3 DEF LeavingOf
<1>7. frames # << >> /\ Last(frames).of = "gotRemoveDomain" =>
          LeavingOf(frames) = LeavingOf(Front(frames)) \cup {Last(frames).domain}
  BY <1>3 DEF LeavingOf
<1> QED
  BY <1>4, <1>5, <1>6, <1>7

-----------------------------------------------------------------------------
(***************************************************************************)
(* What a step of Avahi's browser does to the list, to the domains that    *)
(* are leaving it and to what is said: it deals with a domain that is      *)
(* there, with one that goes, takes one off, or leaves the list alone.     *)
(***************************************************************************)
Deals(d) == disturbed' = IF d \in LeavingOf(suspended) THEN disturbed \cup {d} ELSE disturbed

Adds(d) ==
    /\ domainSet' = domainSet \cup {d}
    /\ said' = IF d \in domainSet THEN {} ELSE {<<"domainAdded", d>>}
    /\ LeavingOf(suspended') = LeavingOf(suspended)
    /\ Deals(d)
    /\ Len(suspended') <= Len(suspended)

Removes(d) ==
    /\ domainSet' = domainSet
    /\ said' = IF d \in domainSet THEN {<<"domainRemoved", d>>} ELSE {}
    /\ LeavingOf(suspended')
          = IF d \in domainSet THEN LeavingOf(suspended) \cup {d} ELSE LeavingOf(suspended)
    /\ Deals(d)
    /\ d \in domainSet => Len(suspended') <= MaxNesting + 1
    /\ d \notin domainSet => suspended' = suspended

TakesOff(d) ==
    /\ domainSet' = domainSet \ {d}
    /\ said' = {}
    /\ LeavingOf(suspended) = LeavingOf(suspended') \cup {d}
    /\ disturbed' = disturbed
    /\ Len(suspended') = Len(suspended) - 1

LeavesList ==
    /\ domainSet' = domainSet
    /\ said' = {}
    /\ LeavingOf(suspended') = LeavingOf(suspended)
    /\ disturbed' = disturbed

\* The connection, and the object but for the handlers.
Steady == UNCHANGED <<m_type, m_started, m_browser>>
Daemon == <<bus, served, known>>

Hears(kind, a) ==
    /\ bus # << >> /\ Head(bus) = [kind |-> kind, item |-> a] /\ bus' = Tail(bus)
    /\ UNCHANGED <<served, known>>

Tells(kind, a) ==
    /\ served /\ bus' = Append(bus, [kind |-> kind, item |-> a])
    /\ UNCHANGED served

StartsBrowsing ==
    /\ ~m_started /\ m_started' = TRUE /\ m_type' = m_type
    /\ \/ m_browser' = TRUE /\ served' = TRUE
       \/ UNCHANGED <<m_browser, served>>
    /\ Len(suspended') <= 1
    /\ LeavesList
    /\ UNCHANGED <<bus, known>>

AvahiEffect ==
    \/ StartsBrowsing
    \/ \E a \in Announcements : Hears("ItemNew", a) /\ Adds(Avahi!Decoded(a)) /\ Steady
    \/ \E a \in Announcements : Hears("ItemRemove", a) /\ Removes(Avahi!Decoded(a)) /\ Steady
    \/ \E d \in Avahi!DecodedConfig : m_browser /\ Adds(d) /\ Steady /\ UNCHANGED Daemon
    \/ \E d \in Avahi!Domains : TakesOff(d) /\ Steady /\ UNCHANGED Daemon
    \/ /\ LeavesList /\ Steady /\ suspended' = suspended
       /\ \/ \E a \in Announcements :
               \/ Tells("ItemNew", a) /\ a \notin known /\ known' = known \cup {a}
               \/ Tells("ItemRemove", a) /\ a \in known /\ known' = known \ {a}
          \/ served /\ served' = FALSE /\ known' = {} /\ UNCHANGED bus


LEMMA FrameFacts ==
    /\ Frame \subseteq Avahi!Handler
    /\ \A h \in Frame : h.of \in {"startBrowse", "gotRemoveDomain"}
    /\ \A h \in Frame : h.of = "startBrowse" =>
          h.rest \in Seq(ToSet(Configured)) /\ h.rest # << >>
    /\ \A h \in Frame : h.of = "gotRemoveDomain" => h.domain \in Avahi!Domains
    /\ \A d \in Avahi!Domains : [of |-> "gotRemoveDomain", domain |-> d, inSlot |-> TRUE] \in Frame
    /\ \A r \in Seq(ToSet(Configured)) : r # << >> => \A b \in BOOLEAN :
          [of |-> "startBrowse", rest |-> r, inSlot |-> b] \in Frame
  BY SameOperators DEF Frame, Avahi!Handler

LEMMA DomainFacts ==
    /\ \A a \in Announcements : Avahi!Decoded(a) \in Avahi!Domains
    /\ \A c \in ToSet(Configured) : Avahi!AvahiDNSToDomain(c) \in Avahi!DecodedConfig
    /\ Avahi!DecodedConfig \subseteq Avahi!Domains
    /\ Configured \in Seq(ToSet(Configured))
<1>1. \A c \in ToSet(Configured) : Avahi!AvahiDNSToDomain(c) \in Avahi!DecodedConfig
  BY DEF Avahi!DecodedConfig, ToSet
<1>2. Configured \in Seq(ToSet(Configured))
  <2>1. Len(Configured) \in Nat /\ DOMAIN Configured = 1..Len(Configured)
    BY ConfiguredAssumption, ListBasics
  <2>2. Configured = [i \in 1..Len(Configured) |-> Configured[i]]
    BY ConfiguredAssumption, <2>1
  <2>3. \A i \in 1..Len(Configured) : Configured[i] \in ToSet(Configured)
    BY <2>1 DEF ToSet
  <2> QED
    BY <2>1, <2>2, <2>3, IsASeq
<1> QED
  BY <1>1, <1>2 DEF Avahi!Domains

LEMMA StartBrowseEffect ==
    ASSUME AvahiTypes, Avahi!StartBrowse
    PROVE  AvahiTypes' /\ AvahiEffect
<1>1. /\ m_started = FALSE /\ m_browser = FALSE /\ suspended = << >> /\ domainSet = {} /\ bus = << >>
      /\ ~served
  BY DEF AvahiTypes, Avahi!TypeOK, Avahi!StartBrowse
<1>2. /\ m_started' = TRUE /\ m_type' = m_type /\ said' = {}
      /\ domainSet' = domainSet /\ bus' = bus /\ known' = known /\ disturbed' = disturbed
  BY DEF Avahi!StartBrowse, Avahi!Accepted, Avahi!Refused
<1>3. \/ m_browser' = TRUE /\ served' = TRUE
      \/ UNCHANGED <<m_browser, served>> /\ suspended' = << >>
  BY <1>1 DEF Avahi!StartBrowse, Avahi!Accepted, Avahi!Refused
<1> DEFINE f == [of |-> "startBrowse", rest |-> Configured, inSlot |-> FALSE]
<1>4. suspended' = << >> \/ (Configured # << >> /\ suspended' = <<f>>)
  BY <1>1 DEF Avahi!StartBrowse, Avahi!Accepted, Avahi!Refused
<1>5. /\ suspended' \in Seq(Frame) /\ suspended' \in Seq(Avahi!Handler)
      /\ Len(suspended') <= 1 /\ LeavingOf(suspended') = {}
  <2>1. << >> \in Seq(Frame) /\ << >> \in Seq(Avahi!Handler) /\ Len(<< >>) = 0
    OBVIOUS
  <2>2. CASE suspended' = << >>
    BY <2>1, <2>2, NoneLeaving
  <2>3. CASE Configured # << >> /\ suspended' = <<f>>
    <3>1. f \in Frame /\ f \in Avahi!Handler /\ f.of = "startBrowse"
      BY <2>3, FrameFacts, DomainFacts
    <3> HIDE DEF f
    <3>2. <<f>> = Append(<< >>, f) /\ Len(<<f>>) = 1
      OBVIOUS
    <3>3. <<f>> \in Seq(Frame) /\ <<f>> \in Seq(Avahi!Handler)
      BY <3>1
    <3>4. LeavingOf(Append(<< >>, f)) = LeavingOf(<< >>)
      BY <2>1, <3>1, LeavingFacts
    <3> QED
      BY <2>3, <3>2, <3>3, <3>4, NoneLeaving
  <2> QED
    BY <1>4, <2>2, <2>3
<1> HIDE DEF f
<1>6. LeavingOf(suspended) = {}
  BY <1>1, NoneLeaving
<1>7. AvahiTypes'
  <2>1. /\ m_started' \in BOOLEAN /\ m_browser' \in BOOLEAN /\ served' \in BOOLEAN
        /\ m_browser' => m_started'
        /\ ~served' => known' = {}
    BY <1>1, <1>2, <1>3 DEF AvahiTypes, Avahi!TypeOK
  <2>2. served' \/ bus' # << >> \/ suspended' # << >> \/ domainSet' # {} => m_browser'
    BY <1>1, <1>2, <1>3
  <2> QED
    BY <1>2, <1>5, <2>1, <2>2 DEF AvahiTypes, Avahi!TypeOK
<1>8. StartsBrowsing
  BY <1>1, <1>2, <1>3, <1>5, <1>6 DEF StartsBrowsing, LeavesList
<1> QED
  BY <1>7, <1>8 DEF AvahiEffect

LEMMA DeliverEffect ==
    ASSUME AvahiTypes, Avahi!Deliver
    PROVE  AvahiTypes' /\ AvahiEffect
<1> DEFINE sig == Head(bus)
           a == sig.item
           d == Avahi!Decoded(a)
           f == [of |-> "gotRemoveDomain", domain |-> d, inSlot |-> TRUE]
<1>1. /\ bus # << >> /\ bus \in Seq(Avahi!Signal) /\ bus' = Tail(bus)
      /\ m_browser = TRUE /\ m_started = TRUE
      /\ UNCHANGED <<m_type, m_started, m_browser, served, known>>
  BY DEF AvahiTypes, Avahi!TypeOK, Avahi!Deliver
<1>2. sig \in Avahi!Signal /\ bus' \in Seq(Avahi!Signal)
  BY <1>1, HeadTailFacts
<1>3. a \in Announcements /\ d \in Avahi!Domains
  BY <1>2, DomainFacts DEF Avahi!Signal
<1>4. f \in Frame /\ f \in Avahi!Handler /\ f.of = "gotRemoveDomain" /\ f.domain = d
  BY <1>3, FrameFacts
<1>5. /\ suspended \in Seq(Frame) /\ suspended \in Seq(Avahi!Handler)
      /\ Len(suspended) \in Nat
  BY ListBasics DEF AvahiTypes, Avahi!TypeOK
<1>6. Avahi!Disturbs(d) => Deals(d) /\ disturbed' \subseteq Avahi!Domains
  BY <1>3, LeavingIsOf DEF Avahi!Disturbs, Deals, AvahiTypes, Avahi!TypeOK
<1>7. CASE sig.kind = "ItemNew" /\ Avahi!GotNewDomain(d) /\ UNCHANGED suspended
  <2>1. sig = [kind |-> "ItemNew", item |-> a]
    BY <1>2, <1>7 DEF Avahi!Signal
  <2>2. Adds(d) /\ domainSet' \subseteq Avahi!Domains
    BY <1>3, <1>5, <1>6, <1>7 DEF Avahi!GotNewDomain, Adds, AvahiTypes, Avahi!TypeOK
  <2>3. AvahiTypes'
    BY <1>1, <1>2, <1>6, <1>7, <2>2 DEF AvahiTypes, Avahi!TypeOK, Avahi!GotNewDomain
  <2>4. Hears("ItemNew", a) /\ Steady
    BY <1>1, <2>1 DEF Hears, Steady
  <2> QED
    BY <1>3, <2>2, <2>3, <2>4 DEF AvahiEffect
<1>8. CASE sig.kind = "ItemRemove" /\ Avahi!GotRemoveDomain(d)
  <2>1. sig = [kind |-> "ItemRemove", item |-> a]
    BY <1>2, <1>8 DEF Avahi!Signal
  <2>2. /\ domainSet' = domainSet
        /\ Avahi!Disturbs(d)
        /\ \/ d \notin domainSet /\ said' = {} /\ suspended' = suspended
           \/ /\ d \in domainSet /\ said' = {<<"domainRemoved", d>>}
              /\ suspended' = Append(suspended, f)
    BY <1>8 DEF Avahi!GotRemoveDomain
  <2>3. Len(suspended) <= MaxNesting
    BY <1>5, BoundsAssumption DEF Avahi!Deliver, Avahi!LoopRuns
  <2> HIDE DEF f, d
  <2>4. /\ Append(suspended, f) \in Seq(Frame) /\ Append(suspended, f) \in Seq(Avahi!Handler)
        /\ Len(Append(suspended, f)) <= MaxNesting + 1
        /\ LeavingOf(Append(suspended, f)) = LeavingOf(suspended) \cup {d}
    <3>1. Append(suspended, f) \in Seq(Frame) /\ Append(suspended, f) \in Seq(Avahi!Handler)
      BY <1>4, <1>5, AppendFacts
    <3>2. Len(Append(suspended, f)) = Len(suspended) + 1
      BY <1>4, <1>5, AppendFacts
    <3>3. LeavingOf(Append(suspended, f)) = LeavingOf(suspended) \cup {d}
      BY <1>4, <1>5, LeavingFacts
    <3> QED
      BY <1>5, <2>3, <3>1, <3>2, <3>3, BoundsAssumption
  <2>5. Removes(d)
    BY <1>6, <2>2, <2>4 DEF Removes
  <2>6. AvahiTypes'
    BY <1>1, <1>2, <1>5, <1>6, <2>2, <2>4 DEF AvahiTypes, Avahi!TypeOK
  <2>7. Hears("ItemRemove", a) /\ Steady
    BY <1>1, <2>1 DEF Hears, Steady
  <2> QED
    BY <1>3, <2>5, <2>6, <2>7 DEF AvahiEffect, d
<1> QED
  BY <1>7, <1>8 DEF Avahi!Deliver

LEMMA ResumeEffect ==
    ASSUME AvahiTypes, Avahi!Resume
    PROVE  AvahiTypes' /\ AvahiEffect
<1> DEFINE h == Last(suspended)
           rest == Front(suspended)
<1>1. /\ suspended # << >> /\ m_browser = TRUE /\ m_started = TRUE
      /\ UNCHANGED <<m_type, m_started, m_browser, bus, served, known>>
      /\ Avahi!RemovalResumes(h) \/ Avahi!StartResumes(h)
  BY SameOperators DEF AvahiTypes, Avahi!TypeOK, Avahi!Resume
<1>2. suspended \in Seq(Frame) /\ suspended \in Seq(Avahi!Handler)
  BY DEF AvahiTypes, Avahi!TypeOK
<1>3. /\ rest \in Seq(Frame) /\ rest \in Seq(Avahi!Handler) /\ h \in Frame
      /\ Len(suspended) \in Nat \ {0} /\ Len(rest) = Len(suspended) - 1
  BY <1>1, <1>2, FrontFacts
<1>4. Avahi!Front(suspended) = rest
  BY SameOperators
<1>5. CASE Avahi!RemovalResumes(h)
  <2>1. /\ h.of = "gotRemoveDomain" /\ domainSet' = domainSet \ {h.domain}
        /\ suspended' = rest /\ said' = {} /\ disturbed' = disturbed
    BY <1>4, <1>5 DEF Avahi!RemovalResumes
  <2>2. h.domain \in Avahi!Domains
    BY <1>3, <2>1, FrameFacts
  <2>3. LeavingOf(suspended) = LeavingOf(rest) \cup {h.domain}
    BY <1>1, <1>2, <2>1, LeavingFacts
  <2>4. TakesOff(h.domain)
    BY <1>3, <2>1, <2>3 DEF TakesOff
  <2>5. AvahiTypes'
    BY <1>1, <1>3, <2>1 DEF AvahiTypes, Avahi!TypeOK
  <2> QED
    BY <1>1, <2>2, <2>4, <2>5 DEF AvahiEffect, Steady, Daemon
<1>6. CASE Avahi!StartResumes(h)
  <2> DEFINE d == Avahi!AvahiDNSToDomain(Head(h.rest))
             g == [of |-> "startBrowse", rest |-> Tail(h.rest), inSlot |-> said' # {}]
  <2>1. /\ h.of = "startBrowse" /\ Avahi!GotNewDomain(d)
        /\ suspended' = IF Len(h.rest) = 1 THEN rest ELSE Append(rest, g)
    BY <1>4, <1>6 DEF Avahi!StartResumes
  <2>2. h.rest \in Seq(ToSet(Configured)) /\ h.rest # << >>
    BY <1>3, <2>1, FrameFacts
  <2>3. /\ Head(h.rest) \in ToSet(Configured) /\ Tail(h.rest) \in Seq(ToSet(Configured))
        /\ Len(h.rest) \in Nat \ {0} /\ Len(Tail(h.rest)) = Len(h.rest) - 1
    BY <2>2, HeadTailFacts
  <2>4. d \in Avahi!DecodedConfig /\ d \in Avahi!Domains
    BY <2>3, DomainFacts
  <2>5. LeavingOf(suspended) = LeavingOf(rest)
    BY <1>1, <1>2, <2>1, LeavingFacts
  <2>6. Len(h.rest) # 1 => g \in Frame /\ g \in Avahi!Handler /\ g.of = "startBrowse"
    <3>1. Len(h.rest) # 1 => Tail(h.rest) # << >>
      BY <2>2, TailNotEmpty
    <3> QED
      BY <2>3, <3>1, FrameFacts
  <2> HIDE DEF d, g
  <2>7. /\ suspended' \in Seq(Frame) /\ suspended' \in Seq(Avahi!Handler)
        /\ Len(suspended') <= Len(suspended)
        /\ LeavingOf(suspended') = LeavingOf(suspended)
    <3>1. CASE Len(h.rest) = 1
      BY <1>3, <2>1, <2>5, <3>1
    <3>2. CASE Len(h.rest) # 1
      <4>1. Append(rest, g) \in Seq(Frame) /\ Append(rest, g) \in Seq(Avahi!Handler)
        BY <1>3, <2>6, <3>2, AppendFacts
      <4>2. Len(Append(rest, g)) = Len(rest) + 1
        BY <1>3, <2>6, <3>2, AppendFacts
      <4>3. LeavingOf(Append(rest, g)) = LeavingOf(rest)
        BY <1>3, <2>6, <3>2, LeavingFacts
      <4> QED
        BY <1>3, <2>1, <2>5, <3>2, <4>1, <4>2, <4>3
    <3> QED
      BY <3>1, <3>2
  <2>8. Deals(d) /\ disturbed' \subseteq Avahi!Domains
    BY <2>1, <2>4, LeavingIsOf
       DEF Avahi!GotNewDomain, Avahi!Disturbs, Deals, AvahiTypes, Avahi!TypeOK
  <2>9. Adds(d) /\ domainSet' \subseteq Avahi!Domains
    BY <2>1, <2>4, <2>7, <2>8 DEF Avahi!GotNewDomain, Adds, AvahiTypes, Avahi!TypeOK
  <2>10. AvahiTypes'
    BY <1>1, <2>7, <2>8, <2>9 DEF AvahiTypes, Avahi!TypeOK
  <2> QED
    BY <1>1, <2>4, <2>9, <2>10 DEF AvahiEffect, Steady, Daemon
<1> QED
  BY <1>1, <1>5, <1>6

LEMMA AvahiStepEffect ==
    ASSUME AvahiTypes, Avahi!Step
    PROVE  AvahiTypes' /\ AvahiEffect
<1>1. ASSUME NEW a \in Announcements, Avahi!Announces(a)
      PROVE  AvahiTypes' /\ AvahiEffect
  <2>1. [kind |-> "ItemNew", item |-> a] \in Avahi!Signal
    BY DEF Avahi!Signal
  <2>2. bus' \in Seq(Avahi!Signal) /\ m_browser
    BY <1>1, <2>1 DEF Avahi!Announces, Avahi!Send, AvahiTypes, Avahi!TypeOK
  <2>3. AvahiTypes'
    BY <1>1, <2>2 DEF Avahi!Announces, Avahi!Send, Avahi!object, AvahiTypes, Avahi!TypeOK
  <2>4. LeavesList /\ Steady /\ suspended' = suspended /\ Tells("ItemNew", a)
    BY <1>1 DEF Avahi!Announces, Avahi!Send, Avahi!object, LeavesList, Steady, Tells
  <2> QED
    BY <1>1, <2>3, <2>4 DEF Avahi!Announces, AvahiEffect
<1>2. ASSUME NEW a \in Announcements, Avahi!Withdraws(a)
      PROVE  AvahiTypes' /\ AvahiEffect
  <2>1. [kind |-> "ItemRemove", item |-> a] \in Avahi!Signal
    BY DEF Avahi!Signal
  <2>2. bus' \in Seq(Avahi!Signal) /\ m_browser
    BY <1>2, <2>1 DEF Avahi!Withdraws, Avahi!Send, AvahiTypes, Avahi!TypeOK
  <2>3. AvahiTypes'
    BY <1>2, <2>2 DEF Avahi!Withdraws, Avahi!Send, Avahi!object, AvahiTypes, Avahi!TypeOK
  <2>4. LeavesList /\ Steady /\ suspended' = suspended /\ Tells("ItemRemove", a)
    BY <1>2 DEF Avahi!Withdraws, Avahi!Send, Avahi!object, LeavesList, Steady, Tells
  <2> QED
    BY <1>2, <2>3, <2>4 DEF Avahi!Withdraws, AvahiEffect
<1>3. ASSUME Avahi!DaemonDies
      PROVE  AvahiTypes' /\ AvahiEffect
  <2>1. AvahiTypes'
    BY <1>3 DEF Avahi!DaemonDies, Avahi!object, AvahiTypes, Avahi!TypeOK
  <2>2. LeavesList /\ Steady /\ suspended' = suspended
    BY <1>3 DEF Avahi!DaemonDies, Avahi!object, LeavesList, Steady
  <2> QED
    BY <1>3, <2>1, <2>2 DEF Avahi!DaemonDies, AvahiEffect
<1> QED
  BY <1>1, <1>2, <1>3, StartBrowseEffect, DeliverEffect, ResumeEffect DEF Avahi!Step

-----------------------------------------------------------------------------
(***************************************************************************)
(* mdnsd.  The connection, and what a step of the browser does to the list *)
(* and says of it.                                                         *)
(***************************************************************************)
MdnsdTypes ==
    /\ Mdnsd!TypeOK
    /\ ~served => known = {}

Connected(r) == r \in Mdnsd!Responder /\ Mdnsd!OwnsItsConnection(r)

LEMMA StoppedFacts ==
    ASSUME NEW r, Connected(r)
    PROVE  Connected(Mdnsd!Stopped(r)) /\ ~Mdnsd!Stopped(r).m_running
  BY DEF Connected, Mdnsd!Stopped, Mdnsd!Responder, Mdnsd!OwnsItsConnection

LEMMA WithRefFacts ==
    ASSUME NEW r, Connected(r), NEW socket \in BOOLEAN
    PROVE  Connected(Mdnsd!WithRef(r, socket))
<1> DEFINE new == [r EXCEPT !.allocated = @ + 1]
           old == IF r.m_ref THEN Mdnsd!Stopped(new) ELSE new
<1>1. new \in Mdnsd!Responder /\ new.allocated = r.allocated + 1 /\ new.m_ref = r.m_ref
  BY DEF Connected, Mdnsd!Responder
<1>2. old \in Mdnsd!Responder /\ old.allocated = 1
  BY <1>1 DEF Connected, Mdnsd!Stopped, Mdnsd!Responder, Mdnsd!OwnsItsConnection
<1>3. Mdnsd!WithRef(r, socket) = [old EXCEPT !.m_ref = TRUE, !.m_running = socket]
  BY DEF Mdnsd!WithRef
<1> QED
  BY <1>2, <1>3 DEF Connected, Mdnsd!Responder, Mdnsd!OwnsItsConnection

LEMMA RequestedFacts ==
    ASSUME NEW r, Connected(r), NEW t \in Mdnsd!Requested(r, Failures)
    PROVE  Connected(t)
  BY WithRefFacts DEF Mdnsd!Requested

KeepsDomains == domainList' = domainList /\ said' = {}

GainsDomain(d) ==
    /\ ToSet(domainList') = ToSet(domainList) \cup {d}
    /\ said' = IF d \in ToSet(domainList) THEN {} ELSE {<<"domainAdded", d>>}
    /\ leftover' = leftover

LosesDomain(d) ==
    /\ ToSet(domainList') = ToSet(domainList) \ {d}
    /\ said' = {<<"domainRemoved", d>>}
    /\ leftover' = leftover \ {d}

Reads(op, a) ==
    /\ responder.m_running /\ bus # << >> /\ Head(bus) = [op |-> op, item |-> a]
    /\ bus' = Tail(bus)
    /\ UNCHANGED <<responder, served, known>>

Writes(reply) ==
    /\ served /\ bus' = Append(bus, reply)
    /\ KeepsDomains /\ UNCHANGED <<responder, leftover, served>>

MdnsdEffect ==
    \/ /\ ~responder.m_running /\ served' = responder'.m_running
       /\ known' = {} /\ bus' = << >> /\ leftover' = ToSet(domainList)
       /\ KeepsDomains
    \/ \E a \in Announcements : Reads("Add", a) /\ GainsDomain(Mdnsd!Decoded(a))
    \/ \E a \in Announcements : Reads("Remove", a) /\ LosesDomain(Mdnsd!Decoded(a))
    \/ \E a \in Announcements : Reads("Default", a) /\ KeepsDomains /\ UNCHANGED leftover
    \/ /\ responder.m_running /\ ~responder'.m_running /\ ~served'
       /\ KeepsDomains
    \/ \E a \in Announcements :
         \/ Writes([op |-> "Add", item |-> a]) /\ a \notin known /\ known' = known \cup {a}
         \/ Writes([op |-> "Remove", item |-> a]) /\ a \in known /\ known' = known \ {a}
         \/ Writes([op |-> "Default", item |-> a]) /\ known' = known
    \/ Writes([op |-> "Error"]) /\ known' = known
    \/ served /\ ~served' /\ KeepsDomains /\ UNCHANGED responder

LEMMA ContainsIsIn ==
    ASSUME NEW S, NEW list \in Seq(S), NEW e
    PROVE  Contains(list, e) <=> e \in ToSet(list)
  BY ListBasics DEF Contains, ToSet

LEMMA DisconnectEffect ==
    ASSUME MdnsdTypes, Mdnsd!Disconnect, Mdnsd!Skipped, responder.m_running
    PROVE  MdnsdTypes' /\ MdnsdEffect
<1>1. Connected(responder') /\ ~responder'.m_running
  BY StoppedFacts DEF MdnsdTypes, Mdnsd!TypeOK, Mdnsd!Disconnect, Connected
<1>2. << >> \in Seq(Mdnsd!Reply)
  OBVIOUS
<1>3. MdnsdTypes'
  BY <1>1, <1>2 DEF MdnsdTypes, Mdnsd!TypeOK, Mdnsd!Disconnect, Mdnsd!Skipped, Connected
<1>4. KeepsDomains /\ ~served'
  BY DEF Mdnsd!Disconnect, Mdnsd!Skipped, KeepsDomains
<1> QED
  BY <1>1, <1>3, <1>4 DEF MdnsdEffect

LEMMA ProcessEffect ==
    ASSUME MdnsdTypes, Mdnsd!Process
    PROVE  MdnsdTypes' /\ MdnsdEffect
<1> DEFINE reply == Head(bus)
           a == reply.item
           d == Mdnsd!Decoded(a)
<1>1. /\ responder.m_running /\ bus # << >> /\ bus \in Seq(Mdnsd!Reply)
      /\ domainList \in Seq(Mdnsd!Domains)
      /\ leftover \subseteq ToSet(domainList)
  BY SameOperators DEF MdnsdTypes, Mdnsd!TypeOK, Mdnsd!Process
<1>2. reply \in Mdnsd!Reply /\ Tail(bus) \in Seq(Mdnsd!Reply)
  BY <1>1, HeadTailFacts
<1>3. CASE reply.op = "Error" /\ Mdnsd!Disconnect /\ Mdnsd!Skipped
  BY <1>1, <1>3, DisconnectEffect
<1>4. CASE /\ reply.op # "Error"
           /\ \/ reply.op = "Add" /\ Mdnsd!Added(d)
              \/ reply.op = "Remove" /\ Mdnsd!Removed(d)
              \/ reply.op = "Default" /\ Mdnsd!Skipped
           /\ bus' = Tail(bus)
           /\ UNCHANGED <<responder, served, known>>
  <2>1. a \in Announcements /\ reply = [op |-> reply.op, item |-> a]
    BY <1>2, <1>4 DEF Mdnsd!Reply
  <2>2. d \in Mdnsd!Domains
    BY <2>1 DEF Mdnsd!Domains
  <2>3. Reads(reply.op, a)
    BY <1>1, <1>4, <2>1 DEF Reads
  <2>4. ASSUME domainList' \in Seq(Mdnsd!Domains), leftover' \subseteq ToSet(domainList')
        PROVE  MdnsdTypes'
    BY <1>1, <1>2, <1>4, <2>4, SameOperators DEF MdnsdTypes, Mdnsd!TypeOK
  <2> HIDE DEF d
  <2>5. CASE reply.op = "Add" /\ Mdnsd!Added(d)
    <3>1. Mdnsd!Contains(domainList, d) <=> d \in ToSet(domainList)
      BY <1>1, ContainsIsIn, SameOperators
    <3>2. /\ Append(domainList, d) \in Seq(Mdnsd!Domains)
          /\ ToSet(Append(domainList, d)) = ToSet(domainList) \cup {d}
      BY <1>1, <2>2, AppendFacts
    <3>3. GainsDomain(d) /\ domainList' \in Seq(Mdnsd!Domains)
      BY <1>1, <2>5, <3>1, <3>2 DEF Mdnsd!Added, GainsDomain
    <3>4. MdnsdTypes'
      BY <1>1, <2>4, <3>3 DEF GainsDomain
    <3> QED
      BY <2>1, <2>3, <2>5, <3>3, <3>4 DEF MdnsdEffect, d
  <2>6. CASE reply.op = "Remove" /\ Mdnsd!Removed(d)
    <3>1. domainList' = RemoveAll(domainList, {d})
      BY <2>6, SameOperators DEF Mdnsd!Removed
    <3>2. domainList' \in Seq(Mdnsd!Domains) /\ ToSet(domainList') = ToSet(domainList) \ {d}
      BY <1>1, <3>1, RemoveAllElements
    <3>3. LosesDomain(d)
      BY <2>6, <3>2 DEF Mdnsd!Removed, LosesDomain
    <3>4. MdnsdTypes'
      BY <1>1, <2>4, <3>2, <3>3 DEF LosesDomain
    <3> QED
      BY <2>1, <2>3, <2>6, <3>3, <3>4 DEF MdnsdEffect, d
  <2>7. CASE reply.op = "Default" /\ Mdnsd!Skipped
    <3>1. KeepsDomains /\ UNCHANGED leftover
      BY <2>7 DEF Mdnsd!Skipped, KeepsDomains
    <3>2. MdnsdTypes'
      BY <1>1, <2>4, <3>1 DEF KeepsDomains
    <3> QED
      BY <2>1, <2>3, <2>7, <3>1, <3>2 DEF MdnsdEffect
  <2> QED
    BY <1>4, <2>5, <2>6, <2>7 DEF d
<1> QED
  BY <1>3, <1>4 DEF Mdnsd!Process

LEMMA WritesTypes ==
    ASSUME MdnsdTypes, NEW reply \in Mdnsd!Reply, Mdnsd!Send(reply), known' \subseteq Announcements
    PROVE  MdnsdTypes' /\ Writes(reply)
<1>1. bus' \in Seq(Mdnsd!Reply) /\ responder.m_running
  BY DEF MdnsdTypes, Mdnsd!TypeOK, Mdnsd!Send
<1>2. Writes(reply)
  BY DEF Writes, KeepsDomains, Mdnsd!Send
<1> QED
  BY <1>1, <1>2 DEF MdnsdTypes, Mdnsd!TypeOK, Writes, KeepsDomains

LEMMA MdnsdStepEffect ==
    ASSUME MdnsdTypes, Mdnsd!Step
    PROVE  MdnsdTypes' /\ MdnsdEffect
<1>1. ASSUME Mdnsd!StartBrowse
      PROVE  MdnsdTypes' /\ MdnsdEffect
  <2>1. Connected(responder')
    BY <1>1, RequestedFacts DEF MdnsdTypes, Mdnsd!TypeOK, Mdnsd!StartBrowse, Connected
  <2>2. << >> \in Seq(Mdnsd!Reply) /\ responder'.m_running \in BOOLEAN
    BY <2>1 DEF Connected, Mdnsd!Responder
  <2>3. MdnsdTypes'
    BY <1>1, <2>1, <2>2 DEF MdnsdTypes, Mdnsd!TypeOK, Mdnsd!StartBrowse, Connected
  <2> QED
    BY <1>1, <2>3, SameOperators DEF Mdnsd!StartBrowse, MdnsdEffect, KeepsDomains
<1>2. ASSUME NEW a \in Announcements, Mdnsd!Announces(a)
      PROVE  MdnsdTypes' /\ MdnsdEffect
  <2>1. [op |-> "Add", item |-> a] \in Mdnsd!Reply
    BY DEF Mdnsd!Reply, Mdnsd!Operation
  <2>2. known' \subseteq Announcements
    BY <1>2 DEF Mdnsd!Announces, MdnsdTypes, Mdnsd!TypeOK
  <2> QED
    BY <1>2, <2>1, <2>2, WritesTypes DEF Mdnsd!Announces, MdnsdEffect
<1>3. ASSUME NEW a \in Announcements, Mdnsd!Withdraws(a)
      PROVE  MdnsdTypes' /\ MdnsdEffect
  <2>1. [op |-> "Remove", item |-> a] \in Mdnsd!Reply
    BY DEF Mdnsd!Reply, Mdnsd!Operation
  <2>2. known' \subseteq Announcements
    BY <1>3 DEF Mdnsd!Withdraws, MdnsdTypes, Mdnsd!TypeOK
  <2> QED
    BY <1>3, <2>1, <2>2, WritesTypes DEF Mdnsd!Withdraws, MdnsdEffect
<1>4. ASSUME NEW a \in Announcements, Mdnsd!RepeatsDefault(a)
      PROVE  MdnsdTypes' /\ MdnsdEffect
  <2>1. [op |-> "Default", item |-> a] \in Mdnsd!Reply
    BY DEF Mdnsd!Reply, Mdnsd!Operation
  <2>2. known' = known /\ known' \subseteq Announcements
    BY <1>4 DEF Mdnsd!RepeatsDefault, MdnsdTypes, Mdnsd!TypeOK
  <2> QED
    BY <1>4, <2>1, <2>2, WritesTypes DEF Mdnsd!RepeatsDefault, MdnsdEffect
<1>5. ASSUME Mdnsd!BrowsingFails
      PROVE  MdnsdTypes' /\ MdnsdEffect
  <2>1. [op |-> "Error"] \in Mdnsd!Reply
    BY DEF Mdnsd!Reply
  <2>2. known' = known /\ known' \subseteq Announcements
    BY <1>5 DEF Mdnsd!BrowsingFails, MdnsdTypes, Mdnsd!TypeOK
  <2> QED
    BY <1>5, <2>1, <2>2, WritesTypes DEF Mdnsd!BrowsingFails, MdnsdEffect
<1>6. ASSUME Mdnsd!DaemonDies
      PROVE  MdnsdTypes' /\ MdnsdEffect
  <2>1. MdnsdTypes'
    BY <1>6 DEF Mdnsd!DaemonDies, MdnsdTypes, Mdnsd!TypeOK
  <2> QED
    BY <1>6, <2>1 DEF Mdnsd!DaemonDies, MdnsdEffect, KeepsDomains
<1>7. Mdnsd!ProcessFails => MdnsdTypes' /\ MdnsdEffect
  BY DisconnectEffect DEF Mdnsd!ProcessFails
<1> QED
  BY <1>1, <1>2, <1>3, <1>4, <1>5, <1>6, <1>7, ProcessEffect DEF Mdnsd!Step

-----------------------------------------------------------------------------
(***************************************************************************)
(* Avahi.  The queue leads from what the browser has heard to what the     *)
(* daemon has announced, and the list follows what has been heard.         *)
(***************************************************************************)
AvahiGains == [s \in Avahi!Signal |-> IF s.kind = "ItemNew" THEN {s.item} ELSE {}]
AvahiLoses == [s \in Avahi!Signal |-> IF s.kind = "ItemRemove" THEN {s.item} ELSE {}]

AvahiListed == domainSet \ LeavingOf(suspended)

AvahiFollows(H) ==
    /\ \A d \in AvahiListed : d \in Avahi!DecodedConfig \/ Avahi!Sources(d) \cap H # {}
    /\ \A a \in H :
         /\ Avahi!Sources(Avahi!Decoded(a)) = {a}
         /\ Avahi!Decoded(a) \notin Avahi!DecodedConfig \cup disturbed
         => Avahi!Decoded(a) \in AvahiListed

AvahiHeard(H) ==
    /\ H \subseteq Announcements
    /\ Connects(bus, AvahiGains, AvahiLoses, H, known)
    /\ AvahiFollows(H)

AvahiQueue == served => \E H : AvahiHeard(H)

LEMMA AvahiSignals ==
    ASSUME NEW a \in Announcements
    PROVE  /\ [kind |-> "ItemNew", item |-> a] \in Avahi!Signal
           /\ [kind |-> "ItemRemove", item |-> a] \in Avahi!Signal
           /\ AvahiGains[[kind |-> "ItemNew", item |-> a]] = {a}
           /\ AvahiLoses[[kind |-> "ItemNew", item |-> a]] = {}
           /\ AvahiGains[[kind |-> "ItemRemove", item |-> a]] = {}
           /\ AvahiLoses[[kind |-> "ItemRemove", item |-> a]] = {a}
  BY DEF Avahi!Signal, AvahiGains, AvahiLoses

LEMMA AvahiSources ==
    \A d : \A a \in Announcements : a \in Avahi!Sources(d) <=> Avahi!Decoded(a) = d
  BY DEF Avahi!Sources

LEMMA AvahiQueueKept ==
    ASSUME AvahiTypes, AvahiTypes', AvahiQueue, AvahiEffect, served'
    PROVE  AvahiQueue'
<1>1. bus \in Seq(Avahi!Signal) /\ known \subseteq Announcements
  BY DEF AvahiTypes, Avahi!TypeOK
<1>2. CASE StartsBrowsing
  <2>1. /\ ~m_started /\ bus = << >> /\ ~served /\ domainSet = {} /\ known = {}
        /\ bus' = << >> /\ known' = {} /\ domainSet' = {}
    BY <1>2 DEF StartsBrowsing, LeavesList, AvahiTypes, Avahi!TypeOK
  <2>2. Connects(bus', AvahiGains, AvahiLoses, {}, known')
    BY <2>1, EmptyConnects
  <2>3. AvahiFollows({})'
    BY <2>1 DEF AvahiFollows, AvahiListed
  <2> QED
    BY <2>2, <2>3 DEF AvahiQueue, AvahiHeard
<1>3. CASE ~StartsBrowsing
  <2>1. served
    BY <1>3 DEF AvahiEffect, Hears, Tells, Daemon
  <2>2. PICK H : AvahiHeard(H)
    BY <2>1 DEF AvahiQueue
  <2>3. /\ H \subseteq Announcements /\ Connects(bus, AvahiGains, AvahiLoses, H, known)
        /\ AvahiFollows(H)
    BY <2>2 DEF AvahiHeard
  <2>4. ASSUME NEW a \in Announcements, Hears("ItemNew", a), Adds(Avahi!Decoded(a))
        PROVE  AvahiHeard(H \cup {a})'
    <3>1. Connects(bus', AvahiGains, AvahiLoses, H \cup {a}, known')
      <4>1. Connects(Tail(bus), AvahiGains, AvahiLoses,
                     (H \ AvahiLoses[Head(bus)]) \cup AvahiGains[Head(bus)], known)
        BY <1>1, <2>3, <2>4, TailConnects DEF Hears
      <4>2. AvahiGains[Head(bus)] = {a} /\ AvahiLoses[Head(bus)] = {}
        BY <2>4, AvahiSignals DEF Hears
      <4>3. (H \ AvahiLoses[Head(bus)]) \cup AvahiGains[Head(bus)] = H \cup {a}
        BY <4>2
      <4> QED
        BY <2>4, <4>1, <4>3 DEF Hears
    <3>2. AvahiFollows(H \cup {a})'
      BY <2>3, <2>4, AvahiSources DEF AvahiFollows, AvahiListed, Adds, Deals
    <3> QED
      BY <2>3, <3>1, <3>2 DEF AvahiHeard
  <2>5. ASSUME NEW a \in Announcements, Hears("ItemRemove", a), Removes(Avahi!Decoded(a))
        PROVE  AvahiHeard(H \ {a})'
    <3>1. Connects(bus', AvahiGains, AvahiLoses, H \ {a}, known')
      <4>1. Connects(Tail(bus), AvahiGains, AvahiLoses,
                     (H \ AvahiLoses[Head(bus)]) \cup AvahiGains[Head(bus)], known)
        BY <1>1, <2>3, <2>5, TailConnects DEF Hears
      <4>2. AvahiGains[Head(bus)] = {} /\ AvahiLoses[Head(bus)] = {a}
        BY <2>5, AvahiSignals DEF Hears
      <4>3. (H \ AvahiLoses[Head(bus)]) \cup AvahiGains[Head(bus)] = H \ {a}
        BY <4>2
      <4> QED
        BY <2>5, <4>1, <4>3 DEF Hears
    <3> DEFINE d == Avahi!Decoded(a)
    <3>2. AvahiListed' = AvahiListed \ {d} /\ disturbed \subseteq disturbed'
      BY <2>5 DEF AvahiListed, Removes, Deals
    <3>3. \A e \in AvahiListed' : e \in Avahi!DecodedConfig \/ Avahi!Sources(e) \cap (H \ {a}) # {}
      <4> TAKE e \in AvahiListed'
      <4>1. e # d /\ (e \in Avahi!DecodedConfig \/ Avahi!Sources(e) \cap H # {})
        BY <2>3, <3>2 DEF AvahiFollows
      <4>2. a \notin Avahi!Sources(e)
        BY <4>1, AvahiSources
      <4> QED
        BY <4>1, <4>2
    <3>4. \A b \in H \ {a} : Avahi!Sources(Avahi!Decoded(b)) = {b} => Avahi!Decoded(b) # d
      <4> TAKE b \in H \ {a}
      <4>1. Avahi!Decoded(b) = d => a \in Avahi!Sources(Avahi!Decoded(b))
        BY AvahiSources
      <4> QED
        BY <4>1
    <3>5. AvahiFollows(H \ {a})'
      BY <2>3, <3>2, <3>3, <3>4 DEF AvahiFollows
    <3> QED
      BY <2>3, <3>1, <3>5 DEF AvahiHeard
  <2>6. ASSUME NEW d \in Avahi!DecodedConfig, Adds(d), UNCHANGED Daemon
        PROVE  AvahiHeard(H)'
    <3>1. AvahiFollows(H)'
      BY <2>3, <2>6 DEF AvahiFollows, AvahiListed, Adds, Deals
    <3> QED
      BY <2>3, <2>6, <3>1 DEF AvahiHeard, Daemon
  <2>7. ASSUME NEW d, TakesOff(d), UNCHANGED Daemon
        PROVE  AvahiHeard(H)'
    <3>1. AvahiListed' = AvahiListed /\ disturbed' = disturbed
      BY <2>7 DEF AvahiListed, TakesOff
    <3> QED
      BY <2>3, <2>7, <3>1 DEF AvahiHeard, AvahiFollows, Daemon
  <2>8. ASSUME LeavesList
        PROVE  AvahiFollows(H)'
    BY <2>3, <2>8 DEF AvahiFollows, AvahiListed, LeavesList
  <2>9. ASSUME NEW a \in Announcements, LeavesList,
               \/ Tells("ItemNew", a) /\ a \notin known /\ known' = known \cup {a}
               \/ Tells("ItemRemove", a) /\ a \in known /\ known' = known \ {a}
        PROVE  AvahiHeard(H)'
    <3>1. CASE Tells("ItemNew", a) /\ a \notin known /\ known' = known \cup {a}
      <4> DEFINE e == [kind |-> "ItemNew", item |-> a]
      <4>1. e \in Avahi!Signal /\ AvahiGains[e] = {a} /\ AvahiLoses[e] = {} /\ bus' = Append(bus, e)
        BY <3>1, AvahiSignals DEF Tells
      <4> HIDE DEF e
      <4>2. Connects(bus', AvahiGains, AvahiLoses, H, (known \ AvahiLoses[e]) \cup AvahiGains[e])
        BY <1>1, <2>3, <3>1, <4>1, AppendConnects
      <4>3. (known \ AvahiLoses[e]) \cup AvahiGains[e] = known'
        BY <3>1, <4>1
      <4> QED
        BY <2>3, <2>8, <2>9, <4>2, <4>3 DEF AvahiHeard
    <3>2. CASE Tells("ItemRemove", a) /\ a \in known /\ known' = known \ {a}
      <4> DEFINE e == [kind |-> "ItemRemove", item |-> a]
      <4>1. e \in Avahi!Signal /\ AvahiGains[e] = {} /\ AvahiLoses[e] = {a} /\ bus' = Append(bus, e)
        BY <3>2, AvahiSignals DEF Tells
      <4> HIDE DEF e
      <4>2. Connects(bus', AvahiGains, AvahiLoses, H, (known \ AvahiLoses[e]) \cup AvahiGains[e])
        BY <1>1, <2>3, <3>2, <4>1, AppendConnects
      <4>3. (known \ AvahiLoses[e]) \cup AvahiGains[e] = known'
        BY <3>2, <4>1
      <4> QED
        BY <2>3, <2>8, <2>9, <4>2, <4>3 DEF AvahiHeard
    <3> QED
      BY <2>9, <3>1, <3>2
  <2>10. \E G : AvahiHeard(G)'
    BY <1>3, <2>4, <2>5, <2>6, <2>7, <2>9 DEF AvahiEffect
  <2> QED
    BY <2>10 DEF AvahiQueue
<1> QED
  BY <1>2, <1>3

\* With no signal about it queued, the sources of a domain that have been heard of
\* are those that the daemon has announced.
LEMMA AvahiIsCurrent == AvahiTypes /\ AvahiQueue => Avahi!ListIsCurrent
<1> SUFFICES ASSUME AvahiTypes, AvahiQueue, served, NEW d \in Avahi!Domains, ~Avahi!Mentioned(d)
             PROVE  /\ d \in AvahiListed => Avahi!Sources(d) \cap known # {} \/ d \in Avahi!DecodedConfig
                    /\ \A a \in known : Avahi!Sources(d) = {a} /\ d \notin Avahi!DecodedConfig \cup disturbed
                          => d \in AvahiListed
  BY LeavingIsOf DEF Avahi!ListIsCurrent, Avahi!Listed, AvahiListed
<1>1. PICK H : AvahiHeard(H)
  BY DEF AvahiQueue
<1>2. /\ H \subseteq Announcements /\ Connects(bus, AvahiGains, AvahiLoses, H, known)
      /\ AvahiFollows(H)
  BY <1>1 DEF AvahiHeard
<1>3. bus \in Seq(Avahi!Signal) /\ known \subseteq Announcements
  BY DEF AvahiTypes, Avahi!TypeOK
<1>4. ASSUME NEW a \in Avahi!Sources(d)
      PROVE  a \in H <=> a \in known
  <2>1. Avahi!Decoded(a) = d
    BY DEF Avahi!Sources
  <2>2. \A i \in DOMAIN bus : bus[i] \in Avahi!Signal /\ bus[i].item # a
    BY <1>3, <2>1, ListBasics DEF Avahi!Mentioned
  <2>3. \A i \in DOMAIN bus : a \notin AvahiGains[bus[i]] \cup AvahiLoses[bus[i]]
    BY <2>2 DEF AvahiGains, AvahiLoses
  <2> QED
    BY <1>2, <1>3, <2>3, UnmentionedIsHeard
<1>5. d \in AvahiListed => Avahi!Sources(d) \cap known # {} \/ d \in Avahi!DecodedConfig
  BY <1>2, <1>4 DEF AvahiFollows
<1>6. ASSUME NEW a \in known, Avahi!Sources(d) = {a}, d \notin Avahi!DecodedConfig \cup disturbed
      PROVE  d \in AvahiListed
  <2>1. Avahi!Decoded(a) = d /\ a \in H
    BY <1>3, <1>4, <1>6, AvahiSources
  <2> QED
    BY <1>2, <1>6, <2>1 DEF AvahiFollows
<1> QED
  BY <1>5, <1>6

-----------------------------------------------------------------------------
(***************************************************************************)
(* mdnsd.  The same for the replies on the connection.                     *)
(***************************************************************************)
MdnsdGains == [r \in Mdnsd!Reply |-> IF r.op = "Add" THEN {r.item} ELSE {}]
MdnsdLoses == [r \in Mdnsd!Reply |-> IF r.op = "Remove" THEN {r.item} ELSE {}]

MdnsdFollows(H) ==
    /\ \A d \in ToSet(domainList) : d \in leftover \/ Mdnsd!Sources(d) \cap H # {}
    /\ \A a \in H : Mdnsd!Sources(Mdnsd!Decoded(a)) = {a} => Mdnsd!Decoded(a) \in ToSet(domainList)

MdnsdHeard(H) ==
    /\ H \subseteq Announcements
    /\ Connects(bus, MdnsdGains, MdnsdLoses, H, known)
    /\ MdnsdFollows(H)

MdnsdQueue == served => \E H : MdnsdHeard(H)

LEMMA MdnsdReplies ==
    ASSUME NEW a \in Announcements
    PROVE  /\ \A op \in {"Add", "Remove", "Default"} : [op |-> op, item |-> a] \in Mdnsd!Reply
           /\ [op |-> "Error"] \in Mdnsd!Reply
           /\ MdnsdGains[[op |-> "Add", item |-> a]] = {a}
           /\ MdnsdLoses[[op |-> "Add", item |-> a]] = {}
           /\ MdnsdGains[[op |-> "Remove", item |-> a]] = {}
           /\ MdnsdLoses[[op |-> "Remove", item |-> a]] = {a}
           /\ MdnsdGains[[op |-> "Default", item |-> a]] = {}
           /\ MdnsdLoses[[op |-> "Default", item |-> a]] = {}
  BY DEF Mdnsd!Reply, Mdnsd!Operation, MdnsdGains, MdnsdLoses

LEMMA MdnsdError ==
    /\ [op |-> "Error"] \in Mdnsd!Reply
    /\ MdnsdGains[[op |-> "Error"]] = {} /\ MdnsdLoses[[op |-> "Error"]] = {}
  BY DEF Mdnsd!Reply, MdnsdGains, MdnsdLoses

LEMMA MdnsdSources ==
    \A d : \A a \in Announcements : a \in Mdnsd!Sources(d) <=> Mdnsd!Decoded(a) = d
  BY DEF Mdnsd!Sources

\* What a reply that is written or read does to the two ends.
LEMMA WritesConnects ==
    ASSUME MdnsdTypes, NEW reply \in Mdnsd!Reply, Writes(reply), NEW H, MdnsdHeard(H),
           MdnsdGains[reply] \cap known = {}, MdnsdLoses[reply] \subseteq known,
           known' = (known \ MdnsdLoses[reply]) \cup MdnsdGains[reply]
    PROVE  MdnsdHeard(H)'
<1>1. bus \in Seq(Mdnsd!Reply) /\ bus' = Append(bus, reply)
  BY DEF MdnsdTypes, Mdnsd!TypeOK, Writes
<1>2. H \subseteq Announcements /\ Connects(bus, MdnsdGains, MdnsdLoses, H, known) /\ MdnsdFollows(H)
  BY DEF MdnsdHeard
<1>3. Connects(bus', MdnsdGains, MdnsdLoses, H, known')
  BY <1>1, <1>2, AppendConnects
<1>4. MdnsdFollows(H)'
  BY <1>2 DEF MdnsdFollows, Writes, KeepsDomains
<1> QED
  BY <1>2, <1>3, <1>4 DEF MdnsdHeard

LEMMA ReadsConnects ==
    ASSUME MdnsdTypes, NEW op \in {"Add", "Remove", "Default"}, NEW a \in Announcements,
           Reads(op, a), NEW H, MdnsdHeard(H)
    PROVE  Connects(bus', MdnsdGains, MdnsdLoses,
                    (H \ MdnsdLoses[[op |-> op, item |-> a]]) \cup MdnsdGains[[op |-> op, item |-> a]],
                    known')
<1>1. /\ bus \in Seq(Mdnsd!Reply) /\ bus # << >> /\ bus' = Tail(bus) /\ known' = known
      /\ Head(bus) = [op |-> op, item |-> a]
  BY DEF MdnsdTypes, Mdnsd!TypeOK, Reads
<1>2. Connects(bus, MdnsdGains, MdnsdLoses, H, known)
  BY DEF MdnsdHeard
<1>3. Connects(Tail(bus), MdnsdGains, MdnsdLoses,
               (H \ MdnsdLoses[Head(bus)]) \cup MdnsdGains[Head(bus)], known)
  BY <1>1, <1>2, TailConnects
<1> QED
  BY <1>1, <1>3

LEMMA MdnsdQueueKept ==
    ASSUME MdnsdTypes, MdnsdTypes', MdnsdQueue, MdnsdEffect, served'
    PROVE  MdnsdQueue'
<1>1. CASE /\ ~responder.m_running /\ known' = {} /\ bus' = << >>
           /\ leftover' = ToSet(domainList) /\ KeepsDomains
  <2>1. Connects(bus', MdnsdGains, MdnsdLoses, {}, known')
    BY <1>1, EmptyConnects
  <2>2. MdnsdFollows({})'
    BY <1>1 DEF MdnsdFollows, KeepsDomains
  <2> QED
    BY <2>1, <2>2 DEF MdnsdQueue, MdnsdHeard
<1>2. CASE responder.m_running
  <2>1. served
    BY <1>2 DEF MdnsdEffect, Reads, Writes, MdnsdTypes, Mdnsd!TypeOK
  <2>2. PICK H : MdnsdHeard(H)
    BY <2>1 DEF MdnsdQueue
  <2>3. H \subseteq Announcements /\ MdnsdFollows(H)
    BY <2>2 DEF MdnsdHeard
  <2>4. ASSUME NEW a \in Announcements, Reads("Add", a), GainsDomain(Mdnsd!Decoded(a))
        PROVE  MdnsdHeard(H \cup {a})'
    <3>1. Connects(bus', MdnsdGains, MdnsdLoses,
                   (H \ MdnsdLoses[[op |-> "Add", item |-> a]]) \cup MdnsdGains[[op |-> "Add", item |-> a]],
                   known')
      BY <2>2, <2>4, ReadsConnects
    <3>2. (H \ MdnsdLoses[[op |-> "Add", item |-> a]]) \cup MdnsdGains[[op |-> "Add", item |-> a]]
              = H \cup {a}
      BY MdnsdReplies
    <3>3. Connects(bus', MdnsdGains, MdnsdLoses, H \cup {a}, known')
      BY <3>1, <3>2
    <3>4. MdnsdFollows(H \cup {a})'
      BY <2>3, <2>4, MdnsdSources DEF MdnsdFollows, GainsDomain
    <3> QED
      BY <2>3, <3>3, <3>4 DEF MdnsdHeard
  <2>5. ASSUME NEW a \in Announcements, Reads("Remove", a), LosesDomain(Mdnsd!Decoded(a))
        PROVE  MdnsdHeard(H \ {a})'
    <3> DEFINE d == Mdnsd!Decoded(a)
    <3>1. Connects(bus', MdnsdGains, MdnsdLoses,
                   (H \ MdnsdLoses[[op |-> "Remove", item |-> a]]) \cup MdnsdGains[[op |-> "Remove", item |-> a]],
                   known')
      BY <2>2, <2>5, ReadsConnects
    <3>2. (H \ MdnsdLoses[[op |-> "Remove", item |-> a]]) \cup MdnsdGains[[op |-> "Remove", item |-> a]]
              = H \ {a}
      BY MdnsdReplies
    <3>3. Connects(bus', MdnsdGains, MdnsdLoses, H \ {a}, known')
      BY <3>1, <3>2
    <3>4. ToSet(domainList') = ToSet(domainList) \ {d} /\ leftover' = leftover \ {d}
      BY <2>5 DEF LosesDomain
    <3>5. \A e \in ToSet(domainList') : e \in leftover' \/ Mdnsd!Sources(e) \cap (H \ {a}) # {}
      <4> TAKE e \in ToSet(domainList')
      <4>1. e # d /\ (e \in leftover \/ Mdnsd!Sources(e) \cap H # {})
        BY <2>3, <3>4 DEF MdnsdFollows
      <4>2. a \notin Mdnsd!Sources(e)
        BY <4>1, MdnsdSources
      <4> QED
        BY <3>4, <4>1, <4>2
    <3>6. \A b \in H \ {a} : Mdnsd!Sources(Mdnsd!Decoded(b)) = {b} => Mdnsd!Decoded(b) # d
      <4> TAKE b \in H \ {a}
      <4>1. Mdnsd!Decoded(b) = d => a \in Mdnsd!Sources(Mdnsd!Decoded(b))
        BY MdnsdSources
      <4> QED
        BY <4>1
    <3>7. MdnsdFollows(H \ {a})'
      BY <2>3, <3>4, <3>5, <3>6 DEF MdnsdFollows
    <3> QED
      BY <2>3, <3>3, <3>7 DEF MdnsdHeard
  <2>6. ASSUME NEW a \in Announcements, Reads("Default", a), KeepsDomains, UNCHANGED leftover
        PROVE  MdnsdHeard(H)'
    <3>1. Connects(bus', MdnsdGains, MdnsdLoses,
                   (H \ MdnsdLoses[[op |-> "Default", item |-> a]]) \cup MdnsdGains[[op |-> "Default", item |-> a]],
                   known')
      BY <2>2, <2>6, ReadsConnects
    <3>2. (H \ MdnsdLoses[[op |-> "Default", item |-> a]]) \cup MdnsdGains[[op |-> "Default", item |-> a]]
              = H
      BY MdnsdReplies
    <3>3. Connects(bus', MdnsdGains, MdnsdLoses, H, known')
      BY <3>1, <3>2
    <3>4. MdnsdFollows(H)'
      BY <2>3, <2>6 DEF MdnsdFollows, KeepsDomains
    <3> QED
      BY <2>3, <3>3, <3>4 DEF MdnsdHeard
  <2>7. ASSUME NEW a \in Announcements, Writes([op |-> "Add", item |-> a]),
               a \notin known, known' = known \cup {a}
        PROVE  MdnsdHeard(H)'
    <3> DEFINE e == [op |-> "Add", item |-> a]
    <3>1. e \in Mdnsd!Reply /\ MdnsdGains[e] = {a} /\ MdnsdLoses[e] = {} /\ Writes(e)
      BY <2>7, MdnsdReplies
    <3> HIDE DEF e
    <3>2. /\ MdnsdGains[e] \cap known = {} /\ MdnsdLoses[e] \subseteq known
          /\ known' = (known \ MdnsdLoses[e]) \cup MdnsdGains[e]
      BY <2>7, <3>1
    <3> QED
      BY <2>2, <3>1, <3>2, WritesConnects
  <2>8. ASSUME NEW a \in Announcements, Writes([op |-> "Remove", item |-> a]),
               a \in known, known' = known \ {a}
        PROVE  MdnsdHeard(H)'
    <3> DEFINE e == [op |-> "Remove", item |-> a]
    <3>1. e \in Mdnsd!Reply /\ MdnsdGains[e] = {} /\ MdnsdLoses[e] = {a} /\ Writes(e)
      BY <2>8, MdnsdReplies
    <3> HIDE DEF e
    <3>2. /\ MdnsdGains[e] \cap known = {} /\ MdnsdLoses[e] \subseteq known
          /\ known' = (known \ MdnsdLoses[e]) \cup MdnsdGains[e]
      BY <2>8, <3>1
    <3> QED
      BY <2>2, <3>1, <3>2, WritesConnects
  <2>9. ASSUME NEW a \in Announcements, Writes([op |-> "Default", item |-> a]), known' = known
        PROVE  MdnsdHeard(H)'
    <3> DEFINE e == [op |-> "Default", item |-> a]
    <3>1. e \in Mdnsd!Reply /\ MdnsdGains[e] = {} /\ MdnsdLoses[e] = {} /\ Writes(e)
      BY <2>9, MdnsdReplies
    <3> HIDE DEF e
    <3>2. /\ MdnsdGains[e] \cap known = {} /\ MdnsdLoses[e] \subseteq known
          /\ known' = (known \ MdnsdLoses[e]) \cup MdnsdGains[e]
      BY <2>9, <3>1
    <3> QED
      BY <2>2, <3>1, <3>2, WritesConnects
  <2>10. ASSUME Writes([op |-> "Error"]), known' = known
         PROVE  MdnsdHeard(H)'
    BY <2>2, <2>10, MdnsdError, WritesConnects
  <2>11. \E G : MdnsdHeard(G)'
    BY <1>2, <2>4, <2>5, <2>6, <2>7, <2>8, <2>9, <2>10 DEF MdnsdEffect
  <2> QED
    BY <2>11 DEF MdnsdQueue
<1>3. responder.m_running \/ ( /\ ~responder.m_running /\ known' = {} /\ bus' = << >>
                               /\ leftover' = ToSet(domainList) /\ KeepsDomains )
  BY DEF MdnsdEffect, Reads, Writes, MdnsdTypes, Mdnsd!TypeOK
<1> QED
  BY <1>1, <1>2, <1>3

LEMMA MdnsdIsCurrent == MdnsdTypes /\ MdnsdQueue => Mdnsd!ListIsCurrent
<1> SUFFICES ASSUME MdnsdTypes, MdnsdQueue, served, NEW d \in Mdnsd!Domains, ~Mdnsd!Mentioned(d)
             PROVE  /\ Mdnsd!Contains(domainList, d) => Mdnsd!Sources(d) \cap known # {} \/ d \in leftover
                    /\ \A a \in known : Mdnsd!Sources(d) = {a} => Mdnsd!Contains(domainList, d)
  BY DEF Mdnsd!ListIsCurrent
<1>1. PICK H : MdnsdHeard(H)
  BY DEF MdnsdQueue
<1>2. /\ H \subseteq Announcements /\ Connects(bus, MdnsdGains, MdnsdLoses, H, known)
      /\ MdnsdFollows(H)
  BY <1>1 DEF MdnsdHeard
<1>3. /\ bus \in Seq(Mdnsd!Reply) /\ known \subseteq Announcements
      /\ domainList \in Seq(Mdnsd!Domains)
  BY DEF MdnsdTypes, Mdnsd!TypeOK
<1>4. Mdnsd!Contains(domainList, d) <=> d \in ToSet(domainList)
  BY <1>3, ContainsIsIn, SameOperators
<1>5. ASSUME NEW a \in Mdnsd!Sources(d)
      PROVE  a \in H <=> a \in known
  <2>1. Mdnsd!Decoded(a) = d
    BY DEF Mdnsd!Sources
  <2>2. \A i \in DOMAIN bus : bus[i] \in Mdnsd!Reply /\ (bus[i].op # "Error" => bus[i].item # a)
    BY <1>3, <2>1, ListBasics DEF Mdnsd!Mentioned
  <2>3. \A i \in DOMAIN bus : a \notin MdnsdGains[bus[i]] \cup MdnsdLoses[bus[i]]
    BY <2>2 DEF MdnsdGains, MdnsdLoses
  <2> QED
    BY <1>2, <1>3, <2>3, UnmentionedIsHeard
<1>6. d \in ToSet(domainList) => Mdnsd!Sources(d) \cap known # {} \/ d \in leftover
  BY <1>2, <1>5 DEF MdnsdFollows
<1>7. ASSUME NEW a \in known, Mdnsd!Sources(d) = {a}
      PROVE  d \in ToSet(domainList)
  <2>1. Mdnsd!Decoded(a) = d /\ a \in H
    BY <1>3, <1>5, <1>7, MdnsdSources
  <2> QED
    BY <1>2, <1>7, <2>1 DEF MdnsdFollows
<1> QED
  BY <1>4, <1>6, <1>7

-----------------------------------------------------------------------------
(***************************************************************************)
(* The inductive invariant.  The backend that is not in use keeps its      *)
(* initial state.  A handler that has still to take a domain off may make  *)
(* the layout one domain too long, so the room for suspended handlers and  *)
(* the superfluous domains of the layout are bounded together.             *)
(***************************************************************************)
AvahiView ==
    /\ domainSet \subseteq laidOut /\ laidOut \subseteq Avahi!Domains
    /\ IsFiniteSet(domainSet) /\ IsFiniteSet(laidOut \ domainSet)
    /\ Cardinality(laidOut \ domainSet) + Len(suspended) <= MaxNesting + 1
    /\ ~m_started => laidOut = {}

AvahiInv ==
    /\ AvahiTypes /\ AvahiQueue /\ AvahiView
    /\ responder = Mdnsd!NoConnection /\ domainList = << >>

MdnsdInv ==
    /\ MdnsdTypes /\ MdnsdQueue
    /\ laidOut = ToSet(domainList)
    /\ m_started = FALSE /\ m_browser = FALSE
    /\ domainSet = {} /\ suspended = << >> /\ disturbed = {}

IInv ==
    /\ backend \in {"avahi", "mdnsd"}
    /\ backend = "avahi" => AvahiInv
    /\ backend = "mdnsd" => MdnsdInv

LEMMA InvShows == IInv => Shown = Listed
<1>1. IInv => ListIsFinite
  BY DEF IInv, ListIsFinite, AvahiInv, AvahiView, MdnsdInv, MdnsdTypes, Mdnsd!TypeOK
<1> QED
  BY <1>1, ShownIsListed

\* layoutChanged() makes the view lay out what is listed then.
LEMMA RelayoutFacts ==
    ASSUME Relayout, ListIsFinite'
    PROVE  laidOut' = IF said' # {} THEN Listed' ELSE laidOut
<1>1. (ListIsFinite => Shown = Listed)'
  BY ShownIsListed, PTL
<1> QED
  BY <1>1 DEF Relayout

LEMMA AvahiViewKept ==
    ASSUME AvahiTypes, AvahiTypes', AvahiView, AvahiEffect, Relayout,
           backend = "avahi", backend' = "avahi"
    PROVE  AvahiView'
<1>1. /\ domainSet' \subseteq Avahi!Domains /\ Len(suspended) \in Nat /\ Len(suspended') \in Nat
  BY ListBasics DEF AvahiTypes, Avahi!TypeOK
<1>2. IsFiniteSet(domainSet')
  <2>1. \A d : IsFiniteSet(domainSet \cup {d}) /\ IsFiniteSet(domainSet \ {d})
    BY FS_AddElement, FS_RemoveElement DEF AvahiView
  <2> QED
    BY <2>1 DEF AvahiView, AvahiEffect, Adds, Removes, TakesOff, LeavesList, StartsBrowsing
<1>3. laidOut' = IF said' # {} THEN domainSet' ELSE laidOut
  BY <1>2, RelayoutFacts DEF ListIsFinite, Listed
<1>4. Cardinality({}) = 0 /\ IsFiniteSet({})
  BY FS_EmptySet
<1>5. Cardinality(laidOut \ domainSet) \in Nat
  BY FS_CardinalityType DEF AvahiView
\* The layout is read, and holds nothing else.
<1>6. ASSUME said' # {}, Len(suspended') <= MaxNesting + 1, m_started'
      PROVE  AvahiView'
  <2>1. laidOut' = domainSet' /\ laidOut' \ domainSet' = {}
    BY <1>3, <1>6
  <2>2. Cardinality(laidOut' \ domainSet') + Len(suspended') <= MaxNesting + 1
    <3>1. Cardinality(laidOut' \ domainSet') = 0
      BY <1>4, <2>1
    <3>2. Len(suspended') \in Nat /\ 0 + Len(suspended') = Len(suspended')
      BY <1>1
    <3> QED
      BY <1>6, <3>1, <3>2
  <2>3. IsFiniteSet(laidOut' \ domainSet')
    BY <1>4, <2>1
  <2> QED
    BY <1>1, <1>2, <1>6, <2>1, <2>2, <2>3 DEF AvahiView
\* The list and the layout stay.
<1>7. ASSUME said' = {}, domainSet' = domainSet, Len(suspended') <= Len(suspended), m_started' = m_started
      PROVE  AvahiView'
  <2>1. laidOut' = laidOut /\ laidOut' \ domainSet' = laidOut \ domainSet
    BY <1>3, <1>7
  <2>2. Cardinality(laidOut' \ domainSet') + Len(suspended') <= MaxNesting + 1
    BY <1>1, <1>5, <1>7, <2>1, BoundsAssumption DEF AvahiView
  <2> QED
    BY <1>2, <1>7, <2>1, <2>2 DEF AvahiView
<1>8. (bus # << >> \/ suspended # << >> \/ m_browser) => m_started = TRUE
  BY DEF AvahiTypes, Avahi!TypeOK
<1>9. CASE StartsBrowsing
  <2>1. /\ laidOut = {} /\ laidOut' = {} /\ domainSet' = {} /\ m_started' = TRUE
        /\ Len(suspended') <= 1
    BY <1>3, <1>9 DEF StartsBrowsing, LeavesList, AvahiView
  <2>2. laidOut' \ domainSet' = {} /\ IsFiniteSet(laidOut' \ domainSet')
    BY <1>4, <2>1
  <2>3. Cardinality(laidOut' \ domainSet') + Len(suspended') <= MaxNesting + 1
    BY <1>1, <1>4, <2>1, <2>2, BoundsAssumption
  <2> QED
    BY <1>2, <2>1, <2>2, <2>3 DEF AvahiView
<1>10. ASSUME NEW d, Adds(d), Steady, m_started = TRUE
       PROVE  AvahiView'
  <2>1. CASE d \in domainSet
    <3>1. domainSet' = domainSet /\ said' = {}
      BY <1>10, <2>1 DEF Adds
    <3> QED
      BY <1>7, <1>10, <3>1 DEF Adds, Steady
  <2>2. CASE d \notin domainSet
    <3>1. said' # {}
      BY <1>10, <2>2 DEF Adds
    <3>2. Len(suspended') <= MaxNesting + 1
      BY <1>1, <1>5, <1>10, BoundsAssumption DEF Adds, AvahiView
    <3> QED
      BY <1>6, <1>10, <3>1, <3>2 DEF Steady
  <2> QED
    BY <2>1, <2>2
<1>11. ASSUME NEW d, Removes(d), Steady, m_started = TRUE
       PROVE  AvahiView'
  <2>1. CASE d \in domainSet
    <3>1. said' # {} /\ Len(suspended') <= MaxNesting + 1
      BY <1>11, <2>1 DEF Removes
    <3> QED
      BY <1>6, <1>11, <3>1 DEF Steady
  <2>2. CASE d \notin domainSet
    BY <1>1, <1>7, <1>11, <2>2 DEF Removes, Steady
  <2> QED
    BY <2>1, <2>2
<1>12. ASSUME NEW d \in Avahi!Domains, TakesOff(d), Steady
       PROVE  AvahiView'
  <2> DEFINE more == laidOut \ domainSet
  <2>1. /\ laidOut' = laidOut /\ domainSet' = domainSet \ {d}
        /\ Len(suspended') = Len(suspended) - 1
        /\ m_started' = m_started
    BY <1>3, <1>12 DEF TakesOff, Steady
  <2>2. laidOut' \ domainSet' = more \/ laidOut' \ domainSet' = more \cup {d}
    BY <2>1
  <2>3. IsFiniteSet(more) /\ Cardinality(more) \in Nat
    BY <1>5 DEF AvahiView
  <2>4. Cardinality(more) + Len(suspended) <= MaxNesting + 1
    BY DEF AvahiView
  <2> HIDE DEF more
  <2>5. /\ IsFiniteSet(more \cup {d})
        /\ Cardinality(more \cup {d}) \in {Cardinality(more), Cardinality(more) + 1}
    BY <2>3, FS_AddElement
  <2>6. Cardinality(laidOut' \ domainSet') \in {Cardinality(more), Cardinality(more) + 1}
    BY <2>2, <2>5
  <2>7. Cardinality(laidOut' \ domainSet') + Len(suspended') <= MaxNesting + 1
    BY <1>1, <2>1, <2>3, <2>4, <2>6, BoundsAssumption
  <2>8. IsFiniteSet(laidOut' \ domainSet')
    BY <2>2, <2>3, <2>5
  <2> QED
    BY <1>2, <2>1, <2>7, <2>8 DEF AvahiView
<1>13. ASSUME LeavesList, Steady, suspended' = suspended
       PROVE  AvahiView'
  BY <1>1, <1>7, <1>13 DEF LeavesList, Steady
<1> QED
  BY <1>8, <1>9, <1>10, <1>11, <1>12, <1>13 DEF AvahiEffect, Hears

-----------------------------------------------------------------------------
LEMMA InitInv == Init => IInv
<1> SUFFICES ASSUME Init PROVE IInv
  OBVIOUS
<1>1. /\ backend \in {"avahi", "mdnsd"} /\ laidOut = {}
      /\ m_type \in {"Browsing", "Publishing"} /\ m_started = FALSE /\ m_browser = FALSE
      /\ domainSet = {} /\ suspended = << >> /\ bus = << >> /\ served = FALSE /\ known = {}
      /\ disturbed = {} /\ responder = Mdnsd!NoConnection /\ domainList = << >> /\ leftover = {}
  BY DEF Init, Avahi!Init, Mdnsd!Init
<1>2. /\ << >> \in Seq(Frame) /\ << >> \in Seq(Avahi!Handler) /\ << >> \in Seq(Avahi!Signal)
      /\ << >> \in Seq(Mdnsd!Domains) /\ << >> \in Seq(Mdnsd!Reply) /\ Len(<< >>) = 0
      /\ ToSet(<< >>) = {}
  BY DEF ToSet
<1>3. AvahiTypes
  BY <1>1, <1>2 DEF AvahiTypes, Avahi!TypeOK
<1>4. AvahiView
  BY <1>1, <1>2, FS_EmptySet, BoundsAssumption DEF AvahiView
<1>5. Mdnsd!NoConnection \in Mdnsd!Responder /\ Mdnsd!OwnsItsConnection(Mdnsd!NoConnection)
  BY DEF Mdnsd!NoConnection, Mdnsd!Responder, Mdnsd!OwnsItsConnection
<1>6. MdnsdTypes
  BY <1>1, <1>2, <1>5 DEF MdnsdTypes, Mdnsd!TypeOK
<1> QED
  BY <1>1, <1>2, <1>3, <1>4, <1>6 DEF IInv, AvahiInv, MdnsdInv, AvahiQueue, MdnsdQueue

LEMMA RecreateInv ==
    ASSUME IInv, Recreate
    PROVE  IInv'
<1>1. << >> \in Seq(Frame) /\ << >> \in Seq(Avahi!Handler) /\ << >> \in Seq(Avahi!Signal)
      /\ << >> \in Seq(Mdnsd!Domains) /\ << >> \in Seq(Mdnsd!Reply) /\ Len(<< >>) = 0
      /\ ToSet(<< >>) = {}
  BY DEF ToSet
<1>2. CASE backend = "avahi" /\ Avahi!Recreate /\ UNCHANGED mdnsdVars
  <2>1. /\ backend' = "avahi" /\ laidOut' = {}
        /\ m_type' \in {"Browsing", "Publishing"} /\ m_started' = FALSE /\ m_browser' = FALSE
        /\ domainSet' = {} /\ suspended' = << >> /\ bus' = << >> /\ served' = FALSE /\ known' = {}
        /\ disturbed' = {} /\ responder' = responder /\ domainList' = domainList
    BY <1>2 DEF Recreate, Avahi!Recreate, mdnsdVars
  <2>2. AvahiTypes'
    BY <1>1, <2>1 DEF AvahiTypes, Avahi!TypeOK
  <2>3. AvahiView'
    BY <1>1, <2>1, FS_EmptySet, BoundsAssumption DEF AvahiView
  <2> QED
    BY <1>2, <2>1, <2>2, <2>3 DEF IInv, AvahiInv, AvahiQueue
<1>3. CASE backend = "mdnsd" /\ Mdnsd!Recreate /\ UNCHANGED avahiVars
  <2>1. /\ backend' = "mdnsd" /\ laidOut' = {}
        /\ responder' = Mdnsd!NoConnection /\ domainList' = << >> /\ bus' = << >> /\ served' = FALSE
        /\ known' = {} /\ leftover' = {}
        /\ UNCHANGED <<m_started, m_browser, domainSet, suspended, disturbed>>
    BY <1>3 DEF Recreate, Mdnsd!Recreate, avahiVars
  <2>2. Mdnsd!NoConnection \in Mdnsd!Responder /\ Mdnsd!OwnsItsConnection(Mdnsd!NoConnection)
    BY DEF Mdnsd!NoConnection, Mdnsd!Responder, Mdnsd!OwnsItsConnection
  <2>3. MdnsdTypes'
    BY <1>1, <2>1, <2>2 DEF MdnsdTypes, Mdnsd!TypeOK
  <2> QED
    BY <1>1, <1>3, <2>1, <2>3 DEF IInv, MdnsdInv, MdnsdQueue
<1> QED
  BY <1>2, <1>3 DEF Recreate

LEMMA StepInv ==
    ASSUME IInv, BrowserSteps
    PROVE  IInv'
<1>1. CASE backend = "avahi" /\ Avahi!Step /\ UNCHANGED mdnsdVars
  <2>1. AvahiInv /\ backend' = "avahi" /\ Relayout
        /\ responder' = responder /\ domainList' = domainList
    BY <1>1 DEF IInv, BrowserSteps, mdnsdVars
  <2>2. AvahiTypes' /\ AvahiEffect
    BY <1>1, <2>1, AvahiStepEffect DEF AvahiInv
  <2>3. AvahiQueue'
    <3>1. CASE served'
      BY <2>1, <2>2, <3>1, AvahiQueueKept DEF AvahiInv
    <3>2. CASE ~served'
      BY <3>2 DEF AvahiQueue
    <3> QED
      BY <3>1, <3>2
  <2>4. AvahiView'
    BY <1>1, <2>1, <2>2, AvahiViewKept DEF AvahiInv
  <2> QED
    BY <2>1, <2>2, <2>3, <2>4 DEF IInv, AvahiInv
<1>2. CASE backend = "mdnsd" /\ Mdnsd!Step /\ UNCHANGED avahiVars
  <2>1. MdnsdInv /\ backend' = "mdnsd" /\ Relayout
        /\ UNCHANGED <<m_started, m_browser, domainSet, suspended, disturbed>>
    BY <1>2 DEF IInv, BrowserSteps, avahiVars
  <2>2. MdnsdTypes' /\ MdnsdEffect
    BY <1>2, <2>1, MdnsdStepEffect DEF MdnsdInv
  <2>3. MdnsdQueue'
    <3>1. CASE served'
      BY <2>1, <2>2, <3>1, MdnsdQueueKept DEF MdnsdInv
    <3>2. CASE ~served'
      BY <3>2 DEF MdnsdQueue
    <3> QED
      BY <3>1, <3>2
  <2>4. laidOut' = IF said' # {} THEN ToSet(domainList') ELSE laidOut
    <3>1. ListIsFinite'
      BY <2>1, <2>2 DEF ListIsFinite, MdnsdTypes, Mdnsd!TypeOK
    <3> QED
      BY <2>1, <3>1, RelayoutFacts DEF Listed
  <2>5. said' = {} => ToSet(domainList') = ToSet(domainList)
    BY <2>2 DEF MdnsdEffect, KeepsDomains, GainsDomain, LosesDomain, Writes
  <2>6. laidOut' = ToSet(domainList')
    BY <2>1, <2>4, <2>5 DEF MdnsdInv
  <2> QED
    BY <2>1, <2>2, <2>3, <2>6 DEF IInv, MdnsdInv
<1> QED
  BY <1>1, <1>2 DEF BrowserSteps

LEMMA StutterInv ==
    ASSUME IInv, UNCHANGED vars
    PROVE  IInv'
<1>1. UNCHANGED <<backend, m_type, m_started, m_browser, domainSet, suspended, disturbed,
                  responder, domainList, leftover, bus, served, known, laidOut>>
  BY DEF vars, avahiVars, mdnsdVars
<1>2. AvahiTypes' = AvahiTypes /\ AvahiView' = AvahiView /\ AvahiQueue' = AvahiQueue
  BY <1>1 DEF AvahiTypes, Avahi!TypeOK, AvahiView, AvahiQueue, AvahiHeard, AvahiFollows, AvahiListed
<1>3. MdnsdTypes' = MdnsdTypes /\ MdnsdQueue' = MdnsdQueue
  BY <1>1 DEF MdnsdTypes, Mdnsd!TypeOK, MdnsdQueue, MdnsdHeard, MdnsdFollows
<1> QED
  BY <1>1, <1>2, <1>3 DEF IInv, AvahiInv, MdnsdInv

\* With either backend, every slot and reply, with the view laid out inside it,
\* keeps the invariant.
THEOREM Invariance == Spec => []IInv
<1>1. IInv /\ [Next]_vars => IInv'
  BY StepInv, RecreateInv, StutterInv DEF Next
<1> QED
  BY <1>1, InitInv, PTL DEF Spec

-----------------------------------------------------------------------------
(***************************************************************************)
(* What the invariant gives.                                               *)
(***************************************************************************)
\* Whatever is configured, announced, lost or refused, the object in use keeps its
\* types - mdnsd's owns one connection at most - and the other one is not touched.
THEOREM TypeCorrect == Spec => []TypeOK
<1>1. IInv => TypeOK
  <2>1. CASE backend = "avahi"
    BY <2>1 DEF IInv, AvahiInv, AvahiTypes, AvahiView, TypeOK
  <2>2. CASE backend = "mdnsd"
    <3>1. IInv => ToSet(domainList) \subseteq Mdnsd!Domains
      BY <2>2, ElementsOccur DEF IInv, MdnsdInv, MdnsdTypes, Mdnsd!TypeOK
    <3> QED
      BY <2>2, <3>1 DEF IInv, MdnsdInv, MdnsdTypes, TypeOK
  <2> QED
    BY <2>1, <2>2 DEF IInv
<1> QED
  BY <1>1, Invariance, PTL

\* With either backend the list follows the daemon: with nothing about it on the
\* way, a listed domain is announced, configured or left over, and the only source
\* of a domain keeps it listed.
THEOREM ListFollowsDaemon == Spec => []ListIsCurrent
<1>1. IInv => ListIsCurrent
  BY AvahiIsCurrent, MdnsdIsCurrent DEF IInv, AvahiInv, MdnsdInv, ListIsCurrent
<1> QED
  BY <1>1, Invariance, PTL

\* However many sources spell a domain differently, it is listed under one legible
\* name, which the backend reads back from what it sends.
THEOREM DomainsListedOnce == Spec => []DomainsAreDistinct
<1>1. IInv => ListedAreDomains
  <2>1. CASE backend = "avahi"
    BY <2>1 DEF IInv, AvahiInv, AvahiTypes, Avahi!TypeOK, ListedAreDomains, Listed
  <2>2. CASE backend = "mdnsd"
    <3>1. IInv => ToSet(domainList) \subseteq Mdnsd!Domains
      BY <2>2, ElementsOccur DEF IInv, MdnsdInv, MdnsdTypes, Mdnsd!TypeOK
    <3> QED
      BY <2>2, <3>1 DEF ListedAreDomains, Listed
  <2> QED
    BY <2>1, <2>2 DEF IInv
<1> QED
  BY <1>1, ListedAreDistinct, Invariance, PTL

\* A view that lays out its rows at layoutChanged() shows every listed domain, and
\* no more others than handlers can be suspended.
THEOREM ViewCorrect == Spec => []ViewShowsDomains
<1>1. IInv => ViewShowsDomains
  <2> SUFFICES ASSUME IInv PROVE ViewShowsDomains
    OBVIOUS
  <2>1. Shown = Listed
    BY InvShows
  <2>2. CASE backend = "avahi"
    <3>1. AvahiView /\ Listed = domainSet
      BY <2>2 DEF IInv, AvahiInv, Listed
    <3>2. Len(suspended) \in Nat /\ Cardinality(laidOut \ domainSet) \in Nat
      BY <2>2, <3>1, ListBasics, FS_CardinalityType DEF IInv, AvahiInv, AvahiTypes, AvahiView
    <3>3. Cardinality(laidOut \ domainSet) <= MaxNesting + 1
      BY <3>1, <3>2, BoundsAssumption DEF AvahiView
    <3> QED
      BY <2>1, <2>2, <3>1, <3>3 DEF AvahiView, ViewShowsDomains
  <2>3. CASE backend = "mdnsd"
    <3>1. laidOut = Listed /\ laidOut \ Listed = {}
      BY <2>3 DEF IInv, MdnsdInv, Listed
    <3>2. Cardinality(laidOut \ Listed) <= MaxNesting + 1
      BY <3>1, FS_EmptySet, BoundsAssumption
    <3> QED
      BY <2>1, <3>1, <3>2 DEF ViewShowsDomains
  <2> QED
    BY <2>2, <2>3 DEF IInv
<1> QED
  BY <1>1, Invariance, PTL

-----------------------------------------------------------------------------
(***************************************************************************)
(* Avahi's browser implements DomainDirectory: every step is one of its    *)
(* actions, or it stutters.  A step of mdnsd's may also be a lapse.        *)
(***************************************************************************)
DirectoryOpen == m_browser \/ responder.m_running
DirectoryDomains == Listed \ (Avahi!Leaving \cup disturbed)
DirectorySaid == {s \in said : s[2] \notin disturbed}

LEMMA DirectorySteps ==
    /\ /\ ~DirectoryOpen /\ DirectoryOpen' /\ DirectorySaid' = {}
       /\ DirectoryDomains = {} /\ DirectoryDomains' = {}
       => Directory!Next
    /\ DirectorySaid' = {} /\ (DirectoryOpen' <=> DirectoryOpen) /\ DirectoryDomains' = DirectoryDomains
          => Directory!Next
    /\ ~DirectoryOpen' /\ DirectorySaid' = {} /\ DirectoryDomains' = {} => Directory!Next
    /\ \A d \in Avahi!Domains \cup Mdnsd!Domains :
          /\ DirectoryOpen /\ DirectoryOpen' /\ d \notin DirectoryDomains
          /\ DirectoryDomains' = DirectoryDomains \cup {d} /\ DirectorySaid' = {<<"domainAdded", d>>}
          => Directory!Next
    /\ \A d \in Avahi!Domains \cup Mdnsd!Domains :
          /\ DirectoryOpen /\ DirectoryOpen' /\ d \in DirectoryDomains
          /\ DirectoryDomains' = DirectoryDomains \ {d} /\ DirectorySaid' = {<<"domainRemoved", d>>}
          => Directory!Next
  BY DEF Directory!Next, Directory!Open, Directory!Elsewhere, Directory!Close,
         Directory!Appears, Directory!Disappears, DirectoryOpen, DirectoryDomains, DirectorySaid

\* A connection that is lost, one that is made anew, and a removal of what is not
\* listed are lapses.
LEMMA DirectoryLapses ==
    /\ /\ DirectorySaid' = {} /\ DirectoryDomains' = DirectoryDomains
       /\ DirectoryOpen' \in BOOLEAN /\ DirectoryOpen \in BOOLEAN
       => Directory!Next \/ Directory!Lapses
    /\ \A d \in Avahi!Domains \cup Mdnsd!Domains :
          /\ DirectoryOpen /\ DirectoryOpen' /\ d \notin DirectoryDomains
          /\ DirectoryDomains' = DirectoryDomains /\ DirectorySaid' = {<<"domainRemoved", d>>}
          => Directory!Lapses
<1>1. DirectorySaid' = {} /\ (DirectoryOpen' <=> DirectoryOpen) /\ DirectoryDomains' = DirectoryDomains
         => Directory!Next
  BY DirectorySteps
<1>2. DirectorySaid' = {} /\ ~DirectoryOpen /\ DirectoryOpen' /\ DirectoryDomains' = DirectoryDomains
         => Directory!Reopens
  BY DEF Directory!Reopens, DirectoryOpen, DirectoryDomains, DirectorySaid
<1>3. DirectorySaid' = {} /\ DirectoryOpen /\ ~DirectoryOpen' /\ DirectoryDomains' = DirectoryDomains
         => Directory!Loses
  BY DEF Directory!Loses, DirectoryOpen, DirectoryDomains, DirectorySaid
<1>4. ASSUME NEW d \in Avahi!Domains \cup Mdnsd!Domains,
             DirectoryOpen, DirectoryOpen', d \notin DirectoryDomains,
             DirectoryDomains' = DirectoryDomains, DirectorySaid' = {<<"domainRemoved", d>>}
      PROVE  Directory!Lapses
  <2>1. Directory!Vanishes(d)
    BY <1>4 DEF Directory!Vanishes, DirectoryOpen, DirectoryDomains, DirectorySaid
  <2> QED
    BY <2>1 DEF Directory!Lapses
<1> QED
  BY <1>1, <1>2, <1>3, <1>4 DEF Directory!Lapses

LEMMA AvahiRefines ==
    ASSUME AvahiTypes, AvahiEffect, backend = "avahi", backend' = "avahi",
           responder = Mdnsd!NoConnection, responder' = responder
    PROVE  Directory!Next
<1>1. /\ DirectoryOpen <=> m_browser
      /\ DirectoryOpen' <=> m_browser'
  BY DEF DirectoryOpen, Mdnsd!NoConnection
<1>2. /\ DirectoryDomains = domainSet \ (LeavingOf(suspended) \cup disturbed)
      /\ DirectoryDomains' = domainSet' \ (LeavingOf(suspended') \cup disturbed')
  <2>1. (Avahi!Leaving = LeavingOf(suspended))'
    BY LeavingIsOf, PTL
  <2>2. LeavingOf(suspended)' = LeavingOf(suspended')
    BY DEF LeavingOf
  <2> QED
    BY LeavingIsOf, <2>1, <2>2 DEF DirectoryDomains, Listed
<1>3. DirectorySaid' = {s \in said' : s[2] \notin disturbed'}
  BY DEF DirectorySaid
<1>4. /\ m_browser \in BOOLEAN
      /\ bus # << >> \/ suspended # << >> \/ served \/ domainSet # {} => m_browser
      /\ m_browser => m_started
  BY DEF AvahiTypes, Avahi!TypeOK
<1>5. CASE StartsBrowsing
  <2>1. DirectorySaid' = {} /\ DirectoryDomains' = DirectoryDomains
    BY <1>2, <1>3, <1>5 DEF StartsBrowsing, LeavesList
  <2>2. (m_browser' = TRUE /\ ~m_browser) \/ m_browser' = m_browser
    BY <1>4, <1>5 DEF StartsBrowsing
  <2>3. ~m_browser => DirectoryDomains = {}
    BY <1>2, <1>4
  <2> QED
    BY <1>1, <2>1, <2>2, <2>3, DirectorySteps
<1>6. ASSUME NEW d \in Avahi!Domains, Adds(d), Steady, m_browser
      PROVE  Directory!Next
  <2>1. DirectoryOpen /\ DirectoryOpen'
    BY <1>1, <1>6 DEF Steady
  <2>2. CASE d \in LeavingOf(suspended) \/ d \in disturbed \/ d \in domainSet
    <3>1. DirectoryDomains' = DirectoryDomains
      BY <1>2, <1>6, <2>2 DEF Adds, Deals
    <3>2. DirectorySaid' = {}
      BY <1>3, <1>6, <2>2 DEF Adds, Deals
    <3> QED
      BY <2>1, <3>1, <3>2, DirectorySteps
  <2>3. CASE d \notin LeavingOf(suspended) \cup disturbed \cup domainSet
    <3>1. d \notin DirectoryDomains /\ DirectoryDomains' = DirectoryDomains \cup {d}
      BY <1>2, <1>6, <2>3 DEF Adds, Deals
    <3>2. DirectorySaid' = {<<"domainAdded", d>>}
      BY <1>3, <1>6, <2>3 DEF Adds, Deals
    <3> QED
      BY <2>1, <3>1, <3>2, DirectorySteps
  <2> QED
    BY <2>2, <2>3
<1>7. ASSUME NEW d \in Avahi!Domains, Removes(d), Steady, m_browser
      PROVE  Directory!Next
  <2>1. DirectoryOpen /\ DirectoryOpen'
    BY <1>1, <1>7 DEF Steady
  <2>2. CASE d \in LeavingOf(suspended) \/ d \in disturbed \/ d \notin domainSet
    <3>1. DirectoryDomains' = DirectoryDomains
      BY <1>2, <1>7, <2>2 DEF Removes, Deals
    <3>2. DirectorySaid' = {}
      BY <1>3, <1>7, <2>2 DEF Removes, Deals
    <3> QED
      BY <2>1, <3>1, <3>2, DirectorySteps
  <2>3. CASE d \notin LeavingOf(suspended) \cup disturbed /\ d \in domainSet
    <3>1. d \in DirectoryDomains /\ DirectoryDomains' = DirectoryDomains \ {d}
      BY <1>2, <1>7, <2>3 DEF Removes, Deals
    <3>2. DirectorySaid' = {<<"domainRemoved", d>>}
      BY <1>3, <1>7, <2>3 DEF Removes, Deals
    <3> QED
      BY <2>1, <3>1, <3>2, DirectorySteps
  <2> QED
    BY <2>2, <2>3
<1>8. ASSUME NEW d \in Avahi!Domains, TakesOff(d), Steady
      PROVE  Directory!Next
  <2>1. DirectoryDomains' = DirectoryDomains /\ DirectorySaid' = {}
    BY <1>2, <1>3, <1>8 DEF TakesOff
  <2> QED
    BY <1>1, <1>8, <2>1, DirectorySteps DEF Steady
<1>9. ASSUME LeavesList, Steady
      PROVE  Directory!Next
  <2>1. DirectoryDomains' = DirectoryDomains /\ DirectorySaid' = {}
    BY <1>2, <1>3, <1>9 DEF LeavesList
  <2> QED
    BY <1>1, <1>9, <2>1, DirectorySteps DEF Steady
<1> QED
  BY <1>4, <1>5, <1>6, <1>7, <1>8, <1>9, DomainFacts DEF AvahiEffect, Hears

LEMMA MdnsdRefines ==
    ASSUME MdnsdTypes, MdnsdTypes', MdnsdEffect, backend = "mdnsd", backend' = "mdnsd",
           m_browser = FALSE, suspended = << >>, disturbed = {},
           UNCHANGED <<m_browser, suspended, disturbed>>
    PROVE  Directory!Next \/ Directory!Lapses
<1>1. /\ DirectoryOpen <=> responder.m_running
      /\ DirectoryOpen' <=> responder'.m_running
  BY DEF DirectoryOpen
<1>2. /\ DirectoryDomains = ToSet(domainList)
      /\ DirectoryDomains' = ToSet(domainList')
  <2>1. (Avahi!Leaving = LeavingOf(suspended))'
    BY LeavingIsOf, PTL
  <2>2. LeavingOf(suspended)' = LeavingOf(suspended')
    BY DEF LeavingOf
  <2>3. ToSet(domainList)' = ToSet(domainList')
    BY DEF ToSet
  <2> QED
    BY LeavingIsOf, NoneLeaving, <2>1, <2>2, <2>3 DEF DirectoryDomains, Listed
<1>3. DirectorySaid' = said'
  BY DEF DirectorySaid
<1>4. served => responder.m_running
  BY DEF MdnsdTypes, Mdnsd!TypeOK
<1>5. responder.m_running \in BOOLEAN /\ responder'.m_running \in BOOLEAN
  BY DEF MdnsdTypes, Mdnsd!TypeOK, Mdnsd!Responder
\* The list is kept, whatever happens to the connection.
<1>6. ASSUME KeepsDomains
      PROVE  Directory!Next \/ Directory!Lapses
  <2>1. DirectoryDomains' = DirectoryDomains /\ DirectorySaid' = {}
    BY <1>2, <1>3, <1>6 DEF KeepsDomains
  <2>2. DirectoryOpen' \in BOOLEAN /\ DirectoryOpen \in BOOLEAN
    BY <1>1, <1>5 DEF DirectoryOpen
  <2> QED
    BY <2>1, <2>2, DirectoryLapses
<1>7. ASSUME NEW d \in Mdnsd!Domains, GainsDomain(d), responder.m_running, responder' = responder
      PROVE  Directory!Next \/ Directory!Lapses
  <2>1. DirectoryOpen /\ DirectoryOpen'
    BY <1>1, <1>7
  <2>2. CASE d \in ToSet(domainList)
    <3>1. DirectoryDomains' = DirectoryDomains /\ DirectorySaid' = {}
      BY <1>2, <1>3, <1>7, <2>2 DEF GainsDomain
    <3> QED
      BY <2>1, <3>1, DirectorySteps
  <2>3. CASE d \notin ToSet(domainList)
    <3>1. /\ d \notin DirectoryDomains /\ DirectoryDomains' = DirectoryDomains \cup {d}
          /\ DirectorySaid' = {<<"domainAdded", d>>}
      BY <1>2, <1>3, <1>7, <2>3 DEF GainsDomain
    <3> QED
      BY <2>1, <3>1, DirectorySteps
  <2> QED
    BY <2>2, <2>3
<1>8. ASSUME NEW d \in Mdnsd!Domains, LosesDomain(d), responder.m_running, responder' = responder
      PROVE  Directory!Next \/ Directory!Lapses
  <2>1. DirectoryOpen /\ DirectoryOpen'
    BY <1>1, <1>8
  <2>2. DirectoryDomains' = DirectoryDomains \ {d} /\ DirectorySaid' = {<<"domainRemoved", d>>}
    BY <1>2, <1>3, <1>8 DEF LosesDomain
  <2>3. CASE d \in DirectoryDomains
    BY <2>1, <2>2, <2>3, DirectorySteps
  <2>4. CASE d \notin DirectoryDomains
    <3>1. DirectoryDomains' = DirectoryDomains
      BY <2>2, <2>4
    <3> QED
      BY <2>1, <2>2, <2>4, <3>1, DirectoryLapses
  <2> QED
    BY <2>3, <2>4
<1>9. \A a \in Announcements : Mdnsd!Decoded(a) \in Mdnsd!Domains
  BY DEF Mdnsd!Domains
<1> QED
  BY <1>6, <1>7, <1>8, <1>9 DEF MdnsdEffect, Reads, Writes

\* Over any interleaving of signals, suspended handlers, failing requests and
\* breaking connections, list and signals are with Avahi's backend those of one
\* directory of domains, and with mdnsd's but for the lapses that are named.
THEOREM DirectoryRefinement == Spec => ImplementsDirectory
<1>1. Init => Directory!Init
  <2>1. Init => m_browser = FALSE /\ responder = Mdnsd!NoConnection /\ domainSet = {}
                /\ domainList = << >> /\ said = {}
    BY DEF Init, Avahi!Init, Mdnsd!Init
  <2>2. ToSet(<< >>) = {}
    BY DEF ToSet
  <2> QED
    BY <2>1, <2>2 DEF Directory!Init, Listed, Mdnsd!NoConnection
<1>2. IInv /\ BrowserSteps => Directory!Next \/ (backend = "mdnsd" /\ Directory!Lapses)
  <2> SUFFICES ASSUME IInv, BrowserSteps
               PROVE  Directory!Next \/ (backend = "mdnsd" /\ Directory!Lapses)
    OBVIOUS
  <2>1. CASE backend = "avahi" /\ Avahi!Step /\ UNCHANGED mdnsdVars
    <3>1. AvahiInv /\ backend' = "avahi" /\ responder' = responder
      BY <2>1 DEF IInv, BrowserSteps, mdnsdVars
    <3>2. AvahiEffect
      BY <2>1, <3>1, AvahiStepEffect DEF AvahiInv
    <3> QED
      BY <2>1, <3>1, <3>2, AvahiRefines DEF AvahiInv
  <2>2. CASE backend = "mdnsd" /\ Mdnsd!Step /\ UNCHANGED avahiVars
    <3>1. MdnsdInv /\ backend' = "mdnsd" /\ UNCHANGED <<m_browser, suspended, disturbed>>
      BY <2>2 DEF IInv, BrowserSteps, avahiVars
    <3>2. MdnsdTypes' /\ MdnsdEffect
      BY <2>2, <3>1, MdnsdStepEffect DEF MdnsdInv
    <3> QED
      BY <2>2, <3>1, <3>2, MdnsdRefines DEF MdnsdInv
  <2> QED
    BY <2>1, <2>2 DEF BrowserSteps
<1>3. IInv /\ Recreate => Directory!Next
  <2> SUFFICES ASSUME IInv, Recreate PROVE Directory!Next
    OBVIOUS
  <2>1. ToSet(<< >>) = {} /\ ~Mdnsd!NoConnection.m_running
    BY DEF ToSet, Mdnsd!NoConnection
  <2>2. CASE backend = "avahi" /\ Avahi!Recreate /\ UNCHANGED mdnsdVars
    <3>1. /\ backend' = "avahi" /\ m_browser' = FALSE /\ domainSet' = {} /\ said' = {}
          /\ responder' = Mdnsd!NoConnection
      BY <2>2 DEF IInv, AvahiInv, Recreate, Avahi!Recreate, mdnsdVars
    <3>2. ~DirectoryOpen' /\ DirectorySaid' = {} /\ DirectoryDomains' = {}
      BY <2>1, <3>1 DEF DirectoryOpen, DirectorySaid, DirectoryDomains, Listed
    <3> QED
      BY <3>2, DirectorySteps
  <2>3. CASE backend = "mdnsd" /\ Mdnsd!Recreate /\ UNCHANGED avahiVars
    <3>1. /\ backend' = "mdnsd" /\ m_browser' = FALSE /\ domainList' = << >> /\ said' = {}
          /\ responder' = Mdnsd!NoConnection
      BY <2>3 DEF IInv, MdnsdInv, Recreate, Mdnsd!Recreate, avahiVars
    <3>2. ~DirectoryOpen' /\ DirectorySaid' = {} /\ DirectoryDomains' = {}
      BY <2>1, <3>1 DEF DirectoryOpen, DirectorySaid, DirectoryDomains, Listed, ToSet
    <3> QED
      BY <3>2, DirectorySteps
  <2> QED
    BY <2>2, <2>3 DEF Recreate
<1>4. UNCHANGED vars => UNCHANGED Directory!vars
  BY DEF vars, avahiVars, mdnsdVars, Directory!vars, Listed, Avahi!Leaving
<1>5. IInv /\ [Next]_vars =>
          [Directory!Next \/ (backend = "mdnsd" /\ Directory!Lapses)]_(Directory!vars)
  BY <1>2, <1>3, <1>4 DEF Next
<1> QED
  BY <1>1, <1>5, Invariance, PTL DEF Spec, ImplementsDirectory
=============================================================================
