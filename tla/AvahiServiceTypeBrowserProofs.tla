------------------- MODULE AvahiServiceTypeBrowserProofs -------------------
(***************************************************************************)
(* Theorems about AvahiServiceTypeBrowser, for every set of announcements  *)
(* and types and every bus length: its types, that its list follows the    *)
(* daemon, and that it implements TypeDirectory.                           *)
(*                                                                         *)
(* ListIsCurrent only speaks of announcements with no signal on the bus.   *)
(* The invariant that is inductive says of each announcement that the      *)
(* signals about it on the bus alternate and lead from what the vector     *)
(* holds to what the daemon knows (Consistent).                            *)
(***************************************************************************)
EXTENDS AvahiServiceTypeBrowser, TLAPS

About(sig, a) == sig \in ItemSignal /\ sig.item = a

\* Entries there are for an announcement once a signal about it was handled.
After(sig) == IF sig.kind = "ItemNew" THEN 1 ELSE 0

\* The signals about a on bus b lead from n entries to k, by way of
\* alternating 0 and 1.
Consistent(b, a, n, k) ==
    /\ (\A i \in 1..Len(b) : ~About(b[i], a)) => n = k
    /\ \A i \in 1..Len(b) :
          About(b[i], a) /\ (\A j \in 1..(i - 1) : ~About(b[j], a)) => After(b[i]) = 1 - n
    /\ \A i, j \in 1..Len(b) :
          /\ i < j /\ About(b[i], a) /\ About(b[j], a)
          /\ \A h \in (i + 1)..(j - 1) : ~About(b[h], a)
          => After(b[i]) # After(b[j])
    /\ \A i \in 1..Len(b) :
          About(b[i], a) /\ (\A j \in (i + 1)..Len(b) : ~About(b[j], a)) => After(b[i]) = k

InDaemon(a) == IF a \in known THEN 1 ELSE 0

Follows == served => \A a \in Announcements :
    m_servicetypes[a] \in {0, 1} /\ Consistent(bus, a, m_servicetypes[a], InDaemon(a))

\* Before it browses, the object holds nothing and the daemon knows nothing.
Blank == ~m_browser => known = {} /\ m_servicetypes = [a \in Announcements |-> 0]

IInv == TypeOK /\ Blank /\ Follows

-----------------------------------------------------------------------------
(***************************************************************************)
(* The bus.                                                                *)
(***************************************************************************)
LEMMA EmptyConsistent ==
    ASSUME NEW a, NEW n
    PROVE  Consistent(<< >>, a, n, n)
  BY DEF Consistent

LEMMA TailConsistent ==
    ASSUME NEW b \in Seq(Signal), b # << >>,
           NEW a, NEW n \in {0, 1}, NEW k \in {0, 1}, Consistent(b, a, n, k),
           NEW m, m = IF About(Head(b), a) THEN After(Head(b)) ELSE n
    PROVE  Consistent(Tail(b), a, m, k) /\ (About(Head(b), a) => m = 1 - n)
<1> DEFINE c == Tail(b)
<1>1. /\ Len(b) \in Nat \ {0} /\ Len(c) = Len(b) - 1
      /\ Head(b) = b[1]
      /\ \A i \in 1..Len(c) : c[i] = b[i + 1]
  OBVIOUS
<1>2. About(b[1], a) => m = After(b[1]) /\ m = 1 - n
  BY <1>1 DEF Consistent
<1>3. (\A i \in 1..Len(c) : ~About(c[i], a)) => m = k
  <2> SUFFICES ASSUME \A i \in 1..Len(c) : ~About(c[i], a) PROVE m = k
    OBVIOUS
  <2>1. \A i \in 2..Len(b) : ~About(b[i], a)
    <3> SUFFICES ASSUME NEW i \in 2..Len(b) PROVE ~About(b[i], a)
      OBVIOUS
    <3>1. (i - 1) \in 1..Len(c) /\ c[i - 1] = b[i]
      BY <1>1
    <3> QED
      BY <3>1
  <2> QED
    BY <1>1, <1>2, <2>1 DEF Consistent
<1>4. ASSUME NEW i \in 1..Len(c), About(c[i], a), \A j \in 1..(i - 1) : ~About(c[j], a)
      PROVE  After(c[i]) = 1 - m
  <2>1. (i + 1) \in 1..Len(b) /\ About(b[i + 1], a) /\ c[i] = b[i + 1]
    BY <1>1, <1>4
  <2>2. \A h \in 2..i : ~About(b[h], a)
    <3> SUFFICES ASSUME NEW h \in 2..i PROVE ~About(b[h], a)
      OBVIOUS
    <3>1. (h - 1) \in 1..(i - 1) /\ (h - 1) \in 1..Len(c) /\ c[h - 1] = b[h]
      BY <1>1
    <3> QED
      BY <3>1, <1>4
  <2>3. CASE About(b[1], a)
    <3>1. After(b[1]) # After(b[i + 1])
      BY <1>1, <2>1, <2>2, <2>3 DEF Consistent
    <3> QED
      BY <1>2, <2>1, <2>3, <3>1 DEF After
  <2>4. CASE ~About(b[1], a)
    <3>1. \A h \in 1..((i + 1) - 1) : ~About(b[h], a)
      BY <2>2, <2>4
    <3>2. After(b[i + 1]) = 1 - n
      BY <2>1, <3>1 DEF Consistent
    <3> QED
      BY <1>1, <2>1, <2>4, <3>2
  <2> QED
    BY <2>3, <2>4
<1>5. ASSUME NEW i \in 1..Len(c), NEW j \in 1..Len(c),
             i < j, About(c[i], a), About(c[j], a),
             \A h \in (i + 1)..(j - 1) : ~About(c[h], a)
      PROVE  After(c[i]) # After(c[j])
  <2>1. /\ (i + 1) \in 1..Len(b) /\ About(b[i + 1], a) /\ c[i] = b[i + 1]
        /\ (j + 1) \in 1..Len(b) /\ About(b[j + 1], a) /\ c[j] = b[j + 1]
    BY <1>1, <1>5
  <2>2. \A h \in ((i + 1) + 1)..((j + 1) - 1) : ~About(b[h], a)
    <3> SUFFICES ASSUME NEW h \in ((i + 1) + 1)..((j + 1) - 1) PROVE ~About(b[h], a)
      OBVIOUS
    <3>1. (h - 1) \in (i + 1)..(j - 1) /\ (h - 1) \in 1..Len(c) /\ c[h - 1] = b[h]
      BY <1>1
    <3> QED
      BY <3>1, <1>5
  <2>3. i + 1 < j + 1
    BY <1>5
  <2> QED
    BY <2>1, <2>2, <2>3 DEF Consistent
<1>6. ASSUME NEW i \in 1..Len(c), About(c[i], a),
             \A j \in (i + 1)..Len(c) : ~About(c[j], a)
      PROVE  After(c[i]) = k
  <2>1. (i + 1) \in 1..Len(b) /\ About(b[i + 1], a) /\ c[i] = b[i + 1]
    BY <1>1, <1>6
  <2>2. \A h \in ((i + 1) + 1)..Len(b) : ~About(b[h], a)
    <3> SUFFICES ASSUME NEW h \in ((i + 1) + 1)..Len(b) PROVE ~About(b[h], a)
      OBVIOUS
    <3>1. (h - 1) \in (i + 1)..Len(c) /\ (h - 1) \in 1..Len(c) /\ c[h - 1] = b[h]
      BY <1>1
    <3> QED
      BY <3>1, <1>6
  <2> QED
    BY <2>1, <2>2 DEF Consistent
<1> QED
  BY <1>1, <1>2, <1>3, <1>4, <1>5, <1>6 DEF Consistent

LEMMA AppendConsistent ==
    ASSUME NEW b \in Seq(Signal), NEW sig \in Signal,
           NEW a, NEW n \in {0, 1}, NEW k \in {0, 1}, Consistent(b, a, n, k),
           NEW l, l = IF About(sig, a) THEN After(sig) ELSE k,
           About(sig, a) => l = 1 - k
    PROVE  Consistent(Append(b, sig), a, n, l)
<1> DEFINE c == Append(b, sig)
           e == Len(b) + 1
<1>1. /\ Len(b) \in Nat /\ Len(c) = e
      /\ c[e] = sig
      /\ \A i \in 1..Len(b) : c[i] = b[i]
  OBVIOUS
<1>2. (\A i \in 1..Len(c) : ~About(c[i], a)) => n = l
  BY <1>1 DEF Consistent
<1>3. ASSUME NEW i \in 1..Len(c), About(c[i], a), \A j \in 1..(i - 1) : ~About(c[j], a)
      PROVE  After(c[i]) = 1 - n
  <2>1. CASE i = e
    <3>1. \A j \in 1..Len(b) : ~About(b[j], a)
      BY <1>1, <1>3, <2>1
    <3>2. n = k
      BY <3>1 DEF Consistent
    <3> QED
      BY <1>1, <1>3, <2>1, <3>2
  <2>2. CASE i # e
    <3>1. i \in 1..Len(b) /\ c[i] = b[i]
      BY <1>1, <2>2
    <3>2. ASSUME NEW j \in 1..(i - 1) PROVE ~About(b[j], a)
      <4>1. j \in 1..Len(b) /\ c[j] = b[j]
        BY <1>1, <3>1
      <4> QED
        BY <1>3, <4>1
    <3> QED
      BY <1>3, <3>1, <3>2 DEF Consistent
  <2> QED
    BY <2>1, <2>2
<1>4. ASSUME NEW i \in 1..Len(c), NEW j \in 1..Len(c),
             i < j, About(c[i], a), About(c[j], a),
             \A h \in (i + 1)..(j - 1) : ~About(c[h], a)
      PROVE  After(c[i]) # After(c[j])
  <2>1. i \in 1..Len(b) /\ c[i] = b[i]
    BY <1>1, <1>4
  <2>2. CASE j = e
    <3>1. \A h \in (i + 1)..Len(b) : ~About(b[h], a)
      BY <1>1, <1>4, <2>1, <2>2
    <3>2. After(b[i]) = k
      BY <1>4, <2>1, <3>1 DEF Consistent
    <3> QED
      BY <1>1, <1>4, <2>1, <2>2, <3>2
  <2>3. CASE j # e
    <3>1. j \in 1..Len(b) /\ c[j] = b[j] /\ \A h \in (i + 1)..(j - 1) : ~About(b[h], a)
      BY <1>1, <1>4, <2>1, <2>3
    <3> QED
      BY <1>4, <2>1, <3>1 DEF Consistent
  <2> QED
    BY <2>2, <2>3
<1>5. ASSUME NEW i \in 1..Len(c), About(c[i], a),
             \A j \in (i + 1)..Len(c) : ~About(c[j], a)
      PROVE  After(c[i]) = l
  <2>1. CASE i = e
    BY <1>1, <1>5, <2>1
  <2>2. CASE i # e
    <3>1. i \in 1..Len(b) /\ c[i] = b[i] /\ e \in (i + 1)..Len(c)
      BY <1>1, <2>2
    <3>2. ~About(sig, a) /\ \A j \in (i + 1)..Len(b) : ~About(b[j], a)
      BY <1>1, <1>5, <3>1
    <3> QED
      BY <1>5, <3>1, <3>2 DEF Consistent
  <2> QED
    BY <2>1, <2>2
<1> QED
  BY <1>2, <1>3, <1>4, <1>5 DEF Consistent

-----------------------------------------------------------------------------
(***************************************************************************)
(* The inductive invariant.                                                *)
(***************************************************************************)
LEMMA InitInv == Init => IInv
<1> SUFFICES ASSUME Init PROVE IInv
  OBVIOUS
<1>1. bus \in Seq(Signal) /\ m_servicetypes \in [Announcements -> Nat]
  BY DEF Init
<1>2. TypeOK
  BY <1>1 DEF Init, TypeOK
<1>3. Blank /\ Follows
  BY DEF Init, Blank, Follows
<1> QED
  BY <1>2, <1>3 DEF IInv

\* A browser that is accepted starts with nothing listed, queued or known.
LEMMA StartBrowseInv ==
    ASSUME IInv, StartBrowse
    PROVE  IInv'
<1>1. bus = << >> /\ known = {} /\ m_servicetypes = [a \in Announcements |-> 0]
  BY DEF IInv, TypeOK, Blank, StartBrowse
<1>2. UNCHANGED <<m_servicetypes, bus, known>>
  BY DEF StartBrowse
<1>3. ASSUME Accepted PROVE TypeOK' /\ Blank'
  BY <1>1, <1>2, <1>3 DEF IInv, TypeOK, Blank, StartBrowse, Accepted
<1>4. ASSUME Refused PROVE TypeOK' /\ Blank'
  BY <1>1, <1>2, <1>4 DEF IInv, TypeOK, Blank, StartBrowse, Refused
<1>5. TypeOK' /\ Blank'
  BY <1>3, <1>4 DEF StartBrowse
<1>6. ASSUME NEW a \in Announcements
      PROVE  m_servicetypes'[a] \in {0, 1}
             /\ Consistent(bus', a, m_servicetypes'[a], InDaemon(a)')
  <2>1. m_servicetypes'[a] = 0 /\ InDaemon(a)' = 0 /\ bus' = << >>
    BY <1>1, <1>2 DEF InDaemon
  <2> QED
    BY <2>1, EmptyConsistent
<1> QED
  BY <1>6, <1>5 DEF IInv, Follows

LEMMA RecreateInv ==
    ASSUME IInv, Recreate
    PROVE  IInv'
<1>1. bus' \in Seq(Signal) /\ m_servicetypes' \in [Announcements -> Nat]
  BY DEF Recreate
<1>2. TypeOK'
  BY <1>1 DEF TypeOK, Recreate
<1>3. Blank' /\ Follows'
  BY DEF Blank, Follows, Recreate
<1> QED
  BY <1>2, <1>3 DEF IInv

\* What a slot does to the number of entries of each announcement.
LEMMA DeliverCounts ==
    ASSUME IInv, Deliver
    PROVE  /\ Head(bus) \in Signal /\ bus \in Seq(Signal) /\ bus # << >>
           /\ m_servicetypes' \in [Announcements -> Nat]
           /\ \A a \in Announcements :
                 /\ ~About(Head(bus), a) => m_servicetypes'[a] = m_servicetypes[a]
                 /\ About(Head(bus), a) /\ m_servicetypes[a] = 1 - After(Head(bus))
                       => m_servicetypes'[a] = After(Head(bus))
<1> DEFINE sig == Head(bus)
<1>1. bus \in Seq(Signal) /\ bus # << >> /\ m_servicetypes \in [Announcements -> Nat]
  BY DEF IInv, TypeOK, Deliver
<1>2. sig \in Signal
  BY <1>1
<1>3. CASE sig.kind = "ItemNew"
  <2>1. sig \in ItemSignal /\ GotNewServiceType(sig.item)
    BY <1>2, <1>3 DEF Deliver, Signal, ItemSignal
  <2>2. sig.item \in Announcements
        /\ m_servicetypes' = [m_servicetypes EXCEPT ![sig.item] = @ + 1]
    BY <2>1 DEF GotNewServiceType, ItemSignal
  <2> QED
    BY <1>1, <1>2, <1>3, <2>1, <2>2 DEF About, After
<1>4. CASE sig.kind = "ItemRemove"
  <2>1. sig \in ItemSignal /\ GotRemoveServiceType(sig.item)
    BY <1>2, <1>4 DEF Deliver, Signal, ItemSignal
  <2>2. sig.item \in Announcements
        /\ m_servicetypes' = [m_servicetypes EXCEPT ![sig.item] = IF @ > 0 THEN @ - 1 ELSE @]
    BY <2>1 DEF GotRemoveServiceType, Erased, ItemSignal
  <2> QED
    BY <1>1, <1>2, <1>4, <2>1, <2>2 DEF About, After
<1>5. CASE sig.kind = "AllForNow"
  <2>1. m_servicetypes' = m_servicetypes
    BY <1>5 DEF Deliver, Finished
  <2>2. \A a \in Announcements : ~About(sig, a)
    BY <1>5 DEF About, ItemSignal
  <2> QED
    BY <1>1, <1>2, <2>1, <2>2
<1> QED
  BY <1>2, <1>3, <1>4, <1>5 DEF Signal, ItemSignal

LEMMA DeliverInv ==
    ASSUME IInv, Deliver
    PROVE  IInv'
<1>1. /\ bus' = Tail(bus)
      /\ UNCHANGED <<m_started, m_browser, served, known, allForNow>>
      /\ m_browser
  BY DEF Deliver, IInv, TypeOK
<1>2. m_timer' \in BOOLEAN /\ batch' \in BOOLEAN
  BY DEF Deliver, GotNewServiceType, GotRemoveServiceType, Finished
<1>3. bus' \in Seq(Signal)
  BY <1>1, DeliverCounts
<1>4. TypeOK' /\ Blank'
  BY <1>1, <1>2, <1>3, DeliverCounts DEF IInv, TypeOK, Blank
<1>5. ASSUME served, NEW a \in Announcements
      PROVE  m_servicetypes'[a] \in {0, 1}
             /\ Consistent(bus', a, m_servicetypes'[a], InDaemon(a)')
  <2> DEFINE n == m_servicetypes[a]
             m == IF About(Head(bus), a) THEN After(Head(bus)) ELSE n
  <2>1. n \in {0, 1} /\ Consistent(bus, a, n, InDaemon(a))
    BY <1>5 DEF IInv, Follows
  <2>2. InDaemon(a) \in {0, 1} /\ InDaemon(a)' = InDaemon(a)
    BY <1>1 DEF InDaemon
  <2>3. Consistent(Tail(bus), a, m, InDaemon(a)) /\ (About(Head(bus), a) => m = 1 - n)
    BY <2>1, <2>2, TailConsistent, DeliverCounts
  <2>4. m_servicetypes'[a] = m /\ m \in {0, 1}
    BY <2>1, <2>3, DeliverCounts DEF After
  <2> QED
    BY <1>1, <2>2, <2>3, <2>4
<1> QED
  BY <1>1, <1>4, <1>5 DEF IInv, Follows

\* A signal of the daemon keeps the invariant if it says, of the announcement
\* it is about, what the daemon now knows and did not know before.
LEMMA SendInv ==
    ASSUME IInv, NEW sig \in Signal, Send(sig),
           known' \subseteq Announcements, allForNow' \in BOOLEAN,
           \A a \in Announcements :
              /\ About(sig, a) => After(sig) = InDaemon(a)' /\ InDaemon(a)' = 1 - InDaemon(a)
              /\ ~About(sig, a) => InDaemon(a)' = InDaemon(a)
    PROVE  IInv'
<1>1. /\ bus' = Append(bus, sig) /\ bus \in Seq(Signal)
      /\ UNCHANGED <<m_started, m_browser, m_timer, m_servicetypes, served, batch>>
      /\ served /\ m_browser
  BY DEF Send, object, IInv, TypeOK
<1>2. bus' \in Seq(Signal)
  BY <1>1
<1>3. TypeOK' /\ Blank'
  BY <1>1, <1>2 DEF IInv, TypeOK, Blank
<1>4. ASSUME NEW a \in Announcements
      PROVE  m_servicetypes'[a] \in {0, 1}
             /\ Consistent(bus', a, m_servicetypes'[a], InDaemon(a)')
  <2>1. m_servicetypes[a] \in {0, 1} /\ Consistent(bus, a, m_servicetypes[a], InDaemon(a))
    BY <1>1 DEF IInv, Follows
  <2>2. InDaemon(a) \in {0, 1}
    BY DEF InDaemon
  <2>3. /\ InDaemon(a)' = IF About(sig, a) THEN After(sig) ELSE InDaemon(a)
        /\ About(sig, a) => InDaemon(a)' = 1 - InDaemon(a)
    OBVIOUS
  <2>4. Consistent(Append(bus, sig), a, m_servicetypes[a], InDaemon(a)')
    BY <1>1, <2>1, <2>2, <2>3, AppendConsistent
  <2> QED
    BY <1>1, <2>1, <2>4
<1> QED
  BY <1>3, <1>4 DEF IInv, Follows

LEMMA AnnouncesInv ==
    ASSUME IInv, NEW a \in Announcements, Announces(a) \/ Withdraws(a)
    PROVE  IInv'
<1>1. CASE Announces(a)
  <2> DEFINE sig == [kind |-> "ItemNew", item |-> a]
  <2>1. sig \in Signal /\ Send(sig) /\ After(sig) = 1
    BY <1>1 DEF Announces, Signal, ItemSignal, After
  <2>2. known' \subseteq Announcements /\ allForNow' \in BOOLEAN
    BY <1>1 DEF Announces, IInv, TypeOK
  <2>3. \A b \in Announcements : About(sig, b) <=> b = a
    BY DEF About, ItemSignal
  <2>4. \A b \in Announcements :
           /\ b = a => InDaemon(b)' = 1 /\ InDaemon(b) = 0
           /\ b # a => InDaemon(b)' = InDaemon(b)
    BY <1>1 DEF Announces, InDaemon
  <2> HIDE DEF sig
  <2> QED
    BY <2>1, <2>2, <2>3, <2>4, SendInv
<1>2. CASE Withdraws(a)
  <2> DEFINE sig == [kind |-> "ItemRemove", item |-> a]
  <2>1. sig \in Signal /\ Send(sig) /\ After(sig) = 0
    BY <1>2 DEF Withdraws, Signal, ItemSignal, After
  <2>2. known' \subseteq Announcements /\ allForNow' \in BOOLEAN
    BY <1>2 DEF Withdraws, IInv, TypeOK
  <2>3. \A b \in Announcements : About(sig, b) <=> b = a
    BY DEF About, ItemSignal
  <2>4. \A b \in Announcements :
           /\ b = a => InDaemon(b)' = 0 /\ InDaemon(b) = 1
           /\ b # a => InDaemon(b)' = InDaemon(b)
    BY <1>2 DEF Withdraws, InDaemon
  <2> HIDE DEF sig
  <2> QED
    BY <2>1, <2>2, <2>3, <2>4, SendInv
<1> QED
  BY <1>1, <1>2

LEMMA SaysAllForNowInv ==
    ASSUME IInv, SaysAllForNow
    PROVE  IInv'
<1> DEFINE sig == [kind |-> "AllForNow"]
<1>1. sig \in Signal /\ Send(sig) /\ UNCHANGED known /\ allForNow' = TRUE
  BY DEF SaysAllForNow, Signal
<1>2. \A a \in Announcements : ~About(sig, a) /\ InDaemon(a)' = InDaemon(a)
  BY <1>1 DEF About, ItemSignal, InDaemon
<1>3. known' \subseteq Announcements
  BY <1>1 DEF IInv, TypeOK
<1> HIDE DEF sig
<1> QED
  BY <1>1, <1>2, <1>3, SendInv

LEMMA StepInv == IInv /\ [Next]_vars => IInv'
<1> SUFFICES ASSUME IInv, [Next]_vars PROVE IInv'
  OBVIOUS
<1>1. CASE TimerFires
  BY <1>1 DEF TimerFires, Finished, IInv, TypeOK, Blank, Follows, InDaemon
<1>2. CASE DaemonDies
  BY <1>2 DEF DaemonDies, object, IInv, TypeOK, Blank, Follows
<1>3. CASE UNCHANGED vars
  BY <1>3 DEF vars, object, IInv, TypeOK, Blank, Follows, InDaemon
<1> QED
  BY <1>1, <1>2, <1>3, StartBrowseInv, RecreateInv, DeliverInv, AnnouncesInv,
     SaysAllForNowInv DEF Next

\* startBrowse, the slots, the timer and the daemon keep the invariant.
THEOREM Invariance == Spec => []IInv
  BY InitInv, StepInv, PTL DEF Spec

\* The object, the bus and the daemon's side stay in their types, and an object
\* without a browser at the daemon hears and times nothing.
THEOREM TypeCorrect == Spec => []TypeOK
<1>1. IInv => TypeOK
  BY DEF IInv
<1> QED
  BY <1>1, Invariance, PTL

\* What no signal is under way about is listed exactly as the daemon has it.
THEOREM ListFollowsDaemon == Spec => []ListIsCurrent
<1>1. IInv => ListIsCurrent
  <2> SUFFICES ASSUME IInv, served, NEW a \in Announcements, ~Mentioned(a)
               PROVE  m_servicetypes[a] = InDaemon(a)
    BY DEF ListIsCurrent, InDaemon
  <2>1. Consistent(bus, a, m_servicetypes[a], InDaemon(a)) /\ bus \in Seq(Signal)
    BY DEF IInv, Follows, TypeOK
  <2>2. \A i \in 1..Len(bus) : ~About(bus[i], a)
    BY <2>1 DEF Mentioned, About
  <2> QED
    BY <2>1, <2>2 DEF Consistent
<1> QED
  BY <1>1, Invariance, PTL

-----------------------------------------------------------------------------
(***************************************************************************)
(* TypeDirectory is implemented: each step is a step of it or, for the     *)
(* list, no step at all.                                                   *)
(***************************************************************************)
LEMMA BlankLists ==
    ASSUME m_servicetypes = [a \in Announcements |-> 0]
    PROVE  ServiceTypes = {}
  BY DEF ServiceTypes, HasType

LEMMA SameListsSame ==
    ASSUME UNCHANGED m_servicetypes
    PROVE  ServiceTypes' = ServiceTypes
  BY DEF ServiceTypes, HasType

LEMMA NewSimulates ==
    ASSUME IInv, m_browser, UNCHANGED m_browser, NEW a \in Announcements, GotNewServiceType(a)
    PROVE  Directory!Next
<1> DEFINE t == TypeOf[a]
<1>1. /\ m_servicetypes \in [Announcements -> Nat]
      /\ m_servicetypes' = [m_servicetypes EXCEPT ![a] = @ + 1]
      /\ batch' = TRUE
  BY DEF IInv, TypeOK, GotNewServiceType
<1>2. t \in Types
  BY DEF Types
<1>3. HasType(m_servicetypes', t)
  BY <1>1 DEF HasType
<1>4. \A u \in Types : u # t => (HasType(m_servicetypes', u) <=> HasType(m_servicetypes, u))
  BY <1>1 DEF HasType
<1>5. ServiceTypes' = ServiceTypes \cup {t}
  BY <1>2, <1>3, <1>4 DEF ServiceTypes
<1>6. CASE HasType(m_servicetypes, t)
  <2>1. said' = {} /\ ServiceTypes' = ServiceTypes
    BY <1>2, <1>5, <1>6 DEF GotNewServiceType, ServiceTypes
  <2> QED
    BY <1>1, <2>1 DEF Directory!Next, Directory!Stirs
<1>7. CASE ~HasType(m_servicetypes, t)
  <2>1. said' = {<<"serviceTypeAdded", t>>} /\ t \notin ServiceTypes
    BY <1>7 DEF GotNewServiceType, ServiceTypes
  <2>2. Directory!Appears(t)
    BY <1>1, <1>5, <2>1 DEF Directory!Appears
  <2> QED
    BY <1>2, <2>2 DEF Directory!Next
<1> QED
  BY <1>6, <1>7

LEMMA RemoveSimulates ==
    ASSUME IInv, m_browser, UNCHANGED m_browser, NEW a \in Announcements,
           GotRemoveServiceType(a)
    PROVE  Directory!Next
<1> DEFINE t == TypeOf[a]
<1>1. /\ m_servicetypes \in [Announcements -> Nat]
      /\ m_servicetypes' = [m_servicetypes EXCEPT ![a] = IF @ > 0 THEN @ - 1 ELSE @]
      /\ batch' = TRUE
  BY DEF IInv, TypeOK, GotRemoveServiceType, Erased
<1>2. t \in Types
  BY DEF Types
<1>3. \A u \in Types : u # t => (HasType(m_servicetypes', u) <=> HasType(m_servicetypes, u))
  BY <1>1 DEF HasType
<1>4. CASE m_servicetypes[a] > 0 /\ ~HasType(m_servicetypes', t)
  <2>1. said' = {<<"serviceTypeRemoved", t>>}
    BY <1>4 DEF GotRemoveServiceType
  <2>2. t \in ServiceTypes
    BY <1>2, <1>4 DEF ServiceTypes, HasType
  <2>3. ServiceTypes' = ServiceTypes \ {t}
    BY <1>3, <1>4 DEF ServiceTypes
  <2>4. Directory!Disappears(t)
    BY <1>1, <2>1, <2>2, <2>3 DEF Directory!Disappears
  <2> QED
    BY <1>2, <2>4 DEF Directory!Next
<1>5. CASE ~(m_servicetypes[a] > 0 /\ ~HasType(m_servicetypes', t))
  <2>1. said' = {}
    BY <1>5 DEF GotRemoveServiceType
  <2>2. HasType(m_servicetypes', t) <=> HasType(m_servicetypes, t)
    <3>1. CASE m_servicetypes[a] > 0
      BY <1>5, <3>1 DEF HasType
    <3>2. CASE ~(m_servicetypes[a] > 0)
      <4>1. m_servicetypes' = m_servicetypes
        BY <1>1, <3>2
      <4> QED
        BY <4>1
    <3> QED
      BY <3>1, <3>2
  <2>3. ServiceTypes' = ServiceTypes
    BY <1>3, <2>2 DEF ServiceTypes
  <2> QED
    BY <1>1, <2>1, <2>3 DEF Directory!Next, Directory!Stirs
<1> QED
  BY <1>4, <1>5

LEMMA DeliverSimulates ==
    ASSUME IInv, Deliver
    PROVE  Directory!Next
<1> DEFINE sig == Head(bus)
<1>1. m_browser /\ UNCHANGED m_browser
  BY DEF Deliver, IInv, TypeOK
<1>2. sig \in Signal
  BY DeliverCounts
<1>3. CASE sig.kind = "ItemNew"
  <2>1. sig.item \in Announcements /\ GotNewServiceType(sig.item)
    BY <1>2, <1>3 DEF Deliver, Signal, ItemSignal
  <2> QED
    BY <1>1, <2>1, NewSimulates
<1>4. CASE sig.kind = "ItemRemove"
  <2>1. sig.item \in Announcements /\ GotRemoveServiceType(sig.item)
    BY <1>2, <1>4 DEF Deliver, Signal, ItemSignal
  <2> QED
    BY <1>1, <2>1, RemoveSimulates
<1>5. CASE sig.kind = "AllForNow"
  <2>1. Finished
    BY <1>5 DEF Deliver
  <2> QED
    BY <1>1, <2>1, SameListsSame DEF Finished, Directory!Next, Directory!Conclude
<1> QED
  BY <1>2, <1>3, <1>4, <1>5 DEF Signal, ItemSignal

LEMMA StepSimulates == IInv /\ [Next]_vars => [Directory!Next]_(Directory!vars)
<1> SUFFICES ASSUME IInv, [Next]_vars PROVE [Directory!Next]_(Directory!vars)
  OBVIOUS
<1>1. CASE StartBrowse
  <2>1. said' = {} /\ ServiceTypes' = ServiceTypes /\ ~m_browser
    BY <1>1, SameListsSame DEF StartBrowse, IInv, TypeOK
  <2>2. ASSUME Accepted PROVE Directory!Open
    BY <2>1, <2>2 DEF Accepted, Directory!Open
  <2>3. ASSUME Refused PROVE Directory!Unavailable
    BY <2>1, <2>3 DEF Refused, Directory!Unavailable
  <2> QED
    BY <1>1, <2>2, <2>3 DEF StartBrowse, Directory!Next
<1>2. CASE Recreate
  <2>1. ServiceTypes' = {}
    BY <1>2 DEF Recreate, ServiceTypes, HasType
  <2>2. m_browser' = FALSE /\ batch' = FALSE /\ said' = {}
    BY <1>2 DEF Recreate
  <2>3. ASSUME m_browser \/ batch PROVE Directory!Close
    BY <2>1, <2>2, <2>3 DEF Directory!Close
  <2>4. ASSUME ~m_browser, ~batch PROVE Directory!Elsewhere
    <3>1. m_browser = FALSE /\ batch = FALSE /\ ServiceTypes = {}
      BY <2>4, BlankLists DEF IInv, TypeOK, Blank
    <3> QED
      BY <2>1, <2>2, <3>1 DEF Directory!Elsewhere
  <2> QED
    BY <2>3, <2>4 DEF Directory!Next
<1>3. CASE Deliver
  BY <1>3, DeliverSimulates
<1>4. CASE TimerFires
  BY <1>4, SameListsSame
     DEF TimerFires, Finished, IInv, TypeOK, Directory!Next, Directory!Conclude
<1>5. ASSUME NEW sig, Send(sig) PROVE Directory!Elsewhere
  BY <1>5, SameListsSame DEF Send, object, Directory!Elsewhere
<1>6. CASE DaemonDies
  BY <1>6, SameListsSame DEF DaemonDies, object, Directory!Next, Directory!Elsewhere
<1>7. CASE UNCHANGED vars
  BY <1>7, SameListsSame DEF vars, object, Directory!vars
<1> QED
  BY <1>1, <1>2, <1>3, <1>4, <1>5, <1>6, <1>7
     DEF Next, Announces, Withdraws, SaysAllForNow, Directory!Next

\* The list and the signals of the browser keep the promises of TypeDirectory:
\* each change of serviceTypes() is told once and nothing else is, however many
\* interfaces and protocols a type is on.
THEOREM DirectoryImplemented == Spec => ImplementsDirectory
<1>1. Init => Directory!Init
  BY BlankLists DEF Init, Directory!Init
<1> QED
  BY <1>1, StepSimulates, Invariance, PTL DEF Spec, ImplementsDirectory, Directory!Spec
=============================================================================
