---------------------- MODULE AvahiRemoteServiceProofs ----------------------
(***************************************************************************)
(* Theorems about AvahiRemoteService, for every set of hosts, keys and     *)
(* paths and every bus length.                                             *)
(*                                                                         *)
(* Monitored compares the object with what its resolver has said last, and *)
(* only when nothing is on its way; to keep it, the last signal of the     *)
(* resolver on the bus must be that word (LastIsTold).                     *)
(***************************************************************************)
EXTENDS AvahiRemoteService, FiniteSetTheorems, TLAPS

BusBounded == Len(bus) <= MaxQueue

\* What a signal says.
WordOf(sig) == IF sig.kind = "Found" THEN Found(sig.record) ELSE Failure

LastIsTold ==
    m_running => \A i \in 1..Len(bus) :
        /\ bus[i].path = m_dbusObjectPath
        /\ \A j \in (i + 1)..Len(bus) : bus[j].path # m_dbusObjectPath
        => WordOf(bus[i]) = told[m_dbusObjectPath]

\* The object has a path while it runs.
HasPath == m_running => m_dbusObjectPath \in Paths

IInv ==
    /\ TypeOK /\ BusBounded /\ HasPath
    /\ OneResolver /\ AnswerComing /\ OwnAnswer /\ Monitored /\ LastIsTold

-----------------------------------------------------------------------------
\* There is a path for a new resolver: the signals on the bus and the object
\* cannot have used all of them up.
LEMMA FreshPathExists ==
    ASSUME TypeOK, BusBounded, OneResolver, ~m_running
    PROVE  /\ FreshPath \in Paths
           /\ FreshPath # m_dbusObjectPath
           /\ FreshPath \notin resolvers
           /\ \A i \in 1..Len(bus) : bus[i].path # FreshPath
<1> DEFINE used == {bus[i].path : i \in 1..Len(bus)}
           f == [i \in 1..Len(bus) |-> bus[i].path]
<1>1. Len(bus) \in Nat /\ Len(bus) <= MaxQueue /\ MaxQueue \in Nat
  BY FlagsAssumption DEF TypeOK, BusBounded
<1>2. IsFiniteSet(1..Len(bus)) /\ Cardinality(1..Len(bus)) = Len(bus)
  <2> DEFINE n == Len(bus)
  <2>1. 1 \in Int /\ n \in Int /\ n \in Nat
    BY <1>1
  <2> HIDE DEF n
  <2>2. IsFiniteSet(1..n) /\ Cardinality(1..n) = IF 1 > n THEN 0 ELSE n - 1 + 1
    BY <2>1, FS_Interval
  <2>3. Cardinality(1..n) = n
    BY <2>1, <2>2
  <2> QED
    BY <2>2, <2>3 DEF n
<1>3. f \in Surjection(1..Len(bus), used)
  BY DEF Surjection
<1> HIDE DEF f, used
<1>4. IsFiniteSet(used) /\ Cardinality(used) <= Len(bus)
  <2>1. IsFiniteSet(used) /\ Cardinality(used) <= Cardinality(1..Len(bus))
    BY <1>2, <1>3, FS_Surjection
  <2> QED
    BY <1>2, <2>1
<1>5. /\ IsFiniteSet(used \cup {m_dbusObjectPath})
      /\ Cardinality(used \cup {m_dbusObjectPath}) <= Len(bus) + 1
  <2>1. Cardinality(used) \in Nat
    BY <1>4, FS_CardinalityType
  <2>2. /\ IsFiniteSet(used \cup {m_dbusObjectPath})
        /\ Cardinality(used \cup {m_dbusObjectPath})
              = IF m_dbusObjectPath \in used THEN Cardinality(used) ELSE Cardinality(used) + 1
    BY <1>4, FS_AddElement
  <2> QED
    BY <1>1, <1>4, <2>1, <2>2
<1>6. Cardinality(Paths) \in Nat /\ Cardinality(used \cup {m_dbusObjectPath}) \in Nat
  BY <1>5, PathsAssumption, FS_CardinalityType
<1>7. ~(Paths \subseteq used \cup {m_dbusObjectPath})
  <2>1. SUFFICES ASSUME Paths \subseteq used \cup {m_dbusObjectPath} PROVE FALSE
    OBVIOUS
  <2>2. Cardinality(Paths) <= Cardinality(used \cup {m_dbusObjectPath})
    BY <1>5, <2>1, FS_Subset
  <2> QED
    BY <1>1, <1>5, <1>6, <2>2, PathsAssumption
<1>8. PICK p \in Paths : p # m_dbusObjectPath /\ p \notin used
  BY <1>7
<1>9. /\ p # m_dbusObjectPath /\ p \notin resolvers
      /\ \A i \in DOMAIN bus : bus[i].path # p
  BY <1>8 DEF OneResolver, TypeOK, used
<1>10. DOMAIN bus = 1..Len(bus)
  BY DEF TypeOK
<1> QED
  BY <1>9, <1>10 DEF FreshPath

LEMMA InitInv == Init => IInv
<1> SUFFICES ASSUME Init PROVE IInv
  OBVIOUS
<1>1. bus \in Seq(Signal) /\ Len(bus) = 0 /\ resolvers = {} /\ told \in [resolvers -> Word]
  BY DEF Init, resolvers
<1>2. TypeOK
  BY <1>1 DEF Init, TypeOK
<1> QED
  BY <1>1, <1>2, FlagsAssumption
     DEF Init, IInv, BusBounded, HasPath, OneResolver, AnswerComing, OwnAnswer, Heard, Monitored,
         LastIsTold

-----------------------------------------------------------------------------
LEMMA RequestInv ==
    ASSUME IInv, Request, resolving' \in BOOLEAN, watch' \in BOOLEAN
    PROVE  IInv'
<1> DEFINE path == FreshPath
<1>1. /\ ~m_running /\ m_resolved' = FALSE
      /\ UNCHANGED <<m_hostName, m_textData, service, bus, source>>
      /\ TypeOK /\ resolvers = {}
  BY DEF Request, IInv, OneResolver
<1>2. /\ path \in Paths /\ path # m_dbusObjectPath
      /\ \A i \in 1..Len(bus) : bus[i].path # path
  BY <1>1, FreshPathExists DEF IInv
<1> HIDE DEF path
<1>3. ASSUME m_running' = TRUE, m_dbusObjectPath' = path,
             told' = [p \in resolvers \cup {path} |-> IF p = path THEN Nothing ELSE told[p]]
      PROVE  IInv'
  <2>1. resolvers' = {path} /\ told'[path] = Nothing /\ told' \in [{path} -> Word]
    BY <1>1, <1>3 DEF resolvers, Word
  <2>2. TypeOK'
    BY <1>1, <1>2, <1>3, <2>1 DEF TypeOK
  <2>3. OneResolver' /\ AnswerComing' /\ OwnAnswer' /\ HasPath'
    BY <1>1, <1>2, <1>3, <2>1 DEF OneResolver, AnswerComing, OwnAnswer, HasPath
  <2>4. Monitored'
    BY <1>3, <2>1 DEF Heard, Monitored, Nothing
  <2>5. LastIsTold' /\ BusBounded'
    BY <1>1, <1>2, <1>3 DEF LastIsTold, BusBounded, IInv
  <2> QED
    BY <2>2, <2>3, <2>4, <2>5 DEF IInv
<1>4. ASSUME m_dbusObjectPath' = NoPath, UNCHANGED <<m_running, told>>
      PROVE  IInv'
  <2>1. resolvers' = {} /\ m_running' = FALSE
    BY <1>1, <1>4 DEF resolvers, TypeOK
  <2>2. TypeOK'
    BY <1>1, <1>4 DEF TypeOK, resolvers
  <2> QED
    BY <1>1, <2>1, <2>2 DEF IInv, BusBounded, HasPath, OneResolver, AnswerComing, OwnAnswer,
                            Heard, Monitored, LastIsTold
<1> QED
  BY <1>3, <1>4 DEF Request, ResolverNew, path

\* A step that touches neither the object nor the bus nor the resolvers.
LEMMA AsideInv ==
    ASSUME IInv, UNCHANGED <<object, told, bus, source>>,
           resolving' \in BOOLEAN, watch' \in BOOLEAN, service' \in Record
    PROVE  IInv'
  BY DEF object, resolvers, IInv, TypeOK, BusBounded, HasPath, OneResolver, AnswerComing, Queued,
         OwnAnswer, Heard, Monitored, LastIsTold

LEMMA RecreateInv ==
    ASSUME IInv, Recreate
    PROVE  IInv'
<1>1. resolvers' = {} /\ told' \in [{} -> Word]
  BY DEF IInv, OneResolver, Recreate, Freed, resolvers
<1>2. TypeOK'
  BY <1>1 DEF IInv, TypeOK, Recreate
<1> QED
  BY <1>1, <1>2 DEF Recreate, IInv, BusBounded, HasPath, OneResolver, AnswerComing, OwnAnswer,
                    Heard, Monitored, LastIsTold

-----------------------------------------------------------------------------
LEMMA BusTail ==
    ASSUME bus \in Seq(Signal), bus # << >>, bus' = Tail(bus)
    PROVE  /\ Head(bus) \in Signal /\ Head(bus) = bus[1]
           /\ bus' \in Seq(Signal)
           /\ Len(bus) \in Nat \ {0} /\ Len(bus') = Len(bus) - 1
           /\ \A i \in 1..Len(bus') : bus'[i] = bus[i + 1]
           /\ DOMAIN bus = 1..Len(bus) /\ DOMAIN bus' = 1..Len(bus')
  OBVIOUS

\* The signals of the object's path that stay on the bus.
LEMMA TailLast ==
    ASSUME IInv, bus # << >>, bus' = Tail(bus), m_running,
           UNCHANGED <<m_running, m_dbusObjectPath, told>>
    PROVE  /\ LastIsTold'
           /\ bus[1].path # m_dbusObjectPath => Queued' = Queued
           /\ bus[1].path = m_dbusObjectPath /\ ~Queued' =>
                 WordOf(bus[1]) = told[m_dbusObjectPath]
<1>1. /\ Len(bus) \in Nat \ {0} /\ Len(bus') = Len(bus) - 1
      /\ \A i \in 1..Len(bus') : bus'[i] = bus[i + 1]
      /\ DOMAIN bus = 1..Len(bus) /\ DOMAIN bus' = 1..Len(bus')
  BY BusTail DEF IInv, TypeOK
<1>2. \A h \in 2..Len(bus) : (h - 1) \in 1..Len(bus') /\ bus'[h - 1] = bus[h]
  BY <1>1
<1>3. LastIsTold'
  <2> SUFFICES ASSUME NEW i \in 1..Len(bus'), bus'[i].path = m_dbusObjectPath,
                      \A j \in (i + 1)..Len(bus') : bus'[j].path # m_dbusObjectPath
               PROVE  WordOf(bus'[i]) = told[m_dbusObjectPath]
    BY DEF LastIsTold
  <2>1. (i + 1) \in 1..Len(bus) /\ bus'[i] = bus[i + 1]
    BY <1>1
  <2>2. ASSUME NEW h \in ((i + 1) + 1)..Len(bus) PROVE bus[h].path # m_dbusObjectPath
    <3>1. (h - 1) \in (i + 1)..Len(bus') /\ bus'[h - 1] = bus[h]
      BY <1>1
    <3> QED
      BY <3>1
  <2> QED
    BY <2>1, <2>2 DEF IInv, LastIsTold
<1>4. ASSUME bus[1].path # m_dbusObjectPath PROVE Queued' <=> Queued
  <2>1. Queued' => Queued
    BY <1>1 DEF Queued
  <2>2. Queued => Queued'
    <3>1. SUFFICES ASSUME NEW h \in 1..Len(bus), bus[h].path = m_dbusObjectPath PROVE Queued'
      BY <1>1 DEF Queued
    <3>2. h \in 2..Len(bus)
      BY <1>1, <1>4, <3>1
    <3> QED
      BY <1>1, <1>2, <3>1, <3>2 DEF Queued
  <2> QED
    BY <2>1, <2>2
<1>5. ASSUME bus[1].path = m_dbusObjectPath, ~Queued'
      PROVE  WordOf(bus[1]) = told[m_dbusObjectPath]
  <2>1. ASSUME NEW h \in (1 + 1)..Len(bus) PROVE bus[h].path # m_dbusObjectPath
    <3>1. h \in 2..Len(bus)
      OBVIOUS
    <3>2. (h - 1) \in DOMAIN bus' /\ bus'[h - 1] = bus[h]
      BY <1>1, <1>2, <3>1
    <3>3. bus'[h - 1].path # m_dbusObjectPath'
      BY <1>5, <3>2 DEF Queued
    <3> QED
      BY <3>2, <3>3
  <2>2. 1 \in 1..Len(bus)
    BY <1>1
  <2> QED
    BY <1>5, <2>1, <2>2 DEF IInv, LastIsTold
<1> QED
  BY <1>3, <1>4, <1>5 DEF Queued

\* Found, from the resolver of the present request or of one that was given up.
LEMMA FoundInv ==
    ASSUME IInv, bus # << >>, bus' = Tail(bus), UNCHANGED <<resolving, service, watch>>,
           IsOurMsg(m_dbusObjectPath, Head(bus)), Head(bus).kind = "Found", GotFound(Head(bus).record)
    PROVE  IInv'
<1> DEFINE r == bus[1].record
<1>1. /\ bus[1] \in Signal /\ bus' \in Seq(Signal) /\ Head(bus) = bus[1]
      /\ Len(bus) \in Nat /\ Len(bus') = Len(bus) - 1
      /\ bus[1].path = m_dbusObjectPath /\ m_dbusObjectPath \in Paths
  BY BusTail DEF IInv, TypeOK, IsOurMsg, Signal
<1>2. r \in Record /\ WordOf(bus[1]) = Found(r)
  BY <1>1 DEF Signal, WordOf
<1>3. /\ m_hostName' = {r.host} /\ m_textData' = m_textData \cup r.txt
      /\ m_resolved' = TRUE /\ source' = m_dbusObjectPath
      /\ UNCHANGED <<m_running, m_dbusObjectPath, told, resolvers>>
  BY <1>1 DEF GotFound, resolvers
<1>4. TypeOK'
  <2>1. r.host \in Hosts /\ r.txt \subseteq Keys
    BY <1>2 DEF Record
  <2> QED
    BY <1>1, <1>3, <2>1 DEF IInv, TypeOK
<1>5. OneResolver' /\ AnswerComing' /\ OwnAnswer' /\ HasPath' /\ BusBounded'
  BY <1>1, <1>3, FlagsAssumption
     DEF IInv, OneResolver, AnswerComing, OwnAnswer, HasPath, BusBounded
<1>6. LastIsTold'
  <2>1. CASE m_running
    BY <1>3, <2>1, TailLast
  <2>2. CASE ~m_running
    BY <1>3, <2>2 DEF LastIsTold
  <2> QED
    BY <2>1, <2>2
<1>7. Monitored'
  <2> SUFFICES ASSUME m_running', ~Queued'
               PROVE  /\ m_resolved'
                      /\ m_hostName' = {told'[m_dbusObjectPath'].record.host}
                      /\ told'[m_dbusObjectPath'].record.txt \subseteq m_textData'
    BY DEF Heard, Monitored
  <2>1. told[m_dbusObjectPath] = Found(r)
    BY <1>1, <1>2, <1>3, TailLast
  <2>2. told[m_dbusObjectPath].record = r
    BY <2>1 DEF Found
  <2> QED
    BY <1>3, <2>2
<1> QED
  BY <1>4, <1>5, <1>6, <1>7 DEF IInv

LEMMA ErrorInv ==
    ASSUME IInv, bus # << >>, bus' = Tail(bus), UNCHANGED <<resolving, service, watch>>, GotError
    PROVE  IInv'
<1>1. /\ bus' \in Seq(Signal) /\ Len(bus) \in Nat /\ Len(bus') = Len(bus) - 1
  BY BusTail DEF IInv, TypeOK
<1>2. /\ m_running' = FALSE /\ m_resolved' = FALSE
      /\ UNCHANGED <<m_dbusObjectPath, m_hostName, m_textData, source>>
      /\ resolvers' = {} /\ told' \in [{} -> Word]
  BY DEF GotError, Freed, IInv, OneResolver, resolvers
<1>3. TypeOK'
  BY <1>1, <1>2 DEF IInv, TypeOK
<1> QED
  BY <1>1, <1>2, <1>3, FlagsAssumption
     DEF IInv, BusBounded, HasPath, OneResolver, AnswerComing, OwnAnswer, Heard, Monitored, LastIsTold

\* A signal of a path that is not the object's reaches nobody.
LEMMA NotOursInv ==
    ASSUME IInv, bus # << >>, bus' = Tail(bus), UNCHANGED <<resolving, service, watch>>,
           ~IsOurMsg(m_dbusObjectPath, Head(bus)), UNCHANGED <<object, told, source>>
    PROVE  IInv'
<1>1. /\ bus' \in Seq(Signal) /\ Len(bus) \in Nat /\ Len(bus') = Len(bus) - 1
      /\ Head(bus) = bus[1]
  BY BusTail DEF IInv, TypeOK
<1>2. UNCHANGED <<m_running, m_resolved, m_dbusObjectPath, m_hostName, m_textData, told,
                  source, resolvers>>
  BY DEF object, resolvers
<1>3. TypeOK' /\ BusBounded' /\ HasPath' /\ OneResolver' /\ OwnAnswer'
  BY <1>1, <1>2, FlagsAssumption
     DEF IInv, TypeOK, BusBounded, HasPath, OneResolver, OwnAnswer
<1>4. CASE m_running
  <2>1. bus[1].path # m_dbusObjectPath
    BY <1>1, <1>4, PathsAssumption DEF IsOurMsg, IInv, HasPath
  <2>2. LastIsTold' /\ Queued' = Queued
    BY <1>2, <1>4, <2>1, TailLast
  <2> QED
    BY <1>2, <1>3, <2>2 DEF IInv, AnswerComing, Heard, Monitored
<1>5. CASE ~m_running
  BY <1>2, <1>3, <1>5 DEF IInv, AnswerComing, Heard, Monitored, LastIsTold
<1> QED
  BY <1>4, <1>5

LEMMA DeliverInv ==
    ASSUME IInv, Deliver
    PROVE  IInv'
  BY FoundInv, ErrorInv, NotOursInv DEF Deliver

-----------------------------------------------------------------------------
\* A resolver speaks: only the one of the running object is there to do so.
LEMMA SpeaksInv ==
    ASSUME IInv, NEW path \in resolvers, NEW sig \in Signal, sig.path = path, Send(sig),
           told' = [told EXCEPT ![path] = WordOf(sig)], WordOf(sig) \in Word
    PROVE  IInv'
<1>1. /\ bus \in Seq(Signal) /\ bus' = Append(bus, sig)
      /\ Len(bus) < MaxQueue
      /\ UNCHANGED <<m_running, m_resolved, m_dbusObjectPath, m_hostName, m_textData,
                     resolving, service, source, watch>>
  BY DEF Send, object, IInv, TypeOK
<1>2. /\ bus' \in Seq(Signal) /\ Len(bus) \in Nat /\ Len(bus') = Len(bus) + 1
      /\ bus'[Len(bus')] = sig
      /\ \A i \in 1..Len(bus) : bus'[i] = bus[i]
      /\ DOMAIN bus' = 1..Len(bus')
  BY <1>1
<1>3. m_running /\ path = m_dbusObjectPath
  BY DEF IInv, OneResolver
<1>4. resolvers' = resolvers /\ told' \in [resolvers -> Word] /\ told'[path] = WordOf(sig)
  BY DEF resolvers, IInv, TypeOK
<1>5. Queued'
  <2>1. Len(bus') \in DOMAIN bus'
    BY <1>2
  <2> QED
    BY <1>1, <1>2, <1>3, <2>1 DEF Queued
<1>6. TypeOK'
  BY <1>1, <1>2, <1>4 DEF IInv, TypeOK
<1>7. LastIsTold'
  <2> SUFFICES ASSUME NEW i \in 1..Len(bus'),
                      \A j \in (i + 1)..Len(bus') : bus'[j].path # m_dbusObjectPath'
               PROVE  WordOf(bus'[i]) = told'[m_dbusObjectPath']
    BY DEF LastIsTold
  <2>1. i = Len(bus')
    <3>1. SUFFICES ASSUME i # Len(bus') PROVE FALSE
      OBVIOUS
    <3>2. Len(bus') \in (i + 1)..Len(bus')
      BY <1>2, <3>1
    <3> QED
      BY <1>1, <1>2, <1>3, <3>2
  <2> QED
    BY <1>1, <1>2, <1>3, <1>4, <2>1
<1>8. BusBounded' /\ HasPath' /\ OneResolver' /\ AnswerComing' /\ OwnAnswer' /\ Monitored'
  BY <1>1, <1>2, <1>4, <1>5, FlagsAssumption
     DEF IInv, BusBounded, HasPath, OneResolver, AnswerComing, OwnAnswer, Heard, Monitored
<1> QED
  BY <1>6, <1>7, <1>8 DEF IInv

LEMMA FindsInv ==
    ASSUME IInv, NEW path \in Paths, Finds(path)
    PROVE  IInv'
<1> DEFINE sig == [path |-> path, kind |-> "Found", record |-> service]
<1>1. sig \in Signal /\ sig.path = path /\ WordOf(sig) = Found(service)
  BY DEF Signal, WordOf, IInv, TypeOK
<1>2. Found(service) \in Word
  BY DEF Word, IInv, TypeOK
<1>3. path \in resolvers /\ Send(sig) /\ told' = [told EXCEPT ![path] = Found(service)]
  BY DEF Finds
<1> HIDE DEF sig
<1> QED
  BY <1>1, <1>2, <1>3, SpeaksInv

LEMMA FailsInv ==
    ASSUME IInv, NEW path \in Paths, Fails(path)
    PROVE  IInv'
<1> DEFINE sig == [path |-> path, kind |-> "Failure"]
<1>1. sig \in Signal /\ sig.path = path /\ WordOf(sig) = Failure
  BY DEF Signal, WordOf
<1>2. Failure \in Word
  BY DEF Word
<1>3. path \in resolvers /\ Send(sig) /\ told' = [told EXCEPT ![path] = Failure]
  BY DEF Fails
<1> HIDE DEF sig
<1> QED
  BY <1>1, <1>2, <1>3, SpeaksInv

LEMMA StepInv == IInv /\ [Next]_vars => IInv'
<1> SUFFICES ASSUME IInv, [Next]_vars PROVE IInv'
  OBVIOUS
<1>1. resolving \in BOOLEAN /\ watch \in BOOLEAN /\ service \in Record
  BY DEF IInv, TypeOK
<1>2. CASE ResolveAsync
  BY <1>1, <1>2, RequestInv, AsideInv DEF ResolveAsync, Returns
<1>3. CASE Resolve
  BY <1>1, <1>3, RequestInv, AsideInv DEF Resolve, Returns
<1>4. CASE ResolveReturns
  BY <1>1, <1>4, AsideInv DEF ResolveReturns
<1>5. ASSUME NEW r \in Record, ServiceChanges(r) PROVE IInv'
  BY <1>1, <1>5, AsideInv DEF ServiceChanges
<1>6. CASE UNCHANGED vars
  BY <1>1, <1>6, AsideInv DEF vars
<1> QED
  BY <1>2, <1>3, <1>4, <1>5, <1>6, RecreateInv, DeliverInv, FindsInv, FailsInv DEF Next

\* Requests, slots and the daemon's resolvers keep the invariant.
THEOREM Invariance == Spec => []IInv
  BY InitInv, StepInv, PTL DEF Spec

-----------------------------------------------------------------------------
\* The object, the resolvers and the bus stay in their types; what resolved an
\* object gave it a host.
THEOREM TypeCorrect == Spec => []TypeOK
<1>1. IInv => TypeOK
  BY DEF IInv
<1> QED
  BY <1>1, Invariance, PTL

\* The daemon never holds a resolver too many or too few for the object.
THEOREM ResolversFreed == Spec => []OneResolver
<1>1. IInv => OneResolver
  BY DEF IInv
<1> QED
  BY <1>1, Invariance, PTL

\* The loop of resolve() always has something to wait for.
THEOREM AnswersCome == Spec => []AnswerComing
<1>1. IInv => AnswerComing
  BY DEF IInv
<1> QED
  BY <1>1, Invariance, PTL

\* Answers of earlier requests are not mistaken for those of the present one.
THEOREM AnswersAreOwn == Spec => []OwnAnswer
<1>1. IInv => OwnAnswer
  BY DEF IInv
<1> QED
  BY <1>1, Invariance, PTL

\* A running object reports what its resolver has said last.
THEOREM ServiceMonitored == Spec => []Monitored
<1>1. IInv => Monitored
  BY DEF IInv
<1> QED
  BY <1>1, Invariance, PTL
=============================================================================
