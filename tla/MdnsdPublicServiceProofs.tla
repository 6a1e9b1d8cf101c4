---------------------- MODULE MdnsdPublicServiceProofs ----------------------
(***************************************************************************)
(* Theorems about MdnsdPublicService, for every set of names,              *)
(* configurations and failures, every number of unread replies and every   *)
(* depth of nesting.                                                       *)
(*                                                                         *)
(* The inductive invariant IInv has a part about the object alone, Sound,  *)
(* which every method keeps (one lemma per method, for any sound object),  *)
(* and a part that follows the registered name on its way to the object:   *)
(* it is in the last reply, then in the frame of the customEvent that has  *)
(* read that reply, then in m_serviceName.  What only holds with a daemon  *)
(* that lives (Lively) is part of it under that assumption.                *)
(***************************************************************************)
EXTENDS MdnsdPublicService, SequenceTheorems, TLAPS

\* The connection is owned and the socket is that of a connection.
Connected(r) ==
    /\ r \in Responder
    /\ OwnsItsConnection(r)
    /\ r.m_running => r.m_ref

\* The daemon has registered the object under this name.
RecordedAs(s, n) == s.record = {[name |-> n, config |-> s.m_config]}

\* What the application was told fits the object (AppNeverStranded).
ToldTheTruth(s) ==
    /\ s.app = "waiting" => IsRunning(s)
    /\ s.app = "failed" => ~IsRunning(s) /\ ~s.m_published
    /\ s.app = "published" => s.m_published

\* With a daemon that lives no connection breaks, so m_published is reset with
\* every connection that is closed.
Lively(s) ==
    /\ IsRunning(s) => s.served
    /\ s.m_published => s.confirmed
    /\ ToldTheTruth(s)

\* The daemon has decided, and its last reply is about the record.
LastReplyIsCurrent(s) ==
    s.record # {} /\ ~s.probing /\ s.replies # << >> =>
        s.replies[Len(s.replies)].is = "Registered"
            /\ RecordedAs(s, s.replies[Len(s.replies)].name)

\* What a setter's assignment does not disturb.
Steady(s) ==
    /\ s \in Object
    /\ Connected(s.responder)
    /\ s.served \/ s.replies # << >> \/ s.confirmed => IsRunning(s)
    /\ s.record # {} \/ s.probing => s.served
    /\ DaemonMayDie \/ Lively(s)

Sound(s) ==
    /\ Steady(s)
    /\ s.record # {} => \E n \in Names : RecordedAs(s, n)
    /\ LastReplyIsCurrent(s)

\* No reply is under way: the object has the name, or is about to take it over.
Settled(s) == s.record # {} /\ ~s.probing /\ s.replies = << >> /\ ~s.crossed

EventFrames == {i \in DOMAIN suspended : suspended[i].of = "customEvent"}

NameArrives ==
    /\ Settled(svc) /\ ~InEvent => svc.record = {Current(svc)}
    /\ Settled(svc) => \A i \in EventFrames : RecordedAs(svc, suspended[i].name)

\* A second customEvent is only entered by crossing the first.
OneEvent == ~svc.crossed => \A i, j \in EventFrames : i = j

IInv ==
    /\ Sound(svc)
    /\ suspended \in Seq(Frame)
    /\ NameArrives
    /\ OneEvent

-----------------------------------------------------------------------------
(***************************************************************************)
(* The connection.                                                         *)
(***************************************************************************)
LEMMA StoppedFacts ==
    ASSUME NEW r, Connected(r)
    PROVE  Connected(Stopped(r)) /\ ~Stopped(r).m_running
  BY DEF Connected, Stopped, Responder, OwnsItsConnection

LEMMA WithRefFacts ==
    ASSUME NEW r, Connected(r), NEW socket \in BOOLEAN
    PROVE  Connected(WithRef(r, socket))
<1> DEFINE new == [r EXCEPT !.allocated = @ + 1]
           old == IF r.m_ref THEN Stopped(new) ELSE new
<1>1. new \in Responder /\ new.allocated = r.allocated + 1 /\ new.m_ref = r.m_ref
  BY DEF Connected, Responder
<1>2. old \in Responder /\ old.allocated = 1
  BY <1>1 DEF Connected, Stopped, Responder, OwnsItsConnection
<1>3. WithRef(r, socket) = [old EXCEPT !.m_ref = TRUE, !.m_running = socket]
  BY DEF WithRef
<1> QED
  BY <1>2, <1>3 DEF Connected, Responder, OwnsItsConnection

LEMMA RequestedFacts ==
    ASSUME NEW r, Connected(r), NEW t \in Requested(r, Failures)
    PROVE  Connected(t)
  BY WithRefFacts DEF Requested

(***************************************************************************)
(* The methods, for any object in a steady state.                          *)
(***************************************************************************)
LEMMA DisconnectFacts ==
    ASSUME NEW s, Steady(s)
    PROVE  /\ Disconnect(s) \in Object
           /\ Connected(Disconnect(s).responder)
           /\ ~IsRunning(Disconnect(s))
           /\ ~Disconnect(s).served /\ ~Disconnect(s).probing
           /\ Disconnect(s).record = {} /\ Disconnect(s).replies = << >>
           /\ ~Disconnect(s).confirmed
           /\ Disconnect(s).m_published = s.m_published
           /\ Disconnect(s).app = s.app
           /\ Disconnect(s).crossed = s.crossed
<1>1. Connected(Stopped(s.responder)) /\ ~Stopped(s.responder).m_running
  BY StoppedFacts DEF Steady
<1>2. Stopped(s.responder) \in Responder
  BY <1>1 DEF Connected
<1>3. s \in Object
  BY DEF Steady
<1>4. Disconnect(s) \in Object
  <2>1. {} \in SUBSET Entry /\ << >> \in Seq(Reply)
    OBVIOUS
  <2> QED
    BY <1>2, <1>3, <2>1 DEF Disconnect, Object
<1>5. Disconnect(s).responder = Stopped(s.responder)
  BY <1>3 DEF Disconnect, Object
<1> QED
  BY <1>1, <1>3, <1>4, <1>5 DEF Disconnect, Object, IsRunning

LEMMA StopFacts ==
    ASSUME NEW s, Steady(s)
    PROVE  /\ Stop(s) \in Object
           /\ Connected(Stop(s).responder)
           /\ ~IsRunning(Stop(s))
           /\ ~Stop(s).served /\ ~Stop(s).probing
           /\ Stop(s).record = {} /\ Stop(s).replies = << >>
           /\ ~Stop(s).confirmed /\ ~Stop(s).m_published
           /\ Stop(s).app = s.app
           /\ Stop(s).crossed = s.crossed
<1>1. Disconnect(s) \in Object
  BY DisconnectFacts
<1> QED
  BY <1>1, DisconnectFacts DEF Stop, Object, IsRunning

\* publishAsync() starts over on a fresh connection, or fails without one.
LEMMA PublishAsyncFacts ==
    ASSUME NEW s, \/ Steady(s)
                  \/ \E u : Steady(u) /\ s = Stop(u),
           NEW t \in PublishAsync(s)
    PROVE  Sound(t) /\ ~Settled(t) /\ t.crossed = s.crossed
<1> DEFINE stopped == IF IsRunning(s) THEN Stop(s) ELSE s
<1>1. /\ stopped \in Object
      /\ Connected(stopped.responder)
      /\ ~IsRunning(stopped)
      /\ ~stopped.served /\ ~stopped.probing /\ stopped.record = {}
      /\ stopped.replies = << >>
      /\ ~stopped.confirmed
      /\ DaemonMayDie \/ ~stopped.m_published
      /\ stopped.crossed = s.crossed
  BY StopFacts DEF Steady, Lively
<1>2. PICK r \in Requested(stopped.responder, Failures) :
          t = IF r.m_running THEN Registering(stopped, r)
              ELSE Emit([stopped EXCEPT !.responder = r], FALSE)
  BY DEF PublishAsync
<1>3. Connected(r) /\ r \in Responder
  BY <1>1, <1>2, RequestedFacts DEF Connected
<1> HIDE DEF stopped
<1>4. CASE r.m_running
  <2>1. {[name |-> stopped.m_serviceName, config |-> stopped.m_config]} \in SUBSET Entry
    BY <1>1 DEF Entry, Object
  <2>2. t = Registering(stopped, r)
    BY <1>2, <1>4
  <2>3. t \in Object
    BY <1>1, <1>3, <2>1, <2>2 DEF Registering, Object
  <2>4. stopped.m_serviceName \in Names /\ t.m_config = stopped.m_config
    BY <1>1, <2>2 DEF Registering, Object
  <2>5. RecordedAs(t, stopped.m_serviceName)
    BY <1>1, <2>2, <2>4 DEF RecordedAs, Registering, Object
  <2>6. Steady(t) /\ t.probing /\ t.crossed = s.crossed
    BY <1>1, <1>3, <1>4, <2>2, <2>3 DEF Steady, Registering, Object, IsRunning, Lively, ToldTheTruth
  <2> QED
    BY <2>4, <2>5, <2>6 DEF Sound, LastReplyIsCurrent, Settled
<1>5. CASE ~r.m_running
  <2>1. t = Emit([stopped EXCEPT !.responder = r], FALSE)
    BY <1>2, <1>5
  <2>2. t \in Object
    BY <1>1, <1>3, <2>1 DEF Emit, Object
  <2>3. Steady(t) /\ t.record = {} /\ t.crossed = s.crossed
    BY <1>1, <1>3, <1>5, <2>1, <2>2 DEF Steady, Emit, Object, IsRunning, Lively, ToldTheTruth
  <2> QED
    BY <2>3 DEF Sound, LastReplyIsCurrent, Settled
<1> QED
  BY <1>4, <1>5

LEMMA RepublishFacts ==
    ASSUME NEW s, Steady(s), NEW t \in Republish(s)
    PROVE  Sound(t) /\ ~Settled(t) /\ t.crossed = s.crossed
<1>1. CASE IsRunning(s)
  <2>1. t \in PublishAsync(Stop(s)) /\ Stop(s).crossed = s.crossed
    BY <1>1, StopFacts DEF Republish
  <2> QED
    BY <2>1, PublishAsyncFacts
<1>2. CASE ~IsRunning(s)
  <2>1. t = s /\ s.record = {}
    BY <1>2 DEF Republish, Steady
  <2> QED
    BY <2>1 DEF Sound, LastReplyIsCurrent, Settled
<1> QED
  BY <1>1, <1>2

LEMMA ConstructedFacts ==
    ASSUME NEW n \in Names, NEW c \in Configs
    PROVE  Sound(Constructed(n, c)) /\ ~Settled(Constructed(n, c))
<1>1. NoConnection \in Responder /\ {} \in SUBSET Entry /\ << >> \in Seq(Reply)
  BY DEF NoConnection, Responder
<1>2. Constructed(n, c) \in Object
  BY <1>1 DEF Constructed, Object
<1> QED
  BY <1>2 DEF Constructed, NoConnection, Sound, Steady, Connected, Responder,
     OwnsItsConnection, IsRunning, Lively, ToldTheTruth, LastReplyIsCurrent, Settled

LEMMA SetterFacts ==
    ASSUME NEW s, Steady(s), NEW n \in Names, NEW c \in Configs
    PROVE  /\ Steady([s EXCEPT !.m_serviceName = n])
           /\ Steady([s EXCEPT !.m_config = c])
           /\ [s EXCEPT !.m_serviceName = n].crossed = s.crossed
           /\ [s EXCEPT !.m_config = c].crossed = s.crossed
<1>1. s \in Object
  BY DEF Steady
<1>2. [s EXCEPT !.m_serviceName = n] \in Object /\ [s EXCEPT !.m_config = c] \in Object
  BY <1>1 DEF Object
<1> QED
  BY <1>1, <1>2 DEF Steady, Object, IsRunning, Lively, ToldTheTruth

LEMMA CallStopFacts ==
    ASSUME NEW s, Steady(s)
    PROVE  LET t == [Stop(s) EXCEPT !.app = "idle"]
           IN  Sound(t) /\ ~Settled(t) /\ t.crossed = s.crossed
<1> DEFINE t == [Stop(s) EXCEPT !.app = "idle"]
<1>1. t \in Object
  BY StopFacts DEF Object
<1>2. Steady(t) /\ t.record = {} /\ t.crossed = s.crossed
  BY <1>1, StopFacts DEF Steady, Object, IsRunning, Lively, ToldTheTruth
<1> QED
  BY <1>2 DEF Sound, LastReplyIsCurrent, Settled

LEMMA OnErrorFacts ==
    ASSUME NEW s, Steady(s)
    PROVE  Sound(OnError(s)) /\ ~Settled(OnError(s)) /\ OnError(s).crossed = s.crossed
<1>1. OnError(s) \in Object
  BY StopFacts DEF OnError, Emit, Object
<1>2. Steady(OnError(s)) /\ OnError(s).record = {} /\ OnError(s).crossed = s.crossed
  BY <1>1, StopFacts DEF OnError, Emit, Steady, Object, IsRunning, Lively, ToldTheTruth
<1> QED
  BY <1>2 DEF Sound, LastReplyIsCurrent, Settled

LEMMA OnRegisteredFacts ==
    ASSUME NEW s, Sound(s), IsRunning(s)
    PROVE  /\ Sound(OnRegistered(s))
           /\ Settled(OnRegistered(s)) <=> Settled(s)
           /\ OnRegistered(s).crossed = s.crossed
           /\ OnRegistered(s).record = s.record
           /\ OnRegistered(s).m_config = s.m_config
<1> DEFINE t == OnRegistered(s)
<1>1. s \in Object
  BY DEF Sound, Steady
<1>2. t \in Object
  BY <1>1 DEF OnRegistered, Emit, Object
<1>3. /\ t.record = s.record /\ t.m_config = s.m_config /\ t.crossed = s.crossed
      /\ t.probing = s.probing /\ t.replies = s.replies
      /\ t.responder = s.responder /\ t.served = s.served
      /\ t.m_published /\ t.confirmed /\ t.app = "published"
  BY <1>1 DEF OnRegistered, Emit, Object
<1> HIDE DEF t
<1>4. Steady(t)
  BY <1>2, <1>3 DEF Sound, Steady, IsRunning, Lively, ToldTheTruth
<1>5. (t.record # {} => \E n \in Names : RecordedAs(t, n)) /\ LastReplyIsCurrent(t)
  BY <1>3 DEF Sound, LastReplyIsCurrent, RecordedAs
<1> QED
  BY <1>3, <1>4, <1>5 DEF t, Sound, Settled

LEMMA TakesNameFacts ==
    ASSUME NEW s, Sound(s), NEW n \in Names
    PROVE  /\ Sound(TakesName(s, n))
           /\ Settled(TakesName(s, n)) <=> Settled(s)
           /\ TakesName(s, n).crossed = s.crossed
           /\ TakesName(s, n).m_serviceName = n
           /\ \A m : RecordedAs(s, m) <=> RecordedAs(TakesName(s, n), m)
<1> DEFINE t == TakesName(s, n)
<1>1. s \in Object
  BY DEF Sound, Steady
<1>2. Steady(t)
  BY <1>1, SetterFacts DEF TakesName, Sound, Object
<1>3. /\ t.record = s.record /\ t.m_config = s.m_config /\ t.crossed = s.crossed
      /\ t.probing = s.probing /\ t.replies = s.replies /\ t.m_serviceName = n
  BY <1>1 DEF TakesName, Object
<1> HIDE DEF t
<1>4. (t.record # {} => \E m \in Names : RecordedAs(t, m)) /\ LastReplyIsCurrent(t)
  BY <1>3 DEF Sound, LastReplyIsCurrent, RecordedAs
<1> QED
  BY <1>2, <1>3, <1>4 DEF t, Sound, Settled, RecordedAs

LEMMA BrokenFacts ==
    ASSUME NEW s, Steady(s), DaemonMayDie
    PROVE  Sound(Broken(s)) /\ ~Settled(Broken(s)) /\ Broken(s).crossed = s.crossed
<1>1. Broken(s) \in Object
  BY DisconnectFacts DEF Broken, Object
<1>2. Steady(Broken(s)) /\ Broken(s).record = {} /\ Broken(s).crossed = s.crossed
  BY <1>1, DisconnectFacts DEF Broken, Steady, Object, IsRunning, Lively, ToldTheTruth
<1> QED
  BY <1>2 DEF Sound, LastReplyIsCurrent, Settled

LEMMA CrossingFacts ==
    ASSUME NEW s, Sound(s)
    PROVE  /\ Sound(Crossing(s))
           /\ Settled(Crossing(s)) => Settled(s) /\ ~InEvent
           /\ s.crossed \/ InEvent => Crossing(s).crossed
           /\ ~InEvent => Crossing(s) = s
           /\ Crossing(s).responder = s.responder
           /\ \A m : RecordedAs(s, m) => RecordedAs(Crossing(s), m)
<1>1. CASE ~InEvent
  BY <1>1 DEF Crossing, Settled
<1>2. CASE InEvent
  <2> DEFINE t == [s EXCEPT !.crossed = TRUE]
  <2>1. s \in Object
    BY DEF Sound, Steady
  <2>2. t \in Object
    BY <2>1 DEF Object
  <2>3. /\ t.record = s.record /\ t.m_config = s.m_config /\ t.crossed
        /\ t.probing = s.probing /\ t.replies = s.replies
        /\ t.responder = s.responder /\ t.served = s.served
        /\ t.m_published = s.m_published /\ t.confirmed = s.confirmed
        /\ t.app = s.app
    BY <2>1 DEF Object
  <2>4. Crossing(s) = t
    BY <1>2 DEF Crossing
  <2> HIDE DEF t
  <2>5. Steady(t)
    BY <2>2, <2>3 DEF Sound, Steady, IsRunning, Lively, ToldTheTruth
  <2>6. (t.record # {} => \E n \in Names : RecordedAs(t, n)) /\ LastReplyIsCurrent(t)
    BY <2>3 DEF Sound, LastReplyIsCurrent, RecordedAs
  <2> QED
    BY <1>2, <2>3, <2>4, <2>5, <2>6 DEF Sound, Settled, RecordedAs
<1> QED
  BY <1>1, <1>2

-----------------------------------------------------------------------------
(***************************************************************************)
(* The stack of suspended handlers.                                        *)
(***************************************************************************)
LEMMA FrontFacts ==
    ASSUME NEW S, NEW q \in Seq(S), q # << >>
    PROVE  /\ Front(q) \in Seq(S)
           /\ DOMAIN Front(q) = DOMAIN q \ {Len(q)}
           /\ \A i \in DOMAIN Front(q) : Front(q)[i] = q[i]
           /\ Len(q) \in DOMAIN q /\ Last(q) = q[Len(q)] /\ Last(q) \in S
<1>1. Len(q) \in Nat \ {0} /\ DOMAIN q = 1..Len(q)
  BY EmptySeq, LenProperties
<1>2. \A i \in 1..(Len(q) - 1) : q[i] \in S
  BY <1>1, ElementOfSeq
<1>3. Front(q) = SubSeq(q, 1, Len(q) - 1)
  BY DEF Front
<1>4. /\ Front(q) \in Seq(S)
      /\ Len(Front(q)) = Len(q) - 1
      /\ \A i \in 1..(Len(q) - 1) : Front(q)[i] = q[1 + i - 1]
  BY <1>1, <1>2, <1>3, SubSeqProperties
<1>5. DOMAIN Front(q) = 1..(Len(q) - 1)
  BY <1>4, LenProperties
<1>6. Last(q) = q[Len(q)] /\ Last(q) \in S
  BY <1>1, ElementOfSeq DEF Last
<1> QED
  BY <1>1, <1>4, <1>5, <1>6

LEMMA FrameNames ==
    ASSUME suspended \in Seq(Frame), NEW i \in EventFrames
    PROVE  suspended[i].name \in Names
<1>1. suspended[i] \in Frame
  BY ElementOfSeq, LenProperties DEF EventFrames
<1> QED
  BY <1>1 DEF Frame, EventFrames

\* Entering publish() adds no customEvent.
LEMMA PushPublish ==
    ASSUME suspended \in Seq(Frame), NEW flag \in BOOLEAN,
           suspended' = Append(suspended, [of |-> "publish", inSlot |-> flag])
    PROVE  /\ suspended' \in Seq(Frame)
           /\ EventFrames' = EventFrames
           /\ \A i \in EventFrames : suspended'[i] = suspended[i]
<1> DEFINE f == [of |-> "publish", inSlot |-> flag]
<1>1. f \in Frame
  BY DEF Frame
<1>2. /\ suspended' \in Seq(Frame)
      /\ Len(suspended') = Len(suspended) + 1
      /\ \A i \in 1..Len(suspended) : suspended'[i] = suspended[i]
      /\ suspended'[Len(suspended) + 1] = f
  BY <1>1, AppendProperties
<1>3. /\ DOMAIN suspended = 1..Len(suspended) /\ DOMAIN suspended' = 1..Len(suspended')
      /\ Len(suspended) \in Nat
  BY <1>2, LenProperties
<1>4. DOMAIN suspended' = DOMAIN suspended \cup {Len(suspended) + 1}
  BY <1>2, <1>3
<1> QED
  BY <1>2, <1>3, <1>4 DEF EventFrames

LEMMA PushEvent ==
    ASSUME suspended \in Seq(Frame), NEW n \in Names,
           suspended' = Append(suspended, [of |-> "customEvent", name |-> n])
    PROVE  /\ suspended' \in Seq(Frame)
           /\ EventFrames' = EventFrames \cup {Len(suspended) + 1}
           /\ \A i \in EventFrames : suspended'[i] = suspended[i]
           /\ suspended'[Len(suspended) + 1].name = n
<1> DEFINE f == [of |-> "customEvent", name |-> n]
<1>1. f \in Frame
  BY DEF Frame
<1>2. /\ suspended' \in Seq(Frame)
      /\ Len(suspended') = Len(suspended) + 1
      /\ \A i \in 1..Len(suspended) : suspended'[i] = suspended[i]
      /\ suspended'[Len(suspended) + 1] = f
  BY <1>1, AppendProperties
<1>3. /\ DOMAIN suspended = 1..Len(suspended) /\ DOMAIN suspended' = 1..Len(suspended')
      /\ Len(suspended) \in Nat
  BY <1>2, LenProperties
<1>4. DOMAIN suspended' = DOMAIN suspended \cup {Len(suspended) + 1}
  BY <1>2, <1>3
<1> QED
  BY <1>2, <1>3, <1>4 DEF EventFrames

LEMMA Pop ==
    ASSUME suspended \in Seq(Frame), suspended # << >>, suspended' = Front(suspended)
    PROVE  /\ suspended' \in Seq(Frame)
           /\ EventFrames' = EventFrames \ {Len(suspended)}
           /\ \A i \in EventFrames' : suspended'[i] = suspended[i]
           /\ Is("customEvent") => /\ Len(suspended) \in EventFrames
                                   /\ Last(suspended) = suspended[Len(suspended)]
           /\ Is("publish") => Len(suspended) \notin EventFrames
  BY FrontFacts DEF EventFrames, Is

\* A slot called in tail position touches the frame of its publish() only.
LEMMA SlotFacts ==
    ASSUME suspended \in Seq(Frame), Is("publish"), NEW flag \in BOOLEAN,
           suspended' = SlotOf(flag)
    PROVE  /\ suspended' \in Seq(Frame)
           /\ EventFrames' = EventFrames
           /\ \A i \in EventFrames : suspended'[i] = suspended[i]
<1> DEFINE f == [of |-> "publish", inSlot |-> flag]
           top == Len(suspended)
<1>1. f \in Frame
  BY DEF Frame
<1>2. top \in DOMAIN suspended /\ suspended[top].of = "publish"
  BY FrontFacts DEF Is
<1>3. suspended' = [suspended EXCEPT ![top] = f]
  BY DEF SlotOf
<1>4. /\ suspended' \in Seq(Frame)
      /\ DOMAIN suspended' = DOMAIN suspended
      /\ suspended'[top] = f
      /\ \A i \in DOMAIN suspended : i # top => suspended'[i] = suspended[i]
  BY <1>1, <1>2, <1>3, ExceptSeq, LenProperties
<1> QED
  BY <1>2, <1>4 DEF EventFrames

LEMMA InEventMeans == InEvent <=> EventFrames # {}
  BY DEF InEvent, EventFrames

-----------------------------------------------------------------------------
(***************************************************************************)
(* The steps.                                                              *)
(***************************************************************************)
\* An object whose registration is not settled is of no concern to the frames.
LEMMA Unsettled ==
    ASSUME IInv, Sound(svc'), ~Settled(svc)', svc.crossed => svc'.crossed,
           suspended' \in Seq(Frame), EventFrames' \subseteq EventFrames
    PROVE  IInv'
  BY DEF IInv, NameArrives, OneEvent

LEMMA AppInv ==
    ASSUME IInv, App
    PROVE  IInv'
<1>1. Steady(svc) /\ suspended \in Seq(Frame)
  BY DEF IInv, Sound
<1>2. ASSUME NEW outcomes, Calls(outcomes),
             \A t \in outcomes : Sound(t) /\ ~Settled(t) /\ t.crossed = svc.crossed
      PROVE  IInv'
  BY <1>1, <1>2, Unsettled DEF Calls, EventFrames, Settled
<1>3. ASSUME NEW n \in Names, SetServiceName(n)
      PROVE  IInv'
  <2> DEFINE s == [svc EXCEPT !.m_serviceName = n]
  <2>1. Steady(s) /\ s.crossed = svc.crossed
    BY <1>1, SetterFacts DEF Steady, Object
  <2>2. \A t \in Republish(s) : Sound(t) /\ ~Settled(t) /\ t.crossed = svc.crossed
    BY <2>1, RepublishFacts
  <2> QED
    BY <1>2, <1>3, <2>2 DEF SetServiceName
<1>4. ASSUME NEW c \in Configs, SetConfig(c)
      PROVE  IInv'
  <2> DEFINE s == [svc EXCEPT !.m_config = c]
  <2>1. Steady(s) /\ s.crossed = svc.crossed
    BY <1>1, SetterFacts DEF Steady, Object
  <2>2. \A t \in Republish(s) : Sound(t) /\ ~Settled(t) /\ t.crossed = svc.crossed
    BY <2>1, RepublishFacts
  <2> QED
    BY <1>2, <1>4, <2>2 DEF SetConfig
<1>5. CASE CallStop
  <2>1. \A t \in {[Stop(svc) EXCEPT !.app = "idle"]} :
            Sound(t) /\ ~Settled(t) /\ t.crossed = svc.crossed
    BY <1>1, CallStopFacts
  <2> QED
    BY <1>2, <1>5, <2>1 DEF CallStop
<1>6. CASE CallPublishAsync
  <2>1. \A t \in PublishAsync(svc) : Sound(t) /\ ~Settled(t) /\ t.crossed = svc.crossed
    BY <1>1, PublishAsyncFacts
  <2> QED
    BY <1>2, <1>6, <2>1 DEF CallPublishAsync
<1>7. CASE CallPublish
  <2>1. Sound(svc') /\ ~Settled(svc') /\ svc'.crossed = svc.crossed
    BY <1>1, <1>7, PublishAsyncFacts DEF CallPublish
  <2>2. PICK flag \in BOOLEAN :
            suspended' = Append(suspended, [of |-> "publish", inSlot |-> flag])
    BY <1>7 DEF CallPublish
  <2>3. suspended' \in Seq(Frame) /\ EventFrames' = EventFrames
    BY <1>1, <2>2, PushPublish
  <2> QED
    BY <2>1, <2>3, Unsettled DEF Settled
<1>8. ASSUME NEW n \in Names, NEW c \in Configs, Recreate(n, c)
      PROVE  IInv'
  <2>1. svc' = Constructed(n, c) /\ suspended' = << >>
    BY <1>8 DEF Recreate
  <2>2. Sound(svc') /\ ~Settled(svc')
    BY <2>1, ConstructedFacts
  <2>3. EventFrames' = {} /\ suspended' \in Seq(Frame)
    BY <2>1 DEF EventFrames
  <2> QED
    BY <2>1, <2>2, <2>3 DEF IInv, NameArrives, OneEvent, Settled
<1> QED
  BY <1>3, <1>4, <1>5, <1>6, <1>7, <1>8 DEF App

\* Returning takes away nothing that the invariant needs.
LEMMA ReturnsInv ==
    ASSUME IInv, PublishReturns \/ SlotReturns
    PROVE  IInv'
<1>1. CASE SlotReturns
  <2>1. Is("publish") /\ suspended' = SlotOf(FALSE) /\ svc' = svc
    BY <1>1 DEF SlotReturns, InSlot
  <2>2. /\ suspended' \in Seq(Frame)
        /\ EventFrames' = EventFrames
        /\ \A i \in EventFrames : suspended'[i] = suspended[i]
    BY <2>1, SlotFacts DEF IInv
  <2>3. InEvent' <=> InEvent
    BY <2>2, InEventMeans DEF InEvent, EventFrames
  <2> QED
    BY <2>1, <2>2, <2>3 DEF IInv, NameArrives, OneEvent
<1>2. CASE PublishReturns
  <2>1. suspended # << >> /\ suspended' = Front(suspended) /\ svc' = svc
    BY <1>2 DEF PublishReturns, InLoop, Is
  <2>2. /\ suspended' \in Seq(Frame)
        /\ EventFrames' = EventFrames
        /\ \A i \in EventFrames' : suspended'[i] = suspended[i]
    BY <1>2, <2>1, Pop DEF PublishReturns, InLoop, IInv
  <2>3. InEvent' <=> InEvent
    BY <2>2, InEventMeans DEF InEvent, EventFrames
  <2> QED
    BY <2>1, <2>2, <2>3 DEF IInv, NameArrives, OneEvent
<1> QED
  BY <1>1, <1>2

\* Reading a reply: the name moves from the last reply to the new frame.
LEMMA ReadFacts ==
    ASSUME Sound(svc), svc.replies # << >>
    PROVE  LET read == [svc EXCEPT !.replies = Tail(@)]
               reply == Head(svc.replies)
           IN  /\ Sound(read)
               /\ reply \in Reply
               /\ read.responder = svc.responder
               /\ read.crossed = svc.crossed
               /\ Settled(read) => /\ reply.is = "Registered"
                                   /\ RecordedAs(read, reply.name)
<1> DEFINE q == svc.replies
           read == [svc EXCEPT !.replies = Tail(@)]
<1>1. svc \in Object /\ q \in Seq(Reply)
  BY DEF Sound, Steady, Object
<1>2. /\ Head(q) \in Reply /\ Tail(q) \in Seq(Reply)
      /\ Len(Tail(q)) = Len(q) - 1
      /\ \A i \in 1..Len(Tail(q)) : Tail(q)[i] = q[i + 1]
  BY <1>1, HeadTailProperties
<1>3. read \in Object
  BY <1>1, <1>2 DEF Object
<1>4. /\ read.record = svc.record /\ read.m_config = svc.m_config
      /\ read.crossed = svc.crossed /\ read.probing = svc.probing
      /\ read.replies = Tail(q) /\ read.responder = svc.responder
      /\ read.served = svc.served /\ read.m_published = svc.m_published
      /\ read.confirmed = svc.confirmed /\ read.app = svc.app
  BY <1>1 DEF Object
<1> HIDE DEF read
<1>5. Steady(read)
  BY <1>3, <1>4 DEF Sound, Steady, IsRunning, Lively, ToldTheTruth
<1>6. Tail(q) # << >> => Tail(q)[Len(Tail(q))] = q[Len(q)]
  <2> SUFFICES ASSUME Tail(q) # << >> PROVE Tail(q)[Len(Tail(q))] = q[Len(q)]
    OBVIOUS
  <2>1. Len(Tail(q)) \in Nat \ {0} /\ Len(q) \in Nat
    BY <1>1, <1>2, EmptySeq, LenProperties
  <2> QED
    BY <1>2, <2>1
<1>7. Tail(q) = << >> => Head(q) = q[Len(q)]
  <2> SUFFICES ASSUME Tail(q) = << >> PROVE Head(q) = q[Len(q)]
    OBVIOUS
  <2>1. Len(q) \in Nat /\ Len(Tail(q)) = 0
    BY <1>1, LenProperties, EmptySeq
  <2>2. Len(q) = 1
    BY <1>2, <2>1
  <2> QED
    BY <2>2
<1>8. LastReplyIsCurrent(read)
  BY <1>4, <1>6 DEF Sound, LastReplyIsCurrent, RecordedAs
<1>9. Settled(read) => Head(q).is = "Registered" /\ RecordedAs(read, Head(q).name)
  BY <1>4, <1>7 DEF Sound, LastReplyIsCurrent, RecordedAs, Settled
<1>10. read.record # {} => \E n \in Names : RecordedAs(read, n)
  BY <1>4 DEF Sound, RecordedAs
<1> QED
  BY <1>2, <1>4, <1>5, <1>8, <1>9, <1>10 DEF read, Sound

LEMMA ProcessInv ==
    ASSUME IInv, Process
    PROVE  IInv'
<1> DEFINE reply == Head(svc.replies)
           read == [svc EXCEPT !.replies = Tail(@)]
<1>1. Sound(svc) /\ svc.replies # << >> /\ IsRunning(svc) /\ suspended \in Seq(Frame)
  BY DEF IInv, Process, Reads
<1>2. /\ Sound(read) /\ reply \in Reply
      /\ read.responder = svc.responder /\ read.crossed = svc.crossed
      /\ Settled(read) => reply.is = "Registered" /\ RecordedAs(read, reply.name)
  BY <1>1, ReadFacts
<1> DEFINE crossing == Crossing(read)
<1>3. \/ reply.is = "Error" /\ svc' = OnError(crossing)
          /\ suspended' = IF Is("publish") THEN SlotOf(TRUE) ELSE suspended
      \/ reply.is = "Registered" /\ svc' = OnRegistered(crossing)
          /\ suspended' = Append(suspended, [of |-> "customEvent", name |-> reply.name])
  BY DEF Process
<1> HIDE DEF reply, read
<1>4. /\ Sound(crossing) /\ IsRunning(crossing)
      /\ Settled(crossing) => Settled(read) /\ ~InEvent
      /\ svc.crossed \/ InEvent => crossing.crossed
      /\ \A m : RecordedAs(read, m) => RecordedAs(crossing, m)
  BY <1>1, <1>2, CrossingFacts DEF IsRunning
<1> HIDE DEF crossing
<1>5. CASE /\ svc' = OnError(crossing)
           /\ suspended' = IF Is("publish") THEN SlotOf(TRUE) ELSE suspended
  <2>1. Sound(svc') /\ ~Settled(svc)' /\ (svc.crossed => svc'.crossed)
    BY <1>4, <1>5, OnErrorFacts DEF Sound, Settled
  <2>2. suspended' \in Seq(Frame) /\ EventFrames' = EventFrames
    <3>1. CASE Is("publish")
      BY <1>1, <1>5, <3>1, SlotFacts
    <3>2. CASE ~Is("publish")
      BY <1>1, <1>5, <3>2 DEF EventFrames
    <3> QED
      BY <3>1, <3>2
  <2> QED
    BY <2>1, <2>2, Unsettled
<1>6. CASE /\ reply.is = "Registered" /\ svc' = OnRegistered(crossing)
           /\ suspended' = Append(suspended, [of |-> "customEvent", name |-> reply.name])
  <2>1. reply.name \in Names
    BY <1>2, <1>6 DEF Reply
  <2>2. /\ suspended' \in Seq(Frame)
        /\ EventFrames' = EventFrames \cup {Len(suspended) + 1}
        /\ \A i \in EventFrames : suspended'[i] = suspended[i]
        /\ suspended'[Len(suspended) + 1].name = reply.name
    BY <1>1, <1>6, <2>1, PushEvent
  <2>3. /\ Sound(svc')
        /\ Settled(svc') <=> Settled(crossing)
        /\ svc'.crossed = crossing.crossed
        /\ \A m : RecordedAs(crossing, m) => RecordedAs(svc', m)
    BY <1>4, <1>6, OnRegisteredFacts DEF RecordedAs
  <2>4. InEvent'
    BY <2>2 DEF InEvent, EventFrames
  <2>5. Settled(svc') => EventFrames' = {Len(suspended) + 1} /\ RecordedAs(svc', reply.name)
    BY <1>2, <1>4, <2>2, <2>3, InEventMeans
  <2>6. NameArrives'
    BY <2>2, <2>4, <2>5 DEF NameArrives
  <2>7. ~svc'.crossed => EventFrames' = {Len(suspended) + 1}
    BY <1>4, <2>2, <2>3, InEventMeans
  <2> QED
    BY <1>6, <2>2, <2>3, <2>6, <2>7 DEF IInv, OneEvent
<1> QED
  BY <1>3, <1>5, <1>6

\* customEvent hands the name over to the object.
LEMMA ResumeInv ==
    ASSUME IInv, Resume
    PROVE  IInv'
<1>1. /\ Is("customEvent") /\ suspended # << >>
      /\ svc' = TakesName(svc, Last(suspended).name)
      /\ suspended' = Front(suspended)
  BY DEF Resume, Is
<1> DEFINE top == Len(suspended)
<1>2. /\ suspended' \in Seq(Frame)
      /\ EventFrames' = EventFrames \ {top}
      /\ \A i \in EventFrames' : suspended'[i] = suspended[i]
      /\ top \in EventFrames /\ Last(suspended) = suspended[top]
  BY <1>1, Pop DEF IInv
<1>3. suspended[top].name \in Names
  BY <1>2, FrameNames DEF IInv
<1> HIDE DEF top
<1>4. /\ Sound(svc')
      /\ Settled(svc') <=> Settled(svc)
      /\ svc'.crossed = svc.crossed
      /\ svc'.m_serviceName = suspended[top].name
      /\ \A m : RecordedAs(svc, m) <=> RecordedAs(svc', m)
  BY <1>1, <1>2, <1>3, TakesNameFacts DEF IInv
<1>5. Settled(svc') => EventFrames' = {} /\ svc'.record = {Current(svc')}
  BY <1>2, <1>4 DEF IInv, NameArrives, OneEvent, Settled, RecordedAs, Current
<1>6. NameArrives'
  BY <1>5 DEF NameArrives
<1> QED
  BY <1>1, <1>2, <1>4, <1>6 DEF IInv, OneEvent

LEMMA ProcessFailsInv ==
    ASSUME IInv, ProcessFails
    PROVE  IInv'
<1>1. Sound(Broken(svc)) /\ ~Settled(Broken(svc)) /\ Broken(svc).crossed = svc.crossed
  <2>1. Steady(svc)
    BY DEF IInv, Sound
  <2>2. DaemonMayDie
    BY <2>1 DEF ProcessFails, Reads, Steady, Lively
  <2> QED
    BY <2>1, <2>2, BrokenFacts
<1>2. /\ svc' = Crossing(Broken(svc)) /\ UNCHANGED suspended
      /\ suspended' \in Seq(Frame) /\ EventFrames' = EventFrames
  BY DEF ProcessFails, IInv, EventFrames
<1>3. Sound(svc') /\ ~Settled(svc)' /\ (svc.crossed => svc'.crossed)
  BY <1>1, <1>2, CrossingFacts DEF Settled
<1> QED
  BY <1>2, <1>3, Unsettled

\* Whatever the daemon announces becomes the last reply.
LEMMA SaysInv ==
    ASSUME IInv, NEW s \in Object, NEW reply \in Reply, Says(s, reply),
           s = [svc EXCEPT !.probing = FALSE, !.record = s.record],
           \/ s.record = {}
           \/ reply.is = "Registered" /\ RecordedAs(s, reply.name)
    PROVE  IInv'
<1>1. /\ svc.served /\ svc' = [s EXCEPT !.replies = Append(@, reply)]
      /\ UNCHANGED suspended
  BY DEF Says
<1>2. svc \in Object /\ svc.replies \in Seq(Reply) /\ Sound(svc)
  BY DEF IInv, Sound, Steady, Object
<1>3. s.replies = svc.replies
  BY <1>2 DEF Object
<1>4. /\ Append(svc.replies, reply) \in Seq(Reply)
      /\ Append(svc.replies, reply) # << >>
      /\ Len(Append(svc.replies, reply)) = Len(svc.replies) + 1
      /\ Append(svc.replies, reply)[Len(svc.replies) + 1] = reply
  BY <1>2, AppendProperties
<1>5. svc' \in Object
  BY <1>1, <1>3, <1>4 DEF Object
<1>6. /\ svc'.record = s.record /\ svc'.m_config = s.m_config
      /\ svc'.crossed = svc.crossed /\ ~svc'.probing
      /\ svc'.replies = Append(svc.replies, reply) /\ svc'.responder = svc.responder
      /\ svc'.served = svc.served /\ svc'.m_published = svc.m_published
      /\ svc'.confirmed = svc.confirmed /\ svc'.app = svc.app
  BY <1>1, <1>2, <1>3 DEF Object
<1>7. Steady(svc')
  BY <1>1, <1>2, <1>5, <1>6 DEF Sound, Steady, IsRunning, Lively, ToldTheTruth
<1>8. svc'.replies[Len(svc'.replies)] = reply
  BY <1>4, <1>6
<1>9. svc'.record # {} => reply.is = "Registered" /\ RecordedAs(svc', reply.name)
  BY <1>6 DEF RecordedAs
<1>10. reply.is = "Registered" => reply.name \in Names
  BY DEF Reply
<1>11. Sound(svc')
  BY <1>7, <1>8, <1>9, <1>10 DEF Sound, LastReplyIsCurrent
<1>12. ~Settled(svc)'
  BY <1>4, <1>6 DEF Settled
<1>13. suspended' \in Seq(Frame) /\ EventFrames' = EventFrames
  BY <1>1 DEF IInv, EventFrames
<1> QED
  BY <1>6, <1>11, <1>12, <1>13, Unsettled

LEMMA DaemonInv ==
    ASSUME IInv, Daemon
    PROVE  IInv'
<1>1. svc \in Object /\ Sound(svc)
  BY DEF IInv, Sound, Steady
<1>2. ASSUME NEW n \in Names, Registers(n) \/ Renames(n)
      PROVE  IInv'
  <2> DEFINE entry == [name |-> n, config |-> svc.m_config]
             s == [svc EXCEPT !.probing = FALSE, !.record = {entry}]
             reply == [is |-> "Registered", name |-> n]
  <2>1. entry \in Entry /\ reply \in Reply
    BY <1>1 DEF Entry, Reply, Object
  <2>2. s \in Object /\ s.record = {entry} /\ s.m_config = svc.m_config
    BY <1>1, <2>1 DEF Object
  <2>3. Under(n) = {} \/ Under(n) = {entry}
    BY <1>1 DEF Sound, RecordedAs, Under
  <2>4. CASE Under(n) = {entry}
    <3>1. Says(s, reply)
      <4>1. CASE Registers(n)
        BY <2>4, <4>1 DEF Registers
      <4>2. CASE Renames(n)
        <5>1. [svc EXCEPT !.record = {entry}] = s
          BY <1>1, <4>2 DEF Renames, Object
        <5> QED
          BY <2>4, <4>2, <5>1 DEF Renames
      <4> QED
        BY <1>2, <4>1, <4>2
    <3>2. reply.is = "Registered" /\ RecordedAs(s, reply.name)
      BY <2>2 DEF RecordedAs
    <3>3. s = [svc EXCEPT !.probing = FALSE, !.record = s.record]
      BY <2>2
    <3> HIDE DEF s, reply, entry
    <3> QED
      BY <2>1, <2>2, <3>1, <3>2, <3>3, SaysInv
  <2>5. CASE Under(n) = {}
    <3> DEFINE u == [svc EXCEPT !.probing = FALSE, !.record = {}]
    <3>1. svc.record = {}
      BY <2>5 DEF Under
    <3>2. u \in Object /\ u.record = {}
      BY <1>1 DEF Object
    <3>3. Says(u, reply)
      BY <1>2, <2>5, <3>1 DEF Registers, Renames
    <3>4. u = [svc EXCEPT !.probing = FALSE, !.record = u.record]
      BY <3>2
    <3> HIDE DEF u, reply, entry
    <3> QED
      BY <2>1, <3>2, <3>3, <3>4, SaysInv
  <2> QED
    BY <2>3, <2>4, <2>5
<1>3. CASE Refuses
  <2> DEFINE s == [svc EXCEPT !.probing = FALSE, !.record = {}]
             reply == [is |-> "Error"]
  <2>1. reply \in Reply /\ {} \in SUBSET Entry
    BY DEF Reply
  <2>2. s \in Object /\ s.record = {}
    BY <1>1, <2>1 DEF Object
  <2>3. Says(s, reply)
    BY <1>3 DEF Refuses
  <2>4. s = [svc EXCEPT !.probing = FALSE, !.record = s.record]
    BY <2>2
  <2> HIDE DEF s, reply
  <2> QED
    BY <2>1, <2>2, <2>3, <2>4, SaysInv
<1>4. CASE DaemonDies
  <2>1. DaemonMayDie /\ svc' = [svc EXCEPT !.served = FALSE, !.record = {}, !.probing = FALSE]
    BY <1>4 DEF DaemonDies
  <2>2. svc' \in Object
    <3>1. {} \in SUBSET Entry
      OBVIOUS
    <3> QED
      BY <1>1, <2>1, <3>1 DEF Object
  <2>3. /\ svc'.record = {} /\ ~svc'.probing /\ svc'.crossed = svc.crossed
        /\ svc'.replies = svc.replies /\ svc'.responder = svc.responder
        /\ ~svc'.served /\ svc'.m_published = svc.m_published
        /\ svc'.confirmed = svc.confirmed /\ svc'.app = svc.app
    BY <1>1, <2>1 DEF Object
  <2>4. Sound(svc') /\ ~Settled(svc)'
    BY <1>1, <2>1, <2>2, <2>3 DEF Sound, Steady, IsRunning, LastReplyIsCurrent, Settled
  <2>5. suspended' \in Seq(Frame) /\ EventFrames' = EventFrames
    BY <1>4 DEF DaemonDies, IInv, EventFrames
  <2> QED
    BY <2>3, <2>4, <2>5, Unsettled
<1> QED
  BY <1>2, <1>3, <1>4 DEF Daemon

LEMMA InitInv == Init => IInv
<1> SUFFICES ASSUME Init PROVE IInv
  OBVIOUS
<1>1. PICK n \in Names, c \in Configs : svc = Constructed(n, c)
  BY DEF Init
<1>2. Sound(svc) /\ ~Settled(svc)
  BY <1>1, ConstructedFacts
<1>3. suspended = << >>
  BY DEF Init
<1>4. EventFrames = {} /\ suspended \in Seq(Frame)
  BY <1>3 DEF EventFrames
<1> QED
  BY <1>2, <1>3, <1>4 DEF IInv, NameArrives, OneEvent, Settled

LEMMA StepInv == IInv /\ [Next]_vars => IInv'
<1> SUFFICES ASSUME IInv, [Next]_vars PROVE IInv'
  OBVIOUS
<1>1. CASE UNCHANGED vars
  BY <1>1 DEF vars, IInv, NameArrives, OneEvent, EventFrames, InEvent
<1> QED
  BY <1>1, AppInv, ReturnsInv, ProcessInv, ResumeInv, ProcessFailsInv, DaemonInv DEF Next

-----------------------------------------------------------------------------
\* Every method and reply, and every return from a nested loop, keeps the
\* invariant.
THEOREM Invariance == Spec => []IInv
  BY InitInv, StepInv, PTL DEF Spec

\* Object and stack keep their types, a connection that is closed has no
\* replies, no confirmation and no record (publicservice.h, Responder::stop).
THEOREM TypeCorrect == Spec => []TypeOK
<1>1. IInv => TypeOK
  BY DEF IInv, Sound, Steady, TypeOK
<1> QED
  BY <1>1, Invariance, PTL

\* Whatever setters, failed calls and broken connections follow one another, at
\* most one connection is allocated, and the object knows it (setRef, stop).
THEOREM ConnectionOwned == Spec => []NoConnectionLeaks
<1>1. IInv => NoConnectionLeaks
  BY DEF IInv, Sound, Steady, Connected, NoConnectionLeaks
<1> QED
  BY <1>1, Invariance, PTL

\* With every reply read, the object reports the name and the data that the
\* daemon has registered, unless a slot read replies inside customEvent.
THEOREM AnnouncesCurrent == Spec => []AnnouncedIsCurrent
<1>1. IInv => AnnouncedIsCurrent
  BY DEF IInv, NameArrives, Settled, AnnouncedIsCurrent
<1> QED
  BY <1>1, Invariance, PTL

\* With a daemon that lives, isPublished() is about a registration that has been
\* reported over the present connection (m_published, customEvent).
THEOREM PublishedMeansConfirmed == Spec /\ ~DaemonMayDie => []PublishedIsConfirmed
<1>1. CASE DaemonMayDie
  BY <1>1, PTL
<1>2. CASE ~DaemonMayDie
  <2>1. IInv => PublishedIsConfirmed
    BY <1>2 DEF IInv, Sound, Steady, Lively, PublishedIsConfirmed
  <2> QED
    BY <2>1, Invariance, PTL
<1> QED
  BY <1>1, <1>2

\* With a daemon that lives, what published() told the application stays true of
\* the object: waiting means running, failed means stopped.
THEOREM AppIsTold == Spec /\ ~DaemonMayDie => []AppNeverStranded
<1>1. CASE DaemonMayDie
  BY <1>1, PTL
<1>2. CASE ~DaemonMayDie
  <2>1. IInv => AppNeverStranded
    BY <1>2 DEF IInv, Sound, Steady, Lively, ToldTheTruth, AppNeverStranded
  <2> QED
    BY <2>1, Invariance, PTL
<1> QED
  BY <1>1, <1>2
=============================================================================
