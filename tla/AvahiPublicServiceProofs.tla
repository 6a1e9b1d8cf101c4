---------------------- MODULE AvahiPublicServiceProofs ----------------------
(***************************************************************************)
(* Theorems about AvahiPublicService, for every set of names,              *)
(* configurations, faults and server states and every bus length.          *)
(*                                                                         *)
(* The inductive invariant IInv has a part about the object alone, Sound,  *)
(* proved to hold of whatever the C++ methods can leave behind (one lemma  *)
(* per method, for any object, not only a reachable one), and parts that   *)
(* relate the object to the signals still on the bus.  What needs a daemon *)
(* that obeys Reset is part of it under that assumption.                   *)
(***************************************************************************)
EXTENDS AvahiPublicService, TLAPS

ResetObeyed == "Reset" \notin Faults

Verdicts == {"ESTABLISHED", "COLLISION", "FAILURE"}

\* What Reset is for.
Gone(s) == ResetObeyed => Withdrawn(s)
Unjudged(s) == ResetObeyed => s.remote \notin Verdicts

\* What the application was told fits the object (AppNeverStranded).
ToldTheTruth(s) ==
    /\ s.app = "waiting" => s.m_running
    /\ s.app = "failed" => ~s.m_running /\ ~s.m_published /\ Gone(s)
    /\ s.app = "published" => s.m_published

\* The proxies exist when they are needed, and no group is empty.
Wired(s) ==
    /\ ~s.m_group => s.remote = "NONE"
    /\ s.remote = "NONE" => s.entries = {}
    /\ s.m_running => s.m_server
    /\ ~s.m_server => s.remote = "NONE"

Cleared(s) == ResetObeyed => Withdrawn(s) /\ s.entries = {}

Sound(s) ==
    /\ s \in Object
    /\ Wired(s)
    /\ ToldTheTruth(s)
    /\ ~s.m_running => Cleared(s)
    /\ s.m_running /\ s.m_collision => Gone(s)
    /\ ResetObeyed /\ ~Withdrawn(s) => Announces(s)

\* An object on which tryApply may be called: running, its group withdrawn.
Ready(s) ==
    /\ s \in Object
    /\ Wired(s)
    /\ ToldTheTruth(s)
    /\ s.m_running
    /\ Gone(s)

\* What a method that does not hear from the server leaves alone.
Undisturbed(s, t) ==
    /\ t.m_server = s.m_server
    /\ t.m_running => s.m_running /\ t.m_collision = s.m_collision
    /\ ResetObeyed /\ t.remote \in Verdicts =>
           t.remote = s.remote /\ t.m_published = s.m_published

-----------------------------------------------------------------------------
LEMMA ResetFacts ==
    ASSUME NEW s \in Object, Wired(s), NEW t \in Reset(s)
    PROVE  /\ t \in Object
           /\ Wired(t)
           /\ Cleared(t) /\ Gone(t)
           /\ t.m_running = s.m_running
           /\ t.m_published = s.m_published
           /\ t.m_collision = s.m_collision
           /\ t.m_server = s.m_server
           /\ t.app = s.app
<1>1. CASE t = Emptied(s) /\ s.remote # "NONE"
  BY <1>1 DEF Emptied, Object, Wired, Withdrawn, GroupStates, Cleared, Gone
<1>2. CASE t = s /\ (ResetObeyed => s.remote = "NONE")
  BY <1>2 DEF Wired, Withdrawn, Cleared, Gone
<1> QED
  BY <1>1, <1>2 DEF Reset, OnError, ResetObeyed

LEMMA StopFacts ==
    ASSUME NEW s \in Object, Wired(s), NEW t \in Stop(s)
    PROVE  /\ t \in Object
           /\ Wired(t)
           /\ Cleared(t) /\ Gone(t)
           /\ ~t.m_running /\ ~t.m_published
           /\ t.m_server = s.m_server
<1>1. PICK r \in Reset(s) : t = [r EXCEPT !.m_running = FALSE, !.m_published = FALSE]
  BY DEF Stop
<1> QED
  BY <1>1, ResetFacts DEF Object, Wired, Withdrawn, Cleared, Gone

LEMMA InvalidateFacts ==
    ASSUME NEW s \in Object, Wired(s), NEW t \in Invalidate(s)
    PROVE  /\ Sound(t)
           /\ ~t.m_running
           /\ t.m_server = s.m_server
           /\ Unjudged(t)
<1>1. PICK u \in Stop(s) : t = Emit(u, FALSE)
  BY DEF Invalidate
<1>2. t \in Object /\ ~t.m_running /\ ~t.m_published /\ t.app = "failed"
  BY <1>1, StopFacts DEF Emit, Object, AppStates
<1>3. /\ t.m_group = u.m_group /\ t.m_server = u.m_server
      /\ t.remote = u.remote /\ t.entries = u.entries
  BY <1>1, StopFacts DEF Emit, Object
<1>4. Wired(t) /\ Cleared(t) /\ Gone(t) /\ t.m_server = s.m_server
  BY <1>1, <1>2, <1>3, StopFacts DEF Wired, Cleared, Gone, Withdrawn
<1> QED
  BY <1>2, <1>4 DEF Sound, ToldTheTruth, Cleared, Gone, Unjudged, Withdrawn, Verdicts

LEMMA WithGroupFacts ==
    ASSUME NEW s, Ready(s)
    PROVE  /\ Ready(WithGroup(s))
           /\ WithGroup(s).m_server = s.m_server
           /\ WithGroup(s).m_collision = s.m_collision
           /\ WithGroup(s).m_published = s.m_published
  BY DEF WithGroup, Ready, Object, Wired, Withdrawn, ToldTheTruth, GroupStates, Gone

LEMMA FillFailuresFacts ==
    ASSUME NEW s, Ready(s), NEW t \in FillFailures(s)
    PROVE  t \in Object /\ Wired(t) /\ t.m_server = s.m_server
<1> DEFINE g == WithGroup(s)
<1>1. Ready(g) /\ g.m_server = s.m_server
  BY WithGroupFacts
<1>2. \/ t = s
      \/ t = g
      \/ \E n \in TriedNames(g) : t = [g EXCEPT !.m_serviceName = n]
  BY DEF FillFailures, OnError
<1>3. TriedNames(g) \subseteq Names \cup {NoName}
  BY <1>1 DEF TriedNames, StartNames, Ready, Object
<1>4. ASSUME NEW n \in TriedNames(g)
      PROVE  LET u == [g EXCEPT !.m_serviceName = n] IN
             u \in Object /\ Wired(u) /\ u.m_server = s.m_server
  BY <1>1, <1>3 DEF Ready, Object, Wired
<1> QED
  BY <1>1, <1>2, <1>4 DEF Ready

LEMMA FillSuccessesFacts ==
    ASSUME NEW s, Ready(s), NEW t \in FillSuccesses(s)
    PROVE  /\ Ready(t)
           /\ t.m_server = s.m_server
           /\ t.m_collision = s.m_collision
           /\ t.m_published = s.m_published
           /\ t.remote # "NONE"
           /\ ResetObeyed => t.remote = "UNCOMMITED"
           /\ Announces(t)
<1> DEFINE g == WithGroup(s)
<1>1. /\ Ready(g)
      /\ g.m_server = s.m_server
      /\ g.m_collision = s.m_collision
      /\ g.m_published = s.m_published
  BY WithGroupFacts
<1>2. PICK n \in Accepted(g) : t \in Added(g, n)
  BY DEF FillSuccesses
<1>3. PICK w \in BOOLEAN :
          t = [g EXCEPT !.m_serviceName = n,
                        !.entries = @ \cup {[name |-> n, config |-> g.m_config, whole |-> w]}]
  BY <1>2 DEF Added, SubtypesTaken, OnError
<1> DEFINE e == [name |-> n, config |-> g.m_config, whole |-> w]
<1>4. g.remote # "NONE" /\ (ResetObeyed => g.remote = "UNCOMMITED") /\ n \in Names
  BY <1>1, <1>3 DEF Accepted, TriedNames, Ready, Gone, Withdrawn
<1>5. e \in Entry
  BY <1>1, <1>4 DEF Entry, Ready, Object
<1>6. t \in Object
  BY <1>1, <1>3, <1>4, <1>5 DEF Ready, Object
<1>7. /\ t.m_serviceName = n /\ t.m_config = g.m_config /\ e \in t.entries
      /\ t.remote = g.remote /\ t.app = g.app /\ t.m_group = g.m_group
      /\ t.m_server = g.m_server /\ t.m_running = g.m_running
      /\ t.m_collision = g.m_collision /\ t.m_published = g.m_published
  BY <1>1, <1>3 DEF Ready, Object
<1>8. Announces(t)
  BY <1>7 DEF Announces
<1> HIDE DEF e, g
<1>9. Ready(t)
  BY <1>1, <1>4, <1>6, <1>7 DEF Ready, Wired, Withdrawn, ToldTheTruth, Gone
<1> QED
  BY <1>1, <1>4, <1>7, <1>8, <1>9

LEMMA CommitFacts ==
    ASSUME NEW s, Ready(s), ResetObeyed => s.remote = "UNCOMMITED",
           s.remote # "NONE", Announces(s),
           NEW t \in Commit(s)
    PROVE  Sound(t) /\ Undisturbed(s, t) /\ Unjudged(t)
<1>1. t = s \/ (~s.m_collision /\ t = [s EXCEPT !.remote = "REGISTERING"])
  BY DEF Commit, OnError
<1>2. CASE t = s
  BY <1>2 DEF Ready, Sound, Undisturbed, Unjudged, Withdrawn, Verdicts, Gone
<1>3. CASE ~s.m_collision /\ t = [s EXCEPT !.remote = "REGISTERING"]
  <2>1. t \in Object
    BY <1>3 DEF Ready, Object, GroupStates
  <2>2. /\ t.remote = "REGISTERING" /\ t.entries = s.entries /\ t.app = s.app
        /\ t.m_serviceName = s.m_serviceName /\ t.m_config = s.m_config
        /\ t.m_group = s.m_group /\ t.m_server = s.m_server
        /\ t.m_running = s.m_running /\ t.m_collision = s.m_collision
        /\ t.m_published = s.m_published
    BY <1>3 DEF Ready, Object
  <2> QED
    BY <1>3, <2>1, <2>2 DEF Ready, Sound, Undisturbed, Unjudged, Verdicts, Wired,
                            ToldTheTruth, Announces
<1> QED
  BY <1>1, <1>2, <1>3

\* tryApply leaves the object sound and changes neither what it thinks of the
\* server nor, unless it withdraws the group, the verdict.
LEMMA TryApplyFacts ==
    ASSUME NEW s, Ready(s), NEW t \in TryApply(s)
    PROVE  Sound(t) /\ Undisturbed(s, t) /\ Unjudged(t)
<1>1. \/ \E u \in FillSuccesses(s) : t \in Commit(u)
      \/ \E u \in FillFailures(s) : t \in Invalidate(u)
  BY DEF TryApply
<1>2. ASSUME NEW u \in FillSuccesses(s), t \in Commit(u)
      PROVE  Sound(t) /\ Undisturbed(s, t) /\ Unjudged(t)
  <2>1. Sound(t) /\ Undisturbed(u, t) /\ Unjudged(t)
    BY <1>2, FillSuccessesFacts, CommitFacts
  <2> QED
    BY <2>1, FillSuccessesFacts DEF Undisturbed, Ready, Unjudged
<1>3. ASSUME NEW u \in FillFailures(s), t \in Invalidate(u)
      PROVE  Sound(t) /\ Undisturbed(s, t) /\ Unjudged(t)
  BY <1>3, FillFailuresFacts, InvalidateFacts DEF Undisturbed, Unjudged
<1> QED
  BY <1>1, <1>2, <1>3

\* A setter, on the object it has assigned to.
LEMMA ReapplyFacts ==
    ASSUME NEW s \in Object, Wired(s), ToldTheTruth(s),
           ~s.m_running => Cleared(s),
           NEW t \in Reapply(s)
    PROVE  Sound(t) /\ Undisturbed(s, t) /\ Unjudged(t)
<1>1. CASE s.m_running
  <2>1. PICK r \in Reset(s) : t \in TryApply(r)
    BY <1>1 DEF Reapply
  <2>2. Ready(r)
    BY <1>1, ResetFacts DEF Ready, ToldTheTruth
  <2>3. Sound(t) /\ Undisturbed(r, t) /\ Unjudged(t)
    BY <2>1, <2>2, TryApplyFacts
  <2> QED
    BY <2>3, ResetFacts DEF Undisturbed, Unjudged
<1>2. CASE ~s.m_running
  BY <1>2 DEF Reapply, Sound, Undisturbed, Unjudged, Withdrawn, Verdicts, Cleared
<1> QED
  BY <1>1, <1>2

\* The slot of the server's signal: the object then agrees with the state the
\* signal carries, if it is still running.
LEMMA ServerStateChangedFacts ==
    ASSUME NEW s, Sound(s), NEW state, NEW t \in ServerStateChanged(s, state)
    PROVE  /\ Sound(t)
           /\ t.m_server = s.m_server
           /\ t.m_running => s.m_running
           /\ ResetObeyed /\ t.remote \in Verdicts =>
                  t.remote = s.remote /\ t.m_published = s.m_published
           /\ t.m_running => state # "INVALID"
           /\ t.m_running /\ state = "RUNNING" => ~t.m_collision
           /\ t.m_running /\ state \in {"REGISTERING", "COLLISION"} => t.m_collision
           /\ state = "INVALID" => Unjudged(t)
<1>1. CASE s.m_running /\ state = "INVALID"
  BY <1>1, InvalidateFacts DEF ServerStateChanged, Sound, Unjudged
<1>2. CASE s.m_running /\ state \in {"REGISTERING", "COLLISION"}
  <2>1. PICK r \in Reset(s) : t = [r EXCEPT !.m_collision = TRUE]
    BY <1>2 DEF ServerStateChanged, Withdraw
  <2>2. r \in Object /\ t \in Object /\ t.m_collision
    BY <2>1, ResetFacts DEF Sound, Object
  <2>3. /\ t.remote = r.remote /\ t.entries = r.entries /\ t.app = s.app
        /\ t.m_group = r.m_group /\ t.m_server = s.m_server
        /\ t.m_running = s.m_running /\ t.m_published = s.m_published
        /\ r.m_server = s.m_server /\ r.m_running = s.m_running
        /\ Wired(r) /\ Gone(r)
    BY <2>1, <2>2, ResetFacts DEF Sound, Object
  <2>4. Wired(t) /\ Gone(t) /\ Unjudged(t)
    BY <2>3 DEF Wired, Gone, Unjudged, Withdrawn, Verdicts
  <2> QED
    BY <1>2, <2>2, <2>3, <2>4 DEF Sound, ToldTheTruth, Gone, Unjudged
<1>3. CASE s.m_running /\ state = "RUNNING" /\ s.m_collision
  <2> DEFINE u == [s EXCEPT !.m_collision = FALSE]
  <2>1. t \in TryApply(u)
    BY <1>3 DEF ServerStateChanged
  <2>2. Ready(u)
    BY <1>3 DEF Ready, Sound, Object, Wired, ToldTheTruth, Withdrawn, Gone
  <2>3. Sound(t) /\ Undisturbed(u, t) /\ Unjudged(t)
    BY <2>1, <2>2, TryApplyFacts
  <2> QED
    BY <1>3, <2>3 DEF Undisturbed, Unjudged, Sound, Object
<1>4. CASE /\ ~(s.m_running /\ state = "INVALID")
           /\ ~(s.m_running /\ state \in {"REGISTERING", "COLLISION"})
           /\ ~(s.m_running /\ state = "RUNNING" /\ s.m_collision)
  <2>1. t = s
    BY <1>4 DEF ServerStateChanged
  <2> QED
    BY <1>4, <2>1 DEF Sound, Withdrawn, Verdicts, Unjudged, Cleared
<1> QED
  BY <1>1, <1>2, <1>3, <1>4

LEMMA PublishAsyncFacts ==
    ASSUME NEW s, Sound(s), NEW t \in PublishAsync(s)
    PROVE  /\ Sound(t)
           /\ t.m_server
           /\ Unjudged(t)
           /\ t.m_running /\ serverState = "RUNNING" => ~t.m_collision
           /\ t.m_running /\ serverState \in {"REGISTERING", "COLLISION"} => t.m_collision
<1> DEFINE stopped == IF s.m_running THEN Stop(s) ELSE {s}
<1>1. PICK r \in stopped : t \in AsksServer(r)
  BY DEF PublishAsync
<1> DEFINE u == [r EXCEPT !.m_server = TRUE, !.m_running = TRUE,
                          !.m_collision = TRUE, !.app = "waiting"]
<1>2. PICK state \in StateReplies : t \in ServerStateChanged(u, state)
  BY <1>1 DEF AsksServer
<1>3. state \in {serverState, "INVALID"}
  BY <1>2 DEF StateReplies, OnError
<1>4. r \in Object /\ Wired(r) /\ Gone(r)
  BY <1>1, StopFacts DEF Sound, Cleared, Gone
<1>5. /\ u \in Object /\ u.m_server /\ u.m_running /\ u.m_collision
      /\ u.app = "waiting" /\ u.remote = r.remote /\ u.entries = r.entries
      /\ u.m_group = r.m_group
  BY <1>4 DEF Object, AppStates
<1> HIDE DEF u
<1>6. Gone(u) /\ Unjudged(u)
  BY <1>4, <1>5 DEF Gone, Unjudged, Withdrawn, Verdicts
<1>7. Sound(u)
  BY <1>4, <1>5, <1>6 DEF Sound, Wired, ToldTheTruth, Gone
<1>8. /\ Sound(t)
      /\ t.m_server = u.m_server
      /\ ResetObeyed /\ t.remote \in Verdicts => t.remote = u.remote
      /\ t.m_running => state # "INVALID"
      /\ t.m_running /\ state = "RUNNING" => ~t.m_collision
      /\ t.m_running /\ state \in {"REGISTERING", "COLLISION"} => t.m_collision
  BY <1>2, <1>7, ServerStateChangedFacts
<1> QED
  BY <1>3, <1>5, <1>6, <1>8 DEF Unjudged

\* The group's COLLISION takes the collision away, one way or another.
LEMMA RenameFacts ==
    ASSUME NEW s, Sound(s), NEW t \in Rename(s)
    PROVE  Sound(t) /\ Undisturbed(s, t) /\ Unjudged(t)
<1>1. \/ \E n \in Names : t \in Reapply([s EXCEPT !.m_serviceName = n])
      \/ t \in ServerStateChanged(s, "INVALID")
  BY DEF Rename, OnError
<1>2. ASSUME NEW n \in Names, t \in Reapply([s EXCEPT !.m_serviceName = n])
      PROVE  Sound(t) /\ Undisturbed(s, t) /\ Unjudged(t)
  <2> DEFINE u == [s EXCEPT !.m_serviceName = n]
  <2>1. /\ u \in Object /\ Wired(u) /\ ToldTheTruth(u)
        /\ ~u.m_running => Cleared(u)
    BY DEF Sound, Object, Wired, ToldTheTruth, Withdrawn, Cleared, Gone
  <2>2. Sound(t) /\ Undisturbed(u, t) /\ Unjudged(t)
    BY <1>2, <2>1, ReapplyFacts
  <2> QED
    BY <2>2 DEF Undisturbed, Sound, Object
<1>3. CASE t \in ServerStateChanged(s, "INVALID")
  BY <1>3, ServerStateChangedFacts DEF Undisturbed, Unjudged
<1> QED
  BY <1>1, <1>2, <1>3

\* The slot of the group's signal.
LEMMA GroupStateChangedFacts ==
    ASSUME NEW s, Sound(s), NEW state \in Verdicts, NEW t \in GroupStateChanged(s, state)
    PROVE  /\ Sound(t)
           /\ t.m_server = s.m_server
           /\ t.m_running => s.m_running /\ t.m_collision = s.m_collision
           /\ ResetObeyed /\ t.remote \in Verdicts =>
                  t.remote = s.remote /\ (s.m_published => t.m_published)
           /\ state = "ESTABLISHED" => t.m_published
           /\ state \in {"COLLISION", "FAILURE"} => Unjudged(t)
<1>1. CASE state = "COLLISION"
  BY <1>1, RenameFacts DEF GroupStateChanged, Undisturbed
<1>2. CASE state = "ESTABLISHED"
  <2>1. t = Emit([s EXCEPT !.m_published = TRUE], TRUE)
    BY <1>2 DEF GroupStateChanged
  <2>2. t \in Object /\ t.m_published
    BY <2>1 DEF Emit, Sound, Object, AppStates
  <2> QED
    BY <1>2, <2>1, <2>2 DEF Emit, Sound, Object, Wired, ToldTheTruth, Withdrawn, Announces,
                            Cleared, Gone
<1>3. CASE state = "FAILURE"
  <2>1. t \in ServerStateChanged(s, "INVALID")
    BY <1>3 DEF GroupStateChanged
  <2>2. (t = s /\ ~s.m_running) \/ (s.m_running /\ t \in Invalidate(s))
    BY <2>1 DEF ServerStateChanged
  <2> QED
    BY <1>3, <2>1, <2>2, ServerStateChangedFacts, InvalidateFacts DEF Sound
<1> QED
  BY <1>1, <1>2, <1>3 DEF Verdicts

-----------------------------------------------------------------------------
\* The last server signal on the bus carries the server's present state.
LatestIsCurrent ==
    \A i \in DOMAIN bus :
        /\ bus[i].from = "server"
        /\ \A j \in DOMAIN bus : i < j => bus[j].from # "server"
        => bus[i].state = serverState

NoServerSignals == \A i \in DOMAIN bus : bus[i].from # "server"

IInv ==
    /\ TypeOK
    /\ Sound(svc)
    /\ phase # "alive" => ~svc.m_server
    /\ ~svc.m_server => NoServerSignals
    /\ LatestIsCurrent
    /\ NoLostWakeup
    /\ ResetObeyed => VerdictNotLost

LEMMA PendingServer == Pending("server") = {} <=> NoServerSignals
  BY DEF Pending, NoServerSignals

LEMMA EmptyBus == << >> \in Seq(Signal)
  OBVIOUS

LEMMA AppendFacts ==
    ASSUME NEW q \in Seq(Signal), NEW m \in Signal
    PROVE  /\ Append(q, m) \in Seq(Signal)
           /\ DOMAIN Append(q, m) = 1..(Len(q) + 1)
           /\ DOMAIN q = 1..Len(q) /\ Len(q) \in Nat
           /\ \A i \in DOMAIN q : Append(q, m)[i] = q[i]
           /\ Append(q, m)[Len(q) + 1] = m
  OBVIOUS

LEMMA TailFacts ==
    ASSUME NEW q \in Seq(Signal), q # << >>
    PROVE  /\ Tail(q) \in Seq(Signal)
           /\ Head(q) \in Signal /\ Head(q) = q[1]
           /\ DOMAIN Tail(q) = 1..(Len(q) - 1)
           /\ DOMAIN q = 1..Len(q) /\ Len(q) \in Nat \ {0}
           /\ \A i \in 1..(Len(q) - 1) : Tail(q)[i] = q[i + 1]
  OBVIOUS

\* A step that neither reads nor writes the bus, and keeps the server's state
\* and every verdict.
LEMMA QuietStep ==
    ASSUME IInv, UNCHANGED <<serverState, bus>>, Sound(svc'),
           svc.m_server => svc'.m_server,
           ResetObeyed /\ svc'.remote \in Verdicts =>
               svc'.remote = svc.remote /\ (svc.m_published => svc'.m_published)
    PROVE  /\ ~svc'.m_server => NoServerSignals'
           /\ LatestIsCurrent'
           /\ ResetObeyed => VerdictNotLost'
<1>1. ~svc'.m_server => NoServerSignals'
  BY DEF IInv, NoServerSignals
<1>2. LatestIsCurrent'
  BY DEF IInv, LatestIsCurrent
<1>3. ResetObeyed => VerdictNotLost'
  BY DEF IInv, VerdictNotLost, PendingGroup, Verdicts
<1> QED
  BY <1>1, <1>2, <1>3

\* Such a step that leaves m_collision alone also keeps NoLostWakeup.
LEMMA UndisturbedStep ==
    ASSUME IInv, UNCHANGED <<serverState, bus>>, Undisturbed(svc, svc')
    PROVE  NoLostWakeup'
  BY DEF IInv, NoLostWakeup, Pending, Undisturbed

LEMMA InitInv == Init => IInv
<1> SUFFICES ASSUME Init PROVE IInv
  OBVIOUS
<1>1. PICK n \in Names \cup {NoName}, c \in Configs : svc = Constructed(n, c)
  BY DEF Init
<1>2. svc \in Object
  BY <1>1 DEF Constructed, Object, AppStates
<1>3. TypeOK
  <2>1. /\ serverState \in ServerStates /\ bus = << >> /\ phase = "alive"
        /\ publishing = FALSE /\ confirmed = FALSE
    BY DEF Init
  <2> QED
    BY <1>2, <2>1, EmptyBus DEF TypeOK
<1>4. Sound(svc)
  BY <1>1, <1>2 DEF Constructed, Sound, Wired, ToldTheTruth, Withdrawn, Cleared, Gone
<1>5. NoServerSignals /\ LatestIsCurrent
  BY DEF Init, NoServerSignals, LatestIsCurrent
<1>6. ~svc.m_running /\ svc.remote = "NONE"
  BY <1>1 DEF Constructed
<1> QED
  BY <1>3, <1>4, <1>5, <1>6 DEF IInv, Init, NoLostWakeup, VerdictNotLost

\* A process that starts over: no object state, no server signal on its bus.
LEMMA FreshObject ==
    ASSUME NEW n \in Names \cup {NoName}, NEW c \in Configs,
           svc' = Constructed(n, c),
           serverState' \in ServerStates,
           bus' = << >> \/ (bus' \in Seq(Signal) /\ NoServerSignals'),
           phase' \in {"alive", "destroyed", "crashed"},
           publishing' \in BOOLEAN,
           confirmed' \in BOOLEAN
    PROVE  IInv'
<1>1. svc' \in Object
  BY DEF Constructed, Object, AppStates
<1>2. TypeOK'
  BY <1>1, EmptyBus DEF TypeOK
<1>3. Sound(svc')
  BY <1>1 DEF Constructed, Sound, Wired, ToldTheTruth, Withdrawn, Cleared, Gone
<1>4. NoServerSignals'
  BY DEF NoServerSignals
<1>5. LatestIsCurrent'
  BY <1>4 DEF NoServerSignals, LatestIsCurrent
<1>6. ~svc'.m_running /\ ~svc'.m_server /\ svc'.remote = "NONE"
  BY DEF Constructed
<1> QED
  BY <1>2, <1>3, <1>4, <1>5, <1>6 DEF IInv, NoLostWakeup, VerdictNotLost

LEMMA SetterInv ==
    ASSUME IInv, NEW s \in Object, Setter(s),
           \E n \in Names \cup {NoName}, c \in Configs :
               s = [svc EXCEPT !.m_serviceName = n, !.m_config = c]
    PROVE  IInv'
<1>1. PICK n \in Names \cup {NoName}, c \in Configs :
           s = [svc EXCEPT !.m_serviceName = n, !.m_config = c]
  OBVIOUS
<1>2. /\ s.m_running = svc.m_running /\ s.m_collision = svc.m_collision
      /\ s.m_server = svc.m_server /\ s.m_group = svc.m_group
      /\ s.m_published = svc.m_published
      /\ s.remote = svc.remote /\ s.entries = svc.entries /\ s.app = svc.app
  BY <1>1 DEF IInv, TypeOK, Object
<1>3. /\ Wired(s) /\ ToldTheTruth(s)
      /\ ~s.m_running => Cleared(s)
  BY <1>2 DEF IInv, Sound, Wired, ToldTheTruth, Withdrawn, Cleared, Gone
<1>4. CASE svc' \in Reapply(s) /\ UNCHANGED <<bus, phase, publishing, confirmed>>
  <2>1. Sound(svc') /\ Undisturbed(s, svc') /\ Unjudged(svc')
    BY <1>3, <1>4, ReapplyFacts
  <2>2. Undisturbed(svc, svc')
    BY <1>2, <2>1 DEF Undisturbed
  <2>3. TypeOK'
    BY <1>4, <2>1 DEF IInv, TypeOK, Setter, Sound
  <2>4. UNCHANGED <<serverState, bus, phase>>
    BY <1>4 DEF Setter
  <2>5. /\ ~svc'.m_server => NoServerSignals'
        /\ LatestIsCurrent'
        /\ (ResetObeyed => VerdictNotLost')
    BY <2>1, <2>2, <2>4, QuietStep DEF Undisturbed, Unjudged
  <2>6. NoLostWakeup'
    BY <2>2, <2>4, UndisturbedStep
  <2>7. phase' # "alive" => ~svc'.m_server
    BY <2>2, <2>4 DEF IInv, Undisturbed
  <2> QED
    BY <2>1, <2>3, <2>5, <2>6, <2>7 DEF IInv
<1>5. CASE /\ phase' = "crashed"
           /\ svc' = Constructed(NoName, s.m_config)
           /\ bus' = << >>
           /\ publishing' = FALSE
           /\ confirmed' = FALSE
  <2>1. s.m_config \in Configs
    BY <1>1 DEF IInv, TypeOK, Object
  <2> QED
    BY <1>5, <2>1, FreshObject DEF Setter, IInv, TypeOK
<1> QED
  BY <1>4, <1>5 DEF Setter

LEMMA AppInv == ASSUME IInv, App PROVE IInv'
<1>1. ASSUME NEW n \in Names \cup {NoName}, SetServiceName(n) PROVE IInv'
  <2> DEFINE s == [svc EXCEPT !.m_serviceName = n]
  <2>1. s = [svc EXCEPT !.m_serviceName = n, !.m_config = svc.m_config]
    BY DEF IInv, TypeOK, Object
  <2>2. s \in Object /\ svc.m_config \in Configs
    BY DEF IInv, TypeOK, Object
  <2> QED
    BY <1>1, <2>1, <2>2, SetterInv DEF SetServiceName
<1>2. ASSUME NEW c \in Configs, SetConfig(c) PROVE IInv'
  <2> DEFINE s == [svc EXCEPT !.m_config = c]
  <2>1. s = [svc EXCEPT !.m_serviceName = svc.m_serviceName, !.m_config = c]
    BY DEF IInv, TypeOK, Object
  <2>2. s \in Object /\ svc.m_serviceName \in Names \cup {NoName}
    BY DEF IInv, TypeOK, Object
  <2> QED
    BY <1>2, <2>1, <2>2, SetterInv DEF SetConfig
<1>3. ASSUME CallStop PROVE IInv'
  <2>1. PICK r \in Stop(svc) : svc' = [r EXCEPT !.app = "idle"]
    BY <1>3 DEF CallStop
  <2>2. /\ r \in Object /\ Wired(r) /\ Cleared(r) /\ Gone(r)
        /\ ~r.m_running /\ r.m_server = svc.m_server
    BY <2>1, StopFacts DEF IInv, Sound
  <2>3. svc' \in Object /\ ~svc'.m_running /\ svc'.m_server = svc.m_server
    BY <2>1, <2>2 DEF Object, AppStates
  <2>4. Sound(svc') /\ Unjudged(svc')
    BY <2>1, <2>2, <2>3 DEF Sound, Wired, ToldTheTruth, Withdrawn, Verdicts, Object, Cleared,
                            Gone, Unjudged
  <2>5. UNCHANGED <<serverState, bus, phase, publishing, confirmed>>
    BY <1>3 DEF CallStop
  <2>6. TypeOK'
    BY <2>3, <2>5 DEF IInv, TypeOK
  <2>7. /\ ~svc'.m_server => NoServerSignals'
        /\ LatestIsCurrent'
        /\ (ResetObeyed => VerdictNotLost')
    BY <2>3, <2>4, <2>5, QuietStep DEF Unjudged
  <2> QED
    BY <2>3, <2>4, <2>5, <2>6, <2>7 DEF IInv, NoLostWakeup
<1>4. ASSUME CallPublishAsync \/ CallPublish PROVE IInv'
  <2>1. /\ svc' \in PublishAsync(svc)
        /\ UNCHANGED <<serverState, bus, phase>> /\ phase = "alive"
    BY <1>4 DEF CallPublishAsync, CallPublish, AppMayCall
  <2>2. /\ Sound(svc')
        /\ svc'.m_server
        /\ Unjudged(svc')
        /\ svc'.m_running /\ serverState = "RUNNING" => ~svc'.m_collision
        /\ svc'.m_running /\ serverState \in {"REGISTERING", "COLLISION"}
              => svc'.m_collision
    BY <2>1, PublishAsyncFacts DEF IInv
  <2>3. TypeOK'
    BY <1>4, <2>1, <2>2 DEF IInv, TypeOK, Sound, CallPublishAsync, CallPublish
  <2>4. LatestIsCurrent' /\ (ResetObeyed => VerdictNotLost')
    BY <2>1, <2>2, QuietStep DEF Unjudged
  <2>5. NoLostWakeup'
    BY <2>1, <2>2 DEF NoLostWakeup
  <2> QED
    BY <2>1, <2>2, <2>3, <2>4, <2>5 DEF IInv
<1>5. CASE Destroy
  <2>1. svc.m_config \in Configs
    BY DEF IInv, TypeOK, Object
  <2> QED
    BY <1>5, <2>1, FreshObject DEF Destroy, IInv, TypeOK
<1>6. ASSUME NEW n \in Names \cup {NoName}, NEW c \in Configs, Construct(n, c)
      PROVE  IInv'
  <2>1. NoServerSignals'
    BY <1>6 DEF Construct, IInv, NoServerSignals
  <2> QED
    BY <1>6, <2>1, FreshObject DEF Construct, IInv, TypeOK
<1> QED
  BY <1>1, <1>2, <1>3, <1>4, <1>5, <1>6 DEF App

LEMMA DeliverInv == ASSUME IInv, Deliver PROVE IInv'
<1>1. bus \in Seq(Signal) /\ bus # << >>
  BY DEF IInv, TypeOK, Deliver
<1> DEFINE sig == bus[1]
<1>2. /\ sig \in Signal /\ sig = Head(bus)
      /\ bus' = Tail(bus) /\ bus' \in Seq(Signal)
      /\ DOMAIN bus = 1..Len(bus) /\ Len(bus) \in Nat \ {0}
      /\ DOMAIN bus' = 1..(Len(bus) - 1)
      /\ \A i \in DOMAIN bus' : bus'[i] = bus[i + 1] /\ i + 1 \in DOMAIN bus
  BY <1>1, TailFacts DEF Deliver
<1>3. UNCHANGED <<serverState, phase, publishing, confirmed>> /\ phase = "alive"
  BY DEF Deliver
\* A signal that is not the head is still pending.
<1>4. ASSUME NEW i \in DOMAIN bus, i # 1
      PROVE  i - 1 \in DOMAIN bus' /\ bus'[i - 1] = bus[i]
  <2>1. i \in Nat /\ i - 1 \in 1..(Len(bus) - 1) /\ (i - 1) + 1 = i
    BY <1>2, <1>4
  <2>2. i - 1 \in DOMAIN bus'
    BY <1>2, <2>1
  <2>3. bus'[i - 1] = bus[(i - 1) + 1]
    BY <1>2, <2>2
  <2> QED
    BY <2>1, <2>2, <2>3
<1>5. LatestIsCurrent'
  <2> SUFFICES ASSUME NEW i \in DOMAIN bus', bus'[i].from = "server",
                      \A j \in DOMAIN bus' : i < j => bus'[j].from # "server"
               PROVE  bus'[i].state = serverState'
    BY DEF LatestIsCurrent
  <2>1. i + 1 \in DOMAIN bus /\ bus[i + 1] = bus'[i]
    BY <1>2
  <2>2. ASSUME NEW j \in DOMAIN bus, i + 1 < j PROVE bus[j].from # "server"
    <3>1. j - 1 \in DOMAIN bus' /\ bus'[j - 1] = bus[j] /\ i < j - 1
      BY <1>2, <1>4, <2>2
    <3> QED
      BY <3>1
  <2> QED
    BY <1>3, <2>1, <2>2 DEF IInv, LatestIsCurrent
<1>6. NoServerSignals => NoServerSignals'
  BY <1>2 DEF NoServerSignals
\* When only the head was a server signal, it carries the present state.
<1>7. sig.from = "server" /\ NoServerSignals' => sig.state = serverState
  <2> SUFFICES ASSUME sig.from = "server", NoServerSignals'
               PROVE  sig.state = serverState
    OBVIOUS
  <2>1. ASSUME NEW j \in DOMAIN bus, 1 < j PROVE bus[j].from # "server"
    <3>1. j - 1 \in DOMAIN bus' /\ bus'[j - 1] = bus[j]
      BY <1>2, <1>4, <2>1
    <3> QED
      BY <3>1 DEF NoServerSignals
  <2>2. 1 \in DOMAIN bus
    BY <1>2
  <2> QED
    BY <2>1, <2>2 DEF IInv, LatestIsCurrent
<1>8. ASSUME NEW state, PendingGroup(state),
             ~(sig.from = "group" /\ sig.state = state)
      PROVE  PendingGroup(state)'
  <2>1. PICK i \in DOMAIN bus : bus[i] = [from |-> "group", state |-> state]
    BY <1>8 DEF PendingGroup
  <2>2. i # 1
    BY <1>8, <2>1
  <2> QED
    BY <1>4, <2>1, <2>2 DEF PendingGroup
<1> HIDE DEF sig
<1>9. CASE sig.from = "server"
  <2>1. svc' \in ServerStateChanged(svc, sig.state)
    BY <1>2, <1>9 DEF Deliver
  <2>2. /\ Sound(svc')
        /\ svc'.m_server = svc.m_server
        /\ svc'.m_running => svc.m_running
        /\ ResetObeyed /\ svc'.remote \in Verdicts =>
              svc'.remote = svc.remote /\ svc'.m_published = svc.m_published
        /\ svc'.m_running /\ sig.state = "RUNNING" => ~svc'.m_collision
        /\ svc'.m_running /\ sig.state \in {"REGISTERING", "COLLISION"} => svc'.m_collision
    BY <2>1, ServerStateChangedFacts DEF IInv
  <2>3. TypeOK'
    BY <1>2, <1>3, <2>2 DEF IInv, TypeOK, Sound
  <2>4. NoLostWakeup'
    BY <1>3, <1>7, <1>9, <2>2, PendingServer DEF NoLostWakeup, Pending, NoServerSignals
  <2>5. (ResetObeyed => VerdictNotLost')
    BY <1>8, <1>9, <2>2 DEF IInv, VerdictNotLost, Verdicts, Unjudged
  <2> QED
    BY <1>3, <1>5, <1>6, <2>2, <2>3, <2>4, <2>5 DEF IInv
<1>10. CASE sig.from = "group"
  <2>1. svc' \in GroupStateChanged(svc, sig.state) /\ sig.state \in Verdicts
    BY <1>2, <1>10 DEF Deliver, Signal, Verdicts
  <2>2. /\ Sound(svc')
        /\ svc'.m_server = svc.m_server
        /\ svc'.m_running => svc.m_running /\ svc'.m_collision = svc.m_collision
        /\ ResetObeyed /\ svc'.remote \in Verdicts =>
              svc'.remote = svc.remote /\ (svc.m_published => svc'.m_published)
        /\ sig.state = "ESTABLISHED" => svc'.m_published
        /\ sig.state \in {"COLLISION", "FAILURE"} => Unjudged(svc')
    BY <2>1, GroupStateChangedFacts DEF IInv
  <2>3. TypeOK'
    BY <1>2, <1>3, <2>2 DEF IInv, TypeOK, Sound
  <2>4. NoServerSignals' => NoServerSignals
    <3> SUFFICES ASSUME NoServerSignals', NEW i \in DOMAIN bus, bus[i].from = "server"
                 PROVE  FALSE
      BY DEF NoServerSignals
    <3>1. i # 1
      BY <1>10 DEF sig
    <3> QED
      BY <1>4, <3>1 DEF NoServerSignals
  <2>5. NoLostWakeup'
    BY <1>3, <2>2, <2>4 DEF IInv, NoLostWakeup, Pending, NoServerSignals
  <2>6. (ResetObeyed => VerdictNotLost')
    BY <1>8, <2>1, <2>2 DEF IInv, VerdictNotLost, Verdicts, Unjudged
  <2> QED
    BY <1>3, <1>5, <1>6, <2>2, <2>3, <2>5, <2>6 DEF IInv
<1> QED
  BY <1>2, <1>9, <1>10 DEF Signal

\* A new last signal, of the group or with the server's present state.
LEMMA SendFacts ==
    ASSUME IInv, NEW from \in {"server", "group"}, NEW state, Send(from, state),
           [from |-> from, state |-> state] \in Signal,
           serverState' = IF from = "server" THEN state ELSE serverState
    PROVE  /\ bus' \in Seq(Signal)
           /\ LatestIsCurrent'
           /\ NoServerSignals' => from = "group" /\ NoServerSignals
           /\ from = "group" /\ NoServerSignals => NoServerSignals'
           /\ \A s \in Verdicts : PendingGroup(s) => PendingGroup(s)'
           /\ from = "group" => PendingGroup(state)'
<1> DEFINE m == [from |-> from, state |-> state]
<1>1. bus \in Seq(Signal) /\ bus' = Append(bus, m) /\ m \in Signal
  BY DEF IInv, TypeOK, Send
<1>2. /\ bus' \in Seq(Signal)
      /\ DOMAIN bus = 1..Len(bus) /\ Len(bus) \in Nat
      /\ DOMAIN bus' = 1..(Len(bus) + 1)
      /\ \A i \in DOMAIN bus : bus'[i] = bus[i]
      /\ bus'[Len(bus) + 1] = m
  BY <1>1, AppendFacts
<1>3. m.from = from /\ m.state = state
  OBVIOUS
<1> DEFINE last == Len(bus) + 1
<1>4. last \in DOMAIN bus' /\ \A i \in DOMAIN bus' : i = last \/ (i \in DOMAIN bus /\ i < last)
  BY <1>2
<1> HIDE DEF m
<1>5. LatestIsCurrent'
  <2> SUFFICES ASSUME NEW i \in DOMAIN bus', bus'[i].from = "server",
                      \A j \in DOMAIN bus' : i < j => bus'[j].from # "server"
               PROVE  bus'[i].state = serverState'
    BY DEF LatestIsCurrent
  <2>1. CASE i = last
    BY <1>2, <1>3, <2>1
  <2>2. CASE i \in DOMAIN bus /\ i < last
    <3>1. from # "server"
      BY <1>2, <1>3, <1>4, <2>2
    <3>2. ASSUME NEW j \in DOMAIN bus, i < j PROVE bus[j].from # "server"
      <4>1. j \in DOMAIN bus' /\ bus'[j] = bus[j]
        BY <1>2
      <4> QED
        BY <3>2, <4>1
    <3>3. bus[i].from = "server" /\ bus'[i].state = bus[i].state
      BY <1>2, <2>2
    <3> QED
      BY <2>2, <3>1, <3>2, <3>3 DEF IInv, LatestIsCurrent
  <2> QED
    BY <1>4, <2>1, <2>2
<1>6. NoServerSignals' => from = "group" /\ NoServerSignals
  BY <1>2, <1>3, <1>4 DEF NoServerSignals
<1>7. from = "group" /\ NoServerSignals => NoServerSignals'
  BY <1>2, <1>3, <1>4 DEF NoServerSignals
<1>8. \A s \in Verdicts : PendingGroup(s) => PendingGroup(s)'
  BY <1>2 DEF PendingGroup
<1>9. from = "group" => PendingGroup(state)'
  BY <1>2, <1>4 DEF PendingGroup, m
<1> QED
  BY <1>2, <1>5, <1>6, <1>7, <1>8, <1>9

\* The server changes its state, the object's group staying or dying with it.
LEMMA ServerStep ==
    ASSUME IInv, NEW state \in ServerStates, serverState' = state,
           SendServerState(state),
           svc' = svc \/ svc' = [svc EXCEPT !.remote = "NONE", !.entries = {}],
           UNCHANGED <<phase, publishing, confirmed>>
    PROVE  IInv'
<1>1. /\ svc' \in Object
      /\ svc'.m_server = svc.m_server /\ svc'.m_running = svc.m_running
      /\ svc'.m_published = svc.m_published /\ svc'.m_collision = svc.m_collision
      /\ svc'.remote = svc.remote \/ svc'.remote = "NONE"
  BY DEF IInv, TypeOK, Object
<1>2. Sound(svc')
  BY <1>1 DEF IInv, Sound, TypeOK, Object, Wired, ToldTheTruth, Withdrawn, Announces,
                    Cleared, Gone
<1>3. CASE svc.m_server
  <2>1. Send("server", state)
    BY <1>3 DEF SendServerState
  <2>2. [from |-> "server", state |-> state] \in Signal
    BY DEF Signal
  <2>3. /\ bus' \in Seq(Signal)
        /\ LatestIsCurrent'
        /\ ~NoServerSignals'
        /\ \A s \in Verdicts : PendingGroup(s) => PendingGroup(s)'
    BY <2>1, <2>2, SendFacts
  <2>4. TypeOK'
    BY <1>1, <2>3 DEF IInv, TypeOK
  <2>5. NoLostWakeup'
    BY <2>3, PendingServer DEF NoLostWakeup, Pending, NoServerSignals
  <2>6. (ResetObeyed => VerdictNotLost')
    BY <1>1, <2>3 DEF IInv, VerdictNotLost, Verdicts, Unjudged
  <2> QED
    BY <1>1, <1>2, <1>3, <2>3, <2>4, <2>5, <2>6 DEF IInv
<1>4. CASE ~svc.m_server
  <2>1. UNCHANGED bus
    BY <1>4 DEF SendServerState
  <2>2. TypeOK'
    BY <1>1, <2>1 DEF IInv, TypeOK
  <2>3. NoServerSignals'
    BY <1>4, <2>1 DEF IInv, NoServerSignals
  <2>4. LatestIsCurrent'
    BY <2>3 DEF NoServerSignals, LatestIsCurrent
  <2>5. ~svc'.m_running
    BY <1>1, <1>4 DEF IInv, Sound, Wired
  <2>6. (ResetObeyed => VerdictNotLost')
    BY <1>1, <2>1 DEF IInv, VerdictNotLost, PendingGroup
  <2> QED
    BY <1>1, <1>2, <1>4, <2>2, <2>3, <2>4, <2>5, <2>6 DEF IInv, NoLostWakeup
<1> QED
  BY <1>3, <1>4

LEMMA GroupChangesInv ==
    ASSUME IInv, NEW state \in GroupStates, GroupChanges(state)
    PROVE  IInv'
<1>1. /\ state \in Verdicts /\ svc.remote \in {"REGISTERING", "ESTABLISHED"}
      /\ svc' = [svc EXCEPT !.remote = state]
      /\ UNCHANGED <<serverState, phase, publishing>>
      /\ Send("group", state)
  BY DEF GroupChanges, GroupSteps, Verdicts
<1>2. /\ svc' \in Object /\ svc'.remote = state
      /\ svc'.m_server = svc.m_server /\ svc'.m_running = svc.m_running
      /\ svc'.m_published = svc.m_published /\ svc'.m_collision = svc.m_collision
  BY <1>1 DEF IInv, TypeOK, Object
<1>3. Sound(svc')
  BY <1>1, <1>2 DEF IInv, Sound, TypeOK, Object, Wired, ToldTheTruth, Withdrawn, Announces,
                    Verdicts, Cleared, Gone
<1>4. [from |-> "group", state |-> state] \in Signal
  BY <1>1 DEF Signal, Verdicts
<1>5. /\ bus' \in Seq(Signal)
      /\ LatestIsCurrent'
      /\ NoServerSignals' <=> NoServerSignals
      /\ PendingGroup(state)'
  BY <1>1, <1>4, SendFacts
<1>6. TypeOK'
  BY <1>1, <1>2, <1>5 DEF IInv, TypeOK, GroupChanges
<1>7. NoLostWakeup'
  BY <1>1, <1>2, <1>5 DEF IInv, NoLostWakeup, Pending, NoServerSignals
<1>8. (ResetObeyed => VerdictNotLost')
  BY <1>1, <1>2, <1>5 DEF VerdictNotLost, Verdicts
<1> QED
  BY <1>1, <1>2, <1>3, <1>5, <1>6, <1>7, <1>8 DEF IInv

LEMMA StepInv == IInv /\ [Next]_vars => IInv'
<1> SUFFICES ASSUME IInv, [Next]_vars PROVE IInv'
  OBVIOUS
<1>1. CASE App
  BY <1>1, AppInv
<1>2. CASE Deliver
  BY <1>2, DeliverInv
<1>3. CASE PublishReturns
  <2>1. UNCHANGED <<svc, serverState, bus, phase, confirmed>> /\ publishing' = FALSE
    BY <1>3 DEF PublishReturns
  <2> QED
    BY <2>1 DEF IInv, TypeOK, NoServerSignals, LatestIsCurrent, NoLostWakeup, Pending,
                VerdictNotLost, PendingGroup
<1>4. ASSUME NEW state \in ServerStates, ServerChanges(state) PROVE IInv'
  BY <1>4, ServerStep DEF ServerChanges
<1>5. ASSUME NEW state \in GroupStates, GroupChanges(state) PROVE IInv'
  BY <1>5, GroupChangesInv
<1>6. CASE Restart
  BY <1>6, ServerStep DEF Restart
<1>7. CASE UNCHANGED vars
  BY <1>7 DEF vars, IInv, TypeOK, NoServerSignals, LatestIsCurrent, NoLostWakeup, Pending,
              VerdictNotLost, PendingGroup
<1> QED
  BY <1>1, <1>2, <1>3, <1>4, <1>5, <1>6, <1>7 DEF Next, EventLoop, Daemon

\* Every method and signal handler, with whatever replies of the daemon, and every
\* step of the daemon keeps the invariant.
THEOREM Invariance == Spec => []IInv
  BY InitInv, StepInv, PTL DEF Spec

-----------------------------------------------------------------------------
\* The object, the server, the bus and the application's flags stay in their
\* types.
THEOREM TypeCorrect == Spec => []TypeOK
<1>1. IInv => TypeOK
  BY DEF IInv
<1> QED
  BY <1>1, Invariance, PTL

\* With a daemon that obeys Reset, a service that is not running announces
\* nothing and keeps no entry that a later Commit would announce, whatever else
\* fails and in whatever order (stop, serverStateChanged, tryApply).
THEOREM StopWithdraws == Spec /\ ResetObeyed => []StoppedIsWithdrawn
<1>1. CASE ~ResetObeyed
  BY <1>1, PTL
<1>2. CASE ResetObeyed
  <2>1. IInv => StoppedIsWithdrawn
    BY <1>2 DEF IInv, Sound, Cleared, StoppedIsWithdrawn
  <2> QED
    BY <2>1, Invariance, PTL
<1> QED
  BY <1>1, <1>2

\* With such a daemon, during a server collision the object's records are
\* withdrawn (serverStateChanged, commit).
THEOREM CollisionWithdraws == Spec /\ ResetObeyed => []CollisionIsWithdrawn
<1>1. CASE ~ResetObeyed
  BY <1>1, PTL
<1>2. CASE ResetObeyed
  <2>1. IInv => CollisionIsWithdrawn
    BY <1>2 DEF IInv, Sound, Gone, CollisionIsWithdrawn
  <2> QED
    BY <2>1, Invariance, PTL
<1> QED
  BY <1>1, <1>2

\* With such a daemon, what is registered is what the object reports about
\* itself, also when subtypes are refused (fillEntryGroup, setServiceName).
THEOREM AnnouncesCurrent == Spec /\ ResetObeyed => []AnnouncedIsCurrent
<1>1. CASE ~ResetObeyed
  BY <1>1, PTL
<1>2. CASE ResetObeyed
  <2>1. IInv => AnnouncedIsCurrent
    BY <1>2 DEF IInv, Sound, AnnouncedIsCurrent
  <2> QED
    BY <2>1, Invariance, PTL
<1> QED
  BY <1>1, <1>2

\* No server transition is lost between GetState and the signals, whatever
\* fails (publishAsync, serverStateChanged).
THEOREM WakeupsArrive == Spec => []NoLostWakeup
<1>1. IInv => NoLostWakeup
  BY DEF IInv
<1> QED
  BY <1>1, Invariance, PTL

\* With a daemon that obeys Reset, the verdict on the group in force is known or
\* on its way (groupStateChanged).
THEOREM VerdictsArrive == Spec /\ ResetObeyed => []VerdictNotLost
<1>1. CASE ~ResetObeyed
  BY <1>1, PTL
<1>2. CASE ResetObeyed
  <2>1. IInv => VerdictNotLost
    BY <1>2 DEF IInv
  <2> QED
    BY <2>1, Invariance, PTL
<1> QED
  BY <1>1, <1>2

\* With such a daemon, published() tells the application the truth about the
\* object (publishAsync, groupStateChanged, stop).
THEOREM AppIsTold == Spec /\ ResetObeyed => []AppNeverStranded
<1>1. CASE ~ResetObeyed
  BY <1>1, PTL
<1>2. CASE ResetObeyed
  <2>1. IInv => AppNeverStranded
    BY <1>2 DEF IInv, Sound, ToldTheTruth, Gone, AppNeverStranded
  <2> QED
    BY <2>1, Invariance, PTL
<1> QED
  BY <1>1, <1>2
=============================================================================
