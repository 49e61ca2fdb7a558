--------------------------- MODULE BookingProofs ---------------------------
(***************************************************************************)
(* Proofs that a machine's readings are recorded in the order of its clock,*)
(* and that no part is counted twice, for any machines and publications.   *)
(*                                                                         *)
(* Both are about what a reading is compared with: the states in memory,   *)
(* which a refused append, a restart or a hydrate() can leave behind the   *)
(* journal, and the order in which the broker sends again what it is owed. *)
(***************************************************************************)
EXTENDS CollectorProofs

-----------------------------------------------------------------------------
(* A reading that will not be counted any more: the machine's state is of  *)
(* a later one or of itself, or it is too old.                             *)
Behind(obs) ==
  \/ obs \in Ignored
  \/ LET s == states[obs.machine] IN s # Unknown /\ (Older(s, obs) \/ Repeated(s, obs))
Settled(obs) == Behind(obs) \/ obs.time <= horizon

(* After a step.                                                           *)
NowSettled(obs) ==
  \/ obs \in Ignored
  \/ LET s == states'[obs.machine] IN s # Unknown /\ (Older(s, obs) \/ Repeated(s, obs))
  \/ obs.time <= horizon'

(* The broker sends in order: what it is owed a PUBACK for and has sent is  *)
(* settled, but for the message in hand, and so is what has been let go of. *)
SettledInv ==
  /\ \A k \in owed : k <= sent => Settled(feed[k]) \/ k = handler.msg
  /\ \A k \in owed : k < handler.msg => Settled(feed[k])
  /\ handler.msg # 0 => handler.msg \in owed \ acks \/ Settled(Observed)
  /\ \A k \in acks : Settled(feed[k])
  /\ handler.pc = "done" => Settled(Observed)
  /\ handler.pc = "stale" => Observed.time <= horizon
  /\ handler.pc = "sync" /\ ~log[handler.at].raw => Settled(Observed)
  /\ \A obs \in seen : Settled(obs)

(* The reading whose fsync is waited for is not before the machine's state. *)
SyncTime ==
  handler.pc = "sync" /\ log[handler.at].raw =>
    LET s == states[Observed.machine] IN s # Unknown /\ s.time <= Observed.time

(* A state is that of a reading at least as late as the one before.        *)
MovesOn ==
  \A m \in Machines :
    \/ states'[m] = states[m] \/ states[m] = Unknown
    \/ \E o \in Range(feed) :
         /\ o.machine = m /\ states'[m] # Unknown /\ states'[m].time = o.time /\ states'[m].print = o
         /\ states[m].time <= o.time

(* So what is settled stays so, where no machine sends two readings of one  *)
(* second.                                                                 *)
LEMMA SettledStays ==
  ASSUME TypeInv, OneASecond, MovesOn, horizon <= horizon', horizon' \in Nat,
         NEW obs \in Range(feed), Settled(obs)
  PROVE  NowSettled(obs)
<1>1. obs \in Observation /\ obs.machine \in Machines /\ obs.time \in Nat \ {0} /\ horizon \in Nat
  BY FeedTyped DEF Observation, TypeInv, TypeOK
<1>2. CASE obs \in Ignored \/ obs.time <= horizon
  BY <1>1, <1>2 DEF NowSettled
<1>3. CASE /\ states[obs.machine] # Unknown
           /\ Older(states[obs.machine], obs) \/ Repeated(states[obs.machine], obs)
  <2> DEFINE s == states[obs.machine]
             t == states'[obs.machine]
  <2>1. s.time \in Int
    BY <1>1 DEF TypeInv, State
  <2>2. CASE t = s
    BY <1>3, <2>2 DEF NowSettled
  <2>3. CASE t # s
    <3>1. PICK o \in Range(feed) :
            o.machine = obs.machine /\ t # Unknown /\ t.time = o.time /\ t.print = o /\ s.time <= o.time
      BY <1>1, <1>3, <2>3 DEF MovesOn
    <3>2. obs.time <= s.time /\ o.time \in Nat
      BY <1>1, <1>3, <2>1, <3>1, FeedTyped DEF Older, Repeated, Observation
    <3>3. CASE obs.time < o.time
      BY <3>1, <3>3 DEF NowSettled, Older
    <3>4. CASE obs.time = o.time
      <4>1. obs = o
        BY <3>1, <3>4 DEF OneASecond, Range, TypeInv, TypeOK
      <4> QED  BY <3>1, <3>4, <4>1 DEF NowSettled, Repeated
    <3> QED  BY <1>1, <2>1, <3>1, <3>2, <3>3, <3>4
  <2> QED  BY <2>2, <2>3
<1> QED  BY <1>2, <1>3 DEF Settled, Behind

(* What a step has to show beside that.                                    *)
LEMMA SettledAfter ==
  ASSUME feed' = feed,
         \A k \in owed' : k <= sent' => NowSettled(feed[k]) \/ k = handler'.msg,
         \A k \in owed' : k < handler'.msg => NowSettled(feed[k]),
         handler'.msg # 0 => handler'.msg \in owed' \ acks' \/ NowSettled(feed[handler'.msg]),
         \A k \in acks' : NowSettled(feed[k]),
         handler'.pc = "done" => NowSettled(feed[handler'.msg]),
         handler'.pc = "stale" => feed[handler'.msg].time <= horizon',
         handler'.pc = "sync" /\ ~log'[handler'.at].raw => NowSettled(feed[handler'.msg]),
         \A obs \in seen' : NowSettled(obs)
  PROVE  SettledInv'
BY DEF SettledInv, Observed, NowSettled, Settled, Behind, Older, Repeated

(* A message that is refused leaves only what is settled.                  *)
LEMMA RejectedSettled ==
  ASSUME TypeInv, SettledInv, OneASecond, MovesOn, horizon' = horizon, feed' = feed, owed' = owed,
         handler' = Idle, Offline, seen' \subseteq seen
  PROVE  SettledInv'
<1>1. handler'.msg = 0 /\ handler'.pc = "idle" /\ sent' = 0 /\ acks' = {}
  BY DEF Idle, Offline
<1>2. \A k \in owed' : k \in Nat /\ k # 0
  BY FeedTyped DEF TypeInv, TypeOK
<1>3. horizon \in Nat /\ seen \subseteq Range(feed)
  BY DEF TypeInv, TypeOK
<1>4. \A obs \in seen' : NowSettled(obs)
  BY <1>3, SettledStays DEF SettledInv
<1>5. \A k \in owed' : ~(k <= sent') /\ ~(k < handler'.msg)
  BY <1>1, <1>2
<1> QED  BY <1>1, <1>4, <1>5, SettledAfter

(* Handling a message changes no known state.                              *)
LEMMA HandleMoves ==
  ASSUME TypeInv, RunInv, Handle \/ Hydrate
  PROVE  /\ MovesOn
         /\ \A m \in Machines : states'[m] = states[m] \/ states[m] = Unknown
<1> DEFINE m == Observed.machine
<1>1. m \in Machines /\ states' = [states EXCEPT ![m] = BaselineOf(m)]
  BY HandleCases DEF RunInv
<1>2. BaselineOf(m) = states[m] \/ states[m] = Unknown
  BY DEF BaselineOf, RunInv, AskedInv
<1> QED  BY <1>1, <1>2 DEF MovesOn, TypeInv

(* A message that is handled is settled, or waits for its fsync.           *)
LEMMA HandleSettled ==
  ASSUME TypeInv, RunInv, SettledInv, OneASecond, Handle \/ Hydrate  PROVE SettledInv'
<1> DEFINE obs == Observed
           m   == obs.machine
           s   == BaselineOf(m)
<1>1. /\ m \in Machines /\ obs \in Observation /\ handler.pc \in {"stale", "lookup", "hydrate"}
      /\ s \in State /\ states' = [states EXCEPT ![m] = s]
      /\ UNCHANGED <<feed, horizon, owed, up, seen>>
      /\ LetsGo(s, obs) \/ Asks(s, obs) \/ KeepsAside(s, obs) \/ Adds(s, obs)
  BY HandleCases DEF RunInv
<1>2. MovesOn
  BY HandleMoves
<1>3. obs = feed[handler.msg] /\ handler.msg \in Publications /\ handler.msg # 0 /\ horizon \in Nat
  BY <1>1, FeedTyped DEF Observed, TypeInv, TypeOK
<1>4. /\ Range(feed) = {feed[k] : k \in Publications} /\ seen \subseteq Range(feed)
      /\ owed \subseteq Publications /\ acks \subseteq Publications
  BY DEF Range, Publications, TypeInv, TypeOK
<1>5. \A o \in Range(feed) : Settled(o) => NowSettled(o)
  BY <1>1, <1>2, <1>3, SettledStays
<1>6. \A o \in seen' : NowSettled(o)
  BY <1>1, <1>4, <1>5 DEF SettledInv
<1>7. CASE handler' = Idle /\ Offline
  BY <1>1, <1>2, <1>7, RejectedSettled
<1>8. ASSUME handler'.msg = handler.msg, UNCHANGED linkVars, handler'.pc # "stale",
             handler'.pc = "done" => NowSettled(obs),
             handler'.pc = "sync" /\ ~log'[handler'.at].raw => NowSettled(obs)
      PROVE  SettledInv'
  <2>1. sent' = sent /\ acks' = acks
    BY <1>8 DEF linkVars
  <2>2. \A k \in owed : k <= sent => NowSettled(feed[k]) \/ k = handler.msg
    BY <1>4, <1>5 DEF SettledInv
  <2>3. \A k \in owed : k < handler.msg => NowSettled(feed[k])
    BY <1>4, <1>5 DEF SettledInv
  <2>4. handler.msg \in owed \ acks \/ NowSettled(feed[handler.msg])
    BY <1>3, <1>4, <1>5 DEF SettledInv
  <2>5. \A k \in acks : NowSettled(feed[k])
    BY <1>4, <1>5 DEF SettledInv
  <2> QED  BY <1>1, <1>3, <1>6, <1>8, <2>1, <2>2, <2>3, <2>4, <2>5, SettledAfter
<1>9. states'[m] = s
  BY <1>1 DEF TypeInv
<1>10. CASE LetsGo(s, obs)
  <2>1. handler'.msg = handler.msg /\ handler'.pc = "done" /\ UNCHANGED linkVars
    BY <1>10, HandlerAfter DEF LetsGo, Stages
  <2>2. CASE obs \in seen
    BY <1>4, <1>5, <1>8, <2>1, <2>2 DEF SettledInv
  <2>3. CASE obs \in Ignored
    BY <1>8, <2>1, <2>3 DEF NowSettled
  <2>4. CASE Repeated(s, obs)
    <3>1. s # Unknown
      <4>1. s.time = obs.time /\ obs.time # -1
        BY <1>1, <2>4 DEF Repeated, Observation
      <4> QED  BY <4>1 DEF Unknown, NullState
    <3> QED  BY <1>8, <1>9, <2>1, <2>4, <3>1 DEF NowSettled
  <2> QED  BY <1>10, <2>2, <2>3, <2>4 DEF LetsGo
<1>11. CASE Asks(s, obs)
  <2>1. handler'.msg = handler.msg /\ handler'.pc = "hydrate" /\ UNCHANGED linkVars
    BY <1>11, HandlerAfter DEF Asks, Stages
  <2> QED  BY <1>8, <2>1
<1>12. ASSUME NEW rec \in LogEntry, rec.obs = obs, Admitted(rec), ~rec.raw => NowSettled(obs)
       PROVE  SettledInv'
  <2>1. CASE /\ Appended(rec) /\ handler' = [handler EXCEPT !.pc = "sync", !.at = Len(log')]
             /\ UNCHANGED linkVars
    <3>1. Len(log') \in Nat /\ log'[Len(log')] = rec
      BY <2>1, OfAppended
    <3>2. handler'.msg = handler.msg /\ handler'.pc = "sync" /\ handler'.at = Len(log')
      BY <2>1, <3>1, HandlerAfter DEF Stages
    <3> QED  BY <1>8, <1>12, <2>1, <3>1, <3>2
  <2> QED  BY <1>7, <1>12, <2>1 DEF Admitted
<1>13. CASE KeepsAside(s, obs)
  <2>1. CASE handler.pc = "stale"
    <3>1. NowSettled(obs)
      BY <1>1, <2>1 DEF SettledInv, NowSettled
    <3> QED  BY <1>1, <1>12, <1>13, <3>1, MadeFor DEF KeepsAside
  <2>2. CASE s # Unknown /\ Older(s, obs)
    <3>1. NowSettled(obs)
      BY <1>9, <2>2 DEF NowSettled
    <3> QED  BY <1>1, <1>12, <1>13, <3>1, MadeFor DEF KeepsAside
  <2> QED  BY <1>13, <2>1, <2>2 DEF KeepsAside
<1>14. CASE Adds(s, obs)
  BY <1>1, <1>12, <1>14, MadeFor DEF Adds
<1> QED  BY <1>1, <1>10, <1>11, <1>13, <1>14

(* The broker, the connection and the admission settle nothing by force.   *)
LEMMA SessionSettled ==
  ASSUME TypeInv, SettledInv, OneASecond, Network \/ Deliver \/ Acknowledge  PROVE SettledInv'
<1>1. /\ Range(feed) = {feed[k] : k \in Publications} /\ seen \subseteq Range(feed)
      /\ owed \subseteq Publications /\ acks \subseteq Publications /\ Publications \subseteq Nat \ {0}
      /\ horizon \in Nat /\ sent \in Nat /\ handler.msg \in Nat
  BY FeedTyped DEF Range, Publications, TypeInv, TypeOK
<1>2. feed' = feed /\ UNCHANGED <<processVars, journalVars>>
  BY DEF Network, Connect, ConnectionLost, AckArrives, Age, Deliver, Acknowledge, brokerVars
<1>3. horizon <= horizon' /\ horizon' \in Nat
  <2>1. \A i \in owed : feed[i].time \in Nat
    BY <1>1, FeedTyped DEF Observation
  <2>2. horizon' = horizon \/ \E i \in owed : horizon < feed[i].time /\ horizon' = feed[i].time
    BY DEF Network, Connect, ConnectionLost, AckArrives, Age, Deliver, Acknowledge, brokerVars
  <2> QED  BY <1>1, <2>1, <2>2
<1>4. MovesOn
  BY <1>2 DEF MovesOn, processVars
<1>5. \A k \in Publications : Settled(feed[k]) => NowSettled(feed[k])
  BY <1>1, <1>3, <1>4, SettledStays
<1>6. \A o \in seen' : NowSettled(o)
  <2>1. \A o \in Range(feed) : Settled(o) => NowSettled(o)
    BY <1>3, <1>4, SettledStays
  <2> QED  BY <1>1, <1>2, <2>1 DEF SettledInv, processVars
<1>7. /\ \A k \in owed : k <= sent => NowSettled(feed[k]) \/ k = handler.msg
      /\ \A k \in owed : k < handler.msg => NowSettled(feed[k])
      /\ handler.msg # 0 => handler.msg \in owed \ acks \/ NowSettled(feed[handler.msg])
      /\ \A k \in acks : NowSettled(feed[k])
      /\ handler.pc = "done" => NowSettled(feed[handler.msg])
      /\ handler.pc = "stale" => feed[handler.msg].time <= horizon'
      /\ handler.pc = "sync" /\ ~log[handler.at].raw => NowSettled(feed[handler.msg])
  <2>1. handler.pc # "idle" => handler.msg \in Publications
    BY FeedTyped
  <2>2. handler.msg # 0 => handler.msg \in Publications
    BY DEF TypeInv, TypeOK
  <2>3. handler.pc = "stale" => feed[handler.msg].time \in Nat
    BY <2>1, FeedTyped DEF Observation
  <2> QED  BY <1>1, <1>3, <1>5, <2>1, <2>2, <2>3 DEF SettledInv, Observed
<1>8. log' = log
  BY <1>2 DEF journalVars
<1>9. CASE Connect \/ ConnectionLost
  <2>1. /\ owed' = owed /\ sent' = 0 /\ acks' = {}
        /\ handler'.msg = handler.msg /\ handler'.pc = handler.pc /\ handler'.at = handler.at
    BY <1>9 DEF Connect, ConnectionLost, Offline, brokerVars, TypeInv
  <2>2. \A k \in owed : ~(k <= 0)
    BY <1>1
  <2> QED  BY <1>2, <1>6, <1>7, <1>8, <2>1, <2>2, SettledAfter
<1>10. CASE AckArrives
  <2>1. /\ owed' = owed \ {Min(acks)} /\ acks' = acks \ {Min(acks)} /\ sent' = sent /\ handler' = handler
        /\ acks # {}
    BY <1>10 DEF AckArrives
  <2>2. Min(acks) \in acks
    BY <1>1, <2>1, LeastPublication
  <2>3. handler.msg # 0 => handler.msg \in owed' \ acks' \/ NowSettled(feed[handler.msg])
    BY <1>7, <2>1, <2>2
  <2> QED  BY <1>2, <1>6, <1>7, <1>8, <2>1, <2>3, SettledAfter
<1>11. CASE Age
  <2>1. UNCHANGED <<owed, sent, acks, handler>>
    BY <1>11 DEF Age, linkVars
  <2> QED  BY <1>2, <1>6, <1>7, <1>8, <2>1, SettledAfter
<1>12. CASE Acknowledge
  <2>1. /\ handler.pc = "done" /\ handler' = Idle /\ owed' = owed /\ sent' = sent
        /\ acks' = acks \/ acks' = acks \cup {handler.msg}
    BY <1>12 DEF Acknowledge, brokerVars
  <2>2. handler'.msg = 0 /\ handler'.pc = "idle"
    BY <2>1 DEF Idle
  <2>3. \A k \in owed : ~(k < 0)
    BY <1>1
  <2>4. NowSettled(feed[handler.msg])
    BY <1>7, <2>1
  <2> QED  BY <1>2, <1>6, <1>7, <1>8, <2>1, <2>2, <2>3, <2>4, SettledAfter
<1>13. CASE Deliver
  <2> DEFINE i == Min(ToSend)
  <2>1. /\ owed' = owed /\ horizon' = horizon /\ ToSend # {}
        /\ \/ handler.msg # 0 /\ Offline /\ handler' = handler
           \/ /\ handler.msg = 0 /\ feed[i] \in Ignored
              /\ sent' = i /\ acks' = acks \cup {i} /\ handler' = handler
           \/ /\ handler.msg = 0 /\ sent' = i /\ acks' = acks
              /\ handler' = [msg |-> i, at |-> 0, same |-> TRUE,
                             pc |-> IF feed[i].time <= horizon THEN "stale" ELSE "lookup"]
    BY <1>13 DEF Deliver, brokerVars
  <2>2. ToSend \in SUBSET Nat /\ ToSend \subseteq owed
    BY <1>1 DEF ToSend
  <2>3. i \in ToSend /\ \A k \in ToSend : i <= k
    BY <2>1, <2>2, MinIsLeast
  <2>4. i \in owed /\ i \in Nat /\ i # 0
    BY <1>1, <2>2, <2>3
  <2>5. \A k \in owed : k <= i => k <= sent \/ k = i
    BY <1>1, <2>2, <2>3 DEF ToSend
  <2> HIDE DEF i
  <2>6. CASE handler.msg # 0 /\ Offline /\ handler' = handler
    <3>1. sent' = 0 /\ acks' = {} /\ \A k \in owed : ~(k <= 0)
      BY <1>1, <2>6 DEF Offline
    <3> QED  BY <1>2, <1>6, <1>7, <1>8, <2>1, <2>6, <3>1, SettledAfter
  <2>7. CASE /\ handler.msg = 0 /\ feed[i] \in Ignored
             /\ sent' = i /\ acks' = acks \cup {i} /\ handler' = handler
    <3>1. NowSettled(feed[i])
      BY <2>7 DEF NowSettled
    <3>2. \A k \in owed : k <= i => NowSettled(feed[k])
      BY <1>1, <1>7, <2>5, <2>7, <3>1
    <3> QED  BY <1>2, <1>6, <1>7, <1>8, <2>1, <2>7, <3>1, <3>2, SettledAfter
  <2>8. CASE /\ handler.msg = 0 /\ sent' = i /\ acks' = acks
             /\ handler' = [msg |-> i, at |-> 0, same |-> TRUE,
                            pc |-> IF feed[i].time <= horizon THEN "stale" ELSE "lookup"]
    <3>1. /\ handler'.msg = i /\ handler'.pc \in {"stale", "lookup"}
          /\ handler'.pc = "stale" => feed[i].time <= horizon
      BY <2>8
    <3>2. \A k \in owed : k <= i => NowSettled(feed[k]) \/ k = i
      BY <1>1, <1>7, <2>5, <2>8
    <3>3. \A k \in owed : k < i => NowSettled(feed[k])
      BY <1>1, <2>4, <3>2
    <3>4. i \in owed' \ acks' \/ NowSettled(feed[i])
      BY <1>7, <2>1, <2>4, <2>8
    <3> QED  BY <1>2, <1>6, <1>7, <1>8, <2>1, <2>8, <3>1, <3>2, <3>3, <3>4, SettledAfter
  <2> QED  BY <2>1, <2>6, <2>7, <2>8
<1> QED  BY <1>9, <1>10, <1>11, <1>12, <1>13 DEF Network

(* A reading that is accepted is its machine's state.                      *)
LEMMA AcceptedMoves ==
  ASSUME TypeInv, RunInv, SyncTime, Accepted
  PROVE  /\ MovesOn /\ handler.at \in 1..Len(log) /\ Observed \in Observation /\ Observed \in Range(feed)
         /\ Observed = feed[handler.msg]
         /\ handler'.pc = "done" /\ handler'.msg = handler.msg
         /\ log[handler.at].raw =>
              states' = [states EXCEPT ![Observed.machine] = StateAt(handler.at)]
         /\ ~log[handler.at].raw => states' = states
<1>1. /\ handler.pc = "sync" /\ handler' = [handler EXCEPT !.pc = "done", !.at = 0]
      /\ states' = IF log[handler.at].raw
                   THEN [states EXCEPT ![log[handler.at].obs.machine] = StateAt(handler.at)] ELSE states
  BY DEF Accepted, Proceed
<1>2. handler'.pc = "done" /\ handler'.msg = handler.msg
  BY <1>1, HandlerAfter DEF Stages
<1>3. handler.at \in 1..Len(log) /\ log[handler.at].obs = Observed
  BY <1>1 DEF RunInv
<1>4. /\ Observed \in Observation /\ Observed.machine \in Machines /\ Observed \in Range(feed)
      /\ Observed = feed[handler.msg]
  BY <1>1, FeedTyped DEF Observation, Range, Publications, Observed
<1>5. StateAt(handler.at) # Unknown /\ StateAt(handler.at).time = Observed.time /\ StateAt(handler.at).print = Observed
  BY <1>3, KnownAt
<1>6. MovesOn
  <2>1. CASE log[handler.at].raw
    <3>1. states[Observed.machine].time <= Observed.time
      BY <1>1, <2>1 DEF SyncTime
    <3> QED  BY <1>1, <1>3, <1>4, <1>5, <2>1, <3>1 DEF MovesOn, TypeInv
  <2>2. CASE ~log[handler.at].raw
    BY <1>1, <2>2 DEF MovesOn
  <2> QED  BY <2>1, <2>2
<1> QED  BY <1>1, <1>2, <1>3, <1>4, <1>6

(* Every step keeps what is settled.                                       *)
LEMMA NextSettled ==
  ASSUME TypeInv, RunInv, SettledInv, SyncTime, OneASecond, [Next]_vars  PROVE SettledInv'
<1>1. CASE Handle \/ Hydrate
  BY <1>1, HandleSettled
<1>2. CASE Network \/ Admission
  BY <1>2, SessionSettled DEF Admission
<1>3. CASE Accepted
  <2>1. UNCHANGED <<feed, horizon, owed, sent, acks>> /\ horizon \in Nat /\ seen' = seen \cup {Observed}
    BY <1>3 DEF Accepted, Proceed, brokerVars, linkVars, TypeInv, TypeOK
  <2>2. \A o \in Range(feed) : Settled(o) => NowSettled(o)
    BY <1>3, <2>1, AcceptedMoves, SettledStays
  <2>3. NowSettled(Observed)
    <3>1. CASE log[handler.at].raw
      <4>1. states'[Observed.machine] = StateAt(handler.at)
        BY <1>3, <3>1, AcceptedMoves DEF TypeInv, Observation
      <4>2. StateAt(handler.at) # Unknown /\ StateAt(handler.at).time = Observed.time /\ StateAt(handler.at).print = Observed
        BY <1>3, AcceptedMoves, KnownAt DEF RunInv, Accepted
      <4> QED  BY <4>1, <4>2 DEF NowSettled, Repeated
    <3>2. CASE ~log[handler.at].raw
      BY <1>3, <2>2, <3>2, AcceptedMoves DEF SettledInv, Accepted
    <3> QED  BY <3>1, <3>2
  <2>4. /\ Range(feed) = {feed[k] : k \in Publications} /\ seen \subseteq Range(feed)
        /\ owed \subseteq Publications /\ acks \subseteq Publications
    BY DEF Range, Publications, TypeInv, TypeOK
  <2>5. /\ \A k \in owed : k <= sent => NowSettled(feed[k]) \/ k = handler.msg
        /\ \A k \in owed : k < handler.msg => NowSettled(feed[k])
        /\ \A k \in acks : NowSettled(feed[k])
        /\ \A o \in seen' : NowSettled(o)
    BY <2>1, <2>2, <2>3, <2>4 DEF SettledInv
  <2>6. handler'.msg = handler.msg /\ handler'.pc = "done" /\ Observed = feed[handler.msg]
    BY <1>3, AcceptedMoves
  <2> QED  BY <2>1, <2>3, <2>5, <2>6, SettledAfter
<1>4. CASE QueryFails \/ SyncRejected
  <2>1. MovesOn /\ UNCHANGED <<feed, horizon, owed, seen>> /\ handler' = Idle /\ Offline
    BY <1>4 DEF QueryFails, SyncRejected, Reject, AfterRejection, brokerVars, MovesOn
  <2> QED  BY <2>1, RejectedSettled
<1>5. CASE Forget \/ Storage \/ UNCHANGED vars
  <2>1. UNCHANGED <<feed, horizon, owed, sent, acks, handler, states, log>> /\ seen' \subseteq seen
    BY <1>5 DEF Forget, Storage, Fsync, Release, vars, brokerVars, linkVars, processVars, journalVars
  <2> QED  BY <2>1 DEF SettledInv, Observed, Settled, Behind
<1>6. CASE Process
  <2>1. handler' = Idle /\ sent' = 0 /\ acks' = {} /\ seen' = {} /\ feed' = feed /\ owed' = owed
    BY <1>6 DEF RunInv, Process, Start, Shutdown, ProcessCrash, PowerLoss, Ends, Offline, brokerVars, linkVars
  <2>2. handler'.msg = 0 /\ handler'.pc = "idle"
    BY <2>1 DEF Idle
  <2>3. \A k \in owed : ~(k <= 0) /\ ~(k < 0)
    BY FeedTyped DEF TypeInv, TypeOK
  <2> QED  BY <2>1, <2>2, <2>3, SettledAfter
<1> QED  BY <1>1, <1>2, <1>3, <1>4, <1>5, <1>6 DEF Next, Processor

-----------------------------------------------------------------------------
(* What handling a message does to the journal and the handler, in one     *)
(* place: at most one record is appended, a raw one only to a baseline it   *)
(* is not behind.                                                          *)
LEMMA HandleParts ==
  ASSUME TypeInv, RunInv, Handle \/ Hydrate
  PROVE  /\ up /\ up' /\ handler.pc \in {"stale", "lookup", "hydrate"}
         /\ Observed \in Observation /\ Observed.machine \in Machines /\ Observed \in Range(feed)
         /\ Observed = feed[handler.msg] /\ handler.msg \in Publications
         /\ BaselineOf(Observed.machine) \in State
         /\ states' = [states EXCEPT ![Observed.machine] = BaselineOf(Observed.machine)]
         /\ UNCHANGED <<feed, horizon, owed, done, durable, saved>> /\ (failed => failed')
         /\ handler'.pc \notin {"stale", "lookup"}
         /\ (handler'.msg = handler.msg /\ UNCHANGED linkVars) \/ (handler' = Idle /\ Offline)
         /\ \/ UNCHANGED journalVars /\ handler'.pc # "sync"
            \/ \E rec \in LogEntry :
                 /\ Appended(rec) /\ rec.obs = Observed /\ ~failed
                 /\ \/ handler'.pc = "sync" /\ handler'.at = Len(log')
                    \/ handler' = Idle /\ Offline /\ (failed' \/ "space" \in Faults)
                 /\ rec.raw =>
                      /\ Adds(BaselineOf(Observed.machine), Observed)
                      /\ rec = RawRecord(Observed, StepOf(BaselineOf(Observed.machine), Observed))
<1> DEFINE obs == Observed
           m   == obs.machine
           s   == BaselineOf(m)
<1>1. /\ m \in Machines /\ obs \in Observation /\ handler.pc \in {"stale", "lookup", "hydrate"}
      /\ s \in State /\ states' = [states EXCEPT ![m] = s]
      /\ UNCHANGED <<feed, horizon, owed, up, seen>>
      /\ LetsGo(s, obs) \/ Asks(s, obs) \/ KeepsAside(s, obs) \/ Adds(s, obs)
  BY HandleCases DEF RunInv
<1>2. up /\ up'
  BY <1>1 DEF RunInv, Idle
<1>3. obs \in Range(feed) /\ obs = feed[handler.msg] /\ handler.msg \in Publications
  BY <1>1, FeedTyped DEF Observed, Range, Publications
<1> DEFINE Ended ==
             /\ UNCHANGED <<done, durable, saved>> /\ (failed => failed')
             /\ handler'.pc \notin {"stale", "lookup"}
             /\ (handler'.msg = handler.msg /\ UNCHANGED linkVars) \/ (handler' = Idle /\ Offline)
           Written(rec) ==
             /\ Appended(rec) /\ rec.obs = obs /\ ~failed
             /\ \/ handler'.pc = "sync" /\ handler'.at = Len(log')
                \/ handler' = Idle /\ Offline /\ (failed' \/ "space" \in Faults)
<1>4. CASE LetsGo(s, obs) \/ Asks(s, obs)
  <2>1. handler'.msg = handler.msg /\ handler'.pc \in {"done", "hydrate"} /\ UNCHANGED linkVars
    BY <1>4, HandlerAfter DEF LetsGo, Asks, Stages
  <2>2. UNCHANGED journalVars /\ failed' = failed
    BY <1>4 DEF LetsGo, Asks
  <2>3. UNCHANGED <<done, durable, saved>>
    BY <2>2 DEF journalVars
  <2>4. Ended
    BY <2>1, <2>2, <2>3
  <2>5. handler'.pc # "sync"
    BY <2>1
  <2> QED  BY <1>1, <1>2, <1>3, <2>2, <2>4, <2>5
<1>5. ASSUME NEW rec \in LogEntry, rec.obs = obs, Admitted(rec)
      PROVE  Ended /\ ((UNCHANGED journalVars /\ handler'.pc # "sync") \/ Written(rec))
  <2>1. CASE UNCHANGED journalVars /\ handler' = Idle /\ Offline /\ (failed' \/ failed' = failed)
    <3>1. handler'.pc = "idle" /\ UNCHANGED <<done, durable, saved>>
      BY <2>1, HandlerAfter DEF journalVars
    <3>2. failed => failed'
      BY <2>1
    <3> QED  BY <2>1, <3>1, <3>2
  <2>2. CASE Appended(rec) /\ handler' = Idle /\ Offline /\ (failed' \/ ("space" \in Faults /\ failed' = failed))
    BY <1>5, <2>2, HandlerAfter DEF Appended
  <2>3. CASE /\ Appended(rec) /\ failed' = failed
             /\ handler' = [handler EXCEPT !.pc = "sync", !.at = Len(log')] /\ UNCHANGED linkVars
    <3>1. Len(log') \in Nat /\ "sync" \in Stages
      BY <2>3, OfAppended DEF Stages
    <3>2. handler'.pc = "sync" /\ handler'.at = Len(log') /\ handler'.msg = handler.msg
      BY <2>3, <3>1, HandlerAfter
    <3> QED  BY <1>5, <2>3, <3>2 DEF Appended
  <2> QED  BY <1>5, <2>1, <2>2, <2>3 DEF Admitted
<1>6. CASE KeepsAside(s, obs)
  <2> DEFINE rec == LateRecord(obs)
  <2>1. rec \in LogEntry /\ rec.obs = obs /\ ~rec.raw
    BY <1>1, MadeFor
  <2>2. Admitted(rec)
    BY <1>6 DEF KeepsAside
  <2> HIDE DEF rec
  <2>3. Ended /\ ((UNCHANGED journalVars /\ handler'.pc # "sync") \/ Written(rec))
    BY <1>5, <2>1, <2>2
  <2> HIDE DEF s
  <2> QED  BY <1>1, <1>2, <1>3, <2>1, <2>3 DEF s
<1>7. CASE Adds(s, obs)
  <2> DEFINE rec == RawRecord(obs, StepOf(s, obs))
  <2>1. rec \in LogEntry /\ rec.obs = obs
    BY <1>1, MadeFor
  <2>2. Admitted(rec)
    BY <1>7 DEF Adds
  <2>3. rec = RawRecord(obs, StepOf(s, obs))
    OBVIOUS
  <2> HIDE DEF rec
  <2>4. Ended /\ ((UNCHANGED journalVars /\ handler'.pc # "sync") \/ Written(rec))
    BY <1>5, <2>1, <2>2
  <2> QED  BY <1>1, <1>2, <1>3, <1>7, <2>1, <2>3, <2>4
<1> QED  BY <1>1, <1>4, <1>6, <1>7

-----------------------------------------------------------------------------
(* TimesInOrder, of one pair of readings.                                  *)
InOrder ==
  \A m \in Machines : \A i, j \in 1..Len(log) :
    Of(m, i) /\ Of(m, j) /\ i < j => log[i].obs.time <= log[j].obs.time

(* No reading is too old where none is ever late.                          *)
AgeInv == "late" \notin Faults => horizon = 0

(* A reading in the journal that is later than its machine's state: it was  *)
(* written and not accepted.                                               *)
Ahead(m, j) == Of(m, j) /\ states[m] # Unknown /\ states[m].time < log[j].obs.time

(* Its publication is the next of its machine that is not settled, or it is *)
(* too old for one.                                                        *)
Awaited(j) ==
  /\ handler.pc = "lookup" /\ Observed.machine = log[j].obs.machine
       => \/ Behind(Observed) \/ Observed = log[j].obs
          \/ "late" \in Faults /\ log[j].obs.time <= Observed.time
  /\ \/ "late" \in Faults /\ log[j].obs.time <= horizon
     \/ \E i \in owed \ acks :
          /\ feed[i] = log[j].obs
          /\ sent < i \/ handler.msg = i
          /\ handler.msg <= i
          /\ \A k \in owed : k < i => Settled(feed[k])

(* A reading ahead of its machine's state waits for its fsync, or the       *)
(* journal has failed, or append() threw after having written it: then it  *)
(* will be the machine's next.                                             *)
AheadInv ==
  up => \A m \in Machines : \A j \in 1..Len(log) : Ahead(m, j) =>
    \/ failed
    \/ handler.pc = "sync" /\ handler.at = j
    \/ "space" \in Faults /\ Awaited(j)

(* After a step.                                                           *)
NowAhead(m, j) == NowOf(m, j) /\ states'[m] # Unknown /\ states'[m].time < log'[j].obs.time
NowBehind(obs) ==
  \/ obs \in Ignored
  \/ LET s == states'[obs.machine] IN s # Unknown /\ (Older(s, obs) \/ Repeated(s, obs))
NowAwaited(j) ==
  /\ handler'.pc = "lookup" /\ feed'[handler'.msg].machine = log'[j].obs.machine
       => \/ NowBehind(feed'[handler'.msg]) \/ feed'[handler'.msg] = log'[j].obs
          \/ "late" \in Faults /\ log'[j].obs.time <= feed'[handler'.msg].time
  /\ \/ "late" \in Faults /\ log'[j].obs.time <= horizon'
     \/ \E i \in owed' \ acks' :
          /\ feed'[i] = log'[j].obs
          /\ sent' < i \/ handler'.msg = i
          /\ handler'.msg <= i
          /\ \A k \in owed' : k < i => NowSettled(feed'[k])

(* The same of what a step leaves, without primes of operators.             *)
LEMMA AheadAfter ==
  ASSUME up' => \A m \in Machines : \A j \in 1..Len(log') : NowAhead(m, j) =>
           \/ failed'
           \/ handler'.pc = "sync" /\ handler'.at = j
           \/ "space" \in Faults /\ NowAwaited(j)
  PROVE  AheadInv'
BY DEF AheadInv, Ahead, NowAhead, Of, NowOf, Awaited, NowAwaited, Observed, Settled, NowSettled,
       Behind, NowBehind, Older, Repeated

(* A record's parts.                                                       *)
LEMMA RecordTyped ==
  ASSUME TypeInv, NEW j \in 1..Len(log)
  PROVE  /\ log[j] \in LogEntry /\ log[j].obs \in Observation /\ log[j].base \in Int /\ log[j].delta \in Int
         /\ log[j].obs.time \in Nat \ {0} /\ log[j].obs.machine \in Machines
         /\ log[j].obs.count \in Int
<1>1. log[j] \in LogEntry
  BY DEF TypeInv
<1>2. log[j].obs \in Observation
  BY <1>1 DEF LogEntry
<1> QED  BY <1>1, <1>2 DEF LogEntry, Observation, NoCount

(* What a machine's state is not ahead of cannot be settled: only late.    *)
LEMMA AheadNotSettled ==
  ASSUME TypeInv, RunInv, AgeInv, NEW m \in Machines, NEW j \in 1..Len(log), Ahead(m, j),
         Settled(log[j].obs)
  PROVE  "late" \in Faults /\ log[j].obs.time <= horizon
<1>1. log[j].obs \in Observation /\ log[j].obs \notin Ignored /\ log[j].obs.machine = m
  BY RecordTyped DEF RunInv, Ahead, Of
<1>2. log[j].obs.time \in Nat \ {0} /\ states[m].time \in Int
  BY <1>1 DEF Observation, TypeInv, State
<1>3. ~Behind(log[j].obs)
  BY <1>1, <1>2 DEF Ahead, Behind, Older, Repeated
<1> QED  BY <1>2, <1>3 DEF Settled, AgeInv

(* The readings after a state or at it, of a state just read from the       *)
(* database.                                                               *)
LEMMA HydratedCovers ==
  ASSUME TypeInv, RunInv, SnapshotInv, InOrder, up, NEW m \in Machines, states[m] = Unknown,
         NEW j \in 1..Len(log), Of(m, j)
  PROVE  log[j].obs.time <= Hydrated(m).time
<1>0. done \in 0..Len(log) /\ Len(log) \in Nat
  BY DEF TypeInv, TypeOK, LogIndex
<1>1. j \in 1..done
  BY <1>0 DEF SnapshotInv
<1>2. PICK last \in 1..done : Of(m, last) /\ j <= last /\ Hydrated(m).time = log[last].obs.time
  BY <1>1, HydratedIs
<1>3. last \in 1..Len(log) /\ log[j].obs.time \in Nat
  BY <1>0, <1>2, RecordTyped
<1> QED  BY <1>1, <1>2, <1>3 DEF InOrder

(* A reading is added only behind all of its machine.                      *)
LEMMA AddedLast ==
  ASSUME TypeInv, RunInv, SnapshotInv, InOrder, AheadInv, Handle \/ Hydrate, ~failed,
         Adds(BaselineOf(Observed.machine), Observed),
         NEW j \in 1..Len(log), Of(Observed.machine, j)
  PROVE  log[j].obs.time <= Observed.time
<1> DEFINE obs == Observed
           m   == obs.machine
           s   == BaselineOf(m)
<1>1. up /\ obs \in Observation /\ m \in Machines /\ s \in State
  BY HandleParts
<1>2. log[j].obs.time \in Nat /\ obs.time \in Nat /\ s.time \in Int /\ s.time <= obs.time
  BY <1>1, RecordTyped DEF Observation, State, Adds, Older
<1>3. CASE handler.pc = "hydrate"
  <2>1. s = Hydrated(m) /\ states[m] = Unknown
    BY <1>3 DEF BaselineOf, RunInv, AskedInv
  <2>2. log[j].obs.time <= Hydrated(m).time
    BY <1>1, <2>1, HydratedCovers
  <2> QED  BY <1>2, <2>1, <2>2
<1>4. CASE handler.pc = "lookup"
  <2>1. s = states[m] /\ s # Unknown /\ ~Older(s, obs) /\ ~Repeated(s, obs) /\ obs \notin Ignored
    BY <1>4 DEF BaselineOf, Adds
  <2>2. CASE ~Ahead(m, j)
    BY <1>2, <2>1, <2>2 DEF Ahead
  <2>3. CASE Ahead(m, j)
    <3>1. Awaited(j)
      BY <1>1, <1>4, <2>3 DEF AheadInv
    <3>2. ~Behind(obs) /\ log[j].obs.machine = m
      BY <2>1 DEF Behind, Of
    <3> QED  BY <1>2, <1>4, <3>1, <3>2 DEF Awaited
  <2> QED  BY <2>2, <2>3
<1> QED  BY <1>3, <1>4 DEF Adds

(* What is awaited stays so, as long as nothing new is in hand.            *)
LEMMA AwaitedStays ==
  ASSUME TypeInv, OneASecond, MovesOn, horizon <= horizon', horizon' \in Nat,
         feed' = feed, owed' = owed, acks' \subseteq acks,
         NEW j \in 1..Len(log), log'[j] = log[j],
         \/ handler'.msg = handler.msg /\ sent' \in {0, sent}
         \/ handler'.msg = 0 /\ sent' = 0,
         handler'.pc = "lookup" => handler.pc = "lookup" /\ handler'.msg = handler.msg /\ states' = states,
         Awaited(j)
  PROVE  NowAwaited(j)
<1>1. /\ log[j].obs.time \in Nat /\ sent \in Nat /\ handler.msg \in Nat /\ horizon \in Nat
      /\ owed \subseteq Publications /\ Publications \subseteq Nat \ {0}
  BY FeedTyped, RecordTyped DEF TypeInv, TypeOK
<1>2. \A k \in Publications : feed[k] \in Range(feed)
  BY DEF Range, Publications
<1>3. \A k \in owed : Settled(feed[k]) => NowSettled(feed[k])
  BY <1>1, <1>2, SettledStays
<1>4. handler'.pc = "lookup" /\ feed'[handler'.msg].machine = log'[j].obs.machine
       => \/ NowBehind(feed'[handler'.msg]) \/ feed'[handler'.msg] = log'[j].obs
          \/ "late" \in Faults /\ log'[j].obs.time <= feed'[handler'.msg].time
  BY DEF Awaited, Observed, Behind, NowBehind
<1>5. CASE "late" \in Faults /\ log[j].obs.time <= horizon
  BY <1>1, <1>4, <1>5 DEF NowAwaited
<1>6. CASE \E i \in owed \ acks :
             /\ feed[i] = log[j].obs
             /\ sent < i \/ handler.msg = i
             /\ handler.msg <= i
             /\ \A k \in owed : k < i => Settled(feed[k])
  <2>1. PICK i \in owed \ acks :
             /\ feed[i] = log[j].obs
             /\ sent < i \/ handler.msg = i
             /\ handler.msg <= i
             /\ \A k \in owed : k < i => Settled(feed[k])
    BY <1>6
  <2>2. i \in owed' \ acks' /\ i \in Nat \ {0} /\ feed'[i] = log'[j].obs
    BY <1>1, <2>1
  <2>3. sent' < i \/ handler'.msg = i
    BY <1>1, <2>1, <2>2
  <2>4. handler'.msg <= i
    BY <1>1, <2>1, <2>2
  <2>5. \A k \in owed' : k < i => NowSettled(feed'[k])
    BY <1>3, <2>1
  <2> QED  BY <1>4, <2>2, <2>3, <2>4, <2>5 DEF NowAwaited
<1> QED  BY <1>5, <1>6 DEF Awaited

(* What handling a message leaves behind a machine's state, and ahead.     *)
LEMMA HandleAhead ==
  ASSUME TypeInv, RunInv, SnapshotInv, InOrder, AheadInv, AgeInv,
         "space" \in Faults => OneASecond /\ SettledInv, Handle \/ Hydrate
  PROVE  AheadInv'
<1> DEFINE obs == Observed
           m   == obs.machine
           s   == BaselineOf(m)
<1>1. /\ up /\ up' /\ handler.pc \in {"stale", "lookup", "hydrate"}
      /\ obs \in Observation /\ m \in Machines /\ obs \in Range(feed)
      /\ obs = feed[handler.msg] /\ handler.msg \in Publications
      /\ s \in State /\ states' = [states EXCEPT ![m] = s]
      /\ UNCHANGED <<feed, horizon, owed, done, durable, saved>> /\ (failed => failed')
      /\ handler'.pc \notin {"stale", "lookup"}
      /\ (handler'.msg = handler.msg /\ UNCHANGED linkVars) \/ (handler' = Idle /\ Offline)
  BY HandleParts
<1>2. MovesOn /\ \A mm \in Machines : states'[mm] = states[mm] \/ states[mm] = Unknown
  BY HandleMoves
<1>3. \A mm \in Machines : states'[mm] # states[mm] => mm = m /\ states'[mm] = Hydrated(mm) /\ states[mm] = Unknown
  <2>1. s # states[m] => s = Hydrated(m)
    BY DEF BaselineOf
  <2> QED  BY <1>1, <1>2, <2>1 DEF TypeInv
<1>4. ASSUME NEW mm \in Machines, NEW j \in 1..Len(log), Of(mm, j), log'[j] = log[j], NowAhead(mm, j)
      PROVE  failed' \/ ("space" \in Faults /\ NowAwaited(j))
  <2>1. states'[mm] = states[mm]
    <3>1. SUFFICES ASSUME states'[mm] # states[mm]  PROVE FALSE
      OBVIOUS
    <3>2. log[j].obs.time <= states'[mm].time
      BY <1>1, <1>3, <1>4, <3>1, HydratedCovers
    <3>3. states'[mm].time \in Int /\ log[j].obs.time \in Int
      BY <1>3, <3>1, HydratedTyped, RecordTyped DEF State
    <3> QED  BY <1>4, <3>2, <3>3 DEF NowAhead
  <2>2. Ahead(mm, j)
    BY <1>4, <2>1 DEF Ahead, NowAhead
  <2>3. failed \/ ("space" \in Faults /\ Awaited(j))
    BY <1>1, <2>2 DEF AheadInv
  <2>4. CASE failed
    BY <1>1, <2>4
  <2>5. CASE "space" \in Faults /\ Awaited(j)
    <3>1. /\ acks' \subseteq acks /\ horizon \in Nat
          /\ \/ handler'.msg = handler.msg /\ sent' \in {0, sent}
             \/ handler'.msg = 0 /\ sent' = 0
      BY <1>1, HandlerAfter DEF linkVars, Offline, TypeInv, TypeOK
    <3> QED  BY <1>1, <1>2, <1>4, <2>5, <3>1, AwaitedStays
  <2> QED  BY <2>3, <2>4, <2>5
<1>5. CASE UNCHANGED journalVars
  <2>1. \A mm, j : NowOf(mm, j) <=> Of(mm, j)
    BY <1>5 DEF NowOf, Of, journalVars
  <2>2. \A mm \in Machines : \A j \in 1..Len(log') : NowAhead(mm, j) => failed' \/ ("space" \in Faults /\ NowAwaited(j))
    BY <1>4, <1>5, <2>1 DEF NowAhead, journalVars
  <2> QED  BY <2>2, AheadAfter
<1>6. CASE \E rec \in LogEntry :
             /\ Appended(rec) /\ rec.obs = obs /\ ~failed
             /\ \/ handler'.pc = "sync" /\ handler'.at = Len(log')
                \/ handler' = Idle /\ Offline /\ (failed' \/ "space" \in Faults)
             /\ rec.raw => Adds(s, obs)
  <2>1. PICK rec \in LogEntry :
             /\ Appended(rec) /\ rec.obs = obs /\ ~failed
             /\ \/ handler'.pc = "sync" /\ handler'.at = Len(log')
                \/ handler' = Idle /\ Offline /\ (failed' \/ "space" \in Faults)
             /\ rec.raw => Adds(s, obs)
    BY <1>6
  <2>2. /\ Len(log) \in Nat /\ Len(log') = Len(log) + 1 /\ log'[Len(log')] = rec
        /\ \A j \in 1..Len(log) : log'[j] = log[j]
        /\ \A mm, j : NowOf(mm, j) <=> Of(mm, j) \/ (j = Len(log') /\ rec.raw /\ rec.obs.machine = mm)
        /\ \A mm, j : Of(mm, j) => j \in 1..Len(log) /\ log'[j] = log[j]
    BY <2>1, OfAppended
  <2>3. ASSUME "space" \in Faults, rec.raw, handler' = Idle, Offline  PROVE NowAwaited(Len(log'))
    <3>1. ~Behind(obs)
      <4>1. s # Unknown /\ ~Older(s, obs) /\ ~Repeated(s, obs) /\ obs \notin Ignored
        BY <2>1, <2>3 DEF Adds
      <4>2. s = states[m] \/ states[m] = Unknown
        BY <1>1, <1>2 DEF TypeInv
      <4> QED  BY <4>1, <4>2 DEF Behind
    <3>2. handler'.pc = "idle" /\ handler'.msg = 0 /\ sent' = 0 /\ acks' = {}
      BY <2>3, HandlerAfter DEF Offline
    <3>3. log'[Len(log')].obs = obs /\ obs.time \in Nat \ {0} /\ horizon \in Nat
      BY <1>1, <2>1, <2>2 DEF Observation, TypeInv, TypeOK
    <3>4. CASE Settled(obs)
      <4>1. "late" \in Faults /\ obs.time <= horizon
        BY <3>1, <3>3, <3>4 DEF Settled, AgeInv
      <4> QED  BY <1>1, <3>2, <3>3, <4>1 DEF NowAwaited
    <3>5. CASE ~Settled(obs)
      <4> DEFINE i == handler.msg
      <4>1. i \in Nat \ {0} /\ Publications \subseteq Nat \ {0} /\ owed \subseteq Publications
        BY <1>1, FeedTyped DEF TypeInv, TypeOK
      <4>2. i \in owed
        BY <2>3, <3>5, <4>1 DEF SettledInv
      <4>3. \A k \in owed : k < i => Settled(feed[k])
        BY <2>3 DEF SettledInv
      <4>4. \A k \in owed' : k < i => NowSettled(feed'[k])
        <5>1. \A k \in owed : feed[k] \in Range(feed)
          BY <4>1 DEF Range, Publications
        <5> QED  BY <1>1, <1>2, <2>3, <3>3, <4>3, <5>1, SettledStays
      <4>5. feed'[i] = log'[Len(log')].obs /\ i \in owed' \ acks' /\ sent' < i /\ handler'.msg <= i
        BY <1>1, <3>2, <3>3, <4>1, <4>2
      <4> HIDE DEF i
      <4> QED  BY <3>2, <4>4, <4>5 DEF NowAwaited
    <3> QED  BY <3>4, <3>5
  <2>4. ASSUME NEW mm \in Machines, NEW j \in 1..Len(log'), NowAhead(mm, j)
        PROVE  \/ failed'
               \/ handler'.pc = "sync" /\ handler'.at = j
               \/ "space" \in Faults /\ NowAwaited(j)
    <3>1. CASE j = Len(log')
      <4>1. rec.raw
        BY <2>2, <2>4, <3>1 DEF NowAhead, Of
      <4> QED  BY <2>1, <2>3, <3>1, <4>1
    <3>2. CASE j # Len(log')
      BY <1>4, <2>2, <2>4, <3>2 DEF NowAhead
    <3> QED  BY <3>1, <3>2
  <2> QED  BY <2>4, AheadAfter
<1> QED  BY <1>5, <1>6, HandleParts

(* The session puts no reading behind its machine's state.                 *)
LEMMA SessionAhead ==
  ASSUME TypeInv, RunInv, AheadInv, AgeInv,
         "space" \in Faults => OneASecond /\ SettledInv, Network \/ Deliver \/ Acknowledge
  PROVE  AheadInv'
<1>1. feed' = feed /\ UNCHANGED <<processVars, journalVars>>
  BY DEF Network, Connect, ConnectionLost, AckArrives, Age, Deliver, Acknowledge, brokerVars
<1>2. /\ owed \subseteq Publications /\ acks \subseteq Publications /\ Publications \subseteq Nat \ {0}
      /\ horizon \in Nat /\ sent \in Nat /\ handler.msg \in Nat /\ Len(log) \in Nat
  BY FeedTyped DEF TypeInv, TypeOK
<1>3. horizon <= horizon' /\ horizon' \in Nat
  <2>1. \A i \in owed : feed[i].time \in Nat
    BY <1>2, FeedTyped DEF Observation
  <2>2. horizon' = horizon \/ \E i \in owed : horizon < feed[i].time /\ horizon' = feed[i].time
    BY DEF Network, Connect, ConnectionLost, AckArrives, Age, Deliver, Acknowledge, brokerVars
  <2> QED  BY <1>2, <2>1, <2>2
<1>4. MovesOn /\ states' = states /\ log' = log /\ up' = up /\ failed' = failed
  BY <1>1 DEF MovesOn, processVars, journalVars
<1>5. \A m, j : NowAhead(m, j) <=> Ahead(m, j)
  BY <1>4 DEF NowAhead, Ahead, NowOf, Of
<1>6. (handler'.at = handler.at /\ handler'.pc = handler.pc) \/ handler.pc # "sync"
  <2>1. CASE Connect
    BY <2>1 DEF Connect, TypeInv
  <2>2. CASE Deliver
    <3>1. handler' = handler \/ handler.msg = 0
      BY <2>2 DEF Deliver
    <3> QED  BY <3>1 DEF TypeInv
  <2>3. CASE Acknowledge
    BY <2>3 DEF Acknowledge
  <2> QED  BY <2>1, <2>2, <2>3 DEF Network, ConnectionLost, AckArrives, Age
<1>7. SUFFICES ASSUME NEW m \in Machines, NEW j \in 1..Len(log), Ahead(m, j), Awaited(j), "space" \in Faults
               PROVE  NowAwaited(j)
  BY <1>4, <1>5, <1>6, AheadAfter DEF AheadInv
<1>8. OneASecond /\ SettledInv /\ log[j].obs \notin Ignored /\ log[j].obs.time \in Nat
  BY <1>7, RecordTyped DEF RunInv
<1>9. \A k \in owed : Settled(feed[k]) => NowSettled(feed[k])
  <2>1. \A k \in owed : feed[k] \in Range(feed)
    BY <1>2 DEF Range, Publications
  <2> QED  BY <1>3, <1>4, <1>8, <2>1, SettledStays
<1>10. CASE Connect \/ ConnectionLost \/ Age
  <2>1. /\ owed' = owed /\ acks' \subseteq acks /\ sent' \in {0, sent}
        /\ handler'.msg = handler.msg /\ handler'.pc = handler.pc
    BY <1>10 DEF Connect, ConnectionLost, Age, Offline, brokerVars, linkVars, TypeInv
  <2> QED  BY <1>1, <1>3, <1>4, <1>7, <1>8, <2>1, AwaitedStays
<1>11. CASE "late" \in Faults /\ log[j].obs.time <= horizon /\ ~Deliver
  <2>1. \/ handler' = handler \/ handler'.pc = "idle"
        \/ (handler'.msg = handler.msg /\ handler'.pc = handler.pc)
    BY <1>11 DEF Network, Connect, ConnectionLost, AckArrives, Age, Acknowledge, Idle, TypeInv
  <2> QED  BY <1>1, <1>2, <1>3, <1>4, <1>7, <1>8, <1>11, <2>1
           DEF NowAwaited, Awaited, Observed, Behind, NowBehind
<1>12. ASSUME NEW i \in owed \ acks, feed[i] = log[j].obs, sent < i \/ handler.msg = i, handler.msg <= i,
              \A k \in owed : k < i => Settled(feed[k]), AckArrives \/ Acknowledge
       PROVE  NowAwaited(j)
  <2>1. i \in Nat \ {0} /\ log'[j].obs = feed'[i]
    BY <1>1, <1>2, <1>4, <1>12
  <2>2. \A k \in owed' : k < i => NowSettled(feed'[k])
    BY <1>1, <1>9, <1>12 DEF AckArrives, Acknowledge, brokerVars
  <2>3. CASE AckArrives
    <3>1. acks # {} /\ owed' = owed \ {Min(acks)} /\ acks' \subseteq acks /\ sent' = sent /\ handler' = handler
      BY <2>3 DEF AckArrives
    <3>2. Min(acks) \in acks
      BY <1>2, <3>1, LeastPublication
    <3>3. i \in owed' \ acks'
      BY <1>12, <3>1, <3>2
    <3>4. handler'.pc = "lookup" /\ feed'[handler'.msg].machine = log'[j].obs.machine
       => \/ NowBehind(feed'[handler'.msg]) \/ feed'[handler'.msg] = log'[j].obs
          \/ "late" \in Faults /\ log'[j].obs.time <= feed'[handler'.msg].time
      BY <1>1, <1>4, <1>7, <3>1 DEF Awaited, Observed, Behind, NowBehind
    <3> QED  BY <1>12, <2>1, <2>2, <3>1, <3>3, <3>4 DEF NowAwaited
  <2>4. CASE Acknowledge
    <3>1. /\ handler.pc = "done" /\ handler' = Idle /\ owed' = owed /\ sent' = sent
          /\ acks' \subseteq acks \cup {handler.msg}
      BY <2>4 DEF Acknowledge, brokerVars
    <3>2. handler'.pc = "idle" /\ handler'.msg = 0
      BY <3>1, HandlerAfter
    <3>3. CASE i = handler.msg
      <4>1. Settled(log[j].obs)
        BY <1>8, <1>12, <3>1, <3>3 DEF SettledInv, Observed
      <4>2. "late" \in Faults /\ log[j].obs.time <= horizon
        BY <1>7, <4>1, AheadNotSettled
      <4> QED  BY <1>2, <1>3, <1>4, <1>8, <3>2, <4>2 DEF NowAwaited
    <3>4. CASE i # handler.msg
      <4>1. i \in owed' \ acks' /\ sent' < i /\ handler'.msg <= i
        BY <1>12, <2>1, <3>1, <3>2, <3>4
      <4> QED  BY <2>1, <2>2, <3>2, <4>1 DEF NowAwaited
    <3> QED  BY <3>3, <3>4
  <2> QED  BY <1>12, <2>3, <2>4
<1>13. CASE Deliver
  <2> DEFINE n == Min(ToSend)
  <2>1. /\ owed' = owed /\ horizon' = horizon /\ ToSend # {}
        /\ \/ handler.msg # 0 /\ Offline /\ handler' = handler
           \/ /\ handler.msg = 0 /\ feed[n] \in Ignored
              /\ sent' = n /\ acks' = acks \cup {n} /\ handler' = handler
           \/ /\ handler.msg = 0 /\ sent' = n /\ acks' = acks
              /\ handler' = [msg |-> n, at |-> 0, same |-> TRUE,
                             pc |-> IF feed[n].time <= horizon THEN "stale" ELSE "lookup"]
    BY <1>13 DEF Deliver, brokerVars
  <2>2. ToSend \in SUBSET Nat /\ ToSend \subseteq owed
    BY <1>2 DEF ToSend
  <2>3. n \in ToSend /\ \A k \in ToSend : n <= k
    BY <2>1, <2>2, MinIsLeast
  <2>4. n \in owed /\ n \in Nat /\ n # 0 /\ feed[n] \in Observation
    BY <1>2, <2>2, <2>3, FeedTyped
  <2> HIDE DEF n
  <2>5. CASE handler.msg # 0 /\ Offline /\ handler' = handler
    <3>1. acks' \subseteq acks /\ sent' = 0
      BY <2>5 DEF Offline
    <3> QED  BY <1>1, <1>3, <1>4, <1>7, <1>8, <2>1, <2>5, <3>1, AwaitedStays
  <2>6. CASE handler.msg = 0 /\ sent' = n
    <3>1. handler.pc = "idle"
      BY <2>6 DEF TypeInv
    <3>2. ASSUME handler'.pc = "lookup"
          PROVE  handler'.msg = n /\ feed[n].time > horizon /\ feed[n].time \in Nat
      <4>1. handler' # handler
        BY <3>1, <3>2
      <4>2. handler' = [msg |-> n, at |-> 0, same |-> TRUE,
                        pc |-> IF feed[n].time <= horizon THEN "stale" ELSE "lookup"]
        BY <2>1, <2>6, <4>1
      <4> QED  BY <1>2, <2>4, <3>2, <4>2 DEF Observation
    <3>3. CASE "late" \in Faults /\ log[j].obs.time <= horizon
      <4>1. handler'.pc = "lookup" => "late" \in Faults /\ log'[j].obs.time <= feed'[handler'.msg].time
        BY <1>1, <1>2, <1>4, <1>8, <3>2, <3>3
      <4> QED  BY <1>4, <2>1, <3>3, <4>1 DEF NowAwaited
    <3>4. ASSUME NEW i \in owed \ acks, feed[i] = log[j].obs, sent < i \/ handler.msg = i, handler.msg <= i,
                 \A k \in owed : k < i => Settled(feed[k])
          PROVE  NowAwaited(j)
      <4>1. i \in Nat \ {0} /\ sent < i /\ n <= i
        BY <1>2, <2>3, <2>6, <3>4 DEF ToSend
      <4>2. \A k \in owed' : k < i => NowSettled(feed'[k])
        BY <1>1, <1>9, <2>1, <3>4
      <4>3. log'[j].obs = feed'[i]
        BY <1>1, <1>4, <3>4
      <4>4. CASE feed[n] \in Ignored /\ acks' = acks \cup {n} /\ handler' = handler
        <5>1. i # n /\ sent' < i /\ handler'.msg <= i /\ i \in owed' \ acks'
          BY <1>8, <2>1, <2>4, <2>6, <3>4, <4>1, <4>4
        <5> QED  BY <3>1, <4>2, <4>3, <4>4, <5>1 DEF NowAwaited
      <4>5. CASE /\ acks' = acks
                 /\ handler' = [msg |-> n, at |-> 0, same |-> TRUE,
                                pc |-> IF feed[n].time <= horizon THEN "stale" ELSE "lookup"]
        <5>1. handler'.msg = n /\ i \in owed' \ acks'
          BY <2>1, <3>4, <4>5
        <5>2. CASE n = i
          BY <1>1, <2>4, <4>1, <4>2, <4>3, <5>1, <5>2 DEF NowAwaited
        <5>3. CASE n # i
          <6>1. n < i /\ sent' < i
            BY <2>4, <2>6, <4>1, <5>3
          <6>2. Settled(feed[n])
            BY <2>4, <3>4, <6>1
          <6>3. handler'.pc = "lookup" => NowBehind(feed'[handler'.msg])
            BY <1>1, <1>2, <1>4, <3>2, <6>2 DEF Settled, Behind, NowBehind
          <6> QED  BY <4>1, <4>2, <4>3, <5>1, <6>1, <6>3 DEF NowAwaited
        <5> QED  BY <5>2, <5>3
      <4> QED  BY <2>1, <2>4, <2>6, <4>4, <4>5
    <3> QED  BY <1>7, <3>3, <3>4 DEF Awaited
  <2> QED  BY <2>1, <2>5, <2>6
<1> QED  BY <1>7, <1>10, <1>11, <1>12, <1>13 DEF Network, Awaited

(* A reading that is accepted is the last of its machine.                  *)
LEMMA AcceptedAhead ==
  ASSUME TypeInv, RunInv, InOrder, SyncTime, AheadInv,
         "space" \in Faults => OneASecond, Accepted
  PROVE  AheadInv'
<1> DEFINE at == handler.at
           n  == Observed.machine
<1>1. /\ handler.pc = "sync" /\ UNCHANGED <<feed, horizon, owed, sent, acks, up, failed, log>>
  BY DEF Accepted, Proceed, brokerVars, linkVars, journalVars
<1>2. at = Len(log) /\ at \in 1..Len(log) /\ log[at].obs = Observed /\ Len(log) \in Nat /\ horizon \in Nat
  BY <1>1 DEF RunInv, TypeInv, TypeOK
<1>3. /\ MovesOn /\ n \in Machines /\ handler'.pc = "done" /\ handler'.msg = handler.msg
      /\ log[at].raw => states' = [states EXCEPT ![n] = StateAt(at)]
      /\ ~log[at].raw => states' = states
  BY AcceptedMoves DEF Observation
<1>4. states \in [Machines -> State]
  BY DEF TypeInv
<1>5. ASSUME NEW m \in Machines, NEW j \in 1..Len(log), Of(m, j), NowAhead(m, j)
      PROVE  Ahead(m, j) /\ (log[at].raw => m # n)
  <2>1. CASE log[at].raw /\ m = n
    <3>1. states'[m].time = log[at].obs.time /\ Of(m, at)
      BY <1>2, <1>3, <1>4, <2>1, KnownAt DEF Of
    <3>2. log[j].obs.time <= log[at].obs.time /\ log[j].obs.time \in Nat /\ log[at].obs.time \in Nat
      <4>1. log[j].obs.time \in Nat /\ log[at].obs.time \in Nat
        BY <1>2, RecordTyped
      <4>2. j = at \/ j < at
        BY <1>2
      <4> QED  BY <1>2, <1>5, <3>1, <4>1, <4>2 DEF InOrder
    <3> QED  BY <1>1, <1>5, <3>1, <3>2 DEF NowAhead
  <2>2. CASE ~(log[at].raw /\ m = n)
    <3>1. states'[m] = states[m]
      BY <1>3, <1>4, <2>2
    <3>2. Ahead(m, j)
      BY <1>1, <1>5, <3>1 DEF NowAhead, Ahead
    <3> QED  BY <2>2, <3>2
  <2> QED  BY <2>1, <2>2
<1>6. ASSUME NEW m \in Machines, NEW j \in 1..Len(log'), NowAhead(m, j), up'
      PROVE  failed' \/ ("space" \in Faults /\ NowAwaited(j))
  <2>1. j \in 1..Len(log) /\ Of(m, j)
    BY <1>1, <1>6 DEF NowAhead, NowOf, Of
  <2>2. Ahead(m, j) /\ (log[at].raw => m # n)
    BY <1>5, <1>6, <2>1
  <2>3. j # at
    BY <1>2, <2>1, <2>2 DEF Of
  <2>4. failed \/ ("space" \in Faults /\ Awaited(j))
    BY <1>1, <1>6, <2>1, <2>2, <2>3 DEF AheadInv
  <2>5. CASE "space" \in Faults /\ Awaited(j)
    <3>1. log'[j] = log[j] /\ acks' \subseteq acks /\ sent' \in {0, sent} /\ horizon <= horizon' /\ horizon' \in Nat
      BY <1>1, <1>2
    <3> QED  BY <1>1, <1>3, <2>1, <2>5, <3>1, AwaitedStays
  <2> QED  BY <1>1, <2>4, <2>5
<1> QED  BY <1>6, AheadAfter

(* The state open() finds is of the last record.                           *)
LEMMA StartAhead ==
  ASSUME TypeInv, SnapshotInv', InOrder, Start  PROVE AheadInv'
<1>1. /\ UNCHANGED log /\ up' /\ latest' = Recovered(Len(log))
      /\ states' = [m \in Machines |-> StateAt(latest'[m])]
  BY DEF Start
<1>2. ASSUME NEW m \in Machines, NEW j \in 1..Len(log'), NowAhead(m, j)  PROVE FALSE
  <2> DEFINE r == latest'[m]
  <2>1. r \in 0..Len(log) /\ states'[m] = StateAt(r)
    BY <1>1, RecoveredTyped DEF LogIndex
  <2>2. r # 0
    BY <1>2, <2>1 DEF NowAhead, StateAt
  <2>3. r \in 1..Len(log) /\ states'[m].time = log[r].obs.time
    BY <2>1, <2>2, KnownAt
  <2>4. Of(m, r) /\ j <= r /\ Of(m, j) /\ j \in 1..Len(log)
    BY <1>1, <1>2, <2>2 DEF SnapshotInv, NowAhead, NowOf, Of
  <2>5. log[j].obs.time \in Nat /\ log[r].obs.time \in Nat
    BY <2>3, <2>4, RecordTyped
  <2>6. log[j].obs.time <= log[r].obs.time
    BY <2>3, <2>4, <2>5 DEF InOrder
  <2> QED  BY <1>1, <1>2, <2>3, <2>5, <2>6 DEF NowAhead
<1> QED  BY <1>2, AheadAfter

(* Every step keeps what is ahead within bounds.                           *)
LEMMA NextAhead ==
  ASSUME TypeInv, RunInv, SnapshotInv, SnapshotInv', InOrder, SyncTime, AgeInv, AheadInv,
         "space" \in Faults => OneASecond /\ SettledInv, [Next]_vars
  PROVE  AheadInv'
<1>1. CASE Handle \/ Hydrate
  BY <1>1, HandleAhead
<1>2. CASE Network \/ Admission
  BY <1>2, SessionAhead DEF Admission
<1>3. CASE Accepted
  BY <1>3, AcceptedAhead
<1>4. CASE QueryFails
  <2>1. /\ handler.pc # "sync" /\ handler' = Idle /\ Offline
        /\ UNCHANGED <<feed, horizon, owed, up, failed, states, log>> /\ horizon \in Nat
    BY <1>4 DEF QueryFails, Reject, AfterRejection, brokerVars, journalVars, TypeInv, TypeOK
  <2>2. handler'.pc = "idle" /\ handler'.msg = 0 /\ sent' = 0 /\ acks' \subseteq acks
    BY <2>1, HandlerAfter DEF Offline
  <2>3. MovesOn
    BY <2>1 DEF MovesOn
  <2>4. ASSUME NEW m \in Machines, NEW j \in 1..Len(log'), NowAhead(m, j), up'
        PROVE  failed' \/ ("space" \in Faults /\ NowAwaited(j))
    <3>1. Ahead(m, j) /\ j \in 1..Len(log) /\ log'[j] = log[j]
      BY <2>1, <2>4 DEF NowAhead, Ahead, NowOf, Of
    <3>2. failed \/ ("space" \in Faults /\ Awaited(j))
      BY <2>1, <2>4, <3>1 DEF AheadInv
    <3>3. CASE "space" \in Faults /\ Awaited(j)
      BY <2>1, <2>2, <2>3, <3>1, <3>3, AwaitedStays
    <3> QED  BY <2>1, <3>2, <3>3
  <2> QED  BY <2>4, AheadAfter
<1>5. CASE SyncRejected
  <2>1. failed'
    BY <1>5 DEF SyncRejected
  <2> QED  BY <2>1 DEF AheadInv
<1>6. CASE Forget \/ Storage \/ UNCHANGED vars
  <2>1. /\ UNCHANGED <<feed, horizon, owed, sent, acks, handler, states, log, up>>
    BY <1>6 DEF Forget, Storage, Fsync, Release, vars, brokerVars, linkVars, processVars, journalVars
  <2>2. failed => failed'
    BY <1>6 DEF Forget, Storage, Fsync, Release, vars, processVars
  <2> QED  BY <2>1, <2>2 DEF AheadInv, Ahead, Of, Awaited, Observed, Settled, Behind
<1>7. CASE Start
  BY <1>7, StartAhead
<1>8. CASE Shutdown \/ ProcessCrash \/ PowerLoss
  <2>1. ~up'
    BY <1>8 DEF Shutdown, ProcessCrash, PowerLoss, Ends
  <2> QED  BY <2>1 DEF AheadInv
<1> QED  BY <1>1, <1>2, <1>3, <1>4, <1>5, <1>6, <1>7, <1>8 DEF Next, Processor, Process

(* The readings of a machine stay in the order of its clock.               *)
LEMMA NextInOrder ==
  ASSUME TypeInv, RunInv, SnapshotInv, InOrder, AheadInv, [Next]_vars  PROVE InOrder'
<1>1. CASE Handle \/ Hydrate
  <2>1. CASE UNCHANGED journalVars
    BY <2>1 DEF InOrder, Of, journalVars
  <2>2. CASE \E rec \in LogEntry :
               /\ Appended(rec) /\ rec.obs = Observed /\ ~failed
               /\ rec.raw => Adds(BaselineOf(Observed.machine), Observed)
    <3>1. PICK rec \in LogEntry :
               /\ Appended(rec) /\ rec.obs = Observed /\ ~failed
               /\ rec.raw => Adds(BaselineOf(Observed.machine), Observed)
      BY <2>2
    <3>2. /\ Len(log) \in Nat /\ Len(log') = Len(log) + 1 /\ log'[Len(log')] = rec
          /\ \A m, j : NowOf(m, j) <=> Of(m, j) \/ (j = Len(log') /\ rec.raw /\ rec.obs.machine = m)
          /\ \A m, j : Of(m, j) => j \in 1..Len(log) /\ log'[j] = log[j]
      BY <3>1, OfAppended
    <3>3. ASSUME rec.raw, NEW j \in 1..Len(log), Of(Observed.machine, j)
          PROVE  log[j].obs.time <= Observed.time
      BY <1>1, <3>1, <3>3, AddedLast
    <3>4. ASSUME NEW m \in Machines, NEW i \in 1..Len(log'), NEW j \in 1..Len(log'),
                 NowOf(m, i), NowOf(m, j), i < j
          PROVE  log'[i].obs.time <= log'[j].obs.time
      <4>1. Of(m, i) /\ i \in 1..Len(log) /\ log'[i] = log[i]
        BY <3>2, <3>4
      <4>2. CASE Of(m, j)
        BY <3>2, <3>4, <4>1, <4>2 DEF InOrder
      <4>3. CASE j = Len(log') /\ rec.raw /\ rec.obs.machine = m
        BY <3>1, <3>2, <3>3, <4>1, <4>3
      <4> QED  BY <3>2, <3>4, <4>2, <4>3
    <3> QED  BY <3>4 DEF InOrder, Of, NowOf
  <2> QED  BY <1>1, <2>1, <2>2, HandleParts
<1>2. CASE Network \/ Admission \/ QueryFails \/ Accepted \/ SyncRejected \/ Forget \/ Storage \/ Start \/ UNCHANGED vars
  <2>1. log' = log
    BY <1>2
    DEF Network, Connect, ConnectionLost, AckArrives, Age, Admission, Deliver, Acknowledge,
        QueryFails, Accepted, SyncRejected, Forget, Storage, Fsync, Release, Start, vars, journalVars
  <2> QED  BY <2>1 DEF InOrder, Of
<1>3. CASE Shutdown \/ ProcessCrash \/ PowerLoss
  <2>1. PICK n \in durable..Len(log) : Len(log') = n /\ \A j \in 1..n : log'[j] = log[j]
    BY <1>3, EndsParts
  <2>2. 1..n \subseteq 1..Len(log)
    BY <2>1 DEF TypeInv, TypeOK, LogIndex
  <2> QED  BY <2>1, <2>2 DEF InOrder, Of
<1> QED  BY <1>1, <1>2, <1>3 DEF Next, Processor, Process

(* The state does not change while a reading waits for its fsync, and       *)
(* nothing ages where nothing is late.                                     *)
LEMMA NextSyncTime ==
  ASSUME TypeInv, RunInv, SyncTime, AgeInv, [Next]_vars  PROVE SyncTime' /\ AgeInv'
<1>1. AgeInv'
  <2>1. horizon' = horizon \/ "late" \in Faults
    BY DEF Next, Network, Connect, ConnectionLost, AckArrives, Age, Admission, Deliver, Acknowledge,
           Processor, Handle, Hydrate, QueryFails, Accepted, SyncRejected, Forget, Storage, Fsync,
           Release, Process, Start, Shutdown, ProcessCrash, PowerLoss, Ends, vars, brokerVars
  <2> QED  BY <2>1 DEF AgeInv
<1>2. ASSUME handler'.pc # "sync"  PROVE SyncTime'
  BY <1>2 DEF SyncTime
<1>3. CASE Handle \/ Hydrate
  <2> DEFINE m == Observed.machine
             s == BaselineOf(m)
  <2>1. SUFFICES ASSUME handler'.pc = "sync", log'[handler'.at].raw
                 PROVE  LET t == states'[feed'[handler'.msg].machine]
                        IN t # Unknown /\ t.time <= feed'[handler'.msg].time
    BY <1>1 DEF SyncTime, Observed
  <2>2. handler'.msg = handler.msg /\ feed' = feed /\ Observed = feed[handler.msg]
    BY <1>3, <2>1, HandleParts, HandlerAfter
  <2>3. PICK rec \in LogEntry :
          /\ Appended(rec) /\ handler'.at = Len(log')
          /\ rec.raw => Adds(s, Observed)
    BY <1>3, <2>1, HandleParts, HandlerAfter
  <2>4. rec.raw
    BY <2>1, <2>3, OfAppended
  <2>5. states'[m] = s /\ s \in State /\ Observed \in Observation
    BY <1>3, HandleParts DEF TypeInv
  <2>6. s # Unknown /\ ~(Observed.time < s.time)
    BY <2>3, <2>4 DEF Adds, Older
  <2>7. s.time <= Observed.time
    BY <2>5, <2>6 DEF State, Observation
  <2> QED  BY <2>2, <2>5, <2>6, <2>7
<1>4. CASE Accepted
  BY <1>1, <1>2, <1>4, AcceptedMoves
<1>5. CASE QueryFails \/ SyncRejected \/ Acknowledge \/ Process
  <2>1. handler' = Idle
    BY <1>5 DEF RunInv, QueryFails, SyncRejected, Acknowledge, Reject, AfterRejection, Process, Start,
                Shutdown, ProcessCrash, PowerLoss, Ends
  <2> QED  BY <1>1, <1>2, <2>1, HandlerAfter
<1>6. CASE Forget \/ Network \/ Storage \/ Deliver \/ UNCHANGED vars
  <2>1. UNCHANGED <<feed, states, log>>
    BY <1>6 DEF Forget, Network, Connect, ConnectionLost, AckArrives, Age, Deliver,
                Storage, Fsync, Release, vars, brokerVars, processVars, journalVars
  <2>2. \/ handler'.pc = handler.pc /\ handler'.at = handler.at /\ handler'.msg = handler.msg
        \/ handler'.pc \in {"stale", "lookup"}
    <3>1. CASE Deliver
      <4>1. \/ handler' = handler
            \/ \E pc \in {"stale", "lookup"} : handler' = [msg |-> Min(ToSend), at |-> 0, same |-> TRUE, pc |-> pc]
        BY <3>1 DEF Deliver
      <4> QED  BY <4>1
    <3>2. CASE Connect
      BY <3>2 DEF Connect, TypeInv
    <3> QED  BY <1>6, <3>1, <3>2 DEF Forget, Network, ConnectionLost, AckArrives, Age, Storage, Fsync, Release, vars
  <2> QED  BY <1>1, <1>2, <2>1, <2>2 DEF SyncTime, Observed
<1> QED  BY <1>1, <1>3, <1>4, <1>5, <1>6 DEF Next, Admission, Processor

(* With the journal between the crashes in order, the state of a machine    *)
(* known, and what was written in spite of a refusal sent again first, no   *)
(* reading is recorded behind a later one.                                 *)
OrderInv ==
  /\ RunInv /\ SnapshotInv /\ InOrder /\ SyncTime /\ AgeInv /\ AheadInv
  /\ "space" \in Faults => SettledInv

(* At first nothing is recorded.                                           *)
LEMMA InitOrder == Init => OrderInv
<1> SUFFICES ASSUME Init  PROVE OrderInv
  OBVIOUS
<1>1. log = <<>> /\ Len(log) = 0 /\ handler = Idle /\ ~up /\ ~online /\ sent = 0 /\ acks = {} /\ seen = {}
  BY DEF Init
<1>2. handler.pc = "idle" /\ handler.msg = 0 /\ handler.at = 0
  BY <1>1 DEF Idle
<1>3. \A m \in Machines : saved[m] = 0
  BY DEF Init
<1>4. SettledInv
  <2>1. TypeInv
    BY InitTyped
  <2>2. \A k \in owed : ~(k <= 0) /\ ~(k < 0)
    BY <2>1, FeedTyped DEF TypeInv, TypeOK
  <2> QED  BY <1>1, <1>2, <2>2 DEF SettledInv
<1> QED  BY <1>1, <1>2, <1>3, <1>4 DEF Init, OrderInv, RunInv, AskedInv, SnapshotInv, InOrder, SyncTime, AgeInv, AheadInv

(* Every step keeps the order; each part has its lemma above.              *)
LEMMA NextOrder ==
  ASSUME TypeInv, OrderInv, "space" \in Faults => OneASecond, [Next]_vars  PROVE OrderInv'
<1>1. RunInv'
  BY NextRuns DEF OrderInv
<1>2. SnapshotInv'
  BY NextSnapshot DEF OrderInv
<1>3. InOrder'
  BY NextInOrder DEF OrderInv
<1>4. SyncTime' /\ AgeInv'
  BY NextSyncTime DEF OrderInv
<1>5. AheadInv'
  BY <1>2, NextAhead DEF OrderInv
<1>6. "space" \in Faults => SettledInv'
  BY NextSettled DEF OrderInv
<1> QED  BY <1>1, <1>2, <1>3, <1>4, <1>5, <1>6 DEF OrderInv

(* Two records of a machine are a pair of TimesInOrder.                    *)
LEMMA OrderIsTimes ==
  ASSUME TypeInv, InOrder  PROVE TimesInOrder
<1> SUFFICES ASSUME NEW m \in Machines, NEW p \in Pairs(m)
             PROVE  log[p[1]].obs.time <= log[p[2]].obs.time
  BY DEF TimesInOrder
<1>1. /\ p[1] \in 1..Len(log) /\ p[2] \in 1..Len(log) /\ p[1] < p[2] /\ Of(m, p[1]) /\ Of(m, p[2])
  BY DEF Pairs, RawIn, Of
<1> QED  BY <1>1 DEF InOrder

(* handleMessage() keeps aside what is older than the machine's state, and *)
(* so a machine's readings are in the journal in the order of its clock,   *)
(* whatever crashes, replays and failures have done to that state.  Where  *)
(* a rotation can fail after the write, it takes devices that do not send  *)
(* two different readings in one second.                                   *)
THEOREM RecordedInOrder ==
  ASSUME "space" \in Faults => OneASecond
  PROVE  Spec => []TimesInOrder
<1>1. TypeInv /\ OrderInv /\ [Next]_vars => TypeInv' /\ OrderInv'
  BY NextTyped, NextOrder
<1>2. TypeInv /\ OrderInv => TimesInOrder
  BY OrderIsTimes DEF OrderInv
<1> QED  BY <1>1, <1>2, InitTyped, InitOrder, PTL DEF Spec

-----------------------------------------------------------------------------
(* A crash can leave a machine's state behind its journal.                 *)
Uneven == {"power", "space"} \cap Faults # {}

(* What the theorems about parts suppose of the counters.                  *)
Countable ==
  /\ NeverReset
  /\ Uneven => Forward
  /\ "space" \in Faults => OneASecond /\ "late" \notin Faults

(* No count of machine m known at time t or later is below b.              *)
Below(f, m, t, b) ==
  \A o \in Range(f) : o.machine = m /\ t <= o.time /\ o.count # NoCount => b <= o.count

(* The baseline of a state is no more than the counts from its time on, and *)
(* the count of its own reading.                                           *)
GoodState(f, m, s) ==
  /\ Uneven => Below(f, m, s.time, s.base)
  /\ "space" \in Faults =>
       \A o \in Range(f) : o.machine = m /\ o.time = s.time /\ o.count # NoCount => s.base = o.count

(* Without a power loss, state.json and the files know every machine that   *)
(* has a reading.                                                          *)
FoundInv ==
  "power" \notin Faults => \A m \in Machines : \A j \in 1..Len(log) : Of(m, j) =>
    /\ saved[m] # 0 \/ \E i \in (done + 1)..Len(log) : Of(m, i)
    /\ up => latest[m] # 0

(* Baselines rise from reading to reading; where a crash can lose some,     *)
(* they are the counts themselves.                                         *)
BaseInv ==
  /\ \A m \in Machines : \A i, j \in 1..Len(log) : Of(m, i) /\ Of(m, j) /\ i < j =>
       log[i].base <= log[j].base \/ (Uneven /\ log[j].base = NoCount)
  /\ Uneven => \A m \in Machines : \A j \in 1..Len(log) : Of(m, j) =>
       /\ log[j].obs.count # NoCount => log[j].base = log[j].obs.count
       /\ Below(feed, m, log[j].obs.time, log[j].base)
  /\ up => \A m \in Machines : GoodState(feed, m, states[m])

(* What a machine's state has booked: the parts of every reading that is    *)
(* not ahead of it.                                                        *)
BookedInv ==
  up => \A m \in Machines : \A j \in 1..Len(log) : Of(m, j) /\ states[m] # Unknown =>
    \/ log[j].base <= states[m].base
    \/ Uneven /\ states[m].base = NoCount
    \/ failed
    \/ handler.pc = "sync" /\ handler.at = j
    \/ "space" \in Faults /\ Ahead(m, j) /\ log[j].obs.count # NoCount

(* CountedOnce and ReplayAddsNothing, of one pair of readings.             *)
Apart ==
  \A m \in Machines : \A i, j \in 1..Len(log) : Of(m, i) /\ Of(m, j) /\ i < j =>
    \/ Parts(log[i]) \cap Parts(log[j]) = {}
    \/ "space" \in Faults /\ log[i].obs = log[j].obs

CountInv == FoundInv /\ BaseInv /\ BookedInv /\ Apart

(* What a reading adds to a baseline, where counters are never reset.      *)
LEMMA Adding ==
  ASSUME NeverReset, TypeInv, NEW s \in State, NEW obs \in Range(feed), NEW rec,
         rec = RawRecord(obs, StepOf(s, obs))
  PROVE  /\ s.base <= rec.base /\ rec.base \in Int
         /\ obs.count = NoCount => rec.base = s.base
         /\ obs.count # NoCount => obs.count <= rec.base
         /\ obs.count # NoCount /\ s.base <= obs.count => rec.base = obs.count
         /\ obs.count # NoCount /\ ~(s.base <= obs.count) => rec.base = s.base
         /\ \A x \in Parts(rec) : s.base # NoCount /\ s.base < x
<1> DEFINE c == obs.count
           gap == IF s.time = 0 THEN 0 ELSE obs.time - s.time
           d == PartsDelta(s.base, c, gap)
<1>1. s.base \in Int /\ c \in Int /\ (c = NoCount \/ 2 < c) /\ gap \in Int
  <2>1. obs \in Observation
    BY FeedTyped
  <2>2. c = NoCount \/ 2 < c
    BY DEF NeverReset, Range, TypeInv, TypeOK, SmallCount
  <2> QED  BY <2>1, <2>2 DEF State, Observation, NoCount
<1>2. StepOf(s, obs) = PartsCounterStep(s.base, c, gap)
  BY DEF StepOf
<1>3. /\ rec.base = StepOf(s, obs).baseline /\ rec.delta = StepOf(s, obs).delta
      /\ Parts(rec) = (rec.base - rec.delta + 1)..rec.base
  BY DEF RawRecord, Parts
<1>4. s.base <= c => d \in {0, c - s.base}
  BY <1>1 DEF PartsDelta
<1> HIDE DEF c, gap, d
<1>5. CASE c = NoCount \/ c < s.base
  <2>1. PartsCounterStep(s.base, c, gap) = [delta |-> 0, baseline |-> s.base]
    BY <1>1, <1>5 DEF PartsCounterStep, SmallCount, NoCount
  <2>2. rec.base = s.base /\ rec.delta = 0
    BY <1>2, <1>3, <2>1
  <2>3. Parts(rec) = {}
    BY <1>1, <1>3, <2>2
  <2> QED  BY <1>1, <1>5, <2>2, <2>3 DEF c, NoCount
<1>6. CASE c # NoCount /\ s.base <= c
  <2>1. PartsCounterStep(s.base, c, gap) = [delta |-> IF s.base = NoCount THEN 0 ELSE d, baseline |-> c]
    BY <1>1, <1>6 DEF PartsCounterStep, SmallCount, d
  <2>2. rec.base = c /\ rec.delta = IF s.base = NoCount THEN 0 ELSE d
    BY <1>2, <1>3, <2>1
  <2>3. \A x \in Parts(rec) : s.base # NoCount /\ s.base < x
    <3>1. CASE rec.delta = 0
      <4>1. Parts(rec) = {}
        BY <1>1, <1>3, <2>2, <3>1
      <4> QED  BY <4>1
    <3>2. CASE rec.delta # 0
      <4>1. rec.delta = c - s.base /\ s.base # NoCount
        BY <1>4, <1>6, <2>2, <3>2
      <4>2. Parts(rec) = (s.base + 1)..c
        BY <1>1, <1>3, <2>2, <4>1
      <4> QED  BY <1>1, <4>1, <4>2
    <3> QED  BY <3>1, <3>2
  <2> QED  BY <1>1, <1>6, <2>2, <2>3 DEF c
<1> QED  BY <1>1, <1>5, <1>6

(* The count of a reading is above no later one.                           *)
LEMMA ForwardBelow ==
  ASSUME Forward, TypeInv, NEW o \in Range(feed)
  PROVE  Below(feed, o.machine, o.time, o.count)
<1>1. SUFFICES ASSUME NEW p \in Range(feed), p.machine = o.machine, o.time <= p.time, p.count # NoCount
               PROVE  o.count <= p.count
  BY DEF Below
<1>2. o \in Observation /\ p \in Observation
  BY FeedTyped
<1>3. CASE o.count # NoCount
  BY <1>1, <1>3 DEF Forward, Range, TypeInv, TypeOK
<1>4. CASE o.count = NoCount
  BY <1>1, <1>2, <1>4 DEF Observation, NoCount
<1> QED  BY <1>3, <1>4

(* Nothing known is below all, and the states of the journal and of the     *)
(* database are what they should be.                                       *)
LEMMA UnknownGood ==
  ASSUME TypeInv, NEW m
  PROVE  GoodState(feed, m, Unknown) /\ GoodState(feed, m, NullState)
<1>1. \A o \in Range(feed) : o.time \in Nat \ {0} /\ (o.count # NoCount => o.count \in Nat)
  BY FeedTyped DEF Observation
<1>2. /\ Unknown.base = NoCount /\ NullState.base = NoCount /\ Unknown.time = -1 /\ NullState.time = 0
  BY DEF Unknown, NullState
<1> QED  BY <1>1, <1>2 DEF GoodState, Below, NoCount

(* The state of a record is good.                                          *)
LEMMA RecordGood ==
  ASSUME TypeInv, RunInv, BaseInv, Countable, NEW m \in Machines, NEW j \in 1..Len(log), Of(m, j)
  PROVE  GoodState(feed, m, StateAt(j))
<1>1. StateAt(j).time = log[j].obs.time /\ StateAt(j).base = log[j].base
  BY KnownAt
<1>2. Uneven => Below(feed, m, log[j].obs.time, log[j].base)
  BY DEF BaseInv
<1>3. ASSUME "space" \in Faults, NEW o \in Range(feed), o.machine = m, o.time = log[j].obs.time, o.count # NoCount
      PROVE  log[j].base = o.count
  <2>1. log[j].obs \in Range(feed) /\ log[j].obs.machine = m
    BY DEF RunInv, Of
  <2>2. log[j].obs = o
    BY <1>3, <2>1 DEF Countable, OneASecond, Range, TypeInv, TypeOK
  <2> QED  BY <1>3, <2>2 DEF BaseInv, Uneven
<1> QED  BY <1>1, <1>2, <1>3 DEF GoodState

(* What hydrate() answers is a good state: the count of the last row.      *)
LEMMA HydratedGood ==
  ASSUME TypeInv, RunInv, Countable, NEW m \in Machines
  PROVE  GoodState(feed, m, Hydrated(m))
<1>1. CASE Hydrated(m) = NullState
  BY <1>1, UnknownGood
<1>2. CASE Hydrated(m) # NullState
  <2>1. PICK last \in 1..done :
          /\ Of(m, last)
          /\ Hydrated(m) = [time |-> log[last].obs.time, print |-> NoPrint, base |-> log[last].obs.count]
    BY <1>2, HydratedIs
  <2> DEFINE o == log[last].obs
  <2>2. o \in Range(feed) /\ o.machine = m /\ Hydrated(m).time = o.time /\ Hydrated(m).base = o.count
    BY <2>1 DEF RunInv, Of
  <2> HIDE DEF o
  <2>3. Uneven => Below(feed, m, Hydrated(m).time, Hydrated(m).base)
    BY <2>2, ForwardBelow DEF Countable
  <2>4. ASSUME "space" \in Faults, NEW q \in Range(feed), q.machine = m, q.time = o.time
        PROVE  o.count = q.count
    BY <2>2, <2>4 DEF Countable, OneASecond, Range, TypeInv, TypeOK
  <2> QED  BY <2>2, <2>3, <2>4 DEF GoodState
<1> QED  BY <1>1, <1>2

(* The baseline of the reading in hand is good, and has booked the readings *)
(* of its machine.                                                         *)
LEMMA BaselineGood ==
  ASSUME TypeInv, OrderInv, BaseInv, Countable, Handle \/ Hydrate
  PROVE  GoodState(feed, Observed.machine, BaselineOf(Observed.machine))
<1>1. up /\ Observed.machine \in Machines
  BY HandleParts DEF OrderInv
<1>2. CASE handler.pc = "hydrate"
  BY <1>1, <1>2, HydratedGood DEF OrderInv, BaselineOf
<1>3. CASE handler.pc # "hydrate"
  BY <1>1, <1>3 DEF BaseInv, BaselineOf
<1> QED  BY <1>2, <1>3

(* The baseline of the reading in hand is no less than what the records of *)
(* its machine have booked up to, with the exceptions of BookedInv.        *)
LEMMA BaselineBooked ==
  ASSUME TypeInv, OrderInv, CountInv, Countable, Handle \/ Hydrate,
         BaselineOf(Observed.machine) # Unknown,
         NEW j \in 1..Len(log), Of(Observed.machine, j)
  PROVE  LET s == BaselineOf(Observed.machine)
         IN \/ log[j].base <= s.base
            \/ Uneven /\ s.base = NoCount
            \/ failed
            \/ "space" \in Faults /\ Ahead(Observed.machine, j) /\ log[j].obs.count # NoCount /\ handler.pc # "hydrate"
<1> DEFINE m == Observed.machine
           s == BaselineOf(m)
<1>1. up /\ m \in Machines /\ handler.pc # "sync"
  BY HandleParts DEF OrderInv
<1>2. CASE handler.pc # "hydrate"
  BY <1>1, <1>2 DEF CountInv, BookedInv, BaselineOf
<1>3. CASE handler.pc = "hydrate"
  <2>0. done \in 0..Len(log) /\ Len(log) \in Nat
    BY DEF TypeInv, TypeOK, LogIndex
  <2>1. s = Hydrated(m) /\ states[m] = Unknown
    BY <1>3 DEF OrderInv, RunInv, AskedInv, BaselineOf
  <2>2. latest[m] = 0 /\ j \in 1..done
    BY <1>1, <2>0, <2>1 DEF OrderInv, SnapshotInv
  <2>3. Uneven
    BY <1>1, <2>2 DEF CountInv, FoundInv, Uneven
  <2>4. PICK last \in 1..done :
          Of(m, last) /\ j <= last /\ Hydrated(m).base = log[last].obs.count
    BY <1>1, <2>2, HydratedIs
  <2>5. last \in 1..Len(log)
    BY <2>0, <2>4
  <2>6. CASE log[last].obs.count = NoCount
    BY <2>1, <2>3, <2>4, <2>6
  <2>7. CASE log[last].obs.count # NoCount
    <3>1. log[last].base = log[last].obs.count
      BY <1>1, <2>3, <2>4, <2>5, <2>7 DEF CountInv, BaseInv
    <3>2. j = last \/ j < last
      BY <2>0, <2>2, <2>4
    <3>3. log[j].base <= log[last].base
      BY <1>1, <2>4, <2>5, <2>7, <3>1, <3>2, RecordTyped DEF CountInv, BaseInv
    <3> QED  BY <2>1, <2>4, <3>1, <3>3
  <2> QED  BY <2>6, <2>7
<1> QED  BY <1>2, <1>3

(* What append() records for it books nothing that is booked.              *)
LEMMA AddedFits ==
  ASSUME TypeInv, OrderInv, CountInv, Countable, Handle \/ Hydrate, ~failed,
         Adds(BaselineOf(Observed.machine), Observed),
         NEW rec \in LogEntry, rec = RawRecord(Observed, StepOf(BaselineOf(Observed.machine), Observed))
  PROVE  /\ \A j \in 1..Len(log) : Of(Observed.machine, j) =>
              /\ log[j].base <= rec.base \/ (Uneven /\ rec.base = NoCount)
              /\ \/ Parts(log[j]) \cap Parts(rec) = {}
                 \/ "space" \in Faults /\ log[j].obs = Observed
         /\ Uneven => /\ Observed.count # NoCount => rec.base = Observed.count
                      /\ Below(feed, Observed.machine, Observed.time, rec.base)
         /\ "space" \in Faults => \/ rec.base <= BaselineOf(Observed.machine).base
                                  \/ /\ BaselineOf(Observed.machine).time < Observed.time
                                     /\ Observed.count # NoCount
<1> DEFINE obs == Observed
           m   == obs.machine
           s   == BaselineOf(m)
<1>1. up /\ obs \in Observation /\ obs \in Range(feed) /\ m \in Machines /\ s \in State
  BY HandleParts DEF OrderInv
<1>2. s # Unknown /\ ~Older(s, obs) /\ ~Repeated(s, obs) /\ obs \notin Ignored /\ handler.pc \in {"lookup", "hydrate"}
  BY DEF Adds
<1>3. s.time \in Int /\ obs.time \in Nat /\ s.time <= obs.time /\ s.base \in Int /\ obs.count \in Int
  BY <1>1, <1>2 DEF State, Observation, Older, NoCount
<1>4. GoodState(feed, m, s)
  BY BaselineGood DEF CountInv
<1>5. /\ s.base <= rec.base /\ rec.base \in Int
      /\ obs.count = NoCount => rec.base = s.base
      /\ obs.count # NoCount => obs.count <= rec.base
      /\ obs.count # NoCount /\ s.base <= obs.count => rec.base = obs.count
      /\ obs.count # NoCount /\ ~(s.base <= obs.count) => rec.base = s.base
      /\ \A x \in Parts(rec) : s.base # NoCount /\ s.base < x
  BY <1>1, Adding DEF Countable
<1>6. ASSUME NEW j \in 1..Len(log), Of(m, j)
      PROVE  /\ log[j].base <= rec.base \/ (Uneven /\ rec.base = NoCount)
             /\ \/ Parts(log[j]) \cap Parts(rec) = {}
                \/ "space" \in Faults /\ log[j].obs = obs
  <2>1. log[j].base \in Int /\ log[j].delta \in Int /\ log[j].obs.time \in Nat
    BY RecordTyped
  <2>2. log[j].obs.time <= obs.time
    BY <1>6, AddedLast DEF OrderInv
  <2>3. \A x \in Parts(log[j]) : x \in Int /\ x <= log[j].base
    BY <2>1 DEF Parts
  <2>4. CASE log[j].base <= s.base
    <3>1. \A x \in Parts(log[j]) : ~(s.base < x)
      BY <1>3, <2>1, <2>3, <2>4
    <3> QED  BY <1>3, <1>5, <2>1, <2>4, <3>1
  <2>5. CASE Uneven /\ s.base = NoCount
    <3>1. Parts(rec) = {}
      BY <1>5, <2>5
    <3>2. CASE obs.count = NoCount
      BY <1>5, <2>5, <3>1, <3>2
    <3>3. CASE obs.count # NoCount
      <4>1. log[j].base <= obs.count
        BY <1>1, <1>6, <2>2, <2>5, <3>3 DEF CountInv, BaseInv, Below
      <4> QED  BY <1>3, <1>5, <2>1, <3>1, <3>3, <4>1
    <3> QED  BY <3>2, <3>3
  <2>6. CASE "space" \in Faults /\ Ahead(m, j) /\ log[j].obs.count # NoCount /\ handler.pc # "hydrate"
    <3>1. Awaited(j)
      BY <1>1, <1>2, <2>6 DEF OrderInv, AheadInv
    <3>2. ~Behind(obs) /\ log[j].obs.machine = m /\ "late" \notin Faults
      BY <1>2, <1>6, <2>6 DEF Behind, Of, BaselineOf, Countable
    <3>3. log[j].obs = obs
      BY <1>2, <2>6, <3>1, <3>2 DEF Awaited
    <3>4. log[j].base = obs.count
      BY <1>1, <1>6, <2>6, <3>3 DEF CountInv, BaseInv, Uneven
    <3> QED  BY <1>5, <2>6, <3>3, <3>4
  <2> QED  BY <1>2, <1>6, <2>4, <2>5, <2>6, BaselineBooked
<1>7. ASSUME Uneven
      PROVE  /\ obs.count # NoCount => rec.base = obs.count
             /\ Below(feed, m, obs.time, rec.base)
  <2>1. obs.count # NoCount => s.base <= obs.count
    BY <1>1, <1>3, <1>4, <1>7 DEF GoodState, Below
  <2>2. obs.count # NoCount => rec.base = obs.count
    BY <1>5, <2>1
  <2>3. CASE obs.count # NoCount
    BY <1>1, <1>7, <2>2, <2>3, ForwardBelow DEF Countable
  <2>4. CASE obs.count = NoCount
    <3>1. rec.base = s.base
      BY <1>5, <2>4
    <3>2. \A o \in Range(feed) : obs.time <= o.time => s.time <= o.time
      <4>1. \A o \in Range(feed) : o.time \in Nat
        BY FeedTyped DEF Observation
      <4> QED  BY <1>3, <4>1
    <3> QED  BY <1>4, <1>7, <2>4, <3>1, <3>2 DEF GoodState, Below
  <2> QED  BY <2>2, <2>3, <2>4
<1>8. ASSUME "space" \in Faults, ~(rec.base <= s.base)
      PROVE  s.time < obs.time /\ obs.count # NoCount
  <2>1. obs.count # NoCount
    BY <1>3, <1>5, <1>8
  <2>2. s.time # obs.time
    <3>1. SUFFICES ASSUME s.time = obs.time  PROVE FALSE
      OBVIOUS
    <3>2. s.base = obs.count
      BY <1>1, <1>4, <1>8, <2>1, <3>1 DEF GoodState
    <3> QED  BY <1>3, <1>5, <1>8, <2>1, <3>2
  <2> QED  BY <1>3, <2>1, <2>2
<1> QED  BY <1>6, <1>7, <1>8

(* CountInv, said of the state after a step.                               *)
LEMMA FoundAfter ==
  ASSUME "power" \notin Faults => \A m \in Machines : \A j \in 1..Len(log') : NowOf(m, j) =>
           /\ saved'[m] # 0 \/ \E i \in (done' + 1)..Len(log') : NowOf(m, i)
           /\ up' => latest'[m] # 0
  PROVE  FoundInv'
BY DEF FoundInv, Of, NowOf

(* The same of the records' baselines.                                     *)
LEMMA BaseAfter ==
  ASSUME \A m \in Machines : \A i, j \in 1..Len(log') : NowOf(m, i) /\ NowOf(m, j) /\ i < j =>
           log'[i].base <= log'[j].base \/ (Uneven /\ log'[j].base = NoCount),
         Uneven => \A m \in Machines : \A j \in 1..Len(log') : NowOf(m, j) =>
           /\ log'[j].obs.count # NoCount => log'[j].base = log'[j].obs.count
           /\ Below(feed', m, log'[j].obs.time, log'[j].base),
         up' => \A m \in Machines : GoodState(feed', m, states'[m])
  PROVE  BaseInv'
BY DEF BaseInv, Of, NowOf

(* And of the states.                                                      *)
LEMMA BookedAfter ==
  ASSUME up' => \A m \in Machines : \A j \in 1..Len(log') : NowOf(m, j) /\ states'[m] # Unknown =>
           \/ log'[j].base <= states'[m].base
           \/ Uneven /\ states'[m].base = NoCount
           \/ failed'
           \/ handler'.pc = "sync" /\ handler'.at = j
           \/ "space" \in Faults /\ NowAhead(m, j) /\ log'[j].obs.count # NoCount
  PROVE  BookedInv'
BY DEF BookedInv, Ahead, NowAhead, Of, NowOf

(* And of the parts.                                                       *)
LEMMA ApartAfter ==
  ASSUME \A m \in Machines : \A i, j \in 1..Len(log') : NowOf(m, i) /\ NowOf(m, j) /\ i < j =>
           \/ Parts(log'[i]) \cap Parts(log'[j]) = {}
           \/ "space" \in Faults /\ log'[i].obs = log'[j].obs
  PROVE  Apart'
BY DEF Apart, Of, NowOf, Parts

(* Handling a message, with nothing recorded, or a record of its own.      *)
LEMMA HandleCount ==
  ASSUME TypeInv, OrderInv, CountInv, Countable, Handle \/ Hydrate  PROVE CountInv'
<1> DEFINE obs == Observed
           m   == obs.machine
           s   == BaselineOf(m)
<1>1. /\ up /\ up' /\ handler.pc \in {"stale", "lookup", "hydrate"}
      /\ obs \in Observation /\ m \in Machines /\ obs \in Range(feed)
      /\ s \in State /\ states' = [states EXCEPT ![m] = s]
      /\ UNCHANGED <<feed, horizon, owed, done, durable, saved>> /\ (failed => failed')
  BY HandleParts DEF OrderInv
<1>2. states \in [Machines -> State] /\ states'[m] = s
  BY <1>1 DEF TypeInv
<1>3. \A mm \in Machines : GoodState(feed', mm, states'[mm])
  <2>1. GoodState(feed, m, s)
    BY BaselineGood DEF CountInv
  <2>2. \A mm \in Machines : mm # m => states'[mm] = states[mm]
    BY <1>1, <1>2
  <2>3. \A mm \in Machines : GoodState(feed, mm, states[mm])
    BY <1>1 DEF CountInv, BaseInv
  <2> QED  BY <1>1, <1>2, <2>1, <2>2, <2>3
<1>4. ASSUME NEW mm \in Machines, NEW j \in 1..Len(log), Of(mm, j), log'[j] = log[j], j \in 1..Len(log'),
             states'[mm] # Unknown
      PROVE  \/ log'[j].base <= states'[mm].base
             \/ Uneven /\ states'[mm].base = NoCount
             \/ failed'
             \/ "space" \in Faults /\ NowAhead(mm, j) /\ log'[j].obs.count # NoCount
  <2>1. NowOf(mm, j)
    BY <1>4 DEF Of, NowOf
  <2>2. CASE mm = m
    <3>1. \/ log[j].base <= s.base
          \/ Uneven /\ s.base = NoCount
          \/ failed
          \/ "space" \in Faults /\ Ahead(m, j) /\ log[j].obs.count # NoCount /\ handler.pc # "hydrate"
      BY <1>2, <1>4, <2>2, BaselineBooked
    <3>2. handler.pc # "hydrate" => s = states[m]
      BY DEF BaselineOf
    <3>3. Ahead(m, j) /\ handler.pc # "hydrate" => NowAhead(m, j)
      BY <1>2, <1>4, <2>1, <2>2, <3>2 DEF Ahead, NowAhead
    <3> QED  BY <1>1, <1>2, <1>4, <2>2, <3>1, <3>3
  <2>3. CASE mm # m
    <3>1. states'[mm] = states[mm]
      BY <1>1, <1>2, <2>3
    <3>2. \/ log[j].base <= states[mm].base
          \/ Uneven /\ states[mm].base = NoCount
          \/ failed
          \/ "space" \in Faults /\ Ahead(mm, j) /\ log[j].obs.count # NoCount
      BY <1>1, <1>4, <3>1 DEF CountInv, BookedInv
    <3>3. Ahead(mm, j) => NowAhead(mm, j)
      BY <1>4, <2>1, <3>1 DEF Ahead, NowAhead
    <3> QED  BY <1>1, <1>4, <3>1, <3>2, <3>3
  <2> QED  BY <2>2, <2>3
<1>5. CASE UNCHANGED journalVars
  <2>1. log' = log /\ latest' = latest /\ done' = done /\ saved' = saved
    BY <1>5 DEF journalVars
  <2>2. \A mm, j : NowOf(mm, j) <=> Of(mm, j)
    BY <2>1 DEF NowOf, Of
  <2>3. FoundInv'
    BY <1>1, <2>1, <2>2, FoundAfter DEF CountInv, FoundInv
  <2>4. BaseInv'
    BY <1>1, <1>3, <2>1, <2>2, BaseAfter DEF CountInv, BaseInv
  <2>5. BookedInv'
    <3>1. \A mm \in Machines : \A j \in 1..Len(log') : NowOf(mm, j) /\ states'[mm] # Unknown =>
            \/ log'[j].base <= states'[mm].base
            \/ Uneven /\ states'[mm].base = NoCount
            \/ failed'
            \/ handler'.pc = "sync" /\ handler'.at = j
            \/ "space" \in Faults /\ NowAhead(mm, j) /\ log'[j].obs.count # NoCount
      BY <1>4, <2>1, <2>2
    <3> QED  BY <3>1, BookedAfter
  <2>6. Apart'
    BY <2>1 DEF CountInv, Apart, Of, Parts
  <2> QED  BY <2>3, <2>4, <2>5, <2>6 DEF CountInv
<1>6. CASE \E rec \in LogEntry :
             /\ Appended(rec) /\ rec.obs = obs /\ ~failed
             /\ \/ handler'.pc = "sync" /\ handler'.at = Len(log')
                \/ handler' = Idle /\ Offline /\ (failed' \/ "space" \in Faults)
             /\ rec.raw => Adds(s, obs) /\ rec = RawRecord(obs, StepOf(s, obs))
  <2>1. PICK rec \in LogEntry :
             /\ Appended(rec) /\ rec.obs = obs /\ ~failed
             /\ \/ handler'.pc = "sync" /\ handler'.at = Len(log')
                \/ handler' = Idle /\ Offline /\ (failed' \/ "space" \in Faults)
             /\ rec.raw => Adds(s, obs) /\ rec = RawRecord(obs, StepOf(s, obs))
    BY <1>6
  <2> DEFINE n == Len(log')
  <2>2. /\ Len(log) \in Nat /\ n = Len(log) + 1 /\ log'[n] = rec
        /\ \A j \in 1..Len(log) : log'[j] = log[j]
        /\ \A mm, j : NowOf(mm, j) <=> Of(mm, j) \/ (j = n /\ rec.raw /\ rec.obs.machine = mm)
        /\ \A mm, j : Of(mm, j) => j \in 1..Len(log) /\ log'[j] = log[j]
    BY <2>1, OfAppended
  <2>3. /\ latest \in [Machines -> 0..Len(log)] /\ done \in 0..Len(log)
        /\ latest' = IF rec.raw THEN [latest EXCEPT ![rec.obs.machine] = n] ELSE latest
    BY <2>1 DEF Appended, TypeInv, TypeOK, LogIndex
  <2>4. rec.raw =>
          /\ \A j \in 1..Len(log) : Of(m, j) =>
               /\ log[j].base <= rec.base \/ (Uneven /\ rec.base = NoCount)
               /\ \/ Parts(log[j]) \cap Parts(rec) = {}
                  \/ "space" \in Faults /\ log[j].obs = obs
          /\ Uneven => /\ obs.count # NoCount => rec.base = obs.count
                       /\ Below(feed, m, obs.time, rec.base)
          /\ "space" \in Faults => \/ rec.base <= s.base
                                   \/ s.time < obs.time /\ obs.count # NoCount
    BY <2>1, AddedFits
  <2> HIDE DEF n
  <2>5. FoundInv'
    <3>1. ASSUME "power" \notin Faults, NEW mm \in Machines, NEW j \in 1..Len(log'), NowOf(mm, j)
          PROVE  /\ saved'[mm] # 0 \/ \E i \in (done' + 1)..Len(log') : NowOf(mm, i)
                 /\ up' => latest'[mm] # 0
      <4>1. CASE Of(mm, j)
        <5>1. saved[mm] # 0 \/ \E i \in (done + 1)..Len(log) : Of(mm, i)
          BY <2>2, <3>1, <4>1 DEF CountInv, FoundInv
        <5>2. (done + 1)..Len(log) \subseteq (done + 1)..Len(log')
          BY <2>2, <2>3 DEF n
        <5>3. latest[mm] # 0
          BY <1>1, <2>2, <3>1, <4>1 DEF CountInv, FoundInv
        <5>4. latest'[mm] # 0
          BY <2>2, <2>3, <5>3
        <5> QED  BY <1>1, <2>2, <5>1, <5>2, <5>4
      <4>2. CASE j = n /\ rec.raw /\ rec.obs.machine = mm
        <5>1. n \in (done + 1)..Len(log') /\ n # 0
          BY <2>2, <2>3 DEF n
        <5>2. latest'[mm] = n
          BY <2>3, <4>2
        <5> QED  BY <1>1, <3>1, <4>2, <5>1, <5>2
      <4> QED  BY <2>2, <3>1, <4>1, <4>2
    <3> QED  BY <3>1, FoundAfter
  <2>6. BaseInv'
    <3>1. ASSUME NEW mm \in Machines, NEW i \in 1..Len(log'), NEW j \in 1..Len(log'),
                 NowOf(mm, i), NowOf(mm, j), i < j
          PROVE  log'[i].base <= log'[j].base \/ (Uneven /\ log'[j].base = NoCount)
      <4>1. Of(mm, i) /\ log'[i] = log[i] /\ i \in 1..Len(log)
        BY <2>2, <3>1 DEF n
      <4>2. CASE Of(mm, j)
        BY <2>2, <3>1, <4>1, <4>2 DEF CountInv, BaseInv
      <4>3. CASE j = n /\ rec.raw /\ rec.obs.machine = mm
        BY <2>1, <2>2, <2>4, <4>1, <4>3
      <4> QED  BY <2>2, <3>1, <4>2, <4>3
    <3>2. ASSUME Uneven, NEW mm \in Machines, NEW j \in 1..Len(log'), NowOf(mm, j)
          PROVE  /\ log'[j].obs.count # NoCount => log'[j].base = log'[j].obs.count
                 /\ Below(feed', mm, log'[j].obs.time, log'[j].base)
      <4>1. CASE Of(mm, j)
        BY <1>1, <2>2, <3>2, <4>1 DEF CountInv, BaseInv
      <4>2. CASE j = n /\ rec.raw /\ rec.obs.machine = mm
        BY <1>1, <2>1, <2>2, <2>4, <3>2, <4>2
      <4> QED  BY <2>2, <3>2, <4>1, <4>2
    <3> QED  BY <1>3, <3>1, <3>2, BaseAfter
  <2>7. BookedInv'
    <3>1. ASSUME NEW mm \in Machines, NEW j \in 1..Len(log'), NowOf(mm, j), states'[mm] # Unknown
          PROVE  \/ log'[j].base <= states'[mm].base
                 \/ Uneven /\ states'[mm].base = NoCount
                 \/ failed'
                 \/ handler'.pc = "sync" /\ handler'.at = j
                 \/ "space" \in Faults /\ NowAhead(mm, j) /\ log'[j].obs.count # NoCount
      <4>1. CASE Of(mm, j)
        BY <1>4, <2>2, <3>1, <4>1
      <4>2. CASE j = n /\ rec.raw /\ rec.obs.machine = mm
        <5>1. CASE "space" \in Faults
          <6>1. mm = m /\ states'[mm] = s /\ log'[j] = rec /\ rec.obs = obs
            BY <1>2, <2>1, <2>2, <4>2
          <6>2. s.time < obs.time => NowAhead(mm, j)
            BY <3>1, <6>1 DEF NowAhead
          <6> QED  BY <2>4, <4>2, <5>1, <6>1, <6>2
        <5>2. CASE "space" \notin Faults
          BY <2>1, <4>2, <5>2 DEF n
        <5> QED  BY <5>1, <5>2
      <4> QED  BY <2>2, <3>1, <4>1, <4>2
    <3> QED  BY <3>1, BookedAfter
  <2>8. Apart'
    <3>1. ASSUME NEW mm \in Machines, NEW i \in 1..Len(log'), NEW j \in 1..Len(log'),
                 NowOf(mm, i), NowOf(mm, j), i < j
          PROVE  \/ Parts(log'[i]) \cap Parts(log'[j]) = {}
                 \/ "space" \in Faults /\ log'[i].obs = log'[j].obs
      <4>1. Of(mm, i) /\ log'[i] = log[i] /\ i \in 1..Len(log)
        BY <2>2, <3>1 DEF n
      <4>2. CASE Of(mm, j)
        <5>1. log'[j] = log[j] /\ j \in 1..Len(log)
          BY <2>2, <4>2
        <5>2. \/ Parts(log[i]) \cap Parts(log[j]) = {}
              \/ "space" \in Faults /\ log[i].obs = log[j].obs
          BY <3>1, <4>1, <4>2, <5>1 DEF CountInv, Apart
        <5> QED  BY <4>1, <5>1, <5>2
      <4>3. CASE j = n /\ rec.raw /\ rec.obs.machine = mm
        BY <2>1, <2>2, <2>4, <4>1, <4>3
      <4> QED  BY <2>2, <3>1, <4>2, <4>3
    <3> QED  BY <3>1, ApartAfter
  <2> QED  BY <2>5, <2>6, <2>7, <2>8 DEF CountInv
<1> QED  BY <1>5, <1>6, HandleParts DEF OrderInv

(* A state taken from the last record of its machine has booked them all.  *)
LEMMA LastBooked ==
  ASSUME TypeInv, CountInv, NEW m \in Machines, NEW i \in 1..Len(log), NEW j \in 1..Len(log),
         Of(m, i), Of(m, j), j <= i
  PROVE  log[j].base <= StateAt(i).base \/ (Uneven /\ StateAt(i).base = NoCount)
<1>1. StateAt(i).base = log[i].base /\ log[i].base \in Int
  BY KnownAt, RecordTyped
<1>2. j = i \/ j < i
  BY DEF TypeInv
<1> QED  BY <1>1, <1>2 DEF CountInv, BaseInv

(* The reading that is accepted.                                           *)
LEMMA AcceptedCount ==
  ASSUME TypeInv, OrderInv, CountInv, Countable, Accepted  PROVE CountInv'
<1> DEFINE at == handler.at
           n  == Observed.machine
<1>1. handler.pc = "sync" /\ UNCHANGED <<feed, up, failed, log, done, latest, saved>>
  BY DEF Accepted, brokerVars, journalVars
<1>2. at = Len(log) /\ at \in 1..Len(log) /\ log[at].obs = Observed /\ Len(log) \in Nat
  BY <1>1 DEF OrderInv, RunInv, TypeInv
<1>3. /\ n \in Machines
      /\ log[at].raw => states' = [states EXCEPT ![n] = StateAt(at)]
      /\ ~log[at].raw => states' = states
  BY AcceptedMoves DEF Observation, OrderInv
<1>4. states \in [Machines -> State] /\ (log[at].raw => Of(n, at))
  BY <1>2 DEF TypeInv, Of
<1>5. \A m, j : NowOf(m, j) <=> Of(m, j)
  BY <1>1 DEF NowOf, Of
<1>6. FoundInv' /\ Apart'
  <2>1. FoundInv'
    BY <1>1, <1>5, FoundAfter DEF CountInv, FoundInv
  <2>2. Apart'
    BY <1>1 DEF CountInv, Apart, Of, Parts
  <2> QED  BY <2>1, <2>2
<1>7. BaseInv'
  <2>1. ASSUME NEW m \in Machines, up  PROVE GoodState(feed', m, states'[m])
    <3>1. CASE log[at].raw /\ m = n
      <4>1. GoodState(feed, m, StateAt(at))
        BY <1>2, <1>4, <3>1, RecordGood DEF OrderInv, CountInv
      <4> QED  BY <1>1, <1>3, <1>4, <3>1, <4>1
    <3>2. CASE ~(log[at].raw /\ m = n)
      <4>1. states'[m] = states[m]
        BY <1>3, <1>4, <3>2
      <4> QED  BY <1>1, <2>1, <4>1 DEF CountInv, BaseInv
    <3> QED  BY <3>1, <3>2
  <2> QED  BY <1>1, <1>5, <2>1, BaseAfter DEF CountInv, BaseInv
<1>8. BookedInv'
  <2>1. ASSUME up, NEW m \in Machines, NEW j \in 1..Len(log), Of(m, j), states'[m] # Unknown
        PROVE  \/ log[j].base <= states'[m].base
               \/ Uneven /\ states'[m].base = NoCount
               \/ failed
               \/ "space" \in Faults /\ NowAhead(m, j) /\ log[j].obs.count # NoCount
    <3>1. CASE log[at].raw /\ m = n
      <4>1. j <= at /\ states'[m] = StateAt(at)
        BY <1>2, <1>3, <1>4, <3>1
      <4> QED  BY <1>2, <1>4, <2>1, <3>1, <4>1, LastBooked
    <3>2. CASE ~(log[at].raw /\ m = n)
      <4>1. states'[m] = states[m]
        BY <1>3, <1>4, <3>2
      <4>2. j # at
        BY <1>2, <2>1, <3>2 DEF Of
      <4>3. Ahead(m, j) => NowAhead(m, j)
        BY <1>1, <1>5, <4>1 DEF Ahead, NowAhead
      <4> QED  BY <2>1, <4>1, <4>2, <4>3 DEF CountInv, BookedInv
    <3> QED  BY <3>1, <3>2
  <2>2. up' => \A m \in Machines : \A j \in 1..Len(log') : NowOf(m, j) /\ states'[m] # Unknown =>
           \/ log'[j].base <= states'[m].base
           \/ Uneven /\ states'[m].base = NoCount
           \/ failed'
           \/ handler'.pc = "sync" /\ handler'.at = j
           \/ "space" \in Faults /\ NowAhead(m, j) /\ log'[j].obs.count # NoCount
    BY <1>1, <1>5, <2>1
  <2> QED  BY <2>2, BookedAfter
<1> QED  BY <1>6, <1>7, <1>8 DEF CountInv

(* A process starts with the state of the last record of each machine.     *)
LEMMA StartCount ==
  ASSUME TypeInv, OrderInv, CountInv, Countable, SnapshotInv', Start  PROVE CountInv'
<1>1. /\ UNCHANGED <<feed, log, done, saved>> /\ latest' = Recovered(Len(log))
      /\ states' = [m \in Machines |-> StateAt(latest'[m])]
  BY DEF Start, brokerVars
<1>2. \A m, j : NowOf(m, j) <=> Of(m, j)
  BY <1>1 DEF NowOf, Of
<1>3. \A m \in Machines : /\ latest'[m] \in 0..Len(log)
                          /\ states'[m] = StateAt(latest'[m])
                          /\ latest'[m] # 0 => latest'[m] \in 1..Len(log) /\ Of(m, latest'[m])
                                               /\ \A j \in 1..Len(log) : Of(m, j) => j <= latest'[m]
  <2>1. \A m \in Machines : latest'[m] \in 0..Len(log)
    BY <1>1, RecoveredTyped DEF LogIndex
  <2>2. Len(log) \in Nat
    BY DEF TypeInv
  <2>3. \A m \in Machines : latest'[m] # 0 =>
          latest'[m] \in 1..Len(log) /\ Of(m, latest'[m]) /\ \A j \in 1..Len(log) : Of(m, j) => j <= latest'[m]
    <3>1. up'
      BY DEF Start
    <3> QED  BY <1>1, <2>1, <2>2, <3>1 DEF SnapshotInv, Of
  <2> QED  BY <1>1, <2>1, <2>3
<1>4. FoundInv'
  <2>1. ASSUME "power" \notin Faults, NEW m \in Machines, NEW j \in 1..Len(log), Of(m, j)
        PROVE  /\ saved[m] # 0 \/ \E i \in (done + 1)..Len(log) : Of(m, i)
               /\ latest'[m] # 0
    <3>1. saved[m] # 0 \/ \E i \in (done + 1)..Len(log) : Of(m, i)
      BY <2>1 DEF CountInv, FoundInv
    <3>2. /\ saved[m] <= latest'[m] /\ saved[m] \in Nat /\ done \in Nat
          /\ \A i \in (done + 1)..Len(log) : Of(m, i) => i <= latest'[m]
      BY <1>1, RecoveredIs DEF TypeInv, TypeOK, LogIndex
    <3>3. latest'[m] # 0
      BY <1>3, <3>1, <3>2
    <3> QED  BY <3>1, <3>3
  <2>2. "power" \notin Faults => \A m \in Machines : \A j \in 1..Len(log') : NowOf(m, j) =>
           /\ saved'[m] # 0 \/ \E i \in (done' + 1)..Len(log') : NowOf(m, i)
           /\ up' => latest'[m] # 0
    BY <1>1, <1>2, <2>1
  <2> QED  BY <2>2, FoundAfter
<1>5. BaseInv'
  <2>1. ASSUME NEW m \in Machines  PROVE GoodState(feed', m, states'[m])
    <3>1. CASE latest'[m] = 0
      BY <1>1, <1>3, <3>1, UnknownGood DEF StateAt
    <3>2. CASE latest'[m] # 0
      <4>1. GoodState(feed, m, StateAt(latest'[m]))
        <5> DEFINE r == latest'[m]
        <5>1. r \in 1..Len(log) /\ Of(m, r)
          BY <1>3, <3>2
        <5> HIDE DEF r
        <5>2. GoodState(feed, m, StateAt(r))
          BY <5>1, RecordGood DEF OrderInv, CountInv
        <5> QED  BY <5>2 DEF r
      <4> QED  BY <1>1, <1>3, <4>1
    <3> QED  BY <3>1, <3>2
  <2> QED  BY <1>1, <1>2, <2>1, BaseAfter DEF CountInv, BaseInv
<1>6. BookedInv'
  <2>1. ASSUME NEW m \in Machines, NEW j \in 1..Len(log), Of(m, j), states'[m] # Unknown
        PROVE  log[j].base <= states'[m].base \/ (Uneven /\ states'[m].base = NoCount)
    <3> DEFINE r == latest'[m]
    <3>1. r # 0
      BY <1>3, <2>1 DEF StateAt
    <3>2. r \in 1..Len(log) /\ Of(m, r) /\ j <= r /\ states'[m] = StateAt(r)
      BY <1>3, <2>1, <3>1
    <3> HIDE DEF r
    <3> QED  BY <2>1, <3>2, LastBooked
  <2>2. up' => \A m \in Machines : \A j \in 1..Len(log') : NowOf(m, j) /\ states'[m] # Unknown =>
           \/ log'[j].base <= states'[m].base
           \/ Uneven /\ states'[m].base = NoCount
           \/ failed'
           \/ handler'.pc = "sync" /\ handler'.at = j
           \/ "space" \in Faults /\ NowAhead(m, j) /\ log'[j].obs.count # NoCount
    BY <1>1, <1>2, <2>1
  <2> QED  BY <2>2, BookedAfter
<1>7. Apart'
  BY <1>1 DEF CountInv, Apart, Of, Parts
<1> QED  BY <1>4, <1>5, <1>6, <1>7 DEF CountInv

(* The writer deletes what the states it saves are of.                     *)
LEMMA ReleaseCount ==
  ASSUME TypeInv, OrderInv, CountInv, Release  PROVE CountInv'
<1>1. /\ UNCHANGED <<feed, log, latest, up, failed, states, handler, durable>> /\ up
      /\ done' \in (done + 1)..durable /\ saved' = SavedStates
  BY DEF Release, brokerVars, processVars
<1>2. \A m, j : NowOf(m, j) <=> Of(m, j)
  BY <1>1 DEF NowOf, Of
<1>3. done \in Nat /\ durable \in 0..Len(log) /\ Len(log) \in Nat
  BY DEF TypeInv, TypeOK, LogIndex
<1>4. ASSUME "power" \notin Faults, NEW m \in Machines, NEW j \in 1..Len(log), Of(m, j)
      PROVE  /\ saved'[m] # 0 \/ \E i \in (done' + 1)..Len(log) : Of(m, i)
             /\ latest[m] # 0
  <2>1. latest[m] # 0 /\ Of(m, latest[m]) /\ latest[m] \in 1..Len(log)
    BY <1>1, <1>4 DEF CountInv, FoundInv, OrderInv, SnapshotInv, Of
  <2>2. CASE latest[m] <= durable
    BY <1>1, <2>1, <2>2 DEF SavedStates
  <2>3. CASE durable < latest[m]
    <3>1. latest[m] \in (done' + 1)..Len(log)
      BY <1>1, <1>3, <2>1, <2>3
    <3> QED  BY <2>1, <3>1
  <2> QED  BY <1>3, <2>1, <2>2, <2>3
<1>5. FoundInv'
  <2>1. "power" \notin Faults => \A m \in Machines : \A j \in 1..Len(log') : NowOf(m, j) =>
           /\ saved'[m] # 0 \/ \E i \in (done' + 1)..Len(log') : NowOf(m, i)
           /\ up' => latest'[m] # 0
    BY <1>1, <1>2, <1>4
  <2> QED  BY <2>1, FoundAfter
<1>6. BaseInv'
  BY <1>1, <1>2, BaseAfter DEF CountInv, BaseInv
<1>7. BookedInv' /\ Apart'
  BY <1>1 DEF CountInv, BookedInv, Ahead, Apart, Of, Parts
<1> QED  BY <1>5, <1>6, <1>7 DEF CountInv

(* A crash leaves the first records.                                       *)
LEMMA EndsCount ==
  ASSUME TypeInv, OrderInv, CountInv, Shutdown \/ ProcessCrash \/ PowerLoss  PROVE CountInv'
<1>1. PICK n \in durable..Len(log) :
        /\ Ends(n) /\ Len(log') = n /\ \A j \in 1..n : log'[j] = log[j]
        /\ n = Len(log) \/ "power" \in Faults
  BY EndsParts
<1>2. ~up' /\ UNCHANGED <<feed, done, saved>>
  BY <1>1 DEF Ends, brokerVars
<1>3. n \in Nat /\ n <= Len(log)
  BY <1>1 DEF TypeInv, TypeOK, LogIndex
<1>4. \A m, j : NowOf(m, j) <=> Of(m, j) /\ j <= n
  BY <1>1, <1>3 DEF NowOf, Of
<1>5. \A j \in 1..n : j \in 1..Len(log)
  BY <1>3
<1>6. FoundInv'
  BY <1>1, <1>2, <1>4, FoundAfter DEF CountInv, FoundInv
<1>7. BaseInv'
  BY <1>1, <1>2, <1>4, <1>5, BaseAfter DEF CountInv, BaseInv
<1>8. Apart'
  <2>1. \A m \in Machines : \A i, j \in 1..Len(log') : NowOf(m, i) /\ NowOf(m, j) /\ i < j =>
           \/ Parts(log'[i]) \cap Parts(log'[j]) = {}
           \/ "space" \in Faults /\ log'[i].obs = log'[j].obs
    BY <1>1, <1>4, <1>5 DEF CountInv, Apart
  <2> QED  BY <2>1, ApartAfter
<1> QED  BY <1>2, <1>6, <1>7, <1>8 DEF CountInv, BookedInv

(* Every step keeps the parts apart.                                       *)
LEMMA NextCount ==
  ASSUME TypeInv, OrderInv, CountInv, Countable, SnapshotInv', [Next]_vars  PROVE CountInv'
<1>1. CASE Handle \/ Hydrate
  BY <1>1, HandleCount
<1>2. CASE Network \/ Admission \/ QueryFails \/ SyncRejected \/ Forget \/ Fsync \/ UNCHANGED vars
  <2>1. /\ UNCHANGED <<feed, log, done, latest, saved, up, states>>
    BY <1>2
    DEF Network, Connect, ConnectionLost, AckArrives, Age, Admission, Deliver, Acknowledge,
        QueryFails, SyncRejected, Forget, Fsync, vars, brokerVars, processVars, journalVars
  <2>2. failed => failed'
    BY <1>2
    DEF Network, Connect, ConnectionLost, AckArrives, Age, Admission, Deliver, Acknowledge,
        QueryFails, SyncRejected, Forget, Fsync, vars, processVars
  <2>3. \/ handler'.at = handler.at /\ handler'.pc = handler.pc
        \/ handler.pc # "sync" \/ failed'
    <3>1. CASE Connect
      BY <3>1 DEF Connect, TypeInv
    <3>2. CASE Deliver
      <4>1. handler' = handler \/ handler.msg = 0
        BY <3>2 DEF Deliver
      <4> QED  BY <4>1 DEF TypeInv
    <3>3. CASE Acknowledge \/ QueryFails \/ SyncRejected
      BY <3>3 DEF Acknowledge, QueryFails, SyncRejected
    <3> QED  BY <1>2, <3>1, <3>2, <3>3 DEF Network, Admission, ConnectionLost, AckArrives, Age, Forget, Fsync, vars
  <2>4. \A m, j : NowOf(m, j) <=> Of(m, j)
    BY <2>1 DEF NowOf, Of
  <2>5. FoundInv'
    BY <2>1, <2>4, FoundAfter DEF CountInv, FoundInv
  <2>6. BaseInv'
    BY <2>1, <2>4, BaseAfter DEF CountInv, BaseInv
  <2>7. Apart'
    BY <2>1 DEF CountInv, Apart, Of, Parts
  <2>8. BookedInv'
    BY <2>1, <2>2, <2>3 DEF CountInv, BookedInv, Ahead, Of
  <2> QED  BY <2>5, <2>6, <2>7, <2>8 DEF CountInv
<1>3. CASE Accepted
  BY <1>3, AcceptedCount
<1>4. CASE Start
  BY <1>4, StartCount
<1>5. CASE Release
  BY <1>5, ReleaseCount
<1>6. CASE Shutdown \/ ProcessCrash \/ PowerLoss
  BY <1>6, EndsCount
<1> QED  BY <1>1, <1>2, <1>3, <1>4, <1>5, <1>6 DEF Next, Processor, Storage, Process

(* At first nothing is booked.                                             *)
LEMMA InitCount == Init => CountInv
<1> SUFFICES ASSUME Init  PROVE CountInv
  OBVIOUS
<1>1. Len(log) = 0 /\ ~up
  BY DEF Init
<1> QED  BY <1>1 DEF CountInv, FoundInv, BaseInv, BookedInv, Apart

(* The parts of the invariant together.                                    *)
LEMMA CountSteps ==
  ASSUME Countable  PROVE Spec => [](TypeInv /\ CountInv)
<1>1. TypeInv /\ OrderInv /\ CountInv /\ [Next]_vars => TypeInv' /\ OrderInv' /\ CountInv'
  <2> SUFFICES ASSUME TypeInv, OrderInv, CountInv, [Next]_vars  PROVE TypeInv' /\ OrderInv' /\ CountInv'
    OBVIOUS
  <2>1. TypeInv' /\ OrderInv'
    BY NextTyped, NextOrder DEF Countable
  <2>2. SnapshotInv'
    BY NextSnapshot DEF OrderInv
  <2> QED  BY <2>1, <2>2, NextCount
<1> QED  BY <1>1, InitTyped, InitOrder, InitCount, PTL DEF Spec

(* No part is counted by two readings, with any crash, replay, refusal or  *)
(* lost fingerprint.  Counters are not reset.  Where a crash can leave a   *)
(* state behind its record, they only grow with the device's clock; where  *)
(* a rotation can fail after the write, a second has one reading and none  *)
(* is kept aside for its age alone.                                        *)
THEOREM PartsCountedOnce ==
  ASSUME NeverReset, Uneven => Forward, "space" \in Faults => OneASecond /\ "late" \notin Faults
  PROVE  Spec => []CountedOnce
<1>1. Countable
  BY DEF Countable
<1>2. TypeInv /\ CountInv => CountedOnce
  <2> SUFFICES ASSUME CountInv, NEW m \in Machines, NEW p \in Pairs(m), log[p[1]].obs # log[p[2]].obs
               PROVE  Parts(log[p[1]]) \cap Parts(log[p[2]]) = {}
    BY DEF CountedOnce
  <2>1. /\ p[1] \in 1..Len(log) /\ p[2] \in 1..Len(log) /\ p[1] < p[2] /\ Of(m, p[1]) /\ Of(m, p[2])
    BY DEF Pairs, RawIn, Of
  <2> QED  BY <2>1 DEF CountInv, Apart
<1> QED  BY <1>1, <1>2, CountSteps, PTL

(* A reading recorded twice, because the broker replays it to a process    *)
(* that no longer knows it, has all its parts in the first record.  What   *)
(* is excluded is a rotation that fails after the write: then the first    *)
(* record is in no state, and the second books its parts once more.        *)
THEOREM ReplaysAddNothing ==
  ASSUME NeverReset, "power" \in Faults => Forward, "space" \notin Faults
  PROVE  Spec => []ReplayAddsNothing
<1>1. Countable
  BY DEF Countable, Uneven
<1>2. TypeInv /\ CountInv => ReplayAddsNothing
  <2> SUFFICES ASSUME CountInv, NEW m \in Machines, NEW p \in Pairs(m), log[p[1]].obs = log[p[2]].obs
               PROVE  Parts(log[p[1]]) \cap Parts(log[p[2]]) = {}
    BY DEF ReplayAddsNothing
  <2>1. /\ p[1] \in 1..Len(log) /\ p[2] \in 1..Len(log) /\ p[1] < p[2] /\ Of(m, p[1]) /\ Of(m, p[2])
    BY DEF Pairs, RawIn, Of
  <2> QED  BY <2>1 DEF CountInv, Apart
<1> QED  BY <1>1, <1>2, CountSteps, PTL
=============================================================================
