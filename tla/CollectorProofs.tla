-------------------------- MODULE CollectorProofs --------------------------
(***************************************************************************)
(* Proof that nothing the broker has let go of is lost, for any machines,  *)
(* any publications and every fault of Collector: lost connections,        *)
(* refusals, replays, crashes or power losses.  At the end, what other     *)
(* proofs need of handleMessage(), hydrate() and state.json.               *)
(***************************************************************************)
EXTENDS Collector, NumberLemmas

LogEntry == [obs : Observation, raw : BOOLEAN, delta : Int, base : Int]
State == [time : Int, print : Observation \cup {NoPrint}, base : Int]

(* Where handleMessage() can be.                                           *)
Stages == {"idle", "stale", "lookup", "hydrate", "sync", "done"}

(* Types, with those of the records and the states, and the records a       *)
(* snapshot refers to: no crash takes one of them.                         *)
TypeInv ==
  /\ TypeOK
  /\ log \in Seq(LogEntry)
  /\ states \in [Machines -> State]
  /\ \A m \in Machines : saved[m] <= durable
  /\ handler \in [msg : Nat, pc : Stages, at : Nat, same : BOOLEAN]
  /\ handler.pc # "idle" => handler.msg # 0

-----------------------------------------------------------------------------
(* Publications are observations; there is a least of any of them.         *)
LEMMA FeedTyped ==
  ASSUME TypeInv
  PROVE  /\ Publications \subseteq Nat \ {0}
         /\ \A i \in Publications : feed[i] \in Observation
         /\ Range(feed) \subseteq Observation
         /\ handler.pc # "idle" => handler.msg \in Publications /\ Observed \in Observation
<1>1. feed \in Seq(Observation)
  BY CollectorAssumption DEF TypeInv, TypeOK
<1>2. Publications = 1..Len(feed) /\ Len(feed) \in Nat
  BY <1>1 DEF Publications
<1>3. \A i \in Publications : feed[i] \in Observation
  BY <1>1, <1>2
<1>4. Publications \subseteq Nat \ {0}
  BY <1>2
<1>5. Range(feed) \subseteq Observation
  BY <1>3 DEF Range, Publications
<1>6. handler.pc # "idle" => handler.msg \in Publications
  BY DEF TypeInv, TypeOK
<1> QED  BY <1>3, <1>4, <1>5, <1>6 DEF Observed

(* The first of some publications is one of them.                           *)
LEMMA LeastPublication ==
  ASSUME TypeInv, NEW S \in SUBSET Publications, S # {}
  PROVE  Min(S) \in S
BY FeedTyped, MinIsLeast

(* The constants among the states and the records.                         *)
LEMMA KnownStates == NullState \in State /\ Unknown \in State /\ Unknown.print = NoPrint
BY DEF NullState, Unknown, State, NoPrint, NoCount

(* A record's place gives a state.                                         *)
LEMMA StateAtTyped ==
  ASSUME TypeInv, NEW i \in LogIndex
  PROVE  /\ StateAt(i) \in State
         /\ StateAt(i).print = NoPrint \/ (i \in 1..Len(log) /\ StateAt(i).print = log[i].obs)
<1>1. CASE i = 0
  BY <1>1, KnownStates DEF StateAt
<1>2. CASE i # 0
  <2>1. i \in 1..Len(log)
    BY <1>2 DEF TypeInv, LogIndex
  <2>2. log[i] \in LogEntry
    BY <2>1 DEF TypeInv
  <2>3. log[i].obs \in Observation /\ log[i].base \in Int /\ log[i].obs.time \in Int
    BY <2>2 DEF LogEntry, Observation
  <2>4. StateAt(i) = [time |-> log[i].obs.time, print |-> log[i].obs, base |-> log[i].base]
    BY <1>2 DEF StateAt
  <2> QED  BY <2>1, <2>3, <2>4 DEF State
<1> QED  BY <1>1, <1>2

(* hydrate() gives one without a fingerprint.                              *)
LEMMA HydratedTyped ==
  ASSUME TypeInv, NEW m \in Machines
  PROVE  Hydrated(m) \in State /\ Hydrated(m).print = NoPrint
<1> DEFINE S == {0} \cup RawIn(m, 1..done)
           last == Max(S)
<1>1. Len(log) \in Nat /\ done \in 0..Len(log)
  BY DEF TypeInv, TypeOK, LogIndex
<1>2. S \in SUBSET (0..Len(log)) /\ S # {}
  BY <1>1 DEF RawIn
<1>3. last \in S
  <2> HIDE DEF S
  <2> QED  BY <1>1, <1>2, MaxIsGreatest
<1>4. Hydrated(m) = IF last = 0 THEN NullState
                    ELSE [time |-> log[last].obs.time, print |-> NoPrint, base |-> log[last].obs.count]
  BY DEF Hydrated
<1>5. CASE last = 0
  <2> HIDE DEF last
  <2> QED  BY <1>4, <1>5, KnownStates DEF NullState
<1>6. CASE last # 0
  <2>1. last \in 1..Len(log)
    BY <1>2, <1>3, <1>6
  <2> HIDE DEF last
  <2>2. log[last] \in LogEntry
    BY <2>1 DEF TypeInv
  <2>3. log[last].obs.time \in Int /\ log[last].obs.count \in Int
    BY <2>2 DEF LogEntry, Observation, NoCount
  <2> QED  BY <1>4, <1>6, <2>3 DEF State
<1> QED  BY <1>5, <1>6

(* The records that open() finds the states in are among those left.       *)
LEMMA RecoveredTyped ==
  ASSUME TypeInv  PROVE Recovered(Len(log)) \in [Machines -> LogIndex]
<1> SUFFICES ASSUME NEW m \in Machines
             PROVE  Max({saved[m]} \cup RawIn(m, (done + 1)..Len(log))) \in LogIndex
  BY DEF Recovered
<1> DEFINE S == {saved[m]} \cup RawIn(m, (done + 1)..Len(log))
<1>1. Len(log) \in Nat /\ done \in Nat /\ saved[m] \in 0..Len(log)
  BY DEF TypeInv, TypeOK, LogIndex
<1>2. S \in SUBSET (0..Len(log)) /\ S # {}
  BY <1>1 DEF RawIn
<1>3. Max(S) \in S
  <2> HIDE DEF S
  <2> QED  BY <1>1, <1>2, MaxIsGreatest
<1> QED  BY <1>2, <1>3 DEF LogIndex

(* What a reading adds is a number, whatever it is compared with.          *)
LEMMA RecordsTyped ==
  ASSUME NEW obs \in Observation, NEW prev \in State
  PROVE  RawRecord(obs, StepOf(prev, obs)) \in LogEntry /\ LateRecord(obs) \in LogEntry
<1>1. prev.base \in Int /\ obs.count \in Int /\ obs.time \in Int /\ prev.time \in Int
  BY DEF State, Observation, NoCount
<1>2. \A gap \in Int : PartsDelta(prev.base, obs.count, gap) \in Int
  BY <1>1 DEF PartsDelta
<1>3. \A gap \in Int : /\ PartsCounterStep(prev.base, obs.count, gap).delta \in Int
                       /\ PartsCounterStep(prev.base, obs.count, gap).baseline \in Int
  BY <1>1, <1>2 DEF PartsCounterStep
<1>4. StepOf(prev, obs).delta \in Int /\ StepOf(prev, obs).baseline \in Int
  BY <1>1, <1>3 DEF StepOf
<1> QED  BY <1>4 DEF RawRecord, LateRecord, LogEntry, NoCount

-----------------------------------------------------------------------------
(* append() puts a record behind the others.                               *)
LEMMA AppendedParts ==
  ASSUME TypeInv, NEW rec \in LogEntry, Appended(rec)
  PROVE  /\ log' \in Seq(LogEntry) /\ Len(log') = Len(log) + 1 /\ Len(log') <= MaxLog
         /\ log'[Len(log')] = rec /\ \A j \in 1..Len(log) : log'[j] = log[j]
         /\ latest' \in [Machines -> 0..Len(log')]
         /\ durable' = durable /\ done' = done /\ saved' = saved
<1>1. log \in Seq(LogEntry) /\ log' = Append(log, rec) /\ Len(log) < MaxLog /\ MaxLog \in Nat
  BY CollectorAssumption DEF TypeInv, Appended
<1>2. /\ log' \in Seq(LogEntry) /\ Len(log') = Len(log) + 1 /\ Len(log) \in Nat
      /\ log'[Len(log')] = rec /\ \A j \in 1..Len(log) : log'[j] = log[j]
  BY <1>1
<1>3. latest \in [Machines -> 0..Len(log)]
  BY DEF TypeInv, TypeOK, LogIndex
<1>4. latest' = latest \/ latest' = [latest EXCEPT ![rec.obs.machine] = Len(log')]
  BY DEF Appended
<1>5. latest' \in [Machines -> 0..Len(log')]
  BY <1>2, <1>3, <1>4
<1> QED  BY <1>1, <1>2, <1>5 DEF Appended

(* admit() leaves the message waiting for its fsync, or refuses it.        *)
LEMMA AdmitParts ==
  ASSUME TypeInv, NEW rec \in LogEntry, Admit(rec)
  PROVE  /\ Appended(rec) \/ UNCHANGED journalVars
         /\ \/ handler' = Idle /\ Offline
            \/ /\ handler' = [handler EXCEPT !.pc = "sync", !.at = Len(log')]
               /\ UNCHANGED linkVars /\ Appended(rec)
         /\ seen' = seen /\ failed' \in BOOLEAN
BY DEF Admit, Reject, AfterRejection, Proceed, TypeInv, TypeOK

(* The states are as they were, or have been read from the database.       *)
SamePrints ==
  \A m \in Machines :
    states'[m] = states[m] \/ (states'[m] \in State /\ states'[m].print = NoPrint)

(* What can come of a reading whose baseline is known.                     *)
Outcome(obs) ==
  /\ \/ UNCHANGED journalVars
     \/ \E rec \in LogEntry : rec.obs = obs /\ Appended(rec)
  /\ \/ handler' = Idle /\ Offline
     \/ /\ handler' = [handler EXCEPT !.pc = "done", !.at = 0]
        /\ UNCHANGED linkVars /\ UNCHANGED journalVars
        /\ obs \in seen \cup Ignored \/ \E m \in Machines : obs = states[m].print
     \/ /\ handler' = [handler EXCEPT !.pc = "hydrate", !.at = 0]
        /\ UNCHANGED linkVars /\ UNCHANGED journalVars
     \/ /\ handler' = [handler EXCEPT !.pc = "sync", !.at = Len(log')]
        /\ UNCHANGED linkVars
        /\ \E rec \in LogEntry : rec.obs = obs /\ Appended(rec)
  /\ seen' = seen /\ failed' \in BOOLEAN
  /\ SamePrints

(* However append() ends, it records the observation or refuses the message. *)
LEMMA AdmitOutcome ==
  ASSUME TypeInv, NEW obs \in Observation, NEW rec \in LogEntry, rec.obs = obs, Admit(rec),
         SamePrints
  PROVE  Outcome(obs)
BY AdmitParts DEF Outcome

(* However the processor decides, it ignores, records or refuses.           *)
LEMMA DecideOutcome ==
  ASSUME TypeInv, NEW m \in Machines, NEW prev \in State,
         handler.pc # "idle", Decide(prev), prev = states[m] \/ prev.print = NoPrint,
         SamePrints
  PROVE  Outcome(Observed)
<1> DEFINE obs == Observed
<1>1. obs \in Observation
  BY FeedTyped
<1>2. obs # NoPrint
  <2>1. obs.time # 0 /\ NoPrint.time = 0
    BY <1>1 DEF Observation, NoPrint
  <2> QED  BY <2>1
<1>3. failed \in BOOLEAN
  BY DEF TypeInv, TypeOK
<1>4. CASE Repeated(prev, obs) /\ Proceed("done", 0) /\ UNCHANGED <<failed, seen, journalVars>>
  <2>1. obs = states[m].print
    BY <1>2, <1>4 DEF Repeated
  <2> QED  BY <1>3, <1>4, <2>1 DEF Proceed, Outcome
<1>5. CASE Admit(LateRecord(obs)) \/ Admit(RawRecord(obs, StepOf(prev, obs)))
  <2> DEFINE late == LateRecord(obs)
             raw == RawRecord(obs, StepOf(prev, obs))
  <2>1. late \in LogEntry /\ raw \in LogEntry
    BY <1>1, RecordsTyped
  <2>2. late.obs = obs /\ raw.obs = obs
    BY DEF LateRecord, RawRecord
  <2> HIDE DEF late, raw
  <2>3. CASE Admit(late)
    BY <1>1, <2>1, <2>2, <2>3, AdmitOutcome
  <2>4. CASE Admit(raw)
    BY <1>1, <2>1, <2>2, <2>4, AdmitOutcome
  <2> QED  BY <1>5, <2>3, <2>4 DEF late, raw
<1> QED  BY <1>4, <1>5 DEF Decide

(* Handling a message, and a baseline that arrives.                        *)
LEMMA HandleOutcome ==
  ASSUME TypeInv, Handle \/ Hydrate
  PROVE  Outcome(Observed) /\ UNCHANGED <<brokerVars, up>> /\ handler.pc # "idle"
<1> DEFINE obs == Observed
<1>1. handler.pc # "idle" /\ UNCHANGED <<brokerVars, up>>
  BY DEF Handle, Hydrate
<1>2. obs \in Observation /\ obs.machine \in Machines
  BY <1>1, FeedTyped DEF Observation
<1>3. failed \in BOOLEAN
  BY DEF TypeInv, TypeOK
<1>4. CASE Hydrate
  <2> DEFINE m == obs.machine
  <2>1. states' = [states EXCEPT ![m] = Hydrated(m)] /\ Decide(Hydrated(m))
    BY <1>4 DEF Hydrate
  <2>2. Hydrated(m) \in State /\ Hydrated(m).print = NoPrint
    BY <1>2, HydratedTyped
  <2>3. SamePrints
    BY <2>1, <2>2 DEF TypeInv, SamePrints
  <2> QED  BY <1>1, <1>2, <2>1, <2>2, <2>3, DecideOutcome
<1>5. CASE Handle
  <2>1. CASE obs \in seen \cup Ignored /\ Proceed("done", 0) /\ UNCHANGED <<failed, states, seen, journalVars>>
    BY <1>1, <1>3, <2>1 DEF Proceed, Outcome, SamePrints
  <2>2. CASE Admit(LateRecord(obs)) /\ UNCHANGED states
    <3> DEFINE late == LateRecord(obs)
    <3>1. late \in LogEntry /\ late.obs = obs
      BY <1>2, KnownStates, RecordsTyped DEF LateRecord
    <3> HIDE DEF late
    <3> QED  BY <1>1, <1>2, <2>2, <3>1, AdmitOutcome DEF late, SamePrints
  <2>3. CASE Decide(states[obs.machine]) /\ UNCHANGED states
    <3>1. states[obs.machine] \in State
      BY <1>2 DEF TypeInv
    <3> QED  BY <1>1, <1>2, <2>3, <3>1, DecideOutcome DEF SamePrints
  <2>4. CASE Proceed("hydrate", 0) /\ UNCHANGED <<failed, states, seen, journalVars>>
    BY <1>1, <1>3, <2>4 DEF Proceed, Outcome, SamePrints
  <2> QED  BY <1>5, <2>1, <2>2, <2>3, <2>4 DEF Handle
<1> QED  BY <1>1, <1>4, <1>5

-----------------------------------------------------------------------------
(* Types.  The journal after a reading was handled, or not.                *)
JournalTyped ==
  /\ log \in Seq(LogEntry) /\ Len(log) <= MaxLog
  /\ durable \in LogIndex /\ done \in 0..durable
  /\ latest \in [Machines -> LogIndex] /\ saved \in [Machines -> LogIndex]
  /\ \A m \in Machines : saved[m] <= durable

(* TypeInv, one line for each part of the state.                           *)
SessionTyped == feed \in Feeds /\ horizon \in Nat /\ owed \subseteq Publications
LinkTyped ==
  online \in BOOLEAN /\ sent \in {0} \cup Publications /\ acks \subseteq Publications
HandlerTyped ==
  /\ handler \in [msg : Nat, pc : Stages, at : Nat, same : BOOLEAN]
  /\ handler.msg \in {0} \cup Publications /\ handler.at \in LogIndex
  /\ handler.pc # "idle" => handler.msg # 0
ProcessTyped ==
  /\ up \in BOOLEAN /\ failed \in BOOLEAN
  /\ states \in [Machines -> State] /\ seen \subseteq Range(feed)

(* Together they are TypeInv.                                              *)
LEMMA TypeParts ==
  TypeInv <=> /\ JournalTyped /\ SessionTyped /\ LinkTyped /\ HandlerTyped /\ ProcessTyped
BY DEF TypeInv, TypeOK, Stages, JournalTyped, SessionTyped, LinkTyped, HandlerTyped, ProcessTyped

(* A message that goes on, one that is done with, a connection that is      *)
(* closed.                                                                 *)
LEMMA ProceedTyped ==
  ASSUME HandlerTyped, Publications' = Publications, handler.pc # "idle",
         NEW pc \in Stages, NEW at \in Nat, at \in LogIndex',
         handler' = [handler EXCEPT !.pc = pc, !.at = at]
  PROVE  HandlerTyped'
<1>1. /\ handler' \in [msg : Nat, pc : Stages, at : Nat, same : BOOLEAN]
      /\ handler'.msg = handler.msg /\ handler'.at = at
  BY DEF HandlerTyped
<1> QED  BY <1>1 DEF HandlerTyped

(* Between two messages the handler has its types.                          *)
LEMMA IdleTyped ==
  ASSUME Publications' = Publications, 0 \in LogIndex', handler' = Idle
  PROVE  HandlerTyped'
<1>1. handler' \in [msg : Nat, pc : Stages, at : Nat, same : BOOLEAN]
  BY DEF Idle, Stages
<1>2. handler'.msg = 0 /\ handler'.at = 0 /\ handler'.pc = "idle"
  BY DEF Idle
<1> QED  BY <1>1, <1>2 DEF HandlerTyped

(* A connection that ends leaves the link its types.                        *)
LEMMA OfflineTyped ==
  ASSUME Offline  PROVE LinkTyped'
BY DEF LinkTyped, Offline

(* append() keeps the journal's types.                                     *)
LEMMA AppendedTyped ==
  ASSUME TypeInv, NEW rec \in LogEntry, Appended(rec)
  PROVE  JournalTyped' /\ LogIndex \subseteq LogIndex' /\ Len(log') \in LogIndex'
<1>1. JournalTyped /\ Len(log) \in Nat
  BY TypeParts DEF TypeInv
<1>2. /\ log' \in Seq(LogEntry) /\ Len(log') = Len(log) + 1 /\ Len(log') <= MaxLog
      /\ latest' \in [Machines -> 0..Len(log')]
      /\ durable' = durable /\ done' = done /\ saved' = saved
  BY AppendedParts
<1>3. LogIndex \subseteq LogIndex' /\ Len(log') \in LogIndex'
  BY <1>1, <1>2 DEF LogIndex
<1>4. saved \in [Machines -> LogIndex']
  BY <1>1, <1>3 DEF JournalTyped
<1> QED  BY <1>1, <1>2, <1>3, <1>4 DEF JournalTyped, LogIndex

(* Handling a message keeps the types.                                     *)
LEMMA HandleTyped ==
  ASSUME TypeInv, Handle \/ Hydrate  PROVE TypeInv'
<1>1. Outcome(Observed) /\ UNCHANGED <<brokerVars, up>> /\ handler.pc # "idle"
  BY HandleOutcome
<1>2. JournalTyped /\ SessionTyped /\ LinkTyped /\ HandlerTyped /\ ProcessTyped
  BY TypeParts
<1>3. JournalTyped' /\ LogIndex \subseteq LogIndex'
  <2>1. CASE UNCHANGED journalVars
    BY <1>2, <2>1 DEF JournalTyped, journalVars, LogIndex
  <2>2. CASE \E rec \in LogEntry : Appended(rec)
    BY <2>2, AppendedTyped
  <2> QED  BY <1>1, <2>1, <2>2 DEF Outcome
<1>4. Publications' = Publications /\ feed' = feed
  BY <1>1 DEF brokerVars, Publications
<1>5. HandlerTyped' /\ LinkTyped'
  <2>0. 0 \in LogIndex'
    BY <1>3 DEF JournalTyped, LogIndex
  <2>1. CASE handler' = Idle /\ Offline
    BY <1>4, <2>0, <2>1, IdleTyped, OfflineTyped
  <2>2. CASE UNCHANGED linkVars /\ \E pc \in {"done", "hydrate"} : handler' = [handler EXCEPT !.pc = pc, !.at = 0]
    <3>1. LinkTyped'
      BY <1>2, <1>4, <2>2 DEF linkVars, LinkTyped
    <3> QED  BY <1>1, <1>2, <1>4, <2>0, <2>2, <3>1, ProceedTyped DEF Stages
  <2>3. CASE /\ UNCHANGED linkVars /\ \E rec \in LogEntry : Appended(rec)
             /\ handler' = [handler EXCEPT !.pc = "sync", !.at = Len(log')]
    <3>1. Len(log') \in LogIndex' /\ Len(log') \in Nat
      BY <1>3, <2>3, AppendedTyped DEF JournalTyped
    <3>2. LinkTyped'
      BY <1>2, <1>4, <2>3 DEF linkVars, LinkTyped
    <3> QED  BY <1>1, <1>2, <1>4, <2>3, <3>1, <3>2, ProceedTyped DEF Stages
  <2> QED  BY <1>1, <2>1, <2>2, <2>3 DEF Outcome
<1>6. ProcessTyped' /\ SessionTyped'
  <2>1. DOMAIN states' = Machines /\ states' = [m \in Machines |-> states'[m]]
    <3>1. states' = states \/ \E m \in Machines : states' = [states EXCEPT ![m] = Hydrated(m)]
      BY <1>1, FeedTyped DEF Handle, Hydrate, Observation
    <3> QED  BY <1>2, <3>1 DEF ProcessTyped
  <2>2. states' \in [Machines -> State]
    BY <1>1, <1>2, <2>1 DEF Outcome, SamePrints, ProcessTyped
  <2> QED  BY <1>1, <1>2, <1>4, <2>2 DEF Outcome, ProcessTyped, SessionTyped, brokerVars
<1> QED  BY <1>3, <1>5, <1>6, TypeParts, PTL

(* The end of an await: accepted, or refused.                              *)
LEMMA AwaitedTyped ==
  ASSUME TypeInv, Accepted \/ QueryFails \/ SyncRejected \/ Acknowledge \/ Forget
  PROVE  TypeInv'
<1>1. JournalTyped /\ SessionTyped /\ LinkTyped /\ HandlerTyped /\ ProcessTyped
  BY TypeParts
<1>2. UNCHANGED <<brokerVars, up, failed, journalVars>>
  BY DEF Accepted, QueryFails, SyncRejected, Acknowledge, Forget, processVars
<1>3. Publications' = Publications /\ LogIndex' = LogIndex /\ 0 \in LogIndex
  BY <1>1, <1>2 DEF Publications, LogIndex, brokerVars, journalVars, JournalTyped
<1>4. JournalTyped' /\ SessionTyped'
  BY <1>1, <1>2, <1>3 DEF JournalTyped, SessionTyped, brokerVars, journalVars
<1>5. ProcessTyped'
  <2>1. CASE ~Accepted
    BY <1>1, <1>2, <2>1 DEF ProcessTyped, QueryFails, SyncRejected, Acknowledge, Forget, Reject,
                            processVars, brokerVars
  <2>2. CASE Accepted
    <3>1. handler.pc # "idle" /\ handler.at \in LogIndex
      BY <1>1, <2>2 DEF Accepted, HandlerTyped, Stages
    <3>2. Observed \in Range(feed)
      BY <3>1, FeedTyped DEF Observed, Range, Publications
    <3>3. StateAt(handler.at) \in State
      BY <3>1, StateAtTyped
    <3>4. \/ states' = states
          \/ states' = [states EXCEPT ![log[handler.at].obs.machine] = StateAt(handler.at)]
      BY <2>2 DEF Accepted
    <3>5. seen' = seen \cup {Observed}
      BY <2>2 DEF Accepted
    <3> QED  BY <1>1, <1>2, <3>2, <3>3, <3>4, <3>5 DEF ProcessTyped, brokerVars
  <2> QED  BY <2>1, <2>2
<1>6. LinkTyped' /\ HandlerTyped'
  <2>1. CASE Accepted \/ Forget
    <3>1. LinkTyped'
      BY <1>1, <1>3, <2>1 DEF Accepted, Forget, Proceed, linkVars, LinkTyped
    <3>2. CASE Forget
      BY <1>1, <1>3, <3>1, <3>2 DEF Forget, HandlerTyped
    <3>3. CASE Accepted
      <4>1. handler.pc # "idle" /\ handler' = [handler EXCEPT !.pc = "done", !.at = 0]
        BY <3>3 DEF Accepted, Proceed
      <4> QED  BY <1>1, <1>3, <3>1, <4>1, ProceedTyped DEF Stages
    <3> QED  BY <2>1, <3>2, <3>3
  <2>2. CASE QueryFails \/ SyncRejected
    BY <1>3, <2>2, IdleTyped, OfflineTyped DEF QueryFails, SyncRejected, Reject, AfterRejection
  <2>3. CASE Acknowledge
    <3>1. handler.msg \in Publications
      BY <1>1, <2>3 DEF Acknowledge, HandlerTyped, Stages
    <3>2. LinkTyped' /\ handler' = Idle
      BY <1>1, <1>3, <2>3, <3>1 DEF Acknowledge, LinkTyped
    <3> QED  BY <1>3, <3>2, IdleTyped
  <2> QED  BY <2>1, <2>2, <2>3
<1> QED  BY <1>4, <1>5, <1>6, TypeParts, PTL

(* The broker and the network.                                             *)
LEMMA NetworkTyped ==
  ASSUME TypeInv, Network \/ Deliver  PROVE TypeInv'
<1>1. JournalTyped /\ SessionTyped /\ LinkTyped /\ HandlerTyped /\ ProcessTyped
  BY TypeParts
<1>2. feed' = feed /\ UNCHANGED <<processVars, journalVars>>
  BY DEF Network, Connect, ConnectionLost, AckArrives, Age, Deliver, brokerVars
<1>3. Publications' = Publications /\ LogIndex' = LogIndex /\ 0 \in LogIndex
  BY <1>1, <1>2 DEF Publications, LogIndex, journalVars, JournalTyped
<1>4. JournalTyped' /\ ProcessTyped'
  BY <1>1, <1>2, <1>3 DEF JournalTyped, ProcessTyped, processVars, journalVars
<1>5. SessionTyped'
  <2>1. owed' \subseteq owed
    BY DEF Network, Connect, ConnectionLost, AckArrives, Age, Deliver, brokerVars
  <2>2. horizon' \in Nat
    <3>1. \A i \in owed : feed[i].time \in Nat
      BY <1>1, FeedTyped DEF SessionTyped, Observation
    <3> QED
      BY <1>1, <3>1 DEF SessionTyped, Network, Connect, ConnectionLost, AckArrives, Age, Deliver, brokerVars
  <2> QED  BY <1>1, <1>2, <1>3, <2>1, <2>2 DEF SessionTyped
<1>6. LinkTyped' /\ HandlerTyped'
  <2>1. CASE Connect
    BY <1>1, <1>3, <2>1 DEF Connect, LinkTyped, HandlerTyped, Stages
  <2>2. CASE ConnectionLost \/ AckArrives \/ Age
    BY <1>1, <1>3, <2>2 DEF ConnectionLost, AckArrives, Age, Offline, linkVars, LinkTyped, HandlerTyped, Stages
  <2>3. CASE Deliver
    <3> DEFINE i == Min(ToSend)
    <3>1. i \in Publications /\ i \in Nat \ {0}
      <4>1. ToSend \in SUBSET Publications /\ ToSend # {}
        BY <1>1, <2>3 DEF ToSend, SessionTyped, Deliver
      <4> QED  BY <4>1, LeastPublication, FeedTyped
    <3>2. \/ Offline /\ UNCHANGED handler
          \/ sent' = i /\ acks' = acks \cup {i} /\ UNCHANGED <<online, handler>>
          \/ /\ sent' = i /\ UNCHANGED <<online, acks>>
             /\ \E pc \in {"stale", "lookup"} : handler' = [msg |-> i, at |-> 0, same |-> TRUE, pc |-> pc]
      BY <2>3 DEF Deliver
    <3> HIDE DEF i
    <3>3. LinkTyped'
      BY <1>1, <1>3, <3>1, <3>2, OfflineTyped DEF LinkTyped
    <3>4. CASE UNCHANGED handler
      BY <1>1, <1>3, <3>3, <3>4 DEF HandlerTyped
    <3>5. CASE \E pc \in {"stale", "lookup"} : handler' = [msg |-> i, at |-> 0, same |-> TRUE, pc |-> pc]
      <4>1. PICK pc \in {"stale", "lookup"} : handler' = [msg |-> i, at |-> 0, same |-> TRUE, pc |-> pc]
        BY <3>5
      <4>2. /\ handler' \in [msg : Nat, pc : Stages, at : Nat, same : BOOLEAN]
            /\ handler'.msg = i /\ handler'.at = 0
        BY <3>1, <4>1 DEF Stages
      <4> QED  BY <1>3, <3>1, <3>3, <4>2 DEF HandlerTyped
    <3> QED  BY <3>2, <3>4, <3>5
  <2> QED  BY <2>1, <2>2, <2>3 DEF Network
<1> QED  BY <1>4, <1>5, <1>6, TypeParts, PTL

(* An fsync ends; the writer deletes, having saved the durable states.     *)
LEMMA StorageTyped ==
  ASSUME TypeInv, Storage  PROVE TypeInv'
<1>1. JournalTyped /\ SessionTyped /\ LinkTyped /\ HandlerTyped /\ ProcessTyped
  BY TypeParts
<1>2. UNCHANGED <<brokerVars, linkVars, up, states, seen, handler, log, latest>>
  BY DEF Storage, Fsync, Release, processVars
<1>3. Publications' = Publications /\ LogIndex' = LogIndex
  BY <1>2 DEF Publications, LogIndex, brokerVars
<1>4. SessionTyped' /\ LinkTyped' /\ HandlerTyped'
  BY <1>1, <1>2, <1>3 DEF brokerVars, linkVars, SessionTyped, LinkTyped, HandlerTyped, Stages
<1>5. ProcessTyped'
  BY <1>1, <1>2 DEF ProcessTyped, brokerVars, Storage, Fsync, Release, processVars
<1>6. JournalTyped'
  <2>0. Len(log) \in Nat /\ durable \in Nat /\ durable <= Len(log)
    BY <1>1 DEF JournalTyped, LogIndex
  <2>1. CASE Fsync
    <3>1. /\ durable' \in LogIndex /\ durable <= durable' /\ UNCHANGED <<done, saved>>
      BY <1>1, <2>0, <2>1 DEF Fsync, JournalTyped, LogIndex
    <3> QED  BY <1>1, <1>2, <1>3, <2>0, <3>1 DEF JournalTyped, LogIndex
  <2>2. CASE Release
    <3>1. durable' = durable /\ done' \in (done + 1)..durable /\ saved' = SavedStates
      BY <2>2 DEF Release
    <3>2. /\ saved' \in [Machines -> LogIndex]
          /\ \A m \in Machines : saved'[m] <= durable
      BY <1>1, <2>0, <3>1 DEF SavedStates, JournalTyped, LogIndex
    <3> QED  BY <1>1, <1>2, <1>3, <2>0, <3>1, <3>2 DEF JournalTyped
  <2> QED  BY <2>1, <2>2 DEF Storage
<1> QED  BY <1>4, <1>5, <1>6, TypeParts, PTL

(* What a process that ends leaves of the log: all that is durable.        *)
LEMMA EndsParts ==
  ASSUME TypeInv, Shutdown \/ ProcessCrash \/ PowerLoss
  PROVE  \E n \in durable..Len(log) :
           /\ Ends(n) /\ log' = SubSeq(log, 1, n) /\ log' \in Seq(LogEntry) /\ Len(log') = n
           /\ \A j \in 1..n : log'[j] = log[j]
           /\ n = Len(log) \/ "power" \in Faults
<1>1. log \in Seq(LogEntry) /\ Len(log) \in Nat /\ durable \in 0..Len(log)
  BY DEF TypeInv, TypeOK, LogIndex
<1>2. PICK n \in durable..Len(log) : Ends(n) /\ (n = Len(log) \/ "power" \in Faults)
  BY <1>1 DEF Shutdown, ProcessCrash, PowerLoss
<1>3. log' = SubSeq(log, 1, n)
  BY <1>2 DEF Ends
<1>4. n \in Nat /\ n <= Len(log)
  BY <1>1, <1>2
<1>5. log' \in Seq(LogEntry) /\ Len(log') = n /\ \A j \in 1..n : log'[j] = log[j]
  BY <1>1, <1>3, <1>4
<1> QED  BY <1>2, <1>3, <1>5

(* The process starts and ends.                                            *)
LEMMA ProcessSteps ==
  ASSUME TypeInv, Process  PROVE TypeInv'
<1>1. JournalTyped /\ SessionTyped /\ LinkTyped /\ HandlerTyped /\ ProcessTyped
  BY TypeParts
<1>2. UNCHANGED brokerVars
  BY DEF Process, Start, Shutdown, ProcessCrash, PowerLoss, Ends
<1>3. Publications' = Publications /\ feed' = feed /\ SessionTyped'
  BY <1>1, <1>2 DEF Publications, brokerVars, SessionTyped
<1>4. CASE Start
  <2>1. /\ up' = TRUE /\ failed' = FALSE /\ UNCHANGED <<linkVars, seen, handler, log, done, saved>>
        /\ latest' = Recovered(Len(log)) /\ durable' = Len(log)
        /\ states' = [m \in Machines |-> StateAt(latest'[m])]
    BY <1>4 DEF Start
  <2>2. latest' \in [Machines -> LogIndex] /\ LogIndex' = LogIndex
    BY <2>1, RecoveredTyped DEF LogIndex
  <2>3. states' \in [Machines -> State]
    BY <2>1, <2>2, StateAtTyped
  <2>4. JournalTyped'
    BY <1>1, <2>1, <2>2 DEF JournalTyped, LogIndex
  <2>5. LinkTyped' /\ HandlerTyped' /\ ProcessTyped'
    BY <1>1, <1>3, <2>1, <2>2, <2>3 DEF linkVars, LinkTyped, HandlerTyped, Stages, ProcessTyped
  <2> QED  BY <1>3, <2>4, <2>5, TypeParts, PTL
<1>5. CASE Shutdown \/ ProcessCrash \/ PowerLoss
  <2>1. PICK n \in durable..Len(log) : Ends(n) /\ log' \in Seq(LogEntry) /\ Len(log') = n
    BY <1>5, EndsParts
  <2>2. /\ up' = FALSE /\ failed' = FALSE /\ Offline /\ handler' = Idle /\ seen' = {}
        /\ states' = [m \in Machines |-> Unknown] /\ latest' = [m \in Machines |-> 0]
        /\ UNCHANGED <<durable, done, saved>>
    BY <2>1 DEF Ends
  <2>3. Len(log) \in Nat /\ durable \in Nat /\ n \in Nat /\ durable <= n /\ n <= Len(log)
    BY <1>1, <2>1 DEF JournalTyped, LogIndex
  <2>4. LogIndex' = 0..n
    BY <2>1 DEF LogIndex
  <2>5. saved \in [Machines -> 0..n]
    BY <1>1, <2>3 DEF JournalTyped, LogIndex
  <2>6. JournalTyped'
    BY <1>1, <2>1, <2>2, <2>3, <2>4, <2>5, CollectorAssumption DEF JournalTyped, LogIndex
  <2>7. LinkTyped' /\ HandlerTyped' /\ ProcessTyped'
    <3>1. 0 \in LogIndex'
      BY <2>3, <2>4
    <3>2. ProcessTyped'
      BY <2>2, KnownStates DEF ProcessTyped
    <3> QED  BY <1>3, <2>2, <3>1, <3>2, IdleTyped, OfflineTyped
  <2> QED  BY <1>3, <2>6, <2>7, TypeParts, PTL
<1> QED  BY <1>4, <1>5 DEF Process

(* Every step keeps the types,                                             *)
LEMMA NextTyped ==
  ASSUME TypeInv, [Next]_vars  PROVE TypeInv'
<1>1. CASE UNCHANGED vars
  <2>1. JournalTyped' /\ SessionTyped' /\ LinkTyped' /\ HandlerTyped' /\ ProcessTyped'
    BY <1>1, TypeParts
    DEF vars, brokerVars, linkVars, processVars, journalVars, JournalTyped, SessionTyped,
        LinkTyped, HandlerTyped, ProcessTyped, Publications, LogIndex
  <2> QED  BY <2>1, TypeParts, PTL
<1> QED
  BY <1>1, HandleTyped, AwaitedTyped, NetworkTyped, StorageTyped, ProcessSteps
  DEF Next, Admission, Processor

(* which hold when nothing has been sent yet.                              *)
LEMMA InitTyped == Init => TypeInv
<1> SUFFICES ASSUME Init  PROVE TypeInv
  OBVIOUS
<1>1. log = <<>> /\ Len(log) = 0 /\ LogIndex = 0..0
  BY DEF Init, LogIndex
<1>2. JournalTyped
  BY <1>1, CollectorAssumption DEF Init, JournalTyped
<1>3. SessionTyped /\ LinkTyped
  BY DEF Init, SessionTyped, LinkTyped, Publications
<1>4. HandlerTyped
  <2>1. handler \in [msg : Nat, pc : Stages, at : Nat, same : BOOLEAN]
    BY DEF Init, Idle, Stages
  <2> QED  BY <1>1, <2>1 DEF Init, Idle, HandlerTyped
<1>5. ProcessTyped
  BY KnownStates DEF Init, ProcessTyped
<1> QED  BY <1>2, <1>3, <1>4, <1>5, TypeParts

-----------------------------------------------------------------------------
(* What is kept: an observation that is ignored or that a record which no  *)
(* crash can take away is of.                                              *)
Kept(obs) == obs \in Ignored \/ \E j \in Surviving : log[j].obs = obs

(* After a step.                                                           *)
StillKept(obs) == obs \in Ignored \/ \E j \in Surviving' : log'[j].obs = obs

(* All that lets go of a publication rests on what is kept: the PUBACKs    *)
(* sent and on their way, the message just handled, the fingerprints and   *)
(* the states duplicates are told by.  One waiting for its fsync is in the *)
(* journal.                                                                *)
KeptInv ==
  /\ \A i \in Publications : i \notin owed \/ i \in acks => Kept(feed[i])
  /\ handler.pc = "done" => Kept(Observed)
  /\ handler.pc = "sync" => handler.at \in 1..Len(log) /\ log[handler.at].obs = Observed
  /\ \A obs \in seen : Kept(obs)
  /\ \A m \in Machines : states[m].print # NoPrint => Kept(states[m].print)

(* No step takes away a record that survives.                              *)
LEMMA SurvivorsStay ==
  ASSUME TypeInv, [Next]_vars, NEW obs, Kept(obs)  PROVE StillKept(obs)
<1>1. Len(log) \in Nat /\ durable \in 0..Len(log)
  BY DEF TypeInv, TypeOK, LogIndex
<1>2. Surviving = (IF up /\ "power" \in Faults THEN 1..durable ELSE 1..Len(log))
  BY DEF Surviving
<1>3. CASE up' = up /\ log' = log /\ durable' \in Nat /\ durable <= durable'
  <2>1. Surviving \subseteq Surviving'
    BY <1>1, <1>3 DEF Surviving
  <2> QED  BY <1>3, <2>1 DEF Kept, StillKept
<1>4. CASE up' = up /\ \E rec \in LogEntry : Appended(rec)
  <2>1. PICK rec \in LogEntry : Appended(rec)
    BY <1>4
  <2>2. Len(log') = Len(log) + 1 /\ durable' = durable /\ \A j \in 1..Len(log) : log'[j] = log[j]
    BY <2>1, AppendedParts
  <2>3. Surviving \subseteq Surviving' /\ Surviving \subseteq 1..Len(log)
    BY <1>1, <1>4, <2>2 DEF Surviving
  <2> QED  BY <2>2, <2>3 DEF Kept, StillKept
<1>5. CASE Start
  <2>1. ~up /\ up' /\ log' = log /\ durable' = Len(log)
    BY <1>5 DEF Start
  <2>2. Surviving' = Surviving
    BY <2>1 DEF Surviving
  <2> QED  BY <2>1, <2>2 DEF Kept, StillKept
<1>6. CASE Shutdown \/ ProcessCrash \/ PowerLoss
  <2>1. PICK n \in durable..Len(log) :
          /\ Ends(n) /\ Len(log') = n /\ \A j \in 1..n : log'[j] = log[j]
          /\ n = Len(log) \/ "power" \in Faults
    BY <1>6, EndsParts
  <2>2. up /\ ~up'
    BY <2>1 DEF Ends
  <2>3. Surviving' = 1..n /\ Surviving \subseteq 1..n
    BY <1>1, <2>1, <2>2 DEF Surviving
  <2> QED  BY <2>1, <2>3 DEF Kept, StillKept
<1>7. CASE Handle \/ Hydrate
  BY <1>1, <1>3, <1>4, <1>7, HandleOutcome DEF Outcome, journalVars
<1>8. CASE Network \/ Admission \/ QueryFails \/ Accepted \/ SyncRejected \/ Forget \/ UNCHANGED vars
  <2>1. up' = up /\ log' = log /\ durable' = durable
    BY <1>8
    DEF Network, Connect, ConnectionLost, AckArrives, Age, Admission, Deliver, Acknowledge,
        QueryFails, Accepted, SyncRejected, Forget, vars, processVars, journalVars
  <2> QED  BY <1>1, <1>3, <2>1
<1>9. CASE Storage
  <2>1. up' = up /\ log' = log /\ (durable' = durable \/ durable' \in (durable + 1)..Len(log))
    BY <1>9 DEF Storage, Fsync, Release, processVars
  <2> QED  BY <1>1, <1>3, <2>1
<1> QED  BY <1>5, <1>6, <1>7, <1>8, <1>9 DEF Next, Processor, Process

(* What a step has to show beside that.                                    *)
LEMMA KeptAfter ==
  ASSUME TypeInv, KeptInv, [Next]_vars, feed' = feed,
         \A i \in Publications :
           i \notin owed' \/ i \in acks' => i \notin owed \/ i \in acks \/ StillKept(feed[i]),
         handler'.pc = "done" => StillKept(feed[handler'.msg]),
         handler'.pc = "sync" =>
           handler'.at \in 1..Len(log') /\ log'[handler'.at].obs = feed[handler'.msg],
         \A obs \in seen' : obs \in seen \/ StillKept(obs),
         \A m \in Machines : \/ states'[m].print \in {NoPrint, states[m].print}
                             \/ StillKept(states'[m].print)
  PROVE  KeptInv'
<1>1. \A obs : Kept(obs) => StillKept(obs)
  BY SurvivorsStay
<1>2. \A i \in Publications : i \notin owed' \/ i \in acks' => StillKept(feed[i])
  BY <1>1 DEF KeptInv
<1>3. \A obs \in seen' : StillKept(obs)
  BY <1>1 DEF KeptInv
<1>4. \A m \in Machines : states'[m].print # NoPrint => StillKept(states'[m].print)
  BY <1>1 DEF KeptInv
<1> QED  BY <1>2, <1>3, <1>4 DEF KeptInv, Kept, StillKept, Observed, Publications

(* Handling a message lets go of it only as a duplicate of what is kept.   *)
LEMMA HandleKeeps ==
  ASSUME TypeInv, KeptInv, Handle \/ Hydrate  PROVE KeptInv'
<1>1. Outcome(Observed) /\ UNCHANGED <<brokerVars, up>> /\ handler.pc # "idle"
  BY HandleOutcome
<1>2. [Next]_vars /\ feed' = feed /\ owed' = owed
  BY <1>1 DEF Next, Processor, brokerVars
<1>3. seen' = seen /\ acks' \subseteq acks
  BY <1>1 DEF Outcome, Offline, linkVars
<1>4. \A m \in Machines : states'[m].print \in {NoPrint, states[m].print}
  BY <1>1 DEF Outcome, SamePrints
<1>5. Observed \in Observation /\ Observed = feed[handler.msg]
  BY <1>1, FeedTyped DEF Observed
<1>6. Observed # NoPrint
  BY <1>5 DEF Observation, NoPrint
<1>a. /\ handler' = Idle => handler'.pc = "idle"
      /\ \A pc : \A at : handler' = [handler EXCEPT !.pc = pc, !.at = at] =>
           handler'.pc = pc /\ handler'.at = at /\ handler'.msg = handler.msg
  <2>1. handler' = Idle => handler'.pc = "idle"
    BY DEF Idle
  <2>2. ASSUME NEW pc, NEW at, handler' = [handler EXCEPT !.pc = pc, !.at = at]
        PROVE  handler'.pc = pc /\ handler'.at = at /\ handler'.msg = handler.msg
    BY <2>2 DEF TypeInv
  <2> QED  BY <2>1, <2>2
<1>b. /\ handler' = [handler EXCEPT !.pc = "hydrate", !.at = 0] => handler'.pc = "hydrate"
      /\ handler' = [handler EXCEPT !.pc = "sync", !.at = Len(log')] => handler'.pc = "sync"
  BY <1>a
<1>7. handler'.pc = "done" => StillKept(feed[handler'.msg])
  <2> SUFFICES ASSUME handler'.pc = "done"  PROVE StillKept(feed[handler'.msg])
    OBVIOUS
  <2>1. /\ handler' = [handler EXCEPT !.pc = "done", !.at = 0]
        /\ Observed \in seen \cup Ignored \/ \E m \in Machines : Observed = states[m].print
    BY <1>1, <1>a, <1>b DEF Outcome
  <2>2. handler'.msg = handler.msg
    BY <1>a, <2>1
  <2>3. Kept(Observed)
    BY <1>6, <2>1 DEF KeptInv, Kept
  <2> QED  BY <1>2, <1>5, <2>2, <2>3, SurvivorsStay
<1>8. handler'.pc = "sync" =>
        handler'.at \in 1..Len(log') /\ log'[handler'.at].obs = feed[handler'.msg]
  <2> SUFFICES ASSUME handler'.pc = "sync"
               PROVE  handler'.at \in 1..Len(log') /\ log'[handler'.at].obs = feed[handler'.msg]
    OBVIOUS
  <2>1. /\ handler' = [handler EXCEPT !.pc = "sync", !.at = Len(log')]
        /\ \E rec \in LogEntry : rec.obs = Observed /\ Appended(rec)
    BY <1>1, <1>a DEF Outcome
  <2>2. PICK rec \in LogEntry : rec.obs = Observed /\ Appended(rec)
    BY <2>1
  <2>3. Len(log') = Len(log) + 1 /\ log'[Len(log')] = rec /\ Len(log) \in Nat
    BY <2>2, AppendedParts DEF TypeInv
  <2>4. handler'.msg = handler.msg /\ handler'.at = Len(log')
    BY <1>a, <2>1
  <2> QED  BY <1>5, <2>2, <2>3, <2>4
<1> QED  BY <1>2, <1>3, <1>4, <1>7, <1>8, KeptAfter

(* A reading is accepted once its record survives.                         *)
LEMMA AcceptedKeeps ==
  ASSUME TypeInv, KeptInv, Accepted  PROVE KeptInv'
<1>1. /\ handler.pc = "sync" /\ handler.at <= durable
      /\ seen' = seen \cup {Observed} /\ handler' = [handler EXCEPT !.pc = "done", !.at = 0]
      /\ feed' = feed /\ owed' = owed /\ acks' = acks
      /\ states' \in {states, [states EXCEPT ![log[handler.at].obs.machine] = StateAt(handler.at)]}
  BY DEF Accepted, Synced, Proceed, linkVars, brokerVars
<1>2. [Next]_vars
  BY DEF Next, Processor
<1>3. handler.at \in 1..Len(log) /\ log[handler.at].obs = Observed /\ Observed = feed[handler.msg]
  BY <1>1 DEF KeptInv, Observed
<1>4. handler.at \in Surviving
  BY <1>1, <1>3 DEF Surviving, TypeInv, TypeOK, LogIndex
<1>5. StillKept(Observed)
  <2>1. Kept(Observed)
    BY <1>3, <1>4 DEF Kept
  <2> QED  BY <1>2, <2>1, SurvivorsStay
<1>6. handler'.msg = handler.msg /\ handler'.pc = "done"
  BY <1>1 DEF TypeInv
<1>7. StateAt(handler.at).print \in {NoPrint, Observed}
  BY <1>3, StateAtTyped DEF LogIndex
<1>8. \A m \in Machines : states'[m].print \in {NoPrint, states[m].print, Observed}
  BY <1>1, <1>7 DEF TypeInv
<1> QED  BY <1>1, <1>2, <1>3, <1>5, <1>6, <1>8, KeptAfter

(* A PUBACK is sent for what is kept.                                      *)
LEMMA SessionKeeps ==
  ASSUME TypeInv, KeptInv, Acknowledge \/ Network \/ Deliver  PROVE KeptInv'
<1>1. [Next]_vars /\ feed' = feed /\ UNCHANGED <<processVars, journalVars>>
  BY DEF Next, Admission, Acknowledge, Network, Connect, ConnectionLost, AckArrives, Age, Deliver, brokerVars
<1>2. \A obs : Kept(obs) => StillKept(obs)
  BY <1>1, SurvivorsStay
<1>3. seen' = seen /\ states' = states /\ log' = log
  BY <1>1 DEF processVars, journalVars
<1>4. CASE Acknowledge
  <2>1. /\ handler' = Idle /\ owed' = owed /\ acks' \subseteq acks \cup {handler.msg}
        /\ handler.pc = "done"
    BY <1>4 DEF Acknowledge, brokerVars
  <2>2. StillKept(feed[handler.msg])
    BY <1>2, <2>1 DEF KeptInv, Observed
  <2>3. handler'.pc = "idle"
    BY <2>1 DEF Idle
  <2> QED  BY <1>1, <1>3, <2>1, <2>2, <2>3, KeptAfter
<1>5. CASE Connect
  <2>1. acks' = {} /\ owed' = owed /\ handler' = [handler EXCEPT !.same = FALSE]
    BY <1>5 DEF Connect, brokerVars
  <2>2. handler'.pc = handler.pc /\ handler'.at = handler.at /\ handler'.msg = handler.msg
    BY <2>1 DEF TypeInv
  <2> QED  BY <1>1, <1>2, <1>3, <2>1, <2>2, KeptAfter DEF KeptInv, Observed
<1>6. CASE ConnectionLost \/ Age
  <2>1. acks' \subseteq acks /\ owed' = owed /\ handler' = handler
    BY <1>6 DEF ConnectionLost, Age, Offline, brokerVars, linkVars
  <2> QED  BY <1>1, <1>2, <1>3, <2>1, KeptAfter DEF KeptInv, Observed
<1>7. CASE AckArrives
  <2>1. acks # {} /\ owed' = owed \ {Min(acks)} /\ acks' \subseteq acks /\ handler' = handler
    BY <1>7 DEF AckArrives
  <2>2. Min(acks) \in acks
    BY <2>1, LeastPublication DEF TypeInv, TypeOK
  <2> QED  BY <1>1, <1>2, <1>3, <2>1, <2>2, KeptAfter DEF KeptInv, Observed
<1>8. CASE Deliver
  <2> DEFINE i == Min(ToSend)
  <2>0. \/ acks' = {} /\ handler' = handler
        \/ acks' = acks \cup {i} /\ feed[i] \in Ignored /\ handler' = handler
        \/ /\ acks' = acks
           /\ \E pc \in {"stale", "lookup"} : handler' = [msg |-> i, at |-> 0, same |-> TRUE, pc |-> pc]
    BY <1>8 DEF Deliver, Offline
  <2>1. \/ acks' = {} /\ handler' = handler
        \/ acks' = acks \cup {i} /\ feed[i] \in Ignored /\ handler' = handler
        \/ acks' = acks /\ handler'.pc \in {"stale", "lookup"}
    BY <2>0
  <2>2. owed' = owed
    BY <1>8 DEF Deliver, brokerVars
  <2> HIDE DEF i
  <2>3. feed[i] \in Ignored => StillKept(feed[i])
    BY DEF StillKept
  <2> QED  BY <1>1, <1>2, <1>3, <2>1, <2>2, <2>3, KeptAfter DEF KeptInv, Observed
<1> QED  BY <1>4, <1>5, <1>6, <1>7, <1>8 DEF Network

(* A message that is refused, a fingerprint that is forgotten, the journal. *)
LEMMA OthersKeep ==
  ASSUME TypeInv, KeptInv, QueryFails \/ SyncRejected \/ Forget \/ Storage \/ UNCHANGED vars
  PROVE  KeptInv'
<1>1. [Next]_vars /\ feed' = feed /\ owed' = owed /\ acks' \subseteq acks /\ seen' \subseteq seen
      /\ states' = states /\ log' = log
  BY DEF Next, Processor, QueryFails, SyncRejected, Forget, Storage, Fsync, Release, Reject, Offline,
         vars, brokerVars, linkVars, processVars, journalVars
<1>2. \A obs : Kept(obs) => StillKept(obs)
  BY <1>1, SurvivorsStay
<1>3. handler' = handler \/ handler'.pc = "idle"
  BY DEF QueryFails, SyncRejected, Forget, Storage, Fsync, Release, Reject, AfterRejection, Idle, vars
<1> QED  BY <1>1, <1>2, <1>3, KeptAfter DEF KeptInv, Observed

(* A restart takes up the states of records that are left.                 *)
LEMMA RestartKeeps ==
  ASSUME TypeInv, KeptInv, Process  PROVE KeptInv'
<1>1. [Next]_vars /\ feed' = feed /\ owed' = owed
  BY DEF Next, Process, Start, Shutdown, ProcessCrash, PowerLoss, Ends, brokerVars
<1>2. \A obs : Kept(obs) => StillKept(obs)
  BY <1>1, SurvivorsStay
<1>3. CASE Start
  <2>1. /\ seen' = seen /\ acks' = acks /\ handler' = handler /\ log' = log /\ ~up
        /\ latest' = Recovered(Len(log)) /\ states' = [m \in Machines |-> StateAt(latest'[m])]
    BY <1>3 DEF Start, linkVars
  <2>2. \A m \in Machines : \/ states'[m].print = NoPrint
                            \/ \E j \in 1..Len(log) : states'[m].print = log[j].obs
    <3>1. latest' \in [Machines -> LogIndex]
      BY <2>1, RecoveredTyped
    <3> QED  BY <2>1, <3>1, StateAtTyped
  <2>3. Surviving = 1..Len(log)
    BY <2>1 DEF Surviving
  <2>4. \A m \in Machines : states'[m].print = NoPrint \/ StillKept(states'[m].print)
    BY <1>2, <2>2, <2>3 DEF Kept
  <2> QED  BY <1>1, <1>2, <2>1, <2>4, KeptAfter DEF KeptInv, Observed
<1>4. CASE Shutdown \/ ProcessCrash \/ PowerLoss
  <2>1. /\ seen' = {} /\ acks' = {} /\ handler' = Idle
        /\ states' = [m \in Machines |-> Unknown]
    BY <1>4 DEF Shutdown, ProcessCrash, PowerLoss, Ends, Offline
  <2>2. handler'.pc = "idle" /\ \A m \in Machines : states'[m].print = NoPrint
    BY <2>1, KnownStates DEF Idle
  <2> QED  BY <1>1, <2>1, <2>2, KeptAfter
<1> QED  BY <1>3, <1>4 DEF Process

(* Every reachable state has its types, whatever the faults.               *)
THEOREM CollectorTyping == Spec => []TypeOK
<1>1. TypeInv => TypeOK
  BY DEF TypeInv
<1>2. TypeInv /\ [Next]_vars => TypeInv'
  BY NextTyped
<1> QED  BY <1>1, <1>2, InitTyped, PTL DEF Spec

(* What the broker has had a PUBACK for is in the journal or the database,  *)
(* for any machines and any publications, duplicates, late and invalid ones *)
(* and those of a second included, with connections, queries, fsyncs,       *)
(* processes or power that fail at any moment.                             *)
THEOREM LetGo == Spec => []LetGoIsKept
<1>1. Init => KeptInv
  <2> SUFFICES ASSUME Init  PROVE KeptInv
    OBVIOUS
  <2>1. owed = Publications /\ acks = {} /\ handler.pc = "idle" /\ seen = {}
    BY DEF Init, Publications, Idle
  <2>2. \A m \in Machines : states[m].print = NoPrint
    BY KnownStates DEF Init
  <2> QED  BY <2>1, <2>2 DEF KeptInv
<1>2. TypeInv /\ KeptInv /\ [Next]_vars => TypeInv' /\ KeptInv'
  BY NextTyped, HandleKeeps, AcceptedKeeps, SessionKeeps, OthersKeep, RestartKeeps
  DEF Next, Admission, Processor
<1>3. TypeInv /\ KeptInv => LetGoIsKept
  BY DEF KeptInv, Kept, LetGoIsKept
<1> QED  BY <1>1, <1>2, <1>3, InitTyped, PTL DEF Spec

-----------------------------------------------------------------------------
(* Record j of the journal is a reading of machine m.                      *)
Of(m, j) == j \in 1..Len(log) /\ log[j].raw /\ log[j].obs.machine = m

(* After a step.                                                           *)
NowOf(m, j) == j \in 1..Len(log') /\ log'[j].raw /\ log'[j].obs.machine = m

(* The baseline of the message in hand.                                    *)
BaselineOf(m) == IF handler.pc = "hydrate" THEN Hydrated(m) ELSE states[m]

(* How admit() can end for a record: it waits for its fsync; it is written *)
(* and refused; it is refused.                                             *)
Admitted(rec) ==
  \/ /\ Appended(rec) /\ failed' = failed
     /\ handler' = [handler EXCEPT !.pc = "sync", !.at = Len(log')] /\ UNCHANGED linkVars
  \/ /\ Appended(rec) /\ handler' = Idle /\ Offline
     /\ failed' \/ ("space" \in Faults /\ failed' = failed)
  \/ UNCHANGED journalVars /\ handler' = Idle /\ Offline /\ (failed' \/ failed' = failed)

(* What handleMessage() can do with a reading: let go of it, ask the       *)
(* database for the baseline, keep it aside, or add it to the baseline.    *)
LetsGo(s, obs) ==
  /\ obs \in seen \cup Ignored \/ Repeated(s, obs)
  /\ handler' = [handler EXCEPT !.pc = "done", !.at = 0] /\ UNCHANGED linkVars
  /\ UNCHANGED <<journalVars, failed>>
Asks(s, obs) ==
  /\ handler.pc = "lookup" /\ obs \notin Ignored /\ s = Unknown
  /\ handler' = [handler EXCEPT !.pc = "hydrate", !.at = 0] /\ UNCHANGED linkVars
  /\ UNCHANGED <<journalVars, failed>>
KeepsAside(s, obs) ==
  /\ obs \notin Ignored
  /\ handler.pc = "stale" \/ (s # Unknown /\ Older(s, obs))
  /\ Admitted(LateRecord(obs))
Adds(s, obs) ==
  /\ handler.pc \in {"lookup", "hydrate"} /\ obs \notin Ignored
  /\ s # Unknown /\ ~Older(s, obs) /\ ~Repeated(s, obs)
  /\ Admitted(RawRecord(obs, StepOf(s, obs)))

(* What has been asked for was not known; it is of no ignored reading.     *)
AskedInv ==
  handler.pc = "hydrate" => states[Observed.machine] = Unknown /\ Observed \notin Ignored

(* hydrate() finds the last reading in the database, or none.              *)
LEMMA HydratedIs ==
  ASSUME TypeInv, NEW m \in Machines
  PROVE  \/ Hydrated(m) = NullState /\ \A j \in 1..done : ~Of(m, j)
         \/ \E last \in 1..done :
              /\ Of(m, last) /\ \A j \in 1..done : Of(m, j) => j <= last
              /\ Hydrated(m) = [time |-> log[last].obs.time, print |-> NoPrint, base |-> log[last].obs.count]
<1> DEFINE S == {0} \cup RawIn(m, 1..done)
           last == Max(S)
<1>1. Len(log) \in Nat /\ done \in 0..Len(log)
  BY DEF TypeInv, TypeOK, LogIndex
<1>2. S \in SUBSET (0..Len(log)) /\ S # {}
  BY <1>1 DEF RawIn
<1>3. last \in S /\ \A x \in S : x <= last
  <2> HIDE DEF S
  <2> QED  BY <1>1, <1>2, MaxIsGreatest
<1>4. Hydrated(m) = IF last = 0 THEN NullState
                    ELSE [time |-> log[last].obs.time, print |-> NoPrint, base |-> log[last].obs.count]
  BY DEF Hydrated
<1>5. \A j \in 1..done : Of(m, j) <=> j \in S
  BY <1>1 DEF Of, RawIn
<1>6. S \subseteq 0..done
  BY <1>1 DEF RawIn
<1> HIDE DEF S, last
<1>7. CASE last = 0
  <2>1. \A j \in 1..done : ~Of(m, j)
    BY <1>1, <1>3, <1>5, <1>7
  <2> QED  BY <1>4, <1>7, <2>1
<1>8. CASE last # 0
  <2>1. last \in 1..done
    BY <1>1, <1>3, <1>6, <1>8
  <2> QED  BY <1>3, <1>4, <1>5, <1>8, <2>1
<1> QED  BY <1>7, <1>8

(* So a baseline that has been asked for is known.                         *)
LEMMA HydratedKnown ==
  ASSUME TypeInv, NEW m \in Machines  PROVE Hydrated(m) # Unknown
<1>1. NullState.time = 0 /\ Unknown.time = -1
  BY DEF NullState, Unknown
<1>2. CASE Hydrated(m) = NullState
  BY <1>1, <1>2
<1>3. CASE Hydrated(m) # NullState
  <2>1. PICK last \in 1..done : Of(m, last) /\ Hydrated(m).time = log[last].obs.time
    BY <1>3, HydratedIs
  <2>2. log[last] \in LogEntry
    BY <2>1 DEF TypeInv, Of
  <2>3. log[last].obs.time \in Nat
    BY <2>2 DEF LogEntry, Observation
  <2> QED  BY <1>1, <2>1, <2>3
<1> QED  BY <1>2, <1>3

(* Handling a message is one of these.                                     *)
LEMMA HandleCases ==
  ASSUME TypeInv, AskedInv, Handle \/ Hydrate, NEW m, m = Observed.machine
  PROVE  /\ m \in Machines /\ Observed \in Observation /\ handler.pc \in {"stale", "lookup", "hydrate"}
         /\ BaselineOf(m) \in State
         /\ states' = [states EXCEPT ![m] = BaselineOf(m)]
         /\ UNCHANGED <<feed, horizon, owed, up, seen>>
         /\ \/ LetsGo(BaselineOf(m), Observed) \/ Asks(BaselineOf(m), Observed)
            \/ KeepsAside(BaselineOf(m), Observed) \/ Adds(BaselineOf(m), Observed)
<1> DEFINE obs == Observed
           s   == BaselineOf(m)
<1>1. handler.pc \in {"stale", "lookup", "hydrate"} /\ UNCHANGED <<feed, horizon, owed, up>>
  BY DEF Handle, Hydrate, brokerVars
<1>2. m \in Machines /\ obs \in Observation
  BY <1>1, FeedTyped DEF Observation
<1>3. states \in [Machines -> State] /\ failed \in BOOLEAN
  BY DEF TypeInv, TypeOK
<1>4. s \in State
  BY <1>2, <1>3, HydratedTyped DEF BaselineOf
<1>5. ASSUME NEW rec, Admit(rec)  PROVE Admitted(rec) /\ seen' = seen
  BY <1>3, <1>5 DEF Admit, Admitted, Proceed, Reject, AfterRejection
<1>6. ASSUME Decide(s), obs \notin Ignored, s # Unknown, handler.pc \in {"lookup", "hydrate"}
      PROVE  seen' = seen /\ (LetsGo(s, obs) \/ KeepsAside(s, obs) \/ Adds(s, obs))
  BY <1>5, <1>6 DEF Decide, LetsGo, KeepsAside, Adds, Proceed
<1>7. CASE Hydrate
  <2>1. s = Hydrated(m) /\ s # Unknown /\ obs \notin Ignored /\ handler.pc = "hydrate"
    BY <1>2, <1>7, HydratedKnown DEF Hydrate, BaselineOf, AskedInv
  <2>2. states' = [states EXCEPT ![m] = s] /\ Decide(s)
    BY <1>7, <2>1 DEF Hydrate
  <2> QED  BY <1>1, <1>2, <1>4, <1>6, <2>1, <2>2
<1>8. CASE Handle
  <2>1. handler.pc \in {"stale", "lookup"} /\ s = states[m]
    BY <1>8 DEF Handle, BaselineOf
  <2>2. states' = states
    BY <1>8 DEF Handle
  <2>3. states' = [states EXCEPT ![m] = s]
    BY <1>2, <1>3, <2>1, <2>2
  <2>4. seen' = seen /\ (LetsGo(s, obs) \/ Asks(s, obs) \/ KeepsAside(s, obs) \/ Adds(s, obs))
    <3>1. CASE obs \in seen \cup Ignored
      BY <1>8, <3>1 DEF Handle, Proceed, LetsGo
    <3>2. CASE obs \notin seen \cup Ignored /\ handler.pc = "stale"
      BY <1>5, <1>8, <3>2 DEF Handle, KeepsAside
    <3>3. CASE obs \notin seen \cup Ignored /\ handler.pc = "lookup" /\ s # Unknown
      BY <1>6, <1>8, <2>1, <3>3 DEF Handle
    <3>4. CASE obs \notin seen \cup Ignored /\ handler.pc = "lookup" /\ s = Unknown
      BY <1>8, <2>1, <3>4 DEF Handle, Proceed, Asks
    <3> QED  BY <2>1, <3>1, <3>2, <3>3, <3>4
  <2> QED  BY <1>1, <1>2, <1>4, <2>3, <2>4
<1> QED  BY <1>7, <1>8

-----------------------------------------------------------------------------
(* What the process has in hand, and what it has not when it is gone.      *)
RunInv ==
  /\ ~up => handler = Idle /\ ~online /\ sent = 0 /\ acks = {} /\ seen = {}
  /\ handler.pc = "sync" => /\ handler.at \in 1..Len(log) /\ handler.at = Len(log)
                           /\ log[handler.at].obs = Observed
  /\ AskedInv
  /\ \A j \in 1..Len(log) : log[j].obs \in Range(feed) \ Ignored

(* What append() leaves of the records before, and of a machine's.         *)
LEMMA OfAppended ==
  ASSUME TypeInv, NEW rec \in LogEntry, Appended(rec)
  PROVE  /\ Len(log) \in Nat /\ Len(log') = Len(log) + 1 /\ log'[Len(log')] = rec
         /\ \A j \in 1..Len(log) : log'[j] = log[j]
         /\ \A m, j : NowOf(m, j) <=> Of(m, j) \/ (j = Len(log') /\ rec.raw /\ rec.obs.machine = m)
         /\ \A m, j : Of(m, j) => j \in 1..Len(log) /\ log'[j] = log[j]
<1>1. Len(log) \in Nat
  BY DEF TypeInv
<1>2. /\ Len(log') = Len(log) + 1 /\ log'[Len(log')] = rec
      /\ \A j \in 1..Len(log) : log'[j] = log[j]
  BY AppendedParts
<1> QED  BY <1>1, <1>2 DEF Of, NowOf

(* A record is of the reading it was made for.                             *)
LEMMA MadeFor ==
  ASSUME NEW obs \in Observation, NEW s \in State
  PROVE  /\ LateRecord(obs) \in LogEntry /\ LateRecord(obs).obs = obs /\ ~LateRecord(obs).raw
         /\ RawRecord(obs, StepOf(s, obs)) \in LogEntry /\ RawRecord(obs, StepOf(s, obs)).obs = obs
         /\ RawRecord(obs, StepOf(s, obs)).raw
BY RecordsTyped DEF LateRecord, RawRecord

(* What the handler is after a message is handled.                         *)
LEMMA HandlerAfter ==
  ASSUME TypeInv
  PROVE  /\ Idle.pc = "idle" /\ Idle.msg = 0
         /\ \A pc \in Stages : \A at \in Nat : handler' = [handler EXCEPT !.pc = pc, !.at = at] =>
              handler'.pc = pc /\ handler'.at = at /\ handler'.msg = handler.msg /\ handler'.same = handler.same
<1>1. handler \in [msg : Nat, pc : Stages, at : Nat, same : BOOLEAN]
  BY DEF TypeInv
<1>2. ASSUME NEW pc \in Stages, NEW at \in Nat, handler' = [handler EXCEPT !.pc = pc, !.at = at]
      PROVE  handler'.pc = pc /\ handler'.at = at /\ handler'.msg = handler.msg /\ handler'.same = handler.same
  BY <1>1, <1>2
<1> QED  BY <1>2 DEF Idle

(* Handling a message keeps these.                                         *)
LEMMA HandleRuns ==
  ASSUME TypeInv, RunInv, Handle \/ Hydrate  PROVE RunInv'
<1> DEFINE obs == Observed
           m   == obs.machine
           s   == BaselineOf(m)
<1>1. /\ m \in Machines /\ obs \in Observation /\ handler.pc \in {"stale", "lookup", "hydrate"}
      /\ s \in State /\ states' = [states EXCEPT ![m] = s]
      /\ UNCHANGED <<feed, horizon, owed, up, seen>>
      /\ LetsGo(s, obs) \/ Asks(s, obs) \/ KeepsAside(s, obs) \/ Adds(s, obs)
  BY HandleCases DEF RunInv
<1>2. up /\ up'
  BY <1>1 DEF RunInv, Idle
<1>3. obs \in Range(feed) /\ handler.msg \in Publications /\ obs = feed[handler.msg]
  BY <1>1, FeedTyped DEF Observed, Range, Publications
<1>4. ASSUME handler'.pc \notin {"sync", "hydrate"}, UNCHANGED journalVars  PROVE RunInv'
  BY <1>1, <1>2, <1>4 DEF RunInv, AskedInv, journalVars
<1>5. ASSUME NEW rec \in LogEntry, rec.obs = obs, obs \notin Ignored, Admitted(rec)  PROVE RunInv'
  <2>1. CASE UNCHANGED journalVars /\ handler' = Idle
    BY <1>4, <2>1, HandlerAfter
  <2>2. CASE Appended(rec)
    <3>1. /\ Len(log) \in Nat /\ Len(log') = Len(log) + 1 /\ log'[Len(log')] = rec
          /\ \A j \in 1..Len(log) : log'[j] = log[j]
      BY <2>2, OfAppended
    <3>2. \A j \in 1..Len(log') : log'[j].obs \in Range(feed) \ Ignored
      BY <1>3, <1>5, <3>1 DEF RunInv
    <3>3. \/ handler' = Idle
          \/ handler' = [handler EXCEPT !.pc = "sync", !.at = Len(log')]
      BY <1>5, <2>2, <3>1 DEF Admitted, journalVars, Appended
    <3>4. handler'.pc # "hydrate" /\ (handler'.pc = "sync" => handler'.at = Len(log') /\ handler'.msg = handler.msg)
      <4>1. CASE handler' = Idle
        BY <4>1, HandlerAfter
      <4>2. CASE handler' = [handler EXCEPT !.pc = "sync", !.at = Len(log')]
        <5>1. "sync" \in Stages /\ Len(log') \in Nat
          BY <3>1 DEF Stages
        <5> QED  BY <4>2, <5>1, HandlerAfter
      <4> QED  BY <3>3, <4>1, <4>2
    <3> QED  BY <1>1, <1>2, <1>3, <1>5, <3>1, <3>2, <3>4 DEF RunInv, AskedInv, Observed
  <2> QED  BY <1>5, <2>1, <2>2 DEF Admitted
<1>6. CASE LetsGo(s, obs)
  BY <1>4, <1>6, HandlerAfter DEF LetsGo, Stages
<1>7. CASE Asks(s, obs)
  <2>1. /\ handler'.msg = handler.msg /\ handler'.pc = "hydrate" /\ handler.pc = "lookup"
        /\ UNCHANGED journalVars /\ obs \notin Ignored /\ s = Unknown
    BY <1>7, HandlerAfter DEF Asks, Stages
  <2>2. states'[m] = Unknown
    BY <1>1, <2>1 DEF TypeInv
  <2> QED  BY <1>1, <1>2, <1>3, <2>1, <2>2 DEF RunInv, AskedInv, Observed, journalVars
<1>8. CASE KeepsAside(s, obs) \/ Adds(s, obs)
  BY <1>1, <1>5, <1>8, MadeFor DEF KeepsAside, Adds
<1> QED  BY <1>1, <1>6, <1>7, <1>8

(* And so does every step.                                                 *)
LEMMA NextRuns ==
  ASSUME TypeInv, RunInv, [Next]_vars  PROVE RunInv'
<1>1. CASE Handle \/ Hydrate
  BY <1>1, HandleRuns
<1>2. CASE Accepted
  <2>1. handler.pc = "sync" /\ handler' = [handler EXCEPT !.pc = "done", !.at = 0] /\ UNCHANGED <<feed, up, log>>
    BY <1>2 DEF Accepted, Proceed, brokerVars, journalVars
  <2>2. up /\ handler'.pc = "done"
    BY <2>1, HandlerAfter DEF RunInv, Idle, Stages
  <2> QED  BY <2>1, <2>2 DEF RunInv, AskedInv
<1>3. CASE QueryFails \/ SyncRejected \/ Acknowledge
  <2>1. handler' = Idle /\ handler # Idle /\ UNCHANGED <<feed, up, log>>
    BY <1>3 DEF QueryFails, SyncRejected, Acknowledge, Reject, AfterRejection, Idle, brokerVars, processVars, journalVars
  <2> QED  BY <2>1, HandlerAfter DEF RunInv, AskedInv
<1>4. CASE Forget \/ Connect \/ ConnectionLost \/ AckArrives \/ Age \/ Deliver
  <2>1. /\ UNCHANGED <<feed, up, states, log>>
        /\ up \/ (UNCHANGED <<handler, online, sent>> /\ acks' \subseteq acks /\ seen' \subseteq seen)
    BY <1>4 DEF RunInv, Forget, Connect, ConnectionLost, AckArrives, Age, Deliver, Offline, processVars, journalVars, brokerVars, linkVars
  <2>2. \/ handler'.pc = handler.pc /\ handler'.at = handler.at /\ handler'.msg = handler.msg
        \/ handler'.pc \in {"stale", "lookup"}
    <3>1. CASE Deliver
      <4>1. \/ handler' = handler
            \/ \E pc \in {"stale", "lookup"} : handler' = [msg |-> Min(ToSend), at |-> 0, same |-> TRUE, pc |-> pc]
        BY <3>1 DEF Deliver
      <4> QED  BY <4>1
    <3>2. CASE Connect
      BY <3>2 DEF Connect, TypeInv
    <3> QED  BY <1>4, <3>1, <3>2 DEF Forget, ConnectionLost, AckArrives, Age
  <2>3. ~up => handler' = handler /\ ~online' /\ sent' = 0
    BY <2>1 DEF RunInv
  <2> QED  BY <2>1, <2>2, <2>3 DEF RunInv, AskedInv, Observed
<1>5. CASE Storage \/ UNCHANGED vars
  <2>1. UNCHANGED <<feed, up, states, log, handler, online, sent, acks, seen>>
    BY <1>5 DEF Storage, Fsync, Release, vars, brokerVars, linkVars, processVars, journalVars
  <2> QED  BY <2>1 DEF RunInv, AskedInv, Observed
<1>6. CASE Start
  <2>1. ~up /\ up' /\ UNCHANGED <<feed, log, handler>>
    BY <1>6 DEF Start, brokerVars
  <2> QED  BY <2>1, HandlerAfter DEF RunInv, AskedInv
<1>7. CASE Shutdown \/ ProcessCrash \/ PowerLoss
  <2>1. PICK n \in durable..Len(log) : Ends(n) /\ Len(log') = n /\ \A j \in 1..n : log'[j] = log[j]
    BY <1>7, EndsParts
  <2>2. handler' = Idle /\ ~online' /\ sent' = 0 /\ acks' = {} /\ seen' = {} /\ feed' = feed
    BY <2>1 DEF Ends, Offline, brokerVars
  <2>3. 1..n \subseteq 1..Len(log)
    BY <2>1 DEF TypeInv, TypeOK, LogIndex
  <2> QED  BY <2>1, <2>2, <2>3, HandlerAfter DEF RunInv, AskedInv
<1> QED  BY <1>1, <1>2, <1>3, <1>4, <1>5, <1>6, <1>7 DEF Next, Network, Admission, Processor, Process

-----------------------------------------------------------------------------
(* state.json and latestState point at readings: state.json at the last of *)
(* those that are deleted, unless it holds none of the machine, latestState *)
(* at the last of all; where it holds none, none is left on disk.          *)
SnapshotInv ==
  /\ \A m \in Machines : saved[m] # 0 =>
       Of(m, saved[m]) /\ \A j \in 1..done : Of(m, j) => j <= saved[m]
  /\ up => \A m \in Machines :
       /\ latest[m] # 0 => Of(m, latest[m]) /\ \A j \in 1..Len(log) : Of(m, j) => j <= latest[m]
       /\ latest[m] = 0 => \A j \in 1..Len(log) : Of(m, j) => j <= done
       /\ states[m] = Unknown => latest[m] = 0

(* open() finds the last reading on disk, or that of state.json.           *)
LEMMA RecoveredIs ==
  ASSUME TypeInv, NEW m \in Machines
  PROVE  LET r == Recovered(Len(log))[m]
         IN /\ r = saved[m] \/ (r \in (done + 1)..Len(log) /\ Of(m, r))
            /\ saved[m] <= r
            /\ \A j \in (done + 1)..Len(log) : Of(m, j) => j <= r
<1> DEFINE S == {saved[m]} \cup RawIn(m, (done + 1)..Len(log))
<1>1. Len(log) \in Nat /\ done \in 0..Len(log) /\ saved[m] \in 0..Len(log)
  BY DEF TypeInv, TypeOK, LogIndex
<1>2. S \in SUBSET (0..Len(log)) /\ S # {}
  BY <1>1 DEF RawIn
<1>3. \A j : j \in S <=> j = saved[m] \/ (j \in (done + 1)..Len(log) /\ Of(m, j))
  BY <1>1 DEF RawIn, Of
<1>4. Recovered(Len(log))[m] = Max(S)
  BY DEF Recovered
<1>5. Max(S) \in S /\ \A x \in S : x <= Max(S)
  <2> HIDE DEF S
  <2> QED  BY <1>1, <1>2, MaxIsGreatest
<1> HIDE DEF S
<1> QED  BY <1>3, <1>4, <1>5

(* A record has a time, so its state is known.                             *)
LEMMA KnownAt ==
  ASSUME TypeInv, NEW i \in 1..Len(log)
  PROVE  /\ StateAt(i) # Unknown /\ StateAt(i).time = log[i].obs.time
         /\ StateAt(i).print = log[i].obs /\ StateAt(i).base = log[i].base
<1>1. log[i] \in LogEntry
  BY DEF TypeInv
<1>2. log[i].obs.time \in Nat \ {0}
  BY <1>1 DEF LogEntry, Observation
<1>3. StateAt(i) = [time |-> log[i].obs.time, print |-> log[i].obs, base |-> log[i].base]
  BY DEF StateAt, TypeInv
<1>4. Unknown.time = -1
  BY DEF Unknown, NullState
<1> QED  BY <1>2, <1>3, <1>4

(* SnapshotInv, said of the state after a step.                            *)
LEMMA SnapshotAfter ==
  ASSUME \A m \in Machines : saved'[m] # 0 =>
           NowOf(m, saved'[m]) /\ \A j \in 1..done' : NowOf(m, j) => j <= saved'[m],
         up' => \A m \in Machines :
           /\ latest'[m] # 0 => NowOf(m, latest'[m]) /\ \A j \in 1..Len(log') : NowOf(m, j) => j <= latest'[m]
           /\ latest'[m] = 0 => \A j \in 1..Len(log') : NowOf(m, j) => j <= done'
           /\ states'[m] = Unknown => latest'[m] = 0
  PROVE  SnapshotInv'
BY DEF SnapshotInv, Of, NowOf

(* Handling a message leaves latestState at the last reading.              *)
LEMMA HandleSnapshot ==
  ASSUME TypeInv, RunInv, SnapshotInv, Handle \/ Hydrate  PROVE SnapshotInv'
<1> DEFINE obs == Observed
           m   == obs.machine
           s   == BaselineOf(m)
<1>1. /\ m \in Machines /\ obs \in Observation /\ handler.pc \in {"stale", "lookup", "hydrate"}
      /\ s \in State /\ states' = [states EXCEPT ![m] = s] /\ up' = up
      /\ LetsGo(s, obs) \/ Asks(s, obs) \/ KeepsAside(s, obs) \/ Adds(s, obs)
  BY HandleCases DEF RunInv
<1>2. up
  BY <1>1 DEF RunInv, Idle
<1>3. \A mm \in Machines : states'[mm] = Unknown => states[mm] = Unknown /\ (mm = m => s = Unknown)
  <2>1. s = Unknown => states[m] = Unknown
    BY <1>1, HydratedKnown DEF BaselineOf
  <2> QED  BY <1>1, <2>1 DEF TypeInv
<1>4. CASE UNCHANGED journalVars
  BY <1>1, <1>2, <1>3, <1>4 DEF SnapshotInv, Of, journalVars
<1>5. CASE \E rec \in LogEntry : Appended(rec) /\ (rec.raw => rec.obs.machine = m /\ s # Unknown)
  <2>1. PICK rec \in LogEntry : Appended(rec) /\ (rec.raw => rec.obs.machine = m /\ s # Unknown)
    BY <1>5
  <2>2. /\ Len(log) \in Nat /\ Len(log') = Len(log) + 1
        /\ \A mm, j : NowOf(mm, j) <=> Of(mm, j) \/ (j = Len(log') /\ rec.raw /\ rec.obs.machine = mm)
        /\ \A mm, j : Of(mm, j) => j \in 1..Len(log)
    BY <2>1, OfAppended
  <2>3. /\ done' = done /\ saved' = saved /\ latest \in [Machines -> 0..Len(log)]
        /\ latest' = IF rec.raw THEN [latest EXCEPT ![rec.obs.machine] = Len(log')] ELSE latest
    BY <2>1 DEF Appended, TypeInv, TypeOK, LogIndex
  <2>4. /\ done \in 0..Len(log) /\ saved \in [Machines -> 0..Len(log)]
    BY DEF TypeInv, TypeOK, LogIndex
  <2>5. \A mm \in Machines : saved'[mm] # 0 =>
          NowOf(mm, saved[mm]) /\ \A j \in 1..done : NowOf(mm, j) => j <= saved[mm]
    BY <2>2, <2>3, <2>4 DEF SnapshotInv
  <2>6. ASSUME NEW mm \in Machines
        PROVE  /\ latest'[mm] # 0 => NowOf(mm, latest'[mm]) /\ \A j \in 1..Len(log') : NowOf(mm, j) => j <= latest'[mm]
               /\ latest'[mm] = 0 => \A j \in 1..Len(log') : NowOf(mm, j) => j <= done
               /\ states'[mm] = Unknown => latest'[mm] = 0
    <3>1. CASE rec.raw /\ mm = m
      <4>1. latest'[mm] = Len(log') /\ Len(log') # 0
        BY <1>1, <2>1, <2>2, <2>3, <3>1
      <4>2. NowOf(mm, Len(log'))
        BY <2>1, <2>2, <3>1
      <4> QED  BY <1>3, <2>1, <2>2, <3>1, <4>1, <4>2
    <3>2. CASE ~(rec.raw /\ mm = m)
      <4>1. latest'[mm] = latest[mm] /\ \A j : NowOf(mm, j) <=> Of(mm, j)
        BY <1>1, <2>1, <2>2, <2>3, <3>2
      <4> QED  BY <1>2, <1>3, <2>2, <4>1 DEF SnapshotInv
    <3> QED  BY <3>1, <3>2
  <2> QED  BY <2>3, <2>5, <2>6, SnapshotAfter
<1>6. CASE LetsGo(s, obs) \/ Asks(s, obs)
  BY <1>4, <1>6 DEF LetsGo, Asks
<1>7. CASE KeepsAside(s, obs) \/ Adds(s, obs)
  BY <1>1, <1>4, <1>5, <1>7, MadeFor DEF KeepsAside, Adds, Admitted
<1> QED  BY <1>1, <1>6, <1>7

(* So does every step.                                                     *)
LEMMA NextSnapshot ==
  ASSUME TypeInv, RunInv, SnapshotInv, [Next]_vars  PROVE SnapshotInv'
<1>0. Len(log) \in Nat /\ done \in 0..durable /\ durable \in 0..Len(log) /\ states \in [Machines -> State]
  BY DEF TypeInv, TypeOK, LogIndex
<1>1. CASE Handle \/ Hydrate
  BY <1>1, HandleSnapshot
<1>2. ASSUME UNCHANGED <<journalVars, up>>, \A m \in Machines : states'[m] = states[m] \/ states'[m] # Unknown
      PROVE  SnapshotInv'
  BY <1>2 DEF SnapshotInv, Of, journalVars
<1>3. CASE Accepted
  <2>1. handler.pc = "sync" /\ UNCHANGED <<journalVars, up>>
    BY <1>3 DEF Accepted
  <2>2. StateAt(handler.at) # Unknown
    BY <2>1, KnownAt DEF RunInv
  <2>3. states' = states \/ states' = [states EXCEPT ![log[handler.at].obs.machine] = StateAt(handler.at)]
    BY <1>3 DEF Accepted
  <2> QED  BY <1>0, <1>2, <2>1, <2>2, <2>3
<1>4. CASE Network \/ Admission \/ QueryFails \/ SyncRejected \/ Forget \/ UNCHANGED vars
  <2>1. UNCHANGED <<journalVars, up, states>>
    BY <1>4
    DEF Network, Connect, ConnectionLost, AckArrives, Age, Admission, Deliver, Acknowledge,
        QueryFails, SyncRejected, Forget, vars, processVars
  <2> QED  BY <1>2, <2>1
<1>5. CASE Fsync
  <2>1. UNCHANGED <<log, done, latest, saved, up, states>>
    BY <1>5 DEF Fsync
  <2> QED  BY <2>1 DEF SnapshotInv, Of
<1>6. CASE Release
  <2>1. /\ UNCHANGED <<log, durable, latest, up, states>> /\ up
        /\ done' \in (done + 1)..durable /\ saved' = SavedStates
    BY <1>6 DEF Release, processVars
  <2>2. \A m, j : NowOf(m, j) <=> Of(m, j)
    BY <2>1 DEF NowOf, Of
  <2>3. \A m \in Machines : saved'[m] # 0 => saved'[m] = latest[m]
    BY <2>1 DEF SavedStates
  <2>4. done' \in 0..Len(log) /\ done < done'
    BY <1>0, <2>1
  <2>5. \A m \in Machines : saved'[m] # 0 =>
          NowOf(m, saved'[m]) /\ \A j \in 1..done' : NowOf(m, j) => j <= saved'[m]
    BY <1>0, <2>1, <2>2, <2>3, <2>4 DEF SnapshotInv
  <2>6. \A m \in Machines :
          /\ latest'[m] # 0 => NowOf(m, latest'[m]) /\ \A j \in 1..Len(log') : NowOf(m, j) => j <= latest'[m]
          /\ latest'[m] = 0 => \A j \in 1..Len(log') : NowOf(m, j) => j <= done'
          /\ states'[m] = Unknown => latest'[m] = 0
    BY <1>0, <2>1, <2>2, <2>4 DEF SnapshotInv
  <2> QED  BY <2>5, <2>6, SnapshotAfter
<1>7. CASE Start
  <2>1. /\ UNCHANGED <<log, done, saved>> /\ latest' = Recovered(Len(log))
        /\ states' = [m \in Machines |-> StateAt(latest'[m])]
    BY <1>7 DEF Start
  <2>2. \A m, j : NowOf(m, j) <=> Of(m, j)
    BY <2>1 DEF NowOf, Of
  <2>3. \A m \in Machines : saved'[m] # 0 =>
          NowOf(m, saved'[m]) /\ \A j \in 1..done' : NowOf(m, j) => j <= saved'[m]
    BY <2>1, <2>2 DEF SnapshotInv
  <2>4. ASSUME NEW m \in Machines
        PROVE  /\ latest'[m] # 0 => NowOf(m, latest'[m]) /\ \A j \in 1..Len(log') : NowOf(m, j) => j <= latest'[m]
               /\ latest'[m] = 0 => \A j \in 1..Len(log') : NowOf(m, j) => j <= done'
               /\ states'[m] = Unknown => latest'[m] = 0
    <3> DEFINE r == latest'[m]
    <3>1. /\ r = saved[m] \/ (r \in (done + 1)..Len(log) /\ Of(m, r))
          /\ saved[m] <= r
          /\ \A j \in (done + 1)..Len(log) : Of(m, j) => j <= r
      BY <2>1, RecoveredIs
    <3>2. saved[m] \in Nat /\ r \in LogIndex
      BY <2>1, RecoveredTyped DEF TypeInv, TypeOK, LogIndex
    <3>3. states'[m] = StateAt(r)
      BY <2>1
    <3> HIDE DEF r
    <3>4. \A j \in 1..Len(log) : j <= done \/ j \in (done + 1)..Len(log)
      BY <1>0
    <3>5. r \in 0..Len(log)
      BY <3>2 DEF LogIndex
    <3>6. r # 0 => Of(m, r)
      BY <3>1 DEF SnapshotInv
    <3>7. r # 0 => \A j \in 1..Len(log) : Of(m, j) => j <= r
      <4>1. CASE saved[m] # 0
        BY <1>0, <3>1, <3>2, <3>4, <3>5, <4>1 DEF SnapshotInv
      <4>2. CASE saved[m] = 0 /\ r # 0
        BY <1>0, <3>1, <3>2, <3>4, <3>5, <4>2
      <4> QED  BY <4>1, <4>2
    <3>8. r = 0 => \A j \in 1..Len(log) : Of(m, j) => j <= done
      BY <1>0, <3>1, <3>4, <3>5
    <3>9. r # 0 => states'[m] # Unknown
      BY <3>3, <3>5, KnownAt
    <3> QED  BY <2>1, <2>2, <3>6, <3>7, <3>8, <3>9 DEF r
  <2> QED  BY <2>3, <2>4, SnapshotAfter
<1>8. CASE Shutdown \/ ProcessCrash \/ PowerLoss
  <2>1. PICK n \in durable..Len(log) : Ends(n) /\ Len(log') = n /\ \A j \in 1..n : log'[j] = log[j]
    BY <1>8, EndsParts
  <2>2. ~up' /\ UNCHANGED <<done, saved>>
    BY <2>1 DEF Ends
  <2>3. n \in Nat /\ durable <= n /\ n <= Len(log)
    BY <1>0, <2>1
  <2>4. \A m, j : NowOf(m, j) <=> Of(m, j) /\ j <= n
    BY <2>1, <2>3 DEF NowOf, Of
  <2>5. \A m \in Machines : saved[m] \in Nat /\ saved[m] <= n
    BY <1>0, <2>3 DEF TypeInv, TypeOK, LogIndex
  <2> QED  BY <2>2, <2>4, <2>5, SnapshotAfter DEF SnapshotInv
<1> QED  BY <1>1, <1>3, <1>4, <1>5, <1>6, <1>7, <1>8 DEF Next, Processor, Storage, Process
=============================================================================
