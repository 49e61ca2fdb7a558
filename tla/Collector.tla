----------------------------- MODULE Collector -----------------------------
(***************************************************************************)
(* The way of a publication from the broker's QoS 1 session through MQTT.js*)
(* (both external), admission (src/lib/admission.js) and the message       *)
(* processor (src/lib/message-processor.js) into the journal, with what the*)
(* broker replays after a lost connection or a restart.                    *)
(*                                                                         *)
(* The journal is reduced to what the processor sees of it: log is every   *)
(* record ever appended, the first `done` of them in the database and      *)
(* deleted from disk, the first `durable` of them fsynced.  Journal and    *)
(* Flusher say how that comes about.  A process crash followed by a power  *)
(* loss is a matter for Journal: one instance has one of the two.  Of what *)
(* a publication can hold, the standalone energy packets are left out.     *)
(*                                                                         *)
(* An observation is [machine, time, count]; as all else of the payload is *)
(* left out, it is its own fingerprint.                                    *)
(***************************************************************************)
EXTENDS Sequences, FiniteSets, FiniteSetsExt, PartsCounter

CONSTANTS
  Machines,
  Feeds,      \* what may be published: sequences of observations
  Ignored,    \* observations of no known machine, invalid or disconnected
  Faults,     \* what may go wrong, see FaultKinds
  MaxLog      \* bound: records ever appended

(* process, power: how the process ends without a shutdown.  late: it takes *)
(* publications longer than maxStaleMs to arrive.  forget: the table of    *)
(* recent fingerprints drops entries.  full: the journal may be full.      *)
(* space: a segment may fail to open.  fsync: an fsync or a write may fail.*)
(* database: a query may fail.                                             *)
FaultKinds == {"process", "power", "late", "forget", "full", "space", "fsync", "database"}

Observation == [machine : Machines, time : Nat \ {0}, count : Nat \cup {NoCount}]

ASSUME CollectorAssumption ==
  /\ \A f \in Feeds : f \in Seq(Observation)
  /\ Ignored \subseteq Observation
  /\ Faults \subseteq FaultKinds /\ ~({"process", "power"} \subseteq Faults)
  /\ MaxLog \in Nat

VARIABLES
  feed,       \* what is published, in the order of the session
  horizon,    \* device times up to this are more than maxStaleMs ago
  owed,       \* publications the broker has had no PUBACK for
  online,     \* the connection is up
  sent,       \* the last publication delivered on it
  acks,       \* PUBACKs on their way
  up, failed, \* the process is running; its journal has a fatalError
  handler,    \* the handleMessage() in progress
  states,     \* the processor's state of each machine
  seen,       \* its table of recent fingerprints
  log, durable, done,
  latest,     \* the journal's latestState: where each machine's state is in log
  saved       \* the same of state.json

brokerVars  == <<feed, horizon, owed>>
linkVars    == <<online, sent, acks>>
processVars == <<up, failed, states, seen>>
journalVars == <<log, durable, done, latest, saved>>
vars == <<brokerVars, linkVars, processVars, journalVars, handler>>

(* What a machine's state says: the observation it is from, when that was, *)
(* and the counter's baseline.  NullState: none is known even to the       *)
(* database.  Unknown: the database has not been asked.                    *)
NoPrint   == [time |-> 0]
NullState == [time |-> 0, print |-> NoPrint, base |-> NoCount]
Unknown   == [NullState EXCEPT !.time = -1]

(* A journal record: a reading with the parts it adds, or one kept aside.  *)
RawRecord(obs, step) == [obs |-> obs, raw |-> TRUE, delta |-> step.delta, base |-> step.baseline]
LateRecord(obs)      == [obs |-> obs, raw |-> FALSE, delta |-> 0, base |-> NoCount]

Idle == [msg |-> 0, pc |-> "idle", at |-> 0, same |-> FALSE]

Publications == DOMAIN feed
Observed     == feed[handler.msg]     \* the one being handled
LogIndex     == 0..Len(log)

TypeOK ==
  /\ feed \in Feeds /\ horizon \in Nat /\ owed \subseteq Publications
  /\ online \in BOOLEAN /\ sent \in {0} \cup Publications /\ acks \subseteq Publications
  /\ up \in BOOLEAN /\ failed \in BOOLEAN
  /\ handler.msg \in {0} \cup Publications /\ handler.at \in LogIndex
  /\ handler.pc \in {"idle", "stale", "lookup", "hydrate", "sync", "done"} /\ handler.same \in BOOLEAN
  /\ DOMAIN states = Machines
  /\ seen \subseteq Range(feed)
  /\ Len(log) <= MaxLog /\ durable \in LogIndex /\ done \in 0..durable
  /\ latest \in [Machines -> LogIndex] /\ saved \in [Machines -> LogIndex]

-----------------------------------------------------------------------------
RawIn(m, indices) == {i \in indices : log[i].raw /\ log[i].obs.machine = m}

StateAt(i) == IF i = 0 THEN Unknown
              ELSE [time |-> log[i].obs.time, print |-> log[i].obs, base |-> log[i].base]

(* hydrate(): the last row in telemetry_raw has a count, but no baseline   *)
(* and no fingerprint.                                                     *)
Hydrated(m) ==
  LET last == Max({0} \cup RawIn(m, 1..done))
  IN IF last = 0 THEN NullState
     ELSE [time |-> log[last].obs.time, print |-> NoPrint, base |-> log[last].obs.count]

(* open(), latestStates(): the latest state in state.json or in the files, *)
(* of the first n records.  saveStates(): the states that are durable.     *)
(* Mutated: the files are not read; state.json takes states not fsynced.   *)
RecoveredFromSnapshot(n) == saved
Recovered(n) == [m \in Machines |-> Max({saved[m]} \cup RawIn(m, (done + 1)..n))]

SavedUndurable == latest
SavedStates == [m \in Machines |-> IF latest[m] <= durable THEN latest[m] ELSE 0]

Init ==
  /\ feed \in Feeds /\ horizon = 0 /\ owed = DOMAIN feed
  /\ online = FALSE /\ sent = 0 /\ acks = {}
  /\ up = FALSE /\ failed = FALSE
  /\ handler = Idle /\ seen = {}
  /\ states = [m \in Machines |-> Unknown]
  /\ log = <<>> /\ durable = 0 /\ done = 0
  /\ latest = [m \in Machines |-> 0] /\ saved = [m \in Machines |-> 0]

-----------------------------------------------------------------------------
(* The connection.  On a new one the broker sends what it is owed an       *)
(* acknowledgement for, in order; an acknowledgement is lost with its      *)
(* connection.                                                             *)
Connect ==
  /\ up /\ ~online
  /\ online' = TRUE /\ sent' = 0 /\ acks' = {}
  /\ handler' = [handler EXCEPT !.same = FALSE]
  /\ UNCHANGED <<brokerVars, processVars, journalVars>>

Offline == online' = FALSE /\ sent' = 0 /\ acks' = {}

ConnectionLost ==
  /\ online /\ Offline
  /\ UNCHANGED <<brokerVars, processVars, journalVars, handler>>

AckArrives ==
  /\ acks # {}
  /\ owed' = owed \ {Min(acks)}
  /\ acks' = acks \ {Min(acks)}
  /\ UNCHANGED <<feed, horizon, online, sent, processVars, journalVars, handler>>

(* An outage lasts longer than maxStaleMs.                                 *)
Age ==
  /\ "late" \in Faults /\ ~online
  /\ \E i \in owed : horizon < feed[i].time /\ horizon' = feed[i].time
  /\ UNCHANGED <<feed, owed, linkVars, processVars, journalVars, handler>>

-----------------------------------------------------------------------------
(* handleMessage() of admission.js.  MQTT.js hands over the next packet    *)
(* when it has called back for the last of the same connection; one that   *)
(* comes on a new connection while another is in progress is turned away.  *)
ToSend == {i \in owed : i > sent}

Deliver ==
  /\ online /\ ToSend # {}
  /\ LET i == Min(ToSend) IN
       \/ /\ handler.msg # 0 /\ ~handler.same
          /\ Offline /\ UNCHANGED handler
       \/ /\ handler.msg = 0 /\ feed[i] \in Ignored
          /\ sent' = i /\ acks' = acks \cup {i}
          /\ UNCHANGED <<online, handler>>
       \/ /\ handler.msg = 0
          /\ sent' = i
          /\ handler' = [msg |-> i, at |-> 0, same |-> TRUE,
                         pc |-> IF feed[i].time <= horizon THEN "stale" ELSE "lookup"]
          /\ UNCHANGED <<online, acks>>
  /\ UNCHANGED <<brokerVars, processVars, journalVars>>

(* process() has thrown: no PUBACK, and the transport is closed.  Mutated: *)
(* the message stays in hand.                                              *)
StillActive   == [handler EXCEPT !.pc = "idle"]
AfterRejection == Idle

Reject ==
  /\ handler' = AfterRejection /\ Offline
  /\ UNCHANGED seen

(* process() has returned: the PUBACK, if there is a connection.           *)
Acknowledge ==
  /\ handler.pc = "done"
  /\ handler' = Idle
  /\ acks' = IF online THEN acks \cup {handler.msg} ELSE acks
  /\ UNCHANGED <<brokerVars, online, sent, processVars, journalVars>>

Proceed(pc, at) ==
  /\ handler' = [handler EXCEPT !.pc = pc, !.at = at]
  /\ UNCHANGED linkVars

-----------------------------------------------------------------------------
(* admit(): append() and what can go wrong in it.  It throws after having  *)
(* written when the rotation that follows fails.                           *)
Appended(rec) ==
  /\ ~failed /\ Len(log) < MaxLog
  /\ log' = Append(log, rec)
  /\ latest' = IF rec.raw THEN [latest EXCEPT ![rec.obs.machine] = Len(log')] ELSE latest
  /\ UNCHANGED <<durable, done, saved>>

Admit(rec) ==
  \/ /\ Appended(rec)
     /\ Proceed("sync", Len(log'))
     /\ UNCHANGED <<failed, seen>>
  \/ /\ Appended(rec)
     /\ \/ "space" \in Faults /\ UNCHANGED failed
        \/ "fsync" \in Faults /\ failed' = TRUE
     /\ Reject
  \/ /\ \/ (failed \/ Faults \cap {"full", "space"} # {}) /\ UNCHANGED failed
        \/ "fsync" \in Faults /\ failed' = TRUE
     /\ Reject
     /\ UNCHANGED journalVars

(* What a reading adds to the state it was compared with.                  *)
StepOf(prev, obs) ==
  LET gap == IF prev.time = 0 THEN 0 ELSE obs.time - prev.time
  IN PartsCounterStep(prev.base, obs.count, gap)

(* Mutated: the order is not checked.                                      *)
NeverOlder(prev, obs) == FALSE
Older(prev, obs) == obs.time < prev.time
Repeated(prev, obs) == obs.time = prev.time /\ obs = prev.print

(* handleMessage() of the processor, from its baseline on: one step.       *)
Decide(prev) ==
  LET obs == Observed IN
  \/ /\ Repeated(prev, obs)
     /\ Proceed("done", 0)
     /\ UNCHANGED <<failed, seen, journalVars>>
  \/ /\ Older(prev, obs)
     /\ Admit(LateRecord(obs))
  \/ /\ ~Older(prev, obs) /\ ~Repeated(prev, obs)
     /\ Admit(RawRecord(obs, StepOf(prev, obs)))

(* Its part before: after the lookup, the fingerprints, the lateness.  An  *)
(* unknown machine and a disconnected controller are let go of.            *)
Handle ==
  /\ handler.pc \in {"stale", "lookup"}
  /\ LET obs == Observed IN
       \/ /\ obs \in seen \cup Ignored
          /\ Proceed("done", 0)
          /\ UNCHANGED <<failed, states, seen, journalVars>>
       \/ /\ obs \notin seen \cup Ignored /\ handler.pc = "stale"
          /\ Admit(LateRecord(obs))
          /\ UNCHANGED states
       \/ /\ obs \notin seen \cup Ignored /\ handler.pc = "lookup" /\ states[obs.machine] # Unknown
          /\ Decide(states[obs.machine])
          /\ UNCHANGED states
       \/ /\ obs \notin seen \cup Ignored /\ handler.pc = "lookup" /\ states[obs.machine] = Unknown
          /\ Proceed("hydrate", 0)
          /\ UNCHANGED <<failed, states, seen, journalVars>>
  /\ UNCHANGED <<brokerVars, up>>

(* baseline(): the answer of hydrate().                                    *)
Hydrate ==
  /\ handler.pc = "hydrate"
  /\ LET m == Observed.machine IN
       /\ states' = [states EXCEPT ![m] = Hydrated(m)]
       /\ Decide(Hydrated(m))
  /\ UNCHANGED <<brokerVars, up>>

(* The database does not answer lookupMachine() or hydrate().              *)
QueryFails ==
  /\ handler.pc \in {"stale", "lookup", "hydrate"} /\ "database" \in Faults
  /\ Reject
  /\ UNCHANGED <<brokerVars, up, failed, states, journalVars>>

(* syncThrough() has returned: only now is the reading the machine's state.*)
(* Mutated: without waiting for it.                                        *)
Unsynced(at) == TRUE
Synced(at)   == at <= durable

Accepted ==
  /\ handler.pc = "sync" /\ Synced(handler.at)
  /\ LET rec == log[handler.at] IN
       states' = IF rec.raw THEN [states EXCEPT ![rec.obs.machine] = StateAt(handler.at)]
                            ELSE states
  /\ seen' = seen \cup {Observed}
  /\ Proceed("done", 0)
  /\ UNCHANGED <<brokerVars, up, failed, journalVars>>

SyncRejected ==
  /\ handler.pc = "sync" /\ ~Synced(handler.at) /\ failed
  /\ Reject
  /\ UNCHANGED <<brokerVars, up, failed, states, journalVars>>

(* remember() and seen(): the table is bounded in number and in time.      *)
Forget ==
  /\ "forget" \in Faults
  /\ \E obs \in seen : seen' = seen \ {obs}
  /\ UNCHANGED <<brokerVars, linkVars, up, failed, states, journalVars, handler>>

-----------------------------------------------------------------------------
(* The journal by itself: an fsync ends, the writer deletes what is in the *)
(* database, saving the states that are durable.                           *)
Fsync ==
  /\ up /\ durable < Len(log)
  /\ \/ durable' \in (durable + 1)..Len(log) /\ UNCHANGED failed
     \/ "fsync" \in Faults /\ failed' = TRUE /\ UNCHANGED durable
  /\ UNCHANGED <<brokerVars, linkVars, up, states, seen, handler, log, done, latest, saved>>

Release ==
  /\ up
  /\ done' \in (done + 1)..durable
  /\ saved' = SavedStates
  /\ UNCHANGED <<brokerVars, linkVars, processVars, handler, log, durable, latest>>

-----------------------------------------------------------------------------
Start ==
  /\ ~up
  /\ up' = TRUE /\ failed' = FALSE
  /\ latest' = Recovered(Len(log))
  /\ states' = [m \in Machines |-> StateAt(latest'[m])]
  /\ durable' = Len(log)
  /\ UNCHANGED <<brokerVars, linkVars, seen, handler, log, done, saved>>

(* The process is gone, with n records of the log left.                    *)
Ends(n) ==
  /\ up
  /\ up' = FALSE /\ failed' = FALSE
  /\ Offline /\ handler' = Idle /\ seen' = {}
  /\ states' = [m \in Machines |-> Unknown]
  /\ latest' = [m \in Machines |-> 0]
  /\ log' = SubSeq(log, 1, n)
  /\ UNCHANGED <<brokerVars, durable, done, saved>>

(* shutdown(): it waits for the message in hand, but only for a while.  Its*)
(* sync() can fail too, which for the disk is a process crash.             *)
Shutdown     == Ends(Len(log)) /\ ("power" \in Faults => ~failed)
ProcessCrash == "process" \in Faults /\ Ends(Len(log))
PowerLoss    == "power" \in Faults /\ \E n \in durable..Len(log) : Ends(n)

-----------------------------------------------------------------------------
Network   == Connect \/ ConnectionLost \/ AckArrives \/ Age
Admission == Deliver \/ Acknowledge
Processor == Handle \/ Hydrate \/ QueryFails \/ Accepted \/ SyncRejected \/ Forget
Storage   == Fsync \/ Release
Process   == Start \/ Shutdown \/ ProcessCrash \/ PowerLoss

Next == Network \/ Admission \/ Processor \/ Storage \/ Process

Spec == Init /\ [][Next]_vars

(* Event loop, disk and network run on; what is tried again and again (an  *)
(* admission, an acknowledgement) succeeds in the end.                     *)
Fairness ==
  /\ WF_vars(Start) /\ WF_vars(Connect) /\ WF_vars(Deliver) /\ WF_vars(Acknowledge)
  /\ SF_vars(Handle /\ handler'.msg # 0) /\ SF_vars(Hydrate /\ handler'.msg # 0)
  /\ WF_vars(Fsync /\ ~failed') /\ WF_vars(Accepted)
  /\ SF_vars(AckArrives)

FairSpec == Spec /\ Fairness

-----------------------------------------------------------------------------
(* Records no crash can take away.                                         *)
Surviving == IF up /\ "power" \in Faults THEN 1..durable ELSE 1..Len(log)

(* A publication the broker has let go of is in the journal, where no      *)
(* fault takes it, or in the database: the PUBACK of admission.js follows  *)
(* syncThrough() on every path, for a duplicate that of its first copy.    *)
LetGoIsKept ==
  \A i \in Publications \ owed :
    feed[i] \in Ignored \/ \E j \in Surviving : log[j].obs = feed[i]

(* What a feed may suppose of its devices: a counter does not go back to a *)
(* few parts, and never goes back at all from one reading to a later one;  *)
(* a machine's two readings of a second are the same.                      *)
NeverReset ==
  \A f \in Feeds : \A i \in DOMAIN f : f[i].count = NoCount \/ SmallCount < f[i].count

Forward ==
  \A f \in Feeds : \A i, k \in DOMAIN f :
    /\ f[i].machine = f[k].machine /\ f[i].time <= f[k].time
    /\ f[i].count # NoCount /\ f[k].count # NoCount
    => f[i].count <= f[k].count

OneASecond ==
  \A f \in Feeds : \A i, k \in DOMAIN f :
    f[i].machine = f[k].machine /\ f[i].time = f[k].time => f[i] = f[k]

(* Parts a record books, as values of the machine's counter (never reset). *)
Parts(rec) == (rec.base - rec.delta + 1)..rec.base
Pairs(m)   == {p \in RawIn(m, 1..Len(log)) \X RawIn(m, 1..Len(log)) : p[1] < p[2]}

(* No part is counted by two readings, whatever the broker replays and the *)
(* crashes leave of the states handleMessage() compares a reading with.    *)
CountedOnce ==
  \A m \in Machines : \A p \in Pairs(m) :
    log[p[1]].obs # log[p[2]].obs => Parts(log[p[1]]) \cap Parts(log[p[2]]) = {}

(* A reading that is recorded again, because the broker replays it, books  *)
(* nothing again: its parts are in the first record.                       *)
ReplayAddsNothing ==
  \A m \in Machines : \A p \in Pairs(m) :
    log[p[1]].obs = log[p[2]].obs => Parts(log[p[1]]) \cap Parts(log[p[2]]) = {}

(* A machine's readings are recorded in the order of its clock, as the     *)
(* intervals handleMessage() credits from one to the next suppose.         *)
TimesInOrder ==
  \A m \in Machines : \A p \in Pairs(m) : log[p[1]].obs.time <= log[p[2]].obs.time

(* Every publication is let go of in the end, once the process stops       *)
(* crashing and the network stops breaking connections: the connections    *)
(* admission breaks itself (a failed reading, one turned away) never stop  *)
(* it for good, and no path forgets to give the handler free.              *)
NetworkBreak == ConnectionLost /\ (handler.msg = 0 \/ handler.same)
EventuallyLetGo ==
  /\ <>[](up /\ ~failed)
  /\ <>[][~NetworkBreak]_vars
  /\ [](Len(log) < MaxLog)
  => <>(owed = {})
=============================================================================
