---------------------------- MODULE MachineCache ----------------------------
(***************************************************************************)
(* What the collector remembers of the database's machines and shifts: the *)
(* caches of mqtt.js and of src/lib/shifts.js, reloaded by a timer, and the*)
(* keys it found no machine for.                                           *)
(*                                                                         *)
(* The answer of a query is what was in the table (which is the Backend's, *)
(* external) at some moment since it was sent, so that a reload may        *)
(* overtake one before it, and a lookup a reload.  There is one lookup at a*)
(* time (admission.js).  The clock counts coarse units.  The two caches    *)
(* have nothing in common: a behaviour is about one of them.               *)
(***************************************************************************)
EXTENDS Integers, Sequences, FiniteSets, FiniteSetsExt, SequencesExt

CONSTANTS
  ApiKeys,
  Values,        \* what a row may say: of a machine, which company's it is
  Period,        \* of the timers: 30 and 60 seconds
  QueryTime,     \* bound: of a query, connectionTimeoutMillis + statement_timeout
  NegativeTtl,   \* NEGATIVE_TTL_MS
  MaxNegative,   \* MAX_NEGATIVE_KEYS
  MaxClock, MaxChanges, MaxReloads  \* bounds

Tables   == {"machines", "shifts"}
ShiftRow == "shifts"      \* all the shifts, as one

ASSUME CacheAssumption ==
  /\ ShiftRow \notin ApiKeys
  /\ Period \in [Tables -> Nat \ {0}]
  /\ QueryTime \in Nat /\ NegativeTtl \in Nat /\ MaxNegative \in Nat \ {0}
  /\ MaxClock \in Nat

NoRow == "none"

VARIABLES
  table, clock,
  history,     \* what the table's rows have said, and since when
  cache,       \* machineCache and byCompany
  installed,   \* when it was last reloaded
  due,         \* when the timer goes off
  reloads,     \* queries of the whole table, in progress
  lookup,      \* the query of one machine
  negative,    \* negativeCache: [key, at], in the order of the Map
  answer       \* of lookupMachine(), in the step it returns

tableVars  == <<table, clock, history>>
reloadVars == <<installed, due, reloads>>
vars == <<tableVars, cache, reloadVars, lookup, negative, answer>>

Keys     == IF table = "machines" THEN ApiKeys ELSE {ShiftRow}
Rows     == Last(history).rows

(* A query: when it was sent, and what the table said then.                *)
Query(key) == [key |-> key, since |-> clock, from |-> Len(history)]
AllKeys    == "all"
NoLookup   == [key |-> AllKeys, since |-> 0, from |-> 0]
NoAnswer   == [key |-> AllKeys, row |-> NoRow]
Results(q) == {history[i].rows : i \in q.from..Len(history)}

TypeOK ==
  /\ table \in Tables /\ clock \in 0..MaxClock
  /\ \A i \in DOMAIN history : history[i].rows \in [Keys -> Values \cup {NoRow}]
  /\ cache \in [Keys -> Values \cup {NoRow}]
  /\ installed <= clock /\ clock <= due
  /\ \A q \in reloads : q.since <= clock /\ clock <= q.since + QueryTime
  /\ lookup = NoLookup \/ lookup.key \in ApiKeys
  /\ Len(negative) <= MaxNegative
  /\ \A i, j \in DOMAIN negative : negative[i].key = negative[j].key => i = j

(* start() of shifts.js and startMQTT() wait for the first load.           *)
Init ==
  /\ table \in Tables /\ clock = 0
  /\ cache \in [Keys -> Values \cup {NoRow}]
  /\ history = <<[at |-> 0, rows |-> cache]>>
  /\ installed = 0 /\ due = Period[table]
  /\ reloads = {} /\ lookup = NoLookup
  /\ negative = <<>> /\ answer = NoAnswer

-----------------------------------------------------------------------------
(* Time goes on up to where a timer must go off or a query be answered.    *)
Tick ==
  /\ clock < MaxClock
  /\ clock < due
  /\ \A q \in reloads \cup {lookup} : q # NoLookup => clock < q.since + QueryTime
  /\ clock' = clock + 1
  /\ answer' = NoAnswer /\ UNCHANGED <<table, history, cache, reloadVars, lookup, negative>>

(* A row is inserted, updated or deactivated.                              *)
Change ==
  /\ Len(history) <= MaxChanges
  /\ \E key \in Keys : \E row \in (Values \cup {NoRow}) \ {Rows[key]} :
       history' = Append(history, [at |-> clock, rows |-> [Rows EXCEPT ![key] = row]])
  /\ answer' = NoAnswer /\ UNCHANGED <<table, clock, cache, reloadVars, lookup, negative>>

(* The timers; a connection to the broker reloads the machines too.        *)
TimerFires ==
  /\ clock = due /\ due' = clock + Period[table]
  /\ reloads' = reloads \cup {Query(AllKeys)}
  /\ answer' = NoAnswer /\ UNCHANGED <<tableVars, cache, installed, lookup, negative>>

Connected ==
  /\ table = "machines" /\ Cardinality(reloads) < MaxReloads
  /\ reloads' = reloads \cup {Query(AllKeys)}
  /\ answer' = NoAnswer /\ UNCHANGED <<tableVars, cache, installed, due, lookup, negative>>

(* preloadMachines() and load(), after their query: the cache is what was  *)
(* read.  Mutated: rows are set, but those that are gone stay.             *)
WithRows(rows)   == [key \in Keys |-> IF rows[key] = NoRow THEN cache[key] ELSE rows[key]]
ReplacedBy(rows) == rows

(* What a loop over the Map leaves of it when it deletes the others.       *)
Only(entries, kept) ==
  LET upTo[i \in 0..Len(entries)] ==
        IF i = 0 THEN <<>>
        ELSE IF entries[i] \in kept THEN Append(upTo[i - 1], entries[i])
        ELSE upTo[i - 1]
  IN upTo[Len(entries)]

(* A negative entry counts for a while.  Mutated: while it is there.       *)
AlwaysFresh(entry) == TRUE
Fresh(entry)       == clock - entry.at < NegativeTtl

ReloadInstalls ==
  /\ \E q \in reloads : \E rows \in Results(q) :
       /\ reloads' = reloads \ {q}
       /\ cache' = ReplacedBy(rows)
       /\ installed' = clock
       /\ negative' = Only(negative, {e \in Range(negative) : cache'[e.key] = NoRow /\ Fresh(e)})
  /\ answer' = NoAnswer /\ UNCHANGED <<tableVars, due, lookup>>

(* The last known rows stay.                                               *)
ReloadFails ==
  /\ \E q \in reloads : reloads' = reloads \ {q}
  /\ answer' = NoAnswer /\ UNCHANGED <<tableVars, cache, installed, due, lookup, negative>>

-----------------------------------------------------------------------------
Answer(key, row) == answer' = [key |-> key, row |-> row]

(* lookupMachine(): from the cache, from what was not found, or a query.   *)
FromCache(key) ==
  /\ cache[key] # NoRow
  /\ Answer(key, cache[key])
  /\ UNCHANGED <<tableVars, cache, reloadVars, lookup, negative>>

Missed(key) == \E i \in DOMAIN negative : negative[i].key = key /\ Fresh(negative[i])

FromNegative(key) ==
  /\ cache[key] = NoRow /\ Missed(key)
  /\ Answer(key, NoRow)
  /\ UNCHANGED <<tableVars, cache, reloadVars, lookup, negative>>

LookupAsks(key) ==
  /\ cache[key] = NoRow /\ ~Missed(key)
  /\ lookup' = Query(key)
  /\ answer' = NoAnswer /\ UNCHANGED <<tableVars, cache, reloadVars, negative>>

(* A Map keeps the place of a key it has, and drops its first entries.     *)
(* Mutated: it drops none.                                                 *)
AllOfThem(entries, limit) == entries
Newest(entries, limit)    == SubSeq(entries, Max({1, Len(entries) - limit + 1}), Len(entries))

Noted(key) ==
  LET entry == [key |-> key, at |-> clock]
      places == {i \in DOMAIN negative : negative[i].key = key}
  IN Newest(IF places = {} THEN Append(negative, entry)
            ELSE [negative EXCEPT ![Min(places)] = entry], MaxNegative)

LookupAnswered ==
  /\ lookup # NoLookup /\ lookup' = NoLookup
  /\ \E rows \in Results(lookup) :
       LET key == lookup.key  row == rows[key] IN
       /\ Answer(key, row)
       /\ cache' = IF row = NoRow THEN cache ELSE [cache EXCEPT ![key] = row]
       /\ negative' = IF row = NoRow THEN Noted(key)
                      ELSE Only(negative, {e \in Range(negative) : e.key # key})
  /\ UNCHANGED <<tableVars, reloadVars>>

(* The reading stays unacknowledged.                                       *)
LookupFails ==
  /\ lookup # NoLookup
  /\ lookup' = NoLookup
  /\ answer' = NoAnswer /\ UNCHANGED <<tableVars, cache, reloadVars, negative>>

LookupMachine(key) ==
  lookup = NoLookup /\ (FromCache(key) \/ FromNegative(key) \/ LookupAsks(key))

Next ==
  \/ Tick \/ Change
  \/ TimerFires \/ Connected \/ ReloadInstalls \/ ReloadFails
  \/ \E key \in Keys \cap ApiKeys : LookupMachine(key)
  \/ LookupAnswered \/ LookupFails

Spec == Init /\ [][Next]_vars

-----------------------------------------------------------------------------
(* A key's row was this some time from then to now.                        *)
WasSo(key, row, from) ==
  \E i \in DOMAIN history :
    history[i].rows[key] = row /\ (i = Len(history) \/ history[i + 1].at >= from)

(* What a cache holds was so when the last reload was under way, or later: *)
(* one query's time before it ended, however reloads overtake each other,  *)
(* and whatever a lookup that was asked before puts back afterwards.       *)
CachedWasSo == \A key \in Keys : cache[key] # NoRow => WasSo(key, cache[key], installed - QueryTime)

(* A reading is let go of as an unknown machine's only if there was none a *)
(* NegativeTtl and a query's time ago: a machine that is added is not      *)
(* refused for longer.                                                     *)
RefusedWasUnknown ==
  answer # NoAnswer /\ answer.row = NoRow
    => WasSo(answer.key, NoRow, clock - NegativeTtl - QueryTime)

=============================================================================
