------------------------- MODULE MachineCacheProofs -------------------------
(***************************************************************************)
(* Proofs that what a cache holds was so, and that no machine is refused   *)
(* for longer than an entry counts and a query takes, for any machines,    *)
(* periods, times of queries and number of reloads that overlap.           *)
(***************************************************************************)
EXTENDS MachineCache, NumberLemmas, SequenceTheorems

(* The table's history: one entry at least, in the order of time.          *)
Versions == [at : Nat, rows : [Keys -> Values \cup {NoRow}]]

HistoryInv ==
  /\ table \in Tables /\ clock \in Nat
  /\ history \in Seq(Versions) /\ Len(history) >= 1
  /\ \A i \in 1..Len(history) : history[i].at <= clock
  /\ \A i, j \in 1..Len(history) : i <= j => history[i].at <= history[j].at

(* What a query may be answered with was so when it was sent, or later; it *)
(* has not been under way for longer than a query can.                     *)
QueryInv(q) ==
  /\ q.since \in Nat /\ q.since <= clock /\ clock <= q.since + QueryTime
  /\ q.from \in 1..Len(history)
  /\ q.from < Len(history) => history[q.from + 1].at >= q.since

QueriesInv ==
  /\ \A q \in reloads : q # NoLookup /\ QueryInv(q)
  /\ lookup # NoLookup => QueryInv(lookup)

CacheInv ==
  /\ HistoryInv /\ QueriesInv
  /\ cache \in [Keys -> Values \cup {NoRow}]
  /\ installed \in Nat /\ installed <= clock
  /\ CachedWasSo

-----------------------------------------------------------------------------
(* A query is answered with rows of the table.                             *)
LEMMA AnswerTyped ==
  ASSUME HistoryInv, NEW q, QueryInv(q), NEW rows \in Results(q)
  PROVE  rows \in [Keys -> Values \cup {NoRow}]
<1>1. PICK i \in q.from..Len(history) : rows = history[i].rows
  BY DEF Results
<1>2. history[i] \in Versions
  BY <1>1 DEF QueryInv, HistoryInv
<1> QED
  BY <1>1, <1>2 DEF Versions

(* Whatever a query is answered with was so at most one query's time ago.  *)
LEMMA AnswerWasSo ==
  ASSUME HistoryInv, NEW q, QueryInv(q), NEW rows \in Results(q), NEW key \in Keys,
         NEW from \in Int, from <= clock - QueryTime
  PROVE  WasSo(key, rows[key], from)
<1>1. PICK i \in q.from..Len(history) : rows = history[i].rows
  BY DEF Results
<1>2. i \in 1..Len(history) /\ i \in DOMAIN history /\ history[i] \in Versions
  BY <1>1 DEF QueryInv, HistoryInv
<1>3. i = Len(history) \/ history[i + 1].at >= from
  <2>1. SUFFICES ASSUME i # Len(history) PROVE history[i + 1].at >= from
    OBVIOUS
  <2>2. i + 1 \in 1..Len(history) /\ q.from + 1 \in 1..Len(history) /\ q.from < Len(history)
    BY <1>1, <2>1 DEF QueryInv, HistoryInv
  <2>3. history[q.from + 1].at >= q.since /\ history[q.from + 1].at <= history[i + 1].at
    BY <1>1, <2>2 DEF QueryInv, HistoryInv
  <2>4. history[q.from + 1].at \in Nat /\ history[i + 1].at \in Nat
    <3>1. history[q.from + 1] \in Versions /\ history[i + 1] \in Versions
      BY <2>2 DEF HistoryInv
    <3> QED
      BY <3>1 DEF Versions
  <2>5. q.since >= from
    BY CacheAssumption DEF QueryInv, HistoryInv
  <2> QED
    BY <2>3, <2>4, <2>5 DEF QueryInv
<1> QED
  BY <1>1, <1>2, <1>3 DEF WasSo, Versions

(* Queries are in time as long as the clock, the table and they stay.      *)
LEMMA QueryIsNew ==
  ASSUME HistoryInv, NEW key
  PROVE  Query(key) # NoLookup /\ QueryInv(Query(key))
BY CacheAssumption DEF HistoryInv, Query, NoLookup, QueryInv

(* A step that leaves the table leaves its history and the queries.        *)
LEMMA SameTable ==
  ASSUME HistoryInv, QueriesInv, UNCHANGED tableVars
  PROVE  HistoryInv' /\ (\A q : QueryInv(q)' = QueryInv(q)) /\ Keys' = Keys
BY DEF HistoryInv, QueryInv, tableVars, Versions, Keys

(* One that leaves the cache too leaves it right.                          *)
LEMMA SameRows ==
  ASSUME CachedWasSo, UNCHANGED <<tableVars, cache, installed>>
  PROVE  CachedWasSo'
BY DEF CachedWasSo, WasSo, tableVars, Keys

(* The first load is of the table as it is.                                *)
LEMMA CacheInit == Init => CacheInv
<1> SUFFICES ASSUME Init PROVE CacheInv
  OBVIOUS
<1>1. Len(history) = 1 /\ history[1] = [at |-> 0, rows |-> cache] /\ Keys = Keys
  BY DEF Init
<1>2. HistoryInv
  BY <1>1 DEF Init, HistoryInv, Versions
<1>3. CachedWasSo
  BY <1>1 DEF CachedWasSo, WasSo, Init
<1> QED
  BY <1>2, <1>3 DEF Init, CacheInv, QueriesInv

-----------------------------------------------------------------------------
(* Time, and the table.                                                    *)
LEMMA TickKeeps == CacheInv /\ Tick => CacheInv'
<1> SUFFICES ASSUME CacheInv, Tick PROVE CacheInv'
  OBVIOUS
<1>1. HistoryInv'
  <2>1. \A i \in 1..Len(history) : history[i].at \in Nat
    <3>1. \A i \in 1..Len(history) : history[i] \in Versions
      BY DEF CacheInv, HistoryInv
    <3> QED
      BY <3>1 DEF Versions
  <2>2. Versions' = Versions
    BY DEF Tick, Versions, Keys
  <2> QED
    BY <2>1, <2>2 DEF CacheInv, HistoryInv, Tick
<1>2. ASSUME NEW q, q # NoLookup, q \in reloads \cup {lookup}, QueryInv(q)
      PROVE  QueryInv(q)'
  BY <1>2, CacheAssumption DEF CacheInv, HistoryInv, QueryInv, Tick
<1>3. QueriesInv'
  BY <1>2 DEF CacheInv, QueriesInv, Tick, reloadVars
<1>4. CachedWasSo'
  BY DEF CacheInv, CachedWasSo, WasSo, Tick, reloadVars, Keys
<1> QED
  BY <1>1, <1>3, <1>4 DEF CacheInv, HistoryInv, Tick, reloadVars, Keys

(* What was so, after a step.                                              *)
NowWasSo(key, row, from) ==
  \E i \in DOMAIN history' :
    history'[i].rows[key] = row /\ (i = Len(history') \/ history'[i + 1].at >= from)

(* The table stays, or gets a version of now.                              *)
TableGoesOn ==
  \/ history' = history
  \/ \E new \in Versions : new.at = clock /\ history' = Append(history, new)

(* A change appends a version of now.                                      *)
LEMMA ChangeAppends ==
  ASSUME HistoryInv, Change
  PROVE  \E new \in Versions : new.at = clock /\ history' = Append(history, new)
<1>1. PICK key \in Keys, row \in Values \cup {NoRow} :
        history' = Append(history, [at |-> clock, rows |-> [Last(history).rows EXCEPT ![key] = row]])
  BY DEF Change, Rows
<1> DEFINE new == [at |-> clock, rows |-> [Last(history).rows EXCEPT ![key] = row]]
<1>2. Last(history) = history[Len(history)] /\ history[Len(history)] \in Versions
  BY DEF HistoryInv, Last
<1>3. new \in Versions
  BY <1>2 DEF HistoryInv, Versions
<1> QED  BY <1>1, <1>3

(* What was so stays so.                                                   *)
LEMMA StillWasSo ==
  ASSUME HistoryInv, TableGoesOn, NEW key, NEW row, NEW from \in Int, from <= clock,
         WasSo(key, row, from)
  PROVE  NowWasSo(key, row, from)
<1>1. CASE history' = history
  BY <1>1 DEF WasSo, NowWasSo
<1>2. CASE history' # history
  <2>1. PICK new \in Versions : new.at = clock /\ history' = Append(history, new)
    BY <1>2 DEF TableGoesOn
  <2>2. /\ Len(history') = Len(history) + 1 /\ Len(history) \in Nat
        /\ \A i \in 1..Len(history) : history'[i] = history[i]
        /\ history'[Len(history) + 1] = new
        /\ DOMAIN history = 1..Len(history) /\ DOMAIN history' = 1..Len(history')
    BY <2>1 DEF HistoryInv
  <2>3. PICK i \in 1..Len(history) :
          /\ history[i].rows[key] = row
          /\ i = Len(history) \/ history[i + 1].at >= from
    BY <2>2 DEF WasSo
  <2>4. history'[i + 1].at >= from
    <3>1. CASE i = Len(history)
      <4>1. clock \in Int
        BY DEF HistoryInv
      <4> QED  BY <2>1, <2>2, <3>1, <4>1
    <3>2. CASE i # Len(history)
      <4>1. i + 1 \in 1..Len(history)
        BY <2>2, <3>2
      <4> QED  BY <2>2, <2>3, <3>2, <4>1
    <3> QED  BY <3>1, <3>2
  <2>5. i \in DOMAIN history' /\ history'[i].rows[key] = row
    <3>1. i \in 1..Len(history')
      BY <2>2
    <3> QED  BY <2>2, <2>3, <3>1
  <2> QED  BY <2>4, <2>5 DEF NowWasSo
<1> QED  BY <1>1, <1>2

(* A change of the table makes nothing wrong that was right before.        *)
LEMMA ChangeKeeps == CacheInv /\ Change => CacheInv'
<1> SUFFICES ASSUME CacheInv, Change PROVE CacheInv'
  OBVIOUS
<1>1. PICK new \in Versions : new.at = clock /\ history' = Append(history, new)
  BY ChangeAppends DEF CacheInv
<1>2. Keys' = Keys /\ UNCHANGED <<table, clock, cache, installed, reloads, lookup>> /\ TableGoesOn
  BY <1>1 DEF Change, reloadVars, Keys, TableGoesOn
<1>3. /\ Len(history') = Len(history) + 1 /\ Len(history) \in Nat
      /\ \A i \in 1..Len(history) : history'[i] = history[i]
      /\ history'[Len(history) + 1] = new
      /\ history' \in Seq(Versions)
  BY <1>1 DEF CacheInv, HistoryInv
<1>4. HistoryInv'
  <2>1. history' \in Seq(Versions')
    BY <1>2, <1>3 DEF Versions
  <2>2. \A i \in 1..Len(history') : history'[i].at <= clock
    BY <1>1, <1>3 DEF CacheInv, HistoryInv
  <2>3. \A i, j \in 1..Len(history') : i <= j => history'[i].at <= history'[j].at
    BY <1>1, <1>3 DEF CacheInv, HistoryInv
  <2> QED
    BY <1>2, <1>3, <2>1, <2>2, <2>3 DEF CacheInv, HistoryInv
<1>5. \A q : QueryInv(q) => QueryInv(q)'
  <2> SUFFICES ASSUME NEW q, QueryInv(q) PROVE QueryInv(q)'
    OBVIOUS
  <2>1. CASE q.from < Len(history)
    BY <1>2, <1>3, <2>1 DEF QueryInv
  <2>2. CASE q.from = Len(history)
    BY <1>1, <1>2, <1>3, <2>2 DEF QueryInv
  <2> QED
    BY <2>1, <2>2, <1>3 DEF QueryInv
<1>6. CachedWasSo'
  <2> SUFFICES ASSUME NEW k \in Keys, cache[k] # NoRow
               PROVE  NowWasSo(k, cache[k], installed - QueryTime)
    BY <1>2 DEF CachedWasSo, WasSo, NowWasSo
  <2>1. WasSo(k, cache[k], installed - QueryTime)
    BY DEF CacheInv, CachedWasSo
  <2>2. HistoryInv /\ installed - QueryTime \in Int /\ installed - QueryTime <= clock
    BY CacheAssumption DEF CacheInv, HistoryInv
  <2> QED
    BY <1>2, <2>1, <2>2, StillWasSo
<1> QED
  BY <1>2, <1>4, <1>5, <1>6 DEF CacheInv, QueriesInv

-----------------------------------------------------------------------------
(* Reloads, and lookups.                                                   *)
LEMMA ReloadsKeep ==
  ASSUME CacheInv, UNCHANGED <<tableVars, cache, installed>>,
         \A q \in reloads' : q \in reloads \/ q = Query(AllKeys),
         lookup' = NoLookup \/ lookup' = lookup \/ \E key : lookup' = Query(key)
  PROVE  CacheInv'
<1>1. HistoryInv' /\ (\A q : QueryInv(q)' = QueryInv(q)) /\ Keys' = Keys
  BY SameTable DEF CacheInv
<1>2. CachedWasSo'
  BY SameRows DEF CacheInv
<1>3. QueriesInv'
  BY <1>1, QueryIsNew DEF CacheInv, QueriesInv, NoLookup
<1> QED
  BY <1>1, <1>2, <1>3 DEF CacheInv, tableVars

(* What a reload installs was so at most one query's time ago,             *)
LEMMA InstallKeeps == CacheInv /\ ReloadInstalls => CacheInv'
<1> SUFFICES ASSUME CacheInv, ReloadInstalls PROVE CacheInv'
  OBVIOUS
<1>0. PICK q \in reloads : \E rows \in Results(q) :
        reloads' = reloads \ {q} /\ cache' = rows /\ installed' = clock
  BY DEF ReloadInstalls, ReplacedBy
<1>1. PICK rows \in Results(q) : reloads' = reloads \ {q} /\ cache' = rows /\ installed' = clock
  BY <1>0
<1>2. UNCHANGED tableVars /\ lookup' = lookup
  BY DEF ReloadInstalls
<1>3. HistoryInv' /\ (\A r : QueryInv(r)' = QueryInv(r)) /\ Keys' = Keys
  BY <1>2, SameTable DEF CacheInv
<1>4. clock \in Nat /\ QueryTime \in Nat /\ HistoryInv /\ QueryInv(q)
  BY CacheAssumption DEF CacheInv, HistoryInv, QueriesInv
<1>5. rows \in [Keys -> Values \cup {NoRow}]
  BY <1>4, AnswerTyped
<1>6. \A key \in Keys : WasSo(key, rows[key], clock - QueryTime)
  BY <1>1, <1>4, AnswerWasSo
<1>7. CachedWasSo'
  BY <1>1, <1>2, <1>3, <1>6 DEF CachedWasSo, WasSo, tableVars
<1>8. QueriesInv'
  BY <1>1, <1>2, <1>3 DEF CacheInv, QueriesInv, NoLookup
<1> QED
  BY <1>1, <1>2, <1>3, <1>4, <1>5, <1>7, <1>8 DEF CacheInv, tableVars

(* and so was the row a lookup puts back.                                  *)
LEMMA AnsweredKeeps == CacheInv /\ LookupAnswered => CacheInv'
<1> SUFFICES ASSUME CacheInv, LookupAnswered PROVE CacheInv'
  OBVIOUS
<1>1. PICK rows \in Results(lookup) :
        cache' = IF rows[lookup.key] = NoRow THEN cache
                 ELSE [cache EXCEPT ![lookup.key] = rows[lookup.key]]
  BY DEF LookupAnswered
<1>2. UNCHANGED <<tableVars, reloads, installed>> /\ lookup # NoLookup /\ lookup' = NoLookup
  BY DEF LookupAnswered, reloadVars
<1>3. HistoryInv' /\ (\A r : QueryInv(r)' = QueryInv(r)) /\ Keys' = Keys
  BY <1>2, SameTable DEF CacheInv
<1>4. /\ clock \in Nat /\ QueryTime \in Nat /\ installed \in Nat /\ installed <= clock
      /\ HistoryInv /\ QueryInv(lookup)
  BY <1>2, CacheAssumption DEF CacheInv, HistoryInv, QueriesInv
<1>5. rows \in [Keys -> Values \cup {NoRow}]
  BY <1>4, AnswerTyped
<1>6. \A key \in Keys : WasSo(key, rows[key], installed - QueryTime)
  <2>1. installed - QueryTime \in Int /\ installed - QueryTime <= clock - QueryTime
    BY <1>4
  <2> QED
    BY <1>1, <1>4, <2>1, AnswerWasSo
<1>7. /\ cache' \in [Keys -> Values \cup {NoRow}]
      /\ \A key \in Keys : cache'[key] = cache[key] \/ cache'[key] = rows[key]
  BY <1>1, <1>5 DEF CacheInv
<1>8. CachedWasSo'
  BY <1>2, <1>3, <1>6, <1>7 DEF CacheInv, CachedWasSo, WasSo, tableVars
<1>9. QueriesInv'
  BY <1>2, <1>3 DEF CacheInv, QueriesInv
<1> QED
  BY <1>2, <1>3, <1>4, <1>7, <1>8, <1>9 DEF CacheInv, tableVars

-----------------------------------------------------------------------------
(* The invariant is inductive.                                             *)
LEMMA CacheNext == CacheInv /\ [Next]_vars => CacheInv'
<1> SUFFICES ASSUME CacheInv, [Next]_vars PROVE CacheInv'
  OBVIOUS
<1>1. CASE Tick
  BY <1>1, TickKeeps
<1>2. CASE Change
  BY <1>2, ChangeKeeps
<1>3. CASE TimerFires \/ Connected
  BY <1>3, ReloadsKeep DEF TimerFires, Connected
<1>4. CASE ReloadInstalls
  BY <1>4, InstallKeeps
<1>5. CASE ReloadFails
  BY <1>5, ReloadsKeep DEF ReloadFails
<1>6. CASE \E key \in Keys \cap ApiKeys : LookupMachine(key)
  BY <1>6, ReloadsKeep DEF LookupMachine, FromCache, FromNegative, LookupAsks, reloadVars
<1>7. CASE LookupAnswered
  BY <1>7, AnsweredKeeps
<1>8. CASE LookupFails
  BY <1>8, ReloadsKeep DEF LookupFails, reloadVars
<1>9. CASE UNCHANGED vars
  BY <1>9, ReloadsKeep DEF vars, reloadVars
<1> QED
  BY <1>1, <1>2, <1>3, <1>4, <1>5, <1>6, <1>7, <1>8, <1>9 DEF Next

(* preloadMachines(), load() and lookupMachine() together: what the cache  *)
(* says of a machine, or of the shifts, was so when the last reload was    *)
(* under way, or later.                                                    *)
THEOREM CacheFreshness == Spec => []CachedWasSo
<1>1. CacheInv => CachedWasSo
  BY DEF CacheInv
<1> QED
  BY CacheInit, CacheNext, <1>1, PTL DEF Spec

-----------------------------------------------------------------------------
(* Only keeps, for each number of entries gone through.                    *)
Filters(upTo, entries, kept, n) ==
  upTo = [i \in 0..n |->
            IF i = 0 THEN <<>>
            ELSE IF entries[i] \in kept THEN Append(upTo[i - 1], entries[i])
            ELSE upTo[i - 1]]

(* There is such a function, or there would be a least number without one. *)
LEMMA FilterExists ==
  ASSUME NEW entries, NEW kept, NEW n \in Nat
  PROVE  \E upTo : Filters(upTo, entries, kept, n)
<1> DEFINE Without == {k \in Nat : ~\E upTo : Filters(upTo, entries, kept, k)}
<1> SUFFICES ASSUME Without # {}  PROVE FALSE
  OBVIOUS
<1>1. PICK k \in Without : \A x \in Without : k <= x
  <2>1. Without \in SUBSET Nat
    OBVIOUS
  <2> HIDE DEF Without
  <2> QED  BY <2>1, LeastExists
<1>2. CASE k = 0
  <2> DEFINE f == [i \in 0..0 |-> <<>>]
  <2>1. Filters(f, entries, kept, 0)
    BY DEF Filters
  <2> QED  BY <1>1, <1>2, <2>1
<1>3. CASE k # 0
  <2>1. k - 1 \in Nat /\ k - 1 \notin Without
    BY <1>1, <1>3
  <2>2. PICK f : Filters(f, entries, kept, k - 1)
    BY <2>1
  <2> DEFINE g == [i \in 0..k |->
                     IF i = k THEN IF entries[k] \in kept THEN Append(f[k - 1], entries[k]) ELSE f[k - 1]
                     ELSE f[i]]
  <2>3. \A i \in 0..k : g[i] = IF i = 0 THEN <<>>
                               ELSE IF entries[i] \in kept THEN Append(g[i - 1], entries[i])
                               ELSE g[i - 1]
    <3> SUFFICES ASSUME NEW i \in 0..k
                 PROVE  g[i] = IF i = 0 THEN <<>>
                               ELSE IF entries[i] \in kept THEN Append(g[i - 1], entries[i])
                               ELSE g[i - 1]
      OBVIOUS
    <3>1. CASE i = k
      <4>1. g[i - 1] = f[k - 1]
        BY <1>1, <1>3, <3>1
      <4> QED  BY <1>3, <3>1, <4>1
    <3>2. CASE i # k
      <4>1. i \in 0..(k - 1) /\ g[i] = f[i] /\ (i # 0 => g[i - 1] = f[i - 1])
        BY <1>1, <3>2
      <4> QED  BY <2>2, <4>1 DEF Filters
    <3> QED  BY <3>1, <3>2
  <2>4. Filters(g, entries, kept, k)
    <3>1. g = [i \in 0..k |-> g[i]]
      OBVIOUS
    <3> HIDE DEF g
    <3> QED  BY <2>3, <3>1 DEF Filters
  <2> QED  BY <1>1, <2>4
<1> QED  BY <1>2, <1>3

(* s is entries of the first n, in their order, those in kept.             *)
PartOf(s, entries, kept, n) ==
  \E place \in [1..Len(s) -> 1..n] :
    /\ \A i \in 1..Len(s) : s[i] = entries[place[i]] /\ s[i] \in kept
    /\ \A i, j \in 1..Len(s) : i < j => place[i] < place[j]

(* Only leaves entries to be kept, in their order.                         *)
LEMMA OnlyIsPart ==
  ASSUME NEW Entry, NEW entries \in Seq(Entry), NEW kept
  PROVE  /\ Only(entries, kept) \in Seq(Entry)
         /\ Len(Only(entries, kept)) <= Len(entries)
         /\ PartOf(Only(entries, kept), entries, kept, Len(entries))
<1> DEFINE f == CHOOSE upTo : Filters(upTo, entries, kept, Len(entries))
           Good(i) == f[i] \in Seq(Entry) /\ Len(f[i]) <= i /\ PartOf(f[i], entries, kept, i)
           Bad == {i \in 0..Len(entries) : ~Good(i)}
<1>1. Filters(f, entries, kept, Len(entries))
  BY FilterExists
<1>2. Only(entries, kept) = f[Len(entries)]
  BY DEF Only, Filters
<1> HIDE DEF f
<1>3. /\ f[0] = <<>>
      /\ \A i \in 1..Len(entries) :
           f[i] = IF entries[i] \in kept THEN Append(f[i - 1], entries[i]) ELSE f[i - 1]
  <2>1. Len(entries) \in Nat
    OBVIOUS
  <2>2. \A i \in 0..Len(entries) :
          f[i] = IF i = 0 THEN <<>>
                 ELSE IF entries[i] \in kept THEN Append(f[i - 1], entries[i]) ELSE f[i - 1]
    BY <1>1 DEF Filters
  <2> QED  BY <2>1, <2>2
<1>4. Good(0)
  <2>1. Len(f[0]) = 0 /\ f[0] \in Seq(Entry)
    BY <1>3
  <2>2. PartOf(f[0], entries, kept, 0)
    <3>1. [a \in 1..0 |-> a] \in [1..Len(f[0]) -> 1..0]
      BY <2>1
    <3> QED  BY <2>1, <3>1 DEF PartOf
  <2> QED  BY <2>1, <2>2
<1>5. ASSUME NEW i \in 1..Len(entries), Good(i - 1)  PROVE Good(i)
  <2> DEFINE s == f[i - 1]
  <2>1. PICK place \in [1..Len(s) -> 1..(i - 1)] :
          /\ \A a \in 1..Len(s) : s[a] = entries[place[a]] /\ s[a] \in kept
          /\ \A a, b \in 1..Len(s) : a < b => place[a] < place[b]
    BY <1>5 DEF PartOf
  <2>2. s \in Seq(Entry) /\ Len(s) \in Nat /\ Len(s) <= i - 1
    BY <1>5
  <2> HIDE DEF s
  <2>3. CASE entries[i] \in kept
    <3> DEFINE t == Append(s, entries[i])
               more == [a \in 1..(Len(s) + 1) |-> IF a = Len(s) + 1 THEN i ELSE place[a]]
    <3>1. f[i] = t
      BY <1>3, <2>3 DEF s
    <3>2. /\ t \in Seq(Entry) /\ Len(t) = Len(s) + 1 /\ t[Len(s) + 1] = entries[i]
          /\ \A a \in 1..Len(s) : t[a] = s[a]
      BY <2>2
    <3> HIDE DEF t
    <3>3. more \in [1..Len(t) -> 1..i]
      <4>1. \A a \in 1..Len(s) : place[a] \in 1..(i - 1)
        BY <2>1
      <4>2. \A a \in 1..(Len(s) + 1) : (IF a = Len(s) + 1 THEN i ELSE place[a]) \in 1..i
        BY <2>2, <4>1
      <4> QED  BY <3>2, <4>2
    <3>4. \A a \in 1..Len(t) : t[a] = entries[more[a]] /\ t[a] \in kept
      BY <2>1, <2>2, <2>3, <3>2
    <3>5. \A a, b \in 1..Len(t) : a < b => more[a] < more[b]
      <4> SUFFICES ASSUME NEW a \in 1..Len(t), NEW b \in 1..Len(t), a < b
                   PROVE  more[a] < more[b]
        OBVIOUS
      <4>0. /\ \A x \in 1..Len(s) : more[x] = place[x] /\ place[x] \in 1..(i - 1)
            /\ more[Len(s) + 1] = i
        BY <2>1, <2>2
      <4> HIDE DEF more
      <4>1. a \in 1..Len(s) /\ more[a] = place[a] /\ place[a] \in 1..(i - 1)
        BY <2>2, <3>2, <4>0
      <4>2. CASE b = Len(s) + 1
        BY <4>0, <4>1, <4>2
      <4>3. CASE b # Len(s) + 1
        <5>1. b \in 1..Len(s) /\ more[b] = place[b]
          BY <2>2, <3>2, <4>0, <4>3
        <5> QED  BY <2>1, <4>1, <5>1
      <4> QED  BY <4>2, <4>3
    <3> HIDE DEF more
    <3>6. PartOf(t, entries, kept, i)
      BY <3>3, <3>4, <3>5 DEF PartOf
    <3> QED  BY <2>2, <3>1, <3>2, <3>6
  <2>4. CASE entries[i] \notin kept
    <3>1. f[i] = s
      BY <1>3, <2>4 DEF s
    <3>2. place \in [1..Len(s) -> 1..i]
      BY <2>1
    <3>3. PartOf(s, entries, kept, i)
      BY <2>1, <3>2 DEF PartOf
    <3> QED  BY <2>2, <3>1, <3>3
  <2> QED  BY <2>3, <2>4
<1>6. Bad = {}
  <2> SUFFICES ASSUME Bad # {}  PROVE FALSE
    OBVIOUS
  <2>1. PICK i \in Bad : \A x \in Bad : i <= x
    <3>1. Bad \in SUBSET Nat
      OBVIOUS
    <3> HIDE DEF Bad
    <3> QED  BY <3>1, LeastExists
  <2>2. i # 0 /\ i \in 1..Len(entries) /\ i - 1 \in 0..Len(entries)
    BY <1>4, <2>1
  <2>3. Good(i - 1)
    BY <2>1, <2>2
  <2> QED  BY <1>5, <2>1, <2>2, <2>3
<1>7. Good(Len(entries))
  BY <1>6
<1> QED  BY <1>2, <1>7

-----------------------------------------------------------------------------
(* The negative cache: one entry for a key, no more than MaxNegative, and   *)
(* none for a key that had a row at the time.                              *)
Entries == [key : Keys \cap ApiKeys, at : Nat]

OneEach(s) == \A i, j \in 1..Len(s) : s[i].key = s[j].key => i = j

NegativeInv ==
  /\ negative \in Seq(Entries) /\ Len(negative) <= MaxNegative /\ OneEach(negative)
  /\ \A i \in 1..Len(negative) :
       negative[i].at <= clock /\ WasSo(negative[i].key, NoRow, negative[i].at - QueryTime)
  /\ lookup # NoLookup => lookup.key \in Keys \cap ApiKeys

(* What was so after some time was so after an earlier one.                *)
LEMMA EarlierToo ==
  ASSUME HistoryInv, NEW key, NEW row, NEW to \in Int, NEW from \in Int, from <= to, WasSo(key, row, to)
  PROVE  WasSo(key, row, from)
<1>1. PICK i \in DOMAIN history : history[i].rows[key] = row /\ (i = Len(history) \/ history[i + 1].at >= to)
  BY DEF WasSo
<1>2. CASE i = Len(history)
  BY <1>1, <1>2 DEF WasSo
<1>3. CASE i # Len(history)
  <2>1. i + 1 \in 1..Len(history) /\ history[i + 1] \in Versions
    <3>1. i \in 1..Len(history) /\ Len(history) \in Nat
      BY DEF HistoryInv
    <3>2. i + 1 \in 1..Len(history)
      BY <1>3, <3>1
    <3> QED  BY <3>2 DEF HistoryInv
  <2>2. history[i + 1].at \in Nat
    BY <2>1 DEF Versions
  <2>3. history[i + 1].at >= from
    BY <1>1, <1>3, <2>2
  <2> QED  BY <1>1, <2>3 DEF WasSo
<1> QED  BY <1>2, <1>3

(* The same of what a step leaves, without primes of operators.            *)
LEMMA NegativeAfter ==
  ASSUME table' = table, negative' \in Seq(Entries), Len(negative') <= MaxNegative, OneEach(negative'),
         \A i \in 1..Len(negative') :
           negative'[i].at <= clock' /\ NowWasSo(negative'[i].key, NoRow, negative'[i].at - QueryTime),
         lookup' # NoLookup => lookup'.key \in Keys \cap ApiKeys
  PROVE  NegativeInv'
<1>1. Keys' = Keys /\ Entries' = Entries
  BY DEF Keys, Entries
<1> QED  BY <1>1 DEF NegativeInv, WasSo, NowWasSo, OneEach

(* An entry stays true.                                                    *)
LEMMA EntryStays ==
  ASSUME HistoryInv, NegativeInv, TableGoesOn, clock' \in Nat, clock <= clock', NEW i \in 1..Len(negative)
  PROVE  negative[i].at <= clock' /\ NowWasSo(negative[i].key, NoRow, negative[i].at - QueryTime)
<1> DEFINE e == negative[i]
<1>1. e \in Entries /\ e.at \in Nat
  <2>1. negative[i] \in Entries
    BY DEF NegativeInv
  <2> QED  BY <2>1 DEF Entries
<1>2. e.at <= clock /\ WasSo(e.key, NoRow, e.at - QueryTime) /\ clock \in Nat /\ QueryTime \in Nat
  BY CacheAssumption DEF NegativeInv, HistoryInv
<1> HIDE DEF e
<1>3. e.at - QueryTime \in Int /\ e.at - QueryTime <= clock /\ e.at <= clock'
  BY <1>1, <1>2
<1>4. NowWasSo(e.key, NoRow, e.at - QueryTime)
  BY <1>2, <1>3, StillWasSo
<1> QED  BY <1>3, <1>4 DEF e

(* Entries may go.                                                         *)
LEMMA EntriesGo ==
  ASSUME HistoryInv, NegativeInv, TableGoesOn, table' = table, clock' \in Nat, clock <= clock',
         negative' = negative \/ \E kept : negative' = Only(negative, kept),
         lookup' # NoLookup => lookup' = lookup \/ lookup'.key \in Keys \cap ApiKeys
  PROVE  NegativeInv'
<1>1. lookup' # NoLookup => lookup'.key \in Keys \cap ApiKeys
  BY DEF NegativeInv
<1>2. CASE negative' = negative
  <2>1. \A i \in 1..Len(negative') :
          negative'[i].at <= clock' /\ NowWasSo(negative'[i].key, NoRow, negative'[i].at - QueryTime)
    BY <1>2, EntryStays
  <2> QED  BY <1>1, <1>2, <2>1, NegativeAfter DEF NegativeInv
<1>3. CASE \E kept : negative' = Only(negative, kept)
  <2>1. PICK kept : negative' = Only(negative, kept)
    BY <1>3
  <2>2. negative \in Seq(Entries) /\ Len(negative) <= MaxNegative /\ OneEach(negative)
    BY DEF NegativeInv
  <2>3. /\ negative' \in Seq(Entries) /\ Len(negative') <= Len(negative)
        /\ PartOf(negative', negative, kept, Len(negative))
    BY <2>1, <2>2, OnlyIsPart
  <2>4. PICK place \in [1..Len(negative') -> 1..Len(negative)] :
          /\ \A i \in 1..Len(negative') : negative'[i] = negative[place[i]]
          /\ \A i, j \in 1..Len(negative') : i < j => place[i] < place[j]
    BY <2>3 DEF PartOf
  <2>5. Len(negative') \in Nat /\ Len(negative) \in Nat /\ \A i \in 1..Len(negative') : place[i] \in 1..Len(negative)
    BY <2>2, <2>3
  <2>6. OneEach(negative')
    <3> SUFFICES ASSUME NEW i \in 1..Len(negative'), NEW j \in 1..Len(negative'),
                        negative'[i].key = negative'[j].key
                 PROVE  i = j
      BY DEF OneEach
    <3>1. negative[place[i]].key = negative[place[j]].key
      BY <2>4
    <3>2. place[i] = place[j]
      BY <2>2, <2>5, <3>1 DEF OneEach
    <3>3. ~(i < j) /\ ~(j < i)
      BY <2>4, <2>5, <3>2
    <3> QED  BY <3>3
  <2>7. \A i \in 1..Len(negative') :
          negative'[i].at <= clock' /\ NowWasSo(negative'[i].key, NoRow, negative'[i].at - QueryTime)
    BY <2>4, <2>5, EntryStays
  <2>8. Len(negative') <= MaxNegative
    BY <2>2, <2>3, <2>5, CacheAssumption
  <2> QED  BY <1>1, <2>3, <2>6, <2>7, <2>8, NegativeAfter
<1> QED  BY <1>2, <1>3

(* What the bound of the Map leaves: the last entries.                     *)
LEMMA NewestIsPart ==
  ASSUME NEW Entry, NEW s \in Seq(Entry), NEW limit \in Nat \ {0}
  PROVE  /\ Newest(s, limit) \in Seq(Entry) /\ Len(Newest(s, limit)) <= limit
         /\ \E k \in Nat : \A i \in 1..Len(Newest(s, limit)) :
              i + k \in 1..Len(s) /\ Newest(s, limit)[i] = s[i + k]
<1> DEFINE first == Max({1, Len(s) - limit + 1})
<1>0. Len(s) - limit + 1 \in Int /\ 1 \in Int /\ Len(s) \in Nat
  OBVIOUS
<1>1. first \in Int /\ 1 <= first /\ Len(s) - limit + 1 <= first /\ Len(s) \in Nat
  BY <1>0, MaxOfTwo
<1>2. first = 1 \/ first = Len(s) - limit + 1
  BY <1>0, MaxOfTwo
<1>3. Newest(s, limit) = SubSeq(s, first, Len(s))
  BY DEF Newest
<1> HIDE DEF first
<1>4. \A i \in first..Len(s) : s[i] \in Entry
  BY <1>1
<1> DEFINE t == SubSeq(s, first, Len(s))
<1>5. /\ t \in Seq(Entry)
      /\ Len(t) = IF first <= Len(s) THEN Len(s) - first + 1 ELSE 0
      /\ \A i \in 1..(Len(s) - first + 1) : t[i] = s[first + i - 1]
  BY <1>1, <1>4, SubSeqProperties
<1> HIDE DEF t
<1>6. Len(t) <= limit
  BY <1>1, <1>2, <1>5
<1>7. \A i \in 1..Len(t) : i + (first - 1) \in 1..Len(s) /\ t[i] = s[i + (first - 1)]
  BY <1>1, <1>5
<1>8. first - 1 \in Nat
  BY <1>1
<1> QED  BY <1>3, <1>5, <1>6, <1>7, <1>8 DEF t

(* A key that was not found is noted.                                      *)
LEMMA KeyNoted ==
  ASSUME CacheInv, NegativeInv, UNCHANGED tableVars, NEW key \in Keys \cap ApiKeys,
         WasSo(key, NoRow, clock - QueryTime), negative' = Noted(key), lookup' = NoLookup
  PROVE  NegativeInv'
<1> DEFINE entry == [key |-> key, at |-> clock]
           places == {i \in DOMAIN negative : negative[i].key = key}
           s == IF places = {} THEN Append(negative, entry) ELSE [negative EXCEPT ![Min(places)] = entry]
           True(e) == e.at <= clock /\ NowWasSo(e.key, NoRow, e.at - QueryTime)
<1>1. HistoryInv /\ TableGoesOn /\ table' = table /\ clock' = clock /\ clock \in Nat /\ QueryTime \in Nat
  BY CacheAssumption DEF CacheInv, HistoryInv, tableVars, TableGoesOn
<1>2. /\ negative \in Seq(Entries) /\ Len(negative) \in Nat /\ OneEach(negative)
      /\ DOMAIN negative = 1..Len(negative)
  BY DEF NegativeInv
<1>3. \A i \in 1..Len(negative) : True(negative[i])
  BY <1>1, EntryStays
<1>4. entry \in Entries /\ entry.key = key
  BY <1>1 DEF Entries
<1>5. True(entry)
  <2>1. clock - QueryTime \in Int /\ clock - QueryTime <= clock
    BY <1>1
  <2> QED  BY <1>1, <2>1, StillWasSo
<1> HIDE DEF True, entry
<1>6. s \in Seq(Entries) /\ OneEach(s) /\ \A i \in 1..Len(s) : True(s[i])
  <2>1. CASE places = {}
    <3>1. s = Append(negative, entry) /\ \A i \in 1..Len(negative) : negative[i].key # key
      BY <1>2, <2>1
    <3> HIDE DEF s, places
    <3>2. /\ s \in Seq(Entries) /\ Len(s) = Len(negative) + 1 /\ s[Len(negative) + 1] = entry
          /\ \A i \in 1..Len(negative) : s[i] = negative[i]
      BY <1>2, <1>4, <3>1
    <3>3. \A i \in 1..Len(s) : i \in 1..Len(negative) \/ i = Len(negative) + 1
      BY <1>2, <3>2
    <3>4. OneEach(s)
      BY <1>2, <1>4, <3>1, <3>2, <3>3 DEF OneEach
    <3>5. \A i \in 1..Len(s) : True(s[i])
      BY <1>3, <1>5, <3>2, <3>3
    <3> QED  BY <3>2, <3>4, <3>5
  <2>2. CASE places # {}
    <3>1. Min(places) \in places
      <4>1. places \in SUBSET Nat
        BY <1>2
      <4> HIDE DEF places
      <4> QED  BY <2>2, <4>1, MinIsLeast
    <3>2. PICK p \in 1..Len(negative) : p = Min(places) /\ negative[p].key = key
      BY <1>2, <3>1
    <3>3. s = [negative EXCEPT ![p] = entry]
      BY <2>2, <3>2
    <3> HIDE DEF s, places
    <3>4. /\ s \in Seq(Entries) /\ Len(s) = Len(negative) /\ s[p] = entry
          /\ \A i \in 1..Len(negative) : i # p => s[i] = negative[i]
      BY <1>2, <1>4, <3>3
    <3>5. \A i \in 1..Len(negative) : s[i].key = negative[i].key
      BY <1>4, <3>2, <3>4
    <3>6. OneEach(s)
      BY <1>2, <3>4, <3>5 DEF OneEach
    <3>7. \A i \in 1..Len(s) : True(s[i])
      BY <1>3, <1>5, <3>4
    <3> QED  BY <3>4, <3>6, <3>7
  <2> QED  BY <2>1, <2>2
<1>7. negative' = Newest(s, MaxNegative)
  BY DEF Noted, entry
<1> HIDE DEF s
<1>8. /\ negative' \in Seq(Entries) /\ Len(negative') <= MaxNegative
      /\ \E k \in Nat : \A i \in 1..Len(negative') : i + k \in 1..Len(s) /\ negative'[i] = s[i + k]
  <2>1. MaxNegative \in Nat \ {0} /\ s \in Seq(Entries)
    BY <1>6, CacheAssumption
  <2>2. /\ Newest(s, MaxNegative) \in Seq(Entries) /\ Len(Newest(s, MaxNegative)) <= MaxNegative
        /\ \E k \in Nat : \A i \in 1..Len(Newest(s, MaxNegative)) :
             i + k \in 1..Len(s) /\ Newest(s, MaxNegative)[i] = s[i + k]
    BY <2>1, NewestIsPart
  <2> QED  BY <1>7, <2>2
<1>9. PICK k \in Nat : \A i \in 1..Len(negative') : i + k \in 1..Len(s) /\ negative'[i] = s[i + k]
  BY <1>8
<1>10. OneEach(negative')
  <2> SUFFICES ASSUME NEW i \in 1..Len(negative'), NEW j \in 1..Len(negative'),
                      negative'[i].key = negative'[j].key
               PROVE  i = j
    BY DEF OneEach
  <2>1. i + k = j + k
    BY <1>6, <1>9 DEF OneEach
  <2> QED  BY <2>1
<1>11. \A i \in 1..Len(negative') : True(negative'[i])
  BY <1>6, <1>9
<1> QED  BY <1>1, <1>8, <1>10, <1>11, NegativeAfter DEF True

(* The first cache has no negative entries.                                *)
LEMMA NegativeInit == Init => NegativeInv
<1> SUFFICES ASSUME Init  PROVE NegativeInv
  OBVIOUS
<1>1. negative = <<>> /\ lookup = NoLookup
  BY DEF Init
<1> QED  BY <1>1, CacheAssumption DEF NegativeInv, OneEach

(* Of a step that does not answer a lookup, entries go at most.            *)
LEMMA OthersNegative ==
  ASSUME CacheInv, NegativeInv, [Next]_vars, ~LookupAnswered  PROVE NegativeInv'
<1>1. HistoryInv /\ clock \in Nat
  BY DEF CacheInv, HistoryInv
<1>2. CASE Tick
  <2>1. clock' \in Nat /\ clock <= clock' /\ table' = table /\ TableGoesOn /\ negative' = negative /\ lookup' = lookup
    BY <1>1, <1>2 DEF Tick, TableGoesOn
  <2> QED  BY <1>1, <2>1, EntriesGo
<1>3. CASE Change
  <2>1. clock' = clock /\ table' = table /\ TableGoesOn /\ negative' = negative /\ lookup' = lookup
    BY <1>1, <1>3, ChangeAppends DEF Change, TableGoesOn
  <2> QED  BY <1>1, <2>1, EntriesGo
<1>4. CASE TimerFires \/ Connected \/ ReloadFails \/ LookupFails \/ UNCHANGED vars
  <2>1. clock' = clock /\ table' = table /\ TableGoesOn /\ negative' = negative /\ (lookup' = lookup \/ lookup' = NoLookup)
    BY <1>4 DEF TimerFires, Connected, ReloadFails, LookupFails, vars, tableVars, TableGoesOn
  <2> QED  BY <1>1, <2>1, EntriesGo
<1>5. CASE ReloadInstalls
  <2>1. /\ clock' = clock /\ table' = table /\ TableGoesOn /\ lookup' = lookup
        /\ \E kept : negative' = Only(negative, kept)
    BY <1>5 DEF ReloadInstalls, tableVars, TableGoesOn
  <2> QED  BY <1>1, <2>1, EntriesGo
<1>6. CASE \E key \in Keys \cap ApiKeys : LookupMachine(key)
  <2>1. PICK key \in Keys \cap ApiKeys : LookupMachine(key)
    BY <1>6
  <2>2. /\ clock' = clock /\ table' = table /\ TableGoesOn /\ negative' = negative
        /\ lookup' = lookup \/ lookup'.key = key
    BY <2>1 DEF LookupMachine, FromCache, FromNegative, LookupAsks, Query, tableVars, TableGoesOn
  <2> QED  BY <1>1, <2>2, EntriesGo
<1> QED  BY <1>2, <1>3, <1>4, <1>5, <1>6 DEF Next

(* The answer of a lookup: the key is noted, or its entry goes.            *)
LEMMA AnswerNoted ==
  ASSUME CacheInv, NegativeInv, LookupAnswered  PROVE NegativeInv'
<1> DEFINE key == lookup.key
<1>1. /\ lookup # NoLookup /\ lookup' = NoLookup /\ UNCHANGED tableVars /\ key \in Keys \cap ApiKeys
      /\ HistoryInv /\ QueryInv(lookup) /\ clock \in Nat /\ QueryTime \in Nat
  BY CacheAssumption DEF LookupAnswered, CacheInv, HistoryInv, QueriesInv, NegativeInv
<1>2. PICK rows \in Results(lookup) :
        negative' = IF rows[key] = NoRow THEN Noted(key)
                    ELSE Only(negative, {e \in Range(negative) : e.key # key})
  BY DEF LookupAnswered
<1>3. WasSo(key, rows[key], clock - QueryTime)
  BY <1>1, AnswerWasSo
<1> HIDE DEF key
<1>4. CASE rows[key] = NoRow
  BY <1>1, <1>2, <1>3, <1>4, KeyNoted
<1>5. CASE rows[key] # NoRow
  <2>1. clock' = clock /\ table' = table /\ TableGoesOn
    BY <1>1 DEF tableVars, TableGoesOn
  <2> QED  BY <1>1, <1>2, <1>5, <2>1, EntriesGo
<1> QED  BY <1>4, <1>5

-----------------------------------------------------------------------------
(* The timers, and the bounds of the clock.                                *)
TimerInv == clock \in 0..MaxClock /\ due \in Nat /\ clock <= due

(* No step but Tick moves the clock, and it stops where a timer is due.    *)
LEMMA TimerSteps ==
  ASSUME CacheInv, TimerInv, [Next]_vars  PROVE TimerInv'
<1>1. clock \in Nat /\ MaxClock \in Nat /\ Period[table] \in Nat
  BY CacheAssumption DEF CacheInv, HistoryInv
<1>2. CASE Tick
  BY <1>1, <1>2 DEF Tick, TimerInv, reloadVars
<1>3. CASE TimerFires
  BY <1>1, <1>3 DEF TimerFires, TimerInv, tableVars
<1>4. CASE ~Tick /\ ~TimerFires
  <2>1. UNCHANGED <<clock, due>>
    BY <1>4 DEF Next, Change, Connected, ReloadInstalls, ReloadFails, LookupMachine, FromCache,
                FromNegative, LookupAsks, LookupAnswered, LookupFails, vars, tableVars, reloadVars
  <2> QED  BY <2>1 DEF TimerInv
<1> QED  BY <1>2, <1>3, <1>4

(* What has been answered.                                                 *)
LEMMA RefusalRight ==
  ASSUME CacheInv, NegativeInv, RefusedWasUnknown, [Next]_vars  PROVE RefusedWasUnknown'
<1>1. HistoryInv /\ clock \in Nat /\ QueryTime \in Nat /\ NegativeTtl \in Nat
  BY CacheAssumption DEF CacheInv, HistoryInv
<1>2. CASE answer' = NoAnswer
  BY <1>2 DEF RefusedWasUnknown
<1>3. CASE UNCHANGED vars
  BY <1>3 DEF RefusedWasUnknown, WasSo, vars, tableVars
<1>4. ASSUME NEW key \in Keys, UNCHANGED tableVars, answer' = [key |-> key, row |-> NoRow],
             WasSo(key, NoRow, clock - NegativeTtl - QueryTime)
      PROVE  RefusedWasUnknown'
  BY <1>4 DEF RefusedWasUnknown, WasSo, tableVars
<1>5. CASE \E key \in Keys \cap ApiKeys : LookupMachine(key)
  <2>1. PICK key \in Keys \cap ApiKeys : LookupMachine(key)
    BY <1>5
  <2>2. CASE FromCache(key)
    <3>1. answer'.row # NoRow
      BY <2>2 DEF FromCache, Answer
    <3> QED  BY <3>1 DEF RefusedWasUnknown
  <2>3. CASE FromNegative(key)
    <3>1. PICK i \in DOMAIN negative : negative[i].key = key /\ clock - negative[i].at < NegativeTtl
      BY <2>3 DEF FromNegative, Missed, Fresh
    <3>2. i \in 1..Len(negative) /\ negative[i] \in Entries
      BY <3>1 DEF NegativeInv
    <3>3. negative[i].at \in Nat
      BY <3>2 DEF Entries
    <3>4. WasSo(key, NoRow, negative[i].at - QueryTime)
      BY <3>1, <3>2 DEF NegativeInv
    <3> DEFINE from == clock - NegativeTtl - QueryTime
    <3>5. from \in Int /\ negative[i].at - QueryTime \in Int /\ from <= negative[i].at - QueryTime
      BY <1>1, <3>1, <3>2, <3>3
    <3> HIDE DEF from
    <3>6. WasSo(key, NoRow, from)
      BY <1>1, <3>2, <3>4, <3>5, EarlierToo
    <3> QED  BY <1>4, <2>3, <3>6 DEF FromNegative, Answer, from
  <2>4. CASE LookupAsks(key)
    BY <1>2, <2>4 DEF LookupAsks
  <2> QED  BY <2>1, <2>2, <2>3, <2>4 DEF LookupMachine
<1>6. CASE LookupAnswered
  <2> DEFINE key == lookup.key
  <2>1. UNCHANGED tableVars /\ key \in Keys /\ QueryInv(lookup)
    BY <1>6 DEF LookupAnswered, CacheInv, QueriesInv, NegativeInv
  <2>2. PICK rows \in Results(lookup) : answer' = [key |-> key, row |-> rows[key]]
    BY <1>6 DEF LookupAnswered, Answer
  <2> DEFINE from == clock - NegativeTtl - QueryTime
  <2>3. from \in Int /\ from <= clock - QueryTime
    BY <1>1
  <2> HIDE DEF from
  <2>4. WasSo(key, rows[key], from)
    BY <1>1, <2>1, <2>3, AnswerWasSo
  <2> HIDE DEF key
  <2>5. CASE rows[key] = NoRow
    BY <1>4, <2>1, <2>2, <2>4, <2>5 DEF from
  <2>6. CASE rows[key] # NoRow
    BY <2>2, <2>6 DEF RefusedWasUnknown
  <2> QED  BY <2>5, <2>6
<1>7. CASE Tick \/ Change \/ TimerFires \/ Connected \/ ReloadInstalls \/ ReloadFails \/ LookupFails
  BY <1>2, <1>7 DEF Tick, Change, TimerFires, Connected, ReloadInstalls, ReloadFails, LookupFails
<1> QED  BY <1>3, <1>5, <1>6, <1>7 DEF Next

(* All of it together is inductive.                                        *)
RefusedInv == CacheInv /\ NegativeInv /\ TimerInv /\ RefusedWasUnknown

(* Every step keeps it,                                                    *)
LEMMA RefusedNext == RefusedInv /\ [Next]_vars => RefusedInv'
BY CacheNext, OthersNegative, AnswerNoted, TimerSteps, RefusalRight DEF RefusedInv

(* and it holds at first.                                                  *)
LEMMA RefusedInit == Init => RefusedInv
<1> SUFFICES ASSUME Init  PROVE RefusedInv
  OBVIOUS
<1>1. answer = NoAnswer /\ clock = 0 /\ due = Period[table] /\ table \in Tables
  BY DEF Init
<1>2. TimerInv
  BY <1>1, CacheAssumption DEF TimerInv
<1>3. RefusedWasUnknown
  BY <1>1 DEF RefusedWasUnknown
<1> QED  BY <1>2, <1>3, CacheInit, NegativeInit DEF RefusedInv

(* Types of both caches: the negative cache keeps to its bound, and has one *)
(* entry for a key, as the Map it is; the clock does not pass the timer.   *)
THEOREM CacheTyping == Spec => []TypeOK
<1>1. RefusedInv => TypeOK
  <2> SUFFICES ASSUME RefusedInv  PROVE TypeOK
    OBVIOUS
  <2>1. \A i \in DOMAIN history : history[i].rows \in [Keys -> Values \cup {NoRow}]
    <3>1. \A i \in DOMAIN history : history[i] \in Versions
      BY DEF RefusedInv, CacheInv, HistoryInv
    <3> QED  BY <3>1 DEF Versions
  <2>2. /\ table \in Tables /\ clock \in 0..MaxClock /\ cache \in [Keys -> Values \cup {NoRow}]
        /\ installed <= clock /\ clock <= due
    BY DEF RefusedInv, CacheInv, HistoryInv, TimerInv
  <2>3. \A q \in reloads : q.since <= clock /\ clock <= q.since + QueryTime
    BY DEF RefusedInv, CacheInv, QueriesInv, QueryInv
  <2>4. lookup = NoLookup \/ lookup.key \in ApiKeys
    BY DEF RefusedInv, NegativeInv
  <2>5. Len(negative) <= MaxNegative /\ \A i, j \in DOMAIN negative : negative[i].key = negative[j].key => i = j
    BY DEF RefusedInv, NegativeInv, OneEach
  <2> QED  BY <2>1, <2>2, <2>3, <2>4, <2>5 DEF TypeOK
<1> QED  BY <1>1, RefusedInit, RefusedNext, PTL DEF Spec

(* lookupMachine() lets go of a reading as an unknown machine's only if    *)
(* there was no such machine at most an entry's life and a query's time    *)
(* ago, whatever reloads, other lookups and the bound of the Map have done *)
(* to the entries since.                                                   *)
THEOREM Refusals == Spec => []RefusedWasUnknown
<1>1. RefusedInv => RefusedWasUnknown
  BY DEF RefusedInv
<1> QED  BY <1>1, RefusedInit, RefusedNext, PTL DEF Spec
=============================================================================
