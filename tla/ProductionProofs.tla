------------------------- MODULE ProductionProofs --------------------------
(***************************************************************************)
(* Proofs that production_hourly has the time that readings account for:   *)
(* what hourlySlices(), shiftAt() and sumSlices() do for any shifts and    *)
(* instants; that a record is credited with the time since the reading     *)
(* before it of its company, for any messages, restarts and owners; that   *)
(* batches add up to what one batch would have been; and that of what a    *)
(* meter and a counter climb nothing is forgotten, where they only climb.  *)
(***************************************************************************)
EXTENDS LedgerProofs

-----------------------------------------------------------------------------
(* Sums: what sumSlices() and the upsert come to.                          *)

(* A quantity of some slices.                                              *)
Credit(placed, q) == SumFunction([p \in placed |-> p[2][q]])

PlacedSound(placed) == IsFiniteSet(placed) /\ \A p \in placed : \A q \in Quantities : p[2][q] \in Nat

(* It is a natural number, nothing for no slices, and that of two sets     *)
(* apart is the sum.                                                       *)
LEMMA CreditTyped ==
  ASSUME NEW A, PlacedSound(A), NEW q \in Quantities
  PROVE  Credit(A, q) \in Nat /\ (A = {} => Credit(A, q) = 0)
<1> DEFINE f == [p \in A |-> p[2][q]]
<1>1. Credit(A, q) = SumFunctionOnSet(f, A)
  BY DEF Credit, SumFunction
<1>2. IsFiniteSet(A) /\ \A p \in A : f[p] \in Nat
  BY DEF PlacedSound
<1> HIDE DEF f
<1>3. SumFunctionOnSet(f, A) \in Nat
  BY <1>2, SumIsNatural
<1>4. A = {} => SumFunctionOnSet(f, A) = 0
  BY <1>2, SumFirst
<1> QED  BY <1>1, <1>3, <1>4

(* The credit of two sets of slices that are apart is the sum of theirs.   *)
LEMMA CreditsAdd ==
  ASSUME NEW A, NEW B, PlacedSound(A), PlacedSound(B), A \cap B = {}, NEW q \in Quantities
  PROVE  Credit(A \cup B, q) = Credit(A, q) + Credit(B, q)
<1> DEFINE f == [p \in A |-> p[2][q]]
           g == [p \in B |-> p[2][q]]
           h == [p \in A \cup B |-> p[2][q]]
<1>1. /\ Credit(A, q) = SumFunctionOnSet(f, A)
      /\ Credit(B, q) = SumFunctionOnSet(g, B)
      /\ Credit(A \cup B, q) = SumFunctionOnSet(h, A \cup B)
  BY DEF Credit, SumFunction
<1>2. /\ IsFiniteSet(A) /\ IsFiniteSet(B)
      /\ \A p \in A : f[p] \in Int /\ f[p] = h[p]
      /\ \A p \in B : g[p] \in Int /\ g[p] = h[p]
      /\ \A p \in A \cup B : h[p] \in Int
  BY DEF PlacedSound
<1> HIDE DEF f, g, h
<1>3. SumFunctionOnSet(h, A \cup B) = SumFunctionOnSet(h, A) + SumFunctionOnSet(h, B)
  BY <1>2, SumOfParts
<1>4. SumFunctionOnSet(f, A) = SumFunctionOnSet(h, A)
  BY <1>2, SumsAlike
<1>5. SumFunctionOnSet(g, B) = SumFunctionOnSet(h, B)
  BY <1>2, SumsAlike
<1> QED  BY <1>1, <1>3, <1>4, <1>5

(* What sumSlices() has in a row is the credit of the slices of it.        *)
LEMMA RowCredited ==
  ASSUME NEW A, PlacedSound(A), NEW row, NEW q \in Quantities
  PROVE  /\ Booked(SumSlices(A), row, q) = Credit(InRow(A, row), q)
         /\ row \in DOMAIN SumSlices(A) <=> InRow(A, row) # {}
         /\ PlacedSound(InRow(A, row))
<1>1. PlacedSound(InRow(A, row))
  BY FS_Subset DEF PlacedSound, InRow
<1>2. DOMAIN SumSlices(A) = {RowOf(p[2]) : p \in A}
  BY DEF SumSlices
<1>3. row \in DOMAIN SumSlices(A) <=> InRow(A, row) # {}
  BY <1>2 DEF InRow
<1>4. CASE row \in DOMAIN SumSlices(A)
  <2>1. SumSlices(A)[row][q] = Credit(InRow(A, row), q)
    BY <1>2, <1>4 DEF SumSlices, Credit
  <2> QED  BY <1>1, <1>3, <1>4, <2>1 DEF Booked
<1>5. CASE row \notin DOMAIN SumSlices(A)
  BY <1>1, <1>3, <1>5, CreditTyped DEF Booked
<1> QED  BY <1>1, <1>3, <1>4, <1>5

(* sumSlices() and the upserts of some batches come to the same as those   *)
(* of one batch with all of it.                                            *)
LEMMA UpsertsAdd ==
  ASSUME NEW A, NEW B, PlacedSound(A), PlacedSound(B), A \cap B = {}
  PROVE  /\ PlacedSound(A \cup B)
         /\ Upserted(SumSlices(A), SumSlices(B)) = SumSlices(A \cup B)
<1>1. PlacedSound(A \cup B)
  BY FS_Union DEF PlacedSound
<1>2. \A row : InRow(A \cup B, row) = InRow(A, row) \cup InRow(B, row) /\ InRow(A, row) \cap InRow(B, row) = {}
  BY DEF InRow
<1> DEFINE both == DOMAIN SumSlices(A) \cup DOMAIN SumSlices(B)
<1> DEFINE of == {RowOf(p[2]) : p \in A \cup B}
<1>3. of = both
  BY DEF SumSlices
<1>4. SumSlices(A \cup B) = [row \in both |-> [q \in Quantities |-> Credit(InRow(A \cup B, row), q)]]
  <2>1. SumSlices(A \cup B) = [row \in of |-> [q \in Quantities |-> Credit(InRow(A \cup B, row), q)]]
    BY DEF SumSlices, Credit
  <2> HIDE DEF both, of
  <2> QED  BY <1>3, <2>1
<1>5. ASSUME NEW row, NEW q \in Quantities
      PROVE  Credit(InRow(A \cup B, row), q) = Booked(SumSlices(A), row, q) + Booked(SumSlices(B), row, q)
  <2>1. Booked(SumSlices(A), row, q) = Credit(InRow(A, row), q) /\ PlacedSound(InRow(A, row))
    BY RowCredited
  <2>2. Booked(SumSlices(B), row, q) = Credit(InRow(B, row), q) /\ PlacedSound(InRow(B, row))
    BY RowCredited
  <2>3. Credit(InRow(A, row) \cup InRow(B, row), q) = Credit(InRow(A, row), q) + Credit(InRow(B, row), q)
    BY <1>2, <2>1, <2>2, CreditsAdd
  <2> QED  BY <1>2, <2>1, <2>2, <2>3
<1> HIDE DEF both
<1> DEFINE here(row) == [q \in Quantities |-> Credit(InRow(A \cup B, row), q)]
           there(row) == [q \in Quantities |-> Booked(SumSlices(A), row, q) + Booked(SumSlices(B), row, q)]
<1>6. SumSlices(A \cup B) = [row \in both |-> there(row)]
  <2>1. \A row : here(row) = there(row)
    BY <1>5
  <2>2. SumSlices(A \cup B) = [row \in both |-> here(row)]
    BY <1>4
  <2> HIDE DEF here, there
  <2> QED  BY <2>1, <2>2
<1> QED  BY <1>1, <1>6 DEF Upserted, both

(* The rows of no slices are none, and every row is of naturals.           *)
LEMMA RowsOfNone ==
  /\ PlacedSound({}) /\ SumSlices({}) = <<>>
<1>1. PlacedSound({})
  BY FS_EmptySet DEF PlacedSound
<1>2. {RowOf(p[2]) : p \in {}} = {}
  OBVIOUS
<1>3. SumSlices({}) = <<>>
  BY <1>2 DEF SumSlices
<1> QED  BY <1>1, <1>3

(* A row of sums has a natural number for each quantity.                   *)
LEMMA RowsTypedAs ==
  ASSUME NEW A, PlacedSound(A), NEW row \in DOMAIN SumSlices(A)
  PROVE  SumSlices(A)[row] \in [Quantities -> Nat]
<1>1. SumSlices(A)[row] = [q \in Quantities |-> Credit(InRow(A, row), q)]
  BY DEF SumSlices, Credit
<1>2. \A q \in Quantities : Credit(InRow(A, row), q) \in Nat
  BY RowCredited, CreditTyped
<1> QED  BY <1>1, <1>2

-----------------------------------------------------------------------------
(* Hours and days.                                                         *)

(* A whole number of times d, and what is left.                            *)
LEMMA Euclid ==
  ASSUME NEW x \in Int, NEW d \in Nat \ {0}
  PROVE  x \div d \in Int /\ x % d \in 0..(d - 1) /\ x = d * (x \div d) + (x % d)
OBVIOUS

(* There is one quotient and one rest.                                     *)
LEMMA EuclidIs ==
  ASSUME NEW x \in Int, NEW d \in Nat \ {0}, NEW q \in Int, NEW r \in 0..(d - 1), x = d * q + r
  PROVE  x \div d = q /\ x % d = r
OBVIOUS

(* What comes after a multiple of d and before the next has its quotient.  *)
LEMMA SameQuotient ==
  ASSUME NEW x \in Int, NEW d \in Nat \ {0}, NEW q \in Int, d * q <= x, x < d * q + d
  PROVE  x \div d = q /\ x % d = x - d * q
<1> DEFINE r == x - d * q
<1>1. d * q \in Int
  OBVIOUS
<1>2. r \in 0..(d - 1) /\ x = d * q + r
  BY <1>1
<1> HIDE DEF r
<1> QED  BY <1>2, EuclidIs DEF r

(* An hour that begins before a day ends, and days have whole hours, ends  *)
(* in that day.                                                            *)
LEMMA WholeHours ==
  ASSUME NEW h \in Nat \ {0}, NEW k \in Nat \ {0}, NEW q \in Int, NEW D \in Int,
         h * q < (h * k) * D + h * k
  PROVE  h * q + h <= (h * k) * D + h * k
<1>1. (h * k) * D + h * k = h * (k * D + k)
  OBVIOUS
<1> DEFINE n == k * D + k
<1>2. n \in Int
  OBVIOUS
<1>3. h * q < h * n
  BY <1>1
<1> HIDE DEF n
<1>4. q < n
  BY <1>2, <1>3
<1>5. h * (q + 1) <= h * n
  BY <1>2, <1>4
<1>6. h * (q + 1) = h * q + h
  OBVIOUS
<1> QED  BY <1>1, <1>5, <1>6 DEF n

-----------------------------------------------------------------------------
(* Shifts begin and end in a day.                                          *)
ShiftsTimed(shifts) ==
  /\ DOMAIN shifts \subseteq Nat
  /\ \A i \in DOMAIN shifts : shifts[i].start \in 0..Day /\ shifts[i].end \in 0..Day

(* Where a day and an hour begin, for an instant t.                        *)
DayOf(t)  == (t + IstOffset) \div Day
HourOf(t) == (t + IstOffset) \div Hour

(* An instant is within its day and its hour.                              *)
LEMMA DayBegins ==
  ASSUME NEW t \in Int
  PROVE  /\ HourlyAssumption
         /\ DayOf(t) \in Int /\ HourOf(t) \in Int
         /\ Day * DayOf(t) \in Int /\ Hour * HourOf(t) \in Int
         /\ Day * DayOf(t) <= t + IstOffset /\ t + IstOffset < Day * DayOf(t) + Day
         /\ Hour * HourOf(t) <= t + IstOffset /\ t + IstOffset < Hour * HourOf(t) + Hour
         /\ SecondOfDay(t) = t + IstOffset - Day * DayOf(t)
         /\ HourStart(t) = Hour * HourOf(t) - IstOffset
<1>1. Hour \in Nat \ {0} /\ Day \in Nat \ {0} /\ IstOffset \in Nat
  BY HourlyAssumption DEF HourlyAssumption
<1> DEFINE x == t + IstOffset
<1>2. x \in Int
  BY <1>1
<1>3. x \div Day \in Int /\ x % Day \in 0..(Day - 1) /\ x = Day * (x \div Day) + (x % Day)
  BY <1>1, <1>2, Euclid
<1>4. x \div Hour \in Int /\ x % Hour \in 0..(Hour - 1) /\ x = Hour * (x \div Hour) + (x % Hour)
  BY <1>1, <1>2, Euclid
<1>5. Day * (x \div Day) \in Int /\ Hour * (x \div Hour) \in Int
  BY <1>1, <1>3, <1>4
<1>6. SecondOfDay(t) = x % Day /\ HourStart(t) = (x \div Hour) * Hour - IstOffset
  BY DEF SecondOfDay, HourStart
<1>7. (x \div Hour) * Hour = Hour * (x \div Hour)
  BY <1>1, <1>4
<1>8. DayOf(t) = x \div Day /\ HourOf(t) = x \div Hour
  BY DEF DayOf, HourOf
<1> DEFINE d == x \div Day
           h == x \div Hour
           dd == Day * d
           hh == Hour * h
<1>9. /\ x % Day \in 0..(Day - 1) /\ x = dd + (x % Day) /\ dd \in Int
      /\ x % Hour \in 0..(Hour - 1) /\ x = hh + (x % Hour) /\ hh \in Int
  BY <1>3, <1>4, <1>5
<1>10. dd <= x /\ x < dd + Day /\ hh <= x /\ x < hh + Hour /\ x % Day = x - dd
  <2> HIDE DEF dd, hh, x
  <2> QED  BY <1>1, <1>2, <1>9
<1> QED  BY <1>1, <1>3, <1>4, <1>5, <1>6, <1>7, <1>8, <1>10, HourlyAssumption

(* No hour begins between a and b, so that they are of one hour, which is  *)
(* of one day.                                                             *)
LEMMA OneHour ==
  ASSUME NEW a \in Int, NEW b \in Int, a < b,
         \A t \in (a + 1)..(b - 1) : HourStart(t) # t
  PROVE  b + IstOffset <= Hour * HourOf(a) + Hour
<1> DEFINE t == Hour * HourOf(a) + Hour - IstOffset
<1>1. /\ Hour \in Nat \ {0} /\ IstOffset \in Nat /\ HourOf(a) \in Int /\ Hour * HourOf(a) \in Int
      /\ a + IstOffset < Hour * HourOf(a) + Hour
  BY DayBegins DEF HourlyAssumption
<1>2. t \in Int /\ t > a
  <2> DEFINE hh == Hour * HourOf(a)
  <2>1. hh \in Int /\ a + IstOffset < hh + Hour /\ t = hh + Hour - IstOffset
    BY <1>1
  <2> HIDE DEF hh, t
  <2> QED  BY <1>1, <2>1
<1>3. HourStart(t) = t
  <2> DEFINE q == HourOf(a) + 1
  <2>1. q \in Int /\ Hour * q = Hour * HourOf(a) + Hour
    BY <1>1
  <2>2. t + IstOffset = Hour * q
    <3> DEFINE hh == Hour * HourOf(a)
    <3>1. hh \in Int /\ t = hh + Hour - IstOffset
      BY <1>1
    <3> HIDE DEF hh, t
    <3>2. t + IstOffset = hh + Hour
      BY <1>1, <3>1
    <3> QED  BY <2>1, <3>2 DEF hh
  <2> HIDE DEF q, t
  <2>3. Hour * q \in Int
    BY <1>1, <2>1
  <2>4. (t + IstOffset) \div Hour = q
    <3> DEFINE x == t + IstOffset
    <3>1. x \in Int /\ Hour * q <= x /\ x < Hour * q + Hour
      BY <1>1, <1>2, <2>2, <2>3
    <3> HIDE DEF x
    <3>2. x \div Hour = q
      BY <1>1, <2>1, <3>1, SameQuotient
    <3> QED  BY <3>2 DEF x
  <2>5. HourStart(t) = Hour * q - IstOffset
    BY <1>1, <2>1, <2>4 DEF HourStart
  <2>6. HourStart(t) = (t + IstOffset) - IstOffset
    BY <2>2, <2>5
  <2> QED  BY <1>1, <1>2, <2>6
<1> HIDE DEF t
<1>4. ~(t < b)
  BY <1>2, <1>3
<1>5. b <= t
  BY <1>2, <1>4
<1> DEFINE hh == Hour * HourOf(a)
<1>6. hh \in Int /\ t = hh + Hour - IstOffset
  BY <1>1 DEF t
<1>7. b + IstOffset <= hh + Hour
  <2> HIDE DEF hh
  <2> QED  BY <1>1, <1>2, <1>5, <1>6
<1> QED  BY <1>7

(* An hour is of one day: what is within the hour of an instant is within  *)
(* its day.                                                                *)
LEMMA OneDay ==
  ASSUME NEW a \in Int, NEW b \in Int, b + IstOffset <= Hour * HourOf(a) + Hour
  PROVE  b + IstOffset <= Day * DayOf(a) + Day
<1>1. /\ Hour \in Nat \ {0} /\ Day \in Nat \ {0} /\ Day % Hour = 0 /\ IstOffset \in Nat
      /\ HourOf(a) \in Int /\ Hour * HourOf(a) \in Int /\ Hour * HourOf(a) <= a + IstOffset
      /\ DayOf(a) \in Int /\ Day * DayOf(a) \in Int /\ a + IstOffset < Day * DayOf(a) + Day
  BY DayBegins DEF HourlyAssumption
<1> DEFINE k == Day \div Hour
<1>2. k \in Int /\ Day = Hour * k + 0
  BY <1>1, Euclid
<1> HIDE DEF k
<1>3. Day = Hour * k /\ k \in Nat \ {0}
  BY <1>1, <1>2
<1> DEFINE D == DayOf(a)
           q == HourOf(a)
<1>4. Hour * q < Day * D + Day
  <2> DEFINE hh == Hour * q
             dd == Day * D
  <2>1. hh <= a + IstOffset /\ a + IstOffset < dd + Day /\ hh \in Int /\ dd \in Int
    BY <1>1
  <2> HIDE DEF hh, dd
  <2>2. hh < dd + Day
    BY <1>1, <2>1
  <2> QED  BY <2>2 DEF hh, dd
<1>5. Hour * q + Hour <= Day * D + Day
  <2>1. q \in Int /\ D \in Int
    BY <1>1
  <2> HIDE DEF q, D
  <2> QED  BY <1>1, <1>3, <1>4, <2>1, WholeHours
<1>6. Hour * q + Hour \in Int /\ Day * D + Day \in Int
  BY <1>1
<1> QED  BY <1>1, <1>5, <1>6

-----------------------------------------------------------------------------
(* Shifts, and the cuts of an interval.                                    *)

(* A shift that begins or ends between a and b, on the day of a, has a     *)
(* boundary there.                                                         *)
LEMMA BoundaryFound ==
  ASSUME NEW shifts, ShiftsTimed(shifts), NEW i \in DOMAIN shifts,
         NEW second \in {shifts[i].start, shifts[i].end},
         NEW from \in Int, NEW to \in Int, NEW a \in Int, from <= a, a < to,
         NEW t \in Int, t = Day * DayOf(a) - IstOffset + second, from < t, t < to
  PROVE  t \in ShiftBoundaries(shifts, from, to)
<1>1. /\ Day \in Nat \ {0} /\ IstOffset \in Nat
      /\ DayOf(a) \in Int /\ Day * DayOf(a) \in Int /\ Day * DayOf(a) <= a + IstOffset
      /\ a + IstOffset < Day * DayOf(a) + Day
      /\ DayOf(from) \in Int /\ Day * DayOf(from) \in Int /\ Day * DayOf(from) <= from + IstOffset
      /\ SecondOfDay(from) = from + IstOffset - Day * DayOf(from)
  BY DayBegins DEF HourlyAssumption
<1> DEFINE midnight == from - SecondOfDay(from)
           k == DayOf(a) - DayOf(from)
           last == (to - midnight - 1) \div Day
           x == to - midnight - 1
           A == Day * DayOf(a)
           F == Day * DayOf(from)
<1>2. A \in Int /\ F \in Int /\ midnight = F - IstOffset /\ midnight \in Int
  BY <1>1
<1>3. k \in Int /\ Day * k = A - F
  BY <1>1
<1>4. F < A + Day /\ Day * k <= x /\ x \in Int
  <2>1. A <= a + IstOffset /\ a + IstOffset < A + Day /\ F <= from + IstOffset
    BY <1>1
  <2> HIDE DEF midnight, A, F, k
  <2> QED  BY <1>1, <1>2, <1>3, <2>1
<1>5. k >= 0
  <2>1. Day * DayOf(from) < Day * (DayOf(a) + 1)
    <3>1. Day * (DayOf(a) + 1) = A + Day
      BY <1>1
    <3> QED  BY <1>4, <3>1
  <2>2. DayOf(from) < DayOf(a) + 1
    BY <1>1, <2>1
  <2> QED  BY <1>1, <2>2
<1>6. k <= last
  <2>1. k \in Int /\ Day * k <= x /\ x \in Int
    BY <1>3, <1>4
  <2> HIDE DEF k, x
  <2>2. k <= x \div Day
    BY <1>1, <2>1
  <2> QED  BY <2>2 DEF x
<1>7. last \in Int
  <2>1. x \div Day \in Int
    BY <1>1, <1>4, Euclid
  <2> QED  BY <2>1
<1>8. midnight + k * Day = A - IstOffset
  <2>1. k * Day = Day * k
    BY <1>1, <1>3
  <2> HIDE DEF midnight, k, A, F
  <2> QED  BY <1>1, <1>2, <1>3, <2>1
<1>9. t = (midnight + k * Day) + second
  <2>1. t = A - IstOffset + second
    OBVIOUS
  <2> QED  BY <1>8, <2>1
<1>10. k \in 0..last
  <2> HIDE DEF k, last
  <2> QED  BY <1>3, <1>5, <1>6, <1>7
<1>11. second \in UNION {{s.start, s.end} : s \in Range(shifts)}
  <2>1. shifts[i] \in Range(shifts)
    BY DEF Range
  <2> QED  BY <2>1
<1> DEFINE days == {midnight + j * Day : j \in 0..last}
           seconds == UNION {{s.start, s.end} : s \in Range(shifts)}
<1>12. midnight + k * Day \in days
  <2> HIDE DEF midnight, k, last
  <2> QED  BY <1>10
<1>13. ShiftBoundaries(shifts, from, to)
         = {e \in {day + sec : day \in days, sec \in seconds} : from < e /\ e < to}
  BY DEF ShiftBoundaries
<1> HIDE DEF days, seconds, midnight, k
<1>14. t \in {day + sec : day \in days, sec \in seconds}
  BY <1>9, <1>11, <1>12 DEF seconds
<1> QED  BY <1>13, <1>14

(* In an interval of a day that has no boundary inside, a shift that covers*)
(* one second covers them all, and the middle.                             *)
LEMMA CoversAlike ==
  ASSUME NEW s, s.start \in 0..Day, s.end \in 0..Day,
         NEW a \in Int, NEW b \in Int, 0 <= a, b <= Day, NEW x \in a..(b - 1),
         ~(a < s.start /\ s.start < b), ~(a < s.end /\ s.end < b)
  PROVE  Covers(s, 2 * x + 1) <=> Covers(s, a + b)
<1>1. Day \in Nat
  BY HourlyAssumption DEF HourlyAssumption
<1>2. 2 * s.start <= 2 * x + 1 <=> 2 * s.start <= a + b
  BY <1>1
<1>3. 2 * x + 1 <= 2 * s.end <=> a + b <= 2 * s.end
  BY <1>1
<1> QED  BY <1>2, <1>3 DEF Covers

(* What an instant of the day D is of that day, in half seconds.           *)
LEMMA HalfOfDay ==
  ASSUME NEW half \in Int, NEW D \in Int,
         2 * (Day * D) <= half + 2 * IstOffset, half + 2 * IstOffset < 2 * (Day * D) + 2 * Day
  PROVE  (half + 2 * IstOffset) % (2 * Day) = half + 2 * IstOffset - 2 * (Day * D)
<1>1. Day \in Nat \ {0} /\ IstOffset \in Nat
  BY HourlyAssumption DEF HourlyAssumption
<1> DEFINE x == half + 2 * IstOffset
           d == 2 * Day
<1>2. x \in Int /\ d \in Nat \ {0} /\ d * D = 2 * (Day * D) /\ d * D \in Int
  BY <1>1
<1>3. d * D <= x /\ x < d * D + d
  BY <1>2
<1> HIDE DEF x, d
<1>4. x % d = x - d * D
  BY <1>2, <1>3, SameQuotient
<1>5. x % d = x - 2 * (Day * D)
  BY <1>2, <1>4
<1> USE DEF x, d
<1> QED  BY <1>1, <1>5

(* Between two cuts that follow each other everything is of one hour and   *)
(* one shift: the hour of the first, and the shift of the middle.          *)
LEMMA OneRow ==
  ASSUME NEW shifts, ShiftsTimed(shifts), NEW from \in Int, NEW to \in Int,
         NEW a \in Int, NEW b \in Int, from <= a, a < b, b <= to,
         \A cut \in Cuts(shifts, from, to) : ~(a < cut /\ cut < b),
         NEW x \in a..(b - 1)
  PROVE  HourStart(x) = HourStart(a) /\ ShiftAt(shifts, 2 * x + 1) = ShiftAt(shifts, a + b)
<1>1. /\ Hour \in Nat \ {0} /\ Day \in Nat \ {0} /\ IstOffset \in Nat
      /\ HourOf(a) \in Int /\ Hour * HourOf(a) \in Int /\ Hour * HourOf(a) <= a + IstOffset
      /\ HourStart(a) = Hour * HourOf(a) - IstOffset
      /\ DayOf(a) \in Int /\ Day * DayOf(a) \in Int /\ Day * DayOf(a) <= a + IstOffset
      /\ a + IstOffset < Day * DayOf(a) + Day
  BY DayBegins DEF HourlyAssumption
<1>2. x \in Int /\ a <= x /\ x < b
  OBVIOUS
<1>3. \A t \in (a + 1)..(b - 1) : HourStart(t) # t
  BY DEF Cuts, HourBoundaries
<1>4. b + IstOffset <= Hour * HourOf(a) + Hour
  BY <1>3, OneHour
<1>5. b + IstOffset <= Day * DayOf(a) + Day
  BY <1>4, OneDay
<1>6. HourStart(x) = HourStart(a)
  <2> DEFINE y == x + IstOffset
             q == HourOf(a)
             hh == Hour * q
  <2>1. y \in Int /\ hh \in Int /\ hh <= y /\ y < hh + Hour
    <3>1. hh \in Int /\ hh <= a + IstOffset /\ b + IstOffset <= hh + Hour
      BY <1>1, <1>4
    <3> HIDE DEF hh
    <3> QED  BY <1>1, <1>2, <3>1
  <2>2. q \in Int /\ Hour * q <= y /\ y < Hour * q + Hour
    BY <1>1, <2>1
  <2> HIDE DEF y, q
  <2>3. y \div Hour = q
    BY <1>1, <2>1, <2>2, SameQuotient
  <2>4. HourStart(x) = (y \div Hour) * Hour - IstOffset
    BY DEF HourStart, y
  <2>5. q * Hour = Hour * q
    BY <1>1, <2>2
  <2> QED  BY <1>1, <2>3, <2>4, <2>5 DEF q
<1> DEFINE D == DayOf(a)
           dd == Day * D
           A == a + IstOffset - dd
           B == b + IstOffset - dd
           X == x + IstOffset - dd
<1>7. /\ dd \in Int /\ A \in Int /\ B \in Int /\ X \in A..(B - 1) /\ 0 <= A /\ B <= Day
      /\ (2 * x + 1) + 2 * IstOffset - 2 * dd = 2 * X + 1
      /\ (a + b) + 2 * IstOffset - 2 * dd = A + B
  <2>1. dd \in Int /\ dd <= a + IstOffset /\ b + IstOffset <= dd + Day
    BY <1>1, <1>5
  <2> HIDE DEF dd
  <2> QED  BY <1>1, <1>2, <2>1
<1>8. /\ ((2 * x + 1) + 2 * IstOffset) % (2 * Day) = 2 * X + 1
      /\ ((a + b) + 2 * IstOffset) % (2 * Day) = A + B
  <2>1. D \in Int
    BY <1>1
  <2>2. 2 * dd <= (2 * x + 1) + 2 * IstOffset /\ (2 * x + 1) + 2 * IstOffset < 2 * dd + 2 * Day
    <3> HIDE DEF dd
    <3> QED  BY <1>1, <1>2, <1>7
  <2>3. 2 * dd <= (a + b) + 2 * IstOffset /\ (a + b) + 2 * IstOffset < 2 * dd + 2 * Day
    <3> HIDE DEF dd
    <3> QED  BY <1>1, <1>2, <1>7
  <2>4. 2 * x + 1 \in Int /\ a + b \in Int
    BY <1>2
  <2> HIDE DEF D
  <2>5. ((2 * x + 1) + 2 * IstOffset) % (2 * Day) = (2 * x + 1) + 2 * IstOffset - 2 * (Day * D)
    BY <2>1, <2>2, <2>4, HalfOfDay
  <2>6. ((a + b) + 2 * IstOffset) % (2 * Day) = (a + b) + 2 * IstOffset - 2 * (Day * D)
    BY <2>1, <2>3, <2>4, HalfOfDay
  <2> QED  BY <1>7, <2>5, <2>6
<1>9. ASSUME NEW i \in DOMAIN shifts
      PROVE  Covers(shifts[i], 2 * X + 1) <=> Covers(shifts[i], A + B)
  <2>1. shifts[i].start \in 0..Day /\ shifts[i].end \in 0..Day
    BY DEF ShiftsTimed
  <2>2. ASSUME NEW second \in {shifts[i].start, shifts[i].end}, A < second, second < B
        PROVE  FALSE
    <3> DEFINE t == dd - IstOffset + second
    <3>1. t \in Int /\ a < t /\ t < b
      <4>1. second \in Int
        BY <1>1, <2>1
      <4> HIDE DEF dd
      <4> QED  BY <1>1, <1>7, <2>2, <4>1
    <3>2. t = Day * DayOf(a) - IstOffset + second
      OBVIOUS
    <3> HIDE DEF t
    <3>3. from < t /\ t < to /\ a < to
      BY <3>1
    <3>4. t \in ShiftBoundaries(shifts, from, to)
      BY <3>1, <3>2, <3>3, BoundaryFound
    <3> QED  BY <3>1, <3>4 DEF Cuts
  <2> HIDE DEF A, B, X
  <2> DEFINE s == shifts[i]
  <2>3. /\ s.start \in 0..Day /\ s.end \in 0..Day
        /\ ~(A < s.start /\ s.start < B) /\ ~(A < s.end /\ s.end < B)
    BY <2>1, <2>2
  <2> HIDE DEF s
  <2>4. Covers(s, 2 * X + 1) <=> Covers(s, A + B)
    BY <1>7, <2>3, CoversAlike
  <2> QED  BY <2>4 DEF s
<1> HIDE DEF A, B, X
<1>10. {i \in DOMAIN shifts : Covers(shifts[i], 2 * X + 1)} = {i \in DOMAIN shifts : Covers(shifts[i], A + B)}
  BY <1>9
<1>11. ShiftAt(shifts, 2 * x + 1) = ShiftAt(shifts, a + b)
  BY <1>8, <1>10 DEF ShiftAt
<1> QED  BY <1>6, <1>11

-----------------------------------------------------------------------------
(* hourlySlices().                                                         *)

(* Cuts lie in their interval; each but the last has a next, and every     *)
(* second comes between two that follow each other.                        *)
LEMMA CutsLie ==
  ASSUME NEW shifts, ShiftsTimed(shifts), NEW from \in Nat, NEW to \in Nat, from < to
  PROVE  Cuts(shifts, from, to) \in SUBSET (from..to)
<1>1. Day \in Nat \ {0}
  BY HourlyAssumption DEF HourlyAssumption
<1>2. ASSUME NEW t \in ShiftBoundaries(shifts, from, to)  PROVE t \in from..to
  <2> DEFINE midnight == from - SecondOfDay(from)
             last == (to - midnight - 1) \div Day
             days == {midnight + k * Day : k \in 0..last}
             seconds == UNION {{s.start, s.end} : s \in Range(shifts)}
  <2>1. midnight \in Int
    <3>1. SecondOfDay(from) = from + IstOffset - Day * DayOf(from) /\ Day * DayOf(from) \in Int /\ IstOffset \in Nat
      BY DayBegins DEF HourlyAssumption
    <3> QED  BY <3>1
  <2>2. \A day \in days : day \in Int
    <3> HIDE DEF midnight, last
    <3> QED  BY <1>1, <2>1
  <2>3. \A second \in seconds : second \in Int
    BY <1>1 DEF ShiftsTimed, Range
  <2>4. t \in {day + second : day \in days, second \in seconds} /\ from < t /\ t < to
    BY DEF ShiftBoundaries
  <2> HIDE DEF days, seconds
  <2>5. t \in Int
    BY <2>2, <2>3, <2>4
  <2> QED  BY <2>4, <2>5
<1> QED  BY <1>2 DEF Cuts, HourBoundaries

NextCut(shifts, from, to, a) == Min({cut \in Cuts(shifts, from, to) : a < cut})

(* The cut after a cut, with none between them.                            *)
LEMMA CutFollows ==
  ASSUME NEW shifts, ShiftsTimed(shifts), NEW from \in Nat, NEW to \in Nat, from < to,
         NEW a \in Cuts(shifts, from, to) \ {to}
  PROVE  LET b == NextCut(shifts, from, to, a) IN
         /\ a \in Nat /\ from <= a /\ b \in Nat /\ a < b /\ b <= to /\ b \in Cuts(shifts, from, to)
         /\ \A cut \in Cuts(shifts, from, to) : ~(a < cut /\ cut < b)
<1> DEFINE C == Cuts(shifts, from, to)
           S == {cut \in C : a < cut}
           b == Min(S)
<1>1. C \in SUBSET (from..to)
  BY CutsLie
<1>2. to \in C
  BY DEF Cuts
<1> HIDE DEF C
<1>3. a \in from..to /\ a # to /\ a \in C
  BY <1>1 DEF C
<1>4. S \in SUBSET Nat /\ S # {}
  <2>1. \A cut \in C : cut \in Nat
    BY <1>1
  <2>2. to \in S
    BY <1>2, <1>3
  <2>3. S \in SUBSET Nat
    BY <2>1
  <2> QED  BY <2>2, <2>3
<1>5. b \in S /\ \A cut \in S : b <= cut
  <2> HIDE DEF S
  <2> QED  BY <1>4, MinIsLeast
<1>6. /\ a \in Nat /\ from <= a /\ b \in Nat /\ a < b /\ b <= to /\ b \in C
      /\ \A cut \in C : ~(a < cut /\ cut < b)
  <2>1. b \in from..to /\ a < b /\ b \in C
    BY <1>1, <1>5
  <2>2. ASSUME NEW cut \in C, a < cut, cut < b  PROVE FALSE
    <3>1. cut \in S /\ cut \in from..to
      BY <1>1, <2>2
    <3>2. b <= cut
      BY <1>5, <3>1
    <3> HIDE DEF S, b
    <3> QED  BY <2>1, <2>2, <3>1, <3>2
  <2> HIDE DEF b
  <2> QED  BY <1>3, <2>1, <2>2
<1>7. b = NextCut(shifts, from, to, a)
  BY DEF NextCut, C
<1> HIDE DEF b
<1> QED  BY <1>6, <1>7 DEF C

(* A second is between a cut and the next.                                 *)
LEMMA CutPrecedes ==
  ASSUME NEW shifts, ShiftsTimed(shifts), NEW from \in Nat, NEW to \in Nat, from < to,
         NEW x \in from..(to - 1)
  PROVE  \E a \in Cuts(shifts, from, to) \ {to} : a <= x /\ x < NextCut(shifts, from, to, a)
<1> DEFINE C == Cuts(shifts, from, to)
           S == {cut \in C : cut <= x}
<1>1. C \in SUBSET (from..to)
  BY CutsLie
<1>2. from \in C
  BY DEF Cuts
<1> HIDE DEF C
<1>3. S \in SUBSET (0..x) /\ S # {} /\ x \in Nat
  <2>1. \A cut \in C : cut \in Nat
    BY <1>1
  <2>2. from \in S /\ x \in Nat
    BY <1>2
  <2>3. \A cut \in S : cut \in 0..x
    BY <2>1, <2>2
  <2> QED  BY <2>2, <2>3
<1>4. PICK a \in S : \A cut \in S : cut <= a
  <2> HIDE DEF S
  <2> QED  BY <1>3, GreatestExists
<1>5. a \in C \ {to} /\ a <= x /\ a \in Nat
  BY <1>1, <1>4
<1> DEFINE b == NextCut(shifts, from, to, a)
<1>6. b \in Nat /\ a < b /\ b \in C
  BY <1>5, CutFollows DEF C
<1> HIDE DEF b
<1>7. ~(b <= x)
  BY <1>4, <1>5, <1>6
<1>8. x < b
  BY <1>3, <1>6, <1>7
<1> QED  BY <1>5, <1>8 DEF b, C

-----------------------------------------------------------------------------
(* A slice of time: of the state the machine was in all the time, in the   *)
(* row that each second of it is of.                                       *)
Timed(s) == s.run + s.idle # 0
SecondsOf(s) == s.from .. (s.to - 1)

SliceSound(s, shifts) ==
  /\ s.shift # NoShift /\ \E i \in DOMAIN shifts : shifts[i].id = s.shift
  /\ \A q \in Quantities : s[q] \in Nat
  /\ s.from \in Nat /\ s.to \in Nat

SliceSays(s, shifts, running, manual) ==
  LET seconds == s.to - s.from IN
  /\ s.from < s.to
  /\ s.run = IF running THEN seconds ELSE 0
  /\ s.idle = IF running THEN 0 ELSE seconds
  /\ s.manual = IF manual THEN seconds ELSE 0
  /\ \A x \in SecondsOf(s) : <<ShiftAt(shifts, 2 * x + 1), HourStart(x)>> = RowOf(s)

(* The slices of an interval: each second of it that is in a shift is in   *)
(* one of them, and in one only.                                           *)
SlicesSplit(slices, shifts, from, to) ==
  /\ IsFiniteSet(slices)
  /\ \A s \in slices : from <= s.from /\ s.to <= to
  /\ \A s, r \in slices : s # r => SecondsOf(s) \cap SecondsOf(r) = {}
  /\ \A x \in from..(to - 1) : ShiftAt(shifts, 2 * x + 1) # NoShift => \E s \in slices : x \in SecondsOf(s)

(* What shiftAt() finds is the id of a shift.                              *)
LEMMA ShiftFound ==
  ASSUME NEW shifts, DOMAIN shifts \subseteq Nat, NEW half, ShiftAt(shifts, half) # NoShift
  PROVE  \E i \in DOMAIN shifts : shifts[i].id = ShiftAt(shifts, half)
<1> DEFINE ofDay == (half + 2 * IstOffset) % (2 * Day)
           S == {i \in DOMAIN shifts : Covers(shifts[i], ofDay)}
<1>1. ShiftAt(shifts, half) = IF S = {} THEN NoShift ELSE shifts[Min(S)].id
  BY DEF ShiftAt
<1>2. S \in SUBSET Nat /\ S \subseteq DOMAIN shifts
  OBVIOUS
<1> HIDE DEF S
<1>3. S # {}
  BY <1>1
<1>4. Min(S) \in S
  BY <1>2, <1>3, MinIsLeast
<1> QED  BY <1>1, <1>2, <1>3, <1>4

(* What hourlySlices() does.                                               *)
LEMMA HourlySliced ==
  ASSUME NEW shifts, ShiftsTimed(shifts), NEW from \in Nat \ {0}, NEW to \in Nat, from < to,
         NEW running \in BOOLEAN, NEW manual \in BOOLEAN, NEW produced \in Nat, NEW energy \in Nat
  PROVE  LET S == HourlySlices(shifts, from, to, running, manual, produced, energy) IN
         /\ SlicesSplit(S, shifts, from, to)
         /\ \A s \in S : SliceSound(s, shifts) /\ SliceSays(s, shifts, running, manual)
<1> DEFINE C == Cuts(shifts, from, to)
           of(a) == SliceFrom(shifts, from, to, a, running, manual, produced, energy)
           next(a) == NextCut(shifts, from, to, a)
           S == HourlySlices(shifts, from, to, running, manual, produced, energy)
           all == {of(a) : a \in C \ {to}}
<1>1. S = {s \in all : s.shift # NoShift}
  BY DEF HourlySlices
<1>2. \A a \in C \ {to} :
        /\ a \in Nat /\ from <= a /\ next(a) \in Nat /\ a < next(a) /\ next(a) <= to /\ next(a) \in C
        /\ \A cut \in C : ~(a < cut /\ cut < next(a))
  BY CutFollows
<1>3. \A x \in from..(to - 1) : \E a \in C \ {to} : a <= x /\ x < next(a)
  BY CutPrecedes
<1>4. ASSUME NEW a \in C \ {to}
      PROVE  /\ of(a).from = a /\ of(a).to = next(a) /\ of(a).hour = HourStart(a)
             /\ of(a).shift = ShiftAt(shifts, a + next(a))
             /\ of(a).run = IF running THEN next(a) - a ELSE 0
             /\ of(a).idle = IF running THEN 0 ELSE next(a) - a
             /\ of(a).manual = IF manual THEN next(a) - a ELSE 0
             /\ of(a).produced = IF next(a) = to THEN produced ELSE 0
             /\ of(a).energy = (energy * (next(a) - a)) \div (to - from)
  BY DEF SliceFrom, Slice, NextCut, MiddleOfSlice
<1>5. \A a \in C \ {to} : \A x \in a..(next(a) - 1) :
        HourStart(x) = HourStart(a) /\ ShiftAt(shifts, 2 * x + 1) = ShiftAt(shifts, a + next(a))
  <2> SUFFICES ASSUME NEW a \in C \ {to}, NEW x \in a..(next(a) - 1)
               PROVE  HourStart(x) = HourStart(a) /\ ShiftAt(shifts, 2 * x + 1) = ShiftAt(shifts, a + next(a))
    OBVIOUS
  <2>1. /\ a \in Int /\ next(a) \in Int /\ from \in Int /\ to \in Int
        /\ from <= a /\ a < next(a) /\ next(a) <= to
        /\ \A cut \in Cuts(shifts, from, to) : ~(a < cut /\ cut < next(a))
    BY <1>2
  <2> HIDE DEF next, C
  <2> QED  BY <2>1, OneRow
<1> HIDE DEF of, next
<1>6. IsFiniteSet(C)
  <2>1. IsFiniteSet(from..to)
    BY FS_Interval
  <2>2. C \in SUBSET (from..to)
    BY CutsLie
  <2> HIDE DEF C
  <2> QED  BY <2>1, <2>2, FS_Subset
<1> HIDE DEF C
<1>7. \A s \in S : \E a \in C \ {to} : s = of(a) /\ s.shift # NoShift
  BY <1>1
<1>8. IsFiniteSet(S)
  <2>1. IsFiniteSet(C \ {to})
    BY <1>6, FS_Subset
  <2> DEFINE f == [a \in C \ {to} |-> of(a)]
  <2>2. IsFiniteSet(all)
    <3>1. IsFiniteSet({f[a] : a \in C \ {to}})
      <4>1. DOMAIN f = C \ {to} /\ f = [a \in C \ {to} |-> f[a]]
        OBVIOUS
      <4> HIDE DEF f
      <4> QED  BY <2>1, <4>1, ImageFinite
    <3>2. {f[a] : a \in C \ {to}} = all
      OBVIOUS
    <3> QED  BY <3>1, <3>2
  <2>3. S \in SUBSET all
    BY <1>1
  <2> HIDE DEF all, S
  <2> QED  BY <2>2, <2>3, FS_Subset
<1> HIDE DEF S
<1>9. ASSUME NEW s \in S
      PROVE  /\ from <= s.from /\ s.to <= to /\ s.from \in Nat /\ s.to \in Nat /\ s.from < s.to
             /\ SliceSound(s, shifts) /\ SliceSays(s, shifts, running, manual)
  <2>1. PICK a \in C \ {to} : s = of(a) /\ s.shift # NoShift
    BY <1>7
  <2> DEFINE b == next(a)
  <2>2. a \in Nat /\ from <= a /\ b \in Nat /\ a < b /\ b <= to /\ b - a \in Nat
    BY <1>2
  <2>3. /\ s.from = a /\ s.to = b /\ s.hour = HourStart(a) /\ s.shift = ShiftAt(shifts, a + b)
        /\ s.run = (IF running THEN b - a ELSE 0) /\ s.idle = (IF running THEN 0 ELSE b - a)
        /\ s.manual = (IF manual THEN b - a ELSE 0)
        /\ s.produced = (IF b = to THEN produced ELSE 0)
        /\ s.energy = (energy * (b - a)) \div (to - from)
    BY <1>4, <2>1
  <2>4. s.energy \in Nat
    <3>1. energy * (b - a) \in Nat /\ to - from \in Nat \ {0}
      BY <2>2
    <3> DEFINE n == energy * (b - a)
               d == to - from
    <3> HIDE DEF n, d
    <3>2. n \in Nat /\ d \in Nat \ {0}
      BY <3>1 DEF n, d
    <3>3. n \div d \in Nat
      <4>1. n \in Int /\ d * 0 <= n
        BY <3>2
      <4> QED  BY <3>2, <4>1
    <3> QED  BY <2>3, <3>3 DEF n, d
  <2>5. SliceSound(s, shifts)
    <3>1. \E i \in DOMAIN shifts : shifts[i].id = s.shift
      BY <2>1, <2>3, ShiftFound DEF ShiftsTimed
    <3>2. s["run"] \in Nat /\ s["idle"] \in Nat /\ s["manual"] \in Nat /\ s["produced"] \in Nat /\ s["energy"] \in Nat
      BY <2>2, <2>3, <2>4
    <3> QED  BY <2>1, <2>2, <2>3, <3>1, <3>2 DEF SliceSound, Quantities
  <2>6. \A x \in SecondsOf(s) : <<ShiftAt(shifts, 2 * x + 1), HourStart(x)>> = RowOf(s)
    <3>1. SecondsOf(s) = a..(b - 1) /\ RowOf(s) = <<ShiftAt(shifts, a + b), HourStart(a)>>
      BY <2>3 DEF SecondsOf, RowOf
    <3>2. \A x \in a..(b - 1) : HourStart(x) = HourStart(a) /\ ShiftAt(shifts, 2 * x + 1) = ShiftAt(shifts, a + b)
      BY <1>5
    <3> QED  BY <3>1, <3>2
  <2> HIDE DEF b
  <2>7. SliceSays(s, shifts, running, manual)
    BY <2>2, <2>3, <2>6 DEF SliceSays
  <2> QED  BY <2>2, <2>3, <2>5, <2>7
<1>10. ASSUME NEW s \in S, NEW r \in S, NEW x \in SecondsOf(s) \cap SecondsOf(r)
       PROVE  s = r
  <2>1. PICK a \in C \ {to} : s = of(a)
    BY <1>7
  <2>2. PICK c \in C \ {to} : r = of(c)
    BY <1>7
  <2>3. /\ a \in Nat /\ c \in Nat /\ next(a) \in Nat /\ next(c) \in Nat
        /\ ~(a < c /\ c < next(a)) /\ ~(c < a /\ a < next(c))
    BY <1>2
  <2>4. a <= x /\ x < next(a) /\ c <= x /\ x < next(c) /\ x \in Int
    <3>1. x \in a..(next(a) - 1) /\ x \in c..(next(c) - 1)
      BY <1>4, <2>1, <2>2 DEF SecondsOf
    <3> QED  BY <2>3, <3>1
  <2>5. a = c
    BY <2>3, <2>4
  <2> QED  BY <2>1, <2>2, <2>5
<1>11. ASSUME NEW x \in from..(to - 1), ShiftAt(shifts, 2 * x + 1) # NoShift
       PROVE  \E s \in S : x \in SecondsOf(s)
  <2>1. PICK a \in C \ {to} : a <= x /\ x < next(a)
    BY <1>3
  <2>2. a \in Nat /\ next(a) \in Nat
    BY <1>2
  <2>3. x \in a..(next(a) - 1)
    BY <2>1, <2>2
  <2>4. of(a).shift # NoShift
    BY <1>4, <1>5, <1>11, <2>3
  <2>5. of(a) \in S
    BY <1>1, <2>4
  <2>6. x \in SecondsOf(of(a))
    BY <1>4, <2>3 DEF SecondsOf
  <2> QED  BY <2>5, <2>6
<1>12. SlicesSplit(S, shifts, from, to)
  BY <1>8, <1>9, <1>10, <1>11 DEF SlicesSplit
<1>13. \A s \in S : SliceSound(s, shifts) /\ SliceSays(s, shifts, running, manual)
  BY <1>9
<1> QED  BY <1>12, <1>13 DEF S

-----------------------------------------------------------------------------
(* The slices of a record.                                                 *)

(* Slices of records that no time is credited with: the seconds of them    *)
(* are another record's, or another slice's.                               *)
NoTime(slices) == \A s \in slices : ~Timed(s) /\ s.manual = 0
TimedOf(slices) == {s \in slices : Timed(s)}

(* A record whose time is that from one instant to another, of a state.    *)
Spent(slices, shifts, from, to, running, manual) ==
  /\ SlicesSplit(TimedOf(slices), shifts, from, to)
  /\ \A s \in TimedOf(slices) : SliceSays(s, shifts, running, manual)
  /\ NoTime(slices \ TimedOf(slices))

SlicesSound(slices, shifts) == IsFiniteSet(slices) /\ \A s \in slices : SliceSound(s, shifts)

(* What a reading is credited with begins at the one before it, if there   *)
(* is one, and ends with it or with the first GapLimit.                    *)
CreditEnd(from, time) == IF from = 0 THEN 0 ELSE IF time - from > GapLimit THEN from + GapLimit ELSE time

(* A company has shifts as hourlySlices() needs them.                      *)
LEMMA ShiftsOf ==
  ASSUME LedgerAssumption, scene \in Scenes, NEW c \in DOMAIN scene.shifts
  PROVE  ShiftsTimed(scene.shifts[c])
BY DEF LedgerAssumption, ShiftsSound, ShiftsTimed

(* No slice is one of time where there is none to credit.                  *)
LEMMA NothingSpent ==
  ASSUME NEW shifts, NEW from \in Nat, NEW running, NEW manual
  PROVE  \A to \in Int : to <= from => Spent({}, shifts, from, to, running, manual)
<1>1. IsFiniteSet({})
  BY FS_EmptySet
<1>2. TimedOf({}) = {}
  BY DEF TimedOf
<1>3. ASSUME NEW to \in Int, to <= from  PROVE from..(to - 1) = {}
  BY <1>3
<1> QED  BY <1>1, <1>2, <1>3 DEF Spent, NoTime, SlicesSplit

(* PointSlice and EnergySlices are of no time.                             *)
LEMMA PointSliced ==
  ASSUME LedgerAssumption, scene \in Scenes, company \in DOMAIN scene.shifts,
         NEW at \in Nat, NEW produced \in Nat, NEW energy \in Nat
  PROVE  SlicesSound(PointSlice(at, produced, energy), Shifts) /\ NoTime(PointSlice(at, produced, energy))
<1> DEFINE shift == ShiftAt(Shifts, 2 * at)
           s == Slice(at, at, shift, 0, 0, 0, produced, energy)
<1>1. PointSlice(at, produced, energy) = {} \/ (shift # NoShift /\ PointSlice(at, produced, energy) = {s})
  BY DEF PointSlice
<1>2. IsFiniteSet({}) /\ IsFiniteSet({s})
  BY FS_EmptySet, FS_Singleton
<1>3. ShiftsTimed(Shifts)
  BY ShiftsOf DEF Shifts
<1>4. ASSUME shift # NoShift
      PROVE  SliceSound(s, Shifts) /\ ~Timed(s) /\ s.manual = 0
  <2>1. \E i \in DOMAIN Shifts : Shifts[i].id = shift
    <3>1. DOMAIN Shifts \subseteq Nat
      BY <1>3 DEF ShiftsTimed
    <3> QED  BY <1>4, <3>1, ShiftFound
  <2> HIDE DEF shift
  <2>2. /\ s.from = at /\ s.to = at /\ s.shift = shift /\ s.run = 0 /\ s.idle = 0 /\ s.manual = 0
        /\ s["run"] = 0 /\ s["idle"] = 0 /\ s["manual"] = 0 /\ s["produced"] = produced /\ s["energy"] = energy
    BY DEF Slice
  <2> HIDE DEF s
  <2>3. \A q \in Quantities : s[q] \in Nat
    BY <2>2 DEF Quantities
  <2> QED  BY <1>4, <2>1, <2>2, <2>3 DEF SliceSound, Timed
<1> HIDE DEF s, shift
<1> QED  BY <1>1, <1>2, <1>4 DEF SlicesSound, NoTime

(* HourlySlices() of an interval, of which there may be nothing.           *)
LEMMA IntervalSliced ==
  ASSUME NEW shifts, ShiftsTimed(shifts), NEW from \in Nat, NEW to \in Nat,
         NEW running \in BOOLEAN, NEW manual \in BOOLEAN, NEW produced \in Nat, NEW energy \in Nat
  PROVE  LET S == HourlySlices(shifts, from, to, running, manual, produced, energy) IN
         /\ SlicesSound(S, shifts) /\ TimedOf(S) = S
         /\ Spent(S, shifts, from, IF from = 0 THEN 0 ELSE to, running, manual)
<1> DEFINE S == HourlySlices(shifts, from, to, running, manual, produced, energy)
<1>1. CASE from = 0 \/ to <= from
  <2>1. S = {}
    BY <1>1 DEF HourlySlices
  <2>2. Spent({}, shifts, from, IF from = 0 THEN 0 ELSE to, running, manual)
    BY <1>1, NothingSpent
  <2>3. SlicesSound({}, shifts) /\ TimedOf({}) = {}
    BY FS_EmptySet DEF SlicesSound, TimedOf
  <2> QED  BY <2>1, <2>2, <2>3
<1>2. CASE ~(from = 0 \/ to <= from)
  <2>1. from \in Nat \ {0} /\ from < to
    BY <1>2
  <2>2. SlicesSplit(S, shifts, from, to)
    BY <2>1, HourlySliced
  <2>3. \A s \in S : SliceSound(s, shifts) /\ SliceSays(s, shifts, running, manual)
    BY <2>1, HourlySliced
  <2> HIDE DEF S
  <2>4. ASSUME NEW s \in S  PROVE Timed(s)
    <3>1. /\ s.from \in Nat /\ s.to \in Nat /\ s.from < s.to
          /\ s.run = (IF running THEN s.to - s.from ELSE 0)
          /\ s.idle = (IF running THEN 0 ELSE s.to - s.from)
      BY <2>3 DEF SliceSound, SliceSays
    <3> QED  BY <3>1 DEF Timed
  <2>5. TimedOf(S) = S
    BY <2>4 DEF TimedOf
  <2>6. SlicesSound(S, shifts)
    BY <2>2, <2>3 DEF SlicesSound, SlicesSplit
  <2>7. Spent(S, shifts, from, to, running, manual)
    BY <2>2, <2>3, <2>5 DEF Spent, NoTime
  <2> QED  BY <1>2, <2>5, <2>6, <2>7 DEF S
<1> QED  BY <1>1, <1>2

(* EnergySlices are of no time either.                                     *)
LEMMA EnergySliced ==
  ASSUME LedgerAssumption, scene \in Scenes, company \in DOMAIN scene.shifts,
         NEW from \in Nat, NEW to \in Nat, NEW energy \in Nat
  PROVE  SlicesSound(EnergySlices(from, to, energy), Shifts) /\ NoTime(EnergySlices(from, to, energy))
<1>1. CASE from = to
  <2>1. EnergySlices(from, to, energy) = PointSlice(to, 0, energy)
    BY <1>1 DEF EnergySlices
  <2> QED  BY <2>1, PointSliced
<1>2. CASE from # to
  <2> DEFINE S == HourlySlices(Shifts, from, to, FALSE, FALSE, 0, energy)
             of == [s \in S |-> Slice(s.from, s.to, s.shift, 0, 0, 0, 0, s.energy)]
             T == {of[s] : s \in S}
  <2>1. ShiftsTimed(Shifts)
    BY ShiftsOf DEF Shifts
  <2>2. SlicesSound(S, Shifts)
    BY <2>1, IntervalSliced
  <2>3. EnergySlices(from, to, energy) = T
    BY <1>2 DEF EnergySlices
  <2> HIDE DEF S
  <2>4. IsFiniteSet(T)
    <3>1. DOMAIN of = S /\ of = [s \in S |-> of[s]] /\ IsFiniteSet(S)
      BY <2>2 DEF SlicesSound
    <3> HIDE DEF of
    <3> QED  BY <3>1, ImageFinite
  <2>5. ASSUME NEW s \in S
        PROVE  SliceSound(of[s], Shifts) /\ ~Timed(of[s]) /\ of[s].manual = 0
    <3> DEFINE r == of[s]
    <3>1. /\ r.from = s.from /\ r.to = s.to /\ r.shift = s.shift /\ r.run = 0 /\ r.idle = 0 /\ r.manual = 0
          /\ r["run"] = 0 /\ r["idle"] = 0 /\ r["manual"] = 0 /\ r["produced"] = 0 /\ r["energy"] = s["energy"]
      BY DEF Slice
    <3>2. SliceSound(s, Shifts)
      BY <2>2 DEF SlicesSound
    <3> HIDE DEF r
    <3>3. \A q \in Quantities : r[q] \in Nat
      BY <3>1, <3>2 DEF Quantities, SliceSound
    <3>4. SliceSound(r, Shifts) /\ ~Timed(r)
      BY <3>1, <3>2, <3>3 DEF SliceSound, Timed
    <3> QED  BY <3>1, <3>4 DEF r
  <2> HIDE DEF of
  <2> QED  BY <2>3, <2>4, <2>5 DEF SlicesSound, NoTime
<1> QED  BY <1>1, <1>2

(* Slices of no time beside others.                                        *)
LEMMA BesideSpent ==
  ASSUME NEW shifts, NEW from, NEW to, NEW running, NEW manual, NEW S, NEW T,
         SlicesSound(S, shifts), Spent(S, shifts, from, to, running, manual),
         SlicesSound(T, shifts), NoTime(T)
  PROVE  SlicesSound(S \cup T, shifts) /\ Spent(S \cup T, shifts, from, to, running, manual)
<1>1. SlicesSound(S \cup T, shifts)
  BY FS_Union DEF SlicesSound
<1>2. TimedOf(S \cup T) = TimedOf(S)
  BY DEF TimedOf, NoTime
<1>3. NoTime((S \cup T) \ TimedOf(S))
  BY DEF NoTime, Spent
<1> QED  BY <1>1, <1>2, <1>3 DEF Spent

-----------------------------------------------------------------------------
(* The records of messages.                                                *)

(* What a state has, whatever the messages were.                           *)
StateTyped(st) ==
  /\ DOMAIN st = DOMAIN NullState
  /\ st.time \in Nat /\ st.running \in BOOLEAN /\ st.manual \in BOOLEAN
  /\ st.base \in Nat \cup {NoCount}
  /\ st.meter.meter \in Nat /\ st.meter.at \in Nat

(* A step of the counter or of the meter is a natural number.              *)
LEMMA CounterTyped ==
  ASSUME NEW baseline \in Nat \cup {NoCount}, NEW count \in Nat \cup {NoCount}, NEW gap \in Int
  PROVE  /\ PartsCounterStep(baseline, count, gap).delta \in Nat
         /\ PartsCounterStep(baseline, count, gap).baseline \in Nat \cup {NoCount}
<1>1. ASSUME NEW prev \in Nat, NEW curr \in Nat  PROVE PartsDelta(prev, curr, gap) \in Nat
  BY DEF PartsDelta
<1>2. NoCount \notin Nat
  BY DEF NoCount
<1> QED  BY <1>1, <1>2 DEF PartsCounterStep

(* Nor has a step of the meter a negative delta.                           *)
LEMMA EnergyTyped ==
  ASSUME NEW last, last.meter \in Nat, last.at \in Nat, NEW reading \in Nat \cup {NoReading}, NEW now \in Nat
  PROVE  LET step == EnergyStep(last, reading, now) IN
         step.delta \in Nat /\ step.last.meter \in Nat /\ step.last.at \in Nat
<1> DEFINE step == EnergyStep(last, reading, now)
           climb == reading - last.meter
           counted == last # NoMeter /\ climb >= 0 /\ ~Misread(climb, now - last.at)
<1>1. step = IF reading <= 0 THEN [delta |-> 0, last |-> last]
             ELSE [delta |-> IF counted THEN climb ELSE 0, last |-> [meter |-> reading, at |-> now]]
  BY DEF EnergyStep
<1>2. reading > 0 => reading \in Nat
  BY DEF NoReading
<1>3. reading \in Int
  BY DEF NoReading
<1>4. counted => climb \in Nat
  <2>1. climb \in Int
    BY <1>3
  <2> HIDE DEF climb
  <2> QED  BY <2>1
<1> HIDE DEF counted, climb, step
<1>5. CASE reading <= 0
  <2>1. step.delta = 0 /\ step.last = last
    BY <1>1, <1>5
  <2> QED  BY <2>1 DEF step
<1>6. CASE ~(reading <= 0)
  <2>1. step.delta = (IF counted THEN climb ELSE 0) /\ step.last.meter = reading /\ step.last.at = now
    BY <1>1, <1>6
  <2> QED  BY <1>2, <1>3, <1>4, <1>6, <2>1 DEF step
<1> QED  BY <1>5, <1>6

(* A meter value is a natural number, or there is none.                    *)
LEMMA KwhTyped ==
  ASSUME NEW m, MessageSound(m)
  PROVE  /\ KwhOf(m) \in Nat \cup {NoReading} /\ m.time \in Nat
         /\ \A prev : OrderedEnergy(prev, m) \in Nat \cup {NoReading}
BY DEF MessageSound, KwhOf, OrderedEnergy

(* A step of the meter goes on since an instant.                           *)
LEMMA SinceTyped ==
  ASSUME NEW prev, StateTyped(prev), NEW at \in Nat
  PROVE  MeterFrom(prev, at) \in Nat
BY DEF MeterFrom, StateTyped

-----------------------------------------------------------------------------
(* The record of a snapshot after a state that is no later.                *)
SnapshotBooks(rec, prev, i) ==
  LET m == scene.messages[i] IN
  /\ rec.kind = "raw" /\ rec.message = i /\ rec.company = company
  /\ StateTyped(rec.state) /\ rec.state.company = company
  /\ rec.state.time = m.time /\ rec.state.running = m.running /\ rec.state.manual = m.manual
  /\ SlicesSound(rec.slices, Shifts)
  /\ Spent(rec.slices, Shifts, prev.time, CreditEnd(prev.time, m.time), prev.running, prev.manual)

(* It is credited with the time from that state to the reading, as what    *)
(* that state says.                                                        *)
LEMMA SnapshotBooked ==
  ASSUME LedgerAssumption, scene \in Scenes, company \in DOMAIN scene.shifts,
         NEW i \in DOMAIN scene.messages, ~scene.messages[i].packet, NEW prev, StateTyped(prev)
  PROVE  SnapshotBooks(SnapshotRecord(prev, i), prev, i)
<1> DEFINE m       == scene.messages[i]
           silence == IF prev.time = 0 THEN 0 ELSE m.time - prev.time
           counter == PartsCounterStep(prev.base, m.count, silence)
           step    == EnergyStep(prev.meter, OrderedEnergy(prev, m), m.time)
           since   == MeterFrom(prev, m.time)
           long    == silence > GapLimit
           longMeter == step.delta > 0 /\ m.time - since > GapLimit
           spread  == IF long \/ longMeter THEN 0 ELSE step.delta
           parts   == IF long THEN 0 ELSE counter.delta
           share   == IF since = prev.time THEN spread ELSE 0
           elapsed == HourlySlices(Shifts, prev.time, CreditUpTo(prev, m), prev.running, prev.manual, parts, share)
           sameSecond == IF silence = 0 THEN PointSlice(m.time, counter.delta, 0) ELSE {}
           ofMeter == IF spread > 0 /\ (since # prev.time \/ since = m.time)
                      THEN EnergySlices(since, m.time, spread) ELSE {}
           rec     == SnapshotRecord(prev, i)
<1>1. /\ MessageSound(m) /\ m.time \in Nat /\ m.count \in Nat \cup {NoCount} /\ m.running \in BOOLEAN /\ m.manual \in BOOLEAN
      /\ GapLimit \in Nat
  BY DEF LedgerAssumption, MessageSound
<1>2. /\ rec.kind = "raw" /\ rec.message = i /\ rec.company = company
      /\ rec.slices = elapsed \cup sameSecond \cup ofMeter
      /\ DOMAIN rec.state = DOMAIN NullState
      /\ rec.state.company = company /\ rec.state.time = m.time
      /\ rec.state.running = m.running /\ rec.state.manual = m.manual
      /\ rec.state.base = counter.baseline /\ rec.state.meter = step.last
  BY DEF SnapshotRecord, Record, NullState
<1>3. /\ prev.time \in Nat /\ prev.running \in BOOLEAN /\ prev.manual \in BOOLEAN
      /\ prev.base \in Nat \cup {NoCount} /\ prev.meter.meter \in Nat /\ prev.meter.at \in Nat
  BY DEF StateTyped
<1>4. silence \in Int
  BY <1>1, <1>3
<1>5. counter.delta \in Nat /\ counter.baseline \in Nat \cup {NoCount}
  <2> HIDE DEF silence, m
  <2> QED  BY <1>1, <1>3, <1>4, CounterTyped
<1>6. step.delta \in Nat /\ step.last.meter \in Nat /\ step.last.at \in Nat
  <2>1. OrderedEnergy(prev, m) \in Nat \cup {NoReading}
    BY <1>1, KwhTyped
  <2> HIDE DEF m
  <2> QED  BY <1>1, <1>3, <2>1, EnergyTyped
<1>7. since \in Nat
  BY <1>1, SinceTyped
<1>8. ShiftsTimed(Shifts)
  BY ShiftsOf DEF Shifts
<1>9. prev.time # 0 => CreditEnd(prev.time, m.time) = CreditUpTo(prev, m)
  BY DEF CreditEnd, CreditUpTo
<1>10. CreditUpTo(prev, m) \in Nat
  BY <1>1, <1>3 DEF CreditUpTo
<1>11. CreditEnd(prev.time, m.time) = IF prev.time = 0 THEN 0 ELSE CreditUpTo(prev, m)
  BY <1>9 DEF CreditEnd
<1> HIDE DEF step, counter, since, m, silence, rec
<1>12. spread \in Nat /\ parts \in Nat /\ share \in Nat
  BY <1>5, <1>6
<1> HIDE DEF spread, parts, share, long
<1>13. SlicesSound(elapsed, Shifts)
       /\ Spent(elapsed, Shifts, prev.time, CreditEnd(prev.time, m.time), prev.running, prev.manual)
  BY <1>3, <1>8, <1>10, <1>11, <1>12, IntervalSliced
<1>14. SlicesSound({}, Shifts) /\ NoTime({})
  BY FS_EmptySet DEF SlicesSound, NoTime
<1>15. SlicesSound(sameSecond, Shifts) /\ NoTime(sameSecond)
  <2>1. SlicesSound(PointSlice(m.time, counter.delta, 0), Shifts) /\ NoTime(PointSlice(m.time, counter.delta, 0))
    BY <1>1, <1>5, PointSliced
  <2> QED  BY <1>14, <2>1
<1>16. SlicesSound(ofMeter, Shifts) /\ NoTime(ofMeter)
  <2>1. SlicesSound(EnergySlices(since, m.time, spread), Shifts) /\ NoTime(EnergySlices(since, m.time, spread))
    BY <1>1, <1>7, <1>12, EnergySliced
  <2> QED  BY <1>14, <2>1
<1> HIDE DEF elapsed, sameSecond, ofMeter
<1>17. SlicesSound(elapsed \cup sameSecond, Shifts)
       /\ Spent(elapsed \cup sameSecond, Shifts, prev.time, CreditEnd(prev.time, m.time), prev.running, prev.manual)
  BY <1>13, <1>15, BesideSpent
<1>18. SlicesSound(rec.slices, Shifts)
       /\ Spent(rec.slices, Shifts, prev.time, CreditEnd(prev.time, m.time), prev.running, prev.manual)
  <2> DEFINE both == elapsed \cup sameSecond
  <2>1. rec.slices = both \cup ofMeter
    BY <1>2
  <2>2. SlicesSound(both, Shifts)
        /\ Spent(both, Shifts, prev.time, CreditEnd(prev.time, m.time), prev.running, prev.manual)
    BY <1>17
  <2> HIDE DEF both
  <2>3. SlicesSound(both \cup ofMeter, Shifts)
        /\ Spent(both \cup ofMeter, Shifts, prev.time, CreditEnd(prev.time, m.time), prev.running, prev.manual)
    BY <1>16, <2>2, BesideSpent
  <2> QED  BY <2>1, <2>3
<1>19. StateTyped(rec.state)
  BY <1>1, <1>2, <1>5, <1>6 DEF StateTyped
<1> QED  BY <1>2, <1>18, <1>19 DEF SnapshotBooks, rec, m

(* The record of a packet, and of what is late.                            *)
PacketBooks(rec, prev, i) ==
  /\ rec.kind = "energy" /\ rec.message = i /\ rec.company = company
  /\ StateTyped(rec.state) /\ rec.state.company = company
  /\ rec.state.time = prev.time /\ rec.state.running = prev.running /\ rec.state.manual = prev.manual
  /\ SlicesSound(rec.slices, Shifts) /\ NoTime(rec.slices)

(* A packet changes nothing that is said of time, and is credited with     *)
(* none.                                                                   *)
LEMMA PacketBooked ==
  ASSUME LedgerAssumption, scene \in Scenes, company \in DOMAIN scene.shifts,
         NEW i \in DOMAIN scene.messages, NEW prev, StateTyped(prev)
  PROVE  PacketBooks(PacketRecord(prev, i), prev, i)
<1> DEFINE m     == scene.messages[i]
           step  == EnergyStep(prev.meter, KwhOf(m), m.time)
           since == MeterFrom(prev, m.time)
           long  == step.delta > 0 /\ m.time - since > GapLimit
           none  == step.delta = 0 \/ long
           rec   == PacketRecord(prev, i)
<1>1. MessageSound(m) /\ m.time \in Nat
  BY DEF LedgerAssumption, MessageSound
<1>2. /\ rec.kind = "energy" /\ rec.message = i /\ rec.company = company
      /\ rec.slices = (IF none THEN {} ELSE EnergySlices(since, m.time, step.delta))
      /\ DOMAIN rec.state = DOMAIN NullState
      /\ rec.state.company = company /\ rec.state.time = prev.time
      /\ rec.state.running = prev.running /\ rec.state.manual = prev.manual
      /\ rec.state.base = prev.base /\ rec.state.meter = step.last
  BY DEF PacketRecord, Record, NullState, StateTyped
<1>3. step.delta \in Nat /\ step.last.meter \in Nat /\ step.last.at \in Nat
  <2>1. KwhOf(m) \in Nat \cup {NoReading}
    BY <1>1, KwhTyped
  <2>2. prev.meter.meter \in Nat /\ prev.meter.at \in Nat
    BY DEF StateTyped
  <2> HIDE DEF m
  <2> QED  BY <1>1, <2>1, <2>2, EnergyTyped
<1>4. since \in Nat
  BY <1>1, SinceTyped
<1> HIDE DEF step, since, m, none, rec
<1>5. SlicesSound({}, Shifts) /\ NoTime({})
  BY FS_EmptySet DEF SlicesSound, NoTime
<1>6. SlicesSound(EnergySlices(since, m.time, step.delta), Shifts) /\ NoTime(EnergySlices(since, m.time, step.delta))
  BY <1>1, <1>3, <1>4, EnergySliced
<1>7. SlicesSound(rec.slices, Shifts) /\ NoTime(rec.slices)
  BY <1>2, <1>5, <1>6
<1>8. StateTyped(rec.state)
  BY <1>2, <1>3 DEF StateTyped
<1> QED  BY <1>2, <1>7, <1>8 DEF PacketBooks, rec

(* Nor is a late reading.                                                  *)
LEMMA LateBooked ==
  ASSUME NEW i
  PROVE  LET rec == LateRecord(i) IN
         /\ rec.kind = "late" /\ rec.message = i /\ rec.company = company
         /\ SlicesSound(rec.slices, Shifts) /\ NoTime(rec.slices)
BY FS_EmptySet DEF LateRecord, Record, SlicesSound, NoTime

-----------------------------------------------------------------------------
(* The invariant.                                                          *)

(* What a journal lg says of the time a reading is from, and what a state  *)
(* has of the last reading of a company among the first n records.         *)
TimeOf(lg, i) == IF i = 0 THEN 0 ELSE Message(lg[i]).time

Clocked(lg, st, c, n) ==
  LET p == LastIn(lg, c, n) IN
  /\ st.time = TimeOf(lg, p)
  /\ p # 0 => st.running = Message(lg[p]).running /\ st.manual = Message(lg[p]).manual

(* What a record is credited with: a reading, with the time since the one  *)
(* before it of its company, and with what the machine then was doing.     *)
Accounted(lg, i) ==
  LET rec == lg[i]  p == LastIn(lg, rec.company, i - 1)
      from == TimeOf(lg, p)  time == Message(rec).time
  IN /\ rec.kind = "raw" => from <= time
     /\ IF rec.kind = "raw" /\ p # 0
        THEN Spent(rec.slices, scene.shifts[rec.company], from, CreditEnd(from, time),
                   Message(lg[p]).running, Message(lg[p]).manual)
        ELSE NoTime(rec.slices)

RecordBooked(lg, i) ==
  LET rec == lg[i] IN
  /\ rec.kind \in {"raw", "energy", "late"} /\ rec.message \in DOMAIN scene.messages
  /\ rec.company \in DOMAIN scene.shifts
  /\ \A j \in 1..i : lg[j].company # scene.owner => rec.company = lg[j].company
  /\ rec.kind = "raw" => ~Message(rec).packet
  /\ rec.kind # "late" => rec.state.company = rec.company /\ StateTyped(rec.state)
  /\ SlicesSound(rec.slices, scene.shifts[rec.company])
  /\ KeptWhereSold => /\ rec.kind # "late" => Clocked(lg, rec.state, rec.company, i)
                      /\ Accounted(lg, i)

JournalBooked ==
  /\ scene \in Scenes /\ company \in DOMAIN scene.shifts
  /\ log \in Seq(Range(log)) /\ Len(log) <= scene.most /\ done \in 0..Len(log) /\ lost \in 0..done
  /\ \A i \in 1..Len(log) : RecordBooked(log, i) /\ log[i].company \in {scene.owner, company}

(* The process: what it knows is of the last reading of the company.       *)
ProcessBooked ==
  /\ known \in BOOLEAN /\ seen \subseteq DOMAIN scene.messages
  /\ StateTyped(state) /\ state.company \in {NoCompany, scene.owner, company}
  /\ ~known => \A i \in (lost + 1)..Len(log) : log[i].kind = "late"
  /\ "loses" \notin scene.flags => lost = 0
  /\ known /\ ~Belongs(state) => Places(log, company) = {}
  /\ KeptWhereSold /\ known /\ Belongs(state) => Clocked(log, state, company, Len(log))
  /\ KeptWhereSold /\ known /\ state.company = NoCompany /\ "loses" \notin scene.flags => state.time = 0

(* The tables: hourly has the slices of what is written, in one sum.       *)
HourlyBooked == hourly = SumSlices(Placed(1, done))
AlarmsEnd    == \A row \in alarms.rows : DOMAIN row = RowFields /\ (row.ended = Open \/ row.ended >= row.started)

BookInv == JournalBooked /\ ProcessBooked /\ HourlyBooked /\ AlarmsEnd /\ MeterInv

-----------------------------------------------------------------------------
(* A journal says of its records what it said when it was shorter.         *)
LEMMA ClockedPrefix ==
  ASSUME NEW lg, NEW m \in Nat, DOMAIN lg = 1..m, NEW new, NEW l \in Nat, DOMAIN new = 1..l, m <= l,
         \A i \in 1..m : new[i] = lg[i], NEW c, NEW n \in 0..m
  PROVE  /\ LastIn(new, c, n) = LastIn(lg, c, n)
         /\ TimeOf(new, LastIn(new, c, n)) = TimeOf(lg, LastIn(lg, c, n))
         /\ LastIn(lg, c, n) # 0 => new[LastIn(lg, c, n)] = lg[LastIn(lg, c, n)]
         /\ \A st : Clocked(new, st, c, n) <=> Clocked(lg, st, c, n)
<1> DEFINE p == LastIn(lg, c, n)
<1>1. LastIn(new, c, n) = p /\ p \in 0..m
  BY LastInPrefix
<1>2. p # 0 => p \in 1..m
  <2> HIDE DEF p
  <2> QED  BY <1>1
<1>3. p # 0 => new[p] = lg[p]
  BY <1>2
<1> HIDE DEF p
<1>4. TimeOf(new, LastIn(new, c, n)) = TimeOf(lg, p)
  BY <1>1, <1>3 DEF TimeOf
<1>5. \A st : Clocked(new, st, c, n) <=> Clocked(lg, st, c, n)
  BY <1>1, <1>3, <1>4 DEF Clocked, p
<1> QED  BY <1>1, <1>3, <1>4, <1>5 DEF p

(* A record that is sound in a journal is in a longer one.                 *)
LEMMA BookedPrefix ==
  ASSUME NEW lg, NEW m \in Nat, DOMAIN lg = 1..m, NEW new, NEW l \in Nat, DOMAIN new = 1..l, m <= l,
         \A i \in 1..m : new[i] = lg[i], NEW n \in 1..m, RecordBooked(lg, n)
  PROVE  RecordBooked(new, n)
<1> DEFINE c == lg[n].company
           p == LastIn(lg, c, n - 1)
<1>1. n \in 0..m /\ n - 1 \in 0..m /\ new[n] = lg[n] /\ \A j \in 1..n : new[j] = lg[j]
  OBVIOUS
<1>2. \A st : Clocked(new, st, c, n) <=> Clocked(lg, st, c, n)
  BY <1>1, ClockedPrefix
<1>3. /\ LastIn(new, c, n - 1) = p /\ TimeOf(new, p) = TimeOf(lg, p)
      /\ p # 0 => new[p] = lg[p]
  BY <1>1, ClockedPrefix
<1> HIDE DEF p
<1>4. Accounted(new, n) <=> Accounted(lg, n)
  BY <1>1, <1>3 DEF Accounted, p
<1> QED  BY <1>1, <1>2, <1>4 DEF RecordBooked

(* Records that are no readings of the company change nothing of what is   *)
(* said of its last.                                                       *)
LEMMA ClockedStays ==
  ASSUME NEW lg, NEW m \in Nat, DOMAIN lg = 1..m, NEW c, NEW n \in 0..m, NEW k \in 0..n,
         \A i \in (k + 1)..n : ~(lg[i].kind = "raw" /\ lg[i].company = c), NEW st
  PROVE  Clocked(lg, st, c, n) <=> Clocked(lg, st, c, k)
<1>1. LastIn(lg, c, n) = LastIn(lg, c, k)
  BY LastInStays
<1> QED  BY <1>1 DEF Clocked

(* The facts of a record, in the next state.                               *)
LEMMA BookedNext ==
  ASSUME scene' = scene, NEW i, RecordBooked(log', i)
  PROVE  RecordBooked(log, i)'
<1>1. RecordBooked(log, i)' <=> RecordBooked(log', i)
  BY DEF RecordBooked, Accounted, Clocked, TimeOf, Message
<1> QED  BY <1>1

(* What a state says of the last reading, in the next state.               *)
LEMMA ClockedNext ==
  ASSUME scene' = scene
  PROVE  Clocked(log, state, company, Len(log))' <=> Clocked(log', state', company', Len(log'))
BY DEF Clocked, TimeOf, Message

-----------------------------------------------------------------------------
(* hydrate() says of a company what its last reading in the tables did.    *)
LEMMA MeterRowTyped ==
  ASSUME LedgerAssumption, MeterInv, NEW at \in DOMAIN meters
  PROVE  at \in Nat /\ \A f \in DOMAIN meters[at].reading : meters[at].reading[f] \in Nat
<1> DEFINE ob == ObsOf(log)
<1>1. RowSays(ob, meters[at], at, done) /\ ObsAt(ob, at, done) # {}
  BY DEF MeterInv, MeterSays
<1>2. done \in 0..Len(log) /\ Len(log) \in Nat
  BY DEF MeterInv
<1>3. \A j \in 1..done : j \in 1..Len(log)
  BY <1>2
<1>4. ASSUME NEW j \in 1..done
      PROVE  ob[j].at \in Nat /\ \A f \in DOMAIN ob[j].reading : ob[j].reading[f] \in Nat
  <2>1. ob[j].at = Message(log[j]).time /\ ob[j].reading = Message(log[j]).reading
    BY <1>3, ObservationIs
  <2>2. MessageSound(Message(log[j]))
    BY <1>3 DEF MeterInv, LedgerAssumption, Message
  <2> QED  BY <2>1, <2>2 DEF MessageSound
<1> HIDE DEF ob
<1>5. at \in Nat
  BY <1>1, <1>4 DEF ObsAt
<1>6. ASSUME NEW f \in DOMAIN meters[at].reading  PROVE meters[at].reading[f] \in Nat
  <2>1. LastIs(ob, meters[at], at, f, done)
    BY <1>1 DEF RowSays
  <2>2. PICK j \in Supplied(ob, meters[at].company, at, f, done) : meters[at].reading[f] = ob[j].reading[f]
    BY <2>1 DEF LastIs
  <2> QED  BY <1>4, <2>2 DEF Supplied
<1> QED  BY <1>5, <1>6

(* So the last meter value is a natural number, of an instant.             *)
LEMMA LastMeterTyped ==
  ASSUME LedgerAssumption, MeterInv
  PROVE  LastMeter.meter \in Nat /\ LastMeter.at \in Nat
<1>1. CASE MeterRows = {}
  BY <1>1 DEF LastMeter, NoMeter
<1>2. CASE MeterRows # {}
  <2>1. \A at \in MeterRows : at \in DOMAIN meters /\ at \in Nat
    BY MeterRowTyped DEF MeterRows
  <2>2. Max(MeterRows) \in MeterRows
    <3> DEFINE places == 1..done
               at == [j \in places |-> ObsOf(log)[j].at]
               times == {at[j] : j \in places}
    <3>1. IsFiniteSet(places)
      <4>1. done \in 0..Len(log) /\ Len(log) \in Nat
        BY DEF MeterInv
      <4> QED  BY <4>1, FS_Interval
    <3>2. IsFiniteSet(times)
      <4>1. DOMAIN at = places /\ at = [j \in places |-> at[j]]
        OBVIOUS
      <4> HIDE DEF at, places
      <4> QED  BY <3>1, <4>1, ImageFinite
    <3>3. MeterRows \in SUBSET times
      <4>1. ASSUME NEW t \in DOMAIN meters  PROVE t \in times
        <5>1. ObsAt(ObsOf(log), t, done) # {}
          BY DEF MeterInv, MeterSays
        <5> HIDE DEF ObsOf
        <5> QED  BY <5>1 DEF ObsAt
      <4> QED  BY <2>1, <4>1
    <3>4. IsFiniteSet(MeterRows) /\ MeterRows \subseteq Nat
      <4> HIDE DEF times
      <4> QED  BY <2>1, <3>2, <3>3, FS_Subset
    <3> QED  BY <1>2, <3>4, FiniteGreatest
  <2> QED  BY <1>2, <2>1, <2>2, MeterRowTyped DEF LastMeter, MeterRows
<1> QED  BY <1>1, <1>2

-----------------------------------------------------------------------------
(* What a message is compared with, and its record.                        *)

(* hydrate() of a journal whose written records are sound.                 *)
LEMMA HydratedBooked ==
  ASSUME JournalBooked, MeterInv, LedgerAssumption
  PROVE  /\ StateTyped(Hydrated) /\ Hydrated.company = NoCompany
         /\ Clocked(log, Hydrated, company, done)
<1> DEFINE p    == LastIn(log, company, done)
           rows == Places(Written, company)
<1>1. DOMAIN log = 1..Len(log) /\ Len(log) \in Nat /\ done \in 0..Len(log) /\ done \in Nat
  BY DEF JournalBooked
<1>2. /\ p \in 0..done
      /\ p # 0 => p \in 1..done /\ log[p].kind = "raw" /\ log[p].company = company
      /\ \A i \in 1..done : log[i].kind = "raw" /\ log[i].company = company => i <= p
  BY <1>1, LastInBounds
<1>3. DOMAIN Written = 1..done /\ \A i \in 1..done : Written[i] = log[i]
  BY <1>1 DEF JournalBooked, Written
<1>4. rows \in SUBSET (0..done) /\ \A i : i \in rows <=> i \in 1..done /\ log[i].kind = "raw" /\ log[i].company = company
  BY <1>1, <1>3 DEF Places
<1> DEFINE seenState == [NullState EXCEPT
             !.meter = LastMeter, !.battery = OpenBatteries,
             !.aloneAt = IF LastMeter # NoMeter /\ "kwh" \in meters[LastMeter.at].alone
                         THEN LastMeter.at ELSE 0]
<1>5. /\ DOMAIN seenState = DOMAIN NullState /\ seenState.time = 0 /\ seenState.company = NoCompany
      /\ seenState.running = FALSE /\ seenState.manual = FALSE /\ seenState.base = NoCount
      /\ seenState.meter = LastMeter
  BY DEF NullState
<1>6. Hydrated = IF rows = {} THEN seenState
                 ELSE LET row == Message(log[Max(rows)])
                      IN [seenState EXCEPT !.time = row.time, !.running = row.running,
                                           !.manual = row.manual, !.base = row.count]
  BY DEF Hydrated
<1>7. {"time", "company", "running", "manual", "base", "meter"} \subseteq DOMAIN seenState
  BY <1>5 DEF NullState
<1>8. LastMeter.meter \in Nat /\ LastMeter.at \in Nat
  BY LastMeterTyped
<1> HIDE DEF seenState
<1>9. CASE p = 0
  <2>1. rows = {}
    BY <1>2, <1>4, <1>9
  <2>2. Hydrated = seenState
    BY <1>6, <2>1
  <2>3. TimeOf(log, p) = 0
    BY <1>9 DEF TimeOf
  <2> HIDE DEF p
  <2>4. Clocked(log, Hydrated, company, done)
    BY <1>5, <1>9, <2>2, <2>3 DEF Clocked, p
  <2>5. StateTyped(seenState)
    <3>1. /\ seenState.time \in Nat /\ seenState.running \in BOOLEAN /\ seenState.manual \in BOOLEAN
          /\ seenState.base \in Nat \cup {NoCount}
      <4>1. seenState.time = 0 /\ seenState.base = NoCount
        BY <1>5
      <4>2. seenState.running = FALSE /\ seenState.manual = FALSE
        BY <1>5
      <4>3. seenState.time \in Nat /\ seenState.base \in Nat \cup {NoCount}
        BY <4>1
      <4>4. seenState.running \in BOOLEAN /\ seenState.manual \in BOOLEAN
        BY <4>2
      <4> QED  BY <4>3, <4>4
    <3>2. seenState.meter.meter \in Nat /\ seenState.meter.at \in Nat
      BY <1>5, <1>8
    <3> QED  BY <1>5, <3>1, <3>2 DEF StateTyped
  <2> QED  BY <1>5, <2>2, <2>4, <2>5
<1>10. CASE p # 0
  <2>1. p \in rows /\ \A x \in rows : x <= p
    BY <1>2, <1>4, <1>10
  <2>2. Max(rows) = p
    <3> HIDE DEF p, rows
    <3> QED  BY <1>1, <1>4, <2>1, LastPlaceIs
  <2>3. p \in 1..Len(log) /\ RecordBooked(log, p) /\ log[p].kind = "raw"
    BY <1>1, <1>2, <1>10 DEF JournalBooked
  <2> DEFINE row == Message(log[p])
  <2>4. /\ row.time \in Nat /\ row.running \in BOOLEAN /\ row.manual \in BOOLEAN
        /\ row.count \in Nat \cup {NoCount}
    <3>1. log[p].message \in DOMAIN scene.messages /\ ~row.packet /\ scene \in Scenes
      BY <2>3 DEF RecordBooked, JournalBooked
    <3>2. MessageSound(row)
      BY <3>1 DEF LedgerAssumption, Message
    <3> QED  BY <3>1, <3>2 DEF MessageSound
  <2>5. Hydrated = [seenState EXCEPT !.time = row.time, !.running = row.running,
                                     !.manual = row.manual, !.base = row.count]
    BY <1>6, <2>1, <2>2
  <2>6. TimeOf(log, p) = row.time
    BY <1>10 DEF TimeOf
  <2> HIDE DEF p, row, rows
  <2>7. /\ DOMAIN Hydrated = DOMAIN NullState /\ Hydrated.time = row.time /\ Hydrated.running = row.running
        /\ Hydrated.manual = row.manual /\ Hydrated.base = row.count /\ Hydrated.company = NoCompany
        /\ Hydrated.meter = LastMeter
    BY <1>5, <1>7, <2>5
  <2>8. Clocked(log, Hydrated, company, done)
    BY <2>6, <2>7 DEF Clocked, p, row
  <2>9. StateTyped(Hydrated)
    BY <1>8, <2>4, <2>7 DEF StateTyped
  <2> QED  BY <2>7, <2>8, <2>9
<1> QED  BY <1>9, <1>10

(* So the state that a message is compared with is that of the last        *)
(* reading of its company.                                                 *)
LEMMA BaselineBooked ==
  ASSUME JournalBooked, ProcessBooked, MeterInv, LedgerAssumption
  PROVE  /\ StateTyped(Baseline) /\ Baseline.company \in {NoCompany, company}
         /\ KeptWhereSold =>
              /\ Clocked(log, Baseline, company, Len(log))
              /\ Baseline.company = NoCompany /\ "loses" \notin scene.flags => Baseline.time = 0
<1>1. DOMAIN log = 1..Len(log) /\ Len(log) \in Nat /\ done \in 0..Len(log) /\ lost \in 0..done
  BY DEF JournalBooked
<1>2. CASE known /\ Belongs(state)
  BY <1>2 DEF ProcessBooked, Baseline, Belongs
<1>3. CASE ~(known /\ Belongs(state))
  <2>1. StateTyped(Hydrated) /\ Hydrated.company = NoCompany /\ Clocked(log, Hydrated, company, done)
    BY HydratedBooked
  <2>2. \A i \in (lost + 1)..Len(log) : ~(log[i].kind = "raw" /\ log[i].company = company)
    <3>1. CASE ~known
      BY <3>1 DEF ProcessBooked
    <3>2. CASE known
      <4>1. Places(log, company) = {}
        BY <1>3, <3>2 DEF ProcessBooked
      <4> QED  BY <1>1, <4>1 DEF Places
    <3> QED  BY <3>1, <3>2
  <2>3. \A i \in (done + 1)..Len(log) : ~(log[i].kind = "raw" /\ log[i].company = company)
    BY <1>1, <2>2
  <2>4. Clocked(log, Hydrated, company, Len(log))
    <3>1. Len(log) \in 0..Len(log)
      BY <1>1
    <3> QED  BY <1>1, <2>1, <2>3, <3>1, ClockedStays
  <2>5. ASSUME "loses" \notin scene.flags  PROVE Hydrated.time = 0
    <3>1. lost = 0
      BY <2>5 DEF ProcessBooked
    <3> DEFINE p == LastIn(log, company, done)
    <3>2. p \in 0..done /\ (p # 0 => p \in 1..done /\ log[p].kind = "raw" /\ log[p].company = company)
      BY <1>1, LastInBounds
    <3> HIDE DEF p
    <3>3. p = 0
      BY <1>1, <2>2, <3>1, <3>2
    <3> QED  BY <2>1, <3>3 DEF Clocked, TimeOf, p
  <2>6. Baseline = Hydrated
    BY <1>3 DEF Baseline
  <2> QED  BY <2>1, <2>4, <2>5, <2>6
<1> QED  BY <1>2, <1>3

-----------------------------------------------------------------------------
(* Where nothing is to be credited, no slice is one of time.               *)
LEMMA NoneBefore ==
  ASSUME NEW shifts, NEW running, NEW manual, NEW S, SlicesSound(S, shifts),
         Spent(S, shifts, 0, 0, running, manual)
  PROVE  NoTime(S)
<1>1. ASSUME NEW s \in S, Timed(s)  PROVE FALSE
  <2>1. s \in TimedOf(S)
    BY <1>1 DEF TimedOf
  <2>2. 0 <= s.from /\ s.to <= 0 /\ s.from < s.to /\ s.from \in Nat /\ s.to \in Nat
    BY <2>1 DEF Spent, SlicesSplit, SliceSays, SlicesSound, SliceSound
  <2> QED  BY <2>2
<1>2. S \ TimedOf(S) = S
  BY <1>1 DEF TimedOf
<1> QED  BY <1>2 DEF Spent

(* The record of a message is sound where it is put, of whichever kind.    *)
LEMMA RecordBooks ==
  ASSUME JournalBooked, LedgerAssumption, NEW i \in DOMAIN scene.messages, NEW rec, NEW prev,
         StateTyped(prev), KeptWhereSold => Clocked(log, prev, company, Len(log)),
         Admissible(rec, i, prev)
  PROVE  LET new == Append(log, rec) IN
         /\ rec.company = company /\ RecordBooked(new, Len(log) + 1)
         /\ rec.kind = "late" /\ KeptWhereSold => Clocked(new, prev, company, Len(log) + 1)
<1> DEFINE n   == Len(log)
           new == Append(log, rec)
           p   == LastIn(log, company, n)
           m   == scene.messages[i]
<1>1. /\ n \in Nat /\ DOMAIN log = 1..n /\ DOMAIN new = 1..(n + 1) /\ new[n + 1] = rec
      /\ \A j \in 1..n : new[j] = log[j]
  BY GrowsByOne DEF JournalBooked
<1>2. scene \in Scenes /\ company \in DOMAIN scene.shifts
  BY DEF JournalBooked
<1> HIDE DEF new, n
<1>3. n \in 0..n /\ n + 1 \in Nat /\ n <= n + 1 /\ n + 1 \in 1..(n + 1) /\ n + 1 \in 0..(n + 1) /\ n \in 0..(n + 1)
      /\ (n + 1) - 1 = n
  BY <1>1
<1>4. /\ LastIn(new, company, n) = p /\ TimeOf(new, p) = TimeOf(log, p)
      /\ p # 0 => new[p] = log[p]
      /\ \A st : Clocked(new, st, company, n) <=> Clocked(log, st, company, n)
  BY <1>1, <1>3, ClockedPrefix DEF n
<1>5. MessageSound(m)
  BY <1>2 DEF LedgerAssumption
<1>6. \A j \in 1..(n + 1) : new[j].company # scene.owner => company = new[j].company \/ j = n + 1
  BY <1>1 DEF JournalBooked, n
<1>7. rec.kind # "raw" => \A st : Clocked(new, st, company, n + 1) <=> Clocked(new, st, company, n)
  <2> SUFFICES ASSUME rec.kind # "raw", NEW st
               PROVE  Clocked(new, st, company, n + 1) <=> Clocked(new, st, company, n)
    OBVIOUS
  <2>1. \A j \in (n + 1)..(n + 1) : ~(new[j].kind = "raw" /\ new[j].company = company)
    BY <1>1
  <2>2. n \in 0..(n + 1) /\ n + 1 \in 0..(n + 1) /\ n + 1 \in Nat
    BY <1>3
  <2> QED  BY <1>1, <2>1, <2>2, ClockedStays
<1>8. KeptWhereSold => Clocked(new, prev, company, n)
  BY <1>4 DEF n
<1>9. Shifts = scene.shifts[company]
  BY DEF Shifts
<1> HIDE DEF p
<1>10. CASE rec = LateRecord(i)
  <2>1. /\ rec.kind = "late" /\ rec.message = i /\ rec.company = company
        /\ SlicesSound(rec.slices, Shifts) /\ NoTime(rec.slices)
    BY <1>10, LateBooked
  <2>2. Accounted(new, n + 1)
    BY <1>1, <2>1 DEF Accounted
  <2>3. RecordBooked(new, n + 1)
    BY <1>1, <1>2, <1>6, <1>9, <2>1, <2>2 DEF RecordBooked
  <2> QED  BY <1>7, <1>8, <2>1, <2>3 DEF new, n
<1>11. CASE m.packet /\ rec = PacketRecord(prev, i)
  <2>1. PacketBooks(rec, prev, i)
    BY <1>2, <1>11, PacketBooked
  <2>2. /\ rec.kind = "energy" /\ rec.message = i /\ rec.company = company
        /\ StateTyped(rec.state) /\ rec.state.company = company
        /\ rec.state.time = prev.time /\ rec.state.running = prev.running /\ rec.state.manual = prev.manual
        /\ SlicesSound(rec.slices, Shifts) /\ NoTime(rec.slices)
    BY <2>1 DEF PacketBooks
  <2>3. Accounted(new, n + 1)
    BY <1>1, <2>2 DEF Accounted
  <2>4. KeptWhereSold => Clocked(new, rec.state, company, n + 1)
    <3>1. KeptWhereSold => Clocked(new, prev, company, n + 1)
      BY <1>7, <1>8, <2>2
    <3> QED  BY <2>2, <3>1 DEF Clocked
  <2>5. RecordBooked(new, n + 1)
    BY <1>1, <1>2, <1>6, <1>9, <2>2, <2>3, <2>4 DEF RecordBooked
  <2> QED  BY <2>2, <2>5 DEF new, n
<1>12. CASE ~m.packet /\ prev.time <= m.time /\ rec = SnapshotRecord(prev, i)
  <2>1. SnapshotBooks(rec, prev, i)
    BY <1>2, <1>12, SnapshotBooked
  <2>2. /\ rec.kind = "raw" /\ rec.message = i /\ rec.company = company
        /\ StateTyped(rec.state) /\ rec.state.company = company
        /\ rec.state.time = m.time /\ rec.state.running = m.running /\ rec.state.manual = m.manual
        /\ SlicesSound(rec.slices, Shifts)
        /\ Spent(rec.slices, Shifts, prev.time, CreditEnd(prev.time, m.time), prev.running, prev.manual)
    BY <2>1 DEF SnapshotBooks
  <2>3. Message(rec) = m
    BY <2>2 DEF Message
  <2>4. KeptWhereSold => Accounted(new, n + 1)
    <3> SUFFICES ASSUME KeptWhereSold  PROVE Accounted(new, n + 1)
      OBVIOUS
    <3>1. /\ prev.time = TimeOf(new, p)
          /\ p # 0 => prev.running = Message(new[p]).running /\ prev.manual = Message(new[p]).manual
      BY <1>4, <1>8 DEF Clocked
    <3>2. LastIn(new, rec.company, (n + 1) - 1) = p
      BY <1>3, <1>4, <2>2
    <3>3. CASE p # 0
      BY <1>1, <1>9, <1>12, <2>2, <2>3, <3>1, <3>2, <3>3 DEF Accounted
    <3>4. CASE p = 0
      <4>1. prev.time = 0 /\ CreditEnd(prev.time, m.time) = 0
        BY <3>1, <3>4 DEF TimeOf, CreditEnd
      <4>2. NoTime(rec.slices)
        BY <2>2, <4>1, NoneBefore
      <4> QED  BY <1>1, <1>12, <2>2, <2>3, <3>1, <3>2, <3>4, <4>2 DEF Accounted
    <3> QED  BY <3>3, <3>4
  <2>5. Clocked(new, rec.state, company, n + 1)
    <3>1. LastIn(new, company, n + 1) = n + 1
      <4>1. LastIn(new, company, n + 1)
              = IF new[n + 1].kind = "raw" /\ new[n + 1].company = company THEN n + 1 ELSE LastIn(new, company, (n + 1) - 1)
        BY <1>1, <1>3, LastInSteps
      <4> QED  BY <1>1, <2>2, <4>1
    <3>2. n + 1 # 0
      BY <1>1
    <3> QED  BY <1>1, <2>2, <2>3, <3>1, <3>2 DEF Clocked, TimeOf
  <2>6. RecordBooked(new, n + 1)
    BY <1>1, <1>2, <1>6, <1>9, <1>12, <2>2, <2>3, <2>4, <2>5 DEF RecordBooked
  <2> QED  BY <2>2, <2>6 DEF new, n
<1> QED  BY <1>10, <1>11, <1>12 DEF Admissible

-----------------------------------------------------------------------------
(* The tables, and what a step leaves.                                     *)

(* What the records from one to another have in the tables are finitely    *)
(* many slices, each of naturals,                                          *)
LEMMA PlacedAreSound ==
  ASSUME JournalBooked
  PROVE  /\ \A a \in Nat \ {0}, b \in 0..Len(log) : PlacedSound(Placed(a, b))
         /\ PlacedSound(Placed(1, done))
<1>1. DOMAIN log = 1..Len(log) /\ Len(log) \in Nat /\ done \in 0..Len(log)
  BY DEF JournalBooked
<1>2. ASSUME NEW a \in Nat \ {0}, NEW b \in 0..Len(log)  PROVE PlacedSound(Placed(a, b))
  <2> DEFINE places == a..b
             of == [i \in places |-> {i} \X log[i].slices]
             parts == {of[i] : i \in places}
  <2>1. \A i \in places : SlicesSound(log[i].slices, scene.shifts[log[i].company])
    BY <1>1 DEF JournalBooked, RecordBooked
  <2>2. \A i \in places : IsFiniteSet(of[i])
    <3>1. ASSUME NEW i \in places  PROVE IsFiniteSet(of[i])
      <4>1. IsFiniteSet({i}) /\ IsFiniteSet(log[i].slices)
        BY <2>1, FS_Singleton DEF SlicesSound
      <4>2. IsFiniteSet({i} \X log[i].slices)
        BY <4>1, FS_Product
      <4> QED  BY <4>2
    <3> QED  BY <3>1
  <2>3. IsFiniteSet(places)
    <3>1. a \in Int /\ b \in Int
      BY <1>1
    <3> QED  BY <3>1, FS_Interval
  <2>4. Placed(a, b) = UNION parts
    BY DEF Placed
  <2>5. ASSUME NEW p \in Placed(a, b), NEW q \in Quantities  PROVE p[2][q] \in Nat
    <3>1. PICK i \in places : p \in {i} \X log[i].slices
      BY DEF Placed
    <3>2. p[2] \in log[i].slices
      BY <3>1
    <3>3. SliceSound(p[2], scene.shifts[log[i].company])
      BY <2>1, <3>2 DEF SlicesSound
    <3> QED  BY <3>3 DEF SliceSound
  <2>6. IsFiniteSet(parts)
    <3>1. DOMAIN of = places /\ of = [i \in places |-> of[i]]
      OBVIOUS
    <3> HIDE DEF of, places
    <3> QED  BY <2>3, <3>1, ImageFinite
  <2>7. \A T \in parts : IsFiniteSet(T)
    <3> HIDE DEF of
    <3> QED  BY <2>2
  <2> HIDE DEF parts
  <2>8. IsFiniteSet(Placed(a, b))
    BY <2>4, <2>6, <2>7, FS_UNION
  <2> QED  BY <2>5, <2>8 DEF PlacedSound
<1> QED  BY <1>1, <1>2

(* and those of a batch are others than those before it.                   *)
LEMMA PlacedNext ==
  ASSUME JournalBooked, NEW n \in Nat, done + n <= Len(log)
  PROVE  /\ Placed(1, done) \cap Placed(done + 1, done + n) = {}
         /\ Placed(1, done) \cup Placed(done + 1, done + n) = Placed(1, done + n)
<1>1. Len(log) \in Nat /\ done \in Nat
  BY DEF JournalBooked
<1>2. \A a, b, p : p \in Placed(a, b) <=> \E i \in a..b : p \in {i} \X log[i].slices
  BY DEF Placed
<1>3. \A a, b, p : p \in Placed(a, b) => p[1] \in a..b
  BY <1>2
<1>4. \A i \in 1..done : ~(i \in (done + 1)..(done + n))
  BY <1>1
<1>5. \A i : i \in 1..(done + n) <=> i \in 1..done \/ i \in (done + 1)..(done + n)
  BY <1>1
<1>6. Placed(1, done) \cap Placed(done + 1, done + n) = {}
  BY <1>3, <1>4
<1>7. \A p : p \in Placed(1, done + n) <=> p \in Placed(1, done) \/ p \in Placed(done + 1, done + n)
  BY <1>2, <1>5
<1> QED  BY <1>6, <1>7

(* An alarm row that ends does so no earlier than it began.                *)
RowsEnd(rows) == \A row \in rows : DOMAIN row = RowFields /\ (row.ended = Open \/ row.ended >= row.started)

(* So it is after a transition.                                            *)
LEMMA TransitionEnds ==
  ASSUME NEW table, NEW t, RowsEnd(table.rows)
  PROVE  RowsEnd(WriteAlarmTransition(table, t).rows)
<1>1. ASSUME NEW row, DOMAIN row = RowFields, row.ended = Open \/ row.ended >= row.started
      PROVE  /\ DOMAIN Kept(row, t) = RowFields
             /\ Kept(row, t).ended = Open \/ Kept(row, t).ended >= Kept(row, t).started
  <2> DEFINE mid == Closed(row, t)
  <2>1. /\ DOMAIN mid = RowFields /\ mid.started = row.started
        /\ mid.ended = row.ended \/ (row.started <= t.at /\ mid.ended = t.at)
    BY <1>1 DEF Closed, OpenFor, RowFields
  <2> HIDE DEF mid
  <2>2. /\ DOMAIN Continued(mid, t) = RowFields /\ Continued(mid, t).started = mid.started
        /\ Continued(mid, t).ended = mid.ended
    BY <2>1 DEF Continued, RowFields
  <2> QED  BY <1>1, <2>1, <2>2 DEF Kept, mid
<1>2. ASSUME NEW row, DOMAIN row = RowFields
      PROVE  /\ DOMAIN Reprioritised(row, t) = RowFields
             /\ Reprioritised(row, t).started = row.started /\ Reprioritised(row, t).ended = row.ended
  BY <1>2 DEF Reprioritised, RowFields
<1>3. \A key : DOMAIN OpenedRow(t, key) = RowFields /\ OpenedRow(t, key).ended = Open
  BY DEF OpenedRow, RowFields
<1> DEFINE kept == {Kept(row, t) : row \in table.rows}
           opened == {OpenedRow(t, key) : key \in {k \in t.opens : MayOpen(kept, t, k)}}
<1>4. WriteAlarmTransition(table, t).rows = {Reprioritised(row, t) : row \in kept} \cup opened
  BY DEF WriteAlarmTransition, Kept
<1>5. RowsEnd(kept)
  BY <1>1 DEF RowsEnd
<1>6. RowsEnd(opened)
  BY <1>3 DEF RowsEnd
<1> HIDE DEF kept, opened
<1>7. RowsEnd({Reprioritised(row, t) : row \in kept})
  BY <1>2, <1>5 DEF RowsEnd
<1> QED  BY <1>4, <1>6, <1>7 DEF RowsEnd

(* So it is after a batch.                                                 *)
LEMMA BatchEnds ==
  ASSUME NEW table, RowsEnd(table.rows), NEW batch, NEW n \in Nat, DOMAIN batch = 1..n
  PROVE  RowsEnd(WriteAlarms(table, batch).rows)
<1>1. PICK after : WrittenInOrder(after, table, batch, n)
  BY BatchInOrder
<1> DEFINE Wrong == {i \in 0..n : ~RowsEnd(after[i].rows)}
<1>2. Wrong = {}
  <2> SUFFICES ASSUME Wrong # {}  PROVE FALSE
    OBVIOUS
  <2>1. PICK i \in Wrong : \A x \in Wrong : i <= x
    <3>1. Wrong \in SUBSET Nat
      OBVIOUS
    <3> HIDE DEF Wrong
    <3> QED  BY <3>1, LeastExists
  <2>2. i \in 0..n /\ ~RowsEnd(after[i].rows)
    BY <2>1
  <2>3. i # 0
    BY <1>1, <2>2 DEF WrittenInOrder
  <2>4. i \in 1..n /\ i - 1 \in 0..n /\ i - 1 \notin Wrong
    BY <2>1, <2>2, <2>3
  <2>5. RowsEnd(after[i - 1].rows)
    BY <2>4
  <2>6. after[i] = WriteAlarmTransition(after[i - 1], batch[i].alarm)
    BY <1>1, <2>4 DEF WrittenInOrder
  <2> HIDE DEF Wrong
  <2> QED  BY <2>2, <2>5, <2>6, TransitionEnds
<1>3. n \in 0..n
  OBVIOUS
<1>4. RowsEnd(after[n].rows)
  BY <1>2, <1>3
<1> HIDE DEF Wrong
<1> QED  BY <1>1, <1>4 DEF WrittenInOrder

-----------------------------------------------------------------------------
(* A state no reading has been accepted for.                               *)
LEMMA NullTyped == StateTyped(NullState) /\ NullState.company = NoCompany
<1>1. NullState.time = 0 /\ NullState.base = NoCount /\ NullState.meter = NoMeter
  BY DEF NullState
<1>2. NullState.running = FALSE /\ NullState.manual = FALSE /\ NullState.company = NoCompany
  BY DEF NullState
<1>3. NullState.running \in BOOLEAN /\ NullState.manual \in BOOLEAN
  BY <1>2
<1>4. NullState.time \in Nat /\ NullState.base \in Nat \cup {NoCount}
  BY <1>1
<1>5. NullState.meter.meter \in Nat /\ NullState.meter.at \in Nat
  BY <1>1 DEF NoMeter
<1> QED  BY <1>2, <1>3, <1>4, <1>5 DEF StateTyped

(* Nothing has been said yet.                                              *)
LEMMA BookInit ==
  ASSUME LedgerAssumption, Init
  PROVE  BookInv
<1>1. /\ scene \in Scenes /\ company = scene.owner /\ known = FALSE /\ state = NullState /\ seen = {}
      /\ log = <<>> /\ done = 0 /\ lost = 0 /\ hourly = <<>> /\ alarms.rows = {}
  BY DEF Init, NoAlarmRows
<1>2. company \in DOMAIN scene.shifts /\ scene.most \in Nat
  BY <1>1 DEF LedgerAssumption
<1>3. Len(log) = 0 /\ DOMAIN log = 1..0 /\ log \in Seq(Range(log))
  BY <1>1
<1>4. JournalBooked
  BY <1>1, <1>2, <1>3 DEF JournalBooked
<1>5. StateTyped(NullState) /\ NullState.company = NoCompany
  BY NullTyped
<1>6. ProcessBooked
  <2>1. known \in BOOLEAN /\ ~known
    BY <1>1
  <2>2. \A i \in (lost + 1)..Len(log) : FALSE
    BY <1>1, <1>3
  <2>3. StateTyped(state) /\ state.company = NoCompany /\ seen \subseteq DOMAIN scene.messages /\ lost = 0
    BY <1>1, <1>5
  <2>4. \A i \in (lost + 1)..Len(log) : log[i].kind = "late"
    BY <2>2
  <2> QED  BY <2>1, <2>3, <2>4 DEF ProcessBooked
<1>7. HourlyBooked
  <2>1. Placed(1, done) = {}
    BY <1>1 DEF Placed
  <2> QED  BY <1>1, <2>1, RowsOfNone DEF HourlyBooked
<1>8. AlarmsEnd
  BY <1>1 DEF AlarmsEnd
<1> QED  BY <1>4, <1>6, <1>7, <1>8, MeterInit DEF BookInv

(* One record more: the journal,                                           *)
LEMMA JournalAdmits ==
  ASSUME JournalBooked, LedgerAssumption, scene' = scene, company' = company, done' = done, lost' = lost,
         NEW rec, log' = Append(log, rec), Len(log) < scene.most,
         rec.company = company, RecordBooked(Append(log, rec), Len(log) + 1)
  PROVE  JournalBooked'
<1> DEFINE new == Append(log, rec)
           n   == Len(log)
<1>1. /\ n \in Nat /\ DOMAIN log = 1..n /\ Len(new) = n + 1 /\ DOMAIN new = 1..(n + 1) /\ new[n + 1] = rec
      /\ \A i \in 1..n : new[i] = log[i]
      /\ new \in Seq(Range(new))
  BY GrowsByOne DEF JournalBooked
<1>2. RecordBooked(new, n + 1) /\ log' = new
  OBVIOUS
<1>3. /\ done \in 0..n /\ lost \in 0..done
      /\ \A i \in 1..n : RecordBooked(log, i) /\ log[i].company \in {scene.owner, company}
  BY DEF JournalBooked
<1>4. n + 1 <= scene.most
  <2>1. scene.most \in Int /\ n < scene.most
    BY DEF JournalBooked, LedgerAssumption
  <2> HIDE DEF n
  <2> QED  BY <1>1, <2>1
<1> HIDE DEF new, n
<1>5. ASSUME NEW i \in 1..(n + 1)
      PROVE  RecordBooked(new, i) /\ new[i].company \in {scene.owner, company}
  <2>1. CASE i = n + 1
    BY <1>1, <1>2, <2>1
  <2>2. CASE i # n + 1
    <3>1. i \in 1..n /\ n + 1 \in Nat /\ n <= n + 1
      BY <1>1, <2>2
    <3>2. RecordBooked(log, i)
      BY <1>3, <3>1
    <3>3. RecordBooked(new, i)
      BY <1>1, <3>1, <3>2, BookedPrefix
    <3> QED  BY <1>1, <1>3, <3>1, <3>3
  <2> QED  BY <2>1, <2>2
<1>6. \A i \in 1..(n + 1) : RecordBooked(log, i)'
  BY <1>2, <1>5, BookedNext
<1>7. log' \in Seq(Range(log')) /\ Len(log') = n + 1 /\ done' \in 0..Len(log')
  BY <1>1, <1>2, <1>3
<1> QED  BY <1>2, <1>3, <1>4, <1>5, <1>6, <1>7 DEF JournalBooked

(* the tables,                                                             *)
LEMMA RowsStay ==
  ASSUME JournalBooked, HourlyBooked, AlarmsEnd, UNCHANGED <<hourly, alarms, done>>,
         \/ log' = log
         \/ \E rec : log' = Append(log, rec)
  PROVE  HourlyBooked' /\ AlarmsEnd'
<1>1. done \in 0..Len(log) /\ Len(log) \in Nat
  BY DEF JournalBooked
<1>2. \A i \in 1..done : log'[i] = log[i]
  <2>1. CASE log' = log
    BY <2>1
  <2>2. ASSUME NEW rec, log' = Append(log, rec)  PROVE \A i \in 1..done : log'[i] = log[i]
    <3>1. \A i \in 1..Len(log) : Append(log, rec)[i] = log[i]
      BY GrowsByOne DEF JournalBooked
    <3> QED  BY <1>1, <2>2, <3>1
  <2> QED  BY <2>1, <2>2
<1>3. Placed(1, done)' = Placed(1, done)
  BY <1>2 DEF Placed
<1>4. HourlyBooked'
  BY <1>3 DEF HourlyBooked
<1> QED  BY <1>4 DEF AlarmsEnd

(* and what the process may then know.                                     *)
LEMMA ProcessKnows ==
  ASSUME ProcessBooked, known' = TRUE, scene' = scene, company' = company, lost' = lost,
         seen' \subseteq DOMAIN scene.messages,
         StateTyped(state'), state'.company \in {NoCompany, company},
         KeptWhereSold => Clocked(log', state', company, Len(log')),
         KeptWhereSold /\ state'.company = NoCompany /\ "loses" \notin scene.flags => state'.time = 0
  PROVE  ProcessBooked'
<1>1. Belongs(state)'
  BY DEF Belongs
<1>2. known' \in BOOLEAN /\ state'.company \in {NoCompany, scene'.owner, company'}
  OBVIOUS
<1>3. "loses" \notin scene'.flags => lost' = 0
  BY DEF ProcessBooked
<1>4. KeptWhereSold => Clocked(log, state, company, Len(log))'
  BY ClockedNext
<1>5. StateTyped(state)' /\ (seen \subseteq DOMAIN scene.messages)'
  OBVIOUS
<1>6. KeptWhereSold /\ known' /\ state'.company = NoCompany /\ "loses" \notin scene'.flags => state'.time = 0
  OBVIOUS
<1> QED  BY <1>1, <1>2, <1>3, <1>4, <1>5, <1>6 DEF ProcessBooked

-----------------------------------------------------------------------------
(* The steps.                                                              *)

(* A late record, of a message too old for anything else.                  *)
LEMMA BookStale ==
  ASSUME BookInv, LedgerAssumption, MeterInv', NEW i \in DOMAIN scene.messages, Stale(i)
  PROVE  BookInv'
<1> DEFINE rec == LateRecord(i)
           new == Append(log, rec)
<1>1. /\ log' = new /\ Len(log) < scene.most /\ scene' = scene /\ company' = company
      /\ known' = known /\ state' = state /\ lost' = lost /\ done' = done /\ alarms' = alarms /\ hourly' = hourly
      /\ seen' = seen \cup {i}
  BY DEF Stale, Admit, inputVars, databaseVars
<1>2. JournalBooked /\ ProcessBooked /\ HourlyBooked /\ AlarmsEnd /\ MeterInv
  BY DEF BookInv
<1>3. /\ StateTyped(Baseline)
      /\ KeptWhereSold => Clocked(log, Baseline, company, Len(log))
  BY <1>2, BaselineBooked
<1>4. Admissible(rec, i, Baseline) /\ rec.kind = "late"
  BY DEF Admissible, LateRecord, Record
<1>5. /\ rec.company = company /\ RecordBooked(new, Len(log) + 1)
      /\ KeptWhereSold => Clocked(new, Baseline, company, Len(log) + 1)
  BY <1>2, <1>3, <1>4, RecordBooks
<1>6. /\ Len(log) \in Nat /\ Len(new) = Len(log) + 1 /\ DOMAIN log = 1..Len(log)
      /\ DOMAIN new = 1..(Len(log) + 1) /\ new[Len(log) + 1] = rec
      /\ \A j \in 1..Len(log) : new[j] = log[j]
  BY <1>2, GrowsByOne DEF JournalBooked
<1>7. JournalBooked'
  <2> HIDE DEF rec
  <2> QED  BY <1>1, <1>2, <1>5, JournalAdmits
<1>8. HourlyBooked' /\ AlarmsEnd'
  BY <1>1, <1>2, RowsStay
<1> HIDE DEF rec, new
<1>9. ProcessBooked'
  <2>1. ~known' => \A j \in (lost' + 1)..Len(log') : log'[j].kind = "late"
    <3>1. ASSUME ~known, NEW j \in (lost + 1)..Len(new)  PROVE new[j].kind = "late"
      <4>1. lost \in Nat
        BY <1>2 DEF JournalBooked
      <4>2. CASE j = Len(log) + 1
        BY <1>4, <1>6, <4>2
      <4>3. CASE j # Len(log) + 1
        <5>1. j \in (lost + 1)..Len(log) /\ j \in 1..Len(log)
          BY <1>6, <3>1, <4>1, <4>3
        <5> QED  BY <1>2, <1>6, <3>1, <5>1 DEF ProcessBooked
      <4> QED  BY <4>2, <4>3
    <3> QED  BY <1>1, <3>1
  <2>2. KeptWhereSold /\ known' /\ Belongs(state)' => Clocked(log, state, company, Len(log))'
    <3>1. KeptWhereSold /\ known /\ Belongs(state) => Clocked(new, state, company, Len(new))
      BY <1>5, <1>6 DEF Baseline
    <3>2. Belongs(state)' <=> Belongs(state)
      BY <1>1 DEF Belongs
    <3>3. Clocked(log, state, company, Len(log))' <=> Clocked(new, state, company, Len(new))
      BY <1>1, ClockedNext
    <3> QED  BY <1>1, <3>1, <3>2, <3>3
  <2>3. known' /\ ~Belongs(state)' => Places(log', company') = {}
    <3>1. ASSUME known, ~Belongs(state), NEW j \in Places(new, company)  PROVE FALSE
      <4>1. j \in 1..(Len(log) + 1) /\ new[j].kind = "raw" /\ new[j].company = company
        BY <1>6, <3>1 DEF Places
      <4>2. j \in 1..Len(log)
        BY <1>4, <1>6, <4>1
      <4>3. j \in Places(log, company)
        BY <1>6, <4>1, <4>2 DEF Places
      <4> QED  BY <1>2, <3>1, <4>3 DEF ProcessBooked
    <3> QED  BY <1>1, <3>1 DEF Belongs
  <2>4. /\ known' \in BOOLEAN /\ ("loses" \notin scene'.flags => lost' = 0)
        /\ seen' \subseteq DOMAIN scene'.messages
        /\ StateTyped(state') /\ state'.company \in {NoCompany, scene'.owner, company'}
        /\ KeptWhereSold /\ known' /\ state'.company = NoCompany /\ "loses" \notin scene'.flags => state'.time = 0
    BY <1>1, <1>2 DEF ProcessBooked
  <2>5. StateTyped(state)'
    BY <2>4
  <2> QED  BY <2>1, <2>2, <2>3, <2>4, <2>5 DEF ProcessBooked
<1> QED  BY <1>7, <1>8, <1>9 DEF BookInv

(* A message that is handled: late, repeated, or accepted.                 *)
LEMMA BookHandle ==
  ASSUME BookInv, LedgerAssumption, MeterInv', NEW i \in DOMAIN scene.messages, Handle(i)
  PROVE  BookInv'
<1> DEFINE m    == scene.messages[i]
           prev == Baseline
<1>1. /\ scene' = scene /\ company' = company /\ known' = TRUE
      /\ lost' = lost /\ done' = done /\ alarms' = alarms /\ hourly' = hourly
  BY DEF Handle, inputVars, databaseVars
<1>2. JournalBooked /\ ProcessBooked /\ HourlyBooked /\ AlarmsEnd /\ MeterInv
  BY DEF BookInv
<1>3. /\ StateTyped(prev) /\ prev.company \in {NoCompany, company}
      /\ KeptWhereSold => Clocked(log, prev, company, Len(log))
      /\ KeptWhereSold /\ prev.company = NoCompany /\ "loses" \notin scene.flags => prev.time = 0
  BY <1>2, BaselineBooked
<1>4. \/ /\ Admit(LateRecord(i)) /\ state' = prev /\ seen' = seen \cup {i}
      \/ log' = log /\ state' = prev /\ seen' = seen
      \/ /\ m.time >= LastTime(prev, m)
         /\ Admit(IF m.packet THEN PacketRecord(prev, i) ELSE SnapshotRecord(prev, i))
         /\ state' = Last(log').state /\ seen' = seen \cup {i}
  BY DEF Handle
<1>5. MessageSound(m)
  BY <1>2 DEF JournalBooked, LedgerAssumption
<1>6. company # NoCompany
  BY <1>2 DEF JournalBooked, LedgerAssumption, ShiftsSound
<1>7. seen' \subseteq DOMAIN scene.messages
  BY <1>2, <1>4 DEF ProcessBooked
<1> HIDE DEF prev
<1>8. CASE Admit(LateRecord(i)) /\ state' = prev /\ seen' = seen \cup {i}
  <2> DEFINE rec == LateRecord(i)
             new == Append(log, rec)
  <2>1. log' = new /\ Len(log) < scene.most
    BY <1>8 DEF Admit
  <2>2. Admissible(rec, i, prev) /\ rec.kind = "late"
    BY DEF Admissible, LateRecord, Record
  <2>3. /\ rec.company = company /\ RecordBooked(new, Len(log) + 1)
        /\ KeptWhereSold => Clocked(new, prev, company, Len(log) + 1)
    BY <1>2, <1>3, <2>2, RecordBooks
  <2>4. Len(new) = Len(log) + 1
    BY <1>2, GrowsByOne DEF JournalBooked
  <2> HIDE DEF rec
  <2>5. JournalBooked'
    BY <1>1, <1>2, <2>1, <2>3, JournalAdmits
  <2>6. HourlyBooked' /\ AlarmsEnd'
    BY <1>1, <1>2, <2>1, RowsStay
  <2>7. KeptWhereSold => Clocked(log', state', company, Len(log'))
    BY <1>8, <2>1, <2>3, <2>4
  <2>8. ProcessBooked'
    BY <1>1, <1>2, <1>3, <1>7, <1>8, <2>7, ProcessKnows
  <2> QED  BY <2>5, <2>6, <2>8 DEF BookInv
<1>9. CASE log' = log /\ state' = prev /\ seen' = seen
  <2>1. JournalBooked'
    <3>1. \A j : RecordBooked(log, j) => RecordBooked(log, j)'
      BY <1>1, <1>9, BookedNext
    <3> QED  BY <1>1, <1>2, <1>9, <3>1 DEF JournalBooked
  <2>2. HourlyBooked' /\ AlarmsEnd'
    BY <1>1, <1>2, <1>9, RowsStay
  <2>3. KeptWhereSold => Clocked(log', state', company, Len(log'))
    BY <1>3, <1>9
  <2>4. ProcessBooked'
    BY <1>1, <1>2, <1>3, <1>7, <1>9, <2>3, ProcessKnows
  <2> QED  BY <2>1, <2>2, <2>4 DEF BookInv
<1>10. CASE /\ m.time >= LastTime(prev, m)
            /\ Admit(IF m.packet THEN PacketRecord(prev, i) ELSE SnapshotRecord(prev, i))
            /\ state' = Last(log').state /\ seen' = seen \cup {i}
  <2> DEFINE rec == IF m.packet THEN PacketRecord(prev, i) ELSE SnapshotRecord(prev, i)
             new == Append(log, rec)
  <2>1. Admissible(rec, i, prev)
    <3>1. CASE m.packet
      BY <3>1 DEF Admissible
    <3>2. CASE ~m.packet
      <4>1. LastTime(prev, m) = prev.time
        BY <3>2 DEF LastTime
      <4>2. prev.time <= m.time
        BY <1>3, <1>5, <1>10, <4>1 DEF StateTyped, MessageSound
      <4> QED  BY <3>2, <4>2 DEF Admissible
    <3> QED  BY <1>5, <3>1, <3>2 DEF MessageSound
  <2>2. rec.kind # "late"
    BY DEF PacketRecord, SnapshotRecord, Record
  <2>3. log' = new /\ Len(log) < scene.most /\ state' = Last(new).state
    BY <1>10 DEF Admit
  <2> HIDE DEF rec
  <2>4. rec.company = company /\ RecordBooked(new, Len(log) + 1)
    BY <1>2, <1>3, <2>1, RecordBooks
  <2>5. /\ Len(log) \in Nat /\ Len(new) = Len(log) + 1 /\ new[Len(log) + 1] = rec
    BY <1>2, GrowsByOne DEF JournalBooked
  <2>6. state' = rec.state
    BY <2>3, <2>5 DEF Last
  <2>7. JournalBooked'
    BY <1>1, <1>2, <2>3, <2>4, JournalAdmits
  <2>8. HourlyBooked' /\ AlarmsEnd'
    BY <1>1, <1>2, <2>3, RowsStay
  <2>9. /\ StateTyped(state') /\ state'.company = company
        /\ KeptWhereSold => Clocked(log', state', company, Len(log'))
    <3> HIDE DEF new
    <3>1. /\ rec.state.company = rec.company /\ StateTyped(rec.state)
          /\ KeptWhereSold => Clocked(new, rec.state, rec.company, Len(log) + 1)
      BY <2>2, <2>4, <2>5 DEF RecordBooked
    <3> QED  BY <2>3, <2>4, <2>5, <2>6, <3>1
  <2>10. ProcessBooked'
    BY <1>1, <1>2, <1>6, <1>7, <2>9, ProcessKnows
  <2> QED  BY <2>7, <2>8, <2>10 DEF BookInv
<1> QED  BY <1>4, <1>8, <1>9, <1>10

(* A batch is written.                                                     *)
LEMMA BookWrite ==
  ASSUME BookInv, MeterInv', NEW n \in 1..scene.most, Write(n)
  PROVE  BookInv'
<1> DEFINE batch == SubSeq(log, done + 1, done + n)
<1>1. /\ scene' = scene /\ company' = company /\ known' = known /\ state' = state /\ seen' = seen
      /\ log' = log /\ lost' = lost
      /\ done' = done + n /\ n >= 1 /\ done + n <= Len(log)
      /\ hourly' = Upserted(hourly, SumSlices(Placed(done + 1, done + n)))
      /\ alarms' = WriteAlarms(alarms, batch)
  BY DEF Write, inputVars, processVars
<1>2. JournalBooked /\ ProcessBooked /\ HourlyBooked /\ AlarmsEnd /\ MeterInv
  BY DEF BookInv
<1>3. /\ n \in Nat /\ done \in 0..Len(log) /\ lost \in 0..done /\ Len(log) \in Nat /\ log \in Seq(Range(log))
  BY <1>1, <1>2 DEF JournalBooked
<1>4. JournalBooked'
  <2>1. \A j : RecordBooked(log, j) => RecordBooked(log, j)'
    BY <1>1, BookedNext
  <2>2. done' \in 0..Len(log') /\ lost' \in 0..done'
    BY <1>1, <1>3
  <2> QED  BY <1>1, <1>2, <2>1, <2>2 DEF JournalBooked
<1>5. ProcessBooked'
  <2>1. Clocked(log, state, company, Len(log))' <=> Clocked(log, state, company, Len(log))
    BY <1>1, ClockedNext
  <2>2. (Belongs(state)' <=> Belongs(state)) /\ (StateTyped(state)' <=> StateTyped(state))
    BY <1>1 DEF Belongs
  <2> QED  BY <1>1, <1>2, <2>1, <2>2 DEF ProcessBooked
<1>6. HourlyBooked'
  <2> DEFINE A == Placed(1, done)
             B == Placed(done + 1, done + n)
  <2>1. PlacedSound(A) /\ PlacedSound(B)
    <3>1. done + 1 \in Nat \ {0} /\ done + n \in 0..Len(log)
      BY <1>1, <1>3
    <3> QED  BY <1>2, <3>1, PlacedAreSound
  <2>2. A \cap B = {} /\ A \cup B = Placed(1, done + n)
    BY <1>1, <1>2, <1>3, PlacedNext
  <2>3. hourly = SumSlices(A) /\ hourly' = Upserted(hourly, SumSlices(B))
    BY <1>1, <1>2 DEF HourlyBooked
  <2>4. Placed(1, done)' = Placed(1, done + n)
    BY <1>1 DEF Placed
  <2> HIDE DEF A, B
  <2>5. hourly' = SumSlices(A \cup B)
    BY <2>1, <2>2, <2>3, UpsertsAdd
  <2> QED  BY <2>2, <2>4, <2>5 DEF HourlyBooked
<1>7. AlarmsEnd'
  <2>1. DOMAIN batch = 1..n
    BY <1>1, <1>3
  <2> HIDE DEF batch
  <2>2. RowsEnd(alarms.rows)
    BY <1>2 DEF AlarmsEnd, RowsEnd
  <2>3. RowsEnd(alarms'.rows)
    BY <1>1, <1>3, <2>1, <2>2, BatchEnds
  <2> QED  BY <2>3 DEF AlarmsEnd, RowsEnd
<1> QED  BY <1>4, <1>5, <1>6, <1>7 DEF BookInv

(* The same journal and tables are as sound as they were.                  *)
LEMMA BooksStay ==
  ASSUME JournalBooked, HourlyBooked, AlarmsEnd, scene' = scene, log' = log, done' = done,
         hourly' = hourly, alarms' = alarms, lost' \in 0..done,
         \/ company' = company
         \/ company = scene.owner /\ company' \in DOMAIN scene.shifts
  PROVE  JournalBooked' /\ HourlyBooked' /\ AlarmsEnd'
<1>1. \A j : RecordBooked(log, j) => RecordBooked(log, j)'
  BY BookedNext
<1>2. JournalBooked'
  BY <1>1 DEF JournalBooked
<1> QED  BY <1>2, RowsStay

(* A restart: the last state of the journal is of its last reading.        *)
LEMMA BookRestart ==
  ASSUME BookInv, LedgerAssumption, MeterInv', Restart
  PROVE  BookInv'
<1> DEFINE kept == {i \in (lost + 1)..Len(log) : log[i].kind # "late"}
<1>1. /\ scene' = scene /\ company' = company /\ log' = log /\ lost' = lost /\ done' = done
      /\ alarms' = alarms /\ hourly' = hourly /\ seen' = {}
      /\ \/ kept = {} /\ known' = FALSE /\ state' = NullState
         \/ kept # {} /\ known' = TRUE /\ state' = log[Max(kept)].state
  BY DEF Restart, inputVars, databaseVars
<1>2. JournalBooked /\ ProcessBooked /\ HourlyBooked /\ AlarmsEnd
  BY DEF BookInv
<1>3. /\ DOMAIN log = 1..Len(log) /\ Len(log) \in Nat /\ done \in 0..Len(log) /\ lost \in 0..done
  BY <1>2 DEF JournalBooked
<1>4. JournalBooked' /\ HourlyBooked' /\ AlarmsEnd'
  BY <1>1, <1>2, <1>3, BooksStay
<1>5. CASE kept = {} /\ known' = FALSE /\ state' = NullState
  <2>1. \A i \in (lost + 1)..Len(log) : log[i].kind = "late"
    BY <1>5
  <2>2. known' \in BOOLEAN /\ ~known' /\ seen' \subseteq DOMAIN scene'.messages
    BY <1>1, <1>5
  <2>3. "loses" \notin scene'.flags => lost' = 0
    BY <1>1, <1>2 DEF ProcessBooked
  <2>4. \A i \in (lost' + 1)..Len(log') : log'[i].kind = "late"
    BY <1>1, <2>1
  <2>5. StateTyped(state') /\ state'.company = NoCompany
    BY <1>5, NullTyped
  <2>6. StateTyped(state)' /\ state'.company \in {NoCompany, scene'.owner, company'}
    BY <2>5
  <2>7. ProcessBooked'
    BY <2>2, <2>3, <2>4, <2>6 DEF ProcessBooked
  <2> QED  BY <1>4, <2>7 DEF BookInv
<1>6. CASE kept # {} /\ known' = TRUE /\ state' = log[Max(kept)].state
  <2> DEFINE k == Max(kept)
  <2>1. k \in kept /\ \A x \in kept : x <= k
    <3>1. kept \in SUBSET (0..Len(log))
      BY <1>3
    <3> HIDE DEF kept
    <3> QED  BY <1>3, <1>6, <3>1, LastPlace
  <2>2. k \in 1..Len(log) /\ log[k].kind # "late"
    BY <1>3, <2>1
  <2>3. \A i \in (k + 1)..Len(log) : log[i].kind = "late"
    <3>1. ASSUME NEW i \in (k + 1)..Len(log)  PROVE log[i].kind = "late"
      <4>1. i \in (lost + 1)..Len(log) /\ ~(i <= k)
        BY <1>3, <2>1, <2>2
      <4>2. i \notin kept
        BY <2>1, <4>1
      <4> QED  BY <4>1, <4>2
    <3> QED  BY <3>1
  <2>4. state' = log[k].state
    BY <1>6
  <2> HIDE DEF k, kept
  <2>5. /\ RecordBooked(log, k) /\ log[k].company \in {scene.owner, company}
        /\ log[k].state.company = log[k].company /\ StateTyped(log[k].state)
        /\ log[k].company \in DOMAIN scene.shifts
        /\ KeptWhereSold => Clocked(log, log[k].state, log[k].company, k)
    BY <1>2, <2>2 DEF JournalBooked, RecordBooked
  <2>6. log[k].company # NoCompany
    BY <1>2, <2>5 DEF JournalBooked, LedgerAssumption, ShiftsSound
  <2>7. k \in 0..Len(log) /\ Len(log) \in 0..Len(log)
    BY <1>3, <2>2
  <2>8. \A i \in (k + 1)..Len(log) : ~(log[i].kind = "raw" /\ log[i].company = company)
    BY <2>3
  <2>9. CASE log[k].company = company
    <3>1. KeptWhereSold => Clocked(log, log[k].state, company, Len(log))
      BY <1>3, <2>5, <2>7, <2>8, <2>9, ClockedStays
    <3>2. /\ state'.company = company /\ company # NoCompany /\ StateTyped(state')
          /\ KeptWhereSold => Clocked(log', state', company, Len(log'))
      BY <1>1, <2>4, <2>5, <2>6, <2>9, <3>1
    <3>3. ProcessBooked'
      BY <1>1, <1>2, <1>6, <3>2, ProcessKnows
    <3> QED  BY <1>4, <3>3 DEF BookInv
  <2>10. CASE log[k].company # company
    <3>1. log[k].company = scene.owner
      BY <2>5, <2>10
    <3>2. Places(log, company) = {}
      <4>1. ASSUME NEW j \in Places(log, company)  PROVE FALSE
        <5>1. j \in 1..Len(log) /\ log[j].kind = "raw" /\ log[j].company = company
          BY <1>3, <4>1 DEF Places
        <5>2. j \in 1..k
          BY <1>3, <2>7, <2>8, <5>1
        <5>3. log[j].company # scene.owner => log[k].company = log[j].company
          BY <2>5, <5>2 DEF RecordBooked
        <5> QED  BY <2>10, <3>1, <5>1, <5>3
      <4> QED  BY <4>1
    <3>3. ~Belongs(state)' /\ state'.company = scene.owner /\ state'.company # NoCompany
      BY <1>1, <2>4, <2>5, <2>6, <2>10, <3>1 DEF Belongs
    <3>4. /\ known' \in BOOLEAN /\ known' /\ state'.company \in {NoCompany, scene'.owner, company'}
          /\ seen' \subseteq DOMAIN scene'.messages
      BY <1>1, <1>6, <3>3
    <3>5. "loses" \notin scene'.flags => lost' = 0
      BY <1>1, <1>2 DEF ProcessBooked
    <3>6. Places(log', company') = {} /\ StateTyped(state)'
      BY <1>1, <2>4, <2>5, <3>2
    <3>7. ProcessBooked'
      BY <3>3, <3>4, <3>5, <3>6 DEF ProcessBooked
    <3> QED  BY <1>4, <3>7 DEF BookInv
  <2> QED  BY <2>9, <2>10
<1> QED  BY <1>1, <1>5, <1>6

(* The journal is lost: there is nothing in it that is not in the tables.  *)
LEMMA BookLost ==
  ASSUME BookInv, MeterInv', JournalLost
  PROVE  BookInv'
<1>1. /\ scene' = scene /\ company' = company /\ log' = log /\ done' = done /\ alarms' = alarms /\ hourly' = hourly
      /\ lost' = done /\ done = Len(log) /\ known' = FALSE /\ state' = NullState /\ seen' = {}
      /\ "loses" \in scene.flags
  BY DEF JournalLost, inputVars, databaseVars
<1>2. JournalBooked /\ ProcessBooked /\ HourlyBooked /\ AlarmsEnd
  BY DEF BookInv
<1>3. Len(log) \in Nat /\ done \in Nat
  BY <1>2 DEF JournalBooked
<1>4. lost' \in 0..done
  BY <1>1, <1>3
<1>5. JournalBooked' /\ HourlyBooked' /\ AlarmsEnd'
  BY <1>1, <1>2, <1>4, BooksStay
<1>6. \A i \in (lost' + 1)..Len(log') : FALSE
  BY <1>1, <1>3
<1>7. known' \in BOOLEAN /\ ~known' /\ "loses" \in scene'.flags /\ seen' \subseteq DOMAIN scene'.messages
  BY <1>1
<1>8. StateTyped(state)' /\ state'.company \in {NoCompany, scene'.owner, company'}
  BY <1>1, NullTyped
<1>9. ProcessBooked'
  BY <1>6, <1>7, <1>8 DEF ProcessBooked
<1> QED  BY <1>5, <1>9 DEF BookInv

(* Another owner, of whom the journal says nothing.                        *)
LEMMA BookMove ==
  ASSUME BookInv, LedgerAssumption, MeterInv', Move
  PROVE  BookInv'
<1>1. /\ scene' = scene /\ known' = known /\ state' = state /\ seen' = seen /\ log' = log /\ lost' = lost
      /\ done' = done /\ alarms' = alarms /\ hourly' = hourly
      /\ "moves" \in scene.flags /\ company = scene.owner
      /\ company' \in DOMAIN scene.shifts /\ company' # company
  BY DEF Move, processVars, databaseVars
<1>2. JournalBooked /\ ProcessBooked /\ HourlyBooked /\ AlarmsEnd
  BY DEF BookInv
<1>3. DOMAIN log = 1..Len(log) /\ Len(log) \in Nat /\ scene \in Scenes /\ lost \in 0..done
  BY <1>2 DEF JournalBooked
<1>4. JournalBooked' /\ HourlyBooked' /\ AlarmsEnd'
  BY <1>1, <1>2, <1>3, BooksStay
<1>5. \A i \in 1..Len(log) : log[i].company # company'
  BY <1>1, <1>2 DEF JournalBooked
<1>6. company' # NoCompany
  BY <1>1, <1>3 DEF LedgerAssumption, ShiftsSound
<1>7. Places(log', company') = {}
  BY <1>1, <1>3, <1>5 DEF Places
<1>8. KeptWhereSold /\ known' /\ Belongs(state)' => Clocked(log, state, company, Len(log))'
  <2> SUFFICES ASSUME KeptWhereSold, known', Belongs(state)'  PROVE Clocked(log, state, company', Len(log))
    <3>1. Clocked(log, state, company, Len(log))' <=> Clocked(log, state, company', Len(log))
      BY <1>1, ClockedNext
    <3> QED  BY <3>1
  <2>1. state.company = NoCompany
    BY <1>1, <1>2, <1>6 DEF Belongs, ProcessBooked
  <2>2. "loses" \notin scene.flags
    BY <1>1, <1>3 DEF KeptWhereSold
  <2>3. state.time = 0
    BY <1>1, <1>2, <2>1, <2>2 DEF ProcessBooked
  <2>4. LastIn(log, company', Len(log)) = 0
    <3>1. Len(log) \in 0..Len(log)
      BY <1>3
    <3>2. \A c : LastIn(log, c, Len(log)) # 0 =>
            LastIn(log, c, Len(log)) \in 1..Len(log) /\ log[LastIn(log, c, Len(log))].company = c
      BY <1>3, <3>1, LastInBounds
    <3> QED  BY <1>5, <3>2
  <2> QED  BY <2>3, <2>4 DEF Clocked, TimeOf
<1>9. /\ known' \in BOOLEAN /\ ("loses" \notin scene'.flags => lost' = 0)
      /\ state'.company \in {NoCompany, scene'.owner, company'}
      /\ (~known' => \A i \in (lost' + 1)..Len(log') : log'[i].kind = "late")
      /\ seen' \subseteq DOMAIN scene'.messages
      /\ KeptWhereSold /\ known' /\ state'.company = NoCompany /\ "loses" \notin scene'.flags => state'.time = 0
  BY <1>1, <1>2 DEF ProcessBooked
<1>10. StateTyped(state)'
  BY <1>1, <1>2 DEF ProcessBooked
<1>11. ProcessBooked'
  BY <1>7, <1>8, <1>9, <1>10 DEF ProcessBooked
<1> QED  BY <1>4, <1>11 DEF BookInv

(* What changes none of it.                                                *)
LEMMA BookOther ==
  ASSUME BookInv, MeterInv', Age \/ UNCHANGED vars
  PROVE  BookInv'
<1>1. /\ scene' = scene /\ company' = company /\ known' = known /\ state' = state /\ seen' = seen
      /\ log' = log /\ lost' = lost /\ done' = done /\ alarms' = alarms /\ hourly' = hourly
  BY DEF Age, vars, inputVars, processVars, databaseVars
<1>2. JournalBooked /\ ProcessBooked /\ HourlyBooked /\ AlarmsEnd /\ lost \in 0..done
  BY DEF BookInv, JournalBooked
<1>3. JournalBooked' /\ HourlyBooked' /\ AlarmsEnd'
  BY <1>1, <1>2, BooksStay
<1>4. ProcessBooked'
  <2>1. Clocked(log, state, company, Len(log))' <=> Clocked(log, state, company, Len(log))
    BY <1>1, ClockedNext
  <2>2. (Belongs(state)' <=> Belongs(state)) /\ (StateTyped(state)' <=> StateTyped(state))
    BY <1>1 DEF Belongs
  <2> QED  BY <1>1, <1>2, <2>1, <2>2 DEF ProcessBooked
<1> QED  BY <1>3, <1>4 DEF BookInv

(* So it is an invariant, whatever the messages and the moves are.         *)
THEOREM BooksInvariant == Spec => []BookInv
<1>1. Init => BookInv
  BY BookInit, LedgerAssumption
<1>2. BookInv /\ [Next]_vars => BookInv'
  <2> SUFFICES ASSUME BookInv, [Next]_vars  PROVE BookInv'
    OBVIOUS
  <2>0. MeterInv'
    BY MeterStep, LedgerAssumption DEF BookInv
  <2>1. ASSUME NEW i \in DOMAIN scene.messages, Stale(i)  PROVE BookInv'
    BY <2>0, <2>1, LedgerAssumption, BookStale
  <2>2. ASSUME NEW i \in DOMAIN scene.messages, Handle(i)  PROVE BookInv'
    BY <2>0, <2>2, LedgerAssumption, BookHandle
  <2>3. ASSUME NEW n \in 1..scene.most, Write(n)  PROVE BookInv'
    BY <2>0, <2>3, BookWrite
  <2>4. CASE Restart
    BY <2>0, <2>4, LedgerAssumption, BookRestart
  <2>5. CASE JournalLost
    BY <2>0, <2>5, BookLost
  <2>6. CASE Move
    BY <2>0, <2>6, LedgerAssumption, BookMove
  <2>7. CASE Age \/ UNCHANGED vars
    BY <2>0, <2>7, BookOther
  <2> QED  BY <2>1, <2>2, <2>3, <2>4, <2>5, <2>6, <2>7 DEF Next
<1> QED  BY <1>1, <1>2, PTL DEF Spec

-----------------------------------------------------------------------------
(* Who tells of a second.                                                  *)

(* The readings of a company in the tables.                                *)
ReadingsOf(c) == Places(Written, c)
TimeAt(i)     == Message(log[i]).time

(* Of a company no reading is earlier than one before it.                  *)
LEMMA ReadingsOrdered ==
  ASSUME JournalBooked, LedgerAssumption, NEW c
  PROVE  /\ \A i : i \in ReadingsOf(c) <=> i \in 1..done /\ log[i].kind = "raw" /\ log[i].company = c
         /\ ReadingsOf(c) \in SUBSET (0..done)
         /\ \A i \in ReadingsOf(c) : TimeAt(i) \in Nat \ {0}
         /\ KeptWhereSold => \A i, j \in ReadingsOf(c) : j < i => TimeAt(j) <= TimeAt(i)
<1>1. DOMAIN log = 1..Len(log) /\ Len(log) \in Nat /\ done \in 0..Len(log) /\ done \in Nat
  BY DEF JournalBooked
<1>2. DOMAIN Written = 1..done /\ \A i \in 1..done : Written[i] = log[i]
  BY <1>1 DEF JournalBooked, Written
<1>3. \A i : i \in ReadingsOf(c) <=> i \in 1..done /\ log[i].kind = "raw" /\ log[i].company = c
  BY <1>2 DEF ReadingsOf, Places
<1>4. \A i \in ReadingsOf(c) : i \in 1..Len(log) /\ i \in Nat
  BY <1>1, <1>3
<1>5. ASSUME NEW i \in ReadingsOf(c)  PROVE TimeAt(i) \in Nat \ {0}
  <2>1. log[i].message \in DOMAIN scene.messages /\ scene \in Scenes
    BY <1>4 DEF JournalBooked, RecordBooked
  <2>2. MessageSound(scene.messages[log[i].message])
    BY <2>1 DEF LedgerAssumption
  <2> QED  BY <2>2 DEF MessageSound, TimeAt, Message
<1>6. ASSUME KeptWhereSold, NEW i \in ReadingsOf(c), NEW j \in ReadingsOf(c), j < i
      PROVE  TimeAt(j) <= TimeAt(i)
  <2> DEFINE Bad == {k \in ReadingsOf(c) : j < k /\ ~(TimeAt(j) <= TimeAt(k))}
  <2> SUFFICES ASSUME Bad # {}  PROVE FALSE
    BY <1>6
  <2>1. Bad \in SUBSET Nat
    BY <1>4
  <2>2. PICK k \in Bad : \A x \in Bad : k <= x
    <3> HIDE DEF Bad
    <3> QED  BY <2>1, LeastExists
  <2>3. k \in ReadingsOf(c) /\ j < k /\ ~(TimeAt(j) <= TimeAt(k))
    BY <2>2
  <2> DEFINE p == LastIn(log, c, k - 1)
  <2>4. k - 1 \in 0..Len(log) /\ j \in 1..(k - 1)
    BY <1>1, <1>3, <1>4, <2>3
  <2>5. /\ p \in 0..(k - 1) /\ j <= p
        /\ p # 0 => p \in 1..(k - 1) /\ log[p].kind = "raw" /\ log[p].company = c
    BY <1>1, <1>3, <2>4, LastInBounds
  <2>6. log[k].company = c /\ log[k].kind = "raw" /\ k \in 1..Len(log) /\ k \in 1..done
    BY <1>3, <1>4, <2>3
  <2>7. Accounted(log, k)
    BY <1>6, <2>6 DEF JournalBooked, RecordBooked
  <2>8. TimeOf(log, p) <= TimeAt(k)
    BY <2>6, <2>7 DEF Accounted, TimeAt
  <2> HIDE DEF p
  <2>9. p # 0 /\ p \in ReadingsOf(c) /\ p < k
    <3>1. p # 0 /\ p < k
      BY <1>1, <2>4, <2>5, <2>6
    <3>2. p \in 1..(k - 1) /\ k \in 1..done
      BY <2>5, <2>6, <3>1
    <3>3. p \in 1..done
      BY <1>1, <3>2
    <3> QED  BY <1>3, <2>5, <3>1, <3>3
  <2>10. TimeAt(p) <= TimeAt(k)
    BY <2>8, <2>9 DEF TimeOf, TimeAt
  <2>11. TimeAt(p) \in Nat /\ TimeAt(k) \in Nat /\ TimeAt(j) \in Nat
    BY <1>5, <2>3, <2>9
  <2>12. CASE p = j
    BY <2>3, <2>10, <2>12
  <2>13. CASE p # j
    <3>1. j < p /\ ~(k <= p)
      BY <1>4, <2>3, <2>5, <2>9, <2>13
    <3>2. p \notin Bad
      BY <2>2, <3>1
    <3>3. TimeAt(j) <= TimeAt(p)
      BY <2>9, <3>1, <3>2
    <3> QED  BY <2>3, <2>10, <2>11, <3>3
  <2> QED  BY <2>12, <2>13
<1>7. ReadingsOf(c) \in SUBSET (0..done)
  BY <1>3
<1> QED  BY <1>3, <1>5, <1>6, <1>7

(* The one before a reading.                                               *)
LEMMA ReadingBefore ==
  ASSUME JournalBooked, NEW c, NEW i \in 1..done
  PROVE  LET p == LastIn(log, c, i - 1) IN
         /\ p \in 0..(i - 1)
         /\ p # 0 => p \in 1..done /\ log[p].kind = "raw" /\ log[p].company = c
         /\ \A j \in 1..done : log[j].kind = "raw" /\ log[j].company = c /\ j < i => j <= p
<1>1. DOMAIN log = 1..Len(log) /\ Len(log) \in Nat /\ done \in 0..Len(log) /\ done \in Nat
  BY DEF JournalBooked
<1> DEFINE p == LastIn(log, c, i - 1)
<1>2. i - 1 \in 0..Len(log)
  BY <1>1
<1>3. /\ p \in 0..(i - 1)
      /\ p # 0 => p \in 1..(i - 1) /\ log[p].kind = "raw" /\ log[p].company = c
      /\ \A j \in 1..(i - 1) : log[j].kind = "raw" /\ log[j].company = c => j <= p
  BY <1>1, <1>2, LastInBounds
<1> HIDE DEF p
<1>4. \A j \in 1..done : j < i => j \in 1..(i - 1)
  BY <1>1
<1>5. p # 0 => p \in 1..done
  BY <1>1, <1>3
<1> QED  BY <1>3, <1>4, <1>5 DEF p

(* The seconds between a reading and the one before it.                    *)
Between(c, i) == TimeAt(LastIn(log, c, i - 1)) .. (CreditEnd(TimeAt(LastIn(log, c, i - 1)), TimeAt(i)) - 1)

(* A second between two readings is told by the first.                     *)
LEMMA TellerIs ==
  ASSUME JournalBooked, LedgerAssumption, KeptWhereSold, NEW c, NEW i \in ReadingsOf(c),
         LastIn(log, c, i - 1) # 0, NEW x \in Between(c, i)
  PROVE  Teller(c, x) = LastIn(log, c, i - 1) /\ x \in Seconds(c)
<1> DEFINE p == LastIn(log, c, i - 1)
           R == ReadingsOf(c)
           before == {j \in R : TimeAt(j) <= x}
           after  == {j \in R : TimeAt(j) > x}
<1>1. /\ \A j : j \in R <=> j \in 1..done /\ log[j].kind = "raw" /\ log[j].company = c
      /\ R \in SUBSET (0..done)
      /\ \A j \in R : TimeAt(j) \in Nat \ {0}
      /\ \A k, j \in R : j < k => TimeAt(j) <= TimeAt(k)
  BY ReadingsOrdered
<1>2. done \in Nat /\ GapLimit \in Nat
  BY DEF JournalBooked, LedgerAssumption
<1>3. i \in 1..done
  BY <1>1
<1>4. /\ p \in 1..done /\ log[p].kind = "raw" /\ log[p].company = c /\ p \in 0..(i - 1)
      /\ \A j \in 1..done : log[j].kind = "raw" /\ log[j].company = c /\ j < i => j <= p
  BY <1>3, ReadingBefore
<1>5. x \in TimeAt(p) .. (CreditEnd(TimeAt(p), TimeAt(i)) - 1)
  BY DEF Between
<1>6. Teller(c, x) = IF before # {} /\ after # {} /\ x - TimeAt(Max(before)) < GapLimit THEN Max(before) ELSE 0
  BY DEF Teller, ReadingsOf, TimeAt
<1>7. Seconds(c) = {y \in UNION {TimeAt(j) .. (TimeAt(j) + GapLimit - 1) : j \in R} : Teller(c, y) # 0}
  BY DEF Seconds, ReadingsOf, TimeAt
<1> HIDE DEF p, R
<1>8. p \in R /\ p # 0 /\ p < i /\ i \in R /\ TimeAt(p) \in Nat \ {0} /\ TimeAt(i) \in Nat
  <2>1. p \in R /\ i \in R
    BY <1>1, <1>4 DEF R
  <2> QED  BY <1>1, <1>2, <1>3, <1>4, <2>1
<1>9. x \in Int /\ TimeAt(p) <= x /\ x < TimeAt(i) /\ x < TimeAt(p) + GapLimit
  BY <1>2, <1>5, <1>8 DEF CreditEnd
<1>10. \A j \in before : j <= p
  <2>1. ASSUME NEW j \in before, ~(j <= p)  PROVE FALSE
    <3>1. j \in R /\ j \in 1..done /\ TimeAt(j) <= x /\ TimeAt(j) \in Nat
      BY <1>1, <2>1
    <3>2. ~(j < i)
      BY <1>1, <1>4, <2>1, <3>1
    <3>3. j = i \/ i < j
      BY <1>3, <3>1, <3>2
    <3>4. TimeAt(i) <= TimeAt(j)
      BY <1>1, <1>8, <3>1, <3>3
    <3> QED  BY <1>8, <1>9, <3>1, <3>4
  <2> QED  BY <2>1
<1>11. p \in before /\ i \in after /\ before \in SUBSET (0..done)
  BY <1>1, <1>8, <1>9
<1> HIDE DEF before, after
<1>12. Max(before) = p
  BY <1>2, <1>10, <1>11, LastPlaceIs
<1>13. x - TimeAt(p) < GapLimit
  BY <1>2, <1>8, <1>9
<1>14. Teller(c, x) = p
  BY <1>6, <1>11, <1>12, <1>13
<1>15. x \in TimeAt(p) .. (TimeAt(p) + GapLimit - 1)
  BY <1>2, <1>8, <1>9
<1>16. x \in Seconds(c)
  BY <1>7, <1>8, <1>14, <1>15
<1> QED  BY <1>14, <1>16 DEF p

(* A second that is told is between two readings.                          *)
LEMMA TellerOf ==
  ASSUME JournalBooked, LedgerAssumption, KeptWhereSold, NEW c, NEW x \in Seconds(c)
  PROVE  \E i \in ReadingsOf(c) :
           LastIn(log, c, i - 1) # 0 /\ Teller(c, x) = LastIn(log, c, i - 1) /\ x \in Between(c, i)
<1> DEFINE R == ReadingsOf(c)
           before == {j \in R : TimeAt(j) <= x}
           after  == {j \in R : TimeAt(j) > x}
           t      == Max(before)
<1>1. /\ \A j : j \in R <=> j \in 1..done /\ log[j].kind = "raw" /\ log[j].company = c
      /\ R \in SUBSET (0..done)
      /\ \A j \in R : TimeAt(j) \in Nat \ {0}
      /\ \A k, j \in R : j < k => TimeAt(j) <= TimeAt(k)
  BY ReadingsOrdered
<1>2. done \in Nat /\ GapLimit \in Nat
  BY DEF JournalBooked, LedgerAssumption
<1>3. Teller(c, x) = IF before # {} /\ after # {} /\ x - TimeAt(t) < GapLimit THEN t ELSE 0
  BY DEF Teller, ReadingsOf, TimeAt
<1>4. Teller(c, x) # 0 /\ \E j \in R : x \in TimeAt(j) .. (TimeAt(j) + GapLimit - 1)
  BY DEF Seconds, ReadingsOf, TimeAt
<1>5. x \in Int
  BY <1>1, <1>2, <1>4
<1> HIDE DEF R
<1>6. before # {} /\ after # {} /\ x - TimeAt(t) < GapLimit /\ Teller(c, x) = t
  BY <1>3, <1>4
<1>7. before \in SUBSET (0..done) /\ after \in SUBSET Nat
  BY <1>1, <1>2
<1>8. t \in before /\ \A j \in before : j <= t
  <2> HIDE DEF before
  <2> QED  BY <1>2, <1>6, <1>7, MaxIsGreatest
<1>9. PICK i \in after : \A j \in after : i <= j
  <2> HIDE DEF after
  <2> QED  BY <1>6, <1>7, LeastExists
<1>10. /\ t \in R /\ t \in 1..done /\ TimeAt(t) <= x /\ TimeAt(t) \in Nat \ {0}
       /\ i \in R /\ i \in 1..done /\ x < TimeAt(i) /\ TimeAt(i) \in Nat \ {0}
  BY <1>1, <1>8, <1>9 DEF R
<1>11. t < i
  <2>1. i # t
    BY <1>5, <1>10
  <2>2. ~(i < t)
    <3>1. ASSUME i < t  PROVE FALSE
      <4>1. TimeAt(i) <= TimeAt(t)
        BY <1>1, <1>10, <3>1
      <4> QED  BY <1>5, <1>10, <4>1
    <3> QED  BY <3>1
  <2> QED  BY <1>2, <1>10, <2>1, <2>2
<1> DEFINE p == LastIn(log, c, i - 1)
<1>12. /\ p \in 0..(i - 1)
       /\ p # 0 => p \in 1..done /\ log[p].kind = "raw" /\ log[p].company = c
       /\ \A j \in 1..done : log[j].kind = "raw" /\ log[j].company = c /\ j < i => j <= p
  BY <1>10, ReadingBefore
<1> HIDE DEF p, t
<1>13. t <= p
  BY <1>1, <1>10, <1>11, <1>12 DEF R
<1>14. p \in R /\ p < i /\ p \in Nat /\ p # 0
  <2>1. p # 0 /\ p < i /\ p \in Nat
    BY <1>2, <1>10, <1>12, <1>13
  <2> QED  BY <1>1, <1>12, <2>1 DEF R
<1>15. p <= t
  <2>1. p \notin after
    BY <1>2, <1>9, <1>10, <1>14
  <2>2. TimeAt(p) <= x
    BY <1>1, <1>5, <1>14, <2>1
  <2> QED  BY <1>8, <1>14, <2>2
<1>16. p = t
  BY <1>2, <1>10, <1>13, <1>14, <1>15
<1>17. x < CreditEnd(TimeAt(p), TimeAt(i)) /\ CreditEnd(TimeAt(p), TimeAt(i)) \in Int /\ TimeAt(p) <= x
  BY <1>2, <1>5, <1>6, <1>10, <1>16 DEF CreditEnd
<1>18. x \in Between(c, i)
  BY <1>5, <1>10, <1>16, <1>17 DEF Between, p
<1> QED  BY <1>6, <1>10, <1>14, <1>16, <1>18 DEF p, R

-----------------------------------------------------------------------------
(* A row counts the seconds that are told.                                 *)

(* The slices that are written are of a record each.                       *)
LEMMA PlacedIs ==
  ASSUME NEW p
  PROVE  p \in Placed(1, done) <=> \E i \in 1..done : \E s \in log[i].slices : p = <<i, s>>
BY DEF Placed

(* A slice of time is of a reading, for seconds that the one before it     *)
(* tells of, and says what that does.                                      *)
TellsOf(c, i, s) ==
  LET p == LastIn(log, c, i - 1) IN
  /\ i \in ReadingsOf(c) /\ p # 0 /\ p \in ReadingsOf(c)
  /\ SliceSays(s, scene.shifts[c], Message(log[p]).running, Message(log[p]).manual)
  /\ SecondsOf(s) \subseteq Between(c, i)

(* Every slice of time in the tables is one.                               *)
LEMMA SliceTells ==
  ASSUME JournalBooked, LedgerAssumption, KeptWhereSold, NEW i \in 1..done, NEW s \in log[i].slices, Timed(s)
  PROVE  TellsOf(log[i].company, i, s)
<1> DEFINE c == log[i].company
           p == LastIn(log, c, i - 1)
<1>1. Len(log) \in Nat /\ done \in 0..Len(log) /\ i \in 1..Len(log)
  BY DEF JournalBooked
<1>2. RecordBooked(log, i)
  BY <1>1 DEF JournalBooked
<1>3. Accounted(log, i)
  BY <1>2 DEF RecordBooked
<1>4. ~NoTime(log[i].slices)
  BY DEF NoTime
<1>5. /\ log[i].kind = "raw" /\ p # 0
      /\ Spent(log[i].slices, scene.shifts[c], TimeOf(log, p), CreditEnd(TimeOf(log, p), TimeAt(i)),
               Message(log[p]).running, Message(log[p]).manual)
  BY <1>3, <1>4 DEF Accounted, TimeAt
<1>6. TimeOf(log, p) = TimeAt(p)
  BY <1>5 DEF TimeOf, TimeAt
<1>7. p # 0 => p \in 1..done /\ log[p].kind = "raw" /\ log[p].company = c
  BY ReadingBefore
<1>8. i \in ReadingsOf(c) /\ p \in ReadingsOf(c)
  BY <1>5, <1>7, ReadingsOrdered
<1>9. s \in TimedOf(log[i].slices)
  BY DEF TimedOf
<1>10. SliceSays(s, scene.shifts[c], Message(log[p]).running, Message(log[p]).manual)
  BY <1>5, <1>9 DEF Spent
<1>11. TimeAt(p) <= s.from /\ s.to <= CreditEnd(TimeAt(p), TimeAt(i))
  BY <1>5, <1>6, <1>9 DEF Spent, SlicesSplit
<1>12. s.from \in Nat /\ s.to \in Nat
  BY <1>2 DEF RecordBooked, SlicesSound, SliceSound
<1>13. TimeAt(p) \in Nat /\ TimeAt(i) \in Nat /\ GapLimit \in Nat
  <2>1. TimeAt(p) \in Nat \ {0} /\ TimeAt(i) \in Nat \ {0}
    BY <1>8, ReadingsOrdered
  <2> QED  BY <2>1 DEF LedgerAssumption
<1>14. CreditEnd(TimeAt(p), TimeAt(i)) \in Int
  BY <1>13 DEF CreditEnd
<1> HIDE DEF p
<1>15. SecondsOf(s) \subseteq Between(c, i)
  <2> DEFINE end == CreditEnd(TimeAt(p), TimeAt(i))
  <2>1. end \in Int /\ s.to <= end
    BY <1>11, <1>14
  <2>2. Between(c, i) = TimeAt(p) .. (end - 1)
    BY DEF Between, p
  <2> HIDE DEF end
  <2>3. \A x \in SecondsOf(s) : x \in TimeAt(p) .. (end - 1)
    BY <1>11, <1>12, <1>13, <2>1 DEF SecondsOf
  <2> QED  BY <2>2, <2>3
<1> QED  BY <1>5, <1>8, <1>10, <1>15 DEF TellsOf, p

(* So of such a slice a second is told by a reading,                       *)
LEMMA SecondsTold ==
  ASSUME JournalBooked, LedgerAssumption, KeptWhereSold, NEW c, NEW i, NEW s, TellsOf(c, i, s), NEW x \in SecondsOf(s)
  PROVE  /\ x \in Seconds(c) /\ Teller(c, x) = LastIn(log, c, i - 1)
         /\ RowOfSecond(c, x) = RowOf(s)
<1>1. i \in ReadingsOf(c) /\ LastIn(log, c, i - 1) # 0 /\ x \in Between(c, i)
  BY DEF TellsOf
<1>2. x \in Seconds(c) /\ Teller(c, x) = LastIn(log, c, i - 1)
  BY <1>1, TellerIs
<1>3. RowOfSecond(c, x) = RowOf(s)
  BY DEF TellsOf, SliceSays, RowOfSecond
<1> QED  BY <1>2, <1>3

(* and one that is told is of such a slice, if it is in a shift.           *)
LEMMA SecondPlaced ==
  ASSUME JournalBooked, LedgerAssumption, KeptWhereSold, NEW c, NEW x \in Seconds(c), RowOfSecond(c, x)[1] # NoShift
  PROVE  \E i \in 1..done : \E s \in log[i].slices :
           log[i].company = c /\ Timed(s) /\ x \in SecondsOf(s) /\ RowOf(s) = RowOfSecond(c, x)
<1>1. PICK i \in ReadingsOf(c) : LastIn(log, c, i - 1) # 0 /\ x \in Between(c, i)
  BY TellerOf
<1> DEFINE p == LastIn(log, c, i - 1)
<1>2. i \in 1..done /\ log[i].kind = "raw" /\ log[i].company = c
  BY ReadingsOrdered
<1>3. Len(log) \in Nat /\ done \in 0..Len(log) /\ i \in 1..Len(log)
  BY <1>2 DEF JournalBooked
<1>4. Accounted(log, i)
  BY <1>3 DEF JournalBooked, RecordBooked
<1>5. Spent(log[i].slices, scene.shifts[c], TimeAt(p), CreditEnd(TimeAt(p), TimeAt(i)),
            Message(log[p]).running, Message(log[p]).manual)
  BY <1>1, <1>2, <1>4 DEF Accounted, TimeOf, TimeAt
<1>6. x \in TimeAt(p) .. (CreditEnd(TimeAt(p), TimeAt(i)) - 1)
  BY <1>1 DEF Between
<1>7. ShiftAt(scene.shifts[c], 2 * x + 1) # NoShift
  BY DEF RowOfSecond
<1>8. PICK s \in TimedOf(log[i].slices) : x \in SecondsOf(s)
  BY <1>5, <1>6, <1>7 DEF Spent, SlicesSplit
<1>9. s \in log[i].slices /\ Timed(s)
  BY DEF TimedOf
<1>10. RowOf(s) = RowOfSecond(c, x)
  BY <1>5, <1>8 DEF Spent, SliceSays, RowOfSecond
<1> QED  BY <1>2, <1>8, <1>9, <1>10

(* Two slices of time of one company have no second in common.             *)
LEMMA SlicesApart ==
  ASSUME JournalBooked, LedgerAssumption, KeptWhereSold,
         NEW i \in 1..done, NEW s \in log[i].slices, Timed(s),
         NEW j \in 1..done, NEW r \in log[j].slices, Timed(r),
         log[i].company = log[j].company, <<i, s>> # <<j, r>>
  PROVE  SecondsOf(s) \cap SecondsOf(r) = {}
<1> DEFINE c == log[i].company
<1>1. TellsOf(c, i, s) /\ TellsOf(c, j, r)
  BY SliceTells
<1>2. Len(log) \in Nat /\ done \in 0..Len(log) /\ i \in 1..Len(log)
  BY DEF JournalBooked
<1>3. CASE i = j
  <2>1. s # r
    BY <1>3
  <2>2. Accounted(log, i) /\ ~NoTime(log[i].slices)
    BY <1>2 DEF JournalBooked, RecordBooked, NoTime
  <2>3. \A a, b \in TimedOf(log[i].slices) : a # b => SecondsOf(a) \cap SecondsOf(b) = {}
    BY <2>2 DEF Accounted, Spent, SlicesSplit
  <2>4. s \in TimedOf(log[i].slices) /\ r \in TimedOf(log[i].slices)
    BY <1>3 DEF TimedOf
  <2> QED  BY <2>1, <2>3, <2>4
<1>4. CASE i # j
  <2> SUFFICES ASSUME NEW x \in SecondsOf(s) \cap SecondsOf(r)  PROVE FALSE
    OBVIOUS
  <2>1. Teller(c, x) = LastIn(log, c, i - 1) /\ Teller(c, x) = LastIn(log, c, j - 1)
    <3>1. Teller(c, x) = LastIn(log, c, i - 1)
      BY <1>1, SecondsTold
    <3>2. Teller(c, x) = LastIn(log, c, j - 1)
      BY <1>1, SecondsTold
    <3> QED  BY <3>1, <3>2
  <2>2. /\ LastIn(log, c, i - 1) \in 0..(i - 1)
        /\ \A k \in 1..done : log[k].kind = "raw" /\ log[k].company = c /\ k < i => k <= LastIn(log, c, i - 1)
    BY ReadingBefore
  <2>3. /\ LastIn(log, c, j - 1) \in 0..(j - 1)
        /\ \A k \in 1..done : log[k].kind = "raw" /\ log[k].company = c /\ k < j => k <= LastIn(log, c, j - 1)
    BY ReadingBefore
  <2>4. log[i].kind = "raw" /\ log[j].kind = "raw" /\ log[j].company = c
    BY <1>1, ReadingsOrdered DEF TellsOf
  <2> DEFINE p == Teller(c, x)
  <2>5. /\ p \in 0..(i - 1) /\ p \in 0..(j - 1)
        /\ i < j => i <= p
        /\ j < i => j <= p
    BY <2>1, <2>2, <2>3, <2>4
  <2> HIDE DEF p
  <2> QED  BY <1>4, <2>5
<1> QED  BY <1>3, <1>4

-----------------------------------------------------------------------------
(* What a reading says a quantity of time is to be credited with.          *)
TimeKinds == {"run", "idle", "manual"}
Doing(q, message) ==
  \/ q = "run" /\ message.running
  \/ q = "idle" /\ ~message.running
  \/ q = "manual" /\ message.manual

ToldAs(c, row, q) ==
  {x \in Seconds(c) : RowOfSecond(c, x) = row /\ Doing(q, Message(log[Teller(c, x)]))}

(* A row of a company is of slices of its records alone.                   *)
LEMMA RowsOwn ==
  ASSUME JournalBooked, LedgerAssumption, NEW c \in DOMAIN scene.shifts, NEW row,
         \E k \in DOMAIN scene.shifts[c] : scene.shifts[c][k].id = row[1],
         NEW i \in 1..done, NEW s \in log[i].slices, RowOf(s) = row
  PROVE  log[i].company = c
<1>1. Len(log) \in Nat /\ done \in 0..Len(log) /\ i \in 1..Len(log)
  BY DEF JournalBooked
<1> DEFINE d == log[i].company
<1>2. d \in DOMAIN scene.shifts /\ SliceSound(s, scene.shifts[d])
  BY <1>1 DEF JournalBooked, RecordBooked, SlicesSound
<1>3. PICK k \in DOMAIN scene.shifts[c] : scene.shifts[c][k].id = row[1]
  OBVIOUS
<1>4. PICK l \in DOMAIN scene.shifts[d] : scene.shifts[d][l].id = s.shift
  BY <1>2 DEF SliceSound
<1>5. s.shift = row[1]
  BY DEF RowOf
<1>6. ShiftsSound(scene.shifts)
  BY DEF JournalBooked, LedgerAssumption
<1> HIDE DEF d
<1>7. ASSUME d # c  PROVE FALSE
  <2>1. d \in DOMAIN scene.shifts \ {c}
    BY <1>2, <1>7
  <2>2. scene.shifts[d][l].id # scene.shifts[c][k].id
    BY <1>3, <1>4, <1>6, <2>1 DEF ShiftsSound
  <2> QED  BY <1>3, <1>4, <1>5, <2>2
<1> QED  BY <1>7 DEF d

(* What is credited to it is a second for each that is told.               *)
LEMMA RowCounts ==
  ASSUME JournalBooked, LedgerAssumption, KeptWhereSold, NEW c \in DOMAIN scene.shifts, NEW row,
         \E k \in DOMAIN scene.shifts[c] : scene.shifts[c][k].id = row[1], NEW q \in TimeKinds
  PROVE  Credit(InRow(Placed(1, done), row), q) = Cardinality(ToldAs(c, row, q))
<1> DEFINE S == InRow(Placed(1, done), row)
           f == [p \in S |-> p[2][q]]
           U == [p \in S |-> {x \in SecondsOf(p[2]) : Timed(p[2]) /\ Doing(q, Message(log[Teller(c, x)]))}]
<1>1. Credit(S, q) = SumFunctionOnSet(f, S)
  BY DEF Credit, SumFunction
<1>2. PlacedSound(S)
  <2>1. q \in Quantities
    BY DEF TimeKinds, Quantities
  <2> QED  BY <2>1, PlacedAreSound, RowCredited
<1>3. IsFiniteSet(S)
  BY <1>2 DEF PlacedSound
<1>4. ASSUME NEW p \in S
      PROVE  \E i \in 1..done : \E s \in log[i].slices : p = <<i, s>> /\ RowOf(s) = row /\ log[i].company = c
  <2>1. p \in Placed(1, done) /\ RowOf(p[2]) = row
    BY DEF InRow
  <2>2. PICK i \in 1..done : \E s \in log[i].slices : p = <<i, s>>
    BY <2>1, PlacedIs
  <2>3. PICK s \in log[i].slices : p = <<i, s>>
    BY <2>2
  <2>4. RowOf(s) = row
    BY <2>1, <2>3
  <2>5. log[i].company = c
    BY <2>4, RowsOwn
  <2> QED  BY <2>3, <2>4, <2>5
<1>5. ASSUME NEW p \in S
      PROVE  IsFiniteSet(U[p]) /\ f[p] = Cardinality(U[p])
  <2>1. PICK i, s : i \in 1..done /\ s \in log[i].slices /\ p = <<i, s>> /\ RowOf(s) = row /\ log[i].company = c
    BY <1>4
  <2>2. p[2] = s /\ f[p] = s[q]
    BY <2>1
  <2>3. U[p] = {x \in SecondsOf(s) : Timed(s) /\ Doing(q, Message(log[Teller(c, x)]))}
    BY <2>2
  <2>4. Len(log) \in Nat /\ done \in 0..Len(log) /\ i \in 1..Len(log)
    BY <2>1 DEF JournalBooked
  <2>5. SliceSound(s, scene.shifts[c])
    BY <2>1, <2>4 DEF JournalBooked, RecordBooked, SlicesSound
  <2> HIDE DEF U, f
  <2>6. s["run"] = s.run /\ s["idle"] = s.idle /\ s["manual"] = s.manual
    OBVIOUS
  <2>7. s.run \in Nat /\ s.idle \in Nat /\ s.manual \in Nat /\ s.from \in Nat /\ s.to \in Nat
    BY <2>5, <2>6 DEF SliceSound, Quantities
  <2>8. CASE ~Timed(s)
    <3>1. U[p] = {}
      BY <2>3, <2>8
    <3>2. s.run = 0 /\ s.idle = 0
      BY <2>7, <2>8 DEF Timed
    <3>3. s.manual = 0
      <4>1. RecordBooked(log, i) /\ Accounted(log, i)
        BY <2>4 DEF JournalBooked, RecordBooked
      <4>2. s \in log[i].slices \ TimedOf(log[i].slices)
        BY <2>1, <2>8 DEF TimedOf
      <4>3. NoTime(log[i].slices) \/ NoTime(log[i].slices \ TimedOf(log[i].slices))
        BY <4>1 DEF Accounted, Spent
      <4> QED  BY <4>2, <4>3 DEF NoTime
    <3>4. f[p] = 0
      BY <2>2, <2>6, <3>2, <3>3 DEF TimeKinds
    <3> QED  BY <3>1, <3>4, FS_EmptySet
  <2>9. CASE Timed(s)
    <3> DEFINE t == LastIn(log, c, i - 1)
               m == Message(log[t])
    <3>1. TellsOf(c, i, s)
      BY <2>1, <2>9, SliceTells
    <3>2. SliceSays(s, scene.shifts[c], m.running, m.manual)
      BY <3>1 DEF TellsOf
    <3>3. \A x \in SecondsOf(s) : Teller(c, x) = t
      BY <3>1, SecondsTold
    <3> HIDE DEF t, m
    <3>4. U[p] = {x \in SecondsOf(s) : Doing(q, m)}
      BY <2>3, <2>9, <3>3 DEF m
    <3>5. s.to - s.from \in Nat /\ s.from < s.to
      BY <2>7, <3>2 DEF SliceSays
    <3>6. IsFiniteSet(SecondsOf(s)) /\ Cardinality(SecondsOf(s)) = s.to - s.from
      <4>1. s.from \in Int /\ s.to - 1 \in Int
        BY <2>7
      <4>2. /\ IsFiniteSet(s.from .. (s.to - 1))
            /\ Cardinality(s.from .. (s.to - 1)) = IF s.from > s.to - 1 THEN 0 ELSE (s.to - 1) - s.from + 1
        BY <4>1, FS_Interval
      <4> QED  BY <2>7, <3>5, <4>2 DEF SecondsOf
    <3>7. f[p] = IF Doing(q, m) THEN s.to - s.from ELSE 0
      <4>1. CASE q = "run"
        BY <2>2, <2>6, <3>2, <4>1 DEF SliceSays, Doing
      <4>2. CASE q = "idle"
        BY <2>2, <2>6, <3>2, <4>2 DEF SliceSays, Doing
      <4>3. CASE q = "manual"
        BY <2>2, <2>6, <3>2, <4>3 DEF SliceSays, Doing
      <4> QED  BY <4>1, <4>2, <4>3 DEF TimeKinds
    <3>8. CASE Doing(q, m)
      <4>1. U[p] = SecondsOf(s)
        BY <3>4, <3>8
      <4> QED  BY <3>6, <3>7, <3>8, <4>1
    <3>9. CASE ~Doing(q, m)
      <4>1. U[p] = {}
        BY <3>4, <3>9
      <4> QED  BY <3>7, <3>9, <4>1, FS_EmptySet
    <3> QED  BY <3>8, <3>9
  <2> QED  BY <2>8, <2>9
<1>6. ASSUME NEW p \in S, NEW r \in S, p # r
      PROVE  U[p] \cap U[r] = {}
  <2>1. PICK i, s : i \in 1..done /\ s \in log[i].slices /\ p = <<i, s>> /\ log[i].company = c
    BY <1>4
  <2>2. PICK j, z : j \in 1..done /\ z \in log[j].slices /\ r = <<j, z>> /\ log[j].company = c
    BY <1>4
  <2>3. \A x \in U[p] : x \in SecondsOf(s) /\ Timed(s)
    BY <2>1
  <2>4. \A x \in U[r] : x \in SecondsOf(z) /\ Timed(z)
    BY <2>2
  <2> HIDE DEF U
  <2>5. Timed(s) /\ Timed(z) => SecondsOf(s) \cap SecondsOf(z) = {}
    BY <1>6, <2>1, <2>2, SlicesApart
  <2> QED  BY <2>3, <2>4, <2>5
<1>7. UNION {U[p] : p \in S} = ToldAs(c, row, q)
  <2>1. ASSUME NEW p \in S, NEW x \in U[p]  PROVE x \in ToldAs(c, row, q)
    <3>1. PICK i, s : i \in 1..done /\ s \in log[i].slices /\ p = <<i, s>> /\ RowOf(s) = row /\ log[i].company = c
      BY <1>4
    <3>2. x \in SecondsOf(s) /\ Timed(s) /\ Doing(q, Message(log[Teller(c, x)]))
      BY <2>1, <3>1
    <3>3. TellsOf(c, i, s)
      BY <3>1, <3>2, SliceTells
    <3>4. x \in Seconds(c) /\ RowOfSecond(c, x) = row
      BY <3>1, <3>2, <3>3, SecondsTold
    <3> QED  BY <3>2, <3>4 DEF ToldAs
  <2>2. ASSUME NEW x \in ToldAs(c, row, q)  PROVE \E p \in S : x \in U[p]
    <3>1. x \in Seconds(c) /\ RowOfSecond(c, x) = row /\ Doing(q, Message(log[Teller(c, x)]))
      BY DEF ToldAs
    <3>2. row[1] # NoShift
      BY DEF JournalBooked, LedgerAssumption, ShiftsSound
    <3>3. PICK i, s : i \in 1..done /\ s \in log[i].slices /\
            log[i].company = c /\ Timed(s) /\ x \in SecondsOf(s) /\ RowOf(s) = row
      BY <3>1, <3>2, SecondPlaced
    <3>4. <<i, s>> \in S
      BY <3>3, PlacedIs DEF InRow
    <3>5. x \in U[<<i, s>>]
      BY <3>1, <3>3, <3>4
    <3> QED  BY <3>4, <3>5
  <2> HIDE DEF U, S
  <2> QED  BY <2>1, <2>2
<1> HIDE DEF f, U, S
<1>8. SumFunctionOnSet(f, S) = Cardinality(UNION {U[p] : p \in S})
  <2>1. \A p \in S : IsFiniteSet(U[p]) /\ f[p] = Cardinality(U[p])
    BY <1>5
  <2>2. \A p, r \in S : p # r => U[p] \cap U[r] = {}
    BY <1>6
  <2> QED  BY <1>3, <2>1, <2>2, SumCounts
<1> QED  BY <1>1, <1>7, <1>8 DEF S

-----------------------------------------------------------------------------
(* The rows are what is told, and all of it that is in a shift.            *)
LEMMA RowsExact ==
  ASSUME BookInv, LedgerAssumption, KeptWhereSold
  PROVE  HourlyIsExact
<1> USE DEF BookInv
<1>1. hourly = SumSlices(Placed(1, done)) /\ PlacedSound(Placed(1, done))
  BY PlacedAreSound DEF HourlyBooked
<1> SUFFICES ASSUME NEW c \in DOMAIN scene.shifts
             PROVE  LET told(row) == {second \in Seconds(c) : RowOfSecond(c, second) = row}
                        teller(second) == Message(log[Teller(c, second)])
                    IN /\ \A row \in RowsOf(c) :
                            /\ hourly[row].run    = Cardinality({s \in told(row) : teller(s).running})
                            /\ hourly[row].idle   = Cardinality({s \in told(row) : ~teller(s).running})
                            /\ hourly[row].manual = Cardinality({s \in told(row) : teller(s).manual})
                       /\ \A second \in Seconds(c) :
                            LET row == RowOfSecond(c, second) IN row[1] = NoShift \/ row \in DOMAIN hourly
  BY DEF HourlyIsExact
<1> DEFINE told(row) == {second \in Seconds(c) : RowOfSecond(c, second) = row}
           teller(second) == Message(log[Teller(c, second)])
<1>2. ASSUME NEW row \in RowsOf(c)
      PROVE  /\ hourly[row].run    = Cardinality({s \in told(row) : teller(s).running})
             /\ hourly[row].idle   = Cardinality({s \in told(row) : ~teller(s).running})
             /\ hourly[row].manual = Cardinality({s \in told(row) : teller(s).manual})
  <2>1. row \in DOMAIN hourly /\ \E k \in DOMAIN scene.shifts[c] : scene.shifts[c][k].id = row[1]
    BY DEF RowsOf
  <2>2. ASSUME NEW q \in TimeKinds  PROVE hourly[row][q] = Cardinality(ToldAs(c, row, q))
    <3>1. q \in Quantities
      BY DEF TimeKinds, Quantities
    <3>2. Booked(hourly, row, q) = Credit(InRow(Placed(1, done), row), q)
      BY <1>1, <3>1, RowCredited
    <3>3. Credit(InRow(Placed(1, done), row), q) = Cardinality(ToldAs(c, row, q))
      BY <2>1, RowCounts
    <3> QED  BY <2>1, <3>2, <3>3 DEF Booked
  <2>3. ToldAs(c, row, "run") = {s \in told(row) : teller(s).running}
    BY DEF ToldAs, Doing
  <2>4. ToldAs(c, row, "idle") = {s \in told(row) : ~teller(s).running}
    BY DEF ToldAs, Doing
  <2>5. ToldAs(c, row, "manual") = {s \in told(row) : teller(s).manual}
    BY DEF ToldAs, Doing
  <2>6. hourly[row]["run"] = hourly[row].run /\ hourly[row]["idle"] = hourly[row].idle
        /\ hourly[row]["manual"] = hourly[row].manual
    OBVIOUS
  <2>7. "run" \in TimeKinds /\ "idle" \in TimeKinds /\ "manual" \in TimeKinds
    BY DEF TimeKinds
  <2> HIDE DEF told, teller
  <2> QED  BY <2>2, <2>3, <2>4, <2>5, <2>6, <2>7
<1>3. ASSUME NEW x \in Seconds(c), RowOfSecond(c, x)[1] # NoShift  PROVE RowOfSecond(c, x) \in DOMAIN hourly
  <2>1. PICK i, s : i \in 1..done /\ s \in log[i].slices /\ RowOf(s) = RowOfSecond(c, x)
    BY <1>3, SecondPlaced
  <2>2. <<i, s>> \in InRow(Placed(1, done), RowOfSecond(c, x))
    BY <2>1, PlacedIs DEF InRow
  <2>3. RowOfSecond(c, x) \in DOMAIN SumSlices(Placed(1, done))
    BY <2>2 DEF SumSlices, InRow
  <2> QED  BY <1>1, <2>3
<1> QED  BY <1>2, <1>3

(* Run, idle and manual time are those of the readings, a second each, in  *)
(* the shift and the hour it is of: where no machine is sold whose journal *)
(* may be lost.                                                            *)
THEOREM HoursAreExact ==
  ASSUME KeptWhereSold
  PROVE  Spec => []HourlyIsExact
<1>1. BookInv => HourlyIsExact
  BY RowsExact, LedgerAssumption
<1> QED  BY <1>1, BooksInvariant, PTL

(* The variables are what they should be; no row has a negative quantity,  *)
(* nor an alarm that ends before it begins.                                *)
THEOREM LedgerTyping == Spec => []TypeOK
<1>1. ASSUME BookInv  PROVE TypeOK
  <2> USE <1>1 DEF BookInv
  <2>1. /\ scene \in Scenes /\ company \in DOMAIN scene.shifts
        /\ Len(log) <= scene.most /\ done \in 0..Len(log) /\ lost \in 0..done
    BY DEF JournalBooked
  <2>2. NoCompany \notin DOMAIN scene.shifts /\ scene.owner \in DOMAIN scene.shifts
    BY <2>1, LedgerAssumption DEF LedgerAssumption, ShiftsSound
  <2>3. company \in Companies \ {NoCompany}
    BY <2>1, <2>2 DEF Companies
  <2>4. known \in BOOLEAN /\ seen \subseteq DOMAIN scene.messages /\ state.company \in Companies
    BY <2>1, <2>2 DEF ProcessBooked, Companies
  <2>5. \A row \in DOMAIN hourly : hourly[row] \in [Quantities -> Nat]
    <3>1. hourly = SumSlices(Placed(1, done)) /\ PlacedSound(Placed(1, done))
      BY PlacedAreSound DEF HourlyBooked
    <3> QED  BY <3>1, RowsTypedAs
  <2>6. \A at \in DOMAIN meters : meters[at].alone \subseteq DOMAIN meters[at].reading
    BY DEF MeterInv, MeterSays, RowSays, RowWhole
  <2>7. \A row \in alarms.rows : row.ended = Open \/ row.ended >= row.started
    BY DEF AlarmsEnd
  <2> QED  BY <2>1, <2>3, <2>4, <2>5, <2>6, <2>7 DEF TypeOK
<1> QED  BY <1>1, BooksInvariant, PTL

-----------------------------------------------------------------------------
(* Sums over rows, and the rows of slices.                                 *)

(* A term counts a set, the sets are apart; what is in any.                *)
CountedBy(f, U, S) == \A x \in S : IsFiniteSet(U[x]) /\ f[x] = Cardinality(U[x])
Apart(U, S) == \A x, y \in S : x # y => U[x] \cap U[y] = {}
AnyOf(U, S) == UNION {U[x] : x \in S}

(* A sum of terms that each count a set counts all that is in any.         *)
LEMMA SumCountsAny ==
  ASSUME NEW f, NEW U, NEW S, IsFiniteSet(S), CountedBy(f, U, S), Apart(U, S)
  PROVE  IsFiniteSet(AnyOf(U, S)) /\ SumFunctionOnSet(f, S) = Cardinality(AnyOf(U, S))
<1>1. /\ \A x \in S : IsFiniteSet(U[x]) /\ f[x] = Cardinality(U[x])
      /\ \A x, y \in S : x # y => U[x] \cap U[y] = {}
  BY DEF CountedBy, Apart
<1> QED  BY <1>1, SumCounts DEF AnyOf

(* What is in the union of the sets is in one of them.                     *)
LEMMA InAnyOf ==
  ASSUME NEW U, NEW S, NEW e
  PROVE  e \in AnyOf(U, S) <=> \E x \in S : e \in U[x]
BY Zenon DEF AnyOf

(* A quantity that no slice has.                                           *)
LEMMA CreditNone ==
  ASSUME NEW A, PlacedSound(A), NEW q \in Quantities, \A p \in A : p[2][q] = 0
  PROVE  Credit(A, q) = 0
<1> DEFINE f == [p \in A |-> p[2][q]]
           U == [p \in A |-> {}]
<1>1. Credit(A, q) = SumFunctionOnSet(f, A)
  BY DEF Credit, SumFunction
<1>2. IsFiniteSet({}) /\ Cardinality({}) = 0
  BY FS_EmptySet
<1>3. IsFiniteSet(A)
  BY DEF PlacedSound
<1>4. CountedBy(f, U, A) /\ Apart(U, A)
  BY <1>2 DEF CountedBy, Apart
<1>5. AnyOf(U, A) = {}
  <2>1. \A p \in A : U[p] = {}
    OBVIOUS
  <2> HIDE DEF U
  <2> QED  BY <2>1, InAnyOf
<1> HIDE DEF f, U
<1> QED  BY <1>1, <1>2, <1>3, <1>4, <1>5, SumCountsAny

(* One that a single slice has.                                            *)
LEMMA CreditOne ==
  ASSUME NEW A, PlacedSound(A), NEW q \in Quantities, NEW p \in A, \A r \in A \ {p} : r[2][q] = 0
  PROVE  Credit(A, q) = p[2][q]
<1> DEFINE f == [r \in A |-> r[2][q]]
<1>1. Credit(A, q) = SumFunctionOnSet(f, A)
  BY DEF Credit, SumFunction
<1>2. IsFiniteSet(A) /\ \A r \in A : f[r] \in Int
  BY DEF PlacedSound
<1>3. PlacedSound(A \ {p})
  BY FS_Subset DEF PlacedSound
<1>4. Credit(A \ {p}, q) = 0
  BY <1>3, CreditNone
<1> DEFINE g == [r \in A \ {p} |-> r[2][q]]
<1>5. Credit(A \ {p}, q) = SumFunctionOnSet(g, A \ {p})
  BY DEF Credit, SumFunction
<1>6. IsFiniteSet(A \ {p}) /\ \A r \in A \ {p} : g[r] \in Int /\ g[r] = f[r]
  BY <1>3 DEF PlacedSound
<1>7. f[p] = p[2][q] /\ p[2][q] \in Int
  BY DEF PlacedSound
<1> HIDE DEF f, g
<1>8. SumFunctionOnSet(f, A) = f[p] + SumFunctionOnSet(f, A \ {p})
  BY <1>2, SumTakes
<1>9. SumFunctionOnSet(g, A \ {p}) = SumFunctionOnSet(f, A \ {p})
  BY <1>6, SumsAlike
<1> QED  BY <1>1, <1>4, <1>5, <1>7, <1>8, <1>9

(* A natural number counts a set of pairs,                                 *)
LEMMA RodCounts ==
  ASSUME NEW x, NEW k \in Nat
  PROVE  IsFiniteSet({x} \X (1..k)) /\ Cardinality({x} \X (1..k)) = k
<1>1. IsFiniteSet(1..k) /\ Cardinality(1..k) = k
  BY FS_Interval
<1>2. IsFiniteSet({x}) /\ Cardinality({x}) = 1
  BY FS_Singleton
<1> DEFINE S == {x}
           T == 1..k
<1> HIDE DEF S, T
<1>3. IsFiniteSet(S \X T) /\ Cardinality(S \X T) = Cardinality(S) * Cardinality(T)
  BY <1>1, <1>2, FS_Product DEF S, T
<1> QED  BY <1>1, <1>2, <1>3 DEF S, T

(* and a sum of them the union.                                            *)
Rods(f, S) == UNION {{x} \X (1..f[x]) : x \in S}

(* What is in the union is of a term.                                      *)
LEMMA RodsIn ==
  ASSUME NEW f, NEW S, NEW e
  PROVE  e \in Rods(f, S) <=> \E x \in S : e \in {x} \X (1..f[x])
BY Zenon DEF Rods

(* A sum of natural numbers counts the union.                              *)
LEMMA RodsCount ==
  ASSUME NEW f, NEW S, IsFiniteSet(S), \A x \in S : f[x] \in Nat
  PROVE  IsFiniteSet(Rods(f, S)) /\ SumFunctionOnSet(f, S) = Cardinality(Rods(f, S))
<1> DEFINE U == [x \in S |-> {x} \X (1..f[x])]
<1>1. CountedBy(f, U, S)
  BY RodCounts DEF CountedBy
<1>2. Apart(U, S)
  BY DEF Apart
<1>3. AnyOf(U, S) = Rods(f, S)
  BY DEF Rods, AnyOf
<1> HIDE DEF U
<1> QED  BY <1>1, <1>2, <1>3, SumCountsAny

(* The sum of what each part has is what the whole has: f over S, of which *)
(* P[y] are the parts.                                                     *)
LEMMA SumOfSums ==
  ASSUME NEW f, NEW S, IsFiniteSet(S), \A x \in S : f[x] \in Nat,
         NEW T, IsFiniteSet(T), NEW P, \A y \in T : P[y] \in SUBSET S,
         \A x \in S : \E y \in T : x \in P[y],
         \A y, z \in T : y # z => P[y] \cap P[z] = {},
         NEW g, \A y \in T : g[y] = SumFunctionOnSet(f, P[y])
  PROVE  SumFunctionOnSet(g, T) = SumFunctionOnSet(f, S)
<1> DEFINE V == [y \in T |-> Rods(f, P[y])]
<1>1. CountedBy(g, V, T)
  <2> SUFFICES ASSUME NEW y \in T  PROVE IsFiniteSet(V[y]) /\ g[y] = Cardinality(V[y])
    BY DEF CountedBy
  <2> DEFINE R == P[y]
  <2>1. R \in SUBSET S /\ IsFiniteSet(R) /\ \A x \in R : f[x] \in Nat
    BY FS_Subset
  <2>2. g[y] = SumFunctionOnSet(f, R) /\ V[y] = Rods(f, R)
    OBVIOUS
  <2> HIDE DEF R, V
  <2> QED  BY <2>1, <2>2, RodsCount
<1>2. Apart(V, T)
  <2> SUFFICES ASSUME NEW y \in T, NEW z \in T, y # z, NEW e \in V[y], e \in V[z]  PROVE FALSE
    BY DEF Apart
  <2>1. PICK x \in P[y] : e \in {x} \X (1..f[x])
    BY RodsIn
  <2>2. PICK w \in P[z] : e \in {w} \X (1..f[w])
    BY RodsIn
  <2>3. x \in S /\ w \in S /\ x # w
    OBVIOUS
  <2> QED  BY <2>1, <2>2, <2>3
<1>3. \A y \in T : V[y] = Rods(f, P[y])
  OBVIOUS
<1> HIDE DEF V
<1>4. ASSUME NEW e
      PROVE  e \in AnyOf(V, T) <=> e \in Rods(f, S)
  <2>1. ASSUME e \in AnyOf(V, T)  PROVE e \in Rods(f, S)
    <3>1. PICK y \in T : e \in Rods(f, P[y])
      BY <1>3, <2>1, InAnyOf
    <3>2. PICK x \in P[y] : e \in {x} \X (1..f[x])
      BY <3>1, RodsIn
    <3>3. x \in S
      OBVIOUS
    <3> QED  BY <3>2, <3>3, RodsIn
  <2>2. ASSUME e \in Rods(f, S)  PROVE e \in AnyOf(V, T)
    <3>1. PICK x \in S : e \in {x} \X (1..f[x])
      BY <2>2, RodsIn
    <3>2. PICK y \in T : x \in P[y]
      OBVIOUS
    <3>3. e \in Rods(f, P[y])
      BY <3>1, <3>2, RodsIn
    <3> QED  BY <1>3, <3>3, InAnyOf
  <2> QED  BY <2>1, <2>2
<1>5. AnyOf(V, T) = Rods(f, S)
  BY <1>4, Zenon
<1>6. SumFunctionOnSet(g, T) = Cardinality(AnyOf(V, T))
  BY <1>1, <1>2, SumCountsAny
<1>7. SumFunctionOnSet(f, S) = Cardinality(Rods(f, S))
  BY RodsCount
<1> QED  BY <1>5, <1>6, <1>7

(* The rows have what the slices have.                                     *)
LEMMA RowsCredited ==
  ASSUME NEW A, PlacedSound(A), NEW q \in Quantities
  PROVE  LET rows == SumSlices(A) IN SumFunction([row \in DOMAIN rows |-> rows[row][q]]) = Credit(A, q)
<1> DEFINE rows == SumSlices(A)
           T    == {RowOf(p[2]) : p \in A}
           f    == [p \in A |-> p[2][q]]
           g    == [row \in DOMAIN rows |-> rows[row][q]]
           P    == [row \in T |-> InRow(A, row)]
<1>1. DOMAIN rows = T
  BY DEF SumSlices
<1>2. IsFiniteSet(T)
  <2> DEFINE h == [p \in A |-> RowOf(p[2])]
  <2>1. IsFiniteSet({h[p] : p \in A})
    <3>1. IsFiniteSet(A)
      BY DEF PlacedSound
    <3>2. DOMAIN h = A /\ h = [p \in A |-> h[p]]
      OBVIOUS
    <3> HIDE DEF h
    <3> QED  BY <3>1, <3>2, ImageFinite
  <2>2. {h[p] : p \in A} = T
    OBVIOUS
  <2> QED  BY <2>1, <2>2
<1>3. \A row \in T : g[row] = SumFunctionOnSet(f, P[row])
  <2> SUFFICES ASSUME NEW row \in T  PROVE g[row] = SumFunctionOnSet(f, P[row])
    OBVIOUS
  <2> DEFINE B == InRow(A, row)
             k == [p \in B |-> p[2][q]]
  <2>1. g[row] = SumFunctionOnSet(k, B)
    BY <1>1 DEF SumSlices, SumFunction
  <2>2. B \in SUBSET A
    BY DEF InRow
  <2>3. IsFiniteSet(B) /\ \A p \in B : k[p] \in Int /\ k[p] = f[p]
    BY <2>2, FS_Subset DEF PlacedSound
  <2>4. P[row] = B
    OBVIOUS
  <2> HIDE DEF k, f, B, P, g
  <2> QED  BY <2>1, <2>3, <2>4, SumsAlike
<1>4. /\ IsFiniteSet(A) /\ \A p \in A : f[p] \in Nat
      /\ \A row \in T : P[row] \in SUBSET A
      /\ \A p \in A : \E row \in T : p \in P[row]
      /\ \A row, r2 \in T : row # r2 => P[row] \cap P[r2] = {}
  BY DEF PlacedSound, InRow
<1>5. SumFunction(g) = SumFunctionOnSet(g, T)
  <2>1. DOMAIN g = T
    BY <1>1
  <2> HIDE DEF g
  <2> QED  BY <2>1 DEF SumFunction
<1>6. Credit(A, q) = SumFunctionOnSet(f, A)
  BY DEF Credit, SumFunction
<1> HIDE DEF f, g, P, T
<1>7. SumFunctionOnSet(g, T) = SumFunctionOnSet(f, A)
  BY <1>2, <1>3, <1>4, SumOfSums
<1> QED  BY <1>5, <1>6, <1>7 DEF g

-----------------------------------------------------------------------------
(* An interval is divided into slices that have all of a quantity.         *)

(* There is a shift at any time, for a company of a steady scene.          *)
AlwaysShift(shifts) == \A half \in Int : ShiftAt(shifts, half) # NoShift

(* A steady scene is one whose companies always have a shift.              *)
LEMMA AlwaysInShift ==
  ASSUME LedgerAssumption, SteadyIsSo, scene \in Scenes, "steady" \in scene.flags, NEW c \in DOMAIN scene.shifts
  PROVE  AlwaysShift(scene.shifts[c])
<1> DEFINE shifts == scene.shifts[c]
<1> SUFFICES ASSUME NEW half \in Int  PROVE ShiftAt(shifts, half) # NoShift
  BY DEF AlwaysShift
<1> DEFINE ofDay    == (half + 2 * IstOffset) % (2 * Day)
           covering == {i \in DOMAIN shifts : Covers(shifts[i], ofDay)}
<1>1. 2 * Day \in Nat \ {0} /\ half + 2 * IstOffset \in Int
  BY HourlyAssumption
<1>2. ofDay \in 0..(2 * Day - 1)
  BY <1>1, Euclid
<1>3. \E i \in DOMAIN shifts : Covers(shifts[i], ofDay)
  <2> HIDE DEF ofDay
  <2> QED  BY <1>2 DEF SteadyIsSo
<1>4. DOMAIN shifts \subseteq Nat /\ \A i \in DOMAIN shifts : shifts[i].id # NoShift
  BY DEF LedgerAssumption, ShiftsSound
<1>5. covering # {} /\ covering \in SUBSET Nat
  BY <1>3, <1>4
<1>6. ShiftAt(shifts, half) = shifts[Min(covering)].id
  <2>1. covering # {}
    BY <1>5
  <2> QED  BY <2>1 DEF ShiftAt
<1>7. covering \in SUBSET (DOMAIN shifts)
  OBVIOUS
<1> HIDE DEF covering, shifts
<1>8. Min(covering) \in covering
  BY <1>5, MinIsLeast
<1> QED  BY <1>4, <1>6, <1>7, <1>8

(* What hourlySlices() puts in a slice: the parts in the last, the energy  *)
(* by duration.                                                            *)
LEMMA HourlyCarries ==
  ASSUME NEW shifts, NEW from \in Nat \ {0}, NEW to \in Nat, from < to,
         NEW running, NEW manual, NEW produced, NEW energy,
         NEW s \in HourlySlices(shifts, from, to, running, manual, produced, energy)
  PROVE  /\ s.produced = IF s.to = to THEN produced ELSE 0
         /\ s.energy = (energy * (s.to - s.from)) \div (to - from)
<1>1. PICK a : s = SliceFrom(shifts, from, to, a, running, manual, produced, energy)
  BY DEF HourlySlices
<1> QED  BY <1>1 DEF SliceFrom, Slice

(* The slices of a record, beside its place.                               *)
Of(i, slices) == {i} \X slices

(* Slices that are sound are sound beside their place.                     *)
LEMMA OfSound ==
  ASSUME NEW i, NEW shifts, NEW S, SlicesSound(S, shifts)
  PROVE  PlacedSound(Of(i, S))
<1>1. IsFiniteSet({i}) /\ IsFiniteSet(S)
  BY FS_Singleton DEF SlicesSound
<1> DEFINE I == {i}
<1> HIDE DEF I
<1>2. IsFiniteSet(I \X S)
  BY <1>1, FS_Product DEF I
<1>3. IsFiniteSet(Of(i, S))
  BY <1>2 DEF Of, I
<1>4. \A p \in Of(i, S) : p[2] \in S
  BY DEF Of
<1> QED  BY <1>3, <1>4 DEF PlacedSound, SlicesSound, SliceSound

(* Two parts of a record have the sum of theirs.                           *)
LEMMA OfParts ==
  ASSUME NEW i, NEW shifts, NEW S, SlicesSound(S, shifts), NEW T, SlicesSound(T, shifts), S \cap T = {},
         NEW q \in Quantities
  PROVE  /\ Credit(Of(i, S \cup T), q) = Credit(Of(i, S), q) + Credit(Of(i, T), q)
         /\ Credit(Of(i, S), q) \in Nat /\ Credit(Of(i, T), q) \in Nat
<1>1. PlacedSound(Of(i, S)) /\ PlacedSound(Of(i, T))
  BY OfSound
<1>2. Of(i, S \cup T) = Of(i, S) \cup Of(i, T) /\ Of(i, S) \cap Of(i, T) = {}
  BY DEF Of
<1> QED  BY <1>1, <1>2, CreditsAdd, CreditTyped

(* The seconds from one to another are as many as the time between.       *)
LEMMA IntervalCounts ==
  ASSUME NEW a \in Nat, NEW b \in Nat, a <= b
  PROVE  IsFiniteSet(a..(b - 1)) /\ Cardinality(a..(b - 1)) = b - a
<1>1. a \in Int /\ b - 1 \in Int
  OBVIOUS
<1>2. IsFiniteSet(a..(b - 1)) /\ Cardinality(a..(b - 1)) = IF a > b - 1 THEN 0 ELSE (b - 1) - a + 1
  BY <1>1, FS_Interval, Zenon
<1> QED  BY <1>2

(* What is in proportion to the seconds comes to all of it.                *)
LEMMA SharedOut ==
  ASSUME NEW shifts, AlwaysShift(shifts), NEW from \in Nat, NEW to \in Nat, from < to,
         NEW S, SlicesSplit(S, shifts, from, to),
         \A s \in S : SliceSound(s, shifts) /\ s.from < s.to,
         NEW k \in Nat, \A s \in S : s.energy = k * (s.to - s.from), NEW i
  PROVE  Credit(Of(i, S), "energy") = k * (to - from)
<1> DEFINE A == Of(i, S)
           f == [p \in A |-> p[2]["energy"]]
           U == [p \in A |-> SecondsOf(p[2]) \X (1..k)]
<1>1. "energy" \in Quantities
  BY DEF Quantities
<1>2. Credit(A, "energy") = SumFunctionOnSet(f, A)
  BY DEF Credit, SumFunction
<1>3. IsFiniteSet(A)
  <2>1. SlicesSound(S, shifts)
    BY DEF SlicesSound, SlicesSplit
  <2>2. PlacedSound(A)
    BY <2>1, OfSound
  <2> HIDE DEF A
  <2> QED  BY <2>2 DEF PlacedSound
<1>4. \A p : p \in A <=> \E s \in S : p = <<i, s>>
  BY DEF Of
<1>5. ASSUME NEW p \in A
      PROVE  IsFiniteSet(U[p]) /\ f[p] = Cardinality(U[p])
  <2>1. PICK s \in S : p = <<i, s>>
    BY <1>4
  <2>2. s.from \in Nat /\ s.to \in Nat /\ s.from < s.to /\ s.energy = k * (s.to - s.from)
    BY DEF SliceSound
  <2> DEFINE X == SecondsOf(s)
             Y == 1..k
  <2>3. IsFiniteSet(X) /\ Cardinality(X) = s.to - s.from
    BY <2>2, IntervalCounts DEF SecondsOf
  <2>4. IsFiniteSet(Y) /\ Cardinality(Y) = k
    BY FS_Interval
  <2>5. U[p] = X \X Y /\ f[p] = s.energy
    <3>1. f[p] = p[2]["energy"] /\ U[p] = SecondsOf(p[2]) \X (1..k)
      OBVIOUS
    <3>2. p[2] = s
      BY <2>1
    <3> HIDE DEF f, U, A
    <3> QED  BY <3>1, <3>2
  <2> HIDE DEF X, Y, U, f
  <2>6. IsFiniteSet(X \X Y) /\ Cardinality(X \X Y) = Cardinality(X) * Cardinality(Y)
    BY <2>3, <2>4, FS_Product
  <2> DEFINE d == s.to - s.from
  <2>7. d \in Nat
    BY <2>2
  <2> HIDE DEF d
  <2>8. d * k = k * d
    BY <2>7
  <2> QED  BY <2>2, <2>3, <2>4, <2>5, <2>6, <2>8 DEF d
<1>6. CountedBy(f, U, A)
  <2> HIDE DEF f, U, A
  <2> QED  BY <1>5 DEF CountedBy
<1>7. Apart(U, A)
  <2> SUFFICES ASSUME NEW p \in A, NEW r \in A, p # r, NEW e \in U[p], e \in U[r]  PROVE FALSE
    BY DEF Apart
  <2>1. PICK s \in S : p = <<i, s>>
    BY <1>4
  <2>2. PICK z \in S : r = <<i, z>>
    BY <1>4
  <2>3. e \in SecondsOf(s) \X (1..k) /\ e \in SecondsOf(z) \X (1..k)
    BY <2>1, <2>2
  <2>4. e[1] \in SecondsOf(s) \cap SecondsOf(z) /\ s # z
    BY <2>1, <2>2, <2>3
  <2> QED  BY <2>4 DEF SlicesSplit
<1>8. AnyOf(U, A) = (from..(to - 1)) \X (1..k)
  <2>1. ASSUME NEW e, e \in AnyOf(U, A)  PROVE e \in (from..(to - 1)) \X (1..k)
    <3>1. PICK p \in A : e \in U[p]
      BY <2>1, InAnyOf
    <3>2. PICK s \in S : p = <<i, s>>
      BY <1>4
    <3>3. e \in SecondsOf(s) \X (1..k)
      BY <3>1, <3>2
    <3>4. from <= s.from /\ s.to <= to /\ s.from \in Nat /\ s.to \in Nat
      BY DEF SlicesSplit, SliceSound
    <3>5. SecondsOf(s) \subseteq from..(to - 1)
      BY <3>4 DEF SecondsOf
    <3> QED  BY <3>3, <3>5
  <2>2. ASSUME NEW e \in (from..(to - 1)) \X (1..k)  PROVE e \in AnyOf(U, A)
    <3>1. e[1] \in from..(to - 1) /\ e[2] \in 1..k /\ e = <<e[1], e[2]>>
      OBVIOUS
    <3>2. 2 * e[1] + 1 \in Int
      BY <3>1
    <3>3. PICK s \in S : e[1] \in SecondsOf(s)
      BY <3>1, <3>2 DEF SlicesSplit, AlwaysShift
    <3>4. <<i, s>> \in A /\ e \in U[<<i, s>>]
      <4>1. <<i, s>> \in A
        BY <1>4
      <4>2. U[<<i, s>>] = SecondsOf(s) \X (1..k)
        BY <4>1
      <4> QED  BY <3>1, <3>3, <4>1, <4>2
    <3> QED  BY <3>4, InAnyOf
  <2> HIDE DEF A, U
  <2> QED  BY <2>1, <2>2
<1>9. Cardinality((from..(to - 1)) \X (1..k)) = k * (to - from)
  <2> DEFINE X == from..(to - 1)
             Y == 1..k
             d == to - from
  <2>1. IsFiniteSet(X) /\ Cardinality(X) = d /\ d \in Nat
    BY IntervalCounts
  <2>2. IsFiniteSet(Y) /\ Cardinality(Y) = k
    <3>1. 1 \in Int /\ k \in Int
      OBVIOUS
    <3>2. IsFiniteSet(Y) /\ Cardinality(Y) = IF 1 > k THEN 0 ELSE k - 1 + 1
      BY <3>1, FS_Interval, Zenon
    <3> QED  BY <3>2
  <2> HIDE DEF X, Y, d
  <2>3. Cardinality(X \X Y) = Cardinality(X) * Cardinality(Y)
    BY <2>1, <2>2, FS_Product
  <2>4. d * k = k * d
    BY <2>1
  <2> QED  BY <2>1, <2>2, <2>3, <2>4 DEF X, Y, d
<1>10. SumFunctionOnSet(f, A) = Cardinality(AnyOf(U, A))
  <2> HIDE DEF f, U, A
  <2> QED  BY <1>3, <1>6, <1>7, SumCountsAny
<1> HIDE DEF f, U
<1> QED  BY <1>2, <1>8, <1>9, <1>10

(* What the slice has that ends with the interval, one slice has.          *)
LEMMA LastHasAll ==
  ASSUME NEW shifts, AlwaysShift(shifts), NEW from \in Nat, NEW to \in Nat, from < to,
         NEW S, SlicesSplit(S, shifts, from, to),
         \A s \in S : SliceSound(s, shifts) /\ s.from < s.to,
         NEW n \in Nat, \A s \in S : s.produced = IF s.to = to THEN n ELSE 0, NEW i
  PROVE  Credit(Of(i, S), "produced") = n
<1>1. to - 1 \in from..(to - 1) /\ 2 * (to - 1) + 1 \in Int
  OBVIOUS
<1>2. PICK s \in S : to - 1 \in SecondsOf(s)
  BY <1>1 DEF SlicesSplit, AlwaysShift
<1>3. s.to = to
  <2>1. s.to \in Nat /\ s.from \in Nat /\ s.to <= to
    BY DEF SlicesSplit, SliceSound
  <2> QED  BY <1>2, <2>1 DEF SecondsOf
<1>4. ASSUME NEW r \in S, r # s  PROVE r.produced = 0
  <2>1. r.to \in Nat /\ r.from \in Nat /\ r.from < r.to
    BY DEF SliceSound
  <2>2. to - 1 \notin SecondsOf(r)
    BY <1>2, <1>4 DEF SlicesSplit
  <2>3. r.to # to
    BY <2>1, <2>2 DEF SecondsOf
  <2> QED  BY <2>3
<1>5. "produced" \in Quantities
  BY DEF Quantities
<1>6. PlacedSound(Of(i, S))
  <2>1. SlicesSound(S, shifts)
    BY DEF SlicesSound, SlicesSplit
  <2> QED  BY <2>1, OfSound
<1>7. <<i, s>> \in Of(i, S) /\ \A p \in Of(i, S) \ {<<i, s>>} : p[2] \in S /\ p[2] # s
  BY DEF Of
<1>8. \A p \in Of(i, S) \ {<<i, s>>} : p[2]["produced"] = 0
  BY <1>4, <1>7
<1>9. Credit(Of(i, S), "produced") = <<i, s>>[2]["produced"]
  BY <1>5, <1>6, <1>7, <1>8, CreditOne
<1> QED  BY <1>3, <1>9

-----------------------------------------------------------------------------
(* What is shared out over an interval.                                    *)

(* What can be shared out over an interval of up to GapLimit without a     *)
(* rest.                                                                   *)
Divides(energy) == \A d \in 1..GapLimit : energy % d = 0

(* Nothing has nothing.                                                    *)
LEMMA NoneHas ==
  ASSUME NEW i, NEW q \in Quantities
  PROVE  Credit(Of(i, {}), q) = 0
<1>1. Of(i, {}) = {}
  BY DEF Of
<1>2. PlacedSound({})
  BY FS_EmptySet DEF PlacedSound
<1> QED  BY <1>1, <1>2, CreditTyped

(* PointSlice() has what it is given, in any second.                       *)
LEMMA PointHas ==
  ASSUME LedgerAssumption, scene \in Scenes, company \in DOMAIN scene.shifts, AlwaysShift(Shifts),
         NEW at \in Nat, NEW produced \in Nat, NEW energy \in Nat, NEW i
  PROVE  LET S == PointSlice(at, produced, energy) IN
         /\ Credit(Of(i, S), "produced") = produced /\ Credit(Of(i, S), "energy") = energy
         /\ \A s \in S : s.produced = produced
<1> DEFINE S == PointSlice(at, produced, energy)
           shift == ShiftAt(Shifts, 2 * at)
           s == Slice(at, at, shift, 0, 0, 0, produced, energy)
<1>1. shift # NoShift
  BY DEF AlwaysShift
<1>2. S = IF produced + energy = 0 THEN {} ELSE {s}
  BY <1>1 DEF PointSlice
<1>3. "produced" \in Quantities /\ "energy" \in Quantities
  BY DEF Quantities
<1>4. CASE produced + energy = 0
  <2>1. produced = 0 /\ energy = 0 /\ S = {}
    BY <1>2, <1>4
  <2> HIDE DEF S
  <2>2. Credit(Of(i, S), "produced") = produced /\ Credit(Of(i, S), "energy") = energy /\ \A r \in S : r.produced = produced
    BY <1>3, <2>1, NoneHas
  <2> QED  BY <2>2 DEF S
<1>5. CASE produced + energy # 0
  <2>1. S = {s} /\ s["produced"] = produced /\ s["energy"] = energy /\ s.produced = produced
    BY <1>2, <1>5 DEF Slice
  <2>2. PlacedSound(Of(i, S))
    <3>1. SlicesSound(S, Shifts)
      BY PointSliced
    <3> HIDE DEF S
    <3> QED  BY <3>1, OfSound
  <2> HIDE DEF S, s
  <2>3. Of(i, S) = {<<i, s>>} /\ <<i, s>>[2] = s
    <3>1. S = {s}
      BY <2>1
    <3> QED  BY <3>1 DEF Of
  <2>4. Credit(Of(i, S), "produced") = <<i, s>>[2]["produced"] /\ Credit(Of(i, S), "energy") = <<i, s>>[2]["energy"]
    <3>1. <<i, s>> \in Of(i, S) /\ \A r \in Of(i, S) \ {<<i, s>>} : FALSE
      BY <2>3
    <3> QED  BY <1>3, <2>2, <3>1, CreditOne
  <2>5. Credit(Of(i, S), "produced") = produced /\ Credit(Of(i, S), "energy") = energy /\ \A r \in S : r.produced = produced
    BY <2>1, <2>3, <2>4
  <2> QED  BY <2>5 DEF S
<1> QED  BY <1>4, <1>5

(* A quotient without a rest.                                              *)
LEMMA WholeShares ==
  ASSUME NEW energy \in Nat, NEW d \in Nat \ {0}, energy % d = 0
  PROVE  \E k \in Nat : /\ energy = k * d
                        /\ \A n \in Nat : (energy * n) \div d = k * n
<1>1. energy \div d \in Nat /\ energy = d * (energy \div d) + (energy % d)
  <2>1. energy \in Int
    OBVIOUS
  <2>2. energy \div d \in Int /\ energy = d * (energy \div d) + (energy % d)
    BY <2>1, Euclid, Zenon
  <2>3. energy \div d \in Nat
    BY SMT
  <2> QED  BY <2>2, <2>3
<1> DEFINE k == energy \div d
<1>2. k \in Nat /\ energy = k * d
  BY <1>1
<1> HIDE DEF k
<1>3. ASSUME NEW n \in Nat  PROVE (energy * n) \div d = k * n
  <2> DEFINE q == k * n
  <2>1. q \in Nat /\ energy * n = d * q
    BY <1>2
  <2> HIDE DEF q
  <2>2. (d * q) \div d = q
    BY <2>1, SMT
  <2> QED  BY <2>1, <2>2 DEF q
<1> QED  BY <1>2, <1>3

(* HourlySlices() share the energy out by the seconds of each.             *)
SharesOut(S, shifts, from, to, produced, energy) ==
  /\ SlicesSplit(S, shifts, from, to)
  /\ \A s \in S : SliceSound(s, shifts) /\ s.from < s.to /\ s.from \in Nat /\ s.to \in Nat
  /\ \A s \in S : s.produced = IF s.to = to THEN produced ELSE 0
  /\ \E k \in Nat : energy = k * (to - from) /\ \A s \in S : s.energy = k * (s.to - s.from)

(* It is what they do where the energy is a multiple of the time.          *)
LEMMA IntervalShares ==
  ASSUME NEW shifts, ShiftsTimed(shifts), NEW from \in Nat \ {0}, NEW to \in Nat, from < to,
         NEW running \in BOOLEAN, NEW manual \in BOOLEAN, NEW produced \in Nat, NEW energy \in Nat,
         energy % (to - from) = 0
  PROVE  SharesOut(HourlySlices(shifts, from, to, running, manual, produced, energy),
                   shifts, from, to, produced, energy)
<1> DEFINE S == HourlySlices(shifts, from, to, running, manual, produced, energy)
           d == to - from
<1>1. SlicesSplit(S, shifts, from, to) /\ \A s \in S : SliceSound(s, shifts) /\ SliceSays(s, shifts, running, manual)
  BY HourlySliced
<1>2. \A s \in S : s.from < s.to /\ s.from \in Nat /\ s.to \in Nat
  BY <1>1 DEF SliceSays, SliceSound
<1>3. d \in Nat \ {0} /\ energy % d = 0
  OBVIOUS
<1>4. \A s \in S : s.produced = (IF s.to = to THEN produced ELSE 0) /\ s.energy = (energy * (s.to - s.from)) \div d
  BY HourlyCarries
<1> HIDE DEF S, d
<1>5. PICK k \in Nat : energy = k * d /\ \A n \in Nat : (energy * n) \div d = k * n
  BY <1>3, WholeShares
<1>6. \A s \in S : s.energy = k * (s.to - s.from)
  <2> SUFFICES ASSUME NEW s \in S  PROVE s.energy = k * (s.to - s.from)
    OBVIOUS
  <2> DEFINE n == s.to - s.from
  <2>1. n \in Nat /\ s.energy = (energy * n) \div d
    BY <1>2, <1>4
  <2> HIDE DEF n
  <2>2. s.energy = k * n
    BY <1>5, <2>1
  <2> QED  BY <2>2 DEF n
<1>7. \E l \in Nat : energy = l * d /\ \A s \in S : s.energy = l * (s.to - s.from)
  BY <1>5, <1>6
<1>8. SharesOut(S, shifts, from, to, produced, energy)
  BY <1>1, <1>2, <1>4, <1>7 DEF SharesOut, d
<1> QED  BY <1>8 DEF S

(* They have what they are given, of an interval there is.                 *)
LEMMA IntervalHas ==
  ASSUME NEW shifts, ShiftsTimed(shifts), AlwaysShift(shifts),
         NEW from \in Nat \ {0}, NEW to \in Nat, from < to,
         NEW running \in BOOLEAN, NEW manual \in BOOLEAN, NEW produced \in Nat, NEW energy \in Nat,
         energy % (to - from) = 0, NEW i
  PROVE  LET S == HourlySlices(shifts, from, to, running, manual, produced, energy) IN
         Credit(Of(i, S), "produced") = produced /\ Credit(Of(i, S), "energy") = energy
<1> DEFINE S == HourlySlices(shifts, from, to, running, manual, produced, energy)
<1>1. SharesOut(S, shifts, from, to, produced, energy)
  BY IntervalShares
<1>2. PICK k \in Nat : energy = k * (to - from) /\ \A s \in S : s.energy = k * (s.to - s.from)
  BY <1>1, Zenon DEF SharesOut
<1> HIDE DEF S
<1>3. Credit(Of(i, S), "energy") = k * (to - from)
  BY <1>1, <1>2, SharedOut DEF SharesOut
<1>4. Credit(Of(i, S), "produced") = produced
  BY <1>1, LastHasAll DEF SharesOut
<1> QED  BY <1>2, <1>3, <1>4 DEF S

(* EnergySlices() have the energy, and no parts.                           *)
LEMMA EnergyHas ==
  ASSUME LedgerAssumption, scene \in Scenes, company \in DOMAIN scene.shifts, AlwaysShift(Shifts),
         NEW from \in Nat \ {0}, NEW to \in Nat, from <= to, to - from <= GapLimit,
         NEW energy \in Nat, Divides(energy), NEW i
  PROVE  LET S == EnergySlices(from, to, energy) IN
         /\ Credit(Of(i, S), "energy") = energy /\ Credit(Of(i, S), "produced") = 0
         /\ \A s \in S : s.produced = 0
<1>1. CASE from = to
  <2>1. EnergySlices(from, to, energy) = PointSlice(to, 0, energy)
    BY <1>1 DEF EnergySlices
  <2> QED  BY <2>1, PointHas
<1>2. CASE from < to
  <2> DEFINE S == HourlySlices(Shifts, from, to, FALSE, FALSE, 0, energy)
             of == [s \in S |-> Slice(s.from, s.to, s.shift, 0, 0, 0, 0, s.energy)]
             T == EnergySlices(from, to, energy)
  <2>1. ShiftsTimed(Shifts)
    BY ShiftsOf DEF Shifts
  <2>2. energy % (to - from) = 0
    <3>1. to - from \in 1..GapLimit
      BY <1>2 DEF LedgerAssumption
    <3> QED  BY <3>1 DEF Divides
  <2>3. SharesOut(S, Shifts, from, to, 0, energy)
    <3>1. FALSE \in BOOLEAN /\ 0 \in Nat /\ from < to
      BY <1>2
    <3> QED  BY <2>1, <2>2, <3>1, IntervalShares, Zenon
  <2>4. PICK k \in Nat : energy = k * (to - from) /\ \A s \in S : s.energy = k * (s.to - s.from)
    BY <2>3, Zenon DEF SharesOut
  <2>5. T = {of[s] : s \in S}
    <3>1. T = {Slice(s.from, s.to, s.shift, 0, 0, 0, 0, s.energy) : s \in S}
      <4>1. from # to
        BY <1>2
      <4> QED  BY <4>1, Zenon DEF EnergySlices
    <3>2. \A s \in S : of[s] = Slice(s.from, s.to, s.shift, 0, 0, 0, 0, s.energy)
      OBVIOUS
    <3> HIDE DEF S, of, T
    <3> QED  BY <3>1, <3>2
  <2>6. \A s \in S : /\ of[s].from = s.from /\ of[s].to = s.to
                     /\ of[s].energy = s.energy /\ of[s].produced = 0
    BY DEF Slice
  <2>7. SlicesSound(T, Shifts)
    BY EnergySliced
  <2> HIDE DEF S, of, T
  <2>8. \A t \in T : /\ SliceSound(t, Shifts) /\ t.from < t.to /\ t.energy = k * (t.to - t.from)
                     /\ t.produced = 0 /\ from <= t.from /\ t.to <= to
    <3> SUFFICES ASSUME NEW s \in S
                 PROVE  LET t == of[s] IN
                        /\ SliceSound(t, Shifts) /\ t.from < t.to /\ t.energy = k * (t.to - t.from)
                        /\ t.produced = 0 /\ from <= t.from /\ t.to <= to
      BY <2>5
    <3>1. SliceSound(of[s], Shifts)
      BY <2>5, <2>7 DEF SlicesSound
    <3>2. from <= s.from /\ s.to <= to /\ s.from < s.to
      BY <2>3 DEF SharesOut, SlicesSplit
    <3> QED  BY <2>4, <2>6, <3>1, <3>2
  <2>9. SlicesSplit(T, Shifts, from, to)
    <3>1. IsFiniteSet(T)
      BY <2>7 DEF SlicesSound
    <3>2. \A s \in S : SecondsOf(of[s]) = SecondsOf(s)
      BY <2>6 DEF SecondsOf
    <3>3. \A t, r \in T : t # r => SecondsOf(t) \cap SecondsOf(r) = {}
      BY <2>3, <2>5, <3>2 DEF SharesOut, SlicesSplit
    <3>4. ASSUME NEW x \in from..(to - 1), ShiftAt(Shifts, 2 * x + 1) # NoShift
          PROVE  \E t \in T : x \in SecondsOf(t)
      <4>1. PICK s \in S : x \in SecondsOf(s)
        BY <2>3, <3>4 DEF SharesOut, SlicesSplit
      <4> QED  BY <2>5, <3>2, <4>1
    <3> QED  BY <2>8, <3>1, <3>3, <3>4 DEF SlicesSplit
  <2>10. Credit(Of(i, T), "energy") = k * (to - from)
    BY <1>2, <2>8, <2>9, SharedOut
  <2>11. Credit(Of(i, T), "produced") = 0
    <3>1. \A p \in Of(i, T) : p[2]["produced"] = 0
      BY <2>8 DEF Of
    <3>2. PlacedSound(Of(i, T)) /\ "produced" \in Quantities
      BY <2>7, OfSound DEF Quantities
    <3> QED  BY <3>1, <3>2, CreditNone
  <2> QED  BY <2>4, <2>8, <2>10, <2>11 DEF T
<1> QED  BY <1>1, <1>2

-----------------------------------------------------------------------------
(* What a record is to have of the counter and of the meter.               *)

(* What a record has, in its slices and in its gap.                        *)
RecordHas(rec, k, parts, energy) ==
  /\ rec.gap.parts \in Nat /\ rec.gap.energy \in Nat
  /\ Credit(Of(k, rec.slices), "produced") + rec.gap.parts = parts
  /\ Credit(Of(k, rec.slices), "energy") + rec.gap.energy = energy

(* What a message steps the counter and the meter by.                      *)
CounterGain(prev, m) == PartsCounterStep(prev.base, m.count, IF prev.time = 0 THEN 0 ELSE m.time - prev.time)
MeterGain(prev, m) == EnergyStep(prev.meter, IF m.packet THEN KwhOf(m) ELSE OrderedEnergy(prev, m), m.time)

(* A step of the meter that can be shared out over where it was made.      *)
MeterRuns(prev, m) ==
  MeterGain(prev, m).delta # 0 =>
    prev.meter # NoMeter /\ prev.meter.at \in 1..m.time /\ Divides(MeterGain(prev, m).delta)

(* Two parts, of which one has parts and the other none.                   *)
LEMMA BothHave ==
  ASSUME NEW k, NEW shifts, NEW S, SlicesSound(S, shifts), NEW T, SlicesSound(T, shifts), S \cap T = {},
         NEW a \in Nat, NEW b \in Nat, NEW c \in Nat, NEW d \in Nat,
         Credit(Of(k, S), "produced") = a, Credit(Of(k, S), "energy") = b,
         Credit(Of(k, T), "produced") = c, Credit(Of(k, T), "energy") = d
  PROVE  /\ Credit(Of(k, S \cup T), "produced") = a + c /\ Credit(Of(k, S \cup T), "energy") = b + d
         /\ SlicesSound(S \cup T, shifts)
<1>1. "produced" \in Quantities /\ "energy" \in Quantities
  BY DEF Quantities
<1>2. SlicesSound(S \cup T, shifts)
  BY FS_Union DEF SlicesSound
<1>3. Credit(Of(k, S \cup T), "produced") = Credit(Of(k, S), "produced") + Credit(Of(k, T), "produced")
  BY <1>1, OfParts
<1>4. Credit(Of(k, S \cup T), "energy") = Credit(Of(k, S), "energy") + Credit(Of(k, T), "energy")
  BY <1>1, OfParts
<1> QED  BY <1>2, <1>3, <1>4

(* What the time since the reading before is credited with, if there is    *)
(* any.                                                                    *)
LEMMA NoneElapsed ==
  ASSUME NEW shifts, NEW from \in Nat, NEW to \in Nat, from = 0 \/ to <= from,
         NEW running, NEW manual, NEW parts, NEW energy, NEW k
  PROVE  LET S == HourlySlices(shifts, from, to, running, manual, parts, energy) IN
         S = {} /\ Credit(Of(k, S), "produced") = 0 /\ Credit(Of(k, S), "energy") = 0
<1> DEFINE S == HourlySlices(shifts, from, to, running, manual, parts, energy)
<1>1. S = {}
  BY DEF HourlySlices
<1>2. "produced" \in Quantities /\ "energy" \in Quantities
  BY DEF Quantities
<1> HIDE DEF S
<1>3. Credit(Of(k, S), "produced") = 0 /\ Credit(Of(k, S), "energy") = 0
  BY <1>1, <1>2, NoneHas
<1> QED  BY <1>1, <1>3 DEF S

(* Nothing can be shared out.                                              *)
LEMMA NothingDivides == GapLimit \in Nat => Divides(0)
BY DEF Divides

-----------------------------------------------------------------------------
(* A snapshot has it.                                                      *)

(* A snapshot has all that the counter and the meter went up by.           *)
LEMMA SnapshotHas ==
  ASSUME LedgerAssumption, scene \in Scenes, company \in DOMAIN scene.shifts, AlwaysShift(Shifts),
         NEW i \in DOMAIN scene.messages, ~scene.messages[i].packet, NEW prev, StateTyped(prev),
         prev.time <= scene.messages[i].time, MeterRuns(prev, scene.messages[i]), NEW k
  PROVE  RecordHas(SnapshotRecord(prev, i), k, CounterGain(prev, scene.messages[i]).delta,
                   MeterGain(prev, scene.messages[i]).delta)
<1> DEFINE m       == scene.messages[i]
           silence == IF prev.time = 0 THEN 0 ELSE m.time - prev.time
           counter == PartsCounterStep(prev.base, m.count, silence)
           step    == EnergyStep(prev.meter, OrderedEnergy(prev, m), m.time)
           made    == counter.delta
           used    == step.delta
           since   == MeterFrom(prev, m.time)
           long    == silence > GapLimit
           longMeter == used > 0 /\ m.time - since > GapLimit
           spread  == IF long \/ longMeter THEN 0 ELSE used
           parts   == IF long THEN 0 ELSE made
           share   == IF since = prev.time THEN spread ELSE 0
           elapsed == HourlySlices(Shifts, prev.time, CreditUpTo(prev, m), prev.running, prev.manual, parts, share)
           sameSecond == IF silence = 0 THEN PointSlice(m.time, made, 0) ELSE {}
           ofMeter == IF spread > 0 /\ (since # prev.time \/ since = m.time)
                      THEN EnergySlices(since, m.time, spread) ELSE {}
           rec     == SnapshotRecord(prev, i)
           gap     == CASE long -> Gap(IF used > 0 THEN Min({prev.time, since}) ELSE prev.time,
                                       m.time, GapLimit, made, used)
                        [] longMeter /\ ~long -> Gap(since, m.time, 0, 0, used)
                        [] OTHER -> NoGap
<1>1. /\ MessageSound(m) /\ m.time \in Nat \ {0} /\ m.count \in Nat \cup {NoCount}
      /\ GapLimit \in Nat \ {0}
  BY DEF LedgerAssumption, MessageSound
<1>2. rec.slices = (elapsed \cup sameSecond) \cup ofMeter /\ rec.gap = gap
  BY DEF SnapshotRecord, Record
<1>3. /\ prev.time \in Nat /\ prev.running \in BOOLEAN /\ prev.manual \in BOOLEAN
      /\ prev.base \in Nat \cup {NoCount} /\ prev.meter.meter \in Nat /\ prev.meter.at \in Nat
  BY DEF StateTyped
<1>4. silence \in Nat /\ silence \in Int
  BY <1>1, <1>3
<1>5. made \in Nat /\ made = CounterGain(prev, m).delta
  <2>1. made = CounterGain(prev, m).delta
    BY DEF CounterGain
  <2> HIDE DEF silence, m
  <2> QED  BY <1>1, <1>3, <1>4, <2>1, CounterTyped
<1>6. used \in Nat /\ used = MeterGain(prev, m).delta
  <2>1. OrderedEnergy(prev, m) \in Nat \cup {NoReading}
    BY <1>1, KwhTyped
  <2>2. used = MeterGain(prev, m).delta
    BY DEF MeterGain
  <2> HIDE DEF m
  <2> QED  BY <1>1, <1>3, <2>1, <2>2, EnergyTyped
<1>7. /\ used # 0 => since = prev.meter.at /\ since \in 1..m.time /\ Divides(used)
      /\ since \in Nat
  <2>1. since \in Nat
    BY <1>1, SinceTyped
  <2>2. used # 0 => prev.meter # NoMeter /\ prev.meter.at \in 1..m.time /\ Divides(used)
    BY <1>6 DEF MeterRuns
  <2> HIDE DEF used
  <2> QED  BY <2>1, <2>2 DEF MeterFrom
<1>8. ShiftsTimed(Shifts)
  BY ShiftsOf DEF Shifts
<1>9. /\ silence = 0 <=> ~(prev.time # 0 /\ prev.time < m.time)
      /\ prev.time <= m.time
  BY <1>1, <1>3
<1>10. spread > 0 /\ since = prev.time => (silence = 0 <=> since = m.time)
  BY <1>1, <1>3, <1>7
<1>11. spread > 0 => m.time - since <= GapLimit
  BY <1>1, <1>6, <1>7
<1>12. silence = 0 => ~long
  BY <1>1
<1> HIDE DEF made, used, since, m, silence, rec
<1>13. spread \in Nat /\ parts \in Nat /\ share \in Nat /\ Divides(spread) /\ Divides(share)
  <2>1. Divides(0)
    BY <1>1, NothingDivides
  <2> QED  BY <1>5, <1>6, <1>7, <2>1
<1>14. /\ gap.parts \in Nat /\ gap.energy \in Nat
       /\ gap.parts = IF long THEN made ELSE 0
       /\ gap.energy = IF long \/ longMeter THEN used ELSE 0
  <2> HIDE DEF long, longMeter
  <2>1. CASE long
    BY <1>5, <1>6, <2>1 DEF Gap
  <2>2. CASE longMeter /\ ~long
    BY <1>5, <1>6, <2>2 DEF Gap
  <2>3. CASE ~long /\ ~longMeter
    BY <1>5, <1>6, <2>3 DEF Gap, NoGap
  <2> QED  BY <2>1, <2>2, <2>3
<1>15. parts + gap.parts = made /\ spread + gap.energy = used
  <2> HIDE DEF long, longMeter, gap
  <2> QED  BY <1>5, <1>6, <1>14
<1> HIDE DEF longMeter, gap
<1>16. /\ silence = 0 => elapsed = {}
       /\ Credit(Of(k, elapsed), "produced") = IF silence # 0 THEN parts ELSE 0
       /\ Credit(Of(k, elapsed), "energy") = IF silence # 0 THEN share ELSE 0
  <2> DEFINE from == prev.time
             to == CreditUpTo(prev, m)
             running == prev.running
             manual == prev.manual
             S == HourlySlices(Shifts, from, to, running, manual, parts, share)
  <2>1. /\ from \in Nat /\ to \in Nat /\ running \in BOOLEAN /\ manual \in BOOLEAN
        /\ silence = 0 => from = 0 \/ to <= from
        /\ silence # 0 => from \in Nat \ {0} /\ from < to /\ to - from \in 1..GapLimit
    BY <1>1, <1>3, <1>9 DEF CreditUpTo
  <2>2. elapsed = S
    OBVIOUS
  <2> HIDE DEF from, to, running, manual, parts, share, spread, long, elapsed, sameSecond, ofMeter
  <2>3. CASE silence = 0
    <3>1. S = {} /\ Credit(Of(k, S), "produced") = 0 /\ Credit(Of(k, S), "energy") = 0
      BY <2>1, <2>3, NoneElapsed
    <3> HIDE DEF S
    <3> QED  BY <2>2, <2>3, <3>1
  <2>4. CASE silence # 0
    <3>1. share % (to - from) = 0
      BY <1>13, <2>1, <2>4 DEF Divides
    <3>2. Credit(Of(k, S), "produced") = parts /\ Credit(Of(k, S), "energy") = share
      BY <1>8, <1>13, <2>1, <2>4, <3>1, IntervalHas
    <3> HIDE DEF S
    <3> QED  BY <2>2, <2>4, <3>2
  <2> QED  BY <2>3, <2>4
<1>17. SlicesSound(elapsed, Shifts) /\ TimedOf(elapsed) = elapsed
  <2>1. CreditUpTo(prev, m) \in Nat
    BY <1>1, <1>3 DEF CreditUpTo
  <2> HIDE DEF parts, share, spread, long, sameSecond, ofMeter
  <2> QED  BY <1>3, <1>8, <1>13, <2>1, IntervalSliced
<1>18. "produced" \in Quantities /\ "energy" \in Quantities
  BY DEF Quantities
<1>19. SlicesSound({}, Shifts) /\ NoTime({})
  BY FS_EmptySet DEF SlicesSound, NoTime
<1>20. /\ SlicesSound(sameSecond, Shifts) /\ \A s \in sameSecond : s.produced = made
       /\ silence # 0 => sameSecond = {}
       /\ Credit(Of(k, sameSecond), "produced") = IF silence = 0 THEN made ELSE 0
       /\ Credit(Of(k, sameSecond), "energy") = 0
  <2>1. CASE silence = 0
    <3>1. m.time \in Nat /\ 0 \in Nat
      BY <1>1
    <3> DEFINE S == PointSlice(m.time, made, 0)
    <3>2. SlicesSound(S, Shifts)
      BY <1>5, <3>1, PointSliced
    <3>3. Credit(Of(k, S), "produced") = made /\ Credit(Of(k, S), "energy") = 0 /\ \A s \in S : s.produced = made
      BY <1>5, <3>1, PointHas
    <3> HIDE DEF S
    <3>4. sameSecond = S
      BY <2>1 DEF S
    <3> HIDE DEF sameSecond
    <3> QED  BY <2>1, <3>2, <3>3, <3>4
  <2>2. CASE silence # 0
    <3>1. sameSecond = {}
      BY <2>2
    <3> HIDE DEF sameSecond
    <3> QED  BY <1>18, <1>19, <2>2, <3>1, NoneHas
  <2> QED  BY <2>1, <2>2
<1> DEFINE apart == spread > 0 /\ (since # prev.time \/ since = m.time)
<1>21. /\ SlicesSound(ofMeter, Shifts) /\ NoTime(ofMeter) /\ \A s \in ofMeter : s.produced = 0
       /\ Credit(Of(k, ofMeter), "produced") = 0
       /\ Credit(Of(k, ofMeter), "energy") = IF apart THEN spread ELSE 0
  <2>1. CASE apart
    <3> DEFINE S == EnergySlices(since, m.time, spread)
    <3>1. used # 0
      BY <1>6, <2>1
    <3>2. since \in Nat \ {0} /\ m.time \in Nat /\ since <= m.time /\ m.time - since <= GapLimit
      BY <1>1, <1>7, <1>11, <2>1, <3>1
    <3>3. SlicesSound(S, Shifts) /\ NoTime(S)
      <4> HIDE DEF parts, share, spread, long, elapsed, sameSecond, ofMeter, apart
      <4> QED  BY <1>13, <3>2, EnergySliced
    <3>4. Credit(Of(k, S), "energy") = spread /\ Credit(Of(k, S), "produced") = 0 /\ \A s \in S : s.produced = 0
      <4> HIDE DEF parts, share, spread, long, elapsed, sameSecond, ofMeter, apart
      <4> QED  BY <1>13, <3>2, EnergyHas
    <3>5. ofMeter = S
      BY <2>1
    <3> HIDE DEF S, ofMeter, apart
    <3> QED  BY <2>1, <3>3, <3>4, <3>5
  <2>2. CASE ~apart
    <3>1. ofMeter = {}
      BY <2>2
    <3> HIDE DEF ofMeter, apart
    <3> QED  BY <1>18, <1>19, <2>2, <3>1, NoneHas
  <2> QED  BY <2>1, <2>2
<1> HIDE DEF elapsed, sameSecond, ofMeter
<1> DEFINE first == elapsed \cup sameSecond
<1>22. /\ SlicesSound(first, Shifts)
       /\ Credit(Of(k, first), "produced") = parts
       /\ Credit(Of(k, first), "energy") = IF silence # 0 THEN share ELSE 0
  <2>1. elapsed \cap sameSecond = {}
    BY <1>16, <1>20
  <2>2. CASE silence = 0
    <3>1. parts = made
      BY <1>12, <2>2
    <3>2. first = {} \cup sameSecond
      BY <1>16, <2>2
    <3>3. first = sameSecond
      BY <3>2
    <3> HIDE DEF first, parts, share
    <3> QED  BY <1>20, <2>2, <3>1, <3>3
  <2>3. CASE silence # 0
    <3>1. first = elapsed
      BY <1>20, <2>3
    <3> HIDE DEF first, parts, share
    <3> QED  BY <1>16, <1>17, <2>3, <3>1
  <2> QED  BY <2>2, <2>3
<1>23. first \cap ofMeter = {}
  <2>1. \A s \in elapsed : Timed(s)
    BY <1>17 DEF TimedOf
  <2>2. \A s \in ofMeter : ~Timed(s) /\ s.produced = 0
    BY <1>21 DEF NoTime
  <2>3. \A s \in sameSecond : s.produced # 0
    BY <1>20 DEF sameSecond, PointSlice, Slice
  <2> QED  BY <2>1, <2>2, <2>3
<1> DEFINE b == IF silence # 0 THEN share ELSE 0
           d == IF apart THEN spread ELSE 0
<1>24. b \in Nat /\ d \in Nat /\ b + d = spread
  <2>1. b \in Nat /\ d \in Nat /\ spread \in Nat
    BY <1>13
  <2>2. CASE spread = 0
    BY <2>2
  <2>3. CASE spread # 0
    <3>1. spread > 0
      BY <1>13, <2>3
    <3>2. CASE since = prev.time
      <4> HIDE DEF spread
      <4> QED  BY <1>10, <1>13, <3>1, <3>2
    <3>3. CASE since # prev.time
      <4> HIDE DEF spread
      <4> QED  BY <1>13, <3>1, <3>3
    <3> QED  BY <3>2, <3>3
  <2> QED  BY <2>2, <2>3, <2>1
<1>25. /\ Credit(Of(k, first \cup ofMeter), "produced") = parts
       /\ Credit(Of(k, first \cup ofMeter), "energy") = spread
  <2>1. Credit(Of(k, first), "energy") = b /\ Credit(Of(k, ofMeter), "energy") = d /\ parts \in Nat
    BY <1>13, <1>21, <1>22
  <2> HIDE DEF first, b, d, parts, spread
  <2>2. Credit(Of(k, first \cup ofMeter), "produced") = parts + 0 /\ Credit(Of(k, first \cup ofMeter), "energy") = b + d
    BY <1>21, <1>22, <1>23, <1>24, <2>1, BothHave
  <2> QED  BY <1>24, <2>1, <2>2
<1>26. RecordHas(rec, k, made, used)
  <2> HIDE DEF first, parts, spread
  <2>1. rec.slices = first \cup ofMeter /\ rec.gap = gap
    BY <1>2 DEF first
  <2> QED  BY <1>14, <1>15, <1>25, <2>1 DEF RecordHas
<1> QED  BY <1>5, <1>6, <1>26 DEF rec, m

-----------------------------------------------------------------------------
(* So has a packet; a late reading has nothing.                            *)

(* A packet has all that the meter went up by, and no parts.               *)
LEMMA PacketHas ==
  ASSUME LedgerAssumption, scene \in Scenes, company \in DOMAIN scene.shifts, AlwaysShift(Shifts),
         NEW i \in DOMAIN scene.messages, scene.messages[i].packet, NEW prev, StateTyped(prev),
         MeterRuns(prev, scene.messages[i]), NEW k
  PROVE  RecordHas(PacketRecord(prev, i), k, 0, MeterGain(prev, scene.messages[i]).delta)
<1> DEFINE m     == scene.messages[i]
           step  == EnergyStep(prev.meter, KwhOf(m), m.time)
           used  == step.delta
           since == MeterFrom(prev, m.time)
           long  == used > 0 /\ m.time - since > GapLimit
           none  == used = 0 \/ long
           rec   == PacketRecord(prev, i)
           S     == EnergySlices(since, m.time, used)
<1>1. MessageSound(m) /\ m.time \in Nat \ {0} /\ GapLimit \in Nat \ {0}
  BY DEF LedgerAssumption, MessageSound
<1>2. /\ rec.slices = (IF none THEN {} ELSE S)
      /\ rec.gap = IF long THEN Gap(since, m.time, 0, 0, used) ELSE NoGap
  BY DEF PacketRecord, Record
<1>3. used \in Nat /\ used = MeterGain(prev, m).delta
  <2>1. KwhOf(m) \in Nat \cup {NoReading} /\ m.time \in Nat
    BY <1>1, KwhTyped
  <2>2. prev.meter.meter \in Nat /\ prev.meter.at \in Nat
    BY DEF StateTyped
  <2>3. used = MeterGain(prev, m).delta
    BY DEF MeterGain
  <2> HIDE DEF m
  <2> QED  BY <2>1, <2>2, <2>3, EnergyTyped
<1>4. /\ used # 0 => since = prev.meter.at /\ since \in 1..m.time /\ Divides(used)
      /\ since \in Nat
  <2>1. since \in Nat
    <3>1. m.time \in Nat
      BY <1>1
    <3> HIDE DEF m
    <3> QED  BY <3>1, SinceTyped
  <2>2. used # 0 => prev.meter # NoMeter /\ prev.meter.at \in 1..m.time /\ Divides(used)
    BY <1>3 DEF MeterRuns
  <2> HIDE DEF used
  <2> QED  BY <2>1, <2>2 DEF MeterFrom
<1>5. "produced" \in Quantities /\ "energy" \in Quantities
  BY DEF Quantities
<1> HIDE DEF used, since, m, rec, step
<1>6. CASE none
  <2>1. rec.slices = {} /\ rec.gap.parts = 0 /\ rec.gap.energy = used
    BY <1>2, <1>3, <1>6 DEF Gap, NoGap
  <2>2. Credit(Of(k, {}), "produced") = 0 /\ Credit(Of(k, {}), "energy") = 0
    BY <1>5, NoneHas
  <2>3. RecordHas(rec, k, 0, used)
    BY <1>3, <2>1, <2>2 DEF RecordHas
  <2> QED  BY <1>3, <2>3 DEF rec, m
<1>7. CASE ~none
  <2>1. rec.slices = S /\ rec.gap.parts = 0 /\ rec.gap.energy = 0
    BY <1>2, <1>7 DEF NoGap
  <2>2. since \in Nat \ {0} /\ m.time \in Nat /\ since <= m.time /\ m.time - since <= GapLimit /\ Divides(used)
    BY <1>1, <1>3, <1>4, <1>7
  <2>3. Credit(Of(k, S), "energy") = used /\ Credit(Of(k, S), "produced") = 0
    BY <1>3, <2>2, EnergyHas
  <2> HIDE DEF S
  <2>4. RecordHas(rec, k, 0, used)
    BY <1>3, <2>1, <2>3 DEF RecordHas
  <2> QED  BY <1>3, <2>4 DEF rec, m
<1> QED  BY <1>6, <1>7

(* Nor has a late reading anything.                                        *)
LEMMA LateHas ==
  ASSUME NEW i, NEW k
  PROVE  RecordHas(LateRecord(i), k, 0, 0)
<1>1. Credit(Of(k, {}), "produced") = 0 /\ Credit(Of(k, {}), "energy") = 0
  <2>1. "produced" \in Quantities /\ "energy" \in Quantities
    BY DEF Quantities
  <2> QED  BY <2>1, NoneHas
<1>2. LateRecord(i).slices = {} /\ LateRecord(i).gap = NoGap
  BY DEF LateRecord, Record
<1> QED  BY <1>1, <1>2 DEF RecordHas, NoGap

-----------------------------------------------------------------------------
(* A journal has what its records have.                                    *)

(* The gaps of the first n records of a journal lg, and what is in some.   *)
GapOf(lg, i)    == [seq |-> i, company |-> lg[i].company, gap |-> lg[i].gap]
GapsUpTo(lg, n) == {GapOf(lg, i) : i \in {k \in 1..n : lg[k].gap # NoGap}}
GapSum(G, g)    == SumFunction([x \in G |-> x.gap[g]])

GapKinds == {"parts", "energy"}
Gapped(lg, n) == \A i \in 1..n : \A g \in GapKinds : lg[i].gap[g] \in Nat

(* They are finitely many, of naturals.                                    *)
LEMMA GapsSound ==
  ASSUME NEW lg, NEW n \in Nat, Gapped(lg, n)
  PROVE  IsFiniteSet(GapsUpTo(lg, n)) /\ \A x \in GapsUpTo(lg, n) : \A g \in GapKinds : x.gap[g] \in Nat
<1> DEFINE I == {k \in 1..n : lg[k].gap # NoGap}
           f == [i \in I |-> GapOf(lg, i)]
<1>1. IsFiniteSet(1..n) /\ I \in SUBSET (1..n)
  BY FS_Interval
<1>2. IsFiniteSet(I)
  BY <1>1, FS_Subset
<1>3. DOMAIN f = I /\ f = [i \in I |-> f[i]]
  OBVIOUS
<1>4. GapsUpTo(lg, n) = {f[i] : i \in I}
  BY DEF GapsUpTo
<1>5. \A i \in I : \A g \in GapKinds : GapOf(lg, i).gap[g] \in Nat
  BY DEF Gapped, GapOf
<1>6. \A x \in GapsUpTo(lg, n) : \A g \in GapKinds : x.gap[g] \in Nat
  BY <1>5 DEF GapsUpTo
<1> HIDE DEF f, I
<1> QED  BY <1>2, <1>3, <1>4, <1>6, ImageFinite

(* A sum of none, and of one more.                                         *)
LEMMA GapSums ==
  ASSUME NEW G, IsFiniteSet(G), NEW g, \A x \in G : x.gap[g] \in Nat
  PROVE  /\ GapSum(G, g) \in Nat /\ (G = {} => GapSum(G, g) = 0)
         /\ \A x \in G : GapSum(G, g) = GapSum(G \ {x}, g) + x.gap[g]
<1> DEFINE f == [x \in G |-> x.gap[g]]
<1>1. GapSum(G, g) = SumFunctionOnSet(f, G)
  BY DEF GapSum, SumFunction
<1>2. \A x \in G : f[x] \in Nat /\ f[x] = x.gap[g]
  OBVIOUS
<1> HIDE DEF f
<1>3. SumFunctionOnSet(f, G) \in Nat /\ (G = {} => SumFunctionOnSet(f, G) = 0)
  BY <1>2, SumIsNatural, SumFirst
<1>4. ASSUME NEW x \in G
      PROVE  GapSum(G, g) = GapSum(G \ {x}, g) + x.gap[g]
  <2> DEFINE H == G \ {x}
             h == [y \in H |-> y.gap[g]]
  <2>1. GapSum(H, g) = SumFunctionOnSet(h, H)
    BY DEF GapSum, SumFunction
  <2>2. IsFiniteSet(H) /\ H \in SUBSET G
    BY FS_Subset
  <2>3. \A y \in H : h[y] \in Nat /\ h[y] = f[y]
    BY <1>2
  <2> HIDE DEF h
  <2>4. SumFunctionOnSet(h, H) = SumFunctionOnSet(f, H) /\ SumFunctionOnSet(f, H) \in Int
    <3>1. \A y \in H : h[y] \in Int /\ h[y] = f[y]
      BY <2>3
    <3>2. \A y \in H : f[y] \in Int
      BY <2>3
    <3> HIDE DEF H
    <3> QED  BY <2>2, <3>1, <3>2, SumsAlike, SumTakes
  <2>5. SumFunctionOnSet(f, G) = f[x] + SumFunctionOnSet(f, H)
    BY <1>2, SumTakes
  <2> QED  BY <1>1, <1>2, <2>1, <2>4, <2>5
<1> QED  BY <1>1, <1>3, <1>4

(* One record more, with a gap or without.                                 *)
LEMMA GapsNext ==
  ASSUME NEW lg, NEW new, NEW n \in Nat, \A i \in 1..n : new[i] = lg[i], Gapped(lg, n),
         \A g \in GapKinds : new[n + 1].gap[g] \in Nat
  PROVE  /\ Gapped(new, n + 1)
         /\ \A g \in GapKinds : GapSum(GapsUpTo(new, n + 1), g) = GapSum(GapsUpTo(lg, n), g) + new[n + 1].gap[g]
<1> DEFINE G == GapsUpTo(lg, n)
           H == GapsUpTo(new, n + 1)
           x == GapOf(new, n + 1)
<1>1. \A i : i \in 1..(n + 1) <=> i \in 1..n \/ i = n + 1
  OBVIOUS
<1>2. Gapped(new, n + 1)
  BY <1>1 DEF Gapped
<1>3. IsFiniteSet(H) /\ \A y \in H : \A g \in GapKinds : y.gap[g] \in Nat
  <2>1. n + 1 \in Nat
    OBVIOUS
  <2> QED  BY <1>2, <2>1, GapsSound
<1>4. \A y : y \in G <=> \E i \in 1..n : lg[i].gap # NoGap /\ y = GapOf(lg, i)
  BY DEF GapsUpTo
<1>5. \A y : y \in H <=> \E i \in 1..(n + 1) : new[i].gap # NoGap /\ y = GapOf(new, i)
  BY DEF GapsUpTo
<1>6. \A i \in 1..n : GapOf(new, i) = GapOf(lg, i) /\ GapOf(new, i) # x
  BY DEF GapOf
<1>7. \A y : y \in H <=> y \in G \/ (new[n + 1].gap # NoGap /\ y = x)
  BY <1>1, <1>4, <1>5, <1>6
<1>8. x \notin G
  BY <1>4, <1>6
<1>9. x.gap = new[n + 1].gap
  BY DEF GapOf
<1> HIDE DEF G, H, x
<1>10. ASSUME NEW g \in GapKinds
       PROVE  GapSum(H, g) = GapSum(G, g) + new[n + 1].gap[g]
  <2>1. CASE new[n + 1].gap # NoGap
    <3>1. x \in H /\ H \ {x} = G
      BY <1>7, <1>8, <2>1
    <3>2. GapSum(H, g) = GapSum(H \ {x}, g) + x.gap[g]
      BY <1>3, <3>1, GapSums
    <3> QED  BY <1>9, <3>1, <3>2
  <2>2. CASE new[n + 1].gap = NoGap
    <3>1. H = G
      BY <1>7, <2>2
    <3>2. new[n + 1].gap[g] = 0
      BY <2>2 DEF NoGap, GapKinds
    <3>3. GapSum(H, g) \in Nat
      BY <1>3, GapSums
    <3> QED  BY <3>1, <3>2, <3>3
  <2> QED  BY <2>1, <2>2
<1> QED  BY <1>2, <1>10 DEF G, H

(* What the first n records have, in their slices and in their gaps.       *)
PlacedOf(lg, n) == UNION {Of(i, lg[i].slices) : i \in 1..n}

GapKind(q) == IF q = "produced" THEN "parts" ELSE "energy"
Given(lg, n, q) == Credit(PlacedOf(lg, n), q) + GapSum(GapsUpTo(lg, n), GapKind(q))

(* One record more gives what it has.                                      *)
LEMMA GivenNext ==
  ASSUME NEW lg, NEW new, NEW n \in Nat, \A i \in 1..n : new[i] = lg[i], Gapped(lg, n),
         PlacedSound(PlacedOf(lg, n)), NEW shifts, SlicesSound(new[n + 1].slices, shifts),
         NEW parts \in Nat, NEW energy \in Nat, RecordHas(new[n + 1], n + 1, parts, energy)
  PROVE  /\ Gapped(new, n + 1)
         /\ Given(new, n + 1, "produced") = Given(lg, n, "produced") + parts
         /\ Given(new, n + 1, "energy") = Given(lg, n, "energy") + energy
         /\ Given(lg, n, "produced") \in Nat /\ Given(lg, n, "energy") \in Nat
<1> DEFINE rec == new[n + 1]
           A   == PlacedOf(lg, n)
           B   == Of(n + 1, rec.slices)
<1>1. "produced" \in Quantities /\ "energy" \in Quantities /\ "parts" \in GapKinds /\ "energy" \in GapKinds
  BY DEF Quantities, GapKinds
<1>2. \A g \in GapKinds : rec.gap[g] \in Nat
  BY DEF RecordHas, GapKinds
<1>3. /\ Gapped(new, n + 1)
      /\ \A g \in GapKinds : GapSum(GapsUpTo(new, n + 1), g) = GapSum(GapsUpTo(lg, n), g) + rec.gap[g]
  BY <1>2, GapsNext
<1>4. \A g \in GapKinds : GapSum(GapsUpTo(lg, n), g) \in Nat
  BY GapsSound, GapSums
<1>5. PlacedSound(A) /\ PlacedSound(B)
  BY OfSound
<1>6. A \cap B = {} /\ PlacedOf(new, n + 1) = A \cup B
  <2>1. \A p : p \in A <=> \E i \in 1..n : p \in Of(i, lg[i].slices)
    BY DEF PlacedOf
  <2>2. \A p : p \in PlacedOf(new, n + 1) <=> \E i \in 1..(n + 1) : p \in Of(i, new[i].slices)
    BY DEF PlacedOf
  <2>3. \A i : i \in 1..(n + 1) <=> i \in 1..n \/ i = n + 1
    OBVIOUS
  <2>4. \A p : p \in PlacedOf(new, n + 1) <=> p \in A \/ p \in B
    BY <2>1, <2>2, <2>3
  <2>5. \A i, S, p : p \in Of(i, S) => p[1] = i
    BY DEF Of
  <2>6. n + 1 \notin 1..n
    OBVIOUS
  <2> HIDE DEF A, B
  <2>7. \A p \in A : p[1] # n + 1
    BY <2>1, <2>5, <2>6
  <2>8. \A p \in B : p[1] = n + 1
    BY <2>5 DEF B
  <2> QED  BY <2>4, <2>7, <2>8
<1> HIDE DEF A, B
<1>7. ASSUME NEW q \in Quantities
      PROVE  /\ Credit(A \cup B, q) = Credit(A, q) + Credit(B, q)
             /\ Credit(A, q) \in Nat /\ Credit(B, q) \in Nat
  BY <1>5, <1>6, CreditsAdd, CreditTyped
<1>8. Credit(B, "produced") + rec.gap["parts"] = parts /\ Credit(B, "energy") + rec.gap["energy"] = energy
  BY Zenon DEF RecordHas, B
<1>9. GapKind("produced") = "parts" /\ GapKind("energy") = "energy"
  BY DEF GapKind
<1>10. Given(new, n + 1, "produced") = Given(lg, n, "produced") + parts /\ Given(lg, n, "produced") \in Nat
  <2> DEFINE g == GapSum(GapsUpTo(lg, n), "parts")
             x == rec.gap["parts"]
  <2>1. g \in Nat /\ x \in Nat /\ GapSum(GapsUpTo(new, n + 1), "parts") = g + x
    BY <1>1, <1>2, <1>3, <1>4
  <2>2. Given(new, n + 1, "produced") = Credit(A \cup B, "produced") + (g + x) /\ Given(lg, n, "produced") = Credit(A, "produced") + g
    BY <1>6, <1>9, <2>1 DEF Given, A
  <2> HIDE DEF g
  <2> QED  BY <1>1, <1>7, <1>8, <2>1, <2>2
<1>11. Given(new, n + 1, "energy") = Given(lg, n, "energy") + energy /\ Given(lg, n, "energy") \in Nat
  <2> DEFINE g == GapSum(GapsUpTo(lg, n), "energy")
             x == rec.gap["energy"]
  <2>1. g \in Nat /\ x \in Nat /\ GapSum(GapsUpTo(new, n + 1), "energy") = g + x
    BY <1>1, <1>2, <1>3, <1>4
  <2>2. Given(new, n + 1, "energy") = Credit(A \cup B, "energy") + (g + x) /\ Given(lg, n, "energy") = Credit(A, "energy") + g
    BY <1>6, <1>9, <2>1 DEF Given, A
  <2> HIDE DEF g
  <2> QED  BY <1>1, <1>7, <1>8, <2>1, <2>2
<1> QED  BY <1>3, <1>10, <1>11

(* A value of the first n records, NoCount where there is none: what has   *)
(* been given is what it climbed from the first there is to that now.      *)
Climbed(n, v, given, now) ==
  /\ now = NoCount <=> \A i \in 1..n : v[i] = NoCount
  /\ now = NoCount => given = 0
  /\ \A i \in 1..n : v[i] # NoCount /\ (\A j \in 1..(i - 1) : v[j] = NoCount) => given = now - v[i]

(* A step that gives what the value goes up by.                            *)
ClimbsBy(now, next, delta) ==
  /\ now = NoCount => delta = 0
  /\ now # NoCount => next # NoCount /\ next = now + delta

(* By such a step, in a record more, it stays so.                          *)
LEMMA ClimbedNext ==
  ASSUME NEW n \in Nat, NEW v, NEW w, NEW given \in Nat, NEW delta \in Nat,
         NEW now \in Nat \cup {NoCount}, NEW next \in Nat \cup {NoCount},
         \A i \in 1..n : w[i] = v[i] /\ v[i] \in Nat \cup {NoCount},
         Climbed(n, v, given, now), ClimbsBy(now, next, delta),
         w[n + 1] = next \/ (w[n + 1] = NoCount /\ next = now /\ delta = 0)
  PROVE  Climbed(n + 1, w, given + delta, next)
<1>1. \A i : i \in 1..(n + 1) <=> i \in 1..n \/ i = n + 1
  OBVIOUS
<1>2. next = NoCount => now = NoCount
  BY DEF ClimbsBy
<1>3. next = NoCount <=> \A i \in 1..(n + 1) : w[i] = NoCount
  BY <1>1, <1>2 DEF Climbed
<1>4. next = NoCount => given + delta = 0
  BY <1>2 DEF Climbed, ClimbsBy
<1>5. ASSUME NEW i \in 1..(n + 1), w[i] # NoCount, \A j \in 1..(i - 1) : w[j] = NoCount
      PROVE  given + delta = next - w[i]
  <2>1. CASE i = n + 1
    <3>1. \A j \in 1..n : v[j] = NoCount
      BY <1>5, <2>1
    <3>2. now = NoCount /\ given = 0 /\ delta = 0
      BY <3>1 DEF Climbed, ClimbsBy
    <3>3. w[i] = next /\ next \in Nat
      BY <1>5, <2>1 DEF NoCount
    <3> QED  BY <3>2, <3>3
  <2>2. CASE i # n + 1
    <3>1. i \in 1..n /\ \A j \in 1..(i - 1) : j \in 1..n
      BY <2>2
    <3>2. v[i] # NoCount /\ (\A j \in 1..(i - 1) : v[j] = NoCount) /\ w[i] = v[i]
      BY <1>5, <3>1
    <3>3. given = now - v[i] /\ now # NoCount
      BY <3>1, <3>2 DEF Climbed
    <3>4. next = now + delta /\ now \in Nat /\ v[i] \in Nat
      BY <3>1, <3>2, <3>3 DEF ClimbsBy
    <3> QED  BY <3>2, <3>3, <3>4
  <2> QED  BY <2>1, <2>2
<1> QED  BY <1>3, <1>4, <1>5 DEF Climbed

-----------------------------------------------------------------------------
(* What the counter and the meter climb from one message to the next.      *)

(* What the counter and the meter last showed; NoCount for none.           *)
ValueOf(meter) == IF meter = NoMeter THEN NoCount ELSE meter.meter
CountsOf(lg) == [i \in DOMAIN lg |-> IF lg[i].kind = "late" THEN NoCount ELSE lg[i].state.base]
MetersOf(lg) == [i \in DOMAIN lg |-> IF lg[i].kind = "late" THEN NoCount ELSE ValueOf(lg[i].state.meter)]

(* A state has what messages said that are no later than it.               *)
Traced(st) ==
  /\ st.meterSeen \in Nat
  /\ st.base # NoCount => \E j \in DOMAIN scene.messages :
       LET m == scene.messages[j] IN ~m.packet /\ m.count = st.base /\ m.time <= st.time
  /\ st.meter # NoMeter => \E j \in DOMAIN scene.messages :
       LET m == scene.messages[j] IN KwhOf(m) = st.meter.meter /\ KwhOf(m) > 0 /\ m.time = st.meter.at

(* A step that the counter makes at once, it makes after any silence.      *)
LEMMA StepsAlike ==
  ASSUME NEW prev \in Nat, NEW curr \in Nat, PartsDelta(prev, curr, 0) = curr - prev, NEW gap \in Nat
  PROVE  PartsDelta(prev, curr, gap) = curr - prev /\ curr >= prev
BY DEF PartsDelta, GapRecovery, MaxPartsDelta, MaxPartsDeltaGap, SmallCount, CarryOver

(* The counter steps by what it shows more.                                *)
LEMMA CountClimbs ==
  ASSUME LedgerAssumption, SteadyIsSo, scene \in Scenes, "steady" \in scene.flags,
         NEW i \in DOMAIN scene.messages, ~scene.messages[i].packet, NEW prev, StateTyped(prev), Traced(prev),
         prev.time <= scene.messages[i].time
  PROVE  LET gain == CounterGain(prev, scene.messages[i]) IN
         /\ ClimbsBy(prev.base, gain.baseline, gain.delta)
         /\ gain.baseline \in {prev.base, scene.messages[i].count} /\ gain.delta \in Nat
         /\ gain.baseline \in Nat \cup {NoCount}
<1> DEFINE m    == scene.messages[i]
           gap  == IF prev.time = 0 THEN 0 ELSE m.time - prev.time
           gain == CounterGain(prev, m)
           base == prev.base
           regressed == SmallCount < m.count /\ m.count < base
<1>1. MessageSound(m)
  BY DEF LedgerAssumption
<1>2. m.count \in Nat \cup {NoCount} /\ m.time \in Nat \ {0} /\ base \in Nat \cup {NoCount} /\ prev.time \in Nat
  BY <1>1 DEF MessageSound, StateTyped
<1>3. gap \in Nat
  BY <1>2
<1>4. gain = PartsCounterStep(base, m.count, gap)
  BY DEF CounterGain
<1> HIDE DEF gain, gap
<1>5. gain = IF m.count = NoCount \/ regressed THEN [delta |-> 0, baseline |-> base]
             ELSE [delta |-> IF base = NoCount THEN 0 ELSE PartsDelta(base, m.count, gap), baseline |-> m.count]
  BY <1>4 DEF PartsCounterStep
<1>6. CASE m.count = NoCount \/ regressed
  <2>1. gain.delta = 0 /\ gain.baseline = base
    BY <1>5, <1>6
  <2>2. base \in Int
    BY <1>2 DEF NoCount
  <2> QED  BY <1>2, <2>1, <2>2 DEF ClimbsBy, gain
<1>7. CASE ~(m.count = NoCount \/ regressed)
  <2>1. gain.delta = (IF base = NoCount THEN 0 ELSE PartsDelta(base, m.count, gap)) /\ gain.baseline = m.count
    BY <1>5, <1>7
  <2>2. CASE base = NoCount
    BY <1>2, <2>1, <2>2 DEF ClimbsBy, gain
  <2>3. CASE base # NoCount
    <3>1. PICK j \in DOMAIN scene.messages :
            ~scene.messages[j].packet /\ scene.messages[j].count = base /\ scene.messages[j].time <= prev.time
      BY <2>3 DEF Traced
    <3> DEFINE l == scene.messages[j]
    <3>2. l.time <= m.time
      <4>1. MessageSound(l)
        BY DEF LedgerAssumption
      <4>2. l.time \in Nat
        BY <4>1 DEF MessageSound
      <4> QED  BY <1>2, <3>1, <4>2
    <3>3. CountFollows(l, m)
      BY <3>2 DEF SteadyIsSo
    <3>4. base \in Nat /\ m.count \in Nat
      BY <1>2, <1>7, <2>3
    <3>5. PartsDelta(base, m.count, 0) = m.count - base
      BY <1>7, <2>3, <3>1, <3>3 DEF CountFollows
    <3> HIDE DEF m, base
    <3>6. PartsDelta(base, m.count, gap) = m.count - base /\ m.count >= base
      BY <1>3, <3>4, <3>5, StepsAlike
    <3>7. gain.delta = m.count - base /\ gain.delta \in Nat /\ m.count = base + gain.delta
      BY <2>1, <2>3, <3>4, <3>6
    <3> QED  BY <1>2, <1>7, <2>1, <3>7 DEF ClimbsBy, gain, m, base
  <2> QED  BY <2>2, <2>3
<1> QED  BY <1>6, <1>7

(* The meter steps by what it shows more, which can be shared out.         *)
LEMMA MeterClimbs ==
  ASSUME LedgerAssumption, SteadyIsSo, scene \in Scenes, "steady" \in scene.flags,
         NEW i \in DOMAIN scene.messages, NEW prev, StateTyped(prev), Traced(prev),
         scene.messages[i].packet => prev.meter.at <= scene.messages[i].time
  PROVE  LET m == scene.messages[i]  gain == MeterGain(prev, m) IN
         /\ ClimbsBy(ValueOf(prev.meter), ValueOf(gain.last), gain.delta)
         /\ ValueOf(prev.meter) \in Nat \cup {NoCount} /\ ValueOf(gain.last) \in Nat \cup {NoCount}
         /\ gain.last = prev.meter \/ (gain.last = [meter |-> KwhOf(m), at |-> m.time] /\ KwhOf(m) > 0)
         /\ MeterRuns(prev, m) /\ gain.delta \in Nat
<1> DEFINE m       == scene.messages[i]
           reading == IF m.packet THEN KwhOf(m) ELSE OrderedEnergy(prev, m)
           gain    == MeterGain(prev, m)
           last    == prev.meter
           climb   == reading - last.meter
           counted == last # NoMeter /\ climb >= 0 /\ ~Misread(climb, m.time - last.at)
<1>1. MessageSound(m)
  BY DEF LedgerAssumption
<1>2. /\ m.time \in Nat \ {0} /\ m.packet \in BOOLEAN
      /\ last.meter \in Nat /\ last.at \in Nat
      /\ KwhOf(m) \in Nat \cup {NoReading}
  BY <1>1, KwhTyped DEF MessageSound, StateTyped
<1>3. ValueOf(last) \in Nat \cup {NoCount}
  BY <1>2 DEF ValueOf
<1>4. gain = IF reading <= 0 THEN [delta |-> 0, last |-> last]
             ELSE [delta |-> IF counted THEN climb ELSE 0, last |-> [meter |-> reading, at |-> m.time]]
  BY DEF MeterGain, EnergyStep
<1>5. reading # NoReading => reading = KwhOf(m) /\ last.at <= m.time
  BY <1>2 DEF OrderedEnergy
<1>6. reading \in Nat \cup {NoReading}
  BY <1>2 DEF OrderedEnergy
<1> HIDE DEF gain, reading
<1>7. CASE reading <= 0
  <2>1. gain.delta = 0 /\ gain.last = last
    BY <1>4, <1>7
  <2>2. ValueOf(last) \in Int
    BY <1>3 DEF NoCount
  <2> HIDE DEF last
  <2>3. ClimbsBy(ValueOf(last), ValueOf(last), 0)
    BY <2>2 DEF ClimbsBy
  <2>4. MeterRuns(prev, m)
    BY <2>1 DEF MeterRuns, gain
  <2> QED  BY <1>3, <2>1, <2>3, <2>4 DEF gain, last
<1>8. CASE ~(reading <= 0)
  <2>1. reading \in Nat /\ reading > 0 /\ reading = KwhOf(m) /\ last.at <= m.time
    BY <1>5, <1>6, <1>8 DEF NoReading
  <2>2. gain.delta = (IF counted THEN climb ELSE 0) /\ gain.last = [meter |-> reading, at |-> m.time]
    BY <1>4, <1>8
  <2>3. gain.last # NoMeter /\ ValueOf(gain.last) = reading
    <3>1. gain.last.meter = reading /\ reading # 0
      BY <2>1, <2>2
    <3> QED  BY <3>1 DEF NoMeter, ValueOf
  <2>4. CASE last = NoMeter
    <3>1. gain.delta = 0 /\ ValueOf(last) = NoCount
      BY <2>2, <2>4 DEF ValueOf
    <3>2. ClimbsBy(ValueOf(last), ValueOf(gain.last), gain.delta)
      BY <3>1 DEF ClimbsBy
    <3>3. MeterRuns(prev, m)
      BY <3>1 DEF MeterRuns, gain
    <3> QED  BY <1>3, <2>1, <2>2, <2>3, <3>1, <3>2, <3>3 DEF gain
  <2>5. CASE last # NoMeter
    <3>1. PICK j \in DOMAIN scene.messages :
            /\ KwhOf(scene.messages[j]) = last.meter /\ KwhOf(scene.messages[j]) > 0
            /\ scene.messages[j].time = last.at
      BY <2>5 DEF Traced
    <3> DEFINE l == scene.messages[j]
    <3>2. MessageSound(l)
      BY DEF LedgerAssumption
    <3>3. l.time \in Nat \ {0} /\ l.time <= m.time
      BY <2>1, <3>1, <3>2 DEF MessageSound
    <3>4. MeterFollows(l, m)
      BY <3>3 DEF SteadyIsSo
    <3>5. climb >= 0 /\ ~Misread(climb, m.time - last.at) /\ \A d \in 1..GapLimit : climb % d = 0
      BY <2>1, <3>1, <3>4 DEF MeterFollows
    <3>6. gain.delta = climb /\ Divides(climb)
      BY <2>2, <2>5, <3>5 DEF Divides
    <3>7. climb \in Nat /\ reading = last.meter + climb
      BY <1>2, <2>1, <3>5
    <3> HIDE DEF climb
    <3>8. ClimbsBy(ValueOf(last), ValueOf(gain.last), gain.delta)
      <4>1. ValueOf(last) = last.meter
        BY <2>5 DEF ValueOf
      <4>2. reading # NoCount /\ last.meter # NoCount
        BY <1>2, <2>1 DEF NoCount
      <4> QED  BY <2>3, <3>6, <3>7, <4>1, <4>2 DEF ClimbsBy
    <3>9. last.at \in 1..m.time
      BY <1>2, <3>1, <3>3
    <3> HIDE DEF last
    <3>10. MeterRuns(prev, m)
      BY <2>5, <3>6, <3>9 DEF MeterRuns, gain, last
    <3>11. gain.delta \in Nat /\ ValueOf(gain.last) \in Nat /\ KwhOf(m) > 0
           /\ gain.last = [meter |-> KwhOf(m), at |-> m.time]
      BY <2>1, <2>2, <2>3, <3>6, <3>7
    <3> HIDE DEF gain
    <3> QED  BY <1>3, <3>8, <3>10, <3>11 DEF gain, last
  <2> QED  BY <2>4, <2>5
<1> QED  BY <1>7, <1>8

-----------------------------------------------------------------------------
(* So what they climbed is in the journal.                                 *)

(* All that the counter and the meter climbed is in the records.           *)
Conserved(lg, st) ==
  /\ Traced(st) /\ Gapped(lg, Len(lg))
  /\ Climbed(Len(lg), CountsOf(lg), Given(lg, Len(lg), "produced"), st.base)
  /\ Climbed(Len(lg), MetersOf(lg), Given(lg, Len(lg), "energy"), ValueOf(st.meter))

(* The process has the last state of the journal.                          *)
LastKept ==
  \E p \in 1..Len(log) : /\ log[p].kind # "late" /\ state = log[p].state
                         /\ \A i \in (p + 1)..Len(log) : log[i].kind = "late"

(* What is kept of a machine whose meter and counter only go up, which is  *)
(* not sold and whose journal is not lost.                                 *)
SteadyBooked ==
  /\ company = scene.owner /\ horizon = 0 /\ lost = 0
  /\ gaps = GapsUpTo(log, done)
  /\ log = <<>> => ~known /\ meters = <<>> /\ state = NullState
  /\ log # <<>> => known /\ LastKept
  /\ Conserved(log, state)

SteadyInv == "steady" \in scene.flags => SteadyBooked

(* The values of typed states.                                             *)
LEMMA ValuesTyped ==
  ASSUME NEW st, StateTyped(st)
  PROVE  st.base \in Nat \cup {NoCount} /\ ValueOf(st.meter) \in Nat \cup {NoCount}
BY DEF StateTyped, ValueOf

(* The slices of a journal are sound.                                      *)
LEMMA JournalPlaced ==
  ASSUME JournalBooked
  PROVE  /\ PlacedSound(PlacedOf(log, Len(log)))
         /\ \A n : Placed(1, n) = PlacedOf(log, n)
<1>1. \A n : Placed(1, n) = PlacedOf(log, n)
  BY DEF Placed, PlacedOf, Of
<1>2. Len(log) \in 0..Len(log) /\ 1 \in Nat \ {0}
  BY DEF JournalBooked
<1>3. PlacedSound(Placed(1, Len(log)))
  BY <1>2, PlacedAreSound
<1> QED  BY <1>1, <1>3

(* A record that has what the counter and the meter went up by.            *)
LEMMA RecordConserves ==
  ASSUME JournalBooked, NEW prev, StateTyped(prev), Conserved(log, prev), NEW next, StateTyped(next), Traced(next),
         NEW rec, NEW shifts, SlicesSound(rec.slices, shifts),
         NEW parts \in Nat, NEW energy \in Nat, RecordHas(rec, Len(log) + 1, parts, energy),
         ClimbsBy(prev.base, next.base, parts), ClimbsBy(ValueOf(prev.meter), ValueOf(next.meter), energy),
         \/ rec.kind # "late" /\ next = rec.state
         \/ rec.kind = "late" /\ next = prev /\ parts = 0 /\ energy = 0
  PROVE  Conserved(Append(log, rec), next)
<1> DEFINE n   == Len(log)
           new == Append(log, rec)
<1>1. /\ n \in Nat /\ DOMAIN log = 1..n /\ Len(new) = n + 1 /\ DOMAIN new = 1..(n + 1) /\ new[n + 1] = rec
      /\ \A j \in 1..n : new[j] = log[j]
  BY GrowsByOne DEF JournalBooked
<1>2. PlacedSound(PlacedOf(log, n)) /\ Gapped(log, n)
  BY JournalPlaced DEF Conserved
<1>3. RecordHas(new[n + 1], n + 1, parts, energy) /\ SlicesSound(new[n + 1].slices, shifts)
  BY <1>1
<1>4. \A j \in 1..n : log[j].kind # "late" => StateTyped(log[j].state)
  BY DEF JournalBooked, RecordBooked
<1> DEFINE v == CountsOf(log)
           w == CountsOf(new)
           x == MetersOf(log)
           y == MetersOf(new)
           p == Given(log, n, "produced")
           e == Given(log, n, "energy")
<1>5. Climbed(n, v, p, prev.base) /\ Climbed(n, x, e, ValueOf(prev.meter))
  BY DEF Conserved
<1> HIDE DEF new, n
<1>6. /\ Gapped(new, n + 1)
      /\ Given(new, n + 1, "produced") = p + parts /\ p \in Nat
      /\ Given(new, n + 1, "energy") = e + energy /\ e \in Nat
  <2> HIDE DEF v, w, x, y
  <2>1. /\ Gapped(new, n + 1)
        /\ Given(new, n + 1, "produced") = Given(log, n, "produced") + parts
        /\ Given(new, n + 1, "energy") = Given(log, n, "energy") + energy
        /\ Given(log, n, "produced") \in Nat /\ Given(log, n, "energy") \in Nat
    BY <1>1, <1>2, <1>3, GivenNext
  <2> QED  BY <2>1
<1>7. \A j \in 1..n : NoCount \in Nat \cup {NoCount} /\ (log[j].kind # "late" =>
        log[j].state.base \in Nat \cup {NoCount} /\ ValueOf(log[j].state.meter) \in Nat \cup {NoCount})
  BY <1>4, ValuesTyped
<1>8. /\ prev.base \in Nat \cup {NoCount} /\ next.base \in Nat \cup {NoCount}
      /\ ValueOf(prev.meter) \in Nat \cup {NoCount} /\ ValueOf(next.meter) \in Nat \cup {NoCount}
  BY ValuesTyped
<1>9. \A j \in 1..n : /\ w[j] = v[j] /\ v[j] \in Nat \cup {NoCount}
                      /\ y[j] = x[j] /\ x[j] \in Nat \cup {NoCount}
  <2> SUFFICES ASSUME NEW j \in 1..n
               PROVE  w[j] = v[j] /\ v[j] \in Nat \cup {NoCount} /\ y[j] = x[j] /\ x[j] \in Nat \cup {NoCount}
    OBVIOUS
  <2>1. j \in 1..(n + 1) /\ new[j] = log[j] /\ j \in DOMAIN new /\ j \in DOMAIN log
    BY <1>1
  <2>2. v[j] = (IF log[j].kind = "late" THEN NoCount ELSE log[j].state.base) /\ w[j] = v[j]
    BY <2>1 DEF CountsOf
  <2>3. x[j] = (IF log[j].kind = "late" THEN NoCount ELSE ValueOf(log[j].state.meter)) /\ y[j] = x[j]
    BY <2>1 DEF MetersOf
  <2> HIDE DEF v, w, x, y
  <2> QED  BY <1>7, <2>2, <2>3
<1>10. /\ w[n + 1] = next.base \/ (w[n + 1] = NoCount /\ next.base = prev.base /\ parts = 0)
       /\ y[n + 1] = ValueOf(next.meter)
            \/ (y[n + 1] = NoCount /\ ValueOf(next.meter) = ValueOf(prev.meter) /\ energy = 0)
  <2>1. n + 1 \in 1..(n + 1)
    BY <1>1
  <2>2. CASE rec.kind # "late" /\ next = rec.state
    BY <1>1, <2>1, <2>2 DEF CountsOf, MetersOf
  <2>3. CASE rec.kind = "late" /\ next = prev /\ parts = 0 /\ energy = 0
    BY <1>1, <2>1, <2>3 DEF CountsOf, MetersOf
  <2> QED  BY <2>2, <2>3
<1> HIDE DEF v, w, x, y, p, e
<1>11. Climbed(n + 1, w, p + parts, next.base)
  BY <1>1, <1>5, <1>6, <1>8, <1>9, <1>10, ClimbedNext
<1>12. Climbed(n + 1, y, e + energy, ValueOf(next.meter))
  <2> DEFINE now  == ValueOf(prev.meter)
             then == ValueOf(next.meter)
  <2>1. /\ now \in Nat \cup {NoCount} /\ then \in Nat \cup {NoCount} /\ Climbed(n, x, e, now)
        /\ ClimbsBy(now, then, energy) /\ e \in Nat /\ n \in Nat
        /\ y[n + 1] = then \/ (y[n + 1] = NoCount /\ then = now /\ energy = 0)
    BY <1>1, <1>5, <1>6, <1>8, <1>10
  <2>2. \A i \in 1..n : y[i] = x[i] /\ x[i] \in Nat \cup {NoCount}
    BY <1>9
  <2> HIDE DEF now, then
  <2>3. Climbed(n + 1, y, e + energy, then)
    BY <2>1, <2>2, ClimbedNext
  <2> QED  BY <2>3 DEF then
<1>13. Conserved(new, next)
  <2>1. Climbed(Len(new), CountsOf(new), Given(new, Len(new), "produced"), next.base) /\ Gapped(new, Len(new))
    BY <1>1, <1>6, <1>11 DEF w
  <2>2. Climbed(Len(new), MetersOf(new), Given(new, Len(new), "energy"), ValueOf(next.meter))
    BY <1>1, <1>6, <1>12 DEF y
  <2> QED  BY <2>1, <2>2 DEF Conserved
<1> QED  BY <1>13 DEF new

(* A late reading.                                                         *)
LEMMA LateConserves ==
  ASSUME JournalBooked, NEW prev, StateTyped(prev), Conserved(log, prev), NEW i
  PROVE  Conserved(Append(log, LateRecord(i)), prev)
<1> DEFINE rec == LateRecord(i)
<1>1. rec.kind = "late" /\ SlicesSound(rec.slices, Shifts)
  BY LateBooked
<1>2. RecordHas(rec, Len(log) + 1, 0, 0)
  BY LateHas
<1>3. 0 \in Nat /\ Traced(prev)
  BY Zenon DEF Conserved
<1>4. ClimbsBy(prev.base, prev.base, 0) /\ ClimbsBy(ValueOf(prev.meter), ValueOf(prev.meter), 0)
  <2>1. prev.base \in Int /\ ValueOf(prev.meter) \in Int
    BY ValuesTyped DEF NoCount
  <2> QED  BY <2>1 DEF ClimbsBy
<1> HIDE DEF rec
<1>5. Conserved(Append(log, rec), prev)
  BY <1>1, <1>2, <1>3, <1>4, RecordConserves
<1> QED  BY <1>5 DEF rec

(* A message that is accepted.                                             *)
LEMMA MessageConserves ==
  ASSUME JournalBooked, LedgerAssumption, SteadyIsSo, "steady" \in scene.flags,
         NEW i \in DOMAIN scene.messages, NEW prev, StateTyped(prev), Conserved(log, prev),
         LET m == scene.messages[i] IN IF m.packet THEN prev.meter.at <= m.time ELSE prev.time <= m.time
  PROVE  LET rec == IF scene.messages[i].packet THEN PacketRecord(prev, i) ELSE SnapshotRecord(prev, i)
         IN  Conserved(Append(log, rec), rec.state)
<1> DEFINE m == scene.messages[i]
           k == Len(log) + 1
<1>1. scene \in Scenes /\ company \in DOMAIN scene.shifts /\ MessageSound(m) /\ Traced(prev)
  BY DEF JournalBooked, LedgerAssumption, Conserved
<1>2. AlwaysShift(Shifts)
  BY <1>1, AlwaysInShift DEF Shifts
<1>3. m.time \in Nat \ {0} /\ prev.time \in Nat /\ prev.meterSeen \in Nat
  BY <1>1 DEF MessageSound, StateTyped, Traced
<1> DEFINE gain == MeterGain(prev, m)
<1>4. /\ ClimbsBy(ValueOf(prev.meter), ValueOf(gain.last), gain.delta)
      /\ gain.last = prev.meter \/ (gain.last = [meter |-> KwhOf(m), at |-> m.time] /\ KwhOf(m) > 0)
      /\ MeterRuns(prev, m) /\ gain.delta \in Nat
  BY <1>1, MeterClimbs
<1>5. CASE m.packet
  <2> DEFINE rec == PacketRecord(prev, i)
             st  == rec.state
  <2>1. PacketBooks(rec, prev, i)
    BY <1>1, PacketBooked
  <2>2. RecordHas(rec, k, 0, gain.delta)
    BY <1>1, <1>2, <1>4, <1>5, PacketHas
  <2>3. st.base = prev.base /\ st.time = prev.time /\ st.meterSeen = m.time /\ st.meter = gain.last
    <3>1. st = [prev EXCEPT !.company = company, !.meter = gain.last, !.meterSeen = m.time, !.meterPrint = i,
                            !.aloneAt = IF "kwh" \in DOMAIN m.reading THEN m.time ELSE @]
      BY <1>5 DEF PacketRecord, Record, MeterGain
    <3>2. DOMAIN prev = DOMAIN NullState
      BY DEF StateTyped
    <3> HIDE DEF gain, m
    <3> QED  BY <3>1, <3>2 DEF NullState
  <2>4. rec.kind # "late" /\ StateTyped(st) /\ SlicesSound(rec.slices, Shifts)
    BY <2>1 DEF PacketBooks
  <2> HIDE DEF rec, gain
  <2>5. Traced(st)
    <3>1. st.meter # NoMeter => \E j \in DOMAIN scene.messages :
            KwhOf(scene.messages[j]) = st.meter.meter /\ KwhOf(scene.messages[j]) > 0 /\ scene.messages[j].time = st.meter.at
      <4>1. CASE gain.last = prev.meter
        BY <1>1, <2>3, <4>1 DEF Traced
      <4>2. CASE gain.last = [meter |-> KwhOf(m), at |-> m.time] /\ KwhOf(m) > 0
        BY <2>3, <4>2
      <4> QED  BY <1>4, <4>1, <4>2
    <3> QED  BY <1>1, <1>3, <2>3, <3>1 DEF Traced
  <2>6. ClimbsBy(prev.base, st.base, 0)
    <3>1. prev.base \in Int
      BY ValuesTyped DEF NoCount
    <3> QED  BY <2>3, <3>1 DEF ClimbsBy
  <2>7. ClimbsBy(ValueOf(prev.meter), ValueOf(st.meter), gain.delta) /\ 0 \in Nat
    BY <1>4, <2>3
  <2> HIDE DEF m
  <2>8. Conserved(Append(log, rec), st)
    BY <1>4, <2>2, <2>4, <2>5, <2>6, <2>7, RecordConserves
  <2> QED  BY <1>5, <2>8 DEF rec, m
<1>6. CASE ~m.packet
  <2> DEFINE rec == SnapshotRecord(prev, i)
             st  == rec.state
             count == CounterGain(prev, m)
  <2>1. SnapshotBooks(rec, prev, i)
    BY <1>1, <1>6, SnapshotBooked
  <2>2. RecordHas(rec, k, count.delta, gain.delta)
    BY <1>1, <1>2, <1>4, <1>6, SnapshotHas
  <2>3. /\ ClimbsBy(prev.base, count.baseline, count.delta)
        /\ count.baseline \in {prev.base, m.count} /\ count.delta \in Nat
    BY <1>1, <1>6, CountClimbs
  <2>4. /\ st.base = count.baseline /\ st.time = m.time /\ st.meter = gain.last
        /\ st.meterSeen = IF "kwh" \in DOMAIN m.reading THEN Max({prev.meterSeen, m.time}) ELSE prev.meterSeen
    BY <1>6 DEF SnapshotRecord, Record, MeterGain, CounterGain
  <2>5. rec.kind # "late" /\ StateTyped(st) /\ SlicesSound(rec.slices, Shifts)
    BY <2>1 DEF SnapshotBooks
  <2>6. st.meterSeen \in Nat
    <3>1. Max({prev.meterSeen, m.time}) \in {prev.meterSeen, m.time}
      <4>1. prev.meterSeen \in Int /\ m.time \in Int
        BY <1>3
      <4> HIDE DEF m
      <4> QED  BY <4>1, MaxOfTwo
    <3> QED  BY <1>3, <2>4, <3>1
  <2> HIDE DEF rec, gain, count
  <2>7. Traced(st)
    <3>1. st.meter # NoMeter => \E j \in DOMAIN scene.messages :
            KwhOf(scene.messages[j]) = st.meter.meter /\ KwhOf(scene.messages[j]) > 0 /\ scene.messages[j].time = st.meter.at
      <4>1. CASE gain.last = prev.meter
        BY <1>1, <2>4, <4>1 DEF Traced
      <4>2. CASE gain.last = [meter |-> KwhOf(m), at |-> m.time] /\ KwhOf(m) > 0
        BY <2>4, <4>2
      <4> QED  BY <1>4, <4>1, <4>2
    <3>2. st.base # NoCount => \E j \in DOMAIN scene.messages :
            /\ ~scene.messages[j].packet /\ scene.messages[j].count = st.base
            /\ scene.messages[j].time <= st.time
      <4>1. CASE count.baseline = prev.base
        <5> SUFFICES ASSUME st.base # NoCount
                     PROVE  \E j \in DOMAIN scene.messages :
                              /\ ~scene.messages[j].packet /\ scene.messages[j].count = st.base
                              /\ scene.messages[j].time <= st.time
          OBVIOUS
        <5>1. PICK j \in DOMAIN scene.messages :
                ~scene.messages[j].packet /\ scene.messages[j].count = prev.base /\ scene.messages[j].time <= prev.time
          BY <1>1, <2>4, <4>1 DEF Traced
        <5>2. scene.messages[j].time \in Nat
          <6>1. MessageSound(scene.messages[j])
            BY <1>1 DEF LedgerAssumption
          <6> QED  BY <6>1 DEF MessageSound
        <5>3. scene.messages[j].time <= m.time
          BY <1>3, <1>6, <5>1, <5>2
        <5> QED  BY <2>4, <4>1, <5>1, <5>3
      <4>2. CASE count.baseline = m.count
        BY <1>3, <1>6, <2>4, <4>2
      <4> QED  BY <2>3, <4>1, <4>2
    <3> QED  BY <2>6, <3>1, <3>2 DEF Traced
  <2>8. ClimbsBy(prev.base, st.base, count.delta) /\ ClimbsBy(ValueOf(prev.meter), ValueOf(st.meter), gain.delta)
    BY <1>4, <2>3, <2>4
  <2> HIDE DEF m
  <2>9. Conserved(Append(log, rec), st)
    BY <1>4, <2>2, <2>3, <2>5, <2>7, <2>8, RecordConserves
  <2> QED  BY <1>6, <2>9 DEF rec, m
<1> QED  BY <1>5, <1>6

-----------------------------------------------------------------------------
(* It is so from the first state on,                                       *)

(* Of no records nothing is booked.                                        *)
LEMMA NothingConserved ==
  ASSUME NEW st, st.base = NoCount, st.meter = NoMeter, st.meterSeen = 0
  PROVE  Conserved(<<>>, st)
<1>1. Traced(st) /\ ValueOf(st.meter) = NoCount
  BY DEF Traced, ValueOf
<1>2. Len(<<>>) = 0 /\ \A i \in 1..0 : FALSE
  OBVIOUS
<1>3. Gapped(<<>>, 0) /\ GapsUpTo(<<>>, 0) = {} /\ PlacedOf(<<>>, 0) = {}
  BY <1>2 DEF Gapped, GapsUpTo, PlacedOf
<1>4. PlacedSound({}) /\ IsFiniteSet({})
  BY FS_EmptySet DEF PlacedSound
<1>5. \A q \in Quantities : Credit({}, q) = 0
  BY <1>4, CreditTyped
<1>6. \A g : GapSum({}, g) = 0
  BY <1>4, GapSums
<1>7. "produced" \in Quantities /\ "energy" \in Quantities
  BY DEF Quantities
<1>8. Given(<<>>, 0, "produced") = 0 /\ Given(<<>>, 0, "energy") = 0
  <2>1. Credit(PlacedOf(<<>>, 0), "produced") = 0 /\ Credit(PlacedOf(<<>>, 0), "energy") = 0
    BY <1>3, <1>5, <1>7, Zenon
  <2>2. \A g : GapSum(GapsUpTo(<<>>, 0), g) = 0
    BY <1>3, <1>6, Zenon
  <2>3. /\ Given(<<>>, 0, "produced") = Credit(PlacedOf(<<>>, 0), "produced") + GapSum(GapsUpTo(<<>>, 0), GapKind("produced"))
        /\ Given(<<>>, 0, "energy") = Credit(PlacedOf(<<>>, 0), "energy") + GapSum(GapsUpTo(<<>>, 0), GapKind("energy"))
    BY Zenon DEF Given
  <2>4. GapSum(GapsUpTo(<<>>, 0), GapKind("produced")) = 0 /\ GapSum(GapsUpTo(<<>>, 0), GapKind("energy")) = 0
    BY <2>2, Zenon
  <2> QED  BY <2>1, <2>3, <2>4
<1>9. \A v : Climbed(0, v, 0, NoCount)
  BY <1>2 DEF Climbed
<1> QED  BY <1>1, <1>2, <1>3, <1>8, <1>9 DEF Conserved

(* So the invariant holds of the first state.                              *)
LEMMA SteadyInit ==
  ASSUME LedgerAssumption, SteadyIsSo, Init
  PROVE  SteadyInv
<1> SUFFICES ASSUME "steady" \in scene.flags  PROVE SteadyBooked
  BY DEF SteadyInv
<1>1. /\ company = scene.owner /\ horizon = 0 /\ known = FALSE /\ state = NullState
      /\ log = <<>> /\ done = 0 /\ lost = 0 /\ gaps = {} /\ meters = <<>>
  BY DEF Init
<1>2. state.base = NoCount /\ state.meter = NoMeter /\ state.meterSeen = 0
  BY <1>1 DEF NullState
<1>3. Conserved(log, state)
  BY <1>1, <1>2, NothingConserved
<1>4. GapsUpTo(log, done) = {}
  BY <1>1 DEF GapsUpTo
<1> QED  BY <1>1, <1>3, <1>4 DEF SteadyBooked

(* What a message is compared with has all that is booked.                 *)
LEMMA BaselineConserved ==
  ASSUME BookInv, LedgerAssumption, SteadyBooked
  PROVE  /\ Conserved(log, Baseline) /\ StateTyped(Baseline)
         /\ log = <<>> => Baseline.time = 0 /\ Baseline.meterSeen = 0 /\ Baseline.meter.at = 0
         /\ log # <<>> => Baseline = state
<1>1. JournalBooked /\ ProcessBooked /\ MeterInv
  BY DEF BookInv
<1>2. StateTyped(Baseline)
  BY <1>1, BaselineBooked
<1>3. CASE log # <<>>
  <2>1. known /\ company = scene.owner /\ Conserved(log, state)
    BY <1>3 DEF SteadyBooked
  <2>2. Belongs(state)
    BY <1>1, <2>1 DEF ProcessBooked, Belongs
  <2>3. Baseline = state
    BY <2>1, <2>2 DEF Baseline
  <2> QED  BY <1>2, <1>3, <2>1, <2>3
<1>4. CASE log = <<>>
  <2>1. ~known /\ meters = <<>> /\ done = 0
    <3>1. done \in 0..Len(log) /\ Len(log) = 0
      BY <1>1, <1>4 DEF JournalBooked
    <3> QED  BY <1>4, <3>1 DEF SteadyBooked
  <2>2. Baseline = Hydrated
    BY <2>1 DEF Baseline
  <2>3. Places(Written, company) = {}
    <3>1. Written = SubSeq(log, 1, 0)
      BY <2>1 DEF Written
    <3>2. DOMAIN Written = {}
      BY <1>4, <3>1
    <3> QED  BY <3>2 DEF Places
  <2>4. LastMeter = NoMeter
    <3>1. DOMAIN meters = {}
      BY <2>1
    <3>2. MeterRows = {}
      BY <3>1 DEF MeterRows
    <3> QED  BY <3>2 DEF LastMeter
  <2>5. Hydrated = [NullState EXCEPT !.meter = LastMeter, !.battery = OpenBatteries,
                      !.aloneAt = IF LastMeter # NoMeter /\ "kwh" \in meters[LastMeter.at].alone
                                  THEN LastMeter.at ELSE 0]
    BY <2>3 DEF Hydrated
  <2>6. Hydrated.base = NoCount /\ Hydrated.meter = NoMeter /\ Hydrated.meterSeen = 0 /\ Hydrated.time = 0
    BY <2>4, <2>5 DEF NullState
  <2>7. NoMeter.at = 0
    BY DEF NoMeter
  <2>8. Conserved(log, Hydrated)
    BY <1>4, <2>6, NothingConserved
  <2> QED  BY <1>2, <1>4, <2>2, <2>6, <2>7, <2>8
<1> QED  BY <1>3, <1>4

(* The same facts, in the next state.                                      *)
LEMMA ConservedNext ==
  ASSUME scene' = scene, Conserved(log', state')
  PROVE  Conserved(log, state)'
<1>1. Conserved(log, state)' <=> Conserved(log', state')
  BY DEF Conserved, Traced, CountsOf, MetersOf, ValueOf, Given, PlacedOf, Of, GapsUpTo, GapOf, GapSum, Gapped, Climbed, Credit
<1> QED  BY <1>1

(* A record more, which the process has the state of, or had.              *)
LEMMA SteadyAdmits ==
  ASSUME BookInv, SteadyBooked, scene' = scene, company' = company, horizon' = horizon, lost' = lost,
         done' = done, gaps' = gaps, known' = TRUE, NEW rec, log' = Append(log, rec),
         Conserved(log', state'),
         \/ rec.kind # "late" /\ state' = rec.state
         \/ rec.kind = "late" /\ state' = state /\ log # <<>>
  PROVE  SteadyBooked'
<1> DEFINE n == Len(log)
<1>1. /\ n \in Nat /\ DOMAIN log = 1..n /\ Len(log') = n + 1
      /\ log'[n + 1] = rec /\ \A i \in 1..n : log'[i] = log[i]
  BY GrowsByOne DEF BookInv, JournalBooked
<1>2. done \in 0..n
  BY DEF BookInv, JournalBooked
<1> HIDE DEF n
<1>3. gaps' = GapsUpTo(log', done)
  <2>1. \A i \in 1..done : i \in 1..n
    BY <1>1, <1>2
  <2>2. \A i \in 1..done : log'[i] = log[i]
    BY <1>1, <2>1
  <2>3. GapsUpTo(log', done) = GapsUpTo(log, done)
    <3>1. {k \in 1..done : log'[k].gap # NoGap} = {k \in 1..done : log[k].gap # NoGap}
      BY <2>2
    <3>2. \A i \in {k \in 1..done : log[k].gap # NoGap} : GapOf(log', i) = GapOf(log, i)
      BY <2>2 DEF GapOf
    <3> QED  BY <3>1, <3>2 DEF GapsUpTo
  <2> QED  BY <2>3 DEF SteadyBooked
<1>4. (gaps = GapsUpTo(log, done))'
  <2>1. GapsUpTo(log, done)' = GapsUpTo(log', done')
    BY DEF GapsUpTo, GapOf
  <2> QED  BY <1>3, <2>1
<1>5. log' # <<>>
  BY <1>1
<1>6. LastKept'
  <2>1. CASE rec.kind # "late" /\ state' = rec.state
    <3>1. n + 1 \in 1..Len(log') /\ \A i \in (n + 1 + 1)..Len(log') : FALSE
      BY <1>1
    <3>2. log'[n + 1].kind # "late" /\ state' = log'[n + 1].state
      BY <1>1, <2>1
    <3> QED  BY <3>1, <3>2 DEF LastKept
  <2>2. CASE rec.kind = "late" /\ state' = state /\ log # <<>>
    <3>1. LastKept
      BY <2>2 DEF SteadyBooked
    <3>2. PICK p \in 1..n : /\ log[p].kind # "late" /\ state = log[p].state
                            /\ \A i \in (p + 1)..n : log[i].kind = "late"
      BY <3>1 DEF LastKept, n
    <3>3. p \in 1..Len(log') /\ log'[p] = log[p]
      BY <1>1
    <3>4. ASSUME NEW i \in (p + 1)..Len(log')  PROVE log'[i].kind = "late"
      <4>1. i = n + 1 \/ (i \in (p + 1)..n /\ i \in 1..n)
        BY <1>1, <3>4
      <4> QED  BY <1>1, <2>2, <3>2, <4>1
    <3>5. log'[p].kind # "late" /\ state' = log'[p].state
      BY <2>2, <3>2, <3>3
    <3> QED  BY <3>3, <3>4, <3>5 DEF LastKept
  <2> QED  BY <2>1, <2>2
<1>7. Conserved(log, state)'
  BY ConservedNext
<1>8. company' = scene'.owner /\ horizon' = 0 /\ lost' = 0
  BY DEF SteadyBooked
<1> QED  BY <1>4, <1>5, <1>6, <1>7, <1>8 DEF SteadyBooked

-----------------------------------------------------------------------------
(* and stays so by every step.                                             *)

(* The scenes of a steady machine.                                         *)
LEMMA SteadyScene ==
  ASSUME BookInv, LedgerAssumption, SteadyIsSo, "steady" \in scene.flags
  PROVE  /\ scene \in Scenes
         /\ "moves" \notin scene.flags /\ "loses" \notin scene.flags /\ "ages" \notin scene.flags
         /\ \A i \in DOMAIN scene.messages : MessageSound(scene.messages[i])
BY DEF BookInv, JournalBooked, SteadyIsSo, LedgerAssumption

(* A message is handled.                                                   *)
LEMMA SteadyHandle ==
  ASSUME BookInv, LedgerAssumption, SteadyIsSo, "steady" \in scene.flags, SteadyBooked,
         NEW i \in DOMAIN scene.messages, Handle(i)
  PROVE  SteadyBooked'
<1> DEFINE m    == scene.messages[i]
           prev == Baseline
<1>1. /\ scene' = scene /\ company' = company /\ known' = TRUE /\ horizon' = horizon
      /\ lost' = lost /\ done' = done /\ gaps' = gaps /\ meters' = meters
  BY DEF Handle, inputVars, databaseVars
<1>2. /\ Conserved(log, prev) /\ StateTyped(prev)
      /\ log = <<>> => prev.time = 0 /\ prev.meterSeen = 0 /\ prev.meter.at = 0
      /\ log # <<>> => prev = state
  BY BaselineConserved
<1>3. \/ m.time < LastTime(prev, m) /\ Admit(LateRecord(i)) /\ state' = prev
      \/ Repeated(prev, i) /\ log' = log /\ state' = prev
      \/ /\ m.time >= LastTime(prev, m)
         /\ Admit(IF m.packet THEN PacketRecord(prev, i) ELSE SnapshotRecord(prev, i))
         /\ state' = Last(log').state
  BY DEF Handle
<1>4. m.time \in Nat \ {0} /\ JournalBooked
  BY SteadyScene DEF MessageSound, BookInv
<1>5. prev.time \in Nat /\ prev.meter.at \in Nat /\ prev.meterSeen \in Nat
  BY <1>2 DEF StateTyped, Conserved, Traced
<1>6. /\ m.packet => LastTime(prev, m) \in Nat /\ prev.meter.at <= LastTime(prev, m)
                       /\ (log = <<>> => LastTime(prev, m) = 0)
      /\ ~m.packet => LastTime(prev, m) = prev.time
  <2>1. /\ Max({prev.meterSeen, prev.meter.at}) \in {prev.meterSeen, prev.meter.at}
        /\ prev.meter.at <= Max({prev.meterSeen, prev.meter.at})
    <3>1. prev.meterSeen \in Int /\ prev.meter.at \in Int
      BY <1>5
    <3> HIDE DEF prev
    <3> QED  BY <3>1, MaxOfTwo
  <2>2. LastTime(prev, m) = IF m.packet THEN Max({prev.meterSeen, prev.meter.at}) ELSE prev.time
    BY DEF LastTime
  <2> HIDE DEF prev, m
  <2> QED  BY <1>2, <1>5, <2>1, <2>2
<1> HIDE DEF prev
<1>7. CASE m.time < LastTime(prev, m) /\ Admit(LateRecord(i)) /\ state' = prev
  <2> DEFINE rec == LateRecord(i)
  <2>1. log # <<>>
    BY <1>2, <1>4, <1>6, <1>7
  <2>2. rec.kind = "late"
    BY LateBooked
  <2>3. log' = Append(log, rec)
    BY <1>7 DEF Admit
  <2>4. Conserved(Append(log, rec), prev)
    BY <1>2, <1>4, LateConserves
  <2> HIDE DEF rec
  <2>5. Conserved(log', state') /\ state' = state
    BY <1>2, <1>7, <2>1, <2>3, <2>4
  <2> QED  BY <1>1, <2>1, <2>2, <2>3, <2>5, SteadyAdmits
<1>8. CASE Repeated(prev, i) /\ log' = log /\ state' = prev
  <2>1. log # <<>>
    <3>1. m.packet => m.time = prev.meterSeen
      BY <1>8 DEF Repeated
    <3>2. ~m.packet => m.time = prev.time
      BY <1>8 DEF Repeated
    <3> QED  BY <1>2, <1>4, <3>1, <3>2
  <2>2. state' = state
    BY <1>2, <1>8, <2>1
  <2>3. Conserved(log, state)'
    <3>1. Conserved(log', state')
      BY <1>8, <2>2 DEF SteadyBooked
    <3> QED  BY <1>1, <3>1, ConservedNext
  <2>4. GapsUpTo(log, done)' = GapsUpTo(log, done)
    BY <1>1, <1>8 DEF GapsUpTo, GapOf
  <2>5. LastKept'
    BY <1>8, <2>1, <2>2 DEF SteadyBooked, LastKept
  <2>6. log' # <<>> /\ known'
    BY <1>1, <1>8, <2>1
  <2>7. company' = scene'.owner /\ horizon' = 0 /\ lost' = 0 /\ gaps' = GapsUpTo(log, done)
    BY <1>1 DEF SteadyBooked
  <2> QED  BY <2>3, <2>4, <2>5, <2>6, <2>7 DEF SteadyBooked
<1>9. CASE /\ m.time >= LastTime(prev, m)
           /\ Admit(IF m.packet THEN PacketRecord(prev, i) ELSE SnapshotRecord(prev, i))
           /\ state' = Last(log').state
  <2> DEFINE rec == IF m.packet THEN PacketRecord(prev, i) ELSE SnapshotRecord(prev, i)
  <2>1. IF m.packet THEN prev.meter.at <= m.time ELSE prev.time <= m.time
    BY <1>4, <1>5, <1>6, <1>9
  <2>2. Conserved(Append(log, rec), rec.state)
    BY <1>2, <1>4, <2>1, MessageConserves
  <2>3. rec.kind # "late"
    BY DEF PacketRecord, SnapshotRecord, Record
  <2>4. log' = Append(log, rec)
    BY <1>9 DEF Admit
  <2> HIDE DEF rec
  <2>5. Len(log) \in Nat /\ Len(log') = Len(log) + 1 /\ log'[Len(log) + 1] = rec
    BY <1>4, <2>4, GrowsByOne DEF JournalBooked
  <2>6. state' = rec.state
    BY <1>9, <2>5 DEF Last
  <2>7. Conserved(log', state')
    BY <2>2, <2>4, <2>6
  <2> QED  BY <1>1, <2>3, <2>4, <2>6, <2>7, SteadyAdmits
<1> QED  BY <1>3, <1>7, <1>8, <1>9

(* A batch is written, with its gaps.                                      *)
LEMMA SteadyWrite ==
  ASSUME BookInv, SteadyBooked, NEW n \in 1..scene.most, Write(n)
  PROVE  SteadyBooked'
<1> DEFINE batch == SubSeq(log, done + 1, done + n)
           new   == {[seq |-> done + i, company |-> batch[i].company, gap |-> batch[i].gap] :
                       i \in {k \in DOMAIN batch : batch[k].gap # NoGap}}
<1>1. /\ scene' = scene /\ company' = company /\ known' = known /\ state' = state /\ horizon' = horizon
      /\ log' = log /\ lost' = lost /\ done' = done + n /\ n >= 1 /\ done + n <= Len(log)
      /\ gaps' = gaps \cup new
  BY DEF Write, inputVars, processVars
<1>2. /\ n \in Nat /\ done \in Nat /\ Len(log) \in Nat /\ log \in Seq(Range(log))
  BY <1>1 DEF BookInv, JournalBooked
<1>3. DOMAIN batch = 1..n /\ \A i \in 1..n : batch[i] = log[done + i]
  BY <1>1, <1>2
<1> HIDE DEF batch
<1>4. \A x : x \in new <=> \E i \in 1..n : log[done + i].gap # NoGap /\ x = GapOf(log, done + i)
  BY <1>3 DEF GapOf
<1>5. \A d, x : x \in GapsUpTo(log, d) <=> \E i \in 1..d : log[i].gap # NoGap /\ x = GapOf(log, i)
  BY DEF GapsUpTo
<1> HIDE DEF new
<1>6. gaps' = GapsUpTo(log, done + n)
  <2>1. gaps = GapsUpTo(log, done)
    BY DEF SteadyBooked
  <2>2. ASSUME NEW x  PROVE x \in GapsUpTo(log, done + n) <=> x \in gaps \/ x \in new
    <3>1. ASSUME x \in GapsUpTo(log, done + n)  PROVE x \in gaps \/ x \in new
      <4>1. PICK i \in 1..(done + n) : log[i].gap # NoGap /\ x = GapOf(log, i)
        BY <1>5, <3>1
      <4>2. CASE i <= done
        <5>1. i \in 1..done
          BY <1>2, <4>2
        <5> QED  BY <1>5, <2>1, <4>1, <5>1
      <4>3. CASE ~(i <= done)
        <5>1. i - done \in 1..n /\ done + (i - done) = i
          BY <1>2, <4>3
        <5> QED  BY <1>4, <4>1, <5>1
      <4> QED  BY <4>2, <4>3
    <3>2. ASSUME x \in gaps  PROVE x \in GapsUpTo(log, done + n)
      <4>1. PICK i \in 1..done : log[i].gap # NoGap /\ x = GapOf(log, i)
        BY <1>5, <2>1, <3>2
      <4>2. i \in 1..(done + n)
        BY <1>2
      <4> QED  BY <1>5, <4>1, <4>2
    <3>3. ASSUME x \in new  PROVE x \in GapsUpTo(log, done + n)
      <4>1. PICK i \in 1..n : log[done + i].gap # NoGap /\ x = GapOf(log, done + i)
        BY <1>4, <3>3
      <4>2. done + i \in 1..(done + n)
        BY <1>2
      <4> QED  BY <1>5, <4>1, <4>2
    <3> QED  BY <3>1, <3>2, <3>3
  <2>3. GapsUpTo(log, done + n) = gaps \cup new
    BY <2>2
  <2> QED  BY <1>1, <2>3
<1>7. (gaps = GapsUpTo(log, done))'
  <2>1. GapsUpTo(log, done)' = GapsUpTo(log', done')
    BY DEF GapsUpTo, GapOf
  <2> QED  BY <1>1, <1>6, <2>1
<1>8. log' # <<>>
  BY <1>1, <1>2
<1>9. Conserved(log, state)'
  <2>1. Conserved(log', state')
    BY <1>1 DEF SteadyBooked
  <2> QED  BY <1>1, <2>1, ConservedNext
<1>10. LastKept' /\ known'
  BY <1>1, <1>8 DEF SteadyBooked, LastKept
<1>11. company' = scene'.owner /\ horizon' = 0 /\ lost' = 0
  BY <1>1 DEF SteadyBooked
<1> QED  BY <1>7, <1>8, <1>9, <1>10, <1>11 DEF SteadyBooked

(* A restart finds the state that the process had.                         *)
LEMMA SteadyRestart ==
  ASSUME BookInv, SteadyBooked, Restart
  PROVE  SteadyBooked'
<1> DEFINE kept == {i \in (lost + 1)..Len(log) : log[i].kind # "late"}
<1>1. /\ scene' = scene /\ company' = company /\ horizon' = horizon /\ log' = log /\ lost' = lost
      /\ done' = done /\ gaps' = gaps /\ meters' = meters
      /\ \/ kept = {} /\ known' = FALSE /\ state' = NullState
         \/ kept # {} /\ known' = TRUE /\ state' = log[Max(kept)].state
  BY DEF Restart, inputVars, databaseVars
<1>2. Len(log) \in Nat /\ lost = 0
  BY DEF BookInv, JournalBooked, SteadyBooked
<1>3. state' = state /\ (log = <<>> => ~known') /\ (log # <<>> => known' /\ LastKept')
  <2>1. CASE log = <<>>
    <3>1. kept = {}
      BY <1>2, <2>1
    <3> QED  BY <1>1, <2>1, <3>1 DEF SteadyBooked
  <2>2. CASE log # <<>>
    <3>1. PICK p \in 1..Len(log) : /\ log[p].kind # "late" /\ state = log[p].state
                                   /\ \A i \in (p + 1)..Len(log) : log[i].kind = "late"
      BY <2>2 DEF SteadyBooked, LastKept
    <3>2. p \in kept /\ kept \in SUBSET (0..Len(log))
      BY <1>2, <3>1
    <3>3. ASSUME NEW x \in kept  PROVE x <= p
      <4>1. x \in 1..Len(log) /\ log[x].kind # "late"
        BY <1>2
      <4>2. x \notin (p + 1)..Len(log)
        BY <3>1, <4>1
      <4> QED  BY <1>2, <4>1, <4>2
    <3> HIDE DEF kept
    <3>4. Max(kept) = p
      BY <1>2, <3>2, <3>3, LastPlaceIs
    <3>5. state' = state /\ known'
      BY <1>1, <3>1, <3>2, <3>4
    <3>6. LastKept'
      BY <1>1, <3>1, <3>5 DEF LastKept
    <3> QED  BY <2>2, <3>5, <3>6
  <2> QED  BY <2>1, <2>2
<1> HIDE DEF kept
<1>4. Conserved(log, state)'
  <2>1. Conserved(log', state')
    BY <1>1, <1>3 DEF SteadyBooked
  <2> QED  BY <1>1, <2>1, ConservedNext
<1>5. GapsUpTo(log, done)' = GapsUpTo(log, done)
  BY <1>1 DEF GapsUpTo, GapOf
<1>6. /\ company' = scene'.owner /\ horizon' = 0 /\ lost' = 0 /\ gaps' = GapsUpTo(log, done)
      /\ log = <<>> => meters' = <<>> /\ state' = NullState
  BY <1>1, <1>3 DEF SteadyBooked
<1> QED  BY <1>1, <1>3, <1>4, <1>5, <1>6 DEF SteadyBooked

(* What changes none of it.                                                *)
LEMMA SteadyStays ==
  ASSUME SteadyBooked, UNCHANGED vars
  PROVE  SteadyBooked'
<1>1. /\ scene' = scene /\ company' = company /\ horizon' = horizon /\ log' = log /\ lost' = lost
      /\ done' = done /\ gaps' = gaps /\ meters' = meters /\ known' = known /\ state' = state
  BY DEF vars, inputVars, processVars, databaseVars
<1>2. Conserved(log, state)'
  <2>1. Conserved(log', state')
    BY <1>1 DEF SteadyBooked
  <2> QED  BY <1>1, <2>1, ConservedNext
<1>3. GapsUpTo(log, done)' = GapsUpTo(log, done) /\ (LastKept' <=> LastKept)
  BY <1>1 DEF GapsUpTo, GapOf, LastKept
<1>4. /\ company' = scene'.owner /\ horizon' = 0 /\ lost' = 0 /\ gaps' = GapsUpTo(log, done)
      /\ log = <<>> => ~known' /\ meters' = <<>> /\ state' = NullState
      /\ log # <<>> => known' /\ LastKept
  BY <1>1 DEF SteadyBooked
<1> QED  BY <1>1, <1>2, <1>3, <1>4 DEF SteadyBooked

(* So what a steady machine made and used is in the records, always.       *)
THEOREM ClimbsAreConserved ==
  ASSUME SteadyIsSo
  PROVE  Spec => [](BookInv /\ SteadyInv)
<1>1. Init => SteadyInv
  BY SteadyInit, LedgerAssumption
<1>2. BookInv /\ SteadyInv /\ [Next]_vars => SteadyInv'
  <2> SUFFICES ASSUME BookInv, SteadyInv, [Next]_vars, "steady" \in scene'.flags  PROVE SteadyBooked'
    BY DEF SteadyInv
  <2>1. scene' = scene
    BY DEF Next, Stale, Handle, Write, Restart, JournalLost, Move, Age, vars, inputVars
  <2>2. "steady" \in scene.flags /\ SteadyBooked
    BY <2>1 DEF SteadyInv
  <2>3. "moves" \notin scene.flags /\ "loses" \notin scene.flags /\ "ages" \notin scene.flags
    BY <2>2, SteadyScene, LedgerAssumption
  <2>4. ASSUME NEW i \in DOMAIN scene.messages, Stale(i)  PROVE FALSE
    <3>1. scene.messages[i].time <= horizon /\ horizon = 0
      BY <2>2, <2>4 DEF Stale, SteadyBooked
    <3>2. scene.messages[i].time \in Nat \ {0}
      BY <2>2, SteadyScene, LedgerAssumption DEF MessageSound
    <3> QED  BY <3>1, <3>2
  <2>5. ASSUME NEW i \in DOMAIN scene.messages, Handle(i)  PROVE SteadyBooked'
    BY <2>2, <2>5, LedgerAssumption, SteadyHandle
  <2>6. ASSUME NEW n \in 1..scene.most, Write(n)  PROVE SteadyBooked'
    BY <2>2, <2>6, SteadyWrite
  <2>7. CASE Restart
    BY <2>2, <2>7, SteadyRestart
  <2>8. CASE UNCHANGED vars
    BY <2>2, <2>8, SteadyStays
  <2>9. ~JournalLost /\ ~Move /\ ~Age
    BY <2>3 DEF JournalLost, Move, Age
  <2> QED  BY <2>4, <2>5, <2>6, <2>7, <2>8, <2>9 DEF Next
<1> QED  BY <1>1, <1>2, BooksInvariant, PTL DEF Spec

-----------------------------------------------------------------------------
(* And the tables have what the journal has.                               *)

(* Where all that is booked is one company's, it has all of the slices and *)
(* all of the gaps.                                                        *)
LEMMA AllIsBooked ==
  ASSUME BookInv, LedgerAssumption, SteadyBooked, done = Len(log)
  PROVE  /\ BookedParts(company) = Given(log, Len(log), "produced")
         /\ BookedEnergy(company) = Given(log, Len(log), "energy")
<1>1. /\ JournalBooked /\ HourlyBooked /\ company = scene.owner /\ gaps = GapsUpTo(log, Len(log))
      /\ Len(log) \in Nat /\ \A i \in 1..Len(log) : log[i].company = company
  <2>1. JournalBooked /\ HourlyBooked
    BY DEF BookInv
  <2>2. company = scene.owner /\ gaps = GapsUpTo(log, done)
    BY DEF SteadyBooked
  <2>3. Len(log) \in Nat /\ \A i \in 1..Len(log) : log[i].company \in {scene.owner, company}
    BY <2>1 DEF JournalBooked
  <2> QED  BY <2>1, <2>2, <2>3
<1> DEFINE A == PlacedOf(log, Len(log))
<1>2. hourly = SumSlices(A) /\ PlacedSound(A)
  <2>1. PlacedSound(A) /\ Placed(1, done) = A
    BY <1>1, JournalPlaced
  <2> QED  BY <1>1, <2>1 DEF HourlyBooked
<1>3. RowsOf(company) = DOMAIN hourly
  <2> SUFFICES ASSUME NEW row \in DOMAIN hourly
               PROVE  \E i \in DOMAIN scene.shifts[company] : scene.shifts[company][i].id = row[1]
    BY DEF RowsOf
  <2>1. PICK p \in Placed(1, done) : row = RowOf(p[2])
    BY <1>1 DEF HourlyBooked, SumSlices
  <2>2. PICK i \in 1..done : \E s \in log[i].slices : p = <<i, s>>
    BY <2>1, PlacedIs
  <2>3. PICK s \in log[i].slices : p = <<i, s>>
    BY <2>2
  <2>4. i \in 1..Len(log) /\ log[i].company = company
    BY <1>1
  <2>5. SliceSound(s, scene.shifts[company])
    BY <1>1, <2>4 DEF JournalBooked, RecordBooked, SlicesSound
  <2>6. row[1] = s.shift
    BY <2>1, <2>3 DEF RowOf
  <2> QED  BY <2>5, <2>6 DEF SliceSound
<1>4. GapsOf(company) = gaps
  <2>1. \A x \in gaps : x.company = company
    BY <1>1 DEF GapsUpTo, GapOf
  <2> QED  BY <2>1 DEF GapsOf
<1> HIDE DEF A
<1>5. /\ SumFunction([row \in DOMAIN hourly |-> hourly[row]["produced"]]) = Credit(A, "produced")
      /\ SumFunction([row \in DOMAIN hourly |-> hourly[row]["energy"]]) = Credit(A, "energy")
  <2>1. "produced" \in Quantities /\ "energy" \in Quantities
    BY DEF Quantities
  <2> QED  BY <1>2, <2>1, RowsCredited
<1>6. BookedParts(company) = Credit(A, "produced") + GapSum(gaps, "parts")
  <2>1. BookedParts(company) = SumFunction([row \in DOMAIN hourly |-> hourly[row]["produced"]])
                                 + SumFunction([g \in gaps |-> g.gap["parts"]])
    BY <1>3, <1>4 DEF BookedParts
  <2> QED  BY <1>5, <2>1 DEF GapSum
<1>7. BookedEnergy(company) = Credit(A, "energy") + GapSum(gaps, "energy")
  <2>1. BookedEnergy(company) = SumFunction([row \in DOMAIN hourly |-> hourly[row]["energy"]])
                                  + SumFunction([g \in gaps |-> g.gap["energy"]])
    BY <1>3, <1>4 DEF BookedEnergy
  <2> QED  BY <1>5, <2>1 DEF GapSum
<1>8. GapKind("produced") = "parts" /\ GapKind("energy") = "energy"
  BY DEF GapKind
<1> QED  BY <1>1, <1>6, <1>7, <1>8 DEF Given, A

(* The first value there is, and what has been given since.                *)
LEMMA FirstClimbed ==
  ASSUME NEW n \in Nat, NEW v, NEW given, NEW now, Climbed(n, v, given, now),
         NEW S, \A i : i \in S <=> i \in 1..n /\ v[i] # NoCount, S # {}
  PROVE  Min(S) \in S /\ given = now - v[Min(S)]
<1>1. S \in SUBSET Nat
  OBVIOUS
<1>2. Min(S) \in S /\ \A i \in S : Min(S) <= i
  BY <1>1, MinIsLeast
<1> DEFINE k == Min(S)
<1> HIDE DEF k
<1>3. k \in 1..n /\ v[k] # NoCount
  BY <1>2 DEF k
<1>4. ASSUME NEW j \in 1..(k - 1)  PROVE v[j] = NoCount
  <2>1. j \in 1..n /\ ~(k <= j)
    BY <1>3
  <2>2. j \notin S
    BY <1>2, <2>1 DEF k
  <2> QED  BY <2>1, <2>2
<1>5. given = now - v[k]
  BY <1>3, <1>4 DEF Climbed
<1> QED  BY <1>2, <1>5 DEF k

(* What a steady machine made and used is booked when all is written: in a *)
(* row of an hour or in a gap, whatever the silences, the instants, the    *)
(* batches and the restarts were.                                          *)
THEOREM NothingIsForgotten ==
  ASSUME SteadyIsSo
  PROVE  Spec => []NothingForgotten
<1>1. ASSUME BookInv, SteadyInv  PROVE NothingForgotten
  <2> USE <1>1
  <2> DEFINE counted == {i \in DOMAIN log : log[i].kind # "late" /\ log[i].state.base # NoCount}
             metered == {i \in DOMAIN log : log[i].kind # "late" /\ log[i].state.meter # NoMeter}
  <2> SUFFICES ASSUME "steady" \in scene.flags, done = Len(log), known
               PROVE  /\ counted # {} => BookedParts(company) = state.base - log[Min(counted)].state.base
                      /\ metered # {} => BookedEnergy(company) = state.meter.meter - log[Min(metered)].state.meter.meter
    BY DEF NothingForgotten
  <2>1. SteadyBooked /\ JournalBooked
    BY DEF SteadyInv, BookInv
  <2>2. DOMAIN log = 1..Len(log) /\ Len(log) \in Nat
    BY <2>1 DEF JournalBooked
  <2> DEFINE n == Len(log)
             v == CountsOf(log)
             x == MetersOf(log)
  <2>3. /\ Climbed(n, v, BookedParts(company), state.base)
        /\ Climbed(n, x, BookedEnergy(company), ValueOf(state.meter))
    <3>1. /\ Climbed(n, v, Given(log, n, "produced"), state.base)
          /\ Climbed(n, x, Given(log, n, "energy"), ValueOf(state.meter))
      BY <2>1 DEF SteadyBooked, Conserved
    <3> QED  BY <2>1, <3>1, AllIsBooked, LedgerAssumption
  <2>4. \A i \in 1..n : v[i] = IF log[i].kind = "late" THEN NoCount ELSE log[i].state.base
    BY <2>2 DEF CountsOf
  <2>5. \A i \in 1..n : x[i] = IF log[i].kind = "late" THEN NoCount ELSE ValueOf(log[i].state.meter)
    BY <2>2 DEF MetersOf
  <2>6. \A i \in 1..n : log[i].kind # "late" => log[i].state.meter.meter \in Nat
    BY <2>1 DEF JournalBooked, RecordBooked, StateTyped
  <2>7. \A i : i \in counted <=> i \in 1..n /\ v[i] # NoCount
    BY <2>2, <2>4
  <2>8. \A i : i \in metered <=> i \in 1..n /\ x[i] # NoCount
    <3>1. \A i \in 1..n : log[i].kind # "late" /\ log[i].state.meter # NoMeter =>
                            ValueOf(log[i].state.meter) # NoCount
      BY <2>6 DEF ValueOf, NoCount
    <3>2. \A i \in 1..n : log[i].state.meter = NoMeter => ValueOf(log[i].state.meter) = NoCount
      BY DEF ValueOf
    <3> QED  BY <2>2, <2>5, <3>1, <3>2
  <2>9. ASSUME counted # {}  PROVE BookedParts(company) = state.base - log[Min(counted)].state.base
    <3> HIDE DEF counted, v, x
    <3>1. Min(counted) \in counted /\ BookedParts(company) = state.base - v[Min(counted)]
      BY <2>2, <2>3, <2>7, <2>9, FirstClimbed
    <3>2. v[Min(counted)] = log[Min(counted)].state.base
      BY <2>4, <3>1 DEF counted
    <3> QED  BY <3>1, <3>2
  <2>10. ASSUME metered # {}
         PROVE  BookedEnergy(company) = state.meter.meter - log[Min(metered)].state.meter.meter
    <3> HIDE DEF metered, v, x
    <3>1. Min(metered) \in metered /\ BookedEnergy(company) = ValueOf(state.meter) - x[Min(metered)]
      BY <2>2, <2>3, <2>8, <2>10, FirstClimbed
    <3>2. x[Min(metered)] = log[Min(metered)].state.meter.meter /\ x[Min(metered)] # NoCount
      BY <2>5, <2>8, <3>1 DEF metered, ValueOf
    <3>3. ValueOf(state.meter) = state.meter.meter
      <4>1. ValueOf(state.meter) # NoCount
        BY <2>3, <2>8, <3>1 DEF Climbed
      <4> QED  BY <4>1 DEF ValueOf
    <3> QED  BY <3>1, <3>2, <3>3
  <2> QED  BY <2>9, <2>10
<1> QED  BY <1>1, ClimbsAreConserved, PTL
=============================================================================
