-------------------------- MODULE WatchProofs --------------------------
(***************************************************************************)
(* Theorems about the watch: ranges across midnight, for every range; the  *)
(* ranges of a user's day, for every minute and every order of a map; what *)
(* context can do to priorities, and the order of a page, for lists of     *)
(* every length; and the notification service, for all todos, days, loops  *)
(* and faults.                                                             *)
(***************************************************************************)
EXTENDS MCContextScore, NotificationService, FiniteSetTheorems, TLAPS

\* isWithinRange asks how far a minute lies after the start of the range,
\* going around the day, for every range and minute (TimeRange.isWithinRange).
THEOREM RangeWraps ==
    ASSUME NEW s \in Minutes, NEW e \in Minutes, NEW m \in Minutes
    PROVE  isWithinRange([start |-> s, end |-> e], m) <=> (m - s) % Day <= (e - s) % Day
<1>1. isWithinRange([start |-> s, end |-> e], m) <=>
        IF s > e THEN m >= s \/ m <= e ELSE m >= s /\ m <= e
  BY DEF isWithinRange
<1>2. (m - s) % Day = (IF m < s THEN m - s + Day ELSE m - s)
  BY Z3 DEF Minutes, Day
<1>3. (e - s) % Day = (IF e < s THEN e - s + Day ELSE e - s)
  BY Z3 DEF Minutes, Day
<1> QED
  BY <1>1, <1>2, <1>3 DEF Minutes, Day

-----------------------------------------------------------------------------
\* The entry of createUser's map that holds minute m.
EntryOf(m) ==
    IF 420 <= m /\ m <= 539 THEN "before_working"
    ELSE IF 540 <= m /\ m <= 1019 THEN "working"
    ELSE IF 1020 <= m /\ m <= 1379 THEN "rest"
    ELSE "sleep"

\* Of the entries of createUser's map exactly one holds any minute.
LEMMA OneEntryHolds ==
    ASSUME NEW m \in Minutes
    PROVE  /\ EntryOf(m) \in Keys
           /\ {k \in Keys : isWithinRange(TimeMap[k], m)} = {EntryOf(m)}
<1>1. Keys = {"before_working", "working", "rest", "sleep"}
  BY DEF Keys, TimeMap
<1>2. /\ TimeMap["before_working"].start = 420 /\ TimeMap["before_working"].end = 539
      /\ TimeMap["working"].start = 540 /\ TimeMap["working"].end = 1019
      /\ TimeMap["rest"].start = 1020 /\ TimeMap["rest"].end = 1379
      /\ TimeMap["sleep"].start = 1380 /\ TimeMap["sleep"].end = 419
  BY DEF TimeMap, TimeRange
<1>3. m \in 0 .. 1439
  BY DEF Minutes, Day
<1>4. \A k \in Keys : isWithinRange(TimeMap[k], m) <=> k = EntryOf(m)
  <2>1. isWithinRange(TimeMap["before_working"], m) <=> EntryOf(m) = "before_working"
    BY <1>2, <1>3 DEF isWithinRange, EntryOf
  <2>2. isWithinRange(TimeMap["working"], m) <=> EntryOf(m) = "working"
    BY <1>2, <1>3 DEF isWithinRange, EntryOf
  <2>3. isWithinRange(TimeMap["rest"], m) <=> EntryOf(m) = "rest"
    BY <1>2, <1>3 DEF isWithinRange, EntryOf
  <2>4. isWithinRange(TimeMap["sleep"], m) <=> EntryOf(m) = "sleep"
    BY <1>2, <1>3 DEF isWithinRange, EntryOf
  <2> QED
    BY <1>1, <2>1, <2>2, <2>3, <2>4
<1>5. EntryOf(m) \in Keys
  BY <1>1 DEF EntryOf
<1> QED
  BY <1>4, <1>5

\* If one entry of a map holds, the mapper answers with that entry, in
\* whatever order, of whatever length, the map is iterated.
LEMMA OrderIsIrrelevant ==
    ASSUME NEW m \in Minutes, NEW o, NEW i \in DOMAIN o,
           DOMAIN o \subseteq Nat,
           o[i] = EntryOf(m),
           \A j \in DOMAIN o : o[j] = EntryOf(m) => j = i,
           \A j \in 1 .. (i - 1) : j \in DOMAIN o
    PROVE  mapTimeToContext(o, m) = ValueOf(TimeConstants, EntryOf(m))
<1> DEFINE holds == {k \in DOMAIN TimeMap : isWithinRange(TimeMap[k], m)}
           first == FirstIn(o, holds)
<1>1. holds = {EntryOf(m)}
  BY OneEntryHolds DEF Keys
<1>2. first = {i}
  <2>1. i \in first
    <3>1. ASSUME NEW j \in 1 .. (i - 1) PROVE o[j] # EntryOf(m)
      <4>1. j # i /\ j \in DOMAIN o
        BY <3>1
      <4> QED
        BY <4>1
    <3> QED
      BY <1>1, <3>1 DEF FirstIn
  <2>2. \A j \in first : j = i
    BY <1>1 DEF FirstIn
  <2> QED
    BY <2>1, <2>2
<1>3. first # {} /\ (CHOOSE j \in first : TRUE) = i
  BY <1>2
<1>4. mapTimeToContext(o, m) =
        IF first = {} THEN "GENERAL"
        ELSE ValueOf(TimeConstants, o[CHOOSE j \in first : TRUE])
  BY DEF mapTimeToContext
<1> QED
  BY <1>3, <1>4

\* The map has four entries.
LEMMA FourKeys ==
    /\ Keys = {"before_working", "working", "rest", "sleep"}
    /\ Cardinality(Keys) = 4
<1>1. Keys = {"before_working", "working", "rest", "sleep"}
  BY DEF Keys, TimeMap
<1>2. Cardinality(Keys) = 4
  <2>1. IsFiniteSet({}) /\ Cardinality({}) = 0
    BY FS_EmptySet
  <2>2. IsFiniteSet({} \cup {"before_working"}) /\ Cardinality({} \cup {"before_working"}) = 1
    BY <2>1, FS_AddElement
  <2> DEFINE S1 == {} \cup {"before_working"}
             S2 == S1 \cup {"working"}
             S3 == S2 \cup {"rest"}
             S4 == S3 \cup {"sleep"}
  <2>3. IsFiniteSet(S2) /\ Cardinality(S2) = 2
    <3>1. "working" \notin S1
      OBVIOUS
    <3> QED BY <2>2, <3>1, FS_AddElement
  <2>4. IsFiniteSet(S3) /\ Cardinality(S3) = 3
    <3>1. "rest" \notin S2
      OBVIOUS
    <3> HIDE DEF S2
    <3> QED BY <2>3, <3>1, FS_AddElement
  <2>5. IsFiniteSet(S4) /\ Cardinality(S4) = 4
    <3>1. "sleep" \notin S3
      OBVIOUS
    <3> HIDE DEF S3
    <3> QED BY <2>4, <3>1, FS_AddElement
  <2>6. Keys = S4
    BY <1>1
  <2> HIDE DEF S4
  <2> QED BY <2>5, <2>6
<1> QED
  BY <1>1, <1>2

\* An order of the map is a permutation of its four entries.
LEMMA OrdersAreComplete ==
    ASSUME NEW o \in Orders
    PROVE  /\ DOMAIN o = 1 .. 4
           /\ \A k \in Keys : \E i \in DOMAIN o : o[i] = k
           /\ \A i, j \in DOMAIN o : o[i] = o[j] => i = j
<1>1. Keys = {"before_working", "working", "rest", "sleep"}
  BY FourKeys
<1>2. Cardinality(Keys) = 4
  BY FourKeys
<1>3. o \in [1 .. 4 -> Keys] /\ \A i, j \in DOMAIN o : o[i] = o[j] => i = j
  BY <1>2 DEF Orders
<1>4. /\ o[1] \in Keys /\ o[2] \in Keys /\ o[3] \in Keys /\ o[4] \in Keys
      /\ o[1] # o[2] /\ o[1] # o[3] /\ o[1] # o[4]
      /\ o[2] # o[3] /\ o[2] # o[4] /\ o[3] # o[4]
  BY <1>3
<1>5. \A k \in Keys : k \in {o[1], o[2], o[3], o[4]}
  BY <1>1, <1>4
<1> QED
  BY <1>3, <1>5

\* The four entries have an order.
LEMMA SomeOrder == \E o : o \in Orders
<1> DEFINE o == [i \in 1 .. 4 |-> IF i = 1 THEN "before_working"
                                ELSE IF i = 2 THEN "working"
                                ELSE IF i = 3 THEN "rest" ELSE "sleep"]
<1>1. Cardinality(Keys) = 4
  BY FourKeys
<1>2. o \in [1 .. 4 -> Keys]
  BY FourKeys
<1>3. \A i, j \in 1 .. 4 : o[i] = o[j] => i = j
  OBVIOUS
<1> QED
  BY <1>1, <1>2, <1>3 DEF Orders

DayInv ==
    /\ minute \in Minutes
    /\ order \in Orders

\* The reading is a minute of the day and the map's order never changes.
LEMMA DayInvariant == PageSpec => []DayInv
<1> USE DEF DayInv
<1>1. PageInit => DayInv
  <2> SUFFICES ASSUME PageInit PROVE DayInv
    OBVIOUS
  <2>1. minute \in Minutes
    BY DEF PageInit, Minutes, Day
  <2>2. order \in Orders
    <3>1. PICK o : o \in Orders
      BY SomeOrder
    <3> QED
      BY <3>1 DEF PageInit
  <2> QED
    BY <2>1, <2>2
<1>2. DayInv /\ [PageNext]_pageVars => DayInv'
  <2> SUFFICES ASSUME DayInv, [PageNext]_pageVars PROVE DayInv'
    OBVIOUS
  <2>1. minute' \in Minutes
    <3>1. minute' = minute \/ (minute < Day - 1 /\ minute' = minute + 1)
      BY DEF PageNext, NextMinute, CheckOff, Arrive, pageVars
    <3> QED
      BY <3>1 DEF Minutes, Day
  <2>2. order' = order
    BY DEF PageNext, NextMinute, CheckOff, Arrive, pageVars
  <2> QED
    BY <2>1, <2>2
<1> QED
  BY <1>1, <1>2, PTL DEF PageSpec

\* Every minute of every day has one range and one context, whatever order the
\* user's map is iterated in (MainActivity.createUser, TimeMapper).
THEOREM OneRange == PageSpec => []OneRangePerMinute
<1>1. DayInv => OneRangePerMinute
  <2> SUFFICES ASSUME DayInv PROVE OneRangePerMinute
    OBVIOUS
  <2>1. minute \in Minutes /\ order \in Orders
    BY DEF DayInv
  <2>2. PICK i \in DOMAIN order : order[i] = EntryOf(minute)
    BY <2>1, OrdersAreComplete, OneEntryHolds
  <2>3. /\ DOMAIN order = 1 .. 4
        /\ \A j \in DOMAIN order : order[j] = EntryOf(minute) => j = i
    BY <2>1, <2>2, OrdersAreComplete
  <2>4. DOMAIN order \subseteq Nat /\ \A j \in 1 .. (i - 1) : j \in DOMAIN order
    BY <2>2, <2>3
  <2>5. mapTimeToContext(order, minute) = ValueOf(TimeConstants, EntryOf(minute))
    BY <2>1, <2>2, <2>3, <2>4, OrderIsIrrelevant
  <2> QED
    BY <2>1, <2>5, OneEntryHolds DEF OneRangePerMinute
<1> QED
  BY <1>1, DayInvariant, PTL

\* The ranges of a user's day start and end in minutes of the day.
LEMMA RangeEnds ==
    ASSUME NEW k \in Keys
    PROVE  TimeMap[k].start \in Minutes /\ TimeMap[k].end \in Minutes
<1>1. /\ TimeMap["before_working"] = [start |-> 420, end |-> 539]
      /\ TimeMap["working"] = [start |-> 540, end |-> 1019]
      /\ TimeMap["rest"] = [start |-> 1020, end |-> 1379]
      /\ TimeMap["sleep"] = [start |-> 1380, end |-> 419]
  BY DEF TimeMap, TimeRange
<1>2. \A n \in {419, 420, 539, 540, 1019, 1020, 1379, 1380} : n \in Minutes
  BY DEF Minutes, Day
<1>3. k \in {"before_working", "working", "rest", "sleep"}
  BY FourKeys
<1> QED
  BY <1>1, <1>2, <1>3

\* The ranges of a user's day, shifted by whatever the model shifts them by,
\* wrap around midnight (TimeRange.isWithinRange).
THEOREM RangesWrapAlways == PageSpec => []RangesWrap
<1>1. DayInv => RangesWrap
  <2> SUFFICES ASSUME DayInv, NEW k \in Keys,
                      NEW shift \in {0, 1, 60, Day \div 2, Day - 1}
               PROVE  LET r == [start |-> (TimeMap[k].start + shift) % Day,
                                end |-> TimeMap[k].end]
                      IN  isWithinRange(r, minute) <=>
                            (minute - r.start) % Day <= (r.end - r.start) % Day
    BY DEF RangesWrap
  <2> DEFINE s == (TimeMap[k].start + shift) % Day
             e == TimeMap[k].end
  <2>1. TimeMap[k].start \in Minutes /\ TimeMap[k].end \in Minutes
    BY RangeEnds
  <2>2. \A a, b \in Minutes : (a + b) % Day \in Minutes
    BY Z3 DEF Minutes, Day
  <2>3. shift \in Minutes
    BY Z3 DEF Minutes, Day
  <2>4. s \in Minutes /\ e \in Minutes
    BY <2>1, <2>2, <2>3
  <2>5. minute \in Minutes
    BY DEF DayInv
  <2> HIDE DEF s, e
  <2>6. isWithinRange([start |-> s, end |-> e], minute) <=>
          (minute - s) % Day <= (e - s) % Day
    BY <2>4, <2>5, RangeWraps
  <2> QED
    BY <2>6 DEF s, e
<1> QED
  BY <1>1, DayInvariant, PTL

\* The day is covered, under every order of the map's entries (TimeMapper).
THEOREM DayStaysCovered == PageSpec => []DayIsCovered
<1>1. OneRangePerMinute /\ RangesWrap => DayIsCovered
  BY DEF DayIsCovered
<1>2. QED
  BY <1>1, OneRange, RangesWrapAlways, PTL

-----------------------------------------------------------------------------
\* However much context a LOW todo has and a HIGH one lacks, the comparator
\* puts the LOW one first only if the list did, for lists of every length
\* (TodoSorter.getItemScore and its weights).
THEOREM LowNeverBeforeHigh ==
    ASSUME NEW list, NEW here, NEW now, NEW i \in Nat, NEW j \in Nat,
           list[i].priority = "LOW", list[j].priority = "HIGH",
           Before(list, here, now, i, j)
    PROVE  i < j
<1>1. getItemScore(list[i], here, now) \in 0 .. 50
  BY DEF getItemScore
<1>2. getItemScore(list[j], here, now) \in 50 .. 100
  BY DEF getItemScore
<1> QED
  BY <1>1, <1>2 DEF Before
-----------------------------------------------------------------------------
(***************************************************************************)
(* The order of a page, for lists of every length.  The comparator orders  *)
(* the positions of the list strictly and totally, so that a position's    *)
(* rank grows with it: ranks are injective, hence they are all of 1 .. n,  *)
(* and the position ranked n exists and is the only one.                   *)
(***************************************************************************)
Rank(list, here, now, i) ==
    Cardinality({j \in DOMAIN list : Before(list, here, now, j, i)}) + 1

Ranks(list, here, now) == {Rank(list, here, now, i) : i \in DOMAIN list}

\* `sorted` holds every position of the list once, in the comparator's order.
Sorts(sorted, list, here, now) ==
    /\ sorted \in [DOMAIN list -> DOMAIN list]
    /\ {sorted[n] : n \in DOMAIN list} = DOMAIN list
    /\ \A m, n \in DOMAIN list : m < n => Before(list, here, now, sorted[m], sorted[n])

\* Todos that TodoSorter can score.
HavePriorities(S) == \A item \in S : item.priority \in {"LOW", "MEDIUM", "HIGH"}

LEMMA ScoreType ==
    ASSUME NEW S, HavePriorities(S), NEW item \in S, NEW here, NEW now
    PROVE  getItemScore(item, here, now) \in Int
BY DEF getItemScore, HavePriorities

LEMMA BeforeIsTotalOrder ==
    ASSUME NEW S, HavePriorities(S), NEW N \in Nat, NEW list \in [1 .. N -> S], NEW here, NEW now
    PROVE  /\ \A i \in 1 .. N : ~Before(list, here, now, i, i)
           /\ \A i, j, k \in 1 .. N :
                 Before(list, here, now, i, j) /\ Before(list, here, now, j, k)
                 => Before(list, here, now, i, k)
           /\ \A i, j \in 1 .. N :
                 Before(list, here, now, i, j) \/ Before(list, here, now, j, i) \/ i = j
<1> DEFINE s == [i \in 1 .. N |-> getItemScore(list[i], here, now)]
<1>1. s \in [1 .. N -> Int]
  BY ScoreType
<1>2. \A i, j \in 1 .. N :
          Before(list, here, now, i, j) <=> s[i] > s[j] \/ (s[i] = s[j] /\ i < j)
  BY DEF Before
<1> HIDE DEF s
<1>3. QED
  BY <1>1, <1>2

LEMMA RankGrows ==
    ASSUME NEW S, HavePriorities(S), NEW N \in Nat, NEW list \in [1 .. N -> S], NEW here, NEW now
    PROVE  /\ \A i \in 1 .. N : Rank(list, here, now, i) \in 1 .. N
           /\ \A i, k \in 1 .. N : Before(list, here, now, i, k) =>
                 Rank(list, here, now, i) < Rank(list, here, now, k)
<1> DEFINE P(i) == {j \in 1 .. N : Before(list, here, now, j, i)}
<1>1. \A i \in 1 .. N : IsFiniteSet(P(i)) /\ Cardinality(P(i)) \in Nat
  <2>1. IsFiniteSet(1 .. N)
    BY FS_Interval
  <2>2. \A T \in SUBSET (1 .. N) : IsFiniteSet(T) /\ Cardinality(T) \in Nat
    BY <2>1, FS_Subset, FS_CardinalityType
  <2>3. QED
    BY <2>2
<1>2. \A i \in 1 .. N : Rank(list, here, now, i) = Cardinality(P(i)) + 1
  BY DEF Rank
<1>3. ASSUME NEW i \in 1 .. N PROVE Cardinality(P(i)) <= N - 1
  <2>1. P(i) \subseteq (1 .. N) \ {i}
    BY BeforeIsTotalOrder
  <2>2. /\ IsFiniteSet((1 .. N) \ {i})
        /\ Cardinality((1 .. N) \ {i}) = N - 1
    <3>1. IsFiniteSet(1 .. N) /\ Cardinality(1 .. N) = N
      BY FS_Interval
    <3>2. QED
      BY <3>1, FS_RemoveElement
  <2>3. QED
    BY <2>1, <2>2, FS_Subset
<1>4. ASSUME NEW i \in 1 .. N, NEW k \in 1 .. N, Before(list, here, now, i, k)
      PROVE  Cardinality(P(i)) < Cardinality(P(k))
  <2>1. i \notin P(i) /\ P(i) \cup {i} \subseteq P(k)
    BY <1>4, BeforeIsTotalOrder
  <2>2. Cardinality(P(i) \cup {i}) = Cardinality(P(i)) + 1
    BY <1>1, <2>1, FS_AddElement
  <2>3. Cardinality(P(i) \cup {i}) <= Cardinality(P(k))
    <3>1. IsFiniteSet(P(k)) /\ P(i) \cup {i} \in SUBSET P(k)
      BY <1>1, <2>1
    <3> HIDE DEF P
    <3>2. QED
      BY <3>1, FS_Subset
  <2>4. Cardinality(P(i)) \in Nat /\ Cardinality(P(k)) \in Nat
    BY <1>1
  <2> HIDE DEF P
  <2>5. QED
    BY <1>4, <2>1, <2>2, <2>3, <2>4
<1> HIDE DEF P
<1>5. ASSUME NEW i \in 1 .. N PROVE Rank(list, here, now, i) \in 1 .. N
  <2>1. Cardinality(P(i)) \in Nat /\ Cardinality(P(i)) <= N - 1
    BY <1>1, <1>3
  <2>2. Rank(list, here, now, i) = Cardinality(P(i)) + 1
    BY <1>2
  <2>3. QED
    BY <2>1, <2>2
<1>6. ASSUME NEW i \in 1 .. N, NEW k \in 1 .. N, Before(list, here, now, i, k)
      PROVE  Rank(list, here, now, i) < Rank(list, here, now, k)
  <2>1. Cardinality(P(i)) \in Nat /\ Cardinality(P(k)) \in Nat
    BY <1>1
  <2>2. Cardinality(P(i)) < Cardinality(P(k))
    BY <1>4, <1>6
  <2>3. QED
    BY <1>2, <2>1, <2>2
<1>7. QED
  BY <1>5, <1>6

LEMMA RanksAreAll ==
    ASSUME NEW S, HavePriorities(S), NEW N \in Nat, NEW list \in [1 .. N -> S], NEW here, NEW now
    PROVE  Ranks(list, here, now) = 1 .. N
<1> DEFINE f == [i \in 1 .. N |-> Rank(list, here, now, i)]
<1>1. f \in Injection(1 .. N, 1 .. N)
  <2>1. f \in [1 .. N -> 1 .. N]
    BY RankGrows
  <2>2. ASSUME NEW i \in 1 .. N, NEW k \in 1 .. N, f[i] = f[k] PROVE i = k
    <3>1. f[i] \in Int /\ f[k] \in Int
      BY <2>1
    <3>2. ~Before(list, here, now, i, k) /\ ~Before(list, here, now, k, i)
      BY <2>2, <3>1, RankGrows
    <3>3. QED
      BY <3>2, BeforeIsTotalOrder
  <2> HIDE DEF f
  <2>3. QED
    BY <2>1, <2>2 DEF Injection, IsInjective
<1>2. f \in Surjection(1 .. N, 1 .. N)
  <2> HIDE DEF f
  <2>1. IsFiniteSet(1 .. N)
    BY FS_Interval
  <2>2. QED
    BY <1>1, <2>1, FS_Injection
<1>3. \A n \in 1 .. N : \E i \in 1 .. N : f[i] = n
  BY <1>2 DEF Surjection
<1>4. Ranks(list, here, now) = {f[i] : i \in 1 .. N}
  BY DEF Ranks
<1>5. f \in [1 .. N -> 1 .. N]
  BY <1>1 DEF Injection
<1> HIDE DEF f
<1>6. QED
  BY <1>3, <1>4, <1>5

\* TodoSorter.sortNotDoneItems puts every position once, in the comparator's order,
\* for lists of every length.
THEOREM SortIsPermutation ==
    ASSUME NEW S, HavePriorities(S), NEW N \in Nat, NEW list \in [1 .. N -> S], NEW here, NEW now
    PROVE  Sorts(sortNotDoneItems(list, here, now), list, here, now)
<1> DEFINE sorted == sortNotDoneItems(list, here, now)
<1>d. DOMAIN list = 1 .. N
  OBVIOUS
<1>e. \A n \in 1 .. N : \E i \in 1 .. N : Rank(list, here, now, i) = n
  <2>1. Ranks(list, here, now) = 1 .. N
    BY RanksAreAll
  <2>2. QED
    BY <1>d, <2>1 DEF Ranks
<1>1. sorted = [n \in DOMAIN list |->
                   CHOOSE i \in DOMAIN list : Rank(list, here, now, i) = n]
  BY DEF sortNotDoneItems, Rank
<1> HIDE DEF sorted
<1>2. \A n \in 1 .. N : sorted[n] \in 1 .. N /\ Rank(list, here, now, sorted[n]) = n
  <2> SUFFICES ASSUME NEW n \in 1 .. N
               PROVE  sorted[n] \in 1 .. N /\ Rank(list, here, now, sorted[n]) = n
    OBVIOUS
  <2>1. \E i \in DOMAIN list : Rank(list, here, now, i) = n
    BY <1>d, <1>e
  <2>2. sorted[n] = CHOOSE i \in DOMAIN list : Rank(list, here, now, i) = n
    BY <1>1, <1>d
  <2>3. sorted[n] \in DOMAIN list /\ Rank(list, here, now, sorted[n]) = n
    BY <2>1, <2>2
  <2>4. QED
    BY <1>d, <2>3
<1>3. ASSUME NEW m \in 1 .. N, NEW n \in 1 .. N, m < n
      PROVE  Before(list, here, now, sorted[m], sorted[n])
  <2>1. ~Before(list, here, now, sorted[n], sorted[m])
    BY <1>2, <1>3, RankGrows
  <2>2. sorted[m] # sorted[n]
    BY <1>2, <1>3
  <2>3. QED
    BY <1>2, <2>1, <2>2, BeforeIsTotalOrder
<1>4. ASSUME NEW i \in 1 .. N PROVE \E n \in 1 .. N : sorted[n] = i
  <2> DEFINE n == Rank(list, here, now, i)
  <2>1. n \in 1 .. N
    BY RankGrows
  <2>2. Rank(list, here, now, sorted[n]) = n /\ sorted[n] \in 1 .. N
    BY <1>2, <2>1
  <2>3. ~Before(list, here, now, sorted[n], i) /\ ~Before(list, here, now, i, sorted[n])
    BY <2>1, <2>2, RankGrows
  <2>4. QED
    BY <2>1, <2>2, <2>3, BeforeIsTotalOrder
<1>5. sorted \in [1 .. N -> 1 .. N]
  BY <1>1, <1>2, <1>d
<1>6. {sorted[n] : n \in 1 .. N} = 1 .. N
  BY <1>2, <1>4
<1>7. Sorts(sorted, list, here, now)
  BY <1>d, <1>3, <1>5, <1>6 DEF Sorts
<1>8. QED
  BY <1>7 DEF sorted

\* The page of a behaviour: a list of todos, until the last one is checked off.
PageInv == \E N \in Nat : items \in [1 .. N -> PageItems]

LEMMA PageInvariant == PageSpec => []PageInv
<1>1. PageInit => PageInv
  <2>1. <<>> \in [1 .. 0 -> PageItems]
    OBVIOUS
  <2>2. QED
    BY <2>1 DEF PageInit, PageInv
<1>2. PageInv /\ [PageNext]_pageVars => PageInv'
  <2> SUFFICES ASSUME PageInv, [PageNext]_pageVars PROVE PageInv'
    OBVIOUS
  <2>1. PICK N \in Nat : items \in [1 .. N -> PageItems]
    BY DEF PageInv
  <2>2. CASE items' = items
    BY <2>2 DEF PageInv
  <2>3. ASSUME NEW i \in DOMAIN items,
               items' = [j \in 1 .. (Len(items) - 1) |-> items[IF j < i THEN j ELSE j + 1]]
        PROVE  PageInv'
    <3>1. i \in 1 .. N /\ Len(items) = N /\ N - 1 \in Nat
      BY <2>1, <2>3
    <3>2. \A j \in 1 .. (N - 1) : (IF j < i THEN j ELSE j + 1) \in 1 .. N
      BY <3>1
    <3>3. items' \in [1 .. (N - 1) -> PageItems]
      BY <2>1, <2>3, <3>1, <3>2
    <3>4. QED
      BY <3>1, <3>3 DEF PageInv
  <2>4. QED
    BY <2>2, <2>3 DEF PageNext, NextMinute, CheckOff, Arrive, pageVars
<1>3. QED
  BY <1>1, <1>2, PTL DEF PageSpec

\* A page shows every open todo once, higher scores first, no LOW todo lifted above
\* a HIGH one, ties as the list had them, and so it stays while todos are checked
\* off and the watch moves (TodoSorter.sortNotDoneItems).
THEOREM PageStaysInOrder == PageSpec => []PageIsInOrder
<1>1. PageInv => PageIsInOrder
  <2> SUFFICES ASSUME NEW N \in Nat, items \in [1 .. N -> PageItems] PROVE PageIsInOrder
    BY DEF PageInv
  <2> DEFINE time == mapTimeToContext(order, minute)
             score(i) == getItemScore(items[i], place, time)
  <2>d. DOMAIN items = 1 .. N
    OBVIOUS
  <2>p. HavePriorities(PageItems)
    BY DEF HavePriorities, PageItems
  <2>1. /\ Sorted \in [1 .. N -> 1 .. N]
        /\ {Sorted[n] : n \in DOMAIN items} = DOMAIN items
        /\ \A m, n \in 1 .. N : m < n => Before(items, place, time, Sorted[m], Sorted[n])
    <3>1. Sorts(Sorted, items, place, time)
      BY <2>p, SortIsPermutation DEF Sorted
    <3> HIDE DEF time
    <3>2. QED
      BY <2>d, <3>1 DEF Sorts
  <2>o. \A n \in 1 .. N : Sorted[n] \in 1 .. N /\ Sorted[n] \in Nat
    <3>1. Sorted \in [1 .. N -> 1 .. N]
      BY <2>1
    <3>2. QED
      BY <3>1
  <2>2. \A n \in 1 .. N : score(Sorted[n]) \in Int
    <3>1. \A i \in 1 .. N : score(i) \in Int
      BY <2>p, ScoreType
    <3>2. QED
      BY <2>o, <3>1
  <2>3. \A m, n \in 1 .. N : m < n =>
           \/ score(Sorted[m]) > score(Sorted[n])
           \/ score(Sorted[m]) = score(Sorted[n]) /\ Sorted[m] < Sorted[n]
    BY <2>1 DEF Before
  <2>4. HigherScoresFirst
    <3>1. \A m, n \in DOMAIN items : m < n => score(Sorted[m]) >= score(Sorted[n])
      BY <2>d, <2>2, <2>3
    <3>2. {Sorted[n] : n \in DOMAIN items} = DOMAIN items
      BY <2>1
    <3>3. QED
      BY <3>1, <3>2 DEF HigherScoresFirst
  <2>5. TiesKeepListOrder
    <3>1. \A m, n \in DOMAIN items : m < n /\ score(Sorted[m]) = score(Sorted[n]) =>
             Sorted[m] < Sorted[n]
      BY <2>d, <2>2, <2>3
    <3>2. QED
      BY <3>1 DEF TiesKeepListOrder
  <2>6. LowNeverPassesHigh
    <3> SUFFICES ASSUME NEW m \in 1 .. N, NEW n \in 1 .. N, m < n,
                        items[Sorted[m]].priority = "LOW",
                        items[Sorted[n]].priority = "HIGH"
                 PROVE  Sorted[m] < Sorted[n]
      BY <2>d DEF LowNeverPassesHigh
    <3>1. Sorted[m] \in Nat /\ Sorted[n] \in Nat
      BY <2>o
    <3>2. Before(items, place, time, Sorted[m], Sorted[n])
      BY <2>1
    <3> HIDE DEF time
    <3>3. QED
      BY <3>1, <3>2, LowNeverBeforeHigh
  <2>7. QED
    BY <2>4, <2>5, <2>6 DEF PageIsInOrder
<1>2. QED
  BY <1>1, PageInvariant, PTL

-----------------------------------------------------------------------------
(***************************************************************************)
(* The notification service.  Types first: a check notifies a todo of its  *)
(* lists, because the comparator puts one of the open todos before all     *)
(* others, and what is posted runs for an object of the living process.    *)
(***************************************************************************)
\* Of some positions of a list, of any length, one comes before all others:
\* as many come before it as before no other, and these counts are 0, 1, ...
LEMMA OneIsFirst ==
    ASSUME NEW S, HavePriorities(S), NEW N \in Nat, NEW list \in [1 .. N -> S],
           NEW here, NEW now, NEW some \in SUBSET (1 .. N), some # {}
    PROVE  \E i \in some : \A j \in some \ {i} : Before(list, here, now, i, j)
<1> DEFINE P(i) == {j \in some : Before(list, here, now, j, i)}
           size == Cardinality(some)
           f == [i \in some |-> Cardinality(P(i))]
<1>1. IsFiniteSet(some) /\ size \in Nat
  <2>1. IsFiniteSet(1 .. N)
    BY FS_Interval
  <2>2. QED
    BY <2>1, FS_Subset, FS_CardinalityType
<1>2. size > 0
  BY <1>1, FS_EmptySet
<1>3. ASSUME NEW T \in SUBSET some
      PROVE  IsFiniteSet(T) /\ Cardinality(T) \in Nat /\ Cardinality(T) <= size
  BY <1>1, <1>3, FS_Subset, FS_CardinalityType
<1>4. ASSUME NEW i \in some PROVE Cardinality(P(i)) \in 0 .. (size - 1)
  <2>1. P(i) \in SUBSET (some \ {i})
    BY BeforeIsTotalOrder
  <2>2. IsFiniteSet(some \ {i}) /\ Cardinality(some \ {i}) = size - 1
    BY <1>1, FS_RemoveElement
  <2> HIDE DEF P
  <2>3. IsFiniteSet(P(i)) /\ Cardinality(P(i)) <= size - 1
    BY <2>1, <2>2, FS_Subset
  <2>4. Cardinality(P(i)) \in Nat
    BY <2>3, FS_CardinalityType
  <2> HIDE DEF size
  <2>5. QED
    BY <1>1, <2>3, <2>4
<1>5. ASSUME NEW i \in some, NEW k \in some, Before(list, here, now, i, k)
      PROVE  Cardinality(P(i)) # Cardinality(P(k))
  <2>1. i \notin P(i) /\ P(i) \cup {i} \in SUBSET P(k) /\ P(k) \in SUBSET some
    BY <1>5, BeforeIsTotalOrder
  <2>2. IsFiniteSet(P(i)) /\ IsFiniteSet(P(k))
    BY <1>3
  <2> HIDE DEF P
  <2>3. Cardinality(P(i) \cup {i}) = Cardinality(P(i)) + 1
    BY <2>1, <2>2, FS_AddElement
  <2>4. Cardinality(P(i) \cup {i}) <= Cardinality(P(k))
    BY <2>1, <2>2, FS_Subset
  <2>5. Cardinality(P(i)) \in Nat /\ Cardinality(P(k)) \in Nat
    BY <2>2, FS_CardinalityType
  <2>6. QED
    BY <2>3, <2>4, <2>5
<1>6. f \in Injection(some, 0 .. (size - 1))
  <2>1. f \in [some -> 0 .. (size - 1)]
    BY <1>4
  <2>2. ASSUME NEW i \in some, NEW k \in some, f[i] = f[k] PROVE i = k
    <3>1. ~Before(list, here, now, i, k) /\ ~Before(list, here, now, k, i)
      BY <1>5, <2>2
    <3>2. QED
      BY <3>1, BeforeIsTotalOrder
  <2> HIDE DEF f
  <2>3. QED
    BY <2>1, <2>2 DEF Injection, IsInjective
<1>7. PICK i \in some : Cardinality(P(i)) = 0
  <2>1. IsFiniteSet(0 .. (size - 1)) /\ Cardinality(0 .. (size - 1)) = size
    <3> HIDE DEF size
    <3>1. QED
      BY <1>1, <1>2, FS_Interval
  <2>2. f \in Surjection(some, 0 .. (size - 1))
    <3> HIDE DEF f
    <3>1. QED
      BY <1>6, <2>1, FS_Injection
  <2>3. \A n \in 0 .. (size - 1) : \E i \in some : f[i] = n
    BY <2>2 DEF Surjection
  <2>4. 0 \in 0 .. (size - 1)
    <3> HIDE DEF size
    <3>1. QED
      BY <1>1, <1>2
  <2>5. QED
    BY <2>3, <2>4
<1>8. P(i) = {}
  <2> HIDE DEF P
  <2>1. P(i) \in SUBSET some
    BY DEF P
  <2>2. QED
    BY <1>3, <1>7, <2>1, FS_EmptySet
<1>9. QED
  BY <1>8, BeforeIsTotalOrder

LEMMA AllItemsType ==
    ASSUME NEW inst \in Instance
    PROVE  \E N \in Nat : AllItems(inst) \in [1 .. N -> Items]
<1>1. inst.files[1] \in Kinds /\ inst.files[2] \in Kinds
  BY DEF Instance
<1>2. AllItems(inst) \in Seq(Items)
  <2> DEFINE left == Todos[inst.files[1]]
             right == Todos[inst.files[2]]
  <2>1. left \in Seq(Items) /\ right \in Seq(Items)
    BY <1>1, NotificationAssumption
  <2> HIDE DEF left, right
  <2>2. left \o right \in Seq(Items)
    BY <2>1
  <2>3. QED
    BY <2>2 DEF AllItems, left, right
<1> DEFINE all == AllItems(inst)
<1> HIDE DEF all
<1>3. all \in Seq(Items)
  BY <1>2 DEF all
<1>4. all \in [1 .. Len(all) -> Items] /\ Len(all) \in Nat
  BY <1>3
<1>5. QED
  BY <1>4 DEF all

\* What a check notifies is an open todo of the service's lists, and no open
\* todo of theirs has a higher score (getTopTodoItem).
THEOREM TheTopIsNotified ==
    ASSUME NEW inst \in Instance, NotDoneItems(inst) # {}
    PROVE  \E i \in NotDoneItems(inst) :
               LET score(j) == getItemScore(AllItems(inst)[j], Places[inst.at], Context)
               IN  /\ TopTitle(inst) = AllItems(inst)[i].title
                   /\ \A j \in NotDoneItems(inst) : score(i) >= score(j)
<1> DEFINE list == AllItems(inst)
           some == NotDoneItems(inst)
           where == Places[inst.at]
           i == CHOOSE k \in some : \A j \in some \ {k} : Before(list, where, Context, k, j)
           score(j) == getItemScore(list[j], where, Context)
<1>1. PICK N \in Nat : list \in [1 .. N -> Items]
  BY AllItemsType
<1>2. some \in SUBSET (1 .. N)
  BY <1>1 DEF NotDoneItems
<1>3. HavePriorities(Items)
  BY NotificationAssumption DEF HavePriorities
<1>4. TopTitle(inst) = list[i].title
  BY DEF TopTitle
<1> HIDE DEF list, some, where
<1>5. some # {}
  BY DEF some
<1>6. \E k \in some : \A j \in some \ {k} : Before(list, where, Context, k, j)
  BY <1>1, <1>2, <1>3, <1>5, OneIsFirst
<1>7. i \in some /\ \A j \in some \ {i} : Before(list, where, Context, i, j)
  BY <1>6
<1>8. ASSUME NEW j \in some PROVE score(i) >= score(j)
  <2>1. list[i] \in Items /\ list[j] \in Items
    BY <1>1, <1>2, <1>7
  <2>2. score(i) \in Int /\ score(j) \in Int
    BY <1>3, <2>1, ScoreType
  <2>3. CASE j = i
    BY <2>2, <2>3
  <2>4. CASE j # i
    <3>1. Before(list, where, Context, i, j)
      BY <1>7, <2>4
    <3>2. score(i) > score(j) \/ score(i) = score(j)
      BY <3>1 DEF Before
    <3>3. QED
      BY <2>2, <3>2
  <2>5. QED
    BY <2>3, <2>4
<1>9. QED
  BY <1>4, <1>7, <1>8 DEF list, some, where

LEMMA TopIsATitle ==
    ASSUME NEW inst \in Instance, NotDoneItems(inst) # {}
    PROVE  TopTitle(inst) \in Titles
<1>1. PICK i \in NotDoneItems(inst) : TopTitle(inst) = AllItems(inst)[i].title
  BY TheTopIsNotified
<1>2. AllItems(inst)[i] \in Items
  BY AllItemsType DEF NotDoneItems
<1>3. QED
  BY <1>1, <1>2 DEF Titles

LEMMA PeriodsType == Periods \in Nat \ {0}
<1>1. Readings \in Seq(Minutes) /\ Readings # <<>>
  BY NotificationAssumption
<1>2. Len(Readings) \in Nat /\ Len(Readings) # 0
  BY <1>1
<1>3. QED
  BY <1>2 DEF Periods

LEMMA DieKeepsTypes ==
    ASSUME NotificationTypeOK, Die, UNCHANGED <<timeVars, posts>> \/ (posts' = FALSE /\ UNCHANGED timeVars)
    PROVE  NotificationTypeOK'
<1>1. /\ alive' = FALSE /\ activity' = "none" /\ manager' = None /\ database' = None
      /\ service' = 0 /\ instances' = <<>> /\ loops' = <<>> /\ stamp' = disk
      /\ wanted' = wanted /\ disk' = disk /\ done' = done
      /\ period' = period /\ shown' = shown /\ again' = again /\ posts' \in BOOLEAN
  BY DEF Die, NotificationTypeOK, timeVars
<1>2. instances' \in Seq(Instance) /\ Len(instances') = 0
  BY <1>1
<1>3. loops' \in Seq(Loop) /\ DOMAIN loops' = {}
  BY <1>1
<1>4. alive' \in BOOLEAN /\ wanted' \in BOOLEAN
  BY <1>1 DEF NotificationTypeOK
<1>5. QED
  BY <1>1, <1>2, <1>3, <1>4 DEF NotificationTypeOK

\* Starting the service: a new object, if none runs, and a Runnable for it.
LEMMA StartKeepsTypes ==
    ASSUME NotificationTypeOK, NEW who \in {"user", None}, StartService(who)
    PROVE  /\ wanted' = TRUE
           /\ database' \in Kinds \cup {None}
           /\ instances' \in Seq(Instance)
           /\ service' \in 1 .. Len(instances')
           /\ loops' \in Seq(Loop)
           /\ \A l \in DOMAIN loops' : loops'[l].inst <= Len(instances')
<1> DEFINE first == getInstance("personal")
           created == [user |-> who, at |-> <<0, 0>>, asked |-> TRUE, load |-> FALSE,
                       files |-> <<first, first>>]
           posted == [inst |-> service', state |-> "posted"]
<1>t. /\ instances \in Seq(Instance) /\ service \in 0 .. Len(instances)
      /\ loops \in Seq(Loop) /\ database \in Kinds \cup {None}
      /\ \A l \in DOMAIN loops : loops[l].inst <= Len(instances)
  BY DEF NotificationTypeOK
<1>1. first \in Kinds
  BY <1>t DEF getInstance, Kinds
<1>2. created \in Instance
  <2>1. <<0, 0>> \in Positions
    BY NotificationAssumption
  <2> HIDE DEF first
  <2>2. QED
    BY <1>1, <2>1 DEF Instance
<1>3. /\ wanted' = TRUE /\ loops' = Append(loops, posted)
      /\ IF service = 0
         THEN /\ instances' = Append(instances, created)
              /\ service' = Len(instances) + 1
              /\ database' = first
         ELSE UNCHANGED <<instances, service, database>>
  BY DEF StartService
<1> HIDE DEF first, created
<1>4. /\ database' \in Kinds \cup {None}
      /\ instances' \in Seq(Instance) /\ Len(instances') >= Len(instances)
      /\ service' \in 1 .. Len(instances')
  <2>1. CASE service = 0
    <3>1. /\ instances' = Append(instances, created) /\ service' = Len(instances) + 1
          /\ database' = first
      BY <1>3, <2>1
    <3>2. /\ instances' \in Seq(Instance) /\ Len(instances') = Len(instances) + 1
          /\ Len(instances) \in Nat
      BY <1>t, <1>2, <3>1
    <3>3. QED
      BY <1>1, <3>1, <3>2
  <2>2. CASE service # 0
    BY <1>t, <1>3, <2>2
  <2>3. QED
    BY <2>1, <2>2
<1>5. posted \in Loop /\ posted.inst <= Len(instances')
  BY <1>4 DEF Loop
<1> HIDE DEF posted
<1>6. loops' \in Seq(Loop)
  BY <1>t, <1>3, <1>5
<1>7. ASSUME NEW l \in DOMAIN loops' PROVE loops'[l].inst <= Len(instances')
  <2>1. CASE l \in DOMAIN loops
    <3>1. loops'[l] = loops[l] /\ loops[l] \in Loop
      BY <1>t, <1>3, <1>5, <2>1
    <3>2. loops[l].inst <= Len(instances) /\ loops[l].inst \in Int
      BY <1>t, <2>1, <3>1 DEF Loop
    <3>3. QED
      BY <1>t, <1>4, <3>1, <3>2
  <2>2. CASE l \notin DOMAIN loops
    <3>1. loops'[l] = posted
      BY <1>t, <1>3, <1>5, <2>2
    <3>2. QED
      BY <1>5, <3>1
  <2>3. QED
    BY <2>1, <2>2
<1>8. QED
  BY <1>3, <1>4, <1>6, <1>7

LEMMA TickKeepsTypes ==
    ASSUME NotificationTypeOK, Tick
    PROVE  NotificationTypeOK'
<1>1. \A ages \in [Titles -> Ages] : Older(ages) \in [Titles -> Ages]
  BY PeriodsType DEF Older, Ages
<1>2. /\ period' \in 1 .. Periods
      /\ stamp' \in [Titles -> Ages] /\ disk' \in [Titles -> Ages] /\ shown' \in [Titles -> Ages]
  BY <1>1, PeriodsType DEF Tick, NotificationTypeOK
<1>3. ASSUME NEW l \in DOMAIN loops
      PROVE  /\ [loops[l] EXCEPT !.state = "due"] \in Loop
             /\ [loops[l] EXCEPT !.state = "due"].inst = loops[l].inst
  <2>1. loops \in Seq(Loop)
    BY DEF NotificationTypeOK
  <2>2. loops[l] \in Loop
    BY <2>1
  <2>3. QED
    BY <2>2 DEF Loop
<1>4. loops' \in Seq(Loop) /\ DOMAIN loops' = DOMAIN loops
      /\ \A l \in DOMAIN loops : loops'[l].inst = loops[l].inst
  <2>1. loops' = [l \in DOMAIN loops |-> [loops[l] EXCEPT !.state = "due"]]
    BY DEF Tick
  <2>2. loops \in Seq(Loop)
    BY DEF NotificationTypeOK
  <2>3. loops' \in [1 .. Len(loops) -> Loop] /\ Len(loops) \in Nat /\ DOMAIN loops = 1 .. Len(loops)
    BY <1>3, <2>1, <2>2
  <2>4. loops' \in Seq(Loop)
    BY <2>3
  <2>5. QED
    BY <1>3, <2>1, <2>4
<1>5. UNCHANGED <<again, wanted, service, instances, appVars>>
  BY DEF Tick
<1>6. QED
  BY <1>2, <1>4, <1>5 DEF NotificationTypeOK, appVars

LEMMA CheckKeepsTypes ==
    ASSUME NotificationTypeOK, NEW l \in DOMAIN loops, Check(l)
    PROVE  NotificationTypeOK'
<1> DEFINE n == loops[l].inst
           inst == instances[n]
<1>1. n \in 1 .. Len(instances) /\ inst \in Instance /\ loops[l] \in Loop
  <2>1. loops[l] \in Loop /\ loops[l].inst <= Len(instances) /\ instances \in Seq(Instance)
    BY DEF NotificationTypeOK
  <2>2. n \in 1 .. Len(instances)
    BY <2>1 DEF Loop
  <2> HIDE DEF n
  <2>3. QED
    BY <2>1, <2>2
<1>2. CASE Die /\ UNCHANGED <<timeVars, posts>>
  BY <1>2, DieKeepsTypes
<1>3. CASE /\ \/ UNCHANGED <<stamp, shown, again>>
              \/ NotDoneItems(inst) # {} /\ Notify(TopTitle(inst))
           /\ loops' = [loops EXCEPT ![l].state = "checked"]
           /\ \E asked \in {inst.asked, TRUE} :
                 instances' = [instances EXCEPT ![n].asked = asked]
           /\ UNCHANGED <<period, disk, wanted, service, appVars>>
  <2> HIDE DEF n
  <2>1. /\ stamp' \in [Titles -> Ages] /\ shown' \in [Titles -> Ages]
        /\ again' \subseteq Titles
    <3>1. CASE UNCHANGED <<stamp, shown, again>>
      BY <3>1 DEF NotificationTypeOK
    <3>2. CASE NotDoneItems(inst) # {} /\ Notify(TopTitle(inst))
      <4>1. TopTitle(inst) \in Titles
        BY <1>1, <3>2, TopIsATitle
      <4>2. 0 \in Ages
        BY PeriodsType DEF Ages
      <4>3. QED
        BY <3>2, <4>1, <4>2 DEF Notify, sendNotification, NotificationTypeOK
    <3>3. QED
      BY <1>3, <3>1, <3>2
  <2>2. instances' \in Seq(Instance) /\ Len(instances') = Len(instances)
    <3>1. PICK asked \in {inst.asked, TRUE} :
             instances' = [instances EXCEPT ![n].asked = asked]
      BY <1>3
    <3>2. [inst EXCEPT !.asked = asked] \in Instance
      BY <1>1, <3>1 DEF Instance
    <3>3. instances \in Seq(Instance)
      BY DEF NotificationTypeOK
    <3>4. instances' = [instances EXCEPT ![n] = [inst EXCEPT !.asked = asked]]
      BY <3>1
    <3> HIDE DEF inst
    <3>5. QED
      BY <1>1, <3>2, <3>3, <3>4
  <2>3. loops' \in Seq(Loop) /\ \A m \in DOMAIN loops' : loops'[m].inst <= Len(instances)
    <3>1. loops \in Seq(Loop) /\ \A m \in DOMAIN loops : loops[m].inst <= Len(instances)
      BY DEF NotificationTypeOK
    <3>2. [loops[l] EXCEPT !.state = "checked"] \in Loop
          /\ [loops[l] EXCEPT !.state = "checked"].inst = loops[l].inst
      BY <1>1 DEF Loop
    <3>3. loops' = [loops EXCEPT ![l] = [loops[l] EXCEPT !.state = "checked"]]
      BY <1>3
    <3>4. QED
      BY <3>1, <3>2, <3>3
  <2>4. instances # <<>>
    BY <1>1
  <2>5. QED
    BY <1>3, <2>1, <2>2, <2>3, <2>4 DEF NotificationTypeOK, appVars
<1>4. QED
  BY <1>2, <1>3 DEF Check

\* Every variable of the service stays within its type, loops run for objects of
\* the living process, and a dead process has none (TodoNotificationService).
THEOREM NotificationTypes == Spec => []NotificationTypeOK
<1>1. Init => NotificationTypeOK
  <2> SUFFICES ASSUME Init PROVE NotificationTypeOK
    OBVIOUS
  <2>1. Old \in [Titles -> Ages]
    BY PeriodsType DEF Old, Ages
  <2>2. <<>> \in Seq(Instance) /\ <<>> \in Seq(Loop) /\ Len(<<>>) = 0
    OBVIOUS
  <2>3. alive \in BOOLEAN /\ ~alive /\ posts \in BOOLEAN /\ wanted \in BOOLEAN
    BY DEF Init
  <2>4. QED
    BY <2>1, <2>2, <2>3 DEF Init, NotificationTypeOK
<1>2. NotificationTypeOK /\ [Next]_vars => NotificationTypeOK'
  <2> SUFFICES ASSUME NotificationTypeOK, [Next]_vars PROVE NotificationTypeOK'
    OBVIOUS
  <2> USE DEF timeVars, cacheVars, serviceVars, appVars
  <2>1. CASE Resume
    <3>1. /\ activity' = "resumed" /\ alive' \in BOOLEAN /\ alive' /\ manager' = "user"
          /\ UNCHANGED <<period, shown, again, stamp, disk, posts, done>>
      BY <2>1 DEF Resume
    <3>2. CASE StartService("user")
      <4>1. wanted' \in BOOLEAN
        BY <3>2 DEF StartService
      <4>2. /\ database' \in Kinds \cup {None} /\ instances' \in Seq(Instance)
            /\ service' \in 0 .. Len(instances') /\ loops' \in Seq(Loop)
            /\ \A l \in DOMAIN loops' : loops'[l].inst <= Len(instances')
        BY <3>2, StartKeepsTypes
      <4>3. QED
        BY <3>1, <4>1, <4>2 DEF NotificationTypeOK
    <3>3. CASE UNCHANGED <<serviceVars, database>>
      BY <3>1, <3>3 DEF NotificationTypeOK
    <3>4. QED
      BY <2>1, <3>2, <3>3 DEF Resume
  <2>2. CASE Grant
    <3>1. posts' \in BOOLEAN
      BY <2>2 DEF Grant
    <3>2. QED
      BY <2>2, <3>1 DEF Grant, NotificationTypeOK
  <2>3. CASE Leave
    BY <2>3 DEF Leave, NotificationTypeOK
  <2>4. CASE Revoke
    BY <2>4, DieKeepsTypes DEF Revoke
  <2>5. CASE Kill
    BY <2>5, DieKeepsTypes DEF Kill
  <2>6. CASE StopService
    <3>1. wanted' \in BOOLEAN
      BY <2>6 DEF StopService
    <3>2. QED
      BY <2>6, <3>1 DEF StopService, NotificationTypeOK
  <2>7. CASE StickyRestart
    <3>1. /\ alive' \in BOOLEAN /\ alive' /\ StartService(manager) /\ manager \in {"user", None}
          /\ UNCHANGED <<period, shown, again, stamp, disk, activity, manager, posts, done>>
      BY <2>7 DEF StickyRestart, NotificationTypeOK
    <3>2. wanted' \in BOOLEAN
      BY <3>1 DEF StartService
    <3>3. /\ database' \in Kinds \cup {None} /\ instances' \in Seq(Instance)
          /\ service' \in 0 .. Len(instances') /\ loops' \in Seq(Loop)
          /\ \A l \in DOMAIN loops' : loops'[l].inst <= Len(instances')
      <4>1. PICK who \in {"user", None} : manager = who
        BY <3>1
      <4>2. StartService(who)
        BY <3>1, <4>1 DEF StartService
      <4>3. who \in {"user", None}
        BY <4>1
      <4>4. /\ database' \in Kinds \cup {None} /\ instances' \in Seq(Instance)
            /\ service' \in 1 .. Len(instances') /\ loops' \in Seq(Loop)
            /\ \A l \in DOMAIN loops' : loops'[l].inst <= Len(instances')
        BY <4>2, <4>3, StartKeepsTypes
      <4>5. QED
        BY <4>4
    <3>4. /\ period' \in 1 .. Periods /\ activity' \in {"none", "resumed", "left"}
          /\ manager' \in {"user", None} /\ done' \subseteq Titles
          /\ stamp' \in [Titles -> Ages] /\ disk' \in [Titles -> Ages]
          /\ shown' \in [Titles -> Ages] /\ again' \subseteq Titles
      BY <2>7 DEF StickyRestart, NotificationTypeOK
    <3>5. posts' \in BOOLEAN
      BY <2>7 DEF StickyRestart, NotificationTypeOK
    <3>6. QED
      BY <3>1, <3>2, <3>3, <3>4, <3>5 DEF NotificationTypeOK
  <2>8. ASSUME NEW t \in Titles, CheckTodo(t) PROVE NotificationTypeOK'
    BY <2>8 DEF CheckTodo, NotificationTypeOK
  <2>9. CASE SaveCache
    BY <2>9 DEF SaveCache, NotificationTypeOK
  <2>10. CASE Tick
    BY <2>10, TickKeepsTypes
  <2>11. ASSUME NEW i \in DOMAIN instances, NEW p \in Positions, Fix(i, p)
         PROVE  NotificationTypeOK'
    <3>1. instances' = [instances EXCEPT ![i] = [instances[i] EXCEPT !.at = p, !.asked = FALSE]]
      BY <2>11 DEF Fix
    <3>2. instances \in Seq(Instance) /\ instances[i] \in Instance
      BY DEF NotificationTypeOK
    <3>3. [instances[i] EXCEPT !.at = p, !.asked = FALSE] \in Instance
      BY <3>2 DEF Instance
    <3>4. instances' \in Seq(Instance) /\ Len(instances') = Len(instances) /\ instances # <<>>
      BY <3>1, <3>2, <3>3
    <3>5. QED
      BY <2>11, <3>4 DEF Fix, NotificationTypeOK
  <2>12. ASSUME NEW load \in Loads, onSensorChanged(load) PROVE NotificationTypeOK'
    <3>1. service \in DOMAIN instances /\ instances \in Seq(Instance)
          /\ instances' = [instances EXCEPT ![service] = [instances[service] EXCEPT !.load = load]]
      BY <2>12 DEF onSensorChanged, NotificationTypeOK
    <3>2. instances[service] \in Instance /\ load \in BOOLEAN
      BY <3>1, NotificationAssumption
    <3>3. [instances[service] EXCEPT !.load = load] \in Instance
      BY <3>2 DEF Instance
    <3>4. instances' \in Seq(Instance) /\ Len(instances') = Len(instances) /\ instances # <<>>
      BY <3>1, <3>3
    <3>5. QED
      BY <2>12, <3>4 DEF onSensorChanged, NotificationTypeOK
  <2>13. ASSUME NEW l \in DOMAIN loops, Check(l) PROVE NotificationTypeOK'
    BY <2>13, CheckKeepsTypes
  <2>14. CASE UNCHANGED vars
    BY <2>14 DEF vars, NotificationTypeOK
  <2>15. QED
    BY <2>1, <2>2, <2>3, <2>4, <2>5, <2>6, <2>7, <2>8, <2>9, <2>10, <2>11, <2>12, <2>13, <2>14
    DEF Next
<1>3. QED
  BY <1>1, <1>2, PTL DEF Spec

-----------------------------------------------------------------------------
(***************************************************************************)
(* The cache.  What a check does to it is one of three things: nothing,    *)
(* notifying a todo the cache does not know, or ending the process.        *)
(***************************************************************************)
LEMMA CheckEffect ==
    ASSUME NotificationTypeOK, NEW l \in DOMAIN loops, Check(l)
    PROVE  \/ Die /\ UNCHANGED <<timeVars, posts>> /\ SortThrows(instances[loops[l].inst])
           \/ /\ \/ UNCHANGED <<stamp, shown, again>>
                 \/ \E t \in Titles : ~Cached(t) /\ Notify(t)
              /\ UNCHANGED <<period, disk, wanted, service, posts>>
              /\ loops # <<>>
              /\ DOMAIN instances' = DOMAIN instances
              /\ \A i \in DOMAIN instances : instances'[i].user = instances[i].user
<1> DEFINE n == loops[l].inst
           inst == instances[n]
<1>1. n \in DOMAIN instances /\ inst \in Instance /\ loops # <<>>
  <2>1. loops \in Seq(Loop)
    BY DEF NotificationTypeOK
  <2>2. loops[l] \in Loop /\ loops # <<>>
    BY <2>1
  <2>3. loops[l].inst <= Len(instances) /\ instances \in Seq(Instance)
    BY DEF NotificationTypeOK
  <2>4. n \in 1 .. Len(instances)
    BY <2>2, <2>3 DEF Loop
  <2> HIDE DEF n
  <2>5. QED
    BY <2>2, <2>3, <2>4
<1>2. CASE Die /\ UNCHANGED <<timeVars, posts>> /\ SortThrows(inst)
  BY <1>2
<1>3. CASE /\ \/ UNCHANGED <<stamp, shown, again>>
              \/ /\ NotDoneItems(inst) # {}
                 /\ ~Cached(TopTitle(inst))
                 /\ Notify(TopTitle(inst))
           /\ \E asked \in {inst.asked, TRUE} :
                 instances' = [instances EXCEPT ![n].asked = asked]
           /\ UNCHANGED <<period, disk, wanted, service, appVars>>
  <2>1. \/ UNCHANGED <<stamp, shown, again>>
        \/ \E t \in Titles : ~Cached(t) /\ Notify(t)
    <3>1. CASE UNCHANGED <<stamp, shown, again>>
      BY <3>1
    <3>2. CASE /\ NotDoneItems(inst) # {} /\ ~Cached(TopTitle(inst)) /\ Notify(TopTitle(inst))
      <4>1. TopTitle(inst) \in Titles
        BY <1>1, <3>2, TopIsATitle
      <4>2. PICK t \in Titles : t = TopTitle(inst)
        BY <4>1
      <4>3. ~Cached(t) /\ Notify(t)
        BY <3>2, <4>2 DEF Cached, Notify, sendNotification
      <4>4. QED
        BY <4>2, <4>3
    <3>3. QED
      BY <1>3, <3>1, <3>2
  <2>2. /\ DOMAIN instances' = DOMAIN instances
        /\ \A i \in DOMAIN instances : instances'[i].user = instances[i].user
    <3>1. instances \in Seq(Instance)
      BY DEF NotificationTypeOK
    <3>2. PICK asked \in BOOLEAN : instances' = [instances EXCEPT ![n].asked = asked]
      BY <1>1, <1>3 DEF Instance
    <3>3. \A i \in DOMAIN instances : instances[i] \in Instance
      BY <3>1
    <3> HIDE DEF n
    <3>4. QED
      BY <3>1, <3>2, <3>3 DEF Instance
  <2>3. QED
    BY <1>1, <1>3, <2>1, <2>2 DEF appVars
<1>4. QED
  BY <1>2, <1>3 DEF Check

LEMMA OlderKeepsOrder ==
    ASSUME NEW a \in [Titles -> Ages], NEW b \in [Titles -> Ages], NEW t \in Titles
    PROVE  /\ a[t] <= b[t] => Older(a)[t] <= Older(b)[t]
           /\ (a[t] < Periods => b[t] <= a[t]) =>
              (Older(a)[t] < Periods => Older(b)[t] <= Older(a)[t])
BY PeriodsType DEF Older, Ages

\* A todo in the cache, in memory or written, was shown no earlier; and what runs
\* or will be restarted may notify.
StampInv ==
    /\ \A t \in Titles : stamp[t] < Periods => shown[t] <= stamp[t]
    /\ \A t \in Titles : disk[t] < Periods => shown[t] <= disk[t]
    /\ wanted \/ loops # <<>> => posts

LEMMA StampStep ==
    ASSUME "revoke" \notin Faults, NotificationTypeOK, StampInv, [Next]_vars
    PROVE  StampInv'
<1> USE DEF timeVars, cacheVars, serviceVars, appVars
<1>t. /\ stamp \in [Titles -> Ages] /\ disk \in [Titles -> Ages] /\ shown \in [Titles -> Ages]
      /\ loops \in Seq(Loop)
  BY DEF NotificationTypeOK
<1>d. ASSUME Die, UNCHANGED <<timeVars, posts>> PROVE StampInv'
  BY <1>d DEF Die, StampInv
<1>1. CASE Resume
  <2>1. UNCHANGED <<stamp, disk, shown, posts>>
    BY <1>1 DEF Resume
  <2>2. posts' \/ UNCHANGED <<wanted, loops>>
    BY <1>1 DEF Resume
  <2>3. QED
    BY <2>1, <2>2 DEF StampInv
<1>2. CASE Grant
  <2>1. posts' /\ UNCHANGED <<stamp, disk, shown>>
    BY <1>2 DEF Grant
  <2>2. QED
    BY <2>1 DEF StampInv
<1>3. CASE Leave
  BY <1>3 DEF Leave, StampInv
<1>4. CASE Revoke
  BY <1>4 DEF Revoke
<1>5. CASE Kill
  BY <1>5, <1>d DEF Kill
<1>6. CASE StopService
  <2>1. ~wanted' /\ UNCHANGED <<stamp, disk, shown, posts, loops>>
    BY <1>6 DEF StopService
  <2>2. QED
    BY <2>1 DEF StampInv
<1>7. CASE StickyRestart
  <2>1. wanted /\ UNCHANGED <<stamp, disk, shown, posts>>
    BY <1>7 DEF StickyRestart
  <2>2. QED
    BY <2>1 DEF StampInv
<1>8. ASSUME NEW t \in Titles, CheckTodo(t) PROVE StampInv'
  BY <1>8 DEF CheckTodo, StampInv
<1>9. CASE SaveCache
  BY <1>9 DEF SaveCache, StampInv
<1>10. CASE Tick
  <2>1. /\ stamp' = Older(stamp) /\ disk' = Older(disk) /\ shown' = Older(shown)
        /\ UNCHANGED <<wanted, posts>>
        /\ loops' = [l \in DOMAIN loops |-> [loops[l] EXCEPT !.state = "due"]]
    BY <1>10 DEF Tick
  <2>2. loops = <<>> => loops' = <<>>
    BY <1>t, <2>1
  <2>3. \A t \in Titles : /\ stamp'[t] < Periods => shown'[t] <= stamp'[t]
                          /\ disk'[t] < Periods => shown'[t] <= disk'[t]
    BY <1>t, <2>1, OlderKeepsOrder DEF StampInv
  <2>4. QED
    BY <2>1, <2>2, <2>3 DEF StampInv
<1>11. ASSUME NEW i \in DOMAIN instances, NEW p \in Positions, Fix(i, p) PROVE StampInv'
  BY <1>11 DEF Fix, StampInv
<1>12. ASSUME NEW load \in Loads, onSensorChanged(load) PROVE StampInv'
  BY <1>12 DEF onSensorChanged, StampInv
<1>13. ASSUME NEW l \in DOMAIN loops, Check(l) PROVE StampInv'
  <2>1. CASE Die /\ UNCHANGED <<timeVars, posts>>
    BY <1>d, <2>1
  <2>2. CASE /\ UNCHANGED <<stamp, shown>>
             /\ UNCHANGED <<disk, wanted, posts>> /\ loops # <<>>
    BY <2>2 DEF StampInv
  <2>3. ASSUME NEW t \in Titles, Notify(t),
               UNCHANGED <<disk, wanted, posts>>, loops # <<>>
        PROVE  StampInv'
    <3>1. posts
      BY <2>3 DEF StampInv
    <3>2. shown' = [shown EXCEPT ![t] = 0]
          /\ stamp' = IF TestMode THEN stamp ELSE [stamp EXCEPT ![t] = 0]
      BY <2>3, <3>1 DEF Notify, sendNotification
    <3>3. \A u \in Titles : /\ stamp'[u] < Periods => shown'[u] <= stamp'[u]
                            /\ disk'[u] < Periods => shown'[u] <= disk'[u]
      BY <1>t, <2>3, <3>2 DEF StampInv, Ages
    <3>4. QED
      BY <2>3, <3>1, <3>3 DEF StampInv
  <2>4. QED
    BY <1>13, <2>1, <2>2, <2>3, CheckEffect
<1>14. CASE UNCHANGED vars
  BY <1>14 DEF vars, StampInv
<1>15. QED
  BY <1>1, <1>2, <1>3, <1>4, <1>5, <1>6, <1>7, <1>8, <1>9, <1>10, <1>11, <1>12, <1>13, <1>14
  DEF Next

\* The cache swallows no reminder, whatever loops run, whenever the process is
\* killed: a todo it keeps from being notified was shown no earlier than that.
\* This needs that the user does not take the permission back: sendNotification
\* returns without it after getTopTodoItem has stamped the cache.
THEOREM StampedTodosWereShown ==
    ASSUME "revoke" \notin Faults
    PROVE  Spec => []StampedWereShown
<1>1. Init => StampInv
  <2> SUFFICES ASSUME Init PROVE StampInv
    OBVIOUS
  <2>1. \A t \in Titles : stamp[t] = Periods /\ disk[t] = Periods
    BY DEF Init, Old
  <2>2. ~wanted /\ loops = <<>>
    BY DEF Init
  <2>3. QED
    BY <2>1, <2>2, PeriodsType DEF StampInv
<1>2. NotificationTypeOK /\ StampInv /\ [Next]_vars => StampInv'
  BY StampStep
<1>3. StampInv => StampedWereShown
  BY DEF StampInv, StampedWereShown
<1>4. QED
  BY <1>1, <1>2, <1>3, NotificationTypes, PTL DEF Spec

-----------------------------------------------------------------------------
\* Outside the first two hours of createUser's day the mapper finds a constant:
\* "before_working" is a key of its map, BEFORE_WORK the constant of Time.
LEMMA ContextIsFound ==
    ASSUME NEW m \in Minutes, m \notin 420 .. 539
    PROVE  mapTimeToContext(TimeOrder, m) # Throws
<1>1. EntryOf(m) \in {"working", "rest", "sleep"}
  <2>1. ~(420 <= m /\ m <= 539)
    BY DEF Minutes
  <2>2. QED
    BY <2>1 DEF EntryOf
<1>2. /\ TimeOrder[1] = "before_working" /\ TimeOrder[2] = "working"
      /\ TimeOrder[3] = "rest" /\ TimeOrder[4] = "sleep" /\ DOMAIN TimeOrder = 1 .. 4
  BY DEF TimeOrder
<1>3. PICK i \in 1 .. 4 : TimeOrder[i] = EntryOf(m)
  BY <1>1, <1>2
<1>4. \A j \in DOMAIN TimeOrder : TimeOrder[j] = EntryOf(m) => j = i
  <2>1. \A j, k \in 1 .. 4 : TimeOrder[j] = TimeOrder[k] => j = k
    BY <1>2
  <2>2. QED
    BY <1>2, <1>3, <2>1
<1>5. i \in DOMAIN TimeOrder /\ DOMAIN TimeOrder \subseteq Nat
      /\ \A j \in 1 .. (i - 1) : j \in DOMAIN TimeOrder
  BY <1>2, <1>3
<1>6. mapTimeToContext(TimeOrder, m) = ValueOf(TimeConstants, EntryOf(m))
  BY <1>3, <1>4, <1>5, OrderIsIrrelevant
<1>7. ValueOf(TimeConstants, EntryOf(m)) # Throws
  BY <1>1 DEF ValueOf, TimeConstants, Throws
<1>8. QED
  BY <1>6, <1>7

\* No todo was notified twice; the cache never knows less than what was shown;
\* a service the system would restart is running; and all of them have a user.
TwiceInv ==
    /\ again = {}
    /\ \A t \in Titles : stamp[t] <= shown[t]
    /\ wanted => service # 0
    /\ \A i \in DOMAIN instances : instances[i].user = "user"

LEMMA TwiceStep ==
    ASSUME TestMode = FALSE, "kill" \notin Faults, "revoke" \notin Faults,
           \A i \in 1 .. Periods : Readings[i] \notin 420 .. 539,
           NotificationTypeOK, TwiceInv, [Next]_vars
    PROVE  TwiceInv'
<1> USE DEF timeVars, cacheVars, serviceVars, appVars
<1>t. /\ stamp \in [Titles -> Ages] /\ disk \in [Titles -> Ages] /\ shown \in [Titles -> Ages]
      /\ loops \in Seq(Loop) /\ instances \in Seq(Instance) /\ service \in 0 .. Len(instances)
  BY DEF NotificationTypeOK
<1>1. CASE Resume
  <2>1. UNCHANGED <<stamp, shown, again>>
    BY <1>1 DEF Resume
  <2>2. StartService("user") \/ UNCHANGED <<wanted, service, instances>>
    BY <1>1 DEF Resume
  <2>3. CASE StartService("user")
    <3>1. service' # 0
      BY <2>3, StartKeepsTypes
    <3>2. \A i \in DOMAIN instances' : instances'[i].user = "user"
      <4> DEFINE first == getInstance("personal")
                 created == [user |-> "user", at |-> <<0, 0>>, asked |-> TRUE,
                             load |-> FALSE, files |-> <<first, first>>]
      <4>1. instances' = Append(instances, created) \/ instances' = instances
        BY <2>3 DEF StartService
      <4>2. created.user = "user"
        OBVIOUS
      <4> HIDE DEF created
      <4>3. CASE instances' = Append(instances, created)
        <5>1. \A i \in DOMAIN instances' :
                 IF i \in DOMAIN instances THEN instances'[i] = instances[i]
                 ELSE instances'[i] = created
          BY <1>t, <4>3
        <5>2. QED
          BY <4>2, <5>1 DEF TwiceInv
      <4>4. QED
        BY <4>1, <4>3 DEF TwiceInv
    <3>3. QED
      BY <2>1, <3>1, <3>2 DEF TwiceInv
  <2>4. QED
    BY <2>1, <2>2, <2>3 DEF TwiceInv
<1>2. CASE Grant
  BY <1>2 DEF Grant, TwiceInv
<1>3. CASE Leave
  BY <1>3 DEF Leave, TwiceInv
<1>4. CASE Revoke
  BY <1>4 DEF Revoke
<1>5. CASE Kill
  BY <1>5 DEF Kill
<1>6. CASE StopService
  <2>1. ~wanted' /\ UNCHANGED <<stamp, shown, again, instances>>
    BY <1>6 DEF StopService
  <2>2. QED
    BY <2>1 DEF TwiceInv
<1>7. CASE StickyRestart
  BY <1>7 DEF StickyRestart, TwiceInv
<1>8. ASSUME NEW t \in Titles, CheckTodo(t) PROVE TwiceInv'
  BY <1>8 DEF CheckTodo, TwiceInv
<1>9. CASE SaveCache
  BY <1>9 DEF SaveCache, TwiceInv
<1>10. CASE Tick
  <2>1. /\ stamp' = Older(stamp) /\ shown' = Older(shown)
        /\ UNCHANGED <<again, wanted, service, instances>>
    BY <1>10 DEF Tick
  <2>2. \A t \in Titles : stamp'[t] <= shown'[t]
    BY <1>t, <2>1, OlderKeepsOrder DEF TwiceInv
  <2>3. QED
    BY <2>1, <2>2 DEF TwiceInv
<1>11. ASSUME NEW i \in DOMAIN instances, NEW p \in Positions, Fix(i, p) PROVE TwiceInv'
  <2>1. instances' = [instances EXCEPT ![i].at = p, ![i].asked = FALSE]
        /\ UNCHANGED <<stamp, shown, again, wanted, service>>
    BY <1>11 DEF Fix
  <2>2. \A k \in DOMAIN instances : instances[k] \in Instance
    BY <1>t
  <2>3. \A k \in DOMAIN instances' : instances'[k].user = "user"
    BY <1>t, <2>1, <2>2 DEF TwiceInv, Instance
  <2>4. QED
    BY <2>1, <2>3 DEF TwiceInv
<1>12. ASSUME NEW load \in Loads, onSensorChanged(load) PROVE TwiceInv'
  <2>1. instances' = [instances EXCEPT ![service].load = load]
        /\ UNCHANGED <<stamp, shown, again, wanted, service>>
    BY <1>12 DEF onSensorChanged
  <2>2. \A k \in DOMAIN instances : instances[k] \in Instance
    BY <1>t
  <2>3. \A k \in DOMAIN instances' : instances'[k].user = "user"
    BY <1>t, <2>1, <2>2 DEF TwiceInv, Instance
  <2>4. QED
    BY <2>1, <2>3 DEF TwiceInv
<1>13. ASSUME NEW l \in DOMAIN loops, Check(l) PROVE TwiceInv'
  <2> DEFINE n == loops[l].inst
  <2>1. n \in DOMAIN instances
    <3>1. loops[l] \in Loop /\ n <= Len(instances)
      BY <1>t, <1>13 DEF NotificationTypeOK
    <3>2. QED
      BY <1>t, <3>1 DEF Loop
  <2>2. ~SortThrows(instances[n])
    <3>1. instances[n].user # None
      BY <2>1, NotificationAssumption DEF TwiceInv
    <3>2. Context # Throws
      <4>1. period \in 1 .. Periods
        BY DEF NotificationTypeOK
      <4>2. Readings[period] \in Minutes /\ Readings[period] \notin 420 .. 539
        <5>1. Readings \in Seq(Minutes) /\ period \in 1 .. Len(Readings)
          BY <4>1, NotificationAssumption DEF Periods
        <5>2. Readings[period] \in Minutes
          BY <5>1
        <5>3. Readings[period] \notin 420 .. 539
          BY <4>1
        <5>4. QED
          BY <5>2, <5>3
      <4>3. Context = mapTimeToContext(TimeOrder, Readings[period])
        BY <4>1 DEF Context, Contexts
      <4>4. PICK m \in Minutes : m = Readings[period]
        BY <4>2
      <4>5. mapTimeToContext(TimeOrder, m) # Throws
        BY <4>2, <4>4, ContextIsFound
      <4>6. QED
        BY <4>3, <4>4, <4>5
    <3>3. QED
      BY <3>1, <3>2 DEF SortThrows
  <2>3. /\ \/ UNCHANGED <<stamp, shown, again>>
           \/ \E t \in Titles : ~Cached(t) /\ Notify(t)
        /\ UNCHANGED <<wanted, service>>
        /\ DOMAIN instances' = DOMAIN instances
        /\ \A i \in DOMAIN instances : instances'[i].user = instances[i].user
    BY <1>13, <2>2, CheckEffect
  <2>4. (wanted' => service' # 0) /\ \A i \in DOMAIN instances' : instances'[i].user = "user"
    BY <2>3 DEF TwiceInv
  <2>5. ASSUME NEW t \in Titles, ~Cached(t), Notify(t)
        PROVE  again' = {} /\ \A u \in Titles : stamp'[u] <= shown'[u]
    <3>1. stamp[t] = Periods /\ shown[t] = Periods
      BY <1>t, <2>5, PeriodsType DEF Cached, TwiceInv, Ages
    <3>2. stamp' = [stamp EXCEPT ![t] = 0]
      BY <2>5 DEF Notify
    <3>3. /\ again' = again
          /\ shown' = [shown EXCEPT ![t] = 0] \/ shown' = shown
      BY <2>5, <3>1, PeriodsType DEF Notify, sendNotification
    <3>4. \A u \in Titles : stamp'[u] <= shown'[u]
      BY <1>t, <3>1, <3>2, <3>3, PeriodsType DEF TwiceInv, Ages
    <3>5. QED
      BY <3>3, <3>4 DEF TwiceInv
  <2>6. again' = {} /\ \A u \in Titles : stamp'[u] <= shown'[u]
    <3>1. CASE UNCHANGED <<stamp, shown, again>>
      BY <3>1 DEF TwiceInv
    <3>2. QED
      BY <2>3, <2>5, <3>1
  <2>7. QED
    BY <2>4, <2>6 DEF TwiceInv
<1>14. CASE UNCHANGED vars
  BY <1>14 DEF vars, TwiceInv
<1>15. QED
  BY <1>1, <1>2, <1>3, <1>4, <1>5, <1>6, <1>7, <1>8, <1>9, <1>10, <1>11, <1>12, <1>13, <1>14
  DEF Next

\* "Notify only if this item has not been notified in the last 24 hours": with the
\* cache on, however many loops and services the watch collects.  Needed is that
\* nothing ends the process between a stamp and apply()'s write of it: no kill, no
\* permission taken back, and no check in the two hours in which sorting throws.
\* What the cache holds was then shown, too.
THEOREM NothingIsNotifiedTwice ==
    ASSUME TestMode = FALSE, "kill" \notin Faults, "revoke" \notin Faults,
           \A i \in 1 .. Periods : Readings[i] \notin 420 .. 539
    PROVE  Spec => []NotificationInv
<1>1. Init => TwiceInv
  <2> SUFFICES ASSUME Init PROVE TwiceInv
    OBVIOUS
  <2>1. again = {} /\ ~wanted /\ instances = <<>> /\ stamp = Old /\ shown = Old
    BY DEF Init
  <2>2. \A t \in Titles : stamp[t] <= shown[t]
    BY <2>1, PeriodsType DEF Old
  <2>3. QED
    BY <2>1, <2>2 DEF TwiceInv
<1>2. NotificationTypeOK /\ TwiceInv /\ [Next]_vars => TwiceInv'
  BY TwiceStep
<1>3. TwiceInv => NotTwiceADay
  BY DEF TwiceInv, NotTwiceADay
<1>4. NotificationTypeOK /\ StampedWereShown /\ NotTwiceADay => NotificationInv
  BY DEF NotificationInv
<1>5. Spec => []StampedWereShown
  BY StampedTodosWereShown
<1>6. QED
  BY <1>1, <1>2, <1>3, <1>4, <1>5, NotificationTypes, PTL DEF Spec
=============================================================================
