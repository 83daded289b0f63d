----------------------------- MODULE ContextScore -----------------------------
(***************************************************************************)
(* What a minute and a place are worth to a todo: TimeRange and            *)
(* LocationRange, the mappers from a reading to a context, the ranges      *)
(* createUser gives every user, and the order TodoSorter gives a list.     *)
(*                                                                         *)
(* Coordinates are in thousandths of a degree and scores in hundredths:    *)
(* the code's doubles (0.5, 0.25, 0.2, 0.3 and their sums) compare alike.  *)
(* A map is the sequence of its entries in the order it iterates them: a   *)
(* HashMap's on the first launch, the stored order ever after.             *)
(***************************************************************************)
EXTENDS Integers, Sequences, FiniteSets

Day == 24 * 60
Minutes == 0 .. (Day - 1)
Throws == "IllegalArgumentException"

\* Time.valueOf(key.toUpperCase()) and Place.valueOf(key.toUpperCase()).
TimeConstants ==
    [before_work |-> "BEFORE_WORK", working |-> "WORKING", rest |-> "REST",
     sleep |-> "SLEEP", general |-> "GENERAL"]
PlaceConstants ==
    [home |-> "HOME", school |-> "SCHOOL", work |-> "WORK", store |-> "STORE",
     general |-> "GENERAL"]
ValueOf(constants, key) == IF key \in DOMAIN constants THEN constants[key] ELSE Throws

TimeRange(startHour, startMinute, endHour, endMinute) ==
    [start |-> startHour * 60 + startMinute, end |-> endHour * 60 + endMinute]

\* A range whose start lies after its end crosses midnight.
isWithinRange(range, m) ==
    IF range.start > range.end THEN m >= range.start \/ m <= range.end
    ELSE m >= range.start /\ m <= range.end

Box(minLatitude, maxLatitude, minLongitude, maxLongitude) ==
    [lat |-> <<minLatitude, maxLatitude>>, lng |-> <<minLongitude, maxLongitude>>]
isWithinBox(box, lat, lng) ==
    /\ box.lat[1] <= lat /\ lat <= box.lat[2]
    /\ box.lng[1] <= lng /\ lng <= box.lng[2]

\* Mutated form: work ends when rest begins.
TimeMap_Overlapping ==
    [before_working |-> TimeRange(7, 0, 8, 59), working |-> TimeRange(9, 0, 17, 0),
     rest |-> TimeRange(17, 0, 22, 59), sleep |-> TimeRange(23, 0, 6, 59)]

\* createUser's maps.
TimeMap ==
    [before_working |-> TimeRange(7, 0, 8, 59), working |-> TimeRange(9, 0, 16, 59),
     rest |-> TimeRange(17, 0, 22, 59), sleep |-> TimeRange(23, 0, 6, 59)]
LocationMap ==
    [home |-> Box(32870, 32871, -117217, -117216),
     school |-> Box(32871, 32891, -117242, -117228),
     store |-> Box(32868, 32872, -117213, -117208)]

\* The entries of `order` in S that come before all others in S.
FirstIn(order, S) ==
    {i \in DOMAIN order : order[i] \in S /\ \A j \in 1 .. (i - 1) : order[j] \notin S}

\* The first entry whose range holds decides; GENERAL if none does.
mapTimeToContext(order, m) ==
    LET first == FirstIn(order, {key \in DOMAIN TimeMap : isWithinRange(TimeMap[key], m)})
    IN  IF first = {} THEN "GENERAL"
        ELSE ValueOf(TimeConstants, order[CHOOSE i \in first : TRUE])
mapLocationToPlace(order, lat, lng) ==
    LET first == FirstIn(order,
                         {key \in DOMAIN LocationMap : isWithinBox(LocationMap[key], lat, lng)})
    IN  IF first = {} THEN "GENERAL"
        ELSE ValueOf(PlaceConstants, order[CHOOSE i \in first : TRUE])

\* Mutated form: the weights of priority and time are swapped.
getItemScore_Swapped(item, place, time) ==
    [LOW |-> 0, MEDIUM |-> 15, HIGH |-> 30][item.priority]
    + (IF item.place = place THEN 20 ELSE 0)
    + (IF item.time = time THEN 50 ELSE 0)

getItemScore(item, place, time) ==
    [LOW |-> 0, MEDIUM |-> 25, HIGH |-> 50][item.priority]
    + (IF item.place = place THEN 20 ELSE 0)
    + (IF item.time = time THEN 30 ELSE 0)

\* The comparator, under a stable sort: higher scores first, then list order.
Before(items, place, time, i, j) ==
    LET score(k) == getItemScore(items[k], place, time)
    IN  score(i) > score(j) \/ (score(i) = score(j) /\ i < j)

\* The positions of `items` in the order sortNotDoneItems puts them.
sortNotDoneItems(items, place, time) ==
    LET rank(i) == Cardinality({j \in DOMAIN items : Before(items, place, time, j, i)}) + 1
    IN  [n \in DOMAIN items |-> CHOOSE i \in DOMAIN items : rank(i) = n]
=============================================================================
