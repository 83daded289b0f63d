---------------------------- MODULE MCContextScore ----------------------------
(***************************************************************************)
(* ContextScore over a whole day, for every order a map may iterate its    *)
(* entries in, and over every list of up to three todos that are checked   *)
(* off, one by one, in two places.                                         *)
(***************************************************************************)
EXTENDS ContextScore

VARIABLES
    minute,     \* the reading
    order,      \* the entries of the user's time map as it iterates them
    items,      \* the todos of a page that are not done
    place       \* where the watch is

pageVars == <<minute, order, items, place>>

Keys == DOMAIN TimeMap
Orders == {o \in [1 .. Cardinality(Keys) -> Keys] : \A i, j \in DOMAIN o : o[i] = o[j] => i = j}
PageItems == [priority : {"LOW", "MEDIUM", "HIGH"}, place : {"STORE", "SCHOOL"},
          time : {"WORKING", "REST"}]

\* A day over an empty page, in every order; a page of every three todos.
PageInit ==
    /\ place = "GENERAL"
    /\ \/ minute = 0 /\ order \in Orders /\ items = <<>>
       \/ /\ minute = 600
          /\ order = CHOOSE o \in Orders : TRUE
          /\ items \in [1 .. 3 -> PageItems]

NextMinute ==
    /\ items = <<>>
    /\ minute < Day - 1
    /\ minute' = minute + 1
    /\ UNCHANGED <<order, items, place>>

CheckOff ==
    /\ \E i \in DOMAIN items :
          items' = [j \in 1 .. (Len(items) - 1) |-> items[IF j < i THEN j ELSE j + 1]]
    /\ UNCHANGED <<minute, order, place>>

Arrive ==
    /\ items # <<>>
    /\ place = "GENERAL"
    /\ place' = mapLocationToPlace(<<"store", "home", "school">>, 32870, -117210)
    /\ UNCHANGED <<minute, order, items>>

PageNext == NextMinute \/ CheckOff \/ Arrive

PageSpec == PageInit /\ [][PageNext]_pageVars

-----------------------------------------------------------------------------
\* Each minute of the day lies in one of createUser's ranges and in no second
\* one, so that what mapTimeToContext answers does not hang on the order in
\* which the map, a HashMap at first and a stored one later, iterates.
OneRangePerMinute ==
    \E key \in Keys :
        /\ {k \in Keys : isWithinRange(TimeMap[k], minute)} = {key}
        /\ mapTimeToContext(order, minute) = ValueOf(TimeConstants, key)

\* A range, across midnight or not, holds the minutes that come no later after
\* its start than its end does: one to Day minutes, both ends included.
RangesWrap ==
    \A k \in Keys : \A shift \in {0, 1, 60, Day \div 2, Day - 1} :
        LET r == [start |-> (TimeMap[k].start + shift) % Day, end |-> TimeMap[k].end]
        IN  isWithinRange(r, minute) <=> (minute - r.start) % Day <= (r.end - r.start) % Day

Sorted == sortNotDoneItems(items, place, mapTimeToContext(order, minute))

\* "put higher score todo item at the front": a page shows every open todo
\* once and no todo below one of a lower score.
HigherScoresFirst ==
    LET score(n) == getItemScore(items[Sorted[n]], place, mapTimeToContext(order, minute))
    IN  /\ {Sorted[n] : n \in DOMAIN items} = DOMAIN items
        /\ \A m, n \in DOMAIN items : m < n => score(m) >= score(n)

\* Context moves a todo past one of the next priority, never from LOW past
\* HIGH: a LOW todo stands above a HIGH one only where the list had it so.
LowNeverPassesHigh ==
    \A m, n \in DOMAIN items :
        /\ m < n
        /\ items[Sorted[m]].priority = "LOW"
        /\ items[Sorted[n]].priority = "HIGH"
        => Sorted[m] < Sorted[n]

\* Todos of one score keep the order of the list, so that redrawing a page
\* after a check or a location fix does not shuffle them.
TiesKeepListOrder ==
    LET score(n) == getItemScore(items[Sorted[n]], place, mapTimeToContext(order, minute))
    IN  \A m, n \in DOMAIN items : m < n /\ score(m) = score(n) => Sorted[m] < Sorted[n]

\* Each minute has one range, in every order of the map's entries, and a range
\* holds the minutes around the day from its start to its end.
DayIsCovered == OneRangePerMinute /\ RangesWrap

\* A page is in order: higher scores first, no LOW todo lifted above a HIGH one,
\* ties as they were.
PageIsInOrder == HigherScoresFirst /\ LowNeverPassesHigh /\ TiesKeepListOrder
=============================================================================
