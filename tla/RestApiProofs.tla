---------------------------- MODULE RestApiProofs ----------------------------
(***************************************************************************)
(* Theorems about the server of the API, for every set of requests, users  *)
(* and lists: types and acknowledged POSTs with or without overlapping     *)
(* DELETEs and faults; what a DELETE moves, one at a time and with faults; *)
(* what it promises, whatever fails; and the connection to Redis that      *)
(* all of them use.                                                        *)
(***************************************************************************)
EXTENDS RestApi, RedisConnection, FiniteSetTheorems, TLAPS

(***************************************************************************)
(* Types.  `task` is global: what makes it a task whenever a DELETE uses   *)
(* it is that the process assigns it before the first await of the loop    *)
(* and forgets it only when no handler is left.                            *)
(***************************************************************************)
Replies == {None, "yes", "no", "error"}
Moving == {"sIsMember", "sRem", "sAdd"}

StoreOK ==
    /\ store \in [Keys -> Containers]
    /\ \A key \in Keys : store[key].members = {} <=> store[key].type = "none"

LoopsHaveTask ==
    \A r \in Requests : pc[r] \in Moving =>
        Delete(r) /\ Req[r].tasks # None /\ task # None

TypeInv == RestTypeOK /\ LoopsHaveTask

LEMMA ValueType ==
    ASSUME NEW type \in {"set", "hash"}, NEW S \in SUBSET Tasks
    PROVE  /\ Value(type, S) \in Containers
           /\ Value(type, S).members = S
           /\ S = {} <=> Value(type, S).type = "none"
           /\ Value(type, S).type \in {"none", type}
BY DEF Value, NotSet, Containers

LEMMA RequestKeys ==
    ASSUME NEW r \in Requests
    PROVE  /\ Req[r].method \in {"GET", "DELETE"} => Req[r].who \in Keys
           /\ TodoKey(Req[r].who) \in {"123", "team4"}
           /\ {"123", "team4", "completed"} \subseteq Keys
           /\ Req[r].tasks # None => Req[r].tasks \in Seq(Tasks)
           /\ Req[r].method = "POST" =>
                 Req[r].tasks \in Seq(Tasks) /\ Len(Req[r].tasks) = 1
BY RestAssumption DEF Keys, TodoKey

LEMMA TaskOfRequest ==
    ASSUME NEW r \in Requests, Req[r].tasks # None,
           NEW i \in Nat \ {0}, i <= Len(Req[r].tasks)
    PROVE  Req[r].tasks[i] \in Tasks
BY RequestKeys

\* What a handler that runs from one await to the next has to guarantee.
LEMMA Advance ==
    ASSUME TypeInv, NEW r \in Requests,
           NEW c \in Awaits \cup Answers,
           alive, UNCHANGED <<alive, faults>>,
           pc' = [pc EXCEPT ![r] = c],
           \E y \in Replies : reply' = [reply EXCEPT ![r] = y],
           \E n \in Nat : at' = [at EXCEPT ![r] = n],
           task' \in {task} \cup Tasks,
           c \in Moving => Delete(r) /\ Req[r].tasks # None /\ task' # None,
           StoreOK'
    PROVE  TypeInv'
<1>1. alive' \in BOOLEAN /\ alive'
  OBVIOUS
<1>2. task' \in Tasks \cup {None} /\ (task # None => task' # None)
  BY RestAssumption DEF TypeInv, RestTypeOK
<1>3. pc' \in [Requests -> {"new"} \cup Awaits \cup Answers]
  BY DEF TypeInv, RestTypeOK
<1>4. at' \in [Requests -> Nat] /\ reply' \in [Requests -> Replies]
  BY DEF TypeInv, RestTypeOK, Replies
<1>5. LoopsHaveTask'
  <2> SUFFICES ASSUME NEW q \in Requests, pc'[q] \in Moving
               PROVE  Delete(q) /\ Req[q].tasks # None /\ task' # None
    BY DEF LoopsHaveTask, Delete
  <2>1. CASE q = r
    BY <2>1 DEF TypeInv, RestTypeOK
  <2>2. CASE q # r
    BY <2>2, <1>2 DEF TypeInv, RestTypeOK, LoopsHaveTask
  <2>3. QED
    BY <2>1, <2>2
<1>6. QED
  BY <1>1, <1>2, <1>3, <1>4, <1>5 DEF TypeInv, RestTypeOK, StoreOK, Replies

LEMMA DieType == ASSUME TypeInv, Die, UNCHANGED faults PROVE TypeInv'
<1>1. pc' \in [Requests -> {"new"} \cup Awaits \cup Answers]
      /\ \A r \in Requests : pc'[r] \notin Awaits
  BY DEF TypeInv, RestTypeOK, Die, Open, Answers, Awaits
<1>2. at' \in [Requests -> Nat] /\ reply' \in [Requests -> Replies]
  BY DEF Die, Replies
<1>3. LoopsHaveTask'
  BY <1>1 DEF LoopsHaveTask, Moving, Awaits
<1>4. store' = store /\ alive' = FALSE /\ task' = None
  BY DEF Die
<1>5. QED
  BY <1>1, <1>2, <1>3, <1>4 DEF TypeInv, RestTypeOK, Replies, Open

LEMMA ExistsType ==
    ASSUME TypeInv, NEW r \in Requests, NEW key \in Keys, Exists(r, key)
    PROVE  /\ pc' = [pc EXCEPT ![r] = "exists"]
           /\ \E y \in Replies : reply' = [reply EXCEPT ![r] = y]
           /\ store' = store
BY DEF Exists, Call, Replies

\* A store in which one container got new members keeps its types.
LEMMA StoreUpdate ==
    ASSUME StoreOK, NEW key \in Keys, NEW type \in {"set", "hash"},
           NEW S \in SUBSET Tasks,
           store' \in {store, [store EXCEPT ![key] = Value(type, S)]}
    PROVE  StoreOK'
BY ValueType DEF StoreOK

LEMMA NextTaskType ==
    ASSUME TypeInv, NEW r \in Requests, NEW STATE i, i \in Nat \ {0},
           alive, UNCHANGED <<alive, faults>>, Delete(r), Req[r].tasks # None,
           NextTask(r, i)
    PROVE  TypeInv' /\ store' = store
           /\ pc' \in {[pc EXCEPT ![r] = "200"], [pc EXCEPT ![r] = "sIsMember"]}
<1>1. CASE i > Len(Req[r].tasks)
  <2>1. /\ pc' = [pc EXCEPT ![r] = "200"] /\ reply' = [reply EXCEPT ![r] = None]
        /\ at' = [at EXCEPT ![r] = 0] /\ store' = store /\ task' = task
    BY <1>1, RequestKeys DEF NextTask, Respond
  <2>2. QED
    BY <2>1, Advance DEF Answers, Moving, Replies, TypeInv, RestTypeOK, StoreOK
<1>2. CASE i <= Len(Req[r].tasks)
  <2>1. /\ pc' = [pc EXCEPT ![r] = "sIsMember"]
        /\ \E y \in Replies : reply' = [reply EXCEPT ![r] = y]
        /\ at' = [at EXCEPT ![r] = i] /\ store' = store
        /\ task' = Req[r].tasks[i]
    BY <1>2, RequestKeys DEF NextTask, Call, Replies
  <2>2. task' \in Tasks
    BY <2>1, <1>2, TaskOfRequest
  <2>3. task' # None
    BY <2>2, RestAssumption
  <2>4. StoreOK'
    BY <2>1 DEF TypeInv, RestTypeOK, StoreOK
  <2>5. QED
    BY <2>1, <2>2, <2>3, <2>4, Advance DEF Awaits
<1>3. QED
  BY <1>1, <1>2, RequestKeys

LEMMA TypeInit == Init => TypeInv
<1> SUFFICES ASSUME Init PROVE TypeInv
  OBVIOUS
<1>1. store \in [Keys -> Containers]
      /\ \A key \in Keys : store[key].members = {} <=> store[key].type = "none"
  <2>1. NotSet \in Containers /\ NotSet.members = {} /\ NotSet.type = "none"
    BY DEF NotSet, Containers
  <2>2. \A u \in Users : Lists[u] \in SUBSET Tasks
    BY RestAssumption
  <2>3. QED
    BY <2>1, <2>2, ValueType DEF Init
<1>2. pc \in [Requests -> {"new"} \cup Awaits \cup Answers]
      /\ at \in [Requests -> Nat] /\ reply \in [Requests -> Replies]
  BY DEF Init, Replies
<1>3. \A r \in Requests : pc[r] \notin Moving
  BY DEF Init, Moving
<1>4. alive = TRUE /\ task = None /\ faults \in {{}, Faults}
  BY DEF Init
<1>5. QED
  BY <1>1, <1>2, <1>3, <1>4 DEF TypeInv, RestTypeOK, LoopsHaveTask, Replies

LEMMA TypeStep == TypeInv /\ [Next]_vars => TypeInv'
<1> SUFFICES ASSUME TypeInv, [Next]_vars PROVE TypeInv'
  OBVIOUS
<1>t. /\ task \in Tasks \cup {None} /\ at \in [Requests -> Nat] /\ StoreOK
      /\ pc \in [Requests -> {"new"} \cup Awaits \cup Answers]
      /\ reply \in [Requests -> Replies]
  BY DEF TypeInv, RestTypeOK, StoreOK, Replies
<1>s. ASSUME store' = store PROVE StoreOK'
  BY <1>s, <1>t DEF StoreOK
<1>a. ASSUME NEW r \in Requests, UNCHANGED at
      PROVE  \E n \in Nat : at' = [at EXCEPT ![r] = n]
  <2>1. at[r] \in Nat /\ at' = [at EXCEPT ![r] = at[r]]
    BY <1>a, <1>t
  <2>2. QED
    BY <2>1
<1>f. faults' = faults
  BY DEF Next, vars
<1>1. CASE UNCHANGED vars
  BY <1>1 DEF vars, TypeInv, RestTypeOK, LoopsHaveTask, Open
<1>2. CASE Kill
  BY <1>2, <1>f, DieType DEF Kill
<1>3. CASE Restart
  BY <1>3, <1>f DEF Restart, TypeInv, RestTypeOK, LoopsHaveTask, Open
<1>4. ASSUME NEW r \in Requests, Receive(r) PROVE TypeInv'
  <2>1. alive /\ UNCHANGED <<alive, task, at, reply, store>>
        /\ pc' = [pc EXCEPT ![r] = "connect"]
    BY <1>4 DEF Receive
  <2>2. reply[r] \in Replies /\ reply' = [reply EXCEPT ![r] = reply[r]]
    BY <2>1, <1>t
  <2>3. QED
    BY <2>1, <2>2, <1>s, <1>a, <1>f, Advance DEF Awaits, Moving
<1>5. ASSUME NEW r \in Requests, getUserTasks(r) PROVE TypeInv'
  BY <1>5, <1>f, DieType DEF getUserTasks
<1>6. ASSUME NEW r \in Requests, deleteUserTasks(r) PROVE TypeInv'
  <2>1. alive /\ UNCHANGED <<alive, task, at>> /\ Exists(r, Req[r].who)
    BY <1>6 DEF deleteUserTasks, Resume
  <2>2. Req[r].who \in Keys
    BY <1>6, RequestKeys DEF deleteUserTasks, Resume
  <2>3. QED
    BY <2>1, <2>2, ExistsType, <1>s, <1>a, <1>f, Advance DEF Awaits, Moving
<1>7. ASSUME NEW r \in Requests, FoundUser(r) PROVE TypeInv'
  <2>1. alive /\ Delete(r)
    BY <1>7 DEF FoundUser, Resume, Delete
  <2>2. CASE Respond(r, "404") /\ UNCHANGED <<alive, task>>
    <3>1. /\ pc' = [pc EXCEPT ![r] = "404"] /\ reply' = [reply EXCEPT ![r] = None]
          /\ at' = [at EXCEPT ![r] = 0] /\ store' = store
      BY <2>2 DEF Respond
    <3>2. QED
      BY <2>1, <2>2, <3>1, <1>s, <1>f, Advance DEF Answers, Moving, Replies
  <2>3. CASE Die
    BY <2>3, <1>f, DieType
  <2>4. CASE Req[r].tasks # None /\ NextTask(r, 1) /\ UNCHANGED alive
    BY <2>1, <2>4, <1>f, NextTaskType
  <2>5. QED
    BY <1>7, <2>2, <2>3, <2>4 DEF FoundUser
<1>8. ASSUME NEW r \in Requests, CheckedMember(r) PROVE TypeInv'
  <2>1. /\ alive /\ Delete(r) /\ pc[r] \in Moving
        /\ Req[r].tasks # None /\ task # None /\ Req[r].who \in Keys
        /\ alive' = alive
    BY <1>8, RequestKeys DEF CheckedMember, Resume, Delete, Moving, TypeInv, LoopsHaveTask
  <2>2. CASE /\ Update(r, "sRem", Req[r].who, "set", store[Req[r].who].members \ {task})
             /\ UNCHANGED <<task, at>>
    <3> DEFINE who == Req[r].who
               rest == store[who].members \ {task}
    <3>1. who \in Keys /\ rest \in SUBSET Tasks
      BY <2>1, <1>t DEF StoreOK, Containers
    <3>u. /\ pc' = [pc EXCEPT ![r] = "sRem"]
          /\ \E y \in {"yes", "error"} : reply' = [reply EXCEPT ![r] = y]
          /\ store' \in {store, [store EXCEPT ![who] = Value("set", rest)]}
      BY <2>2 DEF Update, Call
    <3>2. StoreOK'
      <4> HIDE DEF who, rest
      <4>1. store' \in {store, [store EXCEPT ![who] = Value("set", rest)]}
        BY <3>u
      <4>2. QED
        BY <3>1, <4>1, <1>t, StoreUpdate
    <3>3. /\ task' = task /\ \E n \in Nat : at' = [at EXCEPT ![r] = n]
          /\ \E y \in Replies : reply' = [reply EXCEPT ![r] = y]
      BY <2>2, <3>u, <1>a DEF Replies
    <3>4. QED
      BY <2>1, <3>u, <3>2, <3>3, <1>f, Advance DEF Awaits
  <2>3. CASE NextTask(r, at[r] + 1)
    <3>1. at[r] + 1 \in Nat \ {0}
      BY <1>t
    <3>2. QED
      BY <2>1, <2>3, <3>1, <1>f, NextTaskType
  <2>4. QED
    BY <1>8, <2>2, <2>3 DEF CheckedMember
<1>9. ASSUME NEW r \in Requests, Removed(r) PROVE TypeInv'
  <2>1. /\ alive /\ Delete(r) /\ pc[r] \in Moving
        /\ Req[r].tasks # None /\ task # None
        /\ UNCHANGED <<alive, task, at>>
        /\ Update(r, "sAdd", "completed", "set", store["completed"].members \cup {task})
    BY <1>9 DEF Removed, Resume, Delete, Moving, TypeInv, LoopsHaveTask
  <2>2. "completed" \in Keys
    BY RequestKeys
  <2> DEFINE more == store["completed"].members \cup {task}
  <2>3. more \in SUBSET Tasks
    BY <2>1, <2>2, <1>t DEF StoreOK, Containers
  <2>u. /\ pc' = [pc EXCEPT ![r] = "sAdd"]
        /\ \E y \in {"yes", "error"} : reply' = [reply EXCEPT ![r] = y]
        /\ store' \in {store, [store EXCEPT !["completed"] = Value("set", more)]}
    BY <2>1 DEF Update, Call
  <2>4. StoreOK'
    <3> HIDE DEF more
    <3>1. store' \in {store, [store EXCEPT !["completed"] = Value("set", more)]}
      BY <2>u
    <3>2. QED
      BY <2>2, <2>3, <3>1, <1>t, StoreUpdate
  <2>5. /\ task' = task /\ \E n \in Nat : at' = [at EXCEPT ![r] = n]
        /\ \E y \in Replies : reply' = [reply EXCEPT ![r] = y]
    BY <2>1, <2>u, <1>a DEF Replies
  <2>6. QED
    BY <2>1, <2>u, <2>4, <2>5, <1>f, Advance DEF Awaits
<1>10. ASSUME NEW r \in Requests, Added(r) PROVE TypeInv'
  <2>1. /\ alive /\ alive' = alive /\ Delete(r) /\ Req[r].tasks # None
        /\ NextTask(r, at[r] + 1)
    BY <1>10 DEF Added, Resume, Delete, Moving, TypeInv, LoopsHaveTask
  <2>2. at[r] + 1 \in Nat \ {0}
    BY <1>t
  <2>3. QED
    BY <2>1, <2>2, <1>f, NextTaskType
<1>11. ASSUME NEW r \in Requests, postUsersTodos(r) PROVE TypeInv'
  <2>1. alive /\ UNCHANGED <<alive, task, at>> /\ Exists(r, TodoKey(Req[r].who))
    BY <1>11 DEF postUsersTodos, Resume
  <2>2. TodoKey(Req[r].who) \in Keys
    BY RequestKeys
  <2>3. QED
    BY <2>1, <2>2, ExistsType, <1>s, <1>a, <1>f, Advance DEF Awaits, Moving
<1>12. ASSUME NEW r \in Requests, FoundKey(r) PROVE TypeInv'
  <2> DEFINE key == TodoKey(Req[r].who)
  <2>1. /\ alive /\ Req[r].method = "POST" /\ UNCHANGED <<alive, task, at>>
        /\ Update(r, "hSet", key, "hash", store[key].members \cup {Req[r].tasks[1]})
    BY <1>12 DEF FoundKey, Resume
  <2>2. key \in Keys
    BY RequestKeys
  <2>3. Req[r].tasks[1] \in Tasks
    BY <2>1, RequestKeys, TaskOfRequest, RestAssumption
  <2> DEFINE more == store[key].members \cup {Req[r].tasks[1]}
  <2>4. more \in SUBSET Tasks
    BY <2>2, <2>3, <1>t DEF StoreOK, Containers
  <2>u. /\ pc' = [pc EXCEPT ![r] = "hSet"]
        /\ \E y \in {"yes", "error"} : reply' = [reply EXCEPT ![r] = y]
        /\ store' \in {store, [store EXCEPT ![key] = Value("hash", more)]}
    BY <2>1 DEF Update, Call
  <2>5. StoreOK'
    <3> HIDE DEF key, more
    <3>1. store' \in {store, [store EXCEPT ![key] = Value("hash", more)]}
      BY <2>u
    <3>2. QED
      BY <2>2, <2>4, <3>1, <1>t, StoreUpdate
  <2>6. /\ task' = task /\ \E n \in Nat : at' = [at EXCEPT ![r] = n]
        /\ \E y \in Replies : reply' = [reply EXCEPT ![r] = y]
    BY <2>1, <2>u, <1>a DEF Replies
  <2>7. QED
    BY <2>1, <2>u, <2>5, <2>6, <1>f, Advance DEF Awaits, Moving
<1>13. ASSUME NEW r \in Requests, Inserted(r) PROVE TypeInv'
  <2>1. /\ alive /\ UNCHANGED <<alive, task, at>> /\ store' = store
        /\ pc' = [pc EXCEPT ![r] = "hGetAll"]
        /\ \E y \in Replies : reply' = [reply EXCEPT ![r] = y]
    BY <1>13 DEF Inserted, Resume, Call, Replies
  <2>2. QED
    BY <2>1, <1>s, <1>a, <1>f, Advance DEF Awaits, Moving
<1>14. ASSUME NEW r \in Requests, Logged(r) \/ getCompletedTodos(r) PROVE TypeInv'
  <2>1. /\ alive /\ UNCHANGED <<alive, task>> /\ store' = store
        /\ pc' = [pc EXCEPT ![r] = "200"] /\ reply' = [reply EXCEPT ![r] = None]
        /\ at' = [at EXCEPT ![r] = 0]
    BY <1>14 DEF Logged, getCompletedTodos, Resume, Respond
  <2>2. QED
    BY <2>1, <1>s, <1>f, Advance DEF Answers, Moving, Replies
<1>15. ASSUME NEW r \in Requests, Rejected(r) PROVE TypeInv'
  BY <1>15, <1>f, DieType DEF Rejected
<1>16. QED
  BY <1>1, <1>2, <1>3, <1>4, <1>5, <1>6, <1>7, <1>8, <1>9, <1>10, <1>11, <1>12,
     <1>13, <1>14, <1>15 DEF Next, Handle

LEMMA TypeInvariant == Spec => []TypeInv
BY TypeInit, TypeStep, PTL DEF Spec

\* The types of the REST API's state, whatever its handlers, Redis and the
\* process do to each other (watchController.js, echoController.js).
THEOREM RestTypes == Spec => []RestTypeOK
<1>1. TypeInv => RestTypeOK
  BY DEF TypeInv
<1>2. QED
  BY <1>1, TypeInvariant, PTL
-----------------------------------------------------------------------------
(***************************************************************************)
(* Acknowledged todos stay.  The two keys of postUsersTodos never hold a   *)
(* set, so that a DELETE naming them takes nothing away; and from hSet on  *)
(* the todo is there, unless the command was refused.                      *)
(***************************************************************************)
TodoKeys == {"123", "team4"}
TodoKeysHoldNoSet == \A key \in TodoKeys : store[key].type # "set"
Written(r) ==
    /\ Req[r].method = "POST"
    /\ \/ pc[r] = "hSet" /\ reply[r] # "error"
       \/ pc[r] \in {"hGetAll", "200"}
WrittenIsStored ==
    \A r \in Requests : Written(r) =>
        Named(r) \subseteq store[TodoKey(Req[r].who)].members

PostInv == TodoKeysHoldNoSet /\ WrittenIsStored

\* Nothing is taken from the keys, and request r alone moved.
Grows == \A key \in TodoKeys :
             store[key].members \subseteq store'[key].members /\ store'[key].type # "set"

LEMMA PostStep ==
    ASSUME TypeInv, PostInv, NEW r \in Requests, Grows,
           \A q \in Requests \ {r} : pc'[q] = pc[q] /\ reply'[q] = reply[q],
           Written(r)' => Named(r) \subseteq store'[TodoKey(Req[r].who)].members
    PROVE  PostInv'
<1>1. TodoKeysHoldNoSet'
  BY DEF Grows, TodoKeysHoldNoSet
<1>2. ASSUME NEW q \in Requests, Written(q)'
      PROVE  Named(q) \subseteq store'[TodoKey(Req[q].who)].members
  <2>1. CASE q = r
    BY <1>2, <2>1
  <2>2. CASE q # r
    <3>1. Written(q)
      BY <1>2, <2>2 DEF Written
    <3>2. Named(q) \subseteq store[TodoKey(Req[q].who)].members
      BY <3>1 DEF PostInv, WrittenIsStored
    <3>3. QED
      BY <3>2, RequestKeys DEF Grows, TodoKeys
  <2>3. QED
    BY <2>1, <2>2
<1>3. QED
  BY <1>1, <1>2 DEF PostInv, WrittenIsStored, Named, TodoKey

LEMMA StoreStays == ASSUME PostInv, store' = store PROVE Grows
BY DEF PostInv, TodoKeysHoldNoSet, Grows

LEMMA DieKeepsPosts == ASSUME TypeInv, PostInv, Die PROVE PostInv'
<1>1. store' = store
  BY DEF Die
<1>2. \A q \in Requests : Written(q)' => Written(q)
  <2> SUFFICES ASSUME NEW q \in Requests, Written(q)' PROVE Written(q)
    OBVIOUS
  <2>1. pc'[q] = IF Open(q) THEN "reset" ELSE pc[q]
    BY DEF Die
  <2>2. pc'[q] \in {"hSet", "hGetAll", "200"}
    BY DEF Written
  <2>3. ~Open(q) /\ pc'[q] = pc[q]
    BY <2>1, <2>2
  <2>4. pc[q] = "200"
    BY <2>2, <2>3 DEF Open, Awaits
  <2>5. QED
    BY <2>4 DEF Written
<1>3. QED
  BY <1>1, <1>2 DEF PostInv, TodoKeysHoldNoSet, WrittenIsStored, Named, TodoKey

\* A handler of another method writes no todo; if it leaves the keys alone,
\* nothing is lost.
LEMMA OthersKeepPosts ==
    ASSUME TypeInv, PostInv, NEW r \in Requests, NEW c, NEW y, Grows,
           pc' = [pc EXCEPT ![r] = c], reply' = [reply EXCEPT ![r] = y],
           Req[r].method # "POST" \/ c \notin {"hSet", "hGetAll", "200"}
    PROVE  PostInv'
<1>1. \A q \in Requests \ {r} : pc'[q] = pc[q] /\ reply'[q] = reply[q]
  BY DEF TypeInv, RestTypeOK
<1>2. ~Written(r)'
  BY DEF Written, TypeInv, RestTypeOK
<1>3. QED
  BY <1>1, <1>2, PostStep

LEMMA PostInit == Init => PostInv
<1> SUFFICES ASSUME Init PROVE PostInv
  OBVIOUS
<1>1. TodoKeys \subseteq Keys /\ TodoKeys \cap Users = {}
  BY RestAssumption DEF TodoKeys, Keys
<1>2. TodoKeysHoldNoSet
  BY <1>1 DEF Init, TodoKeysHoldNoSet, NotSet
<1>3. WrittenIsStored
  BY DEF Init, WrittenIsStored, Written
<1>4. QED
  BY <1>2, <1>3 DEF PostInv

LEMMA PostNext == TypeInv /\ PostInv /\ [Next]_vars => PostInv'
<1> SUFFICES ASSUME TypeInv, PostInv, [Next]_vars PROVE PostInv'
  OBVIOUS
<1>t. StoreOK /\ TodoKeys \subseteq Keys /\ "completed" \in Keys \ TodoKeys
  BY DEF TypeInv, RestTypeOK, StoreOK, TodoKeys, Keys
<1>1. CASE UNCHANGED vars \/ Restart
  <2>1. UNCHANGED <<pc, reply, store>>
    BY <1>1 DEF vars, Restart
  <2>2. QED
    BY <2>1 DEF PostInv, TodoKeysHoldNoSet, WrittenIsStored, Written, Named, TodoKey
<1>2. CASE Kill
  BY <1>2, DieKeepsPosts DEF Kill
<1>3. ASSUME NEW r \in Requests, Receive(r) PROVE PostInv'
  <2>1. /\ store' = store /\ pc' = [pc EXCEPT ![r] = "connect"]
        /\ reply' = [reply EXCEPT ![r] = reply[r]]
    BY <1>3 DEF Receive, TypeInv, RestTypeOK
  <2>2. QED
    BY <2>1, StoreStays, OthersKeepPosts
<1>4. ASSUME NEW r \in Requests, getUserTasks(r) \/ Rejected(r) PROVE PostInv'
  BY <1>4, DieKeepsPosts DEF getUserTasks, Rejected
<1>5. ASSUME NEW r \in Requests, deleteUserTasks(r) \/ postUsersTodos(r) PROVE PostInv'
  <2>1. /\ store' = store /\ pc' = [pc EXCEPT ![r] = "exists"]
        /\ \E y : reply' = [reply EXCEPT ![r] = y]
    BY <1>5 DEF deleteUserTasks, postUsersTodos, Exists, Call
  <2>2. QED
    BY <2>1, StoreStays, OthersKeepPosts
<1>6. ASSUME NEW r \in Requests, NEW STATE i, Delete(r), NextTask(r, i) PROVE PostInv'
  <2>1. /\ store' = store
        /\ \E c, y : pc' = [pc EXCEPT ![r] = c] /\ reply' = [reply EXCEPT ![r] = y]
    BY <1>6 DEF NextTask, Respond, Call
  <2>2. Req[r].method # "POST"
    BY <1>6 DEF Delete
  <2>3. QED
    BY <2>1, <2>2, StoreStays, OthersKeepPosts
<1>7. ASSUME NEW r \in Requests, FoundUser(r) PROVE PostInv'
  <2>1. Delete(r) /\ Req[r].method # "POST"
    BY <1>7 DEF FoundUser, Resume, Delete
  <2>2. CASE Respond(r, "404")
    <3>1. /\ store' = store /\ pc' = [pc EXCEPT ![r] = "404"]
          /\ reply' = [reply EXCEPT ![r] = None]
      BY <2>2 DEF Respond
    <3>2. QED
      BY <3>1, StoreStays, OthersKeepPosts
  <2>3. QED
    BY <1>7, <2>1, <2>2, <1>6, DieKeepsPosts DEF FoundUser
<1>8. ASSUME NEW r \in Requests, CheckedMember(r) PROVE PostInv'
  <2> DEFINE who == Req[r].who
             rest == store[who].members \ {task}
  <2>1. Delete(r) /\ Req[r].method # "POST" /\ who \in Keys
    BY <1>8, RequestKeys DEF CheckedMember, Resume, Delete
  <2>2. CASE Update(r, "sRem", who, "set", rest)
    <3>1. /\ pc' = [pc EXCEPT ![r] = "sRem"]
          /\ \E y : reply' = [reply EXCEPT ![r] = y]
          /\ \/ store' = store
             \/ /\ store[who].type \in {"none", "set"}
                /\ store' = [store EXCEPT ![who] = Value("set", rest)]
      BY <2>2 DEF Update, Call, Refused
    <3>2. Grows
      <4>1. CASE store' = store
        BY <4>1, StoreStays
      <4>2. CASE /\ store[who].type \in {"none", "set"}
                 /\ store' = [store EXCEPT ![who] = Value("set", rest)]
        <5>1. \A key \in TodoKeys : key # who => store'[key] = store[key]
          BY <4>2, <1>t DEF StoreOK
        <5>2. ASSUME who \in TodoKeys
              PROVE  store[who].members = {} /\ store'[who] = NotSet
          <6>1. store[who].type = "none"
            BY <5>2, <4>2 DEF PostInv, TodoKeysHoldNoSet
          <6>2. store[who].members = {} /\ rest = {}
            BY <6>1, <2>1, <1>t DEF StoreOK
          <6>3. QED
            BY <6>2, <4>2, <2>1, <1>t DEF Value, StoreOK
        <5>3. QED
          BY <5>1, <5>2 DEF Grows, PostInv, TodoKeysHoldNoSet, NotSet
      <4>3. QED
        BY <3>1, <4>1, <4>2
    <3>3. QED
      BY <2>1, <3>1, <3>2, OthersKeepPosts
  <2>3. QED
    BY <1>8, <2>1, <2>2, <1>6 DEF CheckedMember
<1>9. ASSUME NEW r \in Requests, Removed(r) PROVE PostInv'
  <2>1. /\ pc' = [pc EXCEPT ![r] = "sAdd"]
        /\ \E y : reply' = [reply EXCEPT ![r] = y]
        /\ \E v : store' \in {store, [store EXCEPT !["completed"] = v]}
    BY <1>9 DEF Removed, Update, Call
  <2>2. Grows
    BY <2>1, <1>t DEF Grows, PostInv, TodoKeysHoldNoSet, StoreOK
  <2>3. QED
    BY <2>1, <2>2, OthersKeepPosts
<1>10. ASSUME NEW r \in Requests, Added(r) PROVE PostInv'
  BY <1>10, <1>6 DEF Added, Resume, Delete
<1>11. ASSUME NEW r \in Requests, FoundKey(r) PROVE PostInv'
  <2> DEFINE key == TodoKey(Req[r].who)
             more == store[key].members \cup {Req[r].tasks[1]}
  <2>1. /\ pc' = [pc EXCEPT ![r] = "hSet"] /\ Req[r].method = "POST"
        /\ \E y : /\ reply' = [reply EXCEPT ![r] = y]
                  /\ \/ y = "error" /\ store' = store
                     \/ store' = [store EXCEPT ![key] = Value("hash", more)]
    BY <1>11 DEF FoundKey, Resume, Update, Call
  <2>2. key \in TodoKeys /\ key \in Keys /\ Named(r) = {Req[r].tasks[1]}
    <3>1. Req[r].tasks \in Seq(Tasks) /\ Len(Req[r].tasks) = 1 /\ Req[r].tasks # None
      BY <2>1, RequestKeys, RestAssumption
    <3>2. DOMAIN Req[r].tasks = {1}
      BY <3>1
    <3>3. QED
      BY <3>1, <3>2, RequestKeys DEF Named, TodoKeys, Keys
  <2>3. Value("hash", more).members = more /\ Value("hash", more).type # "set"
    BY DEF Value, NotSet
  <2>4. Grows
    <3>1. CASE store' = store
      BY <3>1, StoreStays
    <3>2. CASE store' = [store EXCEPT ![key] = Value("hash", more)]
      <4>1. store'[key] = Value("hash", more)
            /\ \A k \in TodoKeys : k # key => store'[k] = store[k]
        BY <3>2, <2>2, <1>t DEF StoreOK
      <4>2. QED
        BY <4>1, <2>3 DEF Grows, PostInv, TodoKeysHoldNoSet
    <3>3. QED
      BY <2>1, <3>1, <3>2
  <2>5. \A q \in Requests \ {r} : pc'[q] = pc[q] /\ reply'[q] = reply[q]
    BY <2>1 DEF TypeInv, RestTypeOK
  <2>6. ASSUME Written(r)' PROVE Named(r) \subseteq store'[key].members
    <3>1. reply'[r] # "error"
      BY <2>6, <2>1 DEF Written, TypeInv, RestTypeOK
    <3>2. store' = [store EXCEPT ![key] = Value("hash", more)]
      BY <3>1, <2>1 DEF TypeInv, RestTypeOK
    <3>3. store'[key].members = more
      BY <3>2, <2>2, <2>3, <1>t DEF StoreOK
    <3>4. QED
      BY <3>3, <2>2
  <2>7. QED
    BY <2>4, <2>5, <2>6, PostStep
<1>12. ASSUME NEW r \in Requests, Inserted(r) \/ Logged(r) PROVE PostInv'
  <2>1. /\ store' = store
        /\ \E c, y : pc' = [pc EXCEPT ![r] = c] /\ reply' = [reply EXCEPT ![r] = y]
        /\ Written(r)
    BY <1>12 DEF Inserted, Logged, Resume, Respond, Call, Written
  <2>2. \A q \in Requests \ {r} : pc'[q] = pc[q] /\ reply'[q] = reply[q]
    BY <2>1 DEF TypeInv, RestTypeOK
  <2>3. Named(r) \subseteq store'[TodoKey(Req[r].who)].members
    BY <2>1 DEF PostInv, WrittenIsStored
  <2>4. QED
    BY <2>1, <2>2, <2>3, StoreStays, PostStep
<1>13. ASSUME NEW r \in Requests, getCompletedTodos(r) PROVE PostInv'
  <2>1. /\ store' = store /\ pc' = [pc EXCEPT ![r] = "200"]
        /\ reply' = [reply EXCEPT ![r] = None] /\ Req[r].method # "POST"
    BY <1>13 DEF getCompletedTodos, Resume, Respond
  <2>2. QED
    BY <2>1, StoreStays, OthersKeepPosts
<1>14. QED
  BY <1>1, <1>2, <1>3, <1>4, <1>5, <1>7, <1>8, <1>9, <1>10, <1>11, <1>12, <1>13
     DEF Next, Handle

\* A todo whose POST was answered with 200 is stored for good, for all requests
\* that run beside it, whatever fails (echoController.js, watchController.js).
THEOREM AcknowledgedPostsSurvive == Spec => []PostsSurvive
<1>1. PostInv => PostsSurvive
  BY DEF PostInv, WrittenIsStored, Written, PostsSurvive
<1>2. Spec => []PostInv
  BY PostInit, PostNext, TypeInvariant, PTL DEF Spec
<1>3. QED
  BY <1>1, <1>2, PTL
-----------------------------------------------------------------------------
(***************************************************************************)
(* One DELETE at a time.  `task` is then the task of the one request whose *)
(* loop runs, from its check to its registration, and what the check       *)
(* answered still holds when the task is removed.                          *)
(***************************************************************************)
Listed == UNION {Lists[u] : u \in Users}
SetKeys == Users \cup {"completed"}

OneDelete ==
    \A r, q \in Requests : Delete(r) /\ Delete(q) /\ Open(r) /\ Open(q) => r = q

SetsHoldListed ==
    /\ \A u \in Users : store[u].type # "hash" /\ store[u].members \subseteq Lists[u]
    /\ store["completed"].type # "hash" /\ CompletedWereListed

LoopKnows(r) ==
    /\ pc[r] \in Moving => task \in Named(r)
    /\ pc[r] = "sIsMember" /\ reply[r] = "yes" =>
          Req[r].who \in SetKeys /\ task \in store[Req[r].who].members
    /\ pc[r] \in {"sRem", "sAdd"} => Req[r].who \in SetKeys /\ task \in Listed
    /\ pc[r] = "sRem" /\ reply[r] # "error" => task \notin store[Req[r].who].members
    /\ pc[r] = "sAdd" /\ reply[r] # "error" => task \in Completed

MoveInv ==
    /\ OneDelete
    /\ SetsHoldListed
    /\ UnnamedStay
    /\ \A r \in Requests : Delete(r) => LoopKnows(r)

\* A step outside the loop of DELETE leaves the sets and the loop's task alone.
LEMMA ElsewhereKeepsMoves ==
    ASSUME TypeInv, MoveInv,
           \A key \in SetKeys : store'[key] = store[key],
           \A q \in Requests :
               Delete(q) => /\ pc'[q] = pc[q] /\ reply'[q] = reply[q] /\ task' = task
                            \/ pc'[q] \notin Awaits
    PROVE  MoveInv'
<1>1. OneDelete'
  BY DEF MoveInv, OneDelete, Open, Delete
<1>2. SetsHoldListed' /\ UnnamedStay' /\ Completed' = Completed
  BY DEF MoveInv, SetsHoldListed, UnnamedStay, Completed, CompletedWereListed,
         Delete, Named, SetKeys
<1>3. ASSUME NEW q \in Requests, Delete(q) PROVE LoopKnows(q)'
  <2>1. CASE pc'[q] \notin Awaits
    BY <2>1 DEF LoopKnows, Moving, Awaits
  <2>2. CASE pc'[q] = pc[q] /\ reply'[q] = reply[q] /\ task' = task
    <3>1. LoopKnows(q)
      BY <1>3 DEF MoveInv
    <3>2. QED
      BY <2>2, <3>1, <1>2 DEF LoopKnows, Named, Listed
  <2>3. QED
    BY <1>3, <2>1, <2>2
<1>4. QED
  BY <1>1, <1>2, <1>3 DEF MoveInv, Delete

\* A step of the loop of r: no other DELETE is open.
LEMMA LoopKeepsMoves ==
    ASSUME TypeInv, MoveInv, NEW r \in Requests, Delete(r), Open(r),
           \A q \in Requests \ {r} : pc'[q] = pc[q],
           SetsHoldListed', UnnamedStay', LoopKnows(r)'
    PROVE  MoveInv'
<1>1. \A q \in Requests : Delete(q) /\ q # r => pc'[q] \notin Awaits
  BY DEF MoveInv, OneDelete, Open
<1>2. OneDelete'
  BY <1>1 DEF OneDelete, Open, Delete
<1>3. \A q \in Requests : Delete(q) => LoopKnows(q)'
  BY <1>1 DEF LoopKnows, Moving, Awaits
<1>4. QED
  BY <1>2, <1>3 DEF MoveInv, Delete

\* What the step to the next task learns.
LEMMA NextTaskKeepsMoves ==
    ASSUME TypeInv, PostInv, MoveInv, NEW r \in Requests, NEW STATE i, i \in Nat \ {0},
           Delete(r), Open(r), Req[r].tasks # None, NextTask(r, i)
    PROVE  MoveInv'
<1>1. \A q \in Requests \ {r} : pc'[q] = pc[q]
  BY DEF NextTask, Respond, Call, TypeInv, RestTypeOK
<1>2. store' = store
  BY DEF NextTask, Respond, Call
<1>3. SetsHoldListed' /\ UnnamedStay'
  BY <1>2 DEF MoveInv, SetsHoldListed, UnnamedStay, Completed, CompletedWereListed, Delete, Named
<1>4. LoopKnows(r)'
  <2>1. CASE i > Len(Req[r].tasks)
    <3>1. pc'[r] = "200"
      BY <2>1, RequestKeys DEF NextTask, Respond, TypeInv, RestTypeOK
    <3>2. QED
      BY <3>1 DEF LoopKnows, Moving
  <2>2. CASE i <= Len(Req[r].tasks)
    <3>1. /\ pc'[r] = "sIsMember" /\ task' = Req[r].tasks[i]
          /\ reply'[r] = "yes" => /\ store[Req[r].who].type \in {"none", "set"}
                                 /\ task' \in store[Req[r].who].members
      BY <2>2, RequestKeys DEF NextTask, Call, Refused, TypeInv, RestTypeOK
    <3>2. task' \in Named(r)
      BY <3>1, <2>2, RequestKeys DEF Named
    <3>3. ASSUME reply'[r] = "yes" PROVE Req[r].who \in SetKeys
      <4>1. Req[r].who \in Keys
        BY RequestKeys DEF Delete
      <4>2. store[Req[r].who].type = "set"
        BY <3>1, <3>3, <4>1 DEF TypeInv, RestTypeOK
      <4>3. QED
        BY <4>1, <4>2 DEF PostInv, TodoKeysHoldNoSet, TodoKeys, Keys, SetKeys
    <3>4. QED
      BY <3>1, <3>2, <3>3, <1>2 DEF LoopKnows, Named
  <2>3. QED
    BY <2>1, <2>2, RequestKeys
<1>5. QED
  BY <1>1, <1>3, <1>4, LoopKeepsMoves

LEMMA RemKeepsMoves ==
    ASSUME TypeInv, MoveInv, NEW r \in Requests, CheckedMember(r), reply[r] = "yes"
    PROVE  MoveInv'
<1> DEFINE who == Req[r].who
           rest == store[who].members \ {task}
<1>1. /\ Delete(r) /\ pc[r] = "sIsMember" /\ Open(r) /\ task' = task
      /\ Update(r, "sRem", who, "set", rest)
  BY DEF CheckedMember, Resume, Delete, Open, Awaits
<1>2. /\ who \in SetKeys /\ who \in Keys /\ task \in store[who].members /\ task \in Named(r)
  BY <1>1, RequestKeys DEF MoveInv, LoopKnows, Moving, Delete
<1>3. /\ pc' = [pc EXCEPT ![r] = "sRem"]
      /\ store' \in {store, [store EXCEPT ![who] = Value("set", rest)]}
      /\ \E y : /\ reply' = [reply EXCEPT ![r] = y]
                /\ y = "error" \/ store' = [store EXCEPT ![who] = Value("set", rest)]
  BY <1>1 DEF Update, Call
<1>4. Value("set", rest).members = rest /\ Value("set", rest).type # "hash"
  BY DEF Value, NotSet
<1>5. /\ \A key \in Keys : store'[key].members \subseteq store[key].members
      /\ \A key \in Keys : store'[key].type # store[key].type => store'[key].type # "hash"
      /\ \A key \in Keys : \A t : t \in store[key].members /\ t \notin store'[key].members =>
              key = who /\ t = task
  BY <1>2, <1>3, <1>4 DEF TypeInv, RestTypeOK
<1>6. Users \subseteq Keys /\ "completed" \in Keys
  BY DEF Keys
<1>7. SetsHoldListed'
  BY <1>5, <1>6 DEF MoveInv, SetsHoldListed, Completed, CompletedWereListed
<1>8. UnnamedStay'
  BY <1>1, <1>2, <1>5, <1>6 DEF MoveInv, UnnamedStay, Delete, Named
<1>9. task \in Listed
  BY <1>2 DEF MoveInv, SetsHoldListed, SetKeys, Listed, Completed, CompletedWereListed
<1>10. LoopKnows(r)'
  <2>1. pc'[r] = "sRem"
    BY <1>3 DEF TypeInv, RestTypeOK
  <2>2. reply'[r] # "error" => task \notin store'[who].members
    BY <1>2, <1>3, <1>4 DEF TypeInv, RestTypeOK
  <2>3. QED
    BY <1>1, <1>2, <1>9, <2>1, <2>2 DEF LoopKnows, Named, Listed
<1>11. \A q \in Requests \ {r} : pc'[q] = pc[q]
  BY <1>3 DEF TypeInv, RestTypeOK
<1>12. QED
  BY <1>1, <1>7, <1>8, <1>10, <1>11, LoopKeepsMoves

LEMMA AddKeepsMoves ==
    ASSUME TypeInv, MoveInv, NEW r \in Requests, Removed(r)
    PROVE  MoveInv'
<1> DEFINE more == Completed \cup {task}
<1>1. /\ Delete(r) /\ pc[r] = "sRem" /\ Open(r) /\ task' = task
      /\ Update(r, "sAdd", "completed", "set", more)
  BY DEF Removed, Resume, Delete, Open, Awaits, Completed
<1>2. /\ Req[r].who \in SetKeys /\ task \in Listed /\ task \in Named(r)
  BY <1>1 DEF MoveInv, LoopKnows, Moving
<1>3. /\ pc' = [pc EXCEPT ![r] = "sAdd"]
      /\ \E y : /\ reply' = [reply EXCEPT ![r] = y]
                /\ \/ y = "error" /\ store' \in {store, [store EXCEPT !["completed"] = Value("set", more)]}
                   \/ store' = [store EXCEPT !["completed"] = Value("set", more)]
  BY <1>1 DEF Update, Call
<1>4. Value("set", more).members = more /\ Value("set", more).type # "hash"
  BY DEF Value, NotSet
<1>5. "completed" \in Keys /\ "completed" \notin Users /\ Users \subseteq Keys
  BY RestAssumption DEF Keys
<1>6. /\ \A u \in Users : store'[u] = store[u]
      /\ store'["completed"] = store["completed"] \/ store'["completed"] = Value("set", more)
      /\ reply'[r] # "error" => store'["completed"] = Value("set", more)
  BY <1>3, <1>5 DEF TypeInv, RestTypeOK
<1>7. Completed' \subseteq more /\ (reply'[r] # "error" => Completed' = more)
  BY <1>4, <1>6 DEF Completed
<1>8. SetsHoldListed'
  BY <1>2, <1>4, <1>6, <1>7 DEF MoveInv, SetsHoldListed, CompletedWereListed, Listed
<1>9. UnnamedStay'
  BY <1>6 DEF MoveInv, UnnamedStay, Delete, Named
<1>10. LoopKnows(r)'
  <2>1. pc'[r] = "sAdd"
    BY <1>3 DEF TypeInv, RestTypeOK
  <2>2. QED
    BY <1>1, <1>2, <1>7, <2>1 DEF LoopKnows, Named, Listed
<1>11. \A q \in Requests \ {r} : pc'[q] = pc[q]
  BY <1>3 DEF TypeInv, RestTypeOK
<1>12. QED
  BY <1>1, <1>8, <1>9, <1>10, <1>11, LoopKeepsMoves

LEMMA DieKeepsMoves == ASSUME TypeInv, MoveInv, Die PROVE MoveInv'
<1>1. \A q \in Requests : pc'[q] \notin Awaits
  BY DEF Die, Open, Awaits, TypeInv, RestTypeOK
<1>2. store' = store
  BY DEF Die
<1>3. QED
  BY <1>1, <1>2, ElsewhereKeepsMoves

LEMMA MoveInit == Init => MoveInv
<1> SUFFICES ASSUME Init PROVE MoveInv
  OBVIOUS
<1>1. Users \subseteq Keys /\ "completed" \in Keys /\ "completed" \notin Users
  BY RestAssumption DEF Keys
<1>2. \A u \in Users : store[u].type # "hash" /\ store[u].members = Lists[u]
  BY <1>1 DEF Init, Value, NotSet
<1>3. store["completed"].type # "hash" /\ Completed = {}
  BY <1>1 DEF Init, NotSet, Completed
<1>4. \A r \in Requests : pc[r] = "new"
  BY DEF Init
<1>5. QED
  BY <1>2, <1>3, <1>4 DEF MoveInv, OneDelete, Open, Awaits, SetsHoldListed, CompletedWereListed,
     UnnamedStay, LoopKnows, Moving

LEMMA MoveNext ==
    ASSUME ~Overlap, TypeInv, PostInv, MoveInv, [Next]_vars
    PROVE  MoveInv'
<1>k. SetKeys \cap TodoKeys = {} /\ SetKeys \subseteq Keys
  BY RestAssumption DEF SetKeys, TodoKeys, Keys
<1>1. CASE UNCHANGED vars
  BY <1>1, ElsewhereKeepsMoves DEF vars
<1>2. CASE Kill
  BY <1>2, DieKeepsMoves DEF Kill
<1>3. CASE Restart
  BY <1>3, ElsewhereKeepsMoves DEF Restart
<1>4. ASSUME NEW r \in Requests, Receive(r) PROVE MoveInv'
  <2>1. /\ UNCHANGED <<task, reply, store>> /\ pc' = [pc EXCEPT ![r] = "connect"]
        /\ Delete(r) => ~\E q \in Requests : Delete(q) /\ Open(q)
    BY <1>4 DEF Receive, Delete
  <2>2. CASE Delete(r)
    <3>1. \A q \in Requests : Delete(q) /\ q # r => pc'[q] \notin Awaits
      BY <2>1, <2>2 DEF Open, TypeInv, RestTypeOK
    <3>2. pc'[r] = "connect"
      BY <2>1 DEF TypeInv, RestTypeOK
    <3>3. OneDelete' /\ \A q \in Requests : Delete(q) => LoopKnows(q)'
      BY <3>1, <3>2 DEF OneDelete, Open, Delete, LoopKnows, Moving, Awaits
    <3>4. SetsHoldListed' /\ UnnamedStay'
      BY <2>1 DEF MoveInv, SetsHoldListed, UnnamedStay, Completed, CompletedWereListed,
         Delete, Named
    <3>5. QED
      BY <3>3, <3>4 DEF MoveInv, Delete
  <2>3. CASE ~Delete(r)
    BY <2>1, <2>3, ElsewhereKeepsMoves DEF TypeInv, RestTypeOK
  <2>4. QED
    BY <2>2, <2>3
<1>5. ASSUME NEW r \in Requests, getUserTasks(r) \/ Rejected(r) PROVE MoveInv'
  BY <1>5, DieKeepsMoves DEF getUserTasks, Rejected
<1>6. ASSUME NEW r \in Requests, deleteUserTasks(r) PROVE MoveInv'
  <2>1. /\ Delete(r) /\ Open(r) /\ UNCHANGED <<task, store>>
        /\ pc'[r] = "exists" /\ \A q \in Requests \ {r} : pc'[q] = pc[q]
    BY <1>6 DEF deleteUserTasks, Resume, Exists, Call, Delete, Open, Awaits, TypeInv, RestTypeOK
  <2>2. SetsHoldListed' /\ UnnamedStay' /\ LoopKnows(r)'
    BY <2>1 DEF MoveInv, SetsHoldListed, UnnamedStay, Completed, CompletedWereListed,
       Delete, Named, LoopKnows, Moving
  <2>3. QED
    BY <2>1, <2>2, LoopKeepsMoves
<1>7. ASSUME NEW r \in Requests, FoundUser(r) PROVE MoveInv'
  <2>1. Delete(r) /\ Open(r)
    BY <1>7 DEF FoundUser, Resume, Delete, Open, Awaits
  <2>2. CASE Respond(r, "404") /\ UNCHANGED task
    <3>1. /\ store' = store /\ pc'[r] = "404" /\ \A q \in Requests \ {r} : pc'[q] = pc[q]
      BY <2>2 DEF Respond, TypeInv, RestTypeOK
    <3>2. SetsHoldListed' /\ UnnamedStay' /\ LoopKnows(r)'
      BY <3>1 DEF MoveInv, SetsHoldListed, UnnamedStay, Completed, CompletedWereListed,
         Delete, Named, LoopKnows, Moving
    <3>3. QED
      BY <2>1, <3>1, <3>2, LoopKeepsMoves
  <2>3. CASE Die
    BY <2>3, DieKeepsMoves
  <2>4. CASE Req[r].tasks # None /\ NextTask(r, 1)
    BY <2>1, <2>4, NextTaskKeepsMoves
  <2>5. QED
    BY <1>7, <2>2, <2>3, <2>4 DEF FoundUser
<1>8. ASSUME NEW r \in Requests, CheckedMember(r) \/ Added(r) PROVE MoveInv'
  <2>1. Delete(r) /\ Open(r) /\ Req[r].tasks # None /\ at[r] + 1 \in Nat \ {0}
    BY <1>8 DEF CheckedMember, Added, Resume, Delete, Open, Awaits, Moving, TypeInv,
       LoopsHaveTask, RestTypeOK
  <2>2. CASE NextTask(r, at[r] + 1)
    BY <2>1, <2>2, NextTaskKeepsMoves
  <2>3. CASE CheckedMember(r) /\ reply[r] = "yes"
    BY <2>3, RemKeepsMoves
  <2>4. QED
    BY <1>8, <2>2, <2>3 DEF CheckedMember, Added
<1>9. ASSUME NEW r \in Requests, Removed(r) PROVE MoveInv'
  BY <1>9, AddKeepsMoves
<1>10. ASSUME NEW r \in Requests,
              \/ postUsersTodos(r) \/ FoundKey(r) \/ Inserted(r) \/ Logged(r)
              \/ getCompletedTodos(r)
       PROVE  MoveInv'
  <2>1. /\ ~Delete(r) /\ task' = task
        /\ \E c, y : pc' = [pc EXCEPT ![r] = c] /\ reply' = [reply EXCEPT ![r] = y]
    BY <1>10 DEF postUsersTodos, FoundKey, Inserted, Logged, getCompletedTodos, Resume, Delete,
       Exists, Update, Call, Respond
  <2>2. store' = store \/ \E v : store' = [store EXCEPT ![TodoKey(Req[r].who)] = v]
    BY <1>10 DEF postUsersTodos, FoundKey, Inserted, Logged, getCompletedTodos,
       Exists, Update, Call, Respond
  <2>3. TodoKey(Req[r].who) \in TodoKeys
    BY RequestKeys DEF TodoKeys
  <2>4. \A key \in SetKeys : store'[key] = store[key]
    BY <1>k, <2>2, <2>3 DEF TypeInv, RestTypeOK
  <2>5. \A q \in Requests : Delete(q) => pc'[q] = pc[q] /\ reply'[q] = reply[q]
    BY <2>1 DEF TypeInv, RestTypeOK
  <2>6. QED
    BY <2>1, <2>4, <2>5, ElsewhereKeepsMoves
<1>11. QED
  BY <1>1, <1>2, <1>3, <1>4, <1>5, <1>6, <1>7, <1>8, <1>9, <1>10 DEF Next, Handle

LEMMA PostInvariant == Spec => []PostInv
BY PostInit, PostNext, TypeInvariant, PTL DEF Spec

LEMMA MoveInvariant == ASSUME ~Overlap PROVE Spec => []MoveInv
<1>1. TypeInv /\ PostInv /\ MoveInv /\ [Next]_vars => MoveInv'
  BY MoveNext
<1>2. QED
  BY <1>1, MoveInit, TypeInvariant, PostInvariant, PTL DEF Spec

\* One DELETE at a time: what is completed was on somebody's list, and a task
\* leaves a list only when a DELETE for that user named it, whatever crashes and
\* refusals come between the commands of a move (watchController.js).
THEOREM OnlyNamedTasksEverMove == ASSUME ~Overlap PROVE Spec => []OnlyNamedTasksMove
<1>1. MoveInv => OnlyNamedTasksMove
  BY DEF MoveInv, SetsHoldListed, OnlyNamedTasksMove
<1>2. QED
  BY <1>1, MoveInvariant, PTL
-----------------------------------------------------------------------------
(***************************************************************************)
(* The ledger.  A task counts as listed until it is registered: removing   *)
(* it from the set changes nothing, registering it moves it, and the exit  *)
(* of the process loses the one task that was between the two.             *)
(***************************************************************************)
\* A DELETE may name any set of Redis, the one of completed tasks included,
\* which it would empty; the ledger is for those that name another.
NobodyDeletesCompleted == \A r \in Requests : Delete(r) => Req[r].who # "completed"

Accounted(u) == store[u].members \cup InFlight(u)
LedgerVars == <<[u \in Users |-> Accounted(u)], Completed, alive>>
Between == {"sRem", "sAdd"}

LEMMA NothingInFlight ==
    ASSUME \A r \in Requests : Delete(r) => pc[r] \notin Between
    PROVE  \A u : InFlight(u) = {}
BY DEF InFlight, Between, Delete

LEMMA OneInFlight ==
    ASSUME NEW r \in Requests, Delete(r),
           \A q \in Requests \ {r} : Delete(q) => pc[q] \notin Between,
           pc[r] \in Between, task \in Tasks
    PROVE  /\ InFlight(Req[r].who) = {task} \ Completed
           /\ \A u : u # Req[r].who => InFlight(u) = {}
BY DEF InFlight, Between, Delete

LEMMA LedgerStutters ==
    ASSUME \A u \in Users : Accounted(u)' = Accounted(u),
           Completed' = Completed, alive' = alive
    PROVE  UNCHANGED LedgerVars
BY DEF LedgerVars

LEMMA LedgerInit == Init => Ledger!Init
<1> SUFFICES ASSUME Init PROVE Ledger!Init
  OBVIOUS
<1>1. Users \subseteq Keys /\ "completed" \in Keys /\ "completed" \notin Users
  BY RestAssumption DEF Keys
<1>2. \A u : InFlight(u) = {}
  BY NothingInFlight DEF Init, Between
<1>3. \A u \in Users : Accounted(u) = Lists[u]
  BY <1>1, <1>2 DEF Accounted, Init, Value, NotSet
<1>4. [u \in Users |-> Accounted(u)] = Lists
  BY <1>3, RestAssumption
<1>5. Completed = {} /\ alive = TRUE
  BY <1>1 DEF Completed, Init, NotSet
<1>6. QED
  BY <1>4, <1>5 DEF Ledger!Init, Accounted

\* The process exits: at most one task was between its set and the completed ones.
LEMMA DieGoesDown == ASSUME TypeInv, MoveInv, alive, Die PROVE Ledger!GoDown
<1>1. /\ alive' = FALSE /\ store' = store /\ Completed' = Completed
      /\ \A r \in Requests : pc'[r] \notin Between
  BY DEF Die, Open, Awaits, Between, TypeInv, RestTypeOK, Completed
<1>2. \A u : InFlight(u)' = {}
  BY <1>1, NothingInFlight DEF InFlight, Between, Delete
<1>3. \A u \in Users : Accounted(u)' = store[u].members
  BY <1>1, <1>2 DEF Accounted
<1> DEFINE before == [u \in Users |-> Accounted(u)]
           after == [u \in Users |-> store[u].members]
<1>4. after = before
      \/ \E u \in Users, t \in UNION {before[v] : v \in Users} :
            after = [before EXCEPT ![u] = @ \ {t}]
  <2>1. CASE \A u \in Users : InFlight(u) \subseteq store[u].members
    BY <2>1 DEF Accounted
  <2>2. ASSUME NEW u \in Users, ~(InFlight(u) \subseteq store[u].members)
        PROVE  \E v \in Users, t \in UNION {before[w] : w \in Users} :
                  after = [before EXCEPT ![v] = @ \ {t}]
    <3>1. PICK r \in Requests : /\ Delete(r) /\ Req[r].who = u /\ pc[r] \in Between
                                /\ task \in Tasks /\ task \notin store[u].members
      BY <2>2 DEF InFlight, Between
    <3>2. \A q \in Requests \ {r} : Delete(q) => pc[q] \notin Between
      BY <3>1 DEF MoveInv, OneDelete, Open, Awaits, Between
    <3>3. /\ InFlight(u) = {task} \ Completed
          /\ \A v \in Users : v # u => InFlight(v) = {}
      BY <3>1, <3>2, OneInFlight
    <3>4. InFlight(u) = {task}
      BY <2>2, <3>3
    <3>5. task \in before[u] /\ after[u] = before[u] \ {task}
          /\ \A v \in Users : v # u => after[v] = before[v]
      BY <3>1, <3>3, <3>4 DEF Accounted
    <3>6. after = [before EXCEPT ![u] = @ \ {task}] /\ task \in UNION {before[w] : w \in Users}
      BY <3>5
    <3>7. QED
      BY <3>6
  <2>3. QED
    BY <2>1, <2>2
<1>5. [u \in Users |-> Accounted(u)]' = after
  BY <1>3
<1>6. QED
  BY <1>1, <1>4, <1>5 DEF Ledger!GoDown, Accounted

\* Outside the two commands of a move the sets alone count.
LEMMA NoMoveStutters ==
    ASSUME TypeInv, MoveInv, NEW r \in Requests, Delete(r), Open(r),
           \A q \in Requests \ {r} : pc'[q] = pc[q],
           pc[r] \notin Between \/ task \in Completed, pc'[r] \notin Between,
           store' = store, alive' = alive
    PROVE  UNCHANGED LedgerVars
<1>1. \A q \in Requests \ {r} : Delete(q) => pc[q] \notin Between
  BY DEF MoveInv, OneDelete, Open, Awaits, Between
<1>2. \A u : InFlight(u) = {}
  BY <1>1 DEF InFlight, Between
<1>3. \A u : InFlight(u)' = {}
  BY <1>1 DEF InFlight, Between, Delete
<1>4. QED
  BY <1>2, <1>3, LedgerStutters DEF Accounted, Completed

LEMMA RemStutters ==
    ASSUME TypeInv, MoveInv, NobodyDeletesCompleted, NEW r \in Requests,
           CheckedMember(r), reply[r] = "yes"
    PROVE  [Ledger!Next]_LedgerVars
<1> DEFINE who == Req[r].who
           rest == store[who].members \ {task}
<1>1. /\ Delete(r) /\ pc[r] = "sIsMember" /\ Open(r) /\ task' = task /\ alive' = alive
      /\ Update(r, "sRem", who, "set", rest)
  BY DEF CheckedMember, Resume, Delete, Open, Awaits
<1>2. /\ who \in Users /\ who \in Keys /\ task \in store[who].members /\ task \in Tasks
  BY <1>1, RequestKeys DEF MoveInv, LoopKnows, Delete, NobodyDeletesCompleted, SetKeys,
     TypeInv, RestTypeOK, Containers
<1>3. /\ pc' = [pc EXCEPT ![r] = "sRem"]
      /\ store' \in {store, [store EXCEPT ![who] = Value("set", rest)]}
  BY <1>1 DEF Update, Call
<1>4. Value("set", rest).members = rest
  BY DEF Value, NotSet
<1>5. /\ \A key \in Keys : key # who => store'[key] = store[key]
      /\ store'[who].members \in {store[who].members, rest}
      /\ Completed' = Completed
  <2>1. "completed" \in Keys \ Users
    BY RestAssumption DEF Keys
  <2>2. QED
    BY <1>2, <1>3, <1>4, <2>1 DEF TypeInv, RestTypeOK, Completed
<1>6. \A q \in Requests \ {r} : Delete(q) => pc[q] \notin Between /\ pc'[q] \notin Between
  BY <1>1, <1>3 DEF MoveInv, OneDelete, Open, Awaits, Between, TypeInv, RestTypeOK
<1>7. \A u : InFlight(u) = {}
  BY <1>1, <1>6 DEF InFlight, Between
<1>8. /\ InFlight(who)' = {task} \ Completed
      /\ \A u : u # who => InFlight(u)' = {}
  <2>1. pc'[r] = "sRem"
    BY <1>3 DEF TypeInv, RestTypeOK
  <2>2. QED
    BY <1>1, <1>2, <1>5, <1>6, <2>1 DEF InFlight, Between, Delete
<1>9. \A u \in Users : u # who => Accounted(u)' = Accounted(u)
  BY <1>5, <1>7, <1>8 DEF Accounted, Keys
<1>10. CASE Accounted(who)' = Accounted(who)
  <2>1. UNCHANGED LedgerVars
    BY <1>1, <1>5, <1>9, <1>10, LedgerStutters
  <2>2. QED
    BY <2>1
<1>11. CASE Accounted(who)' # Accounted(who)
  \* The task was completed already, for another user.
  <2>1. /\ task \in Completed /\ Accounted(who)' = Accounted(who) \ {task}
        /\ task \in Accounted(who)
    BY <1>2, <1>5, <1>7, <1>8, <1>11 DEF Accounted
  <2>2. [u \in Users |-> Accounted(u)'] =
            [[u \in Users |-> Accounted(u)] EXCEPT ![who] = @ \ {task}]
    BY <1>2, <1>9, <2>1
  <2>3. Completed' = Completed \cup {task}
    BY <1>5, <2>1
  <2>4. Ledger!Move(who, task)
    BY <1>1, <1>2, <2>1, <2>2, <2>3 DEF Ledger!Move, Accounted
  <2>5. QED
    BY <1>2, <2>1, <2>4 DEF Ledger!Next, Ledger!Move, Accounted
<1>12. QED
  BY <1>10, <1>11

LEMMA AddMoves ==
    ASSUME TypeInv, MoveInv, NobodyDeletesCompleted, NEW r \in Requests, Removed(r)
    PROVE  [Ledger!Next]_LedgerVars
<1> DEFINE who == Req[r].who
           more == Completed \cup {task}
<1>1. /\ Delete(r) /\ pc[r] = "sRem" /\ reply[r] # "error" /\ Open(r)
      /\ task' = task /\ alive' = alive
      /\ Update(r, "sAdd", "completed", "set", more)
  BY DEF Removed, Resume, Delete, Open, Awaits, Completed
<1>2. /\ who \in Users /\ task \notin store[who].members /\ task \in Tasks
  BY <1>1 DEF MoveInv, LoopKnows, Delete, NobodyDeletesCompleted, SetKeys,
     TypeInv, RestTypeOK, LoopsHaveTask, Moving
<1>3. /\ pc' = [pc EXCEPT ![r] = "sAdd"]
      /\ store' \in {store, [store EXCEPT !["completed"] = Value("set", more)]}
  BY <1>1 DEF Update, Call
<1>4. /\ \A u \in Users : store'[u] = store[u]
      /\ Completed' \in {Completed, more}
  <2>1. "completed" \in Keys \ Users /\ Users \subseteq Keys
    BY RestAssumption DEF Keys
  <2>2. Value("set", more).members = more
    BY DEF Value, NotSet
  <2>3. QED
    BY <1>3, <2>1, <2>2 DEF TypeInv, RestTypeOK, Completed
<1>5. \A q \in Requests \ {r} : Delete(q) => pc[q] \notin Between /\ pc'[q] \notin Between
  BY <1>1, <1>3 DEF MoveInv, OneDelete, Open, Awaits, Between, TypeInv, RestTypeOK
<1>6. /\ InFlight(who) = {task} \ Completed
      /\ \A u : u # who => InFlight(u) = {}
  BY <1>1, <1>2, <1>5, OneInFlight DEF Between
<1>7. /\ InFlight(who)' = {task} \ Completed'
      /\ \A u : u # who => InFlight(u)' = {}
  <2>1. pc'[r] = "sAdd"
    BY <1>3 DEF TypeInv, RestTypeOK
  <2>2. QED
    BY <1>1, <1>2, <1>5, <2>1 DEF InFlight, Between, Delete
<1>8. \A u \in Users : u # who => Accounted(u)' = Accounted(u)
  BY <1>4, <1>6, <1>7 DEF Accounted
<1>9. CASE Completed' = Completed
  <2>1. Accounted(who)' = Accounted(who)
    BY <1>2, <1>4, <1>6, <1>7, <1>9 DEF Accounted
  <2>2. UNCHANGED LedgerVars
    BY <1>1, <1>8, <1>9, <2>1, LedgerStutters
  <2>3. QED
    BY <2>2
<1>10. CASE Completed' = more /\ task \notin Completed
  <2>1. /\ Accounted(who)' = Accounted(who) \ {task} /\ task \in Accounted(who)
    BY <1>2, <1>4, <1>6, <1>7, <1>10 DEF Accounted
  <2>2. [u \in Users |-> Accounted(u)'] =
            [[u \in Users |-> Accounted(u)] EXCEPT ![who] = @ \ {task}]
    BY <1>2, <1>8, <2>1
  <2>3. Ledger!Move(who, task)
    BY <1>1, <1>2, <1>10, <2>1, <2>2 DEF Ledger!Move, Accounted
  <2>4. QED
    BY <1>2, <2>1, <2>3 DEF Ledger!Next, Ledger!Move, Accounted
<1>11. QED
  BY <1>4, <1>9, <1>10

LEMMA NextTaskStutters ==
    ASSUME TypeInv, MoveInv, NEW r \in Requests, NEW STATE i, Delete(r), Open(r),
           pc[r] \notin Between \/ task \in Completed,
           NextTask(r, i), alive' = alive
    PROVE  UNCHANGED LedgerVars
<1>1. /\ store' = store
      /\ \E c \in {"200", "sIsMember"} : pc' = [pc EXCEPT ![r] = c]
  BY DEF NextTask, Respond, Call
<1>2. pc'[r] \notin Between /\ \A q \in Requests \ {r} : pc'[q] = pc[q]
  BY <1>1 DEF Between, TypeInv, RestTypeOK
<1>3. QED
  BY <1>1, <1>2, NoMoveStutters

\* A step of no DELETE.
LEMMA ElsewhereStutters ==
    ASSUME TypeInv, \A key \in SetKeys : store'[key] = store[key],
           \A q \in Requests : Delete(q) => pc'[q] = pc[q],
           task' = task, alive' = alive
    PROVE  UNCHANGED LedgerVars
<1>1. Completed' = Completed
  BY DEF Completed, SetKeys
<1>2. \A u : InFlight(u)' = InFlight(u)
  BY <1>1 DEF InFlight, Delete
<1>3. QED
  BY <1>1, <1>2, LedgerStutters DEF Accounted, SetKeys

LEMMA LedgerStep ==
    ASSUME NobodyDeletesCompleted, TypeInv, MoveInv, [Next]_vars
    PROVE  [Ledger!Next]_LedgerVars
<1>k. SetKeys \cap TodoKeys = {} /\ SetKeys \subseteq Keys
  BY RestAssumption DEF SetKeys, TodoKeys, Keys
<1>d. ASSUME alive, Die PROVE [Ledger!Next]_LedgerVars
  BY <1>d, DieGoesDown DEF Ledger!Next
<1>1. CASE UNCHANGED vars
  BY <1>1, ElsewhereStutters DEF vars
<1>2. CASE Kill
  BY <1>2, <1>d DEF Kill
<1>3. CASE Restart
  <2>1. UNCHANGED <<task, pc, store>> /\ ~alive /\ alive' = TRUE
    BY <1>3 DEF Restart
  <2>2. Completed' = Completed /\ \A u : InFlight(u)' = InFlight(u)
    BY <2>1 DEF Completed, InFlight, Delete
  <2>3. [u \in Users |-> Accounted(u)]' = [u \in Users |-> Accounted(u)]
    BY <2>1, <2>2 DEF Accounted
  <2>4. Ledger!ComeUp
    BY <2>1, <2>2, <2>3 DEF Ledger!ComeUp, Accounted
  <2>5. QED
    BY <2>4 DEF Ledger!Next
<1>4. ASSUME NEW r \in Requests, Receive(r) PROVE UNCHANGED LedgerVars
  <2>1. UNCHANGED <<alive, task, store>> /\ pc[r] = "new" /\ pc' = [pc EXCEPT ![r] = "connect"]
    BY <1>4 DEF Receive
  <2>2. \A u : InFlight(u)' = InFlight(u)
    BY <2>1 DEF InFlight, Delete, Completed, TypeInv, RestTypeOK
  <2>3. QED
    BY <2>1, <2>2, LedgerStutters DEF Accounted, Completed
<1>5. ASSUME NEW r \in Requests, getUserTasks(r) \/ Rejected(r)
      PROVE  [Ledger!Next]_LedgerVars
  BY <1>5, <1>d DEF getUserTasks, Rejected, Resume
<1>6. ASSUME NEW r \in Requests, deleteUserTasks(r) PROVE UNCHANGED LedgerVars
  <2>1. /\ Delete(r) /\ Open(r) /\ UNCHANGED <<alive, store>> /\ pc[r] = "connect"
        /\ pc'[r] = "exists" /\ \A q \in Requests \ {r} : pc'[q] = pc[q]
    BY <1>6 DEF deleteUserTasks, Resume, Exists, Call, Delete, Open, Awaits, TypeInv, RestTypeOK
  <2>2. QED
    BY <2>1, NoMoveStutters DEF Between
<1>7. ASSUME NEW r \in Requests, FoundUser(r) PROVE [Ledger!Next]_LedgerVars
  <2>1. Delete(r) /\ Open(r) /\ alive /\ pc[r] \notin Between
    BY <1>7 DEF FoundUser, Resume, Delete, Open, Awaits, Between
  <2>2. CASE Respond(r, "404") /\ UNCHANGED alive
    <3>1. /\ store' = store /\ pc'[r] = "404" /\ \A q \in Requests \ {r} : pc'[q] = pc[q]
      BY <2>2 DEF Respond, TypeInv, RestTypeOK
    <3>2. UNCHANGED LedgerVars
      BY <2>1, <2>2, <3>1, NoMoveStutters DEF Between
    <3>3. QED
      BY <3>2
  <2>3. CASE NextTask(r, 1) /\ UNCHANGED alive
    <3>1. UNCHANGED LedgerVars
      BY <2>1, <2>3, NextTaskStutters
    <3>2. QED
      BY <3>1
  <2>4. QED
    BY <1>7, <1>d, <2>1, <2>2, <2>3 DEF FoundUser
<1>8. ASSUME NEW r \in Requests, CheckedMember(r) PROVE [Ledger!Next]_LedgerVars
  <2>1. CASE reply[r] = "yes"
    BY <1>8, <2>1, RemStutters
  <2>2. CASE reply[r] = "no" /\ NextTask(r, at[r] + 1)
    <3>1. Delete(r) /\ Open(r) /\ alive' = alive /\ pc[r] \notin Between
      BY <1>8 DEF CheckedMember, Resume, Delete, Open, Awaits, Between
    <3>2. UNCHANGED LedgerVars
      BY <2>2, <3>1, NextTaskStutters
    <3>3. QED
      BY <3>2
  <2>3. QED
    BY <1>8, <2>1, <2>2 DEF CheckedMember
<1>9. ASSUME NEW r \in Requests, Removed(r) PROVE [Ledger!Next]_LedgerVars
  BY <1>9, AddMoves
<1>10. ASSUME NEW r \in Requests, Added(r) PROVE UNCHANGED LedgerVars
  <2>1. /\ Delete(r) /\ Open(r) /\ alive' = alive /\ NextTask(r, at[r] + 1)
        /\ task \in Completed
    BY <1>10 DEF Added, Resume, Delete, Open, Awaits, MoveInv, LoopKnows
  <2>2. QED
    BY <2>1, NextTaskStutters
<1>11. ASSUME NEW r \in Requests,
              \/ postUsersTodos(r) \/ FoundKey(r) \/ Inserted(r) \/ Logged(r)
              \/ getCompletedTodos(r)
       PROVE  UNCHANGED LedgerVars
  <2>1. /\ ~Delete(r) /\ task' = task /\ alive' = alive
        /\ \E c : pc' = [pc EXCEPT ![r] = c]
    BY <1>11 DEF postUsersTodos, FoundKey, Inserted, Logged, getCompletedTodos, Resume, Delete,
       Exists, Update, Call, Respond
  <2>2. store' = store \/ \E v : store' = [store EXCEPT ![TodoKey(Req[r].who)] = v]
    BY <1>11 DEF postUsersTodos, FoundKey, Inserted, Logged, getCompletedTodos,
       Exists, Update, Call, Respond
  <2>3. TodoKey(Req[r].who) \in TodoKeys
    BY RequestKeys DEF TodoKeys
  <2>4. \A key \in SetKeys : store'[key] = store[key]
    BY <1>k, <2>2, <2>3 DEF TypeInv, RestTypeOK
  <2>5. \A q \in Requests : Delete(q) => pc'[q] = pc[q]
    BY <2>1 DEF TypeInv, RestTypeOK
  <2>6. QED
    BY <2>1, <2>4, <2>5, ElsewhereStutters
<1>12. QED
  BY <1>1, <1>2, <1>3, <1>4, <1>5, <1>6, <1>7, <1>8, <1>9, <1>10, <1>11 DEF Next, Handle

\* One DELETE at a time, none for the completed tasks themselves: a task moves from
\* its list to the completed ones in a single step of the ledger, and disappears
\* only when the server goes down (watchController.js, deleteUserTasks).
THEOREM TasksAreAlwaysAccounted ==
    ASSUME ~Overlap, NobodyDeletesCompleted PROVE Spec => TasksAreAccounted
<1>1. TypeInv /\ MoveInv /\ [Next]_vars =>
          [Ledger!Next]_<<[u \in Users |-> store[u].members \cup InFlight(u)], Completed, alive>>
  BY LedgerStep DEF LedgerVars, Accounted
<1>2. QED
  BY <1>1, LedgerInit, TypeInvariant, MoveInvariant, PTL DEF Spec, TasksAreAccounted, Ledger!Spec
-----------------------------------------------------------------------------
(***************************************************************************)
(* What "Your tasks are registered to be completed." promises, one DELETE  *)
(* at a time and whatever fails: a task of a list is lost only if the      *)
(* DELETE that moved it was cut off (NoneLost), and a DELETE that is at    *)
(* its i-th task has settled those before it (LoopMoves).                  *)
(***************************************************************************)
\* No task of a list is lost: it is there, registered, between the two, or a DELETE
\* that named it was cut off.
NoneLost ==
    \A u \in Users : \A t \in Lists[u] :
        \/ t \in store[u].members
        \/ t \in Completed
        \/ t = task /\ \E r \in Requests : Delete(r) /\ Req[r].who = u /\ pc[r] \in Between
        \/ CutOff(u, t)

\* t has left the list of u, to where it should be.
Settled(u, t) == t \in Lists[u] => t \notin store[u].members /\ (t \in Completed \/ CutOff(u, t))
Moved(r, n) == \A i \in 1 .. n : Settled(Req[r].who, Req[r].tasks[i])

LoopMoves(r) ==
    /\ pc[r] \in Moving =>
          /\ at[r] \in 1 .. Len(Req[r].tasks) /\ task = Req[r].tasks[at[r]]
          /\ Moved(r, at[r] - 1)
    /\ pc[r] = "sIsMember" /\ reply[r] = "no" => task \notin store[Req[r].who].members
    /\ pc[r] = "sAdd" /\ reply[r] # "error" => task \notin store[Req[r].who].members
    /\ pc[r] = "200" => Req[r].tasks # None /\ Moved(r, Len(Req[r].tasks))

\* A DELETE for a user.
Own(r) == Delete(r) /\ Req[r].who \in Users
DeleteInv == NoneLost /\ \A r \in Requests : Own(r) => LoopMoves(r)

\* What is settled stays so: lists only shrink, the completed tasks only grow.
LEMMA SettledStays ==
    ASSUME NEW u \in Users, NEW t, Settled(u, t),
           store'[u].members \subseteq store[u].members, Completed \subseteq Completed',
           \A r \in Requests : Delete(r) /\ pc[r] = "reset" => pc'[r] = "reset"
    PROVE  Settled(u, t)'
<1>1. CutOff(u, t) => CutOff(u, t)'
  BY DEF CutOff, Named, Delete
<1>2. QED
  BY <1>1 DEF Settled

LEMMA MovedStays ==
    ASSUME NEW r \in Requests, NEW n, Moved(r, n), Req[r].who \in Users,
           store'[Req[r].who].members \subseteq store[Req[r].who].members,
           Completed \subseteq Completed',
           \A q \in Requests : Delete(q) /\ pc[q] = "reset" => pc'[q] = "reset"
    PROVE  Moved(r, n)'
BY SettledStays DEF Moved

\* Steps outside the loop.
LEMMA ElsewherePromises ==
    ASSUME TypeInv, DeleteInv,
           \A key \in SetKeys : store'[key] = store[key], task' = task,
           \A q \in Requests : Delete(q) =>
               \/ pc'[q] = pc[q] /\ reply'[q] = reply[q] /\ at'[q] = at[q]
               \/ pc[q] \notin Between \cup {"reset"} /\ pc'[q] \notin Moving \cup {"200"}
    PROVE  DeleteInv'
<1>1. Completed' = Completed /\ \A u \in Users : store'[u] = store[u]
  BY DEF Completed, SetKeys
<1>2. \A q \in Requests : Delete(q) => (pc[q] = "reset" => pc'[q] = "reset")
  OBVIOUS
<1>3. NoneLost'
  <2> SUFFICES ASSUME NEW u \in Users, NEW t \in Lists[u]
               PROVE  \/ t \in store'[u].members \/ t \in Completed'
                      \/ t = task' /\ \E r \in Requests : Delete(r) /\ Req[r].who = u /\ pc'[r] \in Between
                      \/ CutOff(u, t)'
    BY DEF NoneLost, Delete
  <2>1. CutOff(u, t) => CutOff(u, t)'
    BY <1>2 DEF CutOff, Named, Delete
  <2>2. \A r \in Requests : Delete(r) /\ pc[r] \in Between => pc'[r] \in Between
    OBVIOUS
  <2>3. QED
    BY <1>1, <2>1, <2>2 DEF DeleteInv, NoneLost
<1>4. ASSUME NEW q \in Requests, Own(q) PROVE LoopMoves(q)'
  <2>1. LoopMoves(q) /\ Req[q].who \in Users /\ Delete(q)
    BY <1>4 DEF DeleteInv, Own
  <2>2. store'[Req[q].who] = store[Req[q].who]
    BY <1>1, <2>1
  <2>3. \A n : Moved(q, n) => Moved(q, n)'
    BY <1>1, <1>2, <2>1, <2>2, MovedStays
  <2>4. CASE pc'[q] = pc[q] /\ reply'[q] = reply[q] /\ at'[q] = at[q]
    BY <2>1, <2>2, <2>3, <2>4 DEF LoopMoves
  <2>5. CASE pc'[q] \notin Moving \cup {"200"}
    BY <2>5 DEF LoopMoves, Moving
  <2>6. QED
    BY <2>1, <2>4, <2>5
<1>5. QED
  BY <1>3, <1>4 DEF DeleteInv, Own, Delete

\* Steps of the loop, which leave the other DELETEs alone.
LEMMA LoopPromises ==
    ASSUME TypeInv, MoveInv, DeleteInv, NEW r \in Requests, Delete(r), Open(r),
           \A q \in Requests \ {r} : pc'[q] = pc[q] /\ reply'[q] = reply[q],
           \A u \in Users : store'[u].members \subseteq store[u].members,
           Completed \subseteq Completed', NoneLost', Own(r) => LoopMoves(r)'
    PROVE  DeleteInv'
<1>1. \A q \in Requests : Delete(q) /\ pc[q] = "reset" => pc'[q] = "reset"
  BY DEF Open, Awaits
<1>2. ASSUME NEW q \in Requests, Own(q), q # r PROVE LoopMoves(q)'
  <2>1. pc[q] \notin Awaits /\ pc'[q] = pc[q]
    BY <1>2 DEF MoveInv, OneDelete, Open, Own
  <2>2. LoopMoves(q) /\ Req[q].who \in Users
    BY <1>2 DEF DeleteInv, Own
  <2>3. \A n : Moved(q, n) => Moved(q, n)'
    BY <1>1, <2>2, MovedStays
  <2>4. QED
    BY <2>1, <2>2, <2>3 DEF LoopMoves, Moving, Awaits
<1>3. QED
  BY <1>2 DEF DeleteInv, Own, Delete

\* The process ends: what was between a list and the completed tasks was cut off.
LEMMA DieKeepsPromises == ASSUME TypeInv, MoveInv, DeleteInv, Die PROVE DeleteInv'
<1>1. /\ store' = store /\ Completed' = Completed
      /\ \A r \in Requests : /\ Open(r) => pc'[r] = "reset"
                             /\ ~Open(r) => pc'[r] = pc[r]
  BY DEF Die, TypeInv, RestTypeOK, Completed
<1>2. \A r \in Requests : Delete(r) /\ pc[r] = "reset" => pc'[r] = "reset"
  BY <1>1
<1>3. NoneLost'
  <2> SUFFICES ASSUME NEW u \in Users, NEW t \in Lists[u]
               PROVE  t \in store[u].members \/ t \in Completed \/ CutOff(u, t)'
    BY <1>1 DEF NoneLost, Delete
  <2>1. CutOff(u, t) => CutOff(u, t)'
    BY <1>2 DEF CutOff, Named, Delete
  <2>2. ASSUME t = task, NEW r \in Requests, Delete(r), Req[r].who = u, pc[r] \in Between
        PROVE  CutOff(u, t)'
    <3>1. pc'[r] = "reset"
      BY <1>1, <2>2 DEF Open, Awaits, Between
    <3>2. t \in Named(r)
      BY <2>2 DEF MoveInv, LoopKnows, Between, Moving
    <3>3. QED
      BY <2>2, <3>1, <3>2 DEF CutOff, Named, Delete
  <2>3. QED
    BY <2>1, <2>2 DEF DeleteInv, NoneLost
<1>4. ASSUME NEW q \in Requests, Own(q) PROVE LoopMoves(q)'
  <2>1. LoopMoves(q) /\ Req[q].who \in Users
    BY <1>4 DEF DeleteInv, Own
  <2>2. \A n : Moved(q, n) => Moved(q, n)'
    BY <1>1, <1>2, <2>1, MovedStays
  <2>3. pc'[q] \notin Moving /\ (pc'[q] = "200" => pc[q] = "200")
    BY <1>1 DEF Open, Awaits, Moving
  <2>4. QED
    BY <2>1, <2>2, <2>3 DEF LoopMoves, Moving
<1>5. QED
  BY <1>3, <1>4 DEF DeleteInv, Own, Delete

LEMMA NextTaskPromises ==
    ASSUME TypeInv, MoveInv, DeleteInv, NEW r \in Requests, NEW STATE i, i \in Nat \ {0},
           Delete(r), Open(r), Req[r].tasks # None,
           pc[r] \notin Between \/ task \in Completed,
           Own(r) => i <= Len(Req[r].tasks) + 1 /\ Moved(r, i - 1), NextTask(r, i)
    PROVE  DeleteInv'
<1> DEFINE tasks == Req[r].tasks
           who == Req[r].who
<1>1. tasks \in Seq(Tasks) /\ Len(tasks) \in Nat
  BY RequestKeys
<1>2. /\ store' = store /\ Completed' = Completed
      /\ \A q \in Requests \ {r} : pc'[q] = pc[q] /\ reply'[q] = reply[q]
  BY DEF NextTask, Respond, Call, TypeInv, RestTypeOK, Completed
<1>3. \A q \in Requests : Delete(q) /\ pc[q] = "reset" => pc'[q] = "reset"
  BY <1>2 DEF Open, Awaits
<1>n. PICK n : n = i - 1
  OBVIOUS
<1>4. ASSUME Own(r) PROVE Moved(r, n)'
  <2>1. Moved(r, n)
    BY <1>4, <1>n
  <2>2. QED
    BY <1>2, <1>3, <1>4, <2>1, MovedStays DEF Own
<1>5. NoneLost'
  <2> SUFFICES ASSUME NEW u \in Users, NEW t \in Lists[u]
               PROVE  t \in store[u].members \/ t \in Completed \/ CutOff(u, t)'
    BY <1>2 DEF NoneLost
  <2>1. CutOff(u, t) => CutOff(u, t)'
    BY <1>3 DEF CutOff, Named, Delete
  <2>2. \A q \in Requests : Delete(q) /\ q # r => pc[q] \notin Between
    BY DEF MoveInv, OneDelete, Open, Awaits, Between
  <2>3. QED
    BY <2>1, <2>2 DEF DeleteInv, NoneLost
<1>6. CASE i > Len(tasks)
  <2>1. pc'[r] = "200" /\ reply'[r] = None
    BY <1>1, <1>6 DEF NextTask, Respond, TypeInv, RestTypeOK
  <2>2. Own(r) => n = Len(tasks)
    BY <1>1, <1>6, <1>n
  <2>3. Own(r) => LoopMoves(r)'
    BY <1>4, <2>1, <2>2 DEF LoopMoves, Moving
  <2>4. QED
    BY <1>2, <1>5, <2>3, LoopPromises
<1>7. CASE i <= Len(tasks)
  <2>1. /\ pc'[r] = "sIsMember" /\ task' = tasks[i] /\ at'[r] = i
        /\ reply'[r] = "no" => tasks[i] \notin store[who].members
    BY <1>1, <1>7 DEF NextTask, Call, TypeInv, RestTypeOK
  <2>2. Own(r) => LoopMoves(r)'
    BY <1>1, <1>2, <1>4, <1>7, <1>n, <2>1 DEF LoopMoves, Moving
  <2>3. QED
    BY <1>2, <1>5, <2>2, LoopPromises
<1>8. QED
  BY <1>1, <1>6, <1>7

LEMMA RemPromises ==
    ASSUME NobodyDeletesCompleted, TypeInv, MoveInv, DeleteInv, NEW r \in Requests,
           CheckedMember(r), reply[r] = "yes"
    PROVE  DeleteInv'
<1> DEFINE who == Req[r].who
           rest == store[who].members \ {task}
<1>1. /\ Delete(r) /\ pc[r] = "sIsMember" /\ Open(r)
      /\ task' = task /\ at' = at
      /\ Update(r, "sRem", who, "set", rest)
  BY DEF CheckedMember, Resume, Delete, Open, Awaits
<1>2. who \in Users /\ who \in Keys /\ Users \subseteq Keys /\ "completed" \in Keys \ Users
  BY <1>1, RestAssumption DEF MoveInv, LoopKnows, NobodyDeletesCompleted, SetKeys, Keys
<1>3. /\ pc' = [pc EXCEPT ![r] = "sRem"] /\ \E y : reply' = [reply EXCEPT ![r] = y]
      /\ store' \in {store, [store EXCEPT ![who] = Value("set", rest)]}
  BY <1>1 DEF Update, Call
<1>4. Value("set", rest).members = rest
  BY DEF Value, NotSet
<1>5. /\ store'[who].members \in {store[who].members, rest}
      /\ \A key \in Keys : key # who => store'[key] = store[key]
      /\ pc'[r] = "sRem"
      /\ \A q \in Requests \ {r} : pc'[q] = pc[q] /\ reply'[q] = reply[q]
  BY <1>2, <1>3, <1>4 DEF TypeInv, RestTypeOK
<1>6. Completed' = Completed /\ \A u \in Users : store'[u].members \subseteq store[u].members
  BY <1>2, <1>5 DEF Completed
<1>7. \A q \in Requests : Delete(q) /\ pc[q] = "reset" => pc'[q] = "reset"
  BY <1>1, <1>5
<1>8. NoneLost'
  <2> SUFFICES ASSUME NEW u \in Users, NEW t \in Lists[u]
               PROVE  \/ t \in store'[u].members \/ t \in Completed'
                      \/ t = task' /\ \E q \in Requests : Delete(q) /\ Req[q].who = u /\ pc'[q] \in Between
                      \/ CutOff(u, t)'
    BY DEF NoneLost, Delete
  <2>1. CutOff(u, t) => CutOff(u, t)'
    BY <1>7 DEF CutOff, Named, Delete
  <2>2. \A q \in Requests : Delete(q) => pc[q] \notin Between
    BY <1>1 DEF MoveInv, OneDelete, Open, Awaits, Between
  <2>3. t \in store[u].members /\ t \notin store'[u].members => u = who /\ t = task
    BY <1>2, <1>5
  <2>4. QED
    BY <1>1, <1>5, <1>6, <2>1, <2>2, <2>3 DEF DeleteInv, NoneLost, Between
<1>9. LoopMoves(r)'
  <2>1. Moved(r, at[r] - 1) /\ at[r] \in 1 .. Len(Req[r].tasks) /\ task = Req[r].tasks[at[r]]
    BY <1>1, <1>2 DEF DeleteInv, LoopMoves, Moving, Own
  <2>2. Moved(r, at[r] - 1)'
    <3>1. \A n : Moved(r, n) => Moved(r, n)'
      BY <1>2, <1>6, <1>7, MovedStays
    <3>2. QED
      BY <1>1, <2>1, <3>1
  <2>3. QED
    BY <1>1, <1>5, <2>1, <2>2 DEF LoopMoves, Moving
<1>10. QED
  BY <1>1, <1>5, <1>6, <1>8, <1>9, LoopPromises

LEMMA AddPromises ==
    ASSUME NobodyDeletesCompleted, TypeInv, MoveInv, DeleteInv, NEW r \in Requests, Removed(r)
    PROVE  DeleteInv'
<1> DEFINE who == Req[r].who
           more == Completed \cup {task}
<1>1. /\ Delete(r) /\ pc[r] = "sRem" /\ reply[r] # "error" /\ Open(r)
      /\ task' = task /\ at' = at
      /\ Update(r, "sAdd", "completed", "set", more)
  BY DEF Removed, Resume, Delete, Open, Awaits, Completed
<1>2. who \in Users /\ who \in Keys /\ Users \subseteq Keys /\ "completed" \in Keys \ Users
  BY <1>1, RestAssumption DEF MoveInv, LoopKnows, NobodyDeletesCompleted, SetKeys, Keys
<1>3. /\ pc' = [pc EXCEPT ![r] = "sAdd"] /\ \E y : reply' = [reply EXCEPT ![r] = y]
      /\ store' \in {store, [store EXCEPT !["completed"] = Value("set", more)]}
  BY <1>1 DEF Update, Call
<1>4. Value("set", more).members = more
  BY DEF Value, NotSet
<1>5. /\ Completed' \in {Completed, more} /\ \A u \in Users : store'[u] = store[u]
      /\ pc'[r] = "sAdd"
      /\ \A q \in Requests \ {r} : pc'[q] = pc[q] /\ reply'[q] = reply[q]
  BY <1>2, <1>3, <1>4 DEF TypeInv, RestTypeOK, Completed
<1>6. task \notin store[who].members
  BY <1>1 DEF MoveInv, LoopKnows
<1>7. \A q \in Requests : Delete(q) /\ pc[q] = "reset" => pc'[q] = "reset"
  BY <1>1, <1>5
<1>8. NoneLost'
  <2> SUFFICES ASSUME NEW u \in Users, NEW t \in Lists[u]
               PROVE  \/ t \in store'[u].members \/ t \in Completed'
                      \/ t = task' /\ \E q \in Requests : Delete(q) /\ Req[q].who = u /\ pc'[q] \in Between
                      \/ CutOff(u, t)'
    BY DEF NoneLost, Delete
  <2>1. CutOff(u, t) => CutOff(u, t)'
    BY <1>7 DEF CutOff, Named, Delete
  <2>2. \A q \in Requests : pc[q] \in Between => pc'[q] \in Between
    BY <1>5 DEF Between
  <2>3. QED
    BY <1>1, <1>5, <2>1, <2>2 DEF DeleteInv, NoneLost
<1>9. LoopMoves(r)'
  <2>1. Moved(r, at[r] - 1) /\ at[r] \in 1 .. Len(Req[r].tasks) /\ task = Req[r].tasks[at[r]]
    BY <1>1, <1>2 DEF DeleteInv, LoopMoves, Moving, Own
  <2>2. Moved(r, at[r] - 1)'
    <3>1. \A n : Moved(r, n) => Moved(r, n)'
      BY <1>2, <1>5, <1>7, MovedStays
    <3>2. QED
      BY <1>1, <2>1, <3>1
  <2>3. QED
    BY <1>1, <1>2, <1>5, <1>6, <2>1, <2>2 DEF LoopMoves, Moving
<1>10. Completed \subseteq Completed' /\ \A u \in Users : store'[u].members \subseteq store[u].members
  BY <1>5
<1>11. QED
  BY <1>1, <1>5, <1>8, <1>9, <1>10, LoopPromises

LEMMA PromisesInit == Init => DeleteInv
<1> SUFFICES ASSUME Init PROVE DeleteInv
  OBVIOUS
<1>1. \A u \in Users : store[u].members = Lists[u]
  BY DEF Init, Value, NotSet, Keys
<1>2. \A r \in Requests : pc[r] = "new"
  BY DEF Init
<1>3. QED
  BY <1>1, <1>2 DEF DeleteInv, NoneLost, LoopMoves, Moving

LEMMA PromisesStep ==
    ASSUME NobodyDeletesCompleted, TypeInv, MoveInv, DeleteInv, [Next]_vars
    PROVE  DeleteInv'
<1>k. SetKeys \cap TodoKeys = {} /\ SetKeys \subseteq Keys
  BY RestAssumption DEF SetKeys, TodoKeys, Keys
<1>d. ASSUME Die PROVE DeleteInv'
  BY <1>d, DieKeepsPromises
<1>1. CASE UNCHANGED vars
  BY <1>1, ElsewherePromises DEF vars
<1>2. CASE Kill
  BY <1>2, <1>d DEF Kill
<1>3. CASE Restart
  BY <1>3, ElsewherePromises DEF Restart
<1>4. ASSUME NEW r \in Requests, Receive(r) PROVE DeleteInv'
  <2>1. /\ UNCHANGED <<task, at, reply, store>> /\ pc[r] = "new"
        /\ pc' = [pc EXCEPT ![r] = "connect"]
    BY <1>4 DEF Receive
  <2>2. pc'[r] = "connect" /\ \A q \in Requests \ {r} : pc'[q] = pc[q]
    BY <2>1 DEF TypeInv, RestTypeOK
  <2>3. \A q \in Requests :
            \/ pc'[q] = pc[q] /\ reply'[q] = reply[q] /\ at'[q] = at[q]
            \/ pc[q] \notin Between \cup {"reset"} /\ pc'[q] \notin Moving \cup {"200"}
    BY <2>1, <2>2 DEF Moving, Between
  <2>4. QED
    BY <2>1, <2>3, ElsewherePromises
<1>5. ASSUME NEW r \in Requests, getUserTasks(r) \/ Rejected(r) PROVE DeleteInv'
  BY <1>5, <1>d DEF getUserTasks, Rejected
<1>6. ASSUME NEW r \in Requests, deleteUserTasks(r) PROVE DeleteInv'
  <2>1. /\ Delete(r) /\ UNCHANGED <<task, at, store>> /\ pc[r] = "connect"
        /\ pc'[r] = "exists"
        /\ \A q \in Requests \ {r} : pc'[q] = pc[q] /\ reply'[q] = reply[q]
    BY <1>6 DEF deleteUserTasks, Resume, Exists, Call, Delete, TypeInv, RestTypeOK
  <2>2. QED
    BY <2>1, ElsewherePromises DEF Moving, Between
<1>7. ASSUME NEW r \in Requests, FoundUser(r) PROVE DeleteInv'
  <2>1. Delete(r) /\ Open(r) /\ pc[r] = "exists"
    BY <1>7 DEF FoundUser, Resume, Delete, Open, Awaits
  <2>2. CASE Respond(r, "404") /\ UNCHANGED <<alive, task>>
    <3>1. /\ store' = store /\ pc'[r] = "404"
          /\ \A q \in Requests \ {r} : pc'[q] = pc[q] /\ reply'[q] = reply[q] /\ at'[q] = at[q]
      BY <2>2 DEF Respond, TypeInv, RestTypeOK
    <3>2. QED
      BY <2>1, <2>2, <3>1, ElsewherePromises DEF Moving, Between
  <2>3. CASE Req[r].tasks # None /\ NextTask(r, 1)
    <3>1. 1 <= Len(Req[r].tasks) + 1 /\ Moved(r, 1 - 1)
      BY <2>3, RequestKeys DEF Moved
    <3>2. QED
      BY <2>1, <2>3, <3>1, NextTaskPromises DEF Between
  <2>4. QED
    BY <1>7, <1>d, <2>1, <2>2, <2>3 DEF FoundUser
<1>8. ASSUME NEW r \in Requests, CheckedMember(r) \/ Added(r), NextTask(r, at[r] + 1),
             ~(CheckedMember(r) /\ reply[r] = "yes")
      PROVE  DeleteInv'
  <2>1. /\ Delete(r) /\ Open(r) /\ pc[r] \in {"sIsMember", "sAdd"} /\ reply[r] # "error"
        /\ pc[r] = "sIsMember" => reply[r] = "no"
    BY <1>8 DEF CheckedMember, Added, Resume, Delete, Open, Awaits
  <2>2. /\ Req[r].tasks # None /\ Len(Req[r].tasks) \in Nat /\ at[r] + 1 \in Nat \ {0}
        /\ pc[r] \notin Between \/ task \in Completed
    BY <2>1, RequestKeys DEF TypeInv, RestTypeOK, LoopsHaveTask, Moving, MoveInv, LoopKnows, Between
  <2>3. ASSUME Own(r) PROVE at[r] + 1 <= Len(Req[r].tasks) + 1 /\ Moved(r, (at[r] + 1) - 1)
    <3>1. /\ at[r] \in 1 .. Len(Req[r].tasks) /\ task = Req[r].tasks[at[r]]
          /\ Moved(r, at[r] - 1) /\ task \notin store[Req[r].who].members
      BY <2>1, <2>3 DEF DeleteInv, LoopMoves, Moving
    <3>2. \A q \in Requests : Delete(q) /\ q # r => pc[q] \notin Between
      BY <2>1 DEF MoveInv, OneDelete, Open, Awaits, Between
    <3>3. Settled(Req[r].who, task)
      BY <2>1, <2>2, <2>3, <3>1, <3>2 DEF Settled, DeleteInv, NoneLost, Own, Between
    <3>4. \A i \in 1 .. (at[r] + 1) - 1 : i \in 1 .. at[r] - 1 \/ i = at[r]
      BY <3>1
    <3>5. ASSUME NEW i \in 1 .. (at[r] + 1) - 1 PROVE Settled(Req[r].who, Req[r].tasks[i])
      <4>1. i \in 1 .. at[r] - 1 \/ i = at[r]
        BY <3>4
      <4>2. QED
        BY <3>1, <3>3, <4>1 DEF Moved
    <3>6. at[r] + 1 <= Len(Req[r].tasks) + 1
      BY <2>2, <3>1
    <3>7. QED
      BY <3>5, <3>6 DEF Moved
  <2>4. QED
    BY <1>8, <2>1, <2>2, <2>3, NextTaskPromises
<1>9. ASSUME NEW r \in Requests, CheckedMember(r) \/ Added(r) PROVE DeleteInv'
  <2>1. CASE CheckedMember(r) /\ reply[r] = "yes"
    BY <2>1, RemPromises
  <2>2. CASE ~(CheckedMember(r) /\ reply[r] = "yes")
    BY <1>8, <1>9, <2>2 DEF CheckedMember, Added
  <2>3. QED
    BY <2>1, <2>2
<1>10. ASSUME NEW r \in Requests, Removed(r) PROVE DeleteInv'
  BY <1>10, AddPromises
<1>11. ASSUME NEW r \in Requests,
              \/ postUsersTodos(r) \/ FoundKey(r) \/ Inserted(r) \/ Logged(r)
              \/ getCompletedTodos(r)
       PROVE  DeleteInv'
  <2>1. /\ ~Delete(r) /\ task' = task
        /\ \E c, y : pc' = [pc EXCEPT ![r] = c] /\ reply' = [reply EXCEPT ![r] = y]
        /\ at' = at \/ at' = [at EXCEPT ![r] = 0]
    BY <1>11 DEF postUsersTodos, FoundKey, Inserted, Logged, getCompletedTodos, Resume, Delete,
       Exists, Update, Call, Respond
  <2>2. store' = store \/ \E v : store' = [store EXCEPT ![TodoKey(Req[r].who)] = v]
    BY <1>11 DEF postUsersTodos, FoundKey, Inserted, Logged, getCompletedTodos,
       Exists, Update, Call, Respond
  <2>3. TodoKey(Req[r].who) \in TodoKeys
    BY RequestKeys DEF TodoKeys
  <2>4. \A key \in SetKeys : store'[key] = store[key]
    BY <1>k, <2>2, <2>3 DEF TypeInv, RestTypeOK
  <2>5. \A q \in Requests : q # r => pc'[q] = pc[q] /\ reply'[q] = reply[q] /\ at'[q] = at[q]
    BY <2>1 DEF TypeInv, RestTypeOK
  <2>6. QED
    BY <2>1, <2>4, <2>5, ElsewherePromises
<1>12. QED
  BY <1>1, <1>2, <1>3, <1>4, <1>5, <1>6, <1>7, <1>9, <1>10, <1>11 DEF Next, Handle

(***************************************************************************)
(* While nothing fails and requests are well formed, Redis refuses no      *)
(* command and no handler throws.                                          *)
(***************************************************************************)
Calm == faults = {} /\ \A r \in Requests : pc[r] # "new" => WellFormed(r)
CalmInv == Calm => alive /\ \A r \in Requests : reply[r] # "error"

LEMMA CalmInit == Init => CalmInv
BY RestAssumption DEF Init, CalmInv

LEMMA CalmStep ==
    ASSUME TypeInv, PostInv, MoveInv, CalmInv, [Next]_vars
    PROVE  CalmInv'
<1> SUFFICES ASSUME Calm' PROVE alive' /\ \A r \in Requests : reply'[r] # "error"
  BY DEF CalmInv
<1>1. CASE UNCHANGED vars
  BY <1>1 DEF vars, Calm, CalmInv
<1>2. faults = {}
  BY DEF Next, vars, Calm
<1>3. ASSUME \A r \in Requests : pc'[r] = "new" => pc[r] = "new"
      PROVE  alive /\ \A r \in Requests : reply[r] # "error" /\ (pc[r] # "new" => WellFormed(r))
  BY <1>2, <1>3 DEF Calm, CalmInv, WellFormed, Delete
<1>4. None # "error" /\ "yes" # "error" /\ "no" # "error"
  BY RestAssumption
<1>5. \A r \in Requests : pc'[r] = "new" => pc[r] = "new"
  BY DEF Next, vars, Kill, Restart, Die, Receive, Handle, getUserTasks, deleteUserTasks, FoundUser, CheckedMember,
     Removed, Added, postUsersTodos, FoundKey, Inserted, Logged, getCompletedTodos, Rejected, Open,
     NextTask, Exists, Update, Call, Respond, TypeInv, RestTypeOK
<1>6. alive /\ \A r \in Requests : reply[r] # "error" /\ (pc[r] # "new" => WellFormed(r))
  BY <1>3, <1>5
<1>7. CASE Kill \/ Restart
  BY <1>2, <1>6, <1>7 DEF Kill, Restart
<1>8. ASSUME NEW r \in Requests, Receive(r) PROVE alive' /\ \A q \in Requests : reply'[q] # "error"
  BY <1>6, <1>8 DEF Receive
<1>9. ASSUME NEW r \in Requests, Handle(r)
      PROVE  alive' = alive /\ \E y \in {None, "yes", "no"} : reply' = [reply EXCEPT ![r] = y]
  <2>1. WellFormed(r) /\ reply[r] # "error" /\ alive
    <3>1. pc[r] # "new"
      BY <1>9 DEF Handle, getUserTasks, deleteUserTasks, FoundUser, CheckedMember, Removed, Added,
         postUsersTodos, FoundKey, Inserted, Logged, getCompletedTodos, Rejected, Resume, Open, Awaits
    <3>2. QED
      BY <1>6, <3>1
  <2>2. ~getUserTasks(r) /\ ~Rejected(r)
    BY <2>1 DEF getUserTasks, Rejected, Resume, WellFormed
  <2>3. CASE \/ deleteUserTasks(r) \/ postUsersTodos(r) \/ Inserted(r) \/ Logged(r)
             \/ getCompletedTodos(r)
    BY <1>2, <2>3 DEF deleteUserTasks, postUsersTodos, Inserted, Logged, getCompletedTodos,
       Exists, Call, Respond
  <2>4. ASSUME Delete(r) PROVE ~Refused(Req[r].who, "set") /\ ~Refused("completed", "set") /\ Req[r].tasks # None
    <3>1. Req[r].who \in Users /\ Req[r].tasks # None /\ Users \subseteq Keys /\ "completed" \in Keys
      BY <2>1, <2>4 DEF WellFormed, Keys
    <3>2. QED
      BY <3>1 DEF Refused, MoveInv, SetsHoldListed, TypeInv, RestTypeOK, Containers
  <2>5. ASSUME Delete(r), NEW STATE i, NextTask(r, i), alive' = alive
        PROVE  alive' = alive /\ \E y \in {None, "yes", "no"} : reply' = [reply EXCEPT ![r] = y]
    BY <1>2, <2>4, <2>5 DEF NextTask, Respond, Call
  <2>6. CASE FoundUser(r) \/ CheckedMember(r) \/ Added(r)
    <3>1. Delete(r)
      BY <2>6 DEF FoundUser, CheckedMember, Added, Resume, Delete
    <3>2. CASE FoundUser(r)
      BY <2>4, <2>5, <3>1, <3>2 DEF FoundUser, Respond
    <3>3. CASE CheckedMember(r)
      BY <1>2, <2>4, <2>5, <3>1, <3>3 DEF CheckedMember, Update, Call
    <3>4. CASE Added(r)
      BY <2>5, <3>1, <3>4 DEF Added
    <3>5. QED
      BY <2>6, <3>2, <3>3, <3>4
  <2>7. CASE Removed(r)
    BY <1>2, <2>4, <2>7 DEF Removed, Resume, Delete, Update, Call
  <2>8. CASE FoundKey(r)
    <3>1. ~Refused(TodoKey(Req[r].who), "hash")
      BY RequestKeys DEF Refused, PostInv, TodoKeysHoldNoSet, TodoKeys, TypeInv, RestTypeOK, Containers
    <3>2. QED
      BY <1>2, <2>8, <3>1 DEF FoundKey, Update, Call
  <2>9. QED
    BY <1>9, <2>2, <2>3, <2>6, <2>7, <2>8 DEF Handle
<1>10. ASSUME NEW r \in Requests, Handle(r) PROVE alive' /\ \A q \in Requests : reply'[q] # "error"
  BY <1>4, <1>6, <1>9, <1>10 DEF TypeInv, RestTypeOK
<1>11. QED
  BY <1>1, <1>7, <1>8, <1>10 DEF Next

\* One DELETE at a time, none for the completed tasks themselves, whatever fails:
\* when a DELETE is answered "Your tasks are registered to be completed.", the listed
\* tasks it named are, unless a DELETE that named them as well was cut off; and no
\* well-formed request brings the process down (watchController.js, echoController.js).
THEOREM ServerKeepsItsWord ==
    ASSUME ~Overlap, NobodyDeletesCompleted PROVE Spec => []PromisesAreKept
<1>1. TypeInv /\ MoveInv /\ DeleteInv /\ [Next]_vars => DeleteInv'
  BY PromisesStep
<1>2. TypeInv /\ PostInv /\ MoveInv /\ CalmInv /\ [Next]_vars => CalmInv'
  BY CalmStep
<1>3. DeleteInv => AcknowledgedTasksMoved
  <2> SUFFICES ASSUME DeleteInv, NEW r \in Requests, Delete(r), Req[r].who \in Users, pc[r] = "200",
                      NEW t \in Named(r) \cap Lists[Req[r].who]
               PROVE  t \notin store[Req[r].who].members /\ (t \in Completed \/ CutOff(Req[r].who, t))
    BY DEF AcknowledgedTasksMoved
  <2>1. Moved(r, Len(Req[r].tasks)) /\ Req[r].tasks # None
    BY DEF DeleteInv, LoopMoves, Own
  <2>2. PICK i \in 1 .. Len(Req[r].tasks) : t = Req[r].tasks[i]
    BY <2>1, RequestKeys DEF Named
  <2>3. QED
    BY <2>1, <2>2 DEF Moved, Settled
<1>4. CalmInv => ServerSurvives
  BY DEF CalmInv, Calm, ServerSurvives
<1>5. AcknowledgedTasksMoved /\ ServerSurvives => PromisesAreKept
  BY DEF PromisesAreKept
<1>6. Spec => []MoveInv
  BY MoveInvariant
<1>7. QED
  BY <1>1, <1>2, <1>3, <1>4, <1>5, <1>6, PromisesInit, CalmInit, TypeInvariant, PostInvariant, PTL DEF Spec

-----------------------------------------------------------------------------
(***************************************************************************)
(* The connection of initRedis.js, for any number of calls and outages:    *)
(* types, a flag that has a client, and calls that wait for a client on    *)
(* its first way to Redis.                                                 *)
(*                                                                         *)
(* That no more clients are made than there are calls takes a count: each  *)
(* client was made by a call of its own.                                   *)
(***************************************************************************)
\* The calls that were made; every client belongs to one.
Calls == {r \in Callers : Called(r)}
ClientsAreCounted == client <= Cardinality(Calls)

\* Clients are numbered as they are made.
MadeInOrder == \A c \in Clients : c > client => link[c] = "unmade"

ConnectionIInv ==
    ConnectionTypeOK /\ ClientsAreCounted /\ MadeInOrder /\ FlagHasClient /\ WaitersWaitForConnect

LEMMA CallersCounted ==
    ASSUME NEW S \in SUBSET Callers
    PROVE  /\ Cardinality(Callers) \in Nat /\ IsFiniteSet(S)
           /\ Cardinality(S) \in Nat /\ Cardinality(S) <= Cardinality(Callers)
<1>1. IsFiniteSet(Callers)
  BY ConnectionAssumption
<1>. QED
  BY <1>1, FS_Subset, FS_CardinalityType

LEMMA InitOfConnection ==
    ASSUME ConnectionInit
    PROVE  ConnectionIInv
<1>1. Calls \in SUBSET Callers
  BY DEF Calls
<1>2. Cardinality(Callers) \in Nat /\ Cardinality(Calls) \in Nat
  BY <1>1, CallersCounted
<1>3. ConnectionTypeOK
  <2>1. connected \in BOOLEAN /\ up \in BOOLEAN
    BY Zenon DEF ConnectionInit
  <2>2. breaks \in 0 .. Breaks /\ client \in {0} \cup Clients
    BY ConnectionAssumption DEF ConnectionInit
  <2>3. link \in [Clients -> {"unmade", "connecting", "ready", "severed", "lost"}]
    BY DEF ConnectionInit
  <2>4. waits \in [Callers -> Clients \cup {NoClient}] /\ got \in [Callers -> Clients \cup {NoClient}]
    BY DEF ConnectionInit
  <2>. QED
    BY <2>1, <2>2, <2>3, <2>4 DEF ConnectionTypeOK
<1>. QED
  BY <1>2, <1>3 DEF ConnectionInit, ConnectionIInv, ClientsAreCounted, MadeInOrder, FlagHasClient, WaitersWaitForConnect

\* A call that finds the flag down makes the next client. It was not counted yet,
\* so there is a number left for it.
LEMMA GetConnectionKeeps ==
    ASSUME ConnectionIInv, NEW r \in Callers, getConnection(r)
    PROVE  ConnectionIInv'
<1>. USE DEF ConnectionIInv
<1>1. waits[r] = NoClient /\ got[r] = NoClient /\ UNCHANGED <<connected, up, breaks>>
  BY DEF getConnection, Called
<1>2. Calls \in SUBSET Callers /\ Calls' \in SUBSET Callers
  BY DEF Calls
<1>3. /\ Cardinality(Callers) \in Nat /\ Cardinality(Calls) \in Nat /\ IsFiniteSet(Calls)
      /\ Cardinality(Calls') \in Nat /\ Cardinality(Calls') <= Cardinality(Callers)
  BY <1>2, CallersCounted
<1>4. client \in Nat /\ client <= Cardinality(Calls) /\ NoClient \notin Nat
  BY <1>3, ConnectionAssumption DEF ConnectionTypeOK, ClientsAreCounted, Clients
<1>5. ASSUME \/ got' = [got EXCEPT ![r] = client] /\ waits' = waits
             \/ waits' = [waits EXCEPT ![r] = client + 1] /\ got' = got
      PROVE  Cardinality(Calls') = Cardinality(Calls) + 1
  <2>1. r \notin Calls /\ Calls' = Calls \cup {r}
    BY <1>1, <1>4, <1>5 DEF Calls, Called, ConnectionTypeOK
  <2>. QED
    BY <1>3, <2>1, FS_AddElement
<1>6. CASE connected /\ got' = [got EXCEPT ![r] = client] /\ UNCHANGED <<client, link, waits>>
  <2>1. PICK c \in Clients : link[c] \in {"ready", "severed"}
    BY <1>6 DEF FlagHasClient
  <2>2. client \in Clients
    BY <1>3, <1>4, <2>1 DEF MadeInOrder, Clients, ConnectionTypeOK
  <2>3. ConnectionTypeOK'
    BY <1>1, <1>6, <2>2 DEF ConnectionTypeOK
  <2>4. ClientsAreCounted'
    <3>1. got' = [got EXCEPT ![r] = client] /\ waits' = waits /\ client' = client
      BY <1>6
    <3>2. Cardinality(Calls') = Cardinality(Calls) + 1
      BY <1>5, <3>1
    <3>. QED
      BY <1>3, <1>4, <3>1, <3>2, SMT DEF ClientsAreCounted
  <2>5. MadeInOrder' /\ FlagHasClient' /\ WaitersWaitForConnect'
    BY <1>1, <1>6 DEF MadeInOrder, FlagHasClient, WaitersWaitForConnect
  <2>. QED
    BY <2>3, <2>4, <2>5
<1>7. CASE /\ ~connected /\ client' = client + 1 /\ link' = [link EXCEPT ![client + 1] = "connecting"]
           /\ waits' = [waits EXCEPT ![r] = client + 1] /\ UNCHANGED got
  <2>1. Cardinality(Calls') = Cardinality(Calls) + 1
    <3>1. waits' = [waits EXCEPT ![r] = client + 1] /\ got' = got
      BY <1>7
    <3>. QED
      BY <1>5, <3>1
  <2>2. client + 1 \in Clients
    BY <1>3, <1>4, <2>1 DEF Clients
  <2>3. ConnectionTypeOK'
    BY <1>1, <1>7, <2>2 DEF ConnectionTypeOK
  <2>4. ClientsAreCounted'
    BY <1>3, <1>4, <1>7, <2>1 DEF ClientsAreCounted
  <2>5. MadeInOrder'
    BY <1>4, <1>7, <2>2 DEF MadeInOrder, ConnectionTypeOK, Clients
  <2>6. FlagHasClient'
    BY <1>1, <1>7 DEF FlagHasClient
  <2>7. WaitersWaitForConnect'
    BY <1>7, <2>2 DEF WaitersWaitForConnect, ConnectionTypeOK
  <2>. QED
    BY <2>3, <2>4, <2>5, <2>6, <2>7
<1>. QED
  BY <1>6, <1>7 DEF getConnection

\* Whatever a client's events do, no call is forgotten or made.
LEMMA EventKeeps ==
    ASSUME ConnectionIInv, NEW c \in Clients, ready(c) \/ error(c)
    PROVE  ConnectionIInv'
<1>. USE DEF ConnectionIInv
<1>1. CASE ready(c)
  <2>1. /\ link[c] \in {"connecting", "lost"} /\ link' = [link EXCEPT ![c] = "ready"] /\ connected' = TRUE
        /\ got' = [r \in Callers |-> IF waits[r] = c THEN client ELSE got[r]]
        /\ waits' = [r \in Callers |-> IF waits[r] = c THEN NoClient ELSE waits[r]]
        /\ UNCHANGED <<client, up, breaks>>
    BY <1>1 DEF ready
  <2>2. client \in Nat /\ client \in Clients /\ NoClient \notin Nat
    <3>1. Cardinality(Callers) \in Nat
      BY CallersCounted
    <3>. QED
      BY <2>1, <3>1, ConnectionAssumption DEF MadeInOrder, ConnectionTypeOK, Clients
  <2>3. ConnectionTypeOK'
    BY <2>1, <2>2 DEF ConnectionTypeOK
  <2>4. Calls' = Calls
    BY <2>1, <2>2 DEF Calls, Called, ConnectionTypeOK, Clients
  <2>5. ClientsAreCounted' /\ MadeInOrder'
    BY <2>1, <2>4 DEF ClientsAreCounted, MadeInOrder, ConnectionTypeOK
  <2>6. FlagHasClient'
    BY <2>1 DEF FlagHasClient, ConnectionTypeOK
  <2>7. WaitersWaitForConnect'
    BY <2>1, <2>2 DEF WaitersWaitForConnect, ConnectionTypeOK
  <2>. QED
    BY <2>3, <2>5, <2>6, <2>7
<1>2. CASE error(c)
  <2>1. /\ (link' = [link EXCEPT ![c] = "lost"] /\ link[c] = "severed") \/ link' = link
        /\ connected' = FALSE /\ UNCHANGED <<client, waits, got, up, breaks>>
    BY <1>2 DEF error
  <2>2. ConnectionTypeOK'
    BY <2>1 DEF ConnectionTypeOK
  <2>3. ClientsAreCounted' /\ MadeInOrder' /\ FlagHasClient' /\ WaitersWaitForConnect'
    BY <2>1 DEF ClientsAreCounted, Calls, Called, MadeInOrder, FlagHasClient, WaitersWaitForConnect, ConnectionTypeOK
  <2>. QED
    BY <2>2, <2>3
<1>. QED
  BY <1>1, <1>2

\* An outage severs every socket, which no client knows yet.
LEMMA OutageKeeps ==
    ASSUME ConnectionIInv, RedisFails \/ RedisReturns
    PROVE  ConnectionIInv'
<1>. USE DEF ConnectionIInv
<1>1. UNCHANGED <<connected, client, waits, got>>
  BY DEF RedisFails, RedisReturns
<1>2. \A c \in Clients : link'[c] = link[c] \/ (link[c] = "ready" /\ link'[c] = "severed")
  <2>1. CASE RedisFails
    BY <2>1 DEF RedisFails
  <2>2. CASE RedisReturns
    BY <2>2 DEF RedisReturns
  <2>. QED
    BY <2>1, <2>2
<1>3. ConnectionTypeOK'
  <2>1. up' \in BOOLEAN
    BY Zenon DEF RedisFails, RedisReturns
  <2>2. breaks' \in 0 .. Breaks
    BY ConnectionAssumption DEF RedisFails, RedisReturns, ConnectionTypeOK
  <2>3. link' \in [Clients -> {"unmade", "connecting", "ready", "severed", "lost"}]
    BY DEF RedisFails, RedisReturns, ConnectionTypeOK
  <2>. QED
    BY <1>1, <2>1, <2>2, <2>3 DEF ConnectionTypeOK
<1>4. ClientsAreCounted' /\ MadeInOrder' /\ FlagHasClient' /\ WaitersWaitForConnect'
  BY <1>1, <1>2 DEF ClientsAreCounted, Calls, Called, MadeInOrder, FlagHasClient, WaitersWaitForConnect, ConnectionTypeOK
<1>. QED
  BY <1>3, <1>4

LEMMA ConnectionStep == ConnectionIInv /\ [ConnectionNext]_connectionVars => ConnectionIInv'
<1>. SUFFICES ASSUME ConnectionIInv, [ConnectionNext]_connectionVars PROVE ConnectionIInv'
  OBVIOUS
<1>1. CASE UNCHANGED connectionVars
  BY <1>1 DEF connectionVars, ConnectionIInv, ConnectionTypeOK, ClientsAreCounted, Calls, Called, MadeInOrder, FlagHasClient,
              WaitersWaitForConnect
<1>. QED
  BY <1>1, GetConnectionKeeps, EventKeeps, OutageKeeps DEF ConnectionNext

-----------------------------------------------------------------------------
\* However many calls meet however many outages (initRedis.getConnection and the
\* events of every client it made): there is a client for each number handed out,
\* the flag stands only while some client believes itself connected, and a call
\* waits only for one that has never been ready, so that none waits for ever.
THEOREM FlagAndWaiters == ConnectionSpec => []ConnectionInv
<1>1. ConnectionInit => ConnectionIInv
  BY InitOfConnection
<1>2. ConnectionIInv /\ [ConnectionNext]_connectionVars => ConnectionIInv'
  BY ConnectionStep
<1>3. ConnectionIInv => ConnectionInv
  BY DEF ConnectionIInv, ConnectionInv
<1>. QED
  BY <1>1, <1>2, <1>3, PTL DEF ConnectionSpec
==============================================================================
