------------------------------- MODULE RestApi -------------------------------
(***************************************************************************)
(* The REST API: the handlers of watchController and echoController over   *)
(* one Redis.                                                              *)
(*                                                                         *)
(* Node runs one handler at a time and switches only where a handler       *)
(* awaits, so an action is what a handler does from one await to the next: *)
(* it takes up the reply to its last command and issues the next one.      *)
(* Redis executes commands in the order they are issued, which is why a    *)
(* command takes effect with the action that issues it while its reply is  *)
(* taken up later.  A handler that throws or whose command is refused      *)
(* rejects its promise; nothing catches it, and Node exits.                *)
(*                                                                         *)
(* Handlers share one client here, so that their commands keep one order;  *)
(* RedisConnection has the clients and shows getConnection always returns  *)
(* one (connect() retries rather than throw, so null is never returned).   *)
(***************************************************************************)
EXTENDS Integers, Sequences

CONSTANTS
    Requests,   \* the requests clients send
    Req,        \* Req[r]: its method, whom it names, and the tasks of its body
    Users,      \* users of the watch route
    Tasks,
    Lists,      \* Lists[u]: the set of tasks another program stored for u
    Overlap,    \* may two DELETE requests be in progress at once?
    Faults,     \* what may go wrong: "kill" (the process), "outage" (of Redis)
    None        \* a body without tasks; a variable not assigned

\* The keys of postUsersTodos and of deleteUserTasks.
Keys == Users \cup {"123", "team4", "completed"}
Methods == {"GET", "DELETE", "POST", "COMPLETED"}

ASSUME RestAssumption ==
    /\ Req \in [Requests -> [method : Methods, who : STRING,
                             tasks : {None} \cup Seq(Tasks)]]
    /\ \A r \in Requests :
          /\ Req[r].method \in {"GET", "DELETE"} => Req[r].who \in Keys
          /\ Req[r].method = "POST" => Req[r].tasks # None /\ Len(Req[r].tasks) = 1
    /\ Users \cap {"123", "team4", "completed"} = {}
    /\ Lists \in [Users -> SUBSET Tasks]
    /\ Overlap \in BOOLEAN
    /\ Faults \subseteq {"kill", "outage"}
    /\ None \notin Tasks \cup Seq(Tasks) \cup {"yes", "no", "error"}

VARIABLES
    faults,     \* fixed: what goes wrong, Faults or nothing
    alive,      \* is the Node process running?
    task,       \* the undeclared, hence global, loop variable of deleteUserTasks
    pc,         \* pc[r]: "new", the call r awaits, or how r was answered
    at,         \* at[r]: position of r's current task
    reply,      \* reply[r]: what Redis will answer, or has answered, r
    store       \* store[key]: the value Redis holds

vars == <<faults, alive, task, pc, at, reply, store>>

Awaits == {"connect", "exists", "sIsMember", "sRem", "sAdd", "hSet", "hGetAll"}
Answers == {"200", "404", "reset"}
Open(r) == pc[r] \in Awaits
NotSet == [type |-> "none", members |-> {}]
Value(type, S) == IF S = {} THEN NotSet ELSE [type |-> type, members |-> S]

Init ==
    /\ faults \in {{}, Faults}
    /\ alive = TRUE
    /\ task = None
    /\ pc = [r \in Requests |-> "new"]
    /\ at = [r \in Requests |-> 0]
    /\ reply = [r \in Requests |-> None]
    /\ store = [key \in Keys |->
                   IF key \in Users THEN Value("set", Lists[key]) ELSE NotSet]

-----------------------------------------------------------------------------
(***************************************************************************)
(* The process and its Redis.                                              *)
(***************************************************************************)
\* Mutated form: requests in progress are forgotten rather than reset.
Die_Silent ==
    /\ alive' = FALSE
    /\ task' = None
    /\ UNCHANGED <<pc, at, reply, store>>

\* The process exits: clients in progress see their connection reset.
Die ==
    /\ alive' = FALSE
    /\ task' = None
    /\ pc' = [r \in Requests |-> IF Open(r) THEN "reset" ELSE pc[r]]
    /\ at' = [r \in Requests |-> 0]
    /\ reply' = [r \in Requests |-> None]
    /\ UNCHANGED store

\* r issues a command and awaits it.  In an outage the command is refused,
\* before or after Redis executed it.
Call(r, command, answer, value) ==
    /\ pc' = [pc EXCEPT ![r] = command]
    /\ \/ store' = value
          /\ reply' = [reply EXCEPT ![r] = answer]
       \/ "outage" \in faults
          /\ store' \in {store, value}
          /\ reply' = [reply EXCEPT ![r] = "error"]

\* A command meant for another type of value is refused (WRONGTYPE).
Refused(key, type) == store[key].type \notin {"none", type}

Exists(r, key) ==
    Call(r, "exists", IF store[key] = NotSet THEN "no" ELSE "yes", store)

Update(r, command, key, type, S) ==
    IF Refused(key, type) THEN Call(r, command, "error", store)
    ELSE Call(r, command, "yes", [store EXCEPT ![key] = Value(type, S)])

Respond(r, status) ==
    /\ pc' = [pc EXCEPT ![r] = status]
    /\ reply' = [reply EXCEPT ![r] = None]
    /\ at' = [at EXCEPT ![r] = 0]
    /\ UNCHANGED store

\* r's handler runs on, with the reply it awaited.
Resume(r, method, command) ==
    /\ alive
    /\ Req[r].method = method
    /\ pc[r] = command
    /\ reply[r] # "error"

\* A rejected promise that nobody catches ends the process.
Rejected(r) ==
    /\ alive
    /\ Open(r)
    /\ reply[r] = "error"
    /\ Die

Kill ==
    /\ "kill" \in faults
    /\ alive
    /\ Die

Restart ==
    /\ ~alive
    /\ alive' = TRUE
    /\ UNCHANGED <<task, pc, at, reply, store>>

\* A request is routed to its handler, which awaits the connection.
Receive(r) ==
    /\ alive
    /\ pc[r] = "new"
    /\ Req[r].method = "DELETE" /\ ~Overlap =>
          ~\E q \in Requests : Req[q].method = "DELETE" /\ Open(q)
    /\ pc' = [pc EXCEPT ![r] = "connect"]
    /\ UNCHANGED <<alive, task, at, reply, store>>

-----------------------------------------------------------------------------
(***************************************************************************)
(* watchController.                                                        *)
(***************************************************************************)
\* The route names its parameter `user` and the handler reads `userId`: the
\* client library refuses the undefined key, and the handler ends there.
getUserTasks(r) ==
    /\ Resume(r, "GET", "connect")
    /\ Die

deleteUserTasks(r) ==
    /\ Resume(r, "DELETE", "connect")
    /\ Exists(r, Req[r].who)
    /\ UNCHANGED <<alive, task, at>>

\* Mutated form: the loop stops before the last task.
NextTask_Short(r, i) ==
    LET tasks == Req[r].tasks
    IN  \/ /\ i >= Len(tasks)
           /\ Respond(r, "200")
           /\ UNCHANGED task
        \/ /\ i < Len(tasks)
           /\ task' = tasks[i]
           /\ at' = [at EXCEPT ![r] = i]
           /\ IF Refused(Req[r].who, "set") THEN Call(r, "sIsMember", "error", store)
              ELSE Call(r, "sIsMember",
                        IF tasks[i] \in store[Req[r].who].members THEN "yes" ELSE "no",
                        store)

\* The head of `for (task of tasks)`: task i is checked, or the loop is over.
NextTask(r, i) ==
    LET tasks == Req[r].tasks
    IN  \/ /\ i > Len(tasks)
           /\ Respond(r, "200")
           /\ UNCHANGED task
        \/ /\ i <= Len(tasks)
           /\ task' = tasks[i]
           /\ at' = [at EXCEPT ![r] = i]
           /\ IF Refused(Req[r].who, "set") THEN Call(r, "sIsMember", "error", store)
              ELSE Call(r, "sIsMember",
                        IF tasks[i] \in store[Req[r].who].members THEN "yes" ELSE "no",
                        store)

FoundUser(r) ==
    /\ Resume(r, "DELETE", "exists")
    /\ \/ /\ reply[r] = "no"
          /\ Respond(r, "404")
          /\ UNCHANGED <<alive, task>>
       \/ /\ reply[r] = "yes"
          /\ Req[r].tasks = None    \* `undefined` is not iterable
          /\ Die
       \/ /\ reply[r] = "yes"
          /\ Req[r].tasks # None
          /\ NextTask(r, 1)
          /\ UNCHANGED alive

\* Mutated form: a task is moved without a look at the reply.
CheckedMember_Always(r) ==
    /\ Resume(r, "DELETE", "sIsMember")
    /\ Update(r, "sRem", Req[r].who, "set", store[Req[r].who].members \ {task})
    /\ UNCHANGED <<alive, task, at>>
CheckedMember(r) ==
    /\ Resume(r, "DELETE", "sIsMember")
    /\ \/ /\ reply[r] = "yes"
          /\ Update(r, "sRem", Req[r].who, "set", store[Req[r].who].members \ {task})
          /\ UNCHANGED <<task, at>>
       \/ /\ reply[r] = "no"
          /\ NextTask(r, at[r] + 1)
    /\ UNCHANGED alive

\* Mutated form: a removed task is registered nowhere.
Removed_Unregistered(r) ==
    /\ Resume(r, "DELETE", "sRem")
    /\ NextTask(r, at[r] + 1)
    /\ UNCHANGED alive

Removed(r) ==
    /\ Resume(r, "DELETE", "sRem")
    /\ Update(r, "sAdd", "completed", "set", store["completed"].members \cup {task})
    /\ UNCHANGED <<alive, task, at>>

Added(r) ==
    /\ Resume(r, "DELETE", "sAdd")
    /\ NextTask(r, at[r] + 1)
    /\ UNCHANGED alive

-----------------------------------------------------------------------------
(***************************************************************************)
(* echoController.                                                         *)
(***************************************************************************)
TodoKey(assignee) == IF assignee = "Will" THEN "123" ELSE "team4"

postUsersTodos(r) ==
    /\ Resume(r, "POST", "connect")
    /\ Exists(r, TodoKey(Req[r].who))
    /\ UNCHANGED <<alive, task, at>>

\* Mutated form: hSet is not awaited.
FoundKey_NotAwaited(r) ==
    /\ Resume(r, "POST", "exists")
    /\ pc' = [pc EXCEPT ![r] = "200"]
    /\ LET key == TodoKey(Req[r].who)
       IN  \/ store' = [store EXCEPT ![key] =
                           Value("hash", store[key].members \cup {Req[r].tasks[1]})]
           \/ "outage" \in faults /\ store' = store
    /\ UNCHANGED <<alive, task, at, reply>>

\* Both branches set the field of the task, new or not.
FoundKey(r) ==
    /\ Resume(r, "POST", "exists")
    /\ LET key == TodoKey(Req[r].who)
       IN  Update(r, "hSet", key, "hash", store[key].members \cup {Req[r].tasks[1]})
    /\ UNCHANGED <<alive, task, at>>

Inserted(r) ==
    /\ Resume(r, "POST", "hSet")
    /\ Call(r, "hGetAll", "yes", store)
    /\ UNCHANGED <<alive, task, at>>

Logged(r) ==
    /\ Resume(r, "POST", "hGetAll")
    /\ Respond(r, "200")
    /\ UNCHANGED <<alive, task>>

getCompletedTodos(r) ==
    /\ Resume(r, "COMPLETED", "connect")
    /\ Respond(r, "200")
    /\ UNCHANGED <<alive, task>>

Handle(r) ==
    \/ getUserTasks(r)
    \/ deleteUserTasks(r)
    \/ FoundUser(r)
    \/ CheckedMember(r)
    \/ Removed(r)
    \/ Added(r)
    \/ postUsersTodos(r)
    \/ FoundKey(r)
    \/ Inserted(r)
    \/ Logged(r)
    \/ getCompletedTodos(r)
    \/ Rejected(r)

Next ==
    /\ \/ \E r \in Requests : Receive(r) \/ Handle(r)
       \/ Kill
       \/ Restart
    /\ UNCHANGED faults

Spec == Init /\ [][Next]_vars

\* Redis answers or refuses every command, and Node serves its replies; nothing
\* restarts the process (docker-compose.yml names no restart policy).
FairSpec == Spec /\ WF_vars(\E r \in Requests : Handle(r) /\ UNCHANGED faults)

-----------------------------------------------------------------------------
(***************************************************************************)
(* Properties.                                                             *)
(***************************************************************************)
Containers == [type : {"none", "set", "hash"}, members : SUBSET Tasks]

\* Every variable stays within its type, Redis holds no empty container, and a
\* dead process handles nothing.
RestTypeOK ==
    /\ faults \in {{}, Faults}
    /\ alive \in BOOLEAN
    /\ task \in Tasks \cup {None}
    /\ pc \in [Requests -> {"new"} \cup Awaits \cup Answers]
    /\ at \in [Requests -> Nat]
    /\ reply \in [Requests -> {None, "yes", "no", "error"}]
    /\ store \in [Keys -> Containers]
    /\ \A key \in Keys : store[key].members = {} <=> store[key].type = "none"
    /\ ~alive => task = None /\ \A r \in Requests : ~Open(r)

Named(r) ==
    IF Req[r].tasks = None THEN {} ELSE {Req[r].tasks[i] : i \in DOMAIN Req[r].tasks}
Delete(r) == Req[r].method = "DELETE"
Completed == store["completed"].members

\* A DELETE for u that named t was cut off when the process ended.
CutOff(u, t) == \E r \in Requests : Delete(r) /\ Req[r].who = u /\ t \in Named(r) /\ pc[r] = "reset"

\* "Your tasks are registered to be completed.": once a DELETE is answered so,
\* every listed task it named has left the user's list, and for the completed
\* ones, unless a DELETE that named it as well was cut off.
AcknowledgedTasksMoved ==
    \A r \in Requests : Delete(r) /\ Req[r].who \in Users /\ pc[r] = "200" =>
        \A t \in Named(r) \cap Lists[Req[r].who] :
            /\ t \notin store[Req[r].who].members
            /\ t \in Completed \/ CutOff(Req[r].who, t)

\* Only tasks that were on somebody's list are ever registered as completed.
CompletedWereListed == Completed \subseteq UNION {Lists[u] : u \in Users}

\* A task leaves a user's list only if a DELETE for that user named it.
UnnamedStay ==
    \A u \in Users : \A t \in Lists[u] :
        \/ t \in store[u].members
        \/ \E r \in Requests : Delete(r) /\ Req[r].who = u /\ t \in Named(r)

\* A todo whose POST was answered with 200 is stored for good, whatever runs
\* beside it and whatever fails afterwards.
PostsSurvive ==
    \A r \in Requests : Req[r].method = "POST" /\ pc[r] = "200" =>
        Named(r) \subseteq store[TodoKey(Req[r].who)].members

\* No well-formed request brings the process down.
WellFormed(r) ==
    /\ Req[r].method # "GET"
    /\ Delete(r) => Req[r].who \in Users /\ Req[r].tasks # None
ServerSurvives == faults = {} /\ (\A r \in Requests : pc[r] # "new" => WellFormed(r)) => alive

\* What the API promises of one DELETE at a time, whatever fails.
PromisesAreKept == AcknowledgedTasksMoved /\ ServerSurvives

\* A GET for a user Redis knows nothing of is answered with 404.
UnknownUserGets404 ==
    \A r \in Requests :
        /\ Req[r].method = "GET"
        /\ store[Req[r].who] = NotSet
        /\ pc[r] \in Answers
        => pc[r] = "404"

\* Every request taken in is answered, if only by a reset connection.
EveryRequestAnswered ==
    \A r \in Requests : pc[r] = "connect" ~> pc[r] \in Answers

\* One DELETE at a time: tasks move from a list to the completed ones in one
\* step, and are lost only by the exit of the process.  A task counts as
\* listed until it is registered as completed.
InFlight(u) ==
    {t \in Tasks \ Completed : t = task /\ \E r \in Requests :
        Delete(r) /\ Req[r].who = u /\ pc[r] \in {"sRem", "sAdd"}}
Ledger == INSTANCE TaskLedger WITH
    lists <- [u \in Users |-> store[u].members \cup InFlight(u)],
    completed <- Completed,
    up <- alive
TasksAreAccounted == Ledger!Spec

\* What is completed was listed and asked for, and what nobody named stays.
OnlyNamedTasksMove == CompletedWereListed /\ UnnamedStay
=============================================================================
