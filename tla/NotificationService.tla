------------------------- MODULE NotificationService -------------------------
(***************************************************************************)
(* TodoNotificationService: the loops that check the todo lists, the cache *)
(* of what was notified, and the service's life among the activity's, the  *)
(* process's and the system's.                                             *)
(*                                                                         *)
(* Time is counted in periods of the loop; a loop may run late but not     *)
(* early.  All handlers run on the main thread, a step each.  Objects of a *)
(* stopped service live on in the loops it posted, until the process dies. *)
(***************************************************************************)
EXTENDS ContextScore

CONSTANTS
    TestMode,   \* isTestMode; TRUE in the source
    Todos,      \* Todos[k]: the todos of preference file k
    Readings,   \* the minute of each period of a day, a sequence
    Positions,  \* where the watch may be: pairs of latitude and longitude
    Loads,      \* what isHighCognitiveLoad may come to answer, FALSE at least
    Faults,     \* what happens: "kill" of the process, "revoke", "stop"
    MaxLoops,   \* how many loops a process may collect
    None        \* no user, no database

Kinds == {"personal", "group"}
Items == UNION {{Todos[k][i] : i \in DOMAIN Todos[k]} : k \in Kinds}
Titles == {item.title : item \in Items}
Periods == Len(Readings)
Ages == 0 .. Periods

ASSUME NotificationAssumption ==
    /\ \A k \in Kinds : Todos[k] \in Seq(Items)
    /\ \A item \in Items : item.priority \in {"LOW", "MEDIUM", "HIGH"}
    /\ Readings \in Seq(Minutes) /\ Readings # <<>>
    /\ <<0, 0>> \in Positions /\ Loads \subseteq BOOLEAN
    /\ TestMode \in BOOLEAN /\ MaxLoops \in Nat /\ None \notin Kinds \cup {"user"}

VARIABLES
    period,     \* the current period of the day
    alive,      \* is the process running?
    activity,   \* "none", "resumed" or "left"
    manager,    \* the user of UserManager
    posts,      \* is POST_NOTIFICATIONS granted?
    database,   \* TodoDatabase.instance: its preference file
    wanted,     \* will the system restart the service (START_STICKY)?
    service,    \* the running service, an index of instances; 0 if none runs
    instances,  \* the service objects of this process
    loops,      \* the Runnables its handlers run again and again
    done,       \* titles checked off
    stamp,      \* stamp[t]: age of t's entry in todo_notifications, at most a day
    disk,       \* the same as a new process would load it
    shown,      \* shown[t]: age of t's last notification, at most a day (history)
    again       \* titles notified twice within a day (history)

timeVars == <<period, shown, again>>
cacheVars == <<stamp, disk>>
serviceVars == <<wanted, service, instances, loops>>
appVars == <<alive, activity, manager, posts, database, done>>
vars == <<timeVars, cacheVars, serviceVars, appVars>>

\* The entries of the maps in the order they are stored.
TimeOrder == <<"before_working", "working", "rest", "sleep">>
PlaceOrder == <<"home", "school", "store">>
Contexts == [i \in 1 .. Periods |-> mapTimeToContext(TimeOrder, Readings[i])]
Context == Contexts[period]
Places == [p \in Positions |-> mapLocationToPlace(PlaceOrder, p[1], p[2])]

Old == [t \in Titles |-> Periods]

Init ==
    /\ period \in 1 .. Periods
    /\ alive = FALSE
    /\ activity = "none"
    /\ manager = None
    /\ posts = FALSE
    /\ database = None
    /\ wanted = FALSE
    /\ service = 0
    /\ instances = <<>>
    /\ loops = <<>>
    /\ done = {}
    /\ stamp = Old
    /\ disk = Old
    /\ shown = Old
    /\ again = {}

-----------------------------------------------------------------------------
(***************************************************************************)
(* The process, the activity and the system (external but for onResume).   *)
(***************************************************************************)
\* The process ends, and a sticky service is restarted some time later.
Die ==
    /\ alive' = FALSE
    /\ activity' = "none"
    /\ manager' = None
    /\ database' = None
    /\ service' = 0
    /\ instances' = <<>>
    /\ loops' = <<>>
    /\ stamp' = disk
    /\ UNCHANGED <<wanted, disk, done>>

\* TodoDatabase.getInstance: the key counts for the first caller only.
getInstance(key) == IF database = None THEN key ELSE database

\* onCreate, unless the service runs, and onStartCommand.
StartService(user) ==
    LET first == getInstance("personal")
        created == [user |-> user, at |-> <<0, 0>>, asked |-> TRUE, load |-> FALSE,
                    files |-> <<first, first>>]
    IN  /\ Len(loops) < MaxLoops
        /\ wanted' = TRUE
        /\ IF service = 0
           THEN /\ instances' = Append(instances, created)
                /\ service' = Len(instances) + 1
                /\ database' = first
           ELSE UNCHANGED <<instances, service, database>>
        /\ loops' = Append(loops, [inst |-> service', state |-> "posted"])

\* onResume, in a new activity or the one that was left.  Without the
\* permission the service is not started but the permission asked for.
Resume ==
    /\ activity # "resumed"
    /\ activity' = "resumed"
    /\ alive' = TRUE
    /\ manager' = "user"
    /\ \/ posts /\ StartService("user")
       \/ ~posts /\ UNCHANGED <<serviceVars, database>>
    /\ UNCHANGED <<timeVars, cacheVars, posts, done>>

\* The dialog is answered; the activity was paused for it and resumes.
Grant ==
    /\ activity = "resumed"
    /\ ~posts
    /\ posts' = TRUE
    /\ activity' = "left"
    /\ UNCHANGED <<timeVars, cacheVars, serviceVars, alive, manager, database, done>>

Leave ==
    /\ activity = "resumed"
    /\ activity' = "left"
    /\ UNCHANGED <<timeVars, cacheVars, serviceVars, alive, manager, posts, database, done>>

\* Taking a permission back kills the process.
Revoke ==
    /\ "revoke" \in Faults
    /\ posts
    /\ posts' = FALSE
    /\ Die
    /\ UNCHANGED timeVars

Kill ==
    /\ "kill" \in Faults
    /\ alive
    /\ Die
    /\ UNCHANGED <<timeVars, posts>>

\* In the background the system stops a service for good: onDestroy only
\* unregisters the sensors.
StopService ==
    /\ "stop" \in Faults
    /\ activity # "resumed"
    /\ service # 0
    /\ service' = 0
    /\ wanted' = FALSE
    /\ UNCHANGED <<timeVars, cacheVars, instances, loops, appVars>>

\* A service that was running when its process died is started again, in a
\* process of its own or in the one the activity has started meanwhile.
StickyRestart ==
    /\ wanted
    /\ service = 0
    /\ alive' = TRUE
    /\ StartService(manager)
    /\ UNCHANGED <<timeVars, cacheVars, activity, manager, posts, done>>

\* The user checks a todo off.
CheckTodo(t) ==
    /\ activity = "resumed"
    /\ t \notin done
    /\ done' = done \cup {t}
    /\ UNCHANGED <<timeVars, cacheVars, serviceVars, alive, activity, manager, posts, database>>

\* apply()'s write of the cache.
SaveCache ==
    /\ disk # stamp
    /\ disk' = stamp
    /\ UNCHANGED <<timeVars, stamp, serviceVars, appVars>>

\* A period passes; the handler's delays have run out.
Older(ages) == [t \in Titles |-> IF ages[t] < Periods THEN ages[t] + 1 ELSE Periods]
Tick ==
    /\ period' = IF period < Periods THEN period + 1 ELSE 1
    /\ stamp' = Older(stamp)
    /\ disk' = Older(disk)
    /\ shown' = Older(shown)
    /\ loops' = [l \in DOMAIN loops |-> [loops[l] EXCEPT !.state = "due"]]
    /\ UNCHANGED <<again, wanted, service, instances, appVars>>

-----------------------------------------------------------------------------
(***************************************************************************)
(* The service.                                                            *)
(***************************************************************************)
\* A location fix or a sensor event; a stopped service hears no sensors.
Fix(i, p) ==
    /\ instances[i].asked
    /\ instances' = [instances EXCEPT ![i].at = p, ![i].asked = FALSE]
    /\ UNCHANGED <<timeVars, cacheVars, wanted, service, loops, appVars>>
onSensorChanged(load) ==
    /\ service # 0
    /\ instances[service].load # load
    /\ instances' = [instances EXCEPT ![service].load = load]
    /\ UNCHANGED <<timeVars, cacheVars, wanted, service, loops, appVars>>

\* The todos the service reads, of both its databases, and the positions of
\* those that are not done.
AllItems(inst) == Todos[inst.files[1]] \o Todos[inst.files[2]]
NotDoneItems(inst) == {i \in DOMAIN AllItems(inst) : AllItems(inst)[i].title \notin done}

\* Sorting compares as soon as there are two; it needs the user and a context.
SortThrows(inst) ==
    Cardinality(NotDoneItems(inst)) > 1 /\ (inst.user = None \/ Context = Throws)

\* What sortNotDoneItems puts first: the comparator puts it before all others.
TopTitle(inst) ==
    LET first == CHOOSE i \in NotDoneItems(inst) : \A j \in NotDoneItems(inst) \ {i} :
                     Before(AllItems(inst), Places[inst.at], Context, i, j)
    IN  AllItems(inst)[first].title

Cached(t) == ~TestMode /\ stamp[t] < Periods

\* Mutated form: nothing is shown while the user looks at the lists.
sendNotification_Background(t) ==
    IF posts /\ activity # "resumed"
    THEN /\ shown' = [shown EXCEPT ![t] = 0]
         /\ again' = IF shown[t] < Periods THEN again \cup {t} ELSE again
    ELSE UNCHANGED <<shown, again>>

\* sendNotification: without the permission nothing is shown.
sendNotification(t) ==
    IF posts
    THEN /\ shown' = [shown EXCEPT ![t] = 0]
         /\ again' = IF shown[t] < Periods THEN again \cup {t} ELSE again
    ELSE UNCHANGED <<shown, again>>

\* The rest of getTopTodoItem: outside test mode the cache is stamped first.
Notify(t) ==
    /\ stamp' = IF TestMode THEN stamp ELSE [stamp EXCEPT ![t] = 0]
    /\ sendNotification(t)

\* Mutated form: the Runnable does not post itself again.
Check_Once(l) ==
    LET inst == instances[loops[l].inst]
    IN  /\ loops[l].state = "due"
        /\ ~SortThrows(inst)
        /\ IF NotDoneItems(inst) = {} THEN UNCHANGED <<stamp, shown, again>>
           ELSE Notify(TopTitle(inst))
        /\ loops' = [m \in 1 .. (Len(loops) - 1) |-> loops[IF m < l THEN m ELSE m + 1]]
        /\ UNCHANGED <<period, disk, wanted, service, instances, appVars>>

\* Runnable.run: the todo on top is notified unless the load is high or the
\* cache knows it, and the Runnable posts itself again.
Check(l) ==
    LET inst == instances[loops[l].inst]
        open == NotDoneItems(inst)
    IN  /\ loops[l].state = "due"
        /\ \/ /\ TestMode \/ ~inst.load
              /\ SortThrows(inst)
              /\ Die
              /\ UNCHANGED <<timeVars, posts>>
           \/ /\ \/ /\ ~TestMode
                    /\ inst.load
                    /\ UNCHANGED <<stamp, shown, again>>
                 \/ /\ TestMode \/ ~inst.load
                    /\ ~SortThrows(inst)
                    /\ IF open = {} \/ Cached(TopTitle(inst))
                       THEN UNCHANGED <<stamp, shown, again>>
                       ELSE Notify(TopTitle(inst))
              /\ loops' = [loops EXCEPT ![l].state = "checked"]
              /\ \E asked \in {instances[loops[l].inst].asked, TRUE} :
                    instances' = [instances EXCEPT ![loops[l].inst].asked = asked]
              /\ UNCHANGED <<period, disk, wanted, service, appVars>>

Next ==
    \/ Resume
    \/ Grant
    \/ Leave
    \/ Revoke
    \/ Kill
    \/ StopService
    \/ StickyRestart
    \/ \E t \in Titles : CheckTodo(t)
    \/ SaveCache
    \/ Tick
    \/ \E i \in DOMAIN instances : \E p \in Positions : Fix(i, p)
    \/ \E load \in Loads : onSensorChanged(load)
    \/ \E l \in DOMAIN loops : Check(l)

Spec == Init /\ [][Next]_vars

\* Time passes, and the main looper runs what is due.
Fairness ==
    /\ WF_vars(Tick)
    /\ \A l \in 1 .. MaxLoops : WF_vars(l \in DOMAIN loops /\ Check(l))
FairSpec == Spec /\ Fairness

-----------------------------------------------------------------------------
(***************************************************************************)
(* Properties.                                                             *)
(***************************************************************************)
Instance == [user : {"user", None}, at : Positions, asked : BOOLEAN, load : BOOLEAN,
             files : Kinds \X Kinds]
Loop == [inst : Nat \ {0}, state : {"posted", "due", "checked"}]

\* Every variable stays within its type, loops run for objects of the living
\* process, and a dead process has neither service nor loops.
NotificationTypeOK ==
    /\ period \in 1 .. Periods
    /\ alive \in BOOLEAN
    /\ activity \in {"none", "resumed", "left"}
    /\ manager \in {"user", None}
    /\ posts \in BOOLEAN
    /\ database \in Kinds \cup {None}
    /\ wanted \in BOOLEAN
    /\ instances \in Seq(Instance)
    /\ service \in 0 .. Len(instances)
    /\ loops \in Seq(Loop)
    /\ \A l \in DOMAIN loops : loops[l].inst <= Len(instances)
    /\ done \subseteq Titles
    /\ stamp \in [Titles -> Ages]
    /\ disk \in [Titles -> Ages]
    /\ shown \in [Titles -> Ages]
    /\ again \subseteq Titles
    /\ ~alive => activity = "none" /\ manager = None /\ instances = <<>>

\* "Notify only if this item has not been notified in the last 24 hours": also
\* when several loops check, of services old and new.
NotTwiceADay == again = {}

\* A todo the cache keeps from being notified was shown no earlier than that:
\* the cache never swallows a reminder.
StampedWereShown == \A t \in Titles : stamp[t] < Periods => shown[t] <= stamp[t]

\* With the cache on, no todo is notified twice within a day, whatever loops of
\* old and new services run beside each other; a todo is in the cache only when
\* it was shown; and loops never outlive their process.
NotificationInv ==
    /\ NotificationTypeOK
    /\ StampedWereShown
    /\ NotTwiceADay

\* "Continue checking every 1 minutes": a period sees one check.
OneCheckAPeriod ==
    \A l, m \in DOMAIN loops :
        loops[l].state = "checked" /\ loops[m].state = "checked" => l = m

\* In test mode, a service that may notify and has an open personal todo goes
\* on reminding: also when the system stops it, until the process ends.
PersonalOpen == \E i \in DOMAIN Todos["personal"] : Todos["personal"][i].title \notin done
RemindersGoOn ==
    service # 0 /\ posts /\ PersonalOpen
        ~> \/ \E t \in Titles : shown[t] = 0
           \/ ~alive
           \/ ~PersonalOpen
=============================================================================
