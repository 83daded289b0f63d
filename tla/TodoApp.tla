------------------------------- MODULE TodoApp -------------------------------
(***************************************************************************)
(* The watch application's todo lists: MainActivity's creation sequence,   *)
(* the two pages of its pager, the check boxes of FilteredTodoFragment and *)
(* the preference files (UserData, TodoDatabase) they read and write.      *)
(*                                                                         *)
(* Everything here runs on the main thread except the write-behind of      *)
(* SharedPreferences.apply(), and the process may die between any two      *)
(* steps.  A todo is a title and a done flag: priority, place, time and    *)
(* assignee only decide the order of a page (module ContextScore).         *)
(***************************************************************************)
EXTENDS Integers, Sequences

CONSTANTS
    Titles,     \* what a todo can be called
    Seed,       \* Seed[k]: titles the first launch puts into list k
    UserIds,    \* the ids createUser may draw
    Times,      \* the clock readings told apart
    BadTimes,   \* readings in a range whose key names no Time constant
    Epoch,      \* the reading of 0 ms, a fragment's `time` until a fix comes
    Drags,      \* may the pages be swiped, as well as selected by tab?
    None        \* no user, no fragment

Kinds == {"personal", "group"}
Files == Kinds \cup {"user"}
Pages == {0, 1}
Todo == [title : Titles, done : BOOLEAN]

ASSUME ConstantsAssumption ==
    /\ Seed \in [Kinds -> Seq(Titles)]
    /\ \A k \in Kinds : \A i, j \in DOMAIN Seed[k] :
          Seed[k][i] = Seed[k][j] => i = j
    /\ Epoch \in Times
    /\ BadTimes \subseteq Times
    /\ Drags \in BOOLEAN
    /\ None \notin UserIds

VARIABLES
    stage,      \* where the process is: dead, in onCreate, showing, stopped...
    saved,      \* does the system hold saved instance state with fragments?
    mem,        \* mem[f]: preference file f as the process sees it
    disk,       \* disk[f]: preference file f as a new process would load it
    writes,     \* files handed to the disk-write thread, oldest first
    user,       \* the user of UserManager
    todos,      \* onCreate: the todos a fetch still writes to its database...
    next,       \* ... and the position of the next one
    items,      \* items[k]: the list object personalTodoItems / groupTodoItems
    adapter,    \* TodoPageAdapter: the list and the database it hands out
    current,    \* ViewPager2's current page
    frag        \* frag[p]: the fragment of page p, None before it is created

prefVars == <<mem, disk, writes>>
fetchVars == <<todos, next, items>>
pageVars == <<adapter, current, frag>>
vars == <<stage, saved, prefVars, user, fetchVars, pageVars>>

NewTodo(t) == [title |-> t, done |-> FALSE]
NoLists == [k \in Kinds |-> <<>>]
NoFragments == [p \in Pages |-> None]
KindOf(p) == IF p = 0 THEN "personal" ELSE "group"

\* `new TodoPageAdapter(...)`: what it holds before any page is selected.
Adapter(k) == [list |-> k, db |-> k]

Init ==
    /\ stage = "dead"
    /\ saved = FALSE
    /\ mem = [f \in Files |-> IF f = "user" THEN None ELSE <<>>]
    /\ disk = mem
    /\ writes = <<>>
    /\ user = None
    /\ todos = <<>>
    /\ next = 1
    /\ items = NoLists
    /\ adapter = Adapter("personal")
    /\ current = 0
    /\ frag = NoFragments

-----------------------------------------------------------------------------
(***************************************************************************)
(* SharedPreferences (external).  apply() changes the in-memory map at     *)
(* once and queues a disk write.  One thread serves the queue in order and *)
(* skips a write that a later one to the same file supersedes.             *)
(***************************************************************************)
\* Mutated form: the queued write is forgotten.
Apply_Unqueued(f, content) ==
    /\ mem' = [mem EXCEPT ![f] = content]
    /\ UNCHANGED <<disk, writes>>

Apply(f, content) ==
    /\ mem' = [mem EXCEPT ![f] = content]
    /\ writes' = Append(writes, f)
    /\ UNCHANGED disk

WriteDisk ==
    /\ writes # <<>>
    /\ writes' = Tail(writes)
    /\ disk' = IF \E n \in 2 .. Len(writes) : writes[n] = Head(writes)
               THEN disk
               ELSE [disk EXCEPT ![Head(writes)] = mem[Head(writes)]]
    /\ UNCHANGED <<stage, saved, mem, user, fetchVars, pageVars>>

\* Stopping an activity waits for every queued write.
FinishWrites ==
    /\ disk' = mem
    /\ writes' = <<>>
    /\ UNCHANGED mem

ForgetActivity ==
    /\ todos' = <<>>
    /\ next' = 1
    /\ items' = NoLists
    /\ adapter' = Adapter("personal")
    /\ current' = 0
    /\ frag' = NoFragments

\* The process ends: the queue and all objects are gone, files stay as on disk.
Die ==
    /\ stage' = "dead"
    /\ mem' = disk
    /\ writes' = <<>>
    /\ user' = None
    /\ ForgetActivity
    /\ UNCHANGED disk

-----------------------------------------------------------------------------
(***************************************************************************)
(* MainActivity.onCreate, a step for every preference access.              *)
(***************************************************************************)
Launch ==
    /\ stage \in {"dead", "idle"}
    /\ ~saved
    /\ stage' = "user"
    /\ UNCHANGED <<saved, prefVars, user, fetchVars, pageVars>>

\* super.onCreate(savedInstanceState) re-instantiates the saved fragments, and
\* FilteredTodoFragment has no constructor without parameters: onCreate throws.
RestoreFails ==
    /\ stage = "dead"
    /\ saved
    /\ saved' = FALSE
    /\ UNCHANGED <<stage, prefVars, user, fetchVars, pageVars>>

\* Mutated form: a stored user is ignored.
createUser_AlwaysNew ==
    /\ stage = "user"
    /\ stage' = "fetch_personal"
    /\ \E id \in UserIds : user' = id /\ Apply("user", id)
    /\ UNCHANGED <<saved, fetchVars, pageVars>>

createUser ==
    /\ stage = "user"
    /\ stage' = "fetch_personal"
    /\ \/ /\ mem["user"] # None
          /\ user' = mem["user"]
          /\ UNCHANGED prefVars
       \/ /\ mem["user"] = None
          /\ \E id \in UserIds : user' = id /\ Apply("user", id)
    /\ UNCHANGED <<saved, fetchVars, pageVars>>

FetchStage(k) == IF k = "personal" THEN "fetch_personal" ELSE "fetch_group"
InsertStage(k) == IF k = "personal" THEN "insert_personal" ELSE "insert_group"
AfterFetch(k) == IF k = "personal" THEN "fetch_group" ELSE "live"

\* RedisHelper.getTodos: answers with an empty list whatever the key.
getTodos(key) == <<>>

SeedTodos(k) == [i \in DOMAIN Seed[k] |-> NewTodo(Seed[k][i])]

\* fetchPersonalTodos / fetchGroupTodos up to their insertion loop.
fetchTodos(k) ==
    /\ stage = FetchStage(k)
    /\ stage' = InsertStage(k)
    /\ next' = 1
    /\ \/ /\ mem[k] = <<>>
          /\ todos' = SeedTodos(k) \o getTodos(k)
          /\ items' = [items EXCEPT ![k] = todos']
       \/ /\ mem[k] # <<>>
          /\ todos' = getTodos(k)
          /\ items' = [items EXCEPT ![k] = mem[k]]
    /\ UNCHANGED <<saved, prefVars, user, pageVars>>

\* Mutated form: the stored list is not read before it is saved.
insertTodo_Overwrites(k) ==
    /\ stage = InsertStage(k)
    /\ next <= Len(todos)
    /\ Apply(k, <<todos[next]>>)
    /\ next' = next + 1
    /\ UNCHANGED <<stage, saved, user, todos, items, pageVars>>

insertTodo(k) ==
    /\ stage = InsertStage(k)
    /\ next <= Len(todos)
    /\ Apply(k, Append(mem[k], todos[next]))
    /\ next' = next + 1
    /\ UNCHANGED <<stage, saved, user, todos, items, pageVars>>

\* The loop is over; after the second list the adapter is attached.
endFetch(k) ==
    /\ stage = InsertStage(k)
    /\ next > Len(todos)
    /\ stage' = AfterFetch(k)
    /\ todos' = <<>>
    /\ next' = 1
    /\ UNCHANGED <<saved, prefVars, user, items, pageVars>>

-----------------------------------------------------------------------------
(***************************************************************************)
(* The pages.                                                              *)
(***************************************************************************)
\* Positions of the todos renderTodoList gives a check box.
NotDone(list) == {i \in DOMAIN list : ~list[i].done}

\* TodoSorter compares only when there are two todos to order, and the
\* comparison throws when the fragment's time maps to no Time constant.
RenderThrows(f, list) ==
    /\ f.time \in BadTimes
    /\ \E i, j \in NotDone(list) : i # j

\* Page p becomes fragment f and is drawn over `list`.
Draw(p, f, list) ==
    frag' = [frag EXCEPT ![p] = [f EXCEPT !.boxes = NotDone(list)]]

\* Mutated form: the fragment is built without its database.
createFragment_NoDatabase(p) ==
    [list |-> adapter.list, db |-> None, time |-> Epoch, boxes |-> {}]

\* createFragment: what the adapter holds now, whatever the position.
createFragment(p) ==
    [list |-> adapter.list, db |-> adapter.db, time |-> Epoch, boxes |-> {}]

\* The pager lays page p out (createFragment, onViewCreated): the current
\* page, or, while the user drags, the neighbour that comes into sight.
LayoutPage(p) ==
    LET f == createFragment(p)
    IN  /\ stage = "live"
        /\ frag[p] = None
        /\ p = current \/ (Drags /\ frag[current] # None)
        /\ \/ /\ RenderThrows(f, items[f.list])
              /\ Die
              /\ UNCHANGED saved
           \/ /\ ~RenderThrows(f, items[f.list])
              /\ Draw(p, f, items[f.list])
              /\ UNCHANGED <<stage, saved, prefVars, user, fetchVars,
                             adapter, current>>

\* Mutated forms: updateItems forgets the database; updateItems is not called.
onPageSelected_SameDatabase(p) ==
    /\ stage = "live"
    /\ current' = p
    /\ adapter' = [adapter EXCEPT !.list = KindOf(p)]
    /\ UNCHANGED <<stage, saved, prefVars, user, fetchVars, frag>>
onPageSelected_NoUpdate(p) ==
    /\ stage = "live"
    /\ current' = p
    /\ UNCHANGED <<stage, saved, prefVars, user, fetchVars, adapter, frag>>

\* onPageSelected(p) and TodoPageAdapter.updateItems.
onPageSelected(p) ==
    /\ stage = "live"
    /\ current' = p
    /\ adapter' = Adapter(KindOf(p))
    /\ UNCHANGED <<stage, saved, prefVars, user, fetchVars, frag>>

\* A location fix arrives: the current page takes the time and is redrawn.
updateLocationAndTime(t) ==
    LET p == current
        f == [frag[p] EXCEPT !.time = t]
    IN  /\ stage \in {"live", "stopped"}
        /\ frag[p] # None
        /\ \/ /\ RenderThrows(f, items[f.list])
              /\ Die
              /\ UNCHANGED saved
           \/ /\ ~RenderThrows(f, items[f.list])
              /\ Draw(p, f, items[f.list])
              /\ UNCHANGED <<stage, saved, prefVars, user, fetchVars,
                             adapter, current>>

\* TodoDatabase.updateTodo: the first todo of that title is replaced.
FirstMatch(list, i, t) ==
    /\ list[i].title = t
    /\ \A j \in 1 .. (i - 1) : list[j].title # t
updateTodo(list, todo) ==
    [i \in DOMAIN list |-> IF FirstMatch(list, i, todo.title) THEN todo ELSE list[i]]

\* A check box of the current page: the todo object is marked, the page is
\* drawn again, and only then is the database updated.
onCheckedChanged ==
    /\ stage = "live"
    /\ frag[current] # None
    /\ \E i \in frag[current].boxes :
          LET f == frag[current]
              list == [items[f.list] EXCEPT ![i].done = TRUE]
          IN  \/ /\ RenderThrows(f, list)
                 /\ Die
                 /\ UNCHANGED saved
              \/ /\ ~RenderThrows(f, list)
                 /\ items' = [items EXCEPT ![f.list] = list]
                 /\ Draw(current, f, list)
                 /\ Apply(f.db, updateTodo(mem[f.db], list[i]))
                 /\ UNCHANGED <<stage, saved, user, todos, next, adapter, current>>

-----------------------------------------------------------------------------
(***************************************************************************)
(* The activity's and the process's life (Android, external).              *)
(***************************************************************************)
StopActivity ==
    /\ stage = "live"
    /\ stage' = "stopped"
    /\ saved' = (frag # NoFragments)
    /\ FinishWrites
    /\ UNCHANGED <<user, fetchVars, pageVars>>

RestartActivity ==
    /\ stage = "stopped"
    /\ stage' = "live"
    /\ saved' = FALSE
    /\ UNCHANGED <<prefVars, user, fetchVars, pageVars>>

\* The user dismisses the activity; the process lives on, UserManager with it.
FinishActivity ==
    /\ stage \in {"live", "stopped"}
    /\ stage' = "idle"
    /\ saved' = FALSE
    /\ FinishWrites
    /\ ForgetActivity
    /\ UNCHANGED user

Kill ==
    /\ stage # "dead"
    /\ Die
    /\ UNCHANGED saved

OnCreate ==
    \/ createUser
    \/ \E k \in Kinds : fetchTodos(k) \/ insertTodo(k) \/ endFetch(k)

Next ==
    \/ Launch
    \/ RestoreFails
    \/ createUser
    \/ \E k \in Kinds : fetchTodos(k) \/ insertTodo(k) \/ endFetch(k)
    \/ \E p \in Pages : LayoutPage(p) \/ onPageSelected(p)
    \/ \E t \in Times : updateLocationAndTime(t)
    \/ onCheckedChanged
    \/ StopActivity
    \/ RestartActivity
    \/ FinishActivity
    \/ Kill
    \/ WriteDisk

Spec == Init /\ [][Next]_vars

\* The disk-write thread is never starved, and a main thread inside onCreate
\* runs on; users, the system and location fixes owe nothing.
FairSpec == Spec /\ WF_vars(WriteDisk) /\ WF_vars(OnCreate)

-----------------------------------------------------------------------------
(***************************************************************************)
(* Properties.                                                             *)
(***************************************************************************)
TodoList == Seq(Todo)
Stages == {"dead", "idle", "user", "fetch_personal", "insert_personal",
           "fetch_group", "insert_group", "live", "stopped"}
Fragment == [list : Kinds, db : Kinds, time : Times, boxes : SUBSET (Nat \ {0})]

PrefsOK(prefs) ==
    /\ DOMAIN prefs = Files
    /\ prefs["user"] \in UserIds \cup {None}
    /\ \A k \in Kinds : prefs[k] \in TodoList

\* Every variable stays within its type.
TypeOK ==
    /\ stage \in Stages
    /\ saved \in BOOLEAN
    /\ PrefsOK(mem)
    /\ PrefsOK(disk)
    /\ writes \in Seq(Files)
    /\ user \in UserIds \cup {None}
    /\ todos \in TodoList
    /\ next \in Nat \ {0}
    /\ items \in [Kinds -> TodoList]
    /\ adapter \in [list : Kinds, db : Kinds]
    /\ current \in Pages
    /\ frag \in [Pages -> Fragment \cup {None}]

\* While the activity shows, each list object equals what its preference file
\* holds: what a page draws is what the next launch will read.
ViewMatchesStore ==
    stage \in {"live", "stopped"} => \A k \in Kinds : items[k] = mem[k]

\* No list ever holds two todos of one title, however often the application is
\* launched and wherever onCreate is killed: updateTodo, which finds a todo by
\* its title, replaces the one that was checked.
UniqueTitles ==
    \A k \in Kinds : \A i, j \in DOMAIN mem[k] :
        mem[k][i].title = mem[k][j].title => i = j

\* Todos never reach the disk before the user they were fetched for: a crash
\* during the first launch cannot leave lists behind that belong to nobody.
UserBeforeTodos ==
    (\E k \in Kinds : disk[k] # <<>>) => disk["user"] # None

\* The user is created once: a user that reached the disk is the user of every
\* later launch (UserData, UserManager), whatever is killed in between.
UserKept ==
    [][disk["user"] # None =>
         /\ disk'["user"] = disk["user"]
         /\ user' \in {None, disk["user"]}]_vars

\* Pages selected by tab only: page p shows, and writes to, the list of its tab.
PageShowsItsTab ==
    \A p \in Pages : frag[p] # None =>
        frag[p].list = KindOf(p) /\ frag[p].db = KindOf(p)

\* Pages selected by tab only: a page offers a check box for exactly the todos
\* that are not done, though a check redraws no page but its own.
BoxesAreFresh ==
    \A p \in Pages : frag[p] # None =>
        frag[p].boxes = NotDone(items[frag[p].list])

\* Each list is a write-behind todo list: it only grows and todos only become
\* done, and a crash falls back to a state that was current before.
Personal == INSTANCE DurableTodos
            WITH volatile <- mem["personal"], durable <- disk["personal"]
Group == INSTANCE DurableTodos
         WITH volatile <- mem["group"], durable <- disk["group"]
ListsAreDurable == Personal!Spec /\ Group!Spec

\* A check that was stored in memory reaches the disk, or the process dies.
DoneIn(prefs, k, i) == i \in DOMAIN prefs[k] /\ prefs[k][i].done
ChecksReachDisk ==
    \A k \in Kinds : \A i \in DOMAIN Seed[k] :
        DoneIn(mem, k, i) ~> DoneIn(disk, k, i) \/ stage = "dead"

\* A launch that is not killed gets through onCreate and shows the pages.
LaunchCompletes == stage = "user" ~> stage \in {"live", "dead"}

\* What is stored is what is shown: the pages draw the files, no list holds a
\* title twice, and no list is on disk before its user.
StoredTodos == ViewMatchesStore /\ UniqueTitles /\ UserBeforeTodos

\* Pages selected by tab only are those of their tabs, with fresh boxes.
TabsAreRight == PageShowsItsTab /\ BoxesAreFresh

\* Launches get through, and checks get to the disk.
LaunchAndChecksEnd == LaunchCompletes /\ ChecksReachDisk
=============================================================================
