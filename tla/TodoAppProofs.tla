---------------------------- MODULE TodoAppProofs ----------------------------
(***************************************************************************)
(* Theorems about TodoApp, for every choice of titles, seeds, users and    *)
(* clock readings.                                                         *)
(***************************************************************************)
EXTENDS TodoApp, SequenceTheorems, TLAPS

LEMMA UpdateTodoType ==
    ASSUME NEW list \in TodoList, NEW todo \in Todo
    PROVE  /\ updateTodo(list, todo) \in TodoList
           /\ Len(updateTodo(list, todo)) = Len(list)
           /\ \A i \in 1 .. Len(list) :
                 updateTodo(list, todo)[i] =
                     IF FirstMatch(list, i, todo.title) THEN todo ELSE list[i]
<1> DEFINE u == updateTodo(list, todo)
<1>1. Len(list) \in Nat /\ DOMAIN list = 1 .. Len(list)
  BY LenProperties DEF TodoList
<1>2. \A i \in 1 .. Len(list) : list[i] \in Todo
  BY ElementOfSeq DEF TodoList
<1>3. u \in [1 .. Len(list) -> Todo]
  BY <1>1, <1>2 DEF updateTodo
<1>4. u \in TodoList
  BY <1>1, <1>3, SeqDef DEF TodoList
<1>5. Len(u) = Len(list)
  BY <1>1, <1>3, <1>4, LenProperties DEF TodoList
<1>6. QED
  BY <1>1, <1>4, <1>5 DEF updateTodo

LEMMA SeedTodosType ==
    ASSUME NEW k \in Kinds
    PROVE  /\ SeedTodos(k) \in TodoList
           /\ Len(SeedTodos(k)) = Len(Seed[k])
           /\ \A i \in 1 .. Len(Seed[k]) : SeedTodos(k)[i] = NewTodo(Seed[k][i])
<1> DEFINE s == Seed[k]
<1>0. s \in Seq(Titles)
  BY ConstantsAssumption
<1>1. Len(s) \in Nat /\ DOMAIN s = 1 .. Len(s)
  BY <1>0, LenProperties
<1>2. \A i \in 1 .. Len(s) : NewTodo(s[i]) \in Todo
  BY <1>0, ElementOfSeq DEF Todo, NewTodo
<1>3. SeedTodos(k) \in [1 .. Len(s) -> Todo]
  BY <1>1, <1>2 DEF SeedTodos
<1>4. SeedTodos(k) \in TodoList
  BY <1>1, <1>3, SeqDef DEF TodoList
<1>5. Len(SeedTodos(k)) = Len(s)
  BY <1>1, <1>3, <1>4, LenProperties DEF TodoList
<1>6. QED
  BY <1>1, <1>4, <1>5 DEF SeedTodos

LEMMA NotDoneType ==
    ASSUME NEW list \in TodoList
    PROVE  NotDone(list) \subseteq 1 .. Len(list) /\ NotDone(list) \subseteq Nat \ {0}
BY LenProperties DEF NotDone, TodoList

LEMMA AppendTodo ==
    ASSUME NEW list \in TodoList, NEW todo \in Todo
    PROVE  /\ Append(list, todo) \in TodoList
           /\ Len(Append(list, todo)) = Len(list) + 1
           /\ \A i \in 1 .. Len(list) : Append(list, todo)[i] = list[i]
           /\ Append(list, todo)[Len(list) + 1] = todo
BY AppendProperties DEF TodoList

LEMMA MarkDone ==
    ASSUME NEW list \in TodoList, NEW i \in 1 .. Len(list)
    PROVE  /\ [list EXCEPT ![i].done = TRUE] \in TodoList
           /\ Len([list EXCEPT ![i].done = TRUE]) = Len(list)
           /\ [list EXCEPT ![i].done = TRUE][i] = [list[i] EXCEPT !.done = TRUE]
           /\ [list EXCEPT ![i].done = TRUE][i] \in Todo
           /\ \A j \in 1 .. Len(list) :
                 j # i => [list EXCEPT ![i].done = TRUE][j] = list[j]
<1> DEFINE todo == [list[i] EXCEPT !.done = TRUE]
           marked == [list EXCEPT ![i] = todo]
<1>1. list[i] \in Todo
  BY ElementOfSeq DEF TodoList
<1>2. todo \in Todo
  BY <1>1 DEF Todo
<1>3. /\ marked \in TodoList
      /\ Len(marked) = Len(list)
      /\ marked[i] = todo
      /\ \A j \in 1 .. Len(list) : j # i => marked[j] = list[j]
  <2> HIDE DEF todo
  <2>1. list \in Seq(Todo) /\ todo \in Todo
    BY <1>2 DEF TodoList
  <2>2. /\ marked \in Seq(Todo)
        /\ Len(marked) = Len(list)
        /\ \A j \in 1 .. Len(list) : marked[j] = IF j = i THEN todo ELSE list[j]
    BY <2>1, ExceptSeq
  <2>3. QED
    BY <2>2 DEF TodoList
<1>4. [list EXCEPT ![i].done = TRUE] = marked
  OBVIOUS
<1>5. QED
  BY <1>2, <1>3, <1>4

(***************************************************************************)
(* Type correctness.                                                       *)
(***************************************************************************)
\* What TypeOK needs of the pages: fragments exist only while there is an
\* activity, agree with themselves, and offer boxes for todos that exist.
FragmentsOK ==
    /\ adapter.db = adapter.list
    /\ \A p \in Pages : frag[p] # None =>
          /\ stage \in {"live", "stopped"}
          /\ frag[p].db = frag[p].list
          /\ frag[p].boxes \subseteq 1 .. Len(items[frag[p].list])

TypeInv == TypeOK /\ FragmentsOK

LEMMA ForgetType ==
    ASSUME ForgetActivity
    PROVE  /\ todos' \in TodoList
           /\ next' \in Nat \ {0}
           /\ items' \in [Kinds -> TodoList]
           /\ adapter' \in [list : Kinds, db : Kinds]
           /\ current' \in Pages
           /\ frag' \in [Pages -> Fragment \cup {None}]
           /\ FragmentsOK'
<1>1. <<>> \in TodoList
  BY EmptySeq DEF TodoList
<1>2. items' \in [Kinds -> TodoList] /\ frag' \in [Pages -> Fragment \cup {None}]
  BY <1>1 DEF ForgetActivity, NoLists, NoFragments
<1>3. FragmentsOK'
  BY DEF ForgetActivity, FragmentsOK, Adapter, NoFragments
<1>4. QED
  BY <1>1, <1>2, <1>3 DEF ForgetActivity, Adapter, Kinds, Pages

LEMMA DieType ==
    ASSUME TypeOK, Die, saved' \in BOOLEAN
    PROVE  TypeOK' /\ FragmentsOK'
BY ForgetType, EmptySeq DEF TypeOK, Die, PrefsOK, Stages

LEMMA ApplyType ==
    ASSUME TypeOK, NEW f \in Files, NEW c, Apply(f, c),
           f = "user" => c \in UserIds \cup {None},
           f \in Kinds => c \in TodoList
    PROVE  PrefsOK(mem)' /\ PrefsOK(disk)' /\ writes' \in Seq(Files)
<1>1. writes' \in Seq(Files)
  BY AppendProperties DEF TypeOK, Apply
<1>2. PrefsOK(mem)'
  BY DEF TypeOK, PrefsOK, Apply, Files, Kinds
<1>3. QED
  BY <1>1, <1>2 DEF TypeOK, Apply, PrefsOK

LEMMA DrawType ==
    ASSUME TypeOK, NEW p \in Pages, NEW f \in Fragment, NEW list \in TodoList,
           Draw(p, f, list)
    PROVE  frag' \in [Pages -> Fragment \cup {None}]
<1>1. NotDone(list) \in SUBSET (Nat \ {0})
  BY NotDoneType
<1>2. [f EXCEPT !.boxes = NotDone(list)] \in Fragment
  BY <1>1 DEF Fragment
<1>3. QED
  BY <1>2 DEF Draw, TypeOK

LEMMA WriteDiskType ==
    ASSUME TypeOK, WriteDisk
    PROVE  TypeOK'
<1>1. Head(writes) \in Files /\ Tail(writes) \in Seq(Files)
  BY HeadTailProperties DEF TypeOK, WriteDisk
<1>2. PrefsOK(disk)'
  BY <1>1 DEF TypeOK, PrefsOK, WriteDisk, Files, Kinds
<1>3. QED
  BY <1>1, <1>2 DEF TypeOK, PrefsOK, WriteDisk, fetchVars, pageVars

LEMMA TypeInit == Init => TypeOK
<1> SUFFICES ASSUME Init PROVE TypeOK
  OBVIOUS
<1>1. <<>> \in TodoList /\ <<>> \in Seq(Files)
  BY EmptySeq DEF TodoList
<1>2. PrefsOK(mem) /\ PrefsOK(disk)
  BY <1>1 DEF Init, PrefsOK, Files, Kinds
<1>3. items \in [Kinds -> TodoList] /\ frag \in [Pages -> Fragment \cup {None}]
  BY <1>1 DEF Init, NoLists, NoFragments
<1>4. QED
  BY <1>1, <1>2, <1>3 DEF Init, TypeOK, Stages, Pages, Adapter, Kinds

LEMMA TypeStep == TypeInv /\ [Next]_vars => TypeOK'
<1> SUFFICES ASSUME TypeOK, FragmentsOK, [Next]_vars PROVE TypeOK'
  BY DEF TypeInv
<1> USE DEF prefVars, fetchVars, pageVars
<1>1. CASE Launch
  BY <1>1 DEF TypeOK, PrefsOK, Launch, Stages
<1>2. CASE RestoreFails
  BY <1>2 DEF TypeOK, PrefsOK, RestoreFails
<1>3. CASE createUser
  <2>1. user' \in UserIds \cup {None} /\ PrefsOK(mem)' /\ PrefsOK(disk)'
        /\ writes' \in Seq(Files)
    <3>1. CASE mem["user"] # None
      BY <1>3, <3>1 DEF createUser, TypeOK, PrefsOK
    <3>2. CASE mem["user"] = None
      <4>1. PICK id \in UserIds : user' = id /\ Apply("user", id)
        BY <1>3, <3>2 DEF createUser
      <4>2. "user" \in Files /\ "user" \notin Kinds
        BY DEF Files, Kinds
      <4>3. QED
        BY <4>1, <4>2, ApplyType
    <3>3. QED
      BY <3>1, <3>2
  <2>2. QED
    BY <1>3, <2>1 DEF createUser, TypeOK, Stages
<1>4. ASSUME NEW k \in Kinds, fetchTodos(k) PROVE TypeOK'
  <2>1. mem[k] \in TodoList /\ SeedTodos(k) \in TodoList /\ <<>> \in TodoList
    BY SeedTodosType, EmptySeq DEF TypeOK, PrefsOK, TodoList
  <2>2. SeedTodos(k) \o <<>> \in TodoList
    BY <2>1, ConcatProperties DEF TodoList
  <2>3. todos' \in TodoList /\ items' \in [Kinds -> TodoList]
    BY <1>4, <2>1, <2>2 DEF fetchTodos, getTodos, TypeOK
  <2>4. QED
    BY <1>4, <2>3 DEF fetchTodos, TypeOK, PrefsOK, Stages, InsertStage
<1>5. ASSUME NEW k \in Kinds, insertTodo(k) PROVE TypeOK'
  <2>1. mem[k] \in TodoList /\ todos[next] \in Todo
    BY <1>5, ElementOfSeq, LenProperties DEF insertTodo, TypeOK, PrefsOK, TodoList
  <2>2. Append(mem[k], todos[next]) \in TodoList
    BY <2>1, AppendTodo
  <2>3. Apply(k, Append(mem[k], todos[next])) /\ k \in Files /\ k # "user"
    BY <1>5 DEF insertTodo, Kinds, Files
  <2>4. PrefsOK(mem)' /\ PrefsOK(disk)' /\ writes' \in Seq(Files)
    BY <2>2, <2>3, ApplyType
  <2>5. QED
    BY <1>5, <2>4 DEF insertTodo, TypeOK
<1>6. ASSUME NEW k \in Kinds, endFetch(k) PROVE TypeOK'
  BY <1>6, EmptySeq DEF endFetch, AfterFetch, TypeOK, PrefsOK, Stages, TodoList
<1>7. ASSUME NEW p \in Pages, LayoutPage(p) PROVE TypeOK'
  <2> DEFINE f == createFragment(p)
  <2>1. f \in Fragment /\ items[f.list] \in TodoList
    BY ConstantsAssumption DEF createFragment, Fragment, TypeOK
  <2>2. CASE Die /\ UNCHANGED saved
    BY <2>2, DieType DEF TypeOK
  <2>3. CASE Draw(p, f, items[f.list])
             /\ UNCHANGED <<stage, saved, prefVars, user, fetchVars, adapter, current>>
    <3>1. frag' \in [Pages -> Fragment \cup {None}]
      BY <2>1, <2>3, DrawType
    <3>2. QED
      BY <2>3, <3>1 DEF TypeOK, PrefsOK
  <2>4. QED
    BY <1>7, <2>2, <2>3 DEF LayoutPage
<1>8. ASSUME NEW p \in Pages, onPageSelected(p) PROVE TypeOK'
  BY <1>8 DEF onPageSelected, TypeOK, PrefsOK, Adapter, KindOf, Kinds
<1>9. ASSUME NEW t \in Times, updateLocationAndTime(t) PROVE TypeOK'
  <2> DEFINE f == [frag[current] EXCEPT !.time = t]
  <2>1. current \in Pages /\ frag[current] \in Fragment
    BY <1>9 DEF updateLocationAndTime, TypeOK
  <2>2. f \in Fragment
    BY <2>1 DEF Fragment
  <2>3. items[f.list] \in TodoList
    BY <2>2 DEF Fragment, TypeOK
  <2>4. CASE Die /\ UNCHANGED saved
    BY <2>4, DieType DEF TypeOK
  <2>5. CASE Draw(current, f, items[f.list])
             /\ UNCHANGED <<stage, saved, prefVars, user, fetchVars, adapter, current>>
    <3>1. frag' \in [Pages -> Fragment \cup {None}]
      BY <2>1, <2>2, <2>3, <2>5, DrawType
    <3>2. QED
      BY <2>5, <3>1 DEF TypeOK, PrefsOK
  <2>6. QED
    BY <1>9, <2>4, <2>5 DEF updateLocationAndTime
<1>10. CASE onCheckedChanged
  <2> DEFINE f == frag[current]
  <2>1. current \in Pages /\ f \in Fragment
    BY <1>10 DEF onCheckedChanged, TypeOK
  <2>2. PICK i \in f.boxes :
          \/ Die /\ UNCHANGED saved
          \/ LET list == [items[f.list] EXCEPT ![i].done = TRUE]
             IN  /\ items' = [items EXCEPT ![f.list] = list]
                 /\ Draw(current, f, list)
                 /\ Apply(f.db, updateTodo(mem[f.db], list[i]))
                 /\ UNCHANGED <<stage, saved, user, todos, next, adapter, current>>
    BY <1>10 DEF onCheckedChanged
  <2> DEFINE list == [items[f.list] EXCEPT ![i].done = TRUE]
  <2>3. CASE Die /\ UNCHANGED saved
    BY <2>3, DieType DEF TypeOK
  <2>4. CASE /\ items' = [items EXCEPT ![f.list] = list]
             /\ Draw(current, f, list)
             /\ Apply(f.db, updateTodo(mem[f.db], list[i]))
             /\ UNCHANGED <<stage, saved, user, todos, next, adapter, current>>
    <3>1. /\ f.list \in Kinds /\ f.db \in Kinds /\ f.db \in Files /\ f.db # "user"
          /\ items[f.list] \in TodoList /\ mem[f.db] \in TodoList
          /\ i \in 1 .. Len(items[f.list])
      BY <1>10, <2>1 DEF onCheckedChanged, Fragment, TypeOK, PrefsOK, FragmentsOK, Kinds, Files
    <3>2. list \in TodoList /\ list[i] \in Todo
      BY <3>1, MarkDone
    <3>3. updateTodo(mem[f.db], list[i]) \in TodoList
      BY <3>1, <3>2, UpdateTodoType
    <3>4. PrefsOK(mem)' /\ PrefsOK(disk)' /\ writes' \in Seq(Files)
      BY <2>4, <3>1, <3>3, ApplyType
    <3>5. frag' \in [Pages -> Fragment \cup {None}]
      BY <2>1, <2>4, <3>2, DrawType
    <3>6. items' \in [Kinds -> TodoList]
      BY <2>4, <3>1, <3>2 DEF TypeOK
    <3>7. QED
      BY <2>4, <3>4, <3>5, <3>6 DEF TypeOK
  <2>5. QED
    BY <2>2, <2>3, <2>4
<1>11. CASE StopActivity
  BY <1>11, EmptySeq DEF StopActivity, FinishWrites, TypeOK, PrefsOK, Stages
<1>12. CASE RestartActivity
  BY <1>12 DEF RestartActivity, TypeOK, PrefsOK, Stages
<1>13. CASE FinishActivity
  BY <1>13, EmptySeq, ForgetType
     DEF FinishActivity, FinishWrites, TypeOK, PrefsOK, Stages
<1>14. CASE Kill
  BY <1>14, DieType DEF Kill, TypeOK
<1>15. CASE WriteDisk
  BY <1>15, WriteDiskType
<1>16. CASE UNCHANGED vars
  BY <1>16 DEF vars, TypeOK, PrefsOK
<1>17. QED
  BY <1>1, <1>2, <1>3, <1>4, <1>5, <1>6, <1>7, <1>8, <1>9, <1>10, <1>11, <1>12,
     <1>13, <1>14, <1>15, <1>16 DEF Next

LEMMA DrawFragments ==
    ASSUME TypeInv, NEW p \in Pages, NEW f \in Fragment, NEW list \in TodoList,
           Draw(p, f, list), f.db = f.list,
           stage' = stage, stage \in {"live", "stopped"}, adapter' = adapter,
           items' = [items EXCEPT ![f.list] = list],
           Len(list) = Len(items[f.list])
    PROVE  FragmentsOK'
<1>1. NotDone(list) \subseteq 1 .. Len(list)
  BY NotDoneType
<1>2. /\ f.list \in Kinds
      /\ \A k \in Kinds : Len(items'[k]) = Len(items[k])
  BY DEF TypeInv, TypeOK, Fragment
<1>3. frag'[p] = [f EXCEPT !.boxes = NotDone(list)]
      /\ \A q \in Pages : q # p => frag'[q] = frag[q]
  BY DEF Draw, TypeInv, TypeOK
<1>4. ASSUME NEW q \in Pages, frag'[q] # None
      PROVE  /\ frag'[q].db = frag'[q].list
             /\ frag'[q].boxes \subseteq 1 .. Len(items'[frag'[q].list])
  <2>1. CASE q = p
    BY <1>1, <1>2, <1>3, <2>1 DEF Fragment
  <2>2. CASE q # p
    <3>1. frag[q] \in Fragment /\ frag'[q] = frag[q]
      BY <1>3, <1>4, <2>2 DEF TypeInv, TypeOK
    <3>2. frag[q].list \in Kinds
      BY <3>1 DEF Fragment
    <3>3. QED
      BY <1>2, <1>4, <3>1, <3>2 DEF TypeInv, FragmentsOK
  <2>3. QED
    BY <2>1, <2>2
<1>5. QED
  BY <1>4 DEF TypeInv, FragmentsOK

LEMMA FragmentsStep == TypeInv /\ [Next]_vars => FragmentsOK'
<1> SUFFICES ASSUME TypeInv, [Next]_vars PROVE FragmentsOK'
  OBVIOUS
<1> USE DEF TypeInv, prefVars, fetchVars, pageVars
<1>1. CASE \/ Launch
           \/ RestoreFails
           \/ createUser
           \/ \E k \in Kinds : fetchTodos(k) \/ insertTodo(k) \/ endFetch(k)
  <2>1. stage \notin {"live", "stopped"} /\ UNCHANGED pageVars
    BY <1>1 DEF Launch, RestoreFails, createUser, fetchTodos, insertTodo, endFetch,
                FetchStage, InsertStage
  <2>2. QED
    BY <2>1 DEF FragmentsOK
<1>2. CASE WriteDisk \/ StopActivity \/ RestartActivity \/ UNCHANGED vars
  <2>1. /\ stage' = stage \/ stage' \in {"live", "stopped"}
        /\ UNCHANGED <<fetchVars, pageVars>>
    BY <1>2 DEF WriteDisk, StopActivity, RestartActivity, vars
  <2>2. QED
    BY <2>1 DEF FragmentsOK
<1>3. CASE \E p \in Pages : onPageSelected(p)
  BY <1>3 DEF onPageSelected, FragmentsOK, Adapter
<1>4. ASSUME NEW p \in Pages, LayoutPage(p) PROVE FragmentsOK'
  <2> DEFINE f == createFragment(p)
  <2>1. f \in Fragment /\ items[f.list] \in TodoList /\ f.db = f.list
    BY ConstantsAssumption DEF createFragment, Fragment, TypeOK, FragmentsOK
  <2>2. CASE Die /\ UNCHANGED saved
    BY <2>2, DieType DEF TypeOK
  <2>3. CASE Draw(p, f, items[f.list])
             /\ UNCHANGED <<stage, saved, prefVars, user, fetchVars, adapter, current>>
    <3>1. items' = [items EXCEPT ![f.list] = items[f.list]]
      BY <2>1, <2>3 DEF TypeOK
    <3>2. QED
      BY <1>4, <2>1, <2>3, <3>1, DrawFragments DEF LayoutPage
  <2>4. QED
    BY <1>4, <2>2, <2>3 DEF LayoutPage
<1>5. ASSUME NEW t \in Times, updateLocationAndTime(t) PROVE FragmentsOK'
  <2> DEFINE f == [frag[current] EXCEPT !.time = t]
  <2>1. current \in Pages /\ frag[current] \in Fragment
        /\ frag[current].db = frag[current].list
    BY <1>5 DEF updateLocationAndTime, TypeOK, FragmentsOK
  <2>2. f \in Fragment /\ f.db = f.list
    BY <2>1 DEF Fragment
  <2>3. items[f.list] \in TodoList
    BY <2>2 DEF Fragment, TypeOK
  <2>4. CASE Die /\ UNCHANGED saved
    BY <2>4, DieType DEF TypeOK
  <2>5. CASE Draw(current, f, items[f.list])
             /\ UNCHANGED <<stage, saved, prefVars, user, fetchVars, adapter, current>>
    <3>1. items' = [items EXCEPT ![f.list] = items[f.list]]
      BY <2>3, <2>5 DEF TypeOK
    <3>2. stage \in {"live", "stopped"}
      BY <1>5 DEF updateLocationAndTime
    <3>3. QED
      BY <2>1, <2>2, <2>3, <2>5, <3>1, <3>2, DrawFragments
  <2>6. QED
    BY <1>5, <2>4, <2>5 DEF updateLocationAndTime
<1>6. CASE onCheckedChanged
  <2> DEFINE f == frag[current]
  <2>1. current \in Pages /\ f \in Fragment /\ f.db = f.list /\ stage = "live"
    BY <1>6 DEF onCheckedChanged, TypeOK, FragmentsOK
  <2>2. PICK i \in f.boxes :
          \/ Die /\ UNCHANGED saved
          \/ LET list == [items[f.list] EXCEPT ![i].done = TRUE]
             IN  /\ items' = [items EXCEPT ![f.list] = list]
                 /\ Draw(current, f, list)
                 /\ UNCHANGED <<stage, adapter>>
    BY <1>6 DEF onCheckedChanged
  <2> DEFINE list == [items[f.list] EXCEPT ![i].done = TRUE]
  <2>3. CASE Die /\ UNCHANGED saved
    BY <2>3, DieType DEF TypeOK
  <2>4. CASE /\ items' = [items EXCEPT ![f.list] = list]
             /\ Draw(current, f, list)
             /\ UNCHANGED <<stage, adapter>>
    <3>1. items[f.list] \in TodoList /\ i \in 1 .. Len(items[f.list])
      BY <1>6, <2>1 DEF onCheckedChanged, Fragment, TypeOK, FragmentsOK
    <3>2. list \in TodoList /\ Len(list) = Len(items[f.list])
      BY <3>1, MarkDone
    <3>3. QED
      BY <2>1, <2>4, <3>2, DrawFragments
  <2>5. QED
    BY <2>2, <2>3, <2>4
<1>7. CASE FinishActivity
  BY <1>7, ForgetType DEF FinishActivity
<1>8. CASE Kill
  BY <1>8, DieType DEF Kill, TypeOK
<1>9. QED
  BY <1>1, <1>2, <1>3, <1>4, <1>5, <1>6, <1>7, <1>8 DEF Next

\* Every variable stays within its type.
THEOREM TypeCorrect == Spec => []TypeOK
<1>1. Init => FragmentsOK
  BY DEF Init, FragmentsOK, NoFragments, Adapter
<1>2. Init => TypeInv
  BY <1>1, TypeInit DEF TypeInv
<1>3. TypeInv /\ [Next]_vars => TypeInv'
  BY TypeStep, FragmentsStep DEF TypeInv
<1>4. Spec => []TypeInv
  BY <1>2, <1>3, PTL DEF Spec
<1>5. QED
  BY <1>4, PTL DEF TypeInv
(***************************************************************************)
(* The inductive invariant behind the safety properties.                   *)
(***************************************************************************)
\* The user: drawn once, queued ahead of every todo, never replaced.
UserInv ==
    /\ stage \notin {"dead", "idle", "user"} => mem["user"] # None
    /\ user # None => user = mem["user"]
    /\ disk["user"] # None => mem["user"] = disk["user"]
    /\ disk["user"] # mem["user"] => writes # <<>> /\ Head(writes) = "user"
    /\ \A n \in 2 .. Len(writes) : writes[n] # "user"
    /\ mem["user"] = None => writes = <<>>
    /\ \A k \in Kinds : mem[k] # <<>> => mem["user"] # None
    /\ UserBeforeTodos

Unique(list) ==
    \A i, j \in 1 .. Len(list) : list[i].title = list[j].title => i = j

\* Inside k's insertion loop the list object is what the file will hold.
InsertInv(k) ==
    stage = InsertStage(k) =>
        /\ Unique(items[k])
        /\ \/ todos = <<>> /\ items[k] = mem[k]
           \/ /\ items[k] = todos
              /\ Len(mem[k]) = next - 1
              /\ next <= Len(todos) + 1
              /\ \A i \in 1 .. Len(mem[k]) : mem[k][i] = todos[i]

\* The stages at which list k has been fetched.
Fetched(k) == {"live", "stopped"} \cup
              (IF k = "personal" THEN {"fetch_group", "insert_group"} ELSE {})

ListInv ==
    /\ \A k \in Kinds :
          /\ Unique(mem[k])
          /\ Unique(disk[k])
          /\ Personal!Continues(disk[k], mem[k])
          /\ InsertInv(k)
          /\ stage \in Fetched(k) => items[k] = mem[k]

\* Without drags the adapter always stands where the pager stands.
TabInv ==
    /\ adapter = Adapter(KindOf(current))
    /\ PageShowsItsTab
    /\ BoxesAreFresh

LEMMA WritesAppend ==
    ASSUME TypeOK, NEW k \in Kinds
    PROVE  /\ Append(writes, k) # <<>>
           /\ writes # <<>> => Head(Append(writes, k)) = Head(writes)
           /\ (\A n \in 2 .. Len(writes) : writes[n] # "user") =>
                 \A n \in 2 .. Len(Append(writes, k)) : Append(writes, k)[n] # "user"
<1>1. writes \in Seq(Files) /\ k \in Files /\ k # "user"
  BY DEF TypeOK, Files, Kinds
<1>2. Len(writes) \in Nat /\ (writes # <<>> => Len(writes) >= 1)
  BY <1>1, LenProperties, EmptySeq
<1>3. /\ Append(writes, k) \in Seq(Files)
      /\ Len(Append(writes, k)) = Len(writes) + 1
      /\ \A n \in 1 .. Len(writes) : Append(writes, k)[n] = writes[n]
      /\ Append(writes, k)[Len(writes) + 1] = k
  BY <1>1, AppendProperties
<1>4. Append(writes, k) # <<>>
  BY <1>2, <1>3, EmptySeq
<1>5. writes # <<>> => Head(Append(writes, k)) = Head(writes)
  BY <1>1, <1>2, <1>3, <1>4, HeadTailProperties
<1>6. QED
  BY <1>1, <1>2, <1>3, <1>4, <1>5

LEMMA ApplyUser ==
    ASSUME TypeOK, UserInv, NEW k \in Kinds, NEW c, Apply(k, c),
           mem["user"] # None, user' = user, stage' = stage
    PROVE  UserInv'
<1>1. "user" \in Files /\ k \in Files /\ k # "user" /\ DOMAIN mem = Files
  BY DEF Files, Kinds, TypeOK, PrefsOK
<1>2. mem'["user"] = mem["user"] /\ disk' = disk /\ writes' = Append(writes, k)
  BY <1>1 DEF Apply
<1>3. disk'["user"] # mem'["user"] => writes' # <<>> /\ Head(writes') = "user"
  BY <1>2, WritesAppend DEF UserInv
<1>4. \A n \in 2 .. Len(writes') : writes'[n] # "user"
  BY <1>2, WritesAppend DEF UserInv
<1>5. QED
  BY <1>2, <1>3, <1>4 DEF UserInv, UserBeforeTodos

LEMMA DieUser ==
    ASSUME TypeOK, UserInv, Die
    PROVE  UserInv'
<1>1. Len(<<>>) = 0
  BY EmptySeq
<1>2. mem' = disk /\ disk' = disk /\ writes' = <<>> /\ user' = None /\ stage' = "dead"
  BY DEF Die
<1>3. QED
  BY <1>1, <1>2 DEF UserInv, UserBeforeTodos

LEMMA FinishUser ==
    ASSUME TypeOK, UserInv, FinishWrites, user' = user, mem["user"] # None
    PROVE  UserInv'
<1>1. Len(<<>>) = 0
  BY EmptySeq
<1>2. mem' = mem /\ disk' = mem /\ writes' = <<>>
  BY DEF FinishWrites
<1>3. QED
  BY <1>1, <1>2 DEF UserInv, UserBeforeTodos

LEMMA WriteDiskUser ==
    ASSUME TypeOK, UserInv, WriteDisk
    PROVE  UserInv' /\ disk'["user"] \in {disk["user"], mem["user"]}
<1> DEFINE h == Head(writes)
<1>1. /\ writes \in Seq(Files) /\ writes # <<>> /\ h = writes[1] /\ h \in Files
      /\ Len(writes') = Len(writes) - 1 /\ Len(writes) \in Nat \ {0}
      /\ \A n \in 1 .. Len(writes') : writes'[n] = writes[n + 1]
  BY HeadTailProperties, LenProperties DEF WriteDisk, TypeOK
<1>2. \A n \in 2 .. Len(writes') : writes'[n] # "user"
  BY <1>1 DEF UserInv
<1>3. DOMAIN disk = Files /\ "user" \in Files
  BY DEF TypeOK, PrefsOK, Files
<1>4. CASE h = "user"
  <2>1. disk' = [disk EXCEPT !["user"] = mem["user"]]
    BY <1>1, <1>4 DEF WriteDisk, UserInv
  <2>2. disk'["user"] = mem["user"] /\ \A k \in Kinds : disk'[k] = disk[k]
    BY <1>3, <2>1 DEF Kinds
  <2>3. QED
    BY <1>1, <1>2, <2>2 DEF WriteDisk, UserInv, UserBeforeTodos
<1>5. CASE h # "user"
  <2>1. disk["user"] = mem["user"] /\ disk'["user"] = disk["user"]
    BY <1>1, <1>3, <1>5 DEF WriteDisk, UserInv
  <2>2. \A k \in Kinds : disk'[k] \in {disk[k], mem[k]}
    BY <1>3 DEF WriteDisk, Kinds, Files
  <2>3. UserBeforeTodos'
    BY <2>1, <2>2 DEF UserInv, UserBeforeTodos
  <2>4. QED
    BY <1>1, <1>2, <2>1, <2>3 DEF WriteDisk, UserInv
<1>6. QED
  BY <1>4, <1>5

UserUnchanged ==
    disk["user"] # None =>
        /\ disk'["user"] = disk["user"]
        /\ user' \in {None, disk["user"]}

LEMMA UserStep ==
    ASSUME TypeInv, UserInv, [Next]_vars
    PROVE  UserInv' /\ UserUnchanged
<1> USE DEF TypeInv, prefVars, fetchVars, pageVars
<1>1. CASE UNCHANGED <<prefVars, user>> /\ (stage' \in {"dead", "idle", "user"}
                                            \/ stage \notin {"dead", "idle", "user"})
  BY <1>1 DEF UserInv, UserBeforeTodos, UserUnchanged
<1>2. CASE Die
  BY <1>2, DieUser DEF Die, UserUnchanged
<1>3. CASE createUser
  <2>1. CASE mem["user"] # None
    BY <1>3, <2>1 DEF createUser, UserInv, UserBeforeTodos, UserUnchanged
  <2>2. CASE mem["user"] = None
    <3>1. PICK id \in UserIds : user' = id /\ Apply("user", id)
      BY <1>3, <2>2 DEF createUser
    <3>2. /\ "user" \in Files /\ "user" \notin Kinds /\ DOMAIN mem = Files
          /\ id # None
      BY ConstantsAssumption DEF Files, Kinds, TypeOK, PrefsOK
    <3>3. /\ mem'["user"] = id /\ disk' = disk
          /\ \A k \in Kinds : mem'[k] = mem[k]
      BY <3>1, <3>2 DEF Apply, Files, Kinds
    <3>4. writes' = <<"user">> /\ Len(writes') = 1 /\ Head(writes') = "user"
      BY <2>2, <3>1 DEF Apply, UserInv
    <3>5. disk["user"] = None
      BY <2>2 DEF UserInv
    <3>6. QED
      BY <2>2, <3>1, <3>2, <3>3, <3>4, <3>5 DEF UserInv, UserBeforeTodos, UserUnchanged
  <2>3. QED
    BY <2>1, <2>2
<1>4. ASSUME NEW k \in Kinds, fetchTodos(k) \/ insertTodo(k) \/ endFetch(k)
      PROVE  UserInv' /\ UserUnchanged
  <2>1. mem["user"] # None /\ stage \notin {"dead", "idle", "user"} /\ user' = user
    BY <1>4 DEF fetchTodos, insertTodo, endFetch, FetchStage, InsertStage, UserInv
  <2>2. CASE insertTodo(k)
    BY <2>1, <2>2, ApplyUser DEF insertTodo, Apply, UserUnchanged, UserInv
  <2>3. CASE fetchTodos(k) \/ endFetch(k)
    BY <1>1, <2>1, <2>3 DEF fetchTodos, endFetch
  <2>4. QED
    BY <1>4, <2>2, <2>3
<1>5. ASSUME NEW p \in Pages, LayoutPage(p)
      PROVE  UserInv' /\ UserUnchanged
  BY <1>1, <1>2, <1>5 DEF LayoutPage
<1>6. ASSUME NEW t \in Times, updateLocationAndTime(t)
      PROVE  UserInv' /\ UserUnchanged
  BY <1>1, <1>2, <1>6 DEF updateLocationAndTime
<1>7. CASE onCheckedChanged
  <2> DEFINE f == frag[current]
  <2>1. f.db \in Kinds /\ stage = "live" /\ mem["user"] # None
    BY <1>7 DEF onCheckedChanged, TypeOK, Fragment, UserInv
  <2>2. PICK c : Die \/ (Apply(f.db, c) /\ UNCHANGED <<stage, user>>)
    BY <1>7 DEF onCheckedChanged
  <2>3. QED
    BY <1>2, <2>1, <2>2, ApplyUser DEF Apply, UserUnchanged, UserInv
<1>8. CASE StopActivity \/ FinishActivity
  <2>1. FinishWrites /\ user' = user /\ mem["user"] # None
    BY <1>8 DEF StopActivity, FinishActivity, UserInv
  <2>2. QED
    BY <2>1, FinishUser DEF FinishWrites, UserInv, UserUnchanged
<1>9. CASE WriteDisk
  BY <1>9, WriteDiskUser DEF WriteDisk, UserInv, UserUnchanged
<1>10. CASE Kill
  BY <1>2, <1>10 DEF Kill
<1>11. CASE Launch \/ RestoreFails \/ RestartActivity \/ UNCHANGED vars
             \/ \E p \in Pages : onPageSelected(p)
  BY <1>1, <1>11 DEF Launch, RestoreFails, RestartActivity, vars, onPageSelected
<1>12. QED
  BY <1>3, <1>4, <1>5, <1>6, <1>7, <1>8, <1>9, <1>10, <1>11 DEF Next

(***************************************************************************)
(* The lists.                                                              *)
(***************************************************************************)
LEMMA ContinuesRefl ==
    ASSUME NEW a \in TodoList
    PROVE  Personal!Continues(a, a)
BY LenProperties DEF Personal!Continues, TodoList

LEMMA ContinuesTrans ==
    ASSUME NEW a \in TodoList, NEW b \in TodoList, NEW c \in TodoList,
           Personal!Continues(a, b), Personal!Continues(b, c)
    PROVE  Personal!Continues(a, c)
BY LenProperties DEF Personal!Continues, TodoList

\* A check: the first todo of the title is replaced by a done one.
LEMMA UpdateContinues ==
    ASSUME NEW list \in TodoList, NEW todo \in Todo, todo.done
    PROVE  Personal!Continues(list, updateTodo(list, todo))
<1>1. Len(list) \in Nat
  BY LenProperties DEF TodoList
<1>2. QED
  BY <1>1, UpdateTodoType DEF Personal!Continues, FirstMatch

LEMMA SameTitlesUnique ==
    ASSUME NEW a \in TodoList, NEW b \in TodoList, Unique(a), Len(b) = Len(a),
           \A i \in 1 .. Len(a) : b[i].title = a[i].title
    PROVE  Unique(b)
BY DEF Unique

\* In a list of distinct titles the todo that is replaced is the one checked.
LEMMA UpdateChecked ==
    ASSUME NEW list \in TodoList, Unique(list), NEW i \in 1 .. Len(list)
    PROVE  LET marked == [list EXCEPT ![i].done = TRUE]
           IN  /\ updateTodo(list, marked[i]) = marked
               /\ Unique(marked)
<1> DEFINE marked == [list EXCEPT ![i].done = TRUE]
           u == updateTodo(list, marked[i])
<1>1. /\ marked \in TodoList
      /\ Len(marked) = Len(list)
      /\ marked[i] = [list[i] EXCEPT !.done = TRUE]
      /\ marked[i] \in Todo
      /\ \A j \in 1 .. Len(list) : j # i => marked[j] = list[j]
  BY MarkDone
<1>2. list[i] \in Todo /\ Len(list) \in Nat
  BY ElementOfSeq, LenProperties DEF TodoList
<1>3. marked[i].title = list[i].title
  BY <1>1, <1>2 DEF Todo
<1> HIDE DEF marked
<1>4. /\ u \in TodoList
      /\ Len(u) = Len(list)
      /\ \A j \in 1 .. Len(list) :
            u[j] = IF FirstMatch(list, j, marked[i].title) THEN marked[i] ELSE list[j]
  BY <1>1, UpdateTodoType
<1> HIDE DEF u
<1>5. \A j \in 1 .. Len(list) : FirstMatch(list, j, marked[i].title) <=> j = i
  BY <1>2, <1>3 DEF FirstMatch, Unique
<1>6. ASSUME NEW j \in 1 .. Len(list) PROVE u[j] = marked[j]
  <2>1. CASE j = i
    BY <1>4, <1>5, <2>1
  <2>2. CASE j # i
    <3>1. ~FirstMatch(list, j, marked[i].title)
      BY <1>5, <2>2
    <3>2. u[j] = list[j]
      BY <1>4, <3>1
    <3>3. QED
      BY <1>1, <2>2, <3>2
  <2>3. QED
    BY <2>1, <2>2
<1>7. u = marked
  BY <1>1, <1>4, <1>6, SeqEqual DEF TodoList
<1>8. Unique(marked)
  BY <1>1, <1>3, SameTitlesUnique
<1>9. QED
  BY <1>7, <1>8 DEF u, marked

LEMMA SeedUnique ==
    ASSUME NEW k \in Kinds
    PROVE  Unique(SeedTodos(k)) /\ SeedTodos(k) \in TodoList
<1>1. Seed[k] \in Seq(Titles) /\ DOMAIN Seed[k] = 1 .. Len(Seed[k])
  BY ConstantsAssumption, LenProperties
<1>2. \A i, j \in 1 .. Len(Seed[k]) : Seed[k][i] = Seed[k][j] => i = j
  BY <1>1, ConstantsAssumption
<1>3. SeedTodos(k) \in TodoList /\ Len(SeedTodos(k)) = Len(Seed[k])
  BY SeedTodosType
<1>4. ASSUME NEW i \in 1 .. Len(Seed[k]), NEW j \in 1 .. Len(Seed[k]),
             SeedTodos(k)[i].title = SeedTodos(k)[j].title
      PROVE  i = j
  <2>1. SeedTodos(k)[i] = NewTodo(Seed[k][i]) /\ SeedTodos(k)[j] = NewTodo(Seed[k][j])
    BY SeedTodosType
  <2>2. Seed[k][i] = Seed[k][j]
    BY <1>4, <2>1 DEF NewTodo
  <2>3. QED
    BY <1>2, <2>2
<1>5. QED
  BY <1>3, <1>4 DEF Unique

\* What TodoDatabase does to one list: each list changes alone, and in place of
\* its old content puts a continuation without duplicates.
LEMMA ListInvFrame ==
    ASSUME TypeInv, ListInv, UNCHANGED <<mem, disk, todos, next, items>>,
           stage' = stage \/ stage' \in {"dead", "idle", "user"}
              \/ (stage \in {"live", "stopped"} /\ stage' \in {"live", "stopped"})
    PROVE  ListInv'
BY DEF ListInv, InsertInv, Fetched, InsertStage, Unique

LEMMA DieLists ==
    ASSUME TypeInv, ListInv, Die
    PROVE  ListInv'
<1>1. mem' = disk /\ disk' = disk /\ stage' = "dead"
  BY DEF Die
<1>2. \A k \in Kinds : Personal!Continues(disk[k], disk[k])
  BY ContinuesRefl DEF TypeInv, TypeOK, PrefsOK
<1>3. QED
  BY <1>1, <1>2 DEF ListInv, InsertInv, Fetched, InsertStage, Unique, Kinds

LEMMA FinishLists ==
    ASSUME TypeInv, ListInv, FinishWrites, stage \in {"live", "stopped"},
           stage' = "idle" \/ (stage' = "stopped" /\ items' = items)
    PROVE  ListInv'
<1>1. mem' = mem /\ disk' = mem
  BY DEF FinishWrites
<1>2. \A k \in Kinds : Personal!Continues(mem[k], mem[k])
  BY ContinuesRefl DEF TypeInv, TypeOK, PrefsOK
<1>3. QED
  BY <1>1, <1>2 DEF ListInv, InsertInv, Fetched, InsertStage, Unique, Kinds

LEMMA WriteDiskLists ==
    ASSUME TypeInv, ListInv, WriteDisk
    PROVE  /\ ListInv'
           /\ \A k \in Kinds : disk'[k] \in {disk[k], mem[k]}
<1>1. Head(writes) \in Files
  BY HeadTailProperties DEF TypeInv, TypeOK, WriteDisk
<1>2. \A k \in Kinds : disk'[k] \in {disk[k], mem[k]}
  BY <1>1 DEF TypeInv, TypeOK, PrefsOK, WriteDisk, Kinds, Files
<1>3. \A k \in Kinds : Personal!Continues(mem[k], mem[k])
  BY ContinuesRefl DEF TypeInv, TypeOK, PrefsOK
<1>4. UNCHANGED <<stage, mem, todos, next, items>>
  BY DEF WriteDisk, fetchVars
<1>5. ASSUME NEW k \in Kinds
      PROVE  /\ Unique(mem'[k])
             /\ Unique(disk'[k])
             /\ Personal!Continues(disk'[k], mem'[k])
             /\ InsertInv(k)'
             /\ stage' \in Fetched(k) => items'[k] = mem'[k]
  BY <1>2, <1>3, <1>4 DEF ListInv, InsertInv
<1>6. QED
  BY <1>2, <1>5 DEF ListInv, Unique

LEMMA ApplyOthers ==
    ASSUME TypeInv, NEW f \in Files, NEW c, Apply(f, c)
    PROVE  mem'[f] = c /\ \A g \in Files : g # f => mem'[g] = mem[g]
BY DEF TypeInv, TypeOK, PrefsOK, Apply

LEMMA FetchLists ==
    ASSUME TypeInv, ListInv, NEW k \in Kinds, fetchTodos(k)
    PROVE  ListInv'
<1> DEFINE seeds == SeedTodos(k)
<1>1. seeds \in TodoList /\ Unique(seeds) /\ Len(<<>>) = 0 /\ Len(seeds) \in Nat
  BY SeedUnique, EmptySeq, LenProperties DEF TodoList
<1>2. seeds \o <<>> = seeds
  BY <1>1, ConcatEmptySeq DEF TodoList
<1> HIDE DEF seeds
<1>3. /\ UNCHANGED <<mem, disk>> /\ next' = 1
      /\ stage = FetchStage(k) /\ stage' = InsertStage(k)
      /\ \/ mem[k] = <<>> /\ todos' = seeds /\ items' = [items EXCEPT ![k] = seeds]
         \/ todos' = <<>> /\ items' = [items EXCEPT ![k] = mem[k]]
  BY <1>2 DEF fetchTodos, getTodos, prefVars, seeds
<1>4. \A g \in Kinds : g # k => items'[g] = items[g]
  BY <1>3 DEF TypeInv, TypeOK
<1>5. InsertInv(k)'
  BY <1>1, <1>3 DEF ListInv, InsertInv, TypeInv, TypeOK
<1>6. \A g \in Kinds : InsertInv(g)'
  BY <1>3, <1>5 DEF InsertInv, InsertStage, Kinds
<1>7. \A g \in Kinds : stage' \in Fetched(g) => items'[g] = mem'[g]
  BY <1>3, <1>4 DEF ListInv, Fetched, InsertStage, FetchStage, Kinds
<1>8. QED
  BY <1>3, <1>6, <1>7 DEF ListInv, Unique

LEMMA InsertLists ==
    ASSUME TypeInv, ListInv, NEW k \in Kinds, insertTodo(k)
    PROVE  ListInv' /\ Personal!Continues(mem[k], mem'[k])
<1> DEFINE list == Append(mem[k], todos[next])
<1>1. /\ mem[k] \in TodoList /\ disk[k] \in TodoList /\ Len(mem[k]) \in Nat
      /\ todos \in TodoList /\ Len(todos) \in Nat /\ next \in 1 .. Len(todos)
  BY LenProperties DEF TypeInv, TypeOK, PrefsOK, TodoList, insertTodo
<1>2. todos[next] \in Todo
  BY <1>1, ElementOfSeq DEF TodoList
<1>3. /\ list \in TodoList
      /\ Len(list) = Len(mem[k]) + 1
      /\ \A i \in 1 .. Len(mem[k]) : list[i] = mem[k][i]
      /\ list[Len(mem[k]) + 1] = todos[next]
  BY <1>1, <1>2, AppendTodo
<1>4. /\ mem'[k] = list
      /\ \A g \in Kinds : g # k => mem'[g] = mem[g]
  BY ApplyOthers DEF insertTodo, Files, Kinds
<1> HIDE DEF list
<1>5. /\ stage = InsertStage(k) /\ UNCHANGED <<stage, items, todos, disk>>
      /\ next' = next + 1
  BY DEF insertTodo, Apply
<1>6. /\ Unique(items[k]) /\ items[k] = todos /\ Len(mem[k]) = next - 1
      /\ \A i \in 1 .. Len(mem[k]) : mem[k][i] = todos[i]
  BY <1>1, <1>5, EmptySeq DEF ListInv, InsertInv
<1>7. Len(list) = next /\ \A i \in 1 .. Len(list) : list[i] = todos[i]
  BY <1>1, <1>3, <1>6
<1>8. Unique(list)
  BY <1>1, <1>6, <1>7 DEF Unique
<1>9. Personal!Continues(mem[k], list)
  BY <1>1, <1>3 DEF Personal!Continues
<1>10. Personal!Continues(disk[k], list)
  BY <1>1, <1>3, <1>9, ContinuesTrans DEF ListInv
<1>11. InsertInv(k)'
  BY <1>1, <1>4, <1>5, <1>6, <1>7 DEF InsertInv
<1>12. \A g \in Kinds : InsertInv(g)'
  BY <1>4, <1>5, <1>11 DEF InsertInv, InsertStage, Kinds
<1>13. \A g \in Kinds : stage' \in Fetched(g) => items'[g] = mem'[g]
  BY <1>4, <1>5 DEF ListInv, Fetched, InsertStage, Kinds
<1>14. \A g \in Kinds : Unique(mem'[g]) /\ Unique(disk'[g])
                        /\ Personal!Continues(disk'[g], mem'[g])
  BY <1>4, <1>5, <1>8, <1>10 DEF ListInv
<1>15. QED
  BY <1>4, <1>9, <1>12, <1>13, <1>14 DEF ListInv, Unique

LEMMA EndFetchLists ==
    ASSUME TypeInv, ListInv, NEW k \in Kinds, endFetch(k)
    PROVE  ListInv'
<1>1. /\ UNCHANGED <<mem, disk, items>>
      /\ stage = InsertStage(k) /\ stage' = AfterFetch(k)
      /\ next > Len(todos)
  BY DEF endFetch, prefVars
<1>2. mem[k] \in TodoList /\ todos \in TodoList /\ next \in Nat /\ Len(todos) \in Nat
  BY LenProperties DEF TypeInv, TypeOK, PrefsOK, TodoList
<1>3. items[k] = mem[k]
  <2>1. CASE items[k] = mem[k]
    BY <2>1
  <2>2. CASE /\ items[k] = todos
             /\ Len(mem[k]) = next - 1
             /\ next <= Len(todos) + 1
             /\ \A i \in 1 .. Len(mem[k]) : mem[k][i] = todos[i]
    <3>1. Len(mem[k]) = Len(todos)
      BY <1>1, <1>2, <2>2
    <3>2. mem[k] = todos
      BY <1>2, <2>2, <3>1, SeqEqual DEF TodoList
    <3>3. QED
      BY <2>2, <3>2
  <2>3. QED
    BY <1>1, <2>1, <2>2 DEF ListInv, InsertInv
<1>4. \A g \in Kinds : stage' \in Fetched(g) => items'[g] = mem'[g]
  BY <1>1, <1>3 DEF ListInv, Fetched, InsertStage, AfterFetch, Kinds
<1>5. \A g \in Kinds : InsertInv(g)'
  BY <1>1 DEF InsertInv, InsertStage, AfterFetch, Kinds
<1>6. QED
  BY <1>1, <1>4, <1>5 DEF ListInv, Unique

LEMMA CheckLists ==
    ASSUME TypeInv, ListInv, onCheckedChanged
    PROVE  \/ Die
           \/ /\ ListInv'
              /\ disk' = disk
              /\ \A k \in Kinds : Personal!Continues(mem[k], mem'[k])
<1> DEFINE f == frag[current]
           k == f.list
<1>1. f \in Fragment /\ f.db = f.list /\ f.boxes \subseteq 1 .. Len(items[f.list])
  BY DEF onCheckedChanged, TypeInv, TypeOK, FragmentsOK
<1>2. k \in Kinds /\ k \in Files /\ f.db = k
  BY <1>1 DEF Fragment, Files
<1>3. PICK i \in f.boxes :
        \/ Die
        \/ LET list == [items[k] EXCEPT ![i].done = TRUE]
           IN  /\ items' = [items EXCEPT ![k] = list]
               /\ Apply(f.db, updateTodo(mem[f.db], list[i]))
               /\ UNCHANGED <<stage, todos, next>>
  BY DEF onCheckedChanged
<1> DEFINE list == [items[k] EXCEPT ![i].done = TRUE]
<1>4. CASE Die
  BY <1>4
<1>5. CASE /\ items' = [items EXCEPT ![k] = list]
           /\ Apply(f.db, updateTodo(mem[f.db], list[i]))
           /\ UNCHANGED <<stage, todos, next>>
  <2>1. stage = "live" /\ stage' = "live" /\ items[k] = mem[k] /\ Unique(items[k])
        /\ items[k] \in TodoList /\ i \in 1 .. Len(items[k]) /\ disk[k] \in TodoList
    BY <1>1, <1>2, <1>5 DEF onCheckedChanged, ListInv, Fetched, TypeInv, TypeOK, PrefsOK
  <2>2. /\ list \in TodoList /\ list[i] \in Todo
        /\ list[i] = [items[k][i] EXCEPT !.done = TRUE]
    BY <2>1, MarkDone
  <2>3. updateTodo(items[k], list[i]) = list /\ Unique(list)
    BY <2>1, UpdateChecked
  <2>4. items[k][i] \in Todo
    BY <2>1, ElementOfSeq DEF TodoList
  <2>5. list[i].done
    BY <2>2, <2>4 DEF Todo
  <2> HIDE DEF list
  <2>6. Personal!Continues(items[k], list)
    BY <2>1, <2>2, <2>3, <2>5, UpdateContinues
  <2>7. mem'[k] = list /\ items'[k] = list /\ disk' = disk
        /\ \A g \in Kinds : g # k => mem'[g] = mem[g] /\ items'[g] = items[g]
    BY <1>2, <1>5, <2>1, <2>3, ApplyOthers DEF Apply, TypeInv, TypeOK, Files
  <2>8. Personal!Continues(disk[k], list)
    BY <1>2, <2>1, <2>2, <2>6, ContinuesTrans DEF ListInv
  <2>9. \A g \in Kinds : Personal!Continues(mem[g], mem'[g])
    BY <2>1, <2>6, <2>7, ContinuesRefl DEF TypeInv, TypeOK, PrefsOK
  <2>10. \A g \in Kinds :
            /\ Unique(mem'[g]) /\ Unique(disk'[g])
            /\ Personal!Continues(disk'[g], mem'[g])
            /\ InsertInv(g)'
            /\ stage' \in Fetched(g) => items'[g] = mem'[g]
    BY <2>1, <2>3, <2>7, <2>8 DEF ListInv, InsertInv, InsertStage, Fetched
  <2>11. QED
    BY <2>7, <2>9, <2>10 DEF ListInv, Unique
<1>6. QED
  BY <1>3, <1>4, <1>5

\* A list is left alone, continued in memory, written behind, or thrown back.
ListsStep ==
    \/ Die
    \/ disk' = disk /\ \A k \in Kinds : Personal!Continues(mem[k], mem'[k])
    \/ mem' = mem /\ \A k \in Kinds : disk'[k] \in {disk[k], mem[k]}

LEMMA ListStep ==
    ASSUME TypeInv, ListInv, [Next]_vars
    PROVE  ListInv' /\ ListsStep
<1> USE DEF prefVars, fetchVars, pageVars
<1>1. CASE /\ UNCHANGED <<mem, disk, todos, next, items>>
           /\ \/ stage' = stage \/ stage' \in {"dead", "idle", "user"}
              \/ stage \in {"live", "stopped"} /\ stage' \in {"live", "stopped"}
  BY <1>1, ListInvFrame DEF ListsStep
<1>2. CASE Die
  BY <1>2, DieLists DEF ListsStep
<1>3. CASE createUser
  <2>1. /\ UNCHANGED <<disk, todos, next, items>>
        /\ mem' = mem \/ \E id : Apply("user", id)
        /\ stage' = "fetch_personal"
    BY <1>3 DEF createUser, Apply
  <2>2. \A k \in Kinds : mem'[k] = mem[k]
    BY <2>1, ApplyOthers DEF Files, Kinds
  <2>3. ListInv'
    BY <2>1, <2>2 DEF ListInv, InsertInv, InsertStage, Fetched, Unique, Kinds
  <2>4. \A k \in Kinds : Personal!Continues(mem[k], mem'[k])
    BY <2>2, ContinuesRefl DEF TypeInv, TypeOK, PrefsOK
  <2>5. QED
    BY <2>1, <2>3, <2>4 DEF ListsStep
<1>4. ASSUME NEW k \in Kinds, fetchTodos(k) PROVE ListInv' /\ ListsStep
  BY <1>4, FetchLists DEF fetchTodos, ListsStep
<1>5. ASSUME NEW k \in Kinds, insertTodo(k) PROVE ListInv' /\ ListsStep
  <2>1. \A g \in Kinds : g # k => mem'[g] = mem[g]
    BY <1>5, ApplyOthers DEF insertTodo, Files, Kinds
  <2>2. \A g \in Kinds : Personal!Continues(mem[g], mem'[g])
    BY <1>5, <2>1, InsertLists, ContinuesRefl DEF TypeInv, TypeOK, PrefsOK
  <2>3. QED
    BY <1>5, <2>2, InsertLists DEF ListsStep, insertTodo, Apply
<1>6. ASSUME NEW k \in Kinds, endFetch(k) PROVE ListInv' /\ ListsStep
  BY <1>6, EndFetchLists DEF endFetch, ListsStep
<1>7. ASSUME NEW p \in Pages, LayoutPage(p) PROVE ListInv' /\ ListsStep
  BY <1>1, <1>2, <1>7 DEF LayoutPage
<1>8. ASSUME NEW t \in Times, updateLocationAndTime(t) PROVE ListInv' /\ ListsStep
  BY <1>1, <1>2, <1>8 DEF updateLocationAndTime
<1>9. CASE onCheckedChanged
  BY <1>2, <1>9, CheckLists DEF ListsStep
<1>10. CASE StopActivity \/ FinishActivity
  BY <1>10, FinishLists DEF StopActivity, FinishActivity, FinishWrites, ListsStep
<1>11. CASE WriteDisk
  BY <1>11, WriteDiskLists DEF WriteDisk, ListsStep
<1>12. CASE Kill
  BY <1>2, <1>12 DEF Kill
<1>13. CASE Launch \/ RestoreFails \/ RestartActivity \/ UNCHANGED vars
             \/ \E p \in Pages : onPageSelected(p)
  BY <1>1, <1>13 DEF Launch, RestoreFails, RestartActivity, vars, onPageSelected
<1>14. QED
  BY <1>3, <1>4, <1>5, <1>6, <1>7, <1>8, <1>9, <1>10, <1>11, <1>12, <1>13 DEF Next

(***************************************************************************)
(* The theorems.                                                           *)
(***************************************************************************)
Inv == TypeInv /\ UserInv /\ ListInv

THEOREM InvCorrect == Spec => []Inv
<1>1. Init => Inv
  <2> SUFFICES ASSUME Init PROVE Inv
    OBVIOUS
  <2>1. TypeInv
    BY TypeInit DEF Init, TypeInv, FragmentsOK, NoFragments, Adapter
  <2>2. mem["user"] = None /\ \A k \in Kinds : mem[k] = <<>>
    BY DEF Init, Files, Kinds
  <2>3. Len(<<>>) = 0
    BY EmptySeq
  <2>4. UserInv
    BY <2>2, <2>3 DEF Init, UserInv, UserBeforeTodos
  <2>5. ListInv
    BY <2>2, <2>3 DEF Init, ListInv, InsertInv, InsertStage, Fetched, Unique, Kinds,
                      Personal!Continues
  <2>6. QED
    BY <2>1, <2>4, <2>5 DEF Inv
<1>2. Inv /\ [Next]_vars => Inv'
  BY TypeStep, FragmentsStep, UserStep, ListStep DEF Inv, TypeInv
<1>3. QED
  BY <1>1, <1>2, PTL DEF Spec

\* Whatever is killed during the first launch, no list reaches the disk before
\* the user it belongs to (createUser runs before fetchPersonalTodos).
THEOREM UserFirst == Spec => []UserBeforeTodos
<1>1. Inv => UserBeforeTodos
  BY DEF Inv, UserInv
<1>2. QED
  BY <1>1, InvCorrect, PTL

\* A user that reached the disk is never replaced, and is the only user any
\* later launch shows (UserData.getUser, UserManager).
THEOREM UserIsKept == Spec => UserKept
<1>1. Inv /\ [Next]_vars => [UserUnchanged]_vars
  BY UserStep DEF Inv
<1>2. UserUnchanged <=> (disk["user"] # None =>
                           /\ disk'["user"] = disk["user"]
                           /\ user' \in {None, disk["user"]})
  BY DEF UserUnchanged
<1>3. QED
  BY <1>1, <1>2, InvCorrect, PTL DEF Spec, UserKept

\* The list object a page draws equals its preference file while the activity
\* lives, through every check, location fix and write-behind.
THEOREM ViewIsStored == Spec => []ViewMatchesStore
<1>1. Inv => ViewMatchesStore
  BY DEF Inv, ListInv, ViewMatchesStore, Fetched
<1>2. QED
  BY <1>1, InvCorrect, PTL

\* No list holds a title twice, so updateTodo replaces the todo that was checked.
THEOREM TitlesAreUnique == Spec => []UniqueTitles
<1>1. Inv => UniqueTitles
  <2> SUFFICES ASSUME Inv, NEW k \in Kinds, NEW i \in DOMAIN mem[k],
                      NEW j \in DOMAIN mem[k], mem[k][i].title = mem[k][j].title
               PROVE  i = j
    BY DEF UniqueTitles
  <2>1. DOMAIN mem[k] = 1 .. Len(mem[k])
    BY LenProperties DEF Inv, TypeInv, TypeOK, PrefsOK, TodoList
  <2>2. QED
    BY <2>1 DEF Inv, ListInv, Unique
<1>2. QED
  BY <1>1, InvCorrect, PTL

\* Each preference file is a write-behind todo list: no todo is lost and no
\* check forgotten except by a crash, which falls back to the file's contents
\* (TodoDatabase over SharedPreferences.apply).
THEOREM ListsRefine == Spec => ListsAreDurable
<1>1. Init => Personal!Init /\ Group!Init
  BY DEF Init, Files, Kinds, Personal!Init, Group!Init
<1>2. ASSUME Inv, [Next]_vars, NEW k \in Kinds
      PROVE  \/ mem'[k] = disk[k] /\ disk'[k] = disk[k]
             \/ Personal!Continues(mem[k], mem'[k]) /\ disk'[k] = disk[k]
             \/ /\ disk'[k] = mem[k] /\ mem'[k] = mem[k]
                /\ Personal!Continues(disk[k], disk'[k])
  <2>1. ListsStep /\ Personal!Continues(disk[k], mem[k])
    BY <1>2, ListStep DEF Inv, ListInv
  <2>2. Personal!Continues(mem[k], mem[k])
    BY <1>2, ContinuesRefl DEF Inv, TypeInv, TypeOK, PrefsOK
  <2>3. QED
    BY <2>1, <2>2 DEF ListsStep, Die
<1>3. Inv /\ [Next]_vars => [Personal!Next]_<<mem["personal"], disk["personal"]>>
  BY <1>2 DEF Kinds, Personal!Next, Personal!Work, Personal!Persist, Personal!Crash,
              Personal!Continues
<1>4. Inv /\ [Next]_vars => [Group!Next]_<<mem["group"], disk["group"]>>
  BY <1>2 DEF Kinds, Group!Next, Group!Work, Group!Persist, Group!Crash,
              Personal!Continues, Group!Continues
<1>5. QED
  BY <1>1, <1>3, <1>4, InvCorrect, PTL
     DEF Spec, ListsAreDurable, Personal!Spec, Group!Spec

(***************************************************************************)
(* Without drags.                                                          *)
(***************************************************************************)
LEMMA TabStep ==
    ASSUME ~Drags, TypeInv, TabInv, [Next]_vars
    PROVE  TabInv'
<1> USE DEF TypeInv, TabInv, prefVars, fetchVars, pageVars
<1>1. CASE UNCHANGED <<items, adapter, current, frag>>
  BY <1>1 DEF PageShowsItsTab, BoxesAreFresh, NotDone
<1>2. CASE ForgetActivity
  BY <1>2 DEF ForgetActivity, PageShowsItsTab, BoxesAreFresh, NoFragments, Adapter, KindOf
<1>3. ASSUME NEW p \in Pages, onPageSelected(p) PROVE TabInv'
  BY <1>3 DEF onPageSelected, PageShowsItsTab, BoxesAreFresh, NotDone
<1>4. ASSUME NEW f \in Fragment, f.list = KindOf(current), f.db = KindOf(current),
             NEW list \in TodoList, Draw(current, f, list),
             items' = [items EXCEPT ![f.list] = list],
             UNCHANGED <<adapter, current>>
      PROVE  TabInv'
  <2>1. /\ current \in Pages /\ f.list \in Kinds
        /\ items'[f.list] = list
        /\ \A k \in Kinds : k # f.list => items'[k] = items[k]
    BY <1>4 DEF TypeOK, Fragment
  <2>2. /\ frag'[current] = [f EXCEPT !.boxes = NotDone(list)]
        /\ \A q \in Pages : q # current => frag'[q] = frag[q]
    BY <1>4, <2>1 DEF Draw, TypeOK
  <2>3. /\ frag'[current].list = KindOf(current)
        /\ frag'[current].db = KindOf(current)
        /\ frag'[current].boxes = NotDone(items'[KindOf(current)])
    BY <1>4, <2>1, <2>2 DEF Fragment
  <2>4. \A q \in Pages : q # current => KindOf(q) \in Kinds /\ KindOf(q) # KindOf(current)
    BY <2>1 DEF Pages, KindOf, Kinds
  <2>5. ASSUME NEW q \in Pages, q # current, frag'[q] # None
        PROVE  /\ frag'[q].list = KindOf(q)
               /\ frag'[q].db = KindOf(q)
               /\ frag'[q].boxes = NotDone(items'[frag'[q].list])
    <3>1. frag'[q] = frag[q] /\ items'[KindOf(q)] = items[KindOf(q)]
      BY <1>4, <2>1, <2>2, <2>4, <2>5
    <3>2. QED
      BY <2>5, <3>1 DEF PageShowsItsTab, BoxesAreFresh
  <2>6. QED
    BY <1>4, <2>3, <2>5 DEF PageShowsItsTab, BoxesAreFresh
<1>5. ASSUME NEW p \in Pages, LayoutPage(p) PROVE TabInv'
  <2> DEFINE f == createFragment(p)
  <2>1. /\ f \in Fragment /\ items[f.list] \in TodoList
        /\ f.list = KindOf(current) /\ f.db = KindOf(current) /\ p = current
    BY <1>5, ConstantsAssumption
       DEF LayoutPage, createFragment, Fragment, TypeOK, Adapter
  <2>2. CASE Die
    BY <1>2, <2>2 DEF Die
  <2>3. CASE Draw(p, f, items[f.list]) /\ UNCHANGED <<items, adapter, current>>
    <3>1. items' = [items EXCEPT ![f.list] = items[f.list]]
      BY <2>1, <2>3 DEF TypeOK
    <3>2. QED
      BY <1>4, <2>1, <2>3, <3>1
  <2>4. QED
    BY <1>5, <2>2, <2>3 DEF LayoutPage
<1>6. ASSUME NEW t \in Times, updateLocationAndTime(t) PROVE TabInv'
  <2> DEFINE f == [frag[current] EXCEPT !.time = t]
  <2>1. /\ frag[current] \in Fragment
        /\ frag[current].list = KindOf(current) /\ frag[current].db = KindOf(current)
    BY <1>6 DEF updateLocationAndTime, TypeOK, PageShowsItsTab
  <2>2. f \in Fragment /\ f.list = KindOf(current) /\ f.db = KindOf(current)
    BY <2>1 DEF Fragment
  <2>3. items[f.list] \in TodoList
    BY <2>2 DEF Fragment, TypeOK
  <2>4. CASE Die
    BY <1>2, <2>4 DEF Die
  <2>5. CASE Draw(current, f, items[f.list]) /\ UNCHANGED <<items, adapter, current>>
    <3>1. items' = [items EXCEPT ![f.list] = items[f.list]]
      BY <2>3, <2>5 DEF TypeOK
    <3>2. QED
      BY <1>4, <2>2, <2>3, <2>5, <3>1
  <2>6. QED
    BY <1>6, <2>4, <2>5 DEF updateLocationAndTime
<1>7. CASE onCheckedChanged
  <2> DEFINE f == frag[current]
  <2>1. /\ f \in Fragment /\ f.boxes \subseteq 1 .. Len(items[f.list])
        /\ f.list = KindOf(current) /\ f.db = KindOf(current)
    BY <1>7 DEF onCheckedChanged, TypeOK, PageShowsItsTab, FragmentsOK
  <2>2. PICK i \in f.boxes :
          \/ Die
          \/ LET list == [items[f.list] EXCEPT ![i].done = TRUE]
             IN  /\ items' = [items EXCEPT ![f.list] = list]
                 /\ Draw(current, f, list)
                 /\ UNCHANGED <<adapter, current>>
    BY <1>7 DEF onCheckedChanged
  <2> DEFINE list == [items[f.list] EXCEPT ![i].done = TRUE]
  <2>3. CASE Die
    BY <1>2, <2>3 DEF Die
  <2>4. CASE /\ items' = [items EXCEPT ![f.list] = list]
             /\ Draw(current, f, list)
             /\ UNCHANGED <<adapter, current>>
    <3>1. items[f.list] \in TodoList
      BY <2>1 DEF Fragment, TypeOK
    <3>2. list \in TodoList
      BY <2>1, <3>1, MarkDone
    <3>3. QED
      BY <1>4, <2>1, <2>4, <3>2
  <2>5. QED
    BY <2>2, <2>3, <2>4
<1>8. CASE FinishActivity \/ Kill
  BY <1>2, <1>8 DEF FinishActivity, Kill, Die
<1>9. CASE \/ Launch \/ RestoreFails \/ createUser
           \/ StopActivity \/ RestartActivity \/ WriteDisk \/ UNCHANGED vars
  BY <1>1, <1>9 DEF Launch, RestoreFails, createUser, StopActivity, RestartActivity,
                    WriteDisk, vars
<1>10. ASSUME NEW k \in Kinds, fetchTodos(k) \/ insertTodo(k) \/ endFetch(k)
       PROVE  TabInv'
  <2>1. /\ UNCHANGED <<adapter, current, frag>>
        /\ stage \notin {"live", "stopped"}
    BY <1>10 DEF fetchTodos, insertTodo, endFetch, FetchStage, InsertStage
  <2>2. \A p \in Pages : frag[p] = None
    BY <2>1 DEF FragmentsOK
  <2>3. QED
    BY <2>1, <2>2 DEF PageShowsItsTab, BoxesAreFresh
<1>11. QED
  BY <1>3, <1>5, <1>6, <1>7, <1>8, <1>9, <1>10 DEF Next

LEMMA TabInvCorrect ==
    ASSUME ~Drags
    PROVE  Spec => []TabInv
<1>1. Init => TabInv
  BY DEF Init, TabInv, PageShowsItsTab, BoxesAreFresh, NoFragments, Adapter, KindOf
<1>2. Inv /\ TabInv /\ [Next]_vars => TabInv'
  BY TabStep DEF Inv
<1>3. QED
  BY <1>1, <1>2, InvCorrect, PTL DEF Spec

\* As long as pages are selected by their tabs and never dragged, each page
\* shows, and writes to, the list its tab names (TodoPageAdapter.updateItems).
THEOREM TabsShowTheirList ==
    ASSUME ~Drags
    PROVE  Spec => []PageShowsItsTab
<1>1. TabInv => PageShowsItsTab
  BY DEF TabInv
<1>2. QED
  BY <1>1, TabInvCorrect, PTL

\* ... and offers a box for exactly the todos that are not done, although a
\* check redraws only the page it was made on (renderTodoList).
THEOREM BoxesStayFresh ==
    ASSUME ~Drags
    PROVE  Spec => []BoxesAreFresh
<1>1. TabInv => BoxesAreFresh
  BY DEF TabInv
<1>2. QED
  BY <1>1, TabInvCorrect, PTL

\* What is stored is what is shown: the three promises of StoredTodos at once
\* (UserData.updateTodo, TodoDatabase and MainActivity's first launch).
THEOREM StoredIsShown == Spec => []StoredTodos
<1>1. ViewMatchesStore /\ UniqueTitles /\ UserBeforeTodos => StoredTodos
  BY DEF StoredTodos
<1>2. QED
  BY <1>1, ViewIsStored, TitlesAreUnique, UserFirst, PTL

\* Without dragging, pages are those of their tabs and their boxes are fresh.
THEOREM TabsStayRight ==
    ASSUME ~Drags
    PROVE  Spec => []TabsAreRight
<1>1. PageShowsItsTab /\ BoxesAreFresh => TabsAreRight
  BY DEF TabsAreRight
<1>2. QED
  BY <1>1, TabsShowTheirList, BoxesStayFresh, PTL
=============================================================================
