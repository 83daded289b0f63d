---------------------------- MODULE JackGraphProofs ----------------------------
(***************************************************************************)
(* What GraphInv says of the connections and of the two relations kept     *)
(* beside them, for any number of clients, ports and connections.          *)
(*                                                                         *)
(* GraphInv is not inductive: what a step does to the feeds lists depends  *)
(* on the direction of each connection being the one its clients call for, *)
(* on a client's fedcount being the number of connections into it, and on  *)
(* each client being listed once. GraphIInv says these. The sort is shown  *)
(* to keep the members of the list, the check for cycles to succeed only   *)
(* on a graph without one, and, when nothing was left in a fedcount, to    *)
(* fail only on a graph that has one.                                      *)
(***************************************************************************)
EXTENDS JackGraph, SequenceTheorems, FiniteSetTheorems, TLAPS

Once(q) == \A i, j \in DOMAIN q : q[i] = q[j] => i = j

\* A set of naturals that is not empty has a least one.
LEMMA LeastExists ==
    ASSUME NEW T \in SUBSET Nat, T # {}
    PROVE  \E x \in T : \A y \in T : x <= y
<1> DEFINE Below(n) == 0 .. n
           B == {Below(n) : n \in T}
<1>1. B \subseteq FiniteSubsetsOf(Nat)
  <2> SUFFICES ASSUME NEW n \in T PROVE Below(n) \in FiniteSubsetsOf(Nat)
    OBVIOUS
  <2>1. IsFiniteSet(0 .. n)
    BY FS_Interval
  <2>2. QED
    BY <2>1 DEF FiniteSubsetsOf
<1>2. B # {}
  OBVIOUS
<1>3. PICK b \in B : \A c \in B : ~(<<c, b>> \in StrictSubsetOrdering(Nat))
  <2> HIDE DEF B
  <2>1. QED
    BY <1>1, <1>2, WFMin, FS_StrictSubsetOrderingWellFounded
<1>4. PICK m \in T : b = Below(m)
  OBVIOUS
<1>5. ASSUME NEW k \in T, k < m PROVE FALSE
  <2>1. Below(k) \in B /\ Below(k) \subseteq Below(m) /\ Below(k) # Below(m)
    BY <1>5
  <2>2. <<Below(k), b>> \in StrictSubsetOrdering(Nat)
    BY <2>1, <1>4 DEF StrictSubsetOrdering
  <2>3. QED
    BY <2>1, <2>2, <1>3
<1>6. QED
  BY <1>5

\* RemoveAt closes the gap.
LEMMA RemoveAtCloses ==
    ASSUME NEW S, NEW s \in Seq(S), NEW i \in DOMAIN s
    PROVE  /\ RemoveAt(s, i) \in Seq(S) /\ Len(RemoveAt(s, i)) = Len(s) - 1
           /\ \A j \in 1 .. Len(s) - 1 : RemoveAt(s, i)[j] = IF j < i THEN s[j] ELSE s[j + 1]
<1> DEFINE l == SubSeq(s, 1, i - 1)
           r == SubSeq(s, i + 1, Len(s))
<1>1. Len(s) \in Nat /\ i \in 1 .. Len(s)
  OBVIOUS
<1>2. l \in Seq(S) /\ Len(l) = i - 1 /\ \A j \in 1 .. i - 1 : l[j] = s[j]
  BY <1>1
<1>3. r \in Seq(S) /\ Len(r) = Len(s) - i /\ \A j \in 1 .. Len(s) - i : r[j] = s[i + j]
  BY <1>1
<1> HIDE DEF l, r
<1>4. l \o r \in Seq(S) /\ Len(l \o r) = Len(s) - 1
  BY <1>1, <1>2, <1>3
<1>5. ASSUME NEW j \in 1 .. Len(s) - 1 PROVE (l \o r)[j] = IF j < i THEN s[j] ELSE s[j + 1]
  <2>1. CASE j < i
    BY <1>1, <1>2, <1>3, <2>1
  <2>2. CASE ~(j < i)
    <3>1. (l \o r)[j] = r[j - (i - 1)] /\ j - (i - 1) \in 1 .. Len(s) - i
      BY <1>1, <1>2, <1>3, <2>2
    <3>2. i + (j - (i - 1)) = j + 1
      BY <1>1
    <3>3. QED
      BY <1>3, <3>1, <3>2, <2>2
  <2>3. QED
    BY <2>1, <2>2
<1>6. QED
  BY <1>4, <1>5 DEF RemoveAt, l, r

\* It takes one element away from a list that has none twice.
LEMMA RemoveAtTakesOne ==
    ASSUME NEW S, NEW s \in Seq(S), NEW i \in DOMAIN s,
           \A m, n \in DOMAIN s : s[m] = s[n] => m = n
    PROVE  /\ RemoveAt(s, i) \in Seq(S)
           /\ \A m, n \in DOMAIN RemoveAt(s, i) : RemoveAt(s, i)[m] = RemoveAt(s, i)[n] => m = n
           /\ ToSet(RemoveAt(s, i)) = ToSet(s) \ {s[i]}
<1> DEFINE t == RemoveAt(s, i)
<1>1. /\ t \in Seq(S) /\ Len(t) = Len(s) - 1
      /\ \A j \in 1 .. Len(s) - 1 : t[j] = IF j < i THEN s[j] ELSE s[j + 1]
  BY RemoveAtCloses
<1>2. Len(s) \in Nat /\ i \in 1 .. Len(s) /\ DOMAIN s = 1 .. Len(s) /\ DOMAIN t = 1 .. Len(s) - 1
  BY <1>1
<1> HIDE DEF t
<1>3. \A m, n \in DOMAIN t : t[m] = t[n] => m = n
  <2> SUFFICES ASSUME NEW m \in DOMAIN t, NEW n \in DOMAIN t, t[m] = t[n] PROVE m = n
    OBVIOUS
  <2> DEFINE From(j) == IF j < i THEN j ELSE j + 1
  <2>1. t[m] = s[From(m)] /\ t[n] = s[From(n)] /\ From(m) \in DOMAIN s /\ From(n) \in DOMAIN s
    BY <1>1, <1>2
  <2>2. From(m) = From(n)
    BY <2>1
  <2>3. QED
    BY <2>2, <1>2
<1>4. ASSUME NEW x \in ToSet(t) PROVE x \in ToSet(s) \ {s[i]}
  <2>1. PICK j \in DOMAIN t : x = t[j]
    BY DEF ToSet
  <2>2. CASE j < i
    BY <2>1, <2>2, <1>1, <1>2 DEF ToSet
  <2>3. CASE ~(j < i)
    BY <2>1, <2>3, <1>1, <1>2 DEF ToSet
  <2>4. QED
    BY <2>2, <2>3
<1>5. ASSUME NEW x \in ToSet(s) \ {s[i]} PROVE x \in ToSet(t)
  <2>1. PICK j \in DOMAIN s : x = s[j] /\ j # i
    BY DEF ToSet
  <2>2. CASE j < i
    <3>1. j \in DOMAIN t /\ t[j] = x
      BY <2>1, <2>2, <1>1, <1>2
    <3>2. QED
      BY <3>1 DEF ToSet
  <2>3. CASE j > i
    <3>1. j - 1 \in DOMAIN t /\ t[j - 1] = x
      BY <2>1, <2>3, <1>1, <1>2
    <3>2. QED
      BY <3>1 DEF ToSet
  <2>4. QED
    BY <2>1, <2>2, <2>3, <1>2
<1>6. QED
  BY <1>1, <1>3, <1>4, <1>5 DEF t

------------------------------------------------------------------------------
(* Reachability: what a client feeds, directly or through others.             *)

\* A client feeds those on its list ...
LEMMA FedHas ==
    ASSUME NEW feeds, NEW c \in Clients, NEW d \in Clients, feeds[c][d] > 0
    PROVE  d \in Fed(feeds, c)
BY DEF Fed

\* ... and those on the lists of the clients it feeds ...
LEMMA FedGoesOn ==
    ASSUME NEW feeds, NEW c \in Clients, NEW d \in Fed(feeds, c),
           NEW e \in Clients, feeds[d][e] > 0
    PROVE  e \in Fed(feeds, c)
<1> SUFFICES ASSUME NEW S \in SUBSET Clients,
                    {x \in Clients : feeds[c][x] > 0} \subseteq S, Closed(feeds, S)
             PROVE  e \in S
  BY DEF Fed
<1>1. d \in S
  BY DEF Fed
<1>2. QED
  BY <1>1 DEF Closed

\* ... and nothing else.
LEMMA FedWithin ==
    ASSUME NEW feeds, NEW c \in Clients, NEW S \in SUBSET Clients,
           \A d \in Clients : feeds[c][d] > 0 => d \in S,
           \A d \in S, e \in Clients : feeds[d][e] > 0 => e \in S
    PROVE  Fed(feeds, c) \subseteq S
BY DEF Fed, Closed

LEMMA FedIsClients ==
    ASSUME NEW feeds, NEW c
    PROVE  Fed(feeds, c) \subseteq Clients
BY DEF Fed

\* What is fed by one that is fed is fed.
LEMMA FedThrough ==
    ASSUME NEW feeds, NEW c \in Clients, NEW d \in Fed(feeds, c), NEW e \in Fed(feeds, d)
    PROVE  e \in Fed(feeds, c)
<1> DEFINE S == Fed(feeds, c)
<1>1. S \in SUBSET Clients /\ d \in Clients
  BY FedIsClients
<1>2. \A x \in Clients : feeds[d][x] > 0 => x \in S
  BY FedGoesOn
<1>3. \A x \in S, y \in Clients : feeds[x][y] > 0 => y \in S
  BY FedGoesOn
<1>4. Fed(feeds, d) \subseteq S
  <2> HIDE DEF S
  <2>1. QED
    BY <1>1, <1>2, <1>3, FedWithin
<1>5. QED
  BY <1>4

\* Lists with fewer clients feed fewer.
LEMMA FewerFeedFewer ==
    ASSUME NEW feeds, NEW fewer, NEW c \in Clients,
           \A x, y \in Clients : fewer[x][y] > 0 => feeds[x][y] > 0
    PROVE  Fed(fewer, c) \subseteq Fed(feeds, c)
<1> DEFINE S == Fed(feeds, c)
<1>1. S \in SUBSET Clients
  BY FedIsClients
<1>2. \A x \in Clients : fewer[c][x] > 0 => x \in S
  BY FedHas
<1>3. \A x \in S, y \in Clients : fewer[x][y] > 0 => y \in S
  BY FedGoesOn, <1>1
<1> HIDE DEF S
<1>4. Fed(fewer, c) \subseteq S
  BY <1>1, <1>2, <1>3, FedWithin
<1>5. QED
  BY <1>4 DEF S

LEMMA FewerAcyclic ==
    ASSUME NEW feeds, NEW fewer, ~Cyclic(feeds),
           \A x, y \in Clients : fewer[x][y] > 0 => feeds[x][y] > 0
    PROVE  ~Cyclic(fewer)
BY FewerFeedFewer DEF Cyclic

\* One client more on a list closes no cycle when there is no way back ...
LEMMA ForwardAcyclic ==
    ASSUME NEW feeds, NEW more, ~Cyclic(feeds), NEW s \in Clients, NEW t \in Clients,
           s # t, s \notin Fed(feeds, t),
           \A x, y \in Clients : more[x][y] > 0 => feeds[x][y] > 0 \/ (x = s /\ y = t)
    PROVE  ~Cyclic(more)
<1> SUFFICES ASSUME NEW c \in Clients, c \in Fed(more, c) PROVE FALSE
  BY DEF Cyclic
<1>1. c \notin Fed(feeds, c)
  BY DEF Cyclic
<1> DEFINE Beyond == IF c = s \/ s \in Fed(feeds, c) THEN {t} \cup Fed(feeds, t) ELSE {}
           S == Fed(feeds, c) \cup Beyond
<1>2. S \in SUBSET Clients
  BY FedIsClients
<1>3. \A x \in Clients : more[c][x] > 0 => x \in S
  BY FedHas
<1>4. ASSUME NEW x \in S, NEW y \in Clients, more[x][y] > 0 PROVE y \in S
  <2>1. x \in Clients
    BY <1>2
  <2>2. CASE x = s /\ y = t
    <3>1. CASE x \in Fed(feeds, c)
      BY <2>2, <3>1
    <3>2. CASE x \in Beyond
      BY <2>2, <3>2
    <3>3. QED
      BY <3>1, <3>2
  <2>3. CASE feeds[x][y] > 0
    <3>1. CASE x \in Fed(feeds, c)
      BY <2>3, <3>1, FedGoesOn
    <3>2. CASE x \in Beyond /\ x = t
      BY <2>3, <3>2, FedHas
    <3>3. CASE x \in Beyond /\ x # t
      <4>1. x \in Fed(feeds, t)
        BY <3>3
      <4>2. y \in Fed(feeds, t)
        BY <2>3, <4>1, FedGoesOn
      <4>3. QED
        BY <3>3, <4>2
    <3>4. QED
      BY <3>1, <3>2, <3>3
  <2>4. QED
    BY <1>4, <2>1, <2>2, <2>3
<1>5. c \in S
  <2> HIDE DEF S
  <2>1. Fed(more, c) \subseteq S
    BY <1>2, <1>3, <1>4, FedWithin
  <2>2. QED
    BY <2>1
<1>6. (c = s \/ s \in Fed(feeds, c)) /\ (c = t \/ c \in Fed(feeds, t))
  BY <1>1, <1>5
<1>7. CASE c = s
  BY <1>6, <1>7
<1>8. CASE s \in Fed(feeds, c)
  BY <1>6, <1>8, FedThrough
<1>9. QED
  BY <1>6, <1>7, <1>8

\* ... and none when there is a way already.
LEMMA AlongAcyclic ==
    ASSUME NEW feeds, NEW more, ~Cyclic(feeds), NEW s \in Clients, NEW t \in Clients,
           t \in Fed(feeds, s),
           \A x, y \in Clients : more[x][y] > 0 => feeds[x][y] > 0 \/ (x = s /\ y = t)
    PROVE  ~Cyclic(more)
<1> SUFFICES ASSUME NEW c \in Clients PROVE Fed(more, c) \subseteq Fed(feeds, c)
  BY DEF Cyclic
<1> DEFINE S == Fed(feeds, c)
<1>1. S \in SUBSET Clients
  BY FedIsClients
<1>2. \A x \in Clients : more[c][x] > 0 => x \in S
  BY FedHas
<1>3. \A x \in S, y \in Clients : more[x][y] > 0 => y \in S
  BY <1>1, FedGoesOn, FedThrough
<1> HIDE DEF S
<1>4. Fed(more, c) \subseteq S
  BY <1>1, <1>2, <1>3, FedWithin
<1>5. QED
  BY <1>4 DEF S

------------------------------------------------------------------------------
(* Sorting: the list keeps its length and its members.                        *)

\* One turn of the merge.
MergeStep(first, l1, l2, n, m) ==
    IF n = 0 THEN [i |-> 0, j |-> 0, out |-> <<>>]
    ELSE IF m.i < Len(l1)
            /\ (m.j = Len(l2) \/ <<l1[m.i + 1], l2[m.j + 1]>> \in first)
         THEN [i |-> m.i + 1, j |-> m.j, out |-> Append(m.out, l1[m.i + 1])]
         ELSE [i |-> m.i, j |-> m.j + 1, out |-> Append(m.out, l2[m.j + 1])]

Merges(first, l1, l2, n, f) ==
    f = [k \in 0 .. n |-> MergeStep(first, l1, l2, k, f[k - 1])]

\* The loop exists up to every turn.
LEMMA MergesExists ==
    ASSUME NEW first, NEW l1, NEW l2, NEW n \in Nat
    PROVE  \E f : Merges(first, l1, l2, n, f)
<1> DEFINE bad == {m \in Nat : ~ \E f : Merges(first, l1, l2, m, f)}
<1>1. SUFFICES ASSUME bad # {} PROVE FALSE
  OBVIOUS
<1>2. PICK m \in bad : \A k \in bad : m <= k
  <2>1. bad \in SUBSET Nat
    OBVIOUS
  <2> HIDE DEF bad
  <2>2. QED
    BY <1>1, <2>1, LeastExists
<1>3. CASE m = 0
  <2> DEFINE f == [i \in 0 .. 0 |-> MergeStep(first, l1, l2, 0, 0)]
  <2>1. Merges(first, l1, l2, 0, f)
    BY DEF Merges, MergeStep
  <2>2. QED
    BY <1>3, <2>1
<1>4. CASE m # 0
  <2>1. m \in Nat /\ m - 1 \in Nat /\ m - 1 \notin bad
    BY <1>2, <1>4
  <2>2. PICK f : Merges(first, l1, l2, m - 1, f)
    BY <2>1
  <2> DEFINE h == [i \in 0 .. m |-> IF i < m THEN f[i] ELSE MergeStep(first, l1, l2, m, f[m - 1])]
  <2>3. ASSUME NEW i \in 0 .. m PROVE h[i] = MergeStep(first, l1, l2, i, h[i - 1])
    <3>1. CASE i = 0
      <4>1. f[0] = MergeStep(first, l1, l2, 0, f[0 - 1])
        BY <2>1, <2>2 DEF Merges
      <4>2. \A p, q : MergeStep(first, l1, l2, 0, p) = MergeStep(first, l1, l2, 0, q)
        BY Zenon DEF MergeStep
      <4>3. h[0] = f[0]
        BY <1>4, <2>1
      <4>4. h[0] = MergeStep(first, l1, l2, 0, h[0 - 1])
        <5> HIDE DEF h
        <5>1. QED
          BY <4>1, <4>2, <4>3, Zenon
      <4>5. QED
        BY <3>1, <4>4, Zenon
    <3>2. CASE i # 0 /\ i < m
      <4>1. i \in 0 .. m - 1 /\ i - 1 \in 0 .. m - 1 /\ i - 1 < m
        BY <2>1, <3>2
      <4>2. f[i] = MergeStep(first, l1, l2, i, f[i - 1])
        BY <2>2, <4>1 DEF Merges
      <4>3. QED
        BY <3>2, <4>1, <4>2
    <3>3. CASE i = m
      BY <1>4, <2>1, <3>3
    <3>4. i = 0 \/ (i # 0 /\ i < m) \/ i = m
      BY <2>1
    <3>5. QED
      BY <3>1, <3>2, <3>3, <3>4, Zenon
  <2>4. Merges(first, l1, l2, m, h)
    <3>1. h = [i \in 0 .. m |-> h[i]]
      OBVIOUS
    <3> HIDE DEF h
    <3>2. QED
      BY <2>3, <3>1 DEF Merges
  <2>5. QED
    BY <1>2, <2>4
<1>5. QED
  BY <1>3, <1>4

\* What the operator is: the loop's last turn.
LEMMA MergeIs ==
    ASSUME NEW first, NEW l1, NEW l2, Len(l1) \in Nat, Len(l2) \in Nat
    PROVE  \E f : Merges(first, l1, l2, Len(l1) + Len(l2), f) /\ Merge(first, l1, l2) = f[Len(l1) + Len(l2)].out
<1> DEFINE merged[n \in 0 .. Len(l1) + Len(l2)] ==
             IF n = 0 THEN [i |-> 0, j |-> 0, out |-> <<>>]
             ELSE IF merged[n - 1].i < Len(l1)
                     /\ (merged[n - 1].j = Len(l2)
                         \/ <<l1[merged[n - 1].i + 1], l2[merged[n - 1].j + 1]>> \in first)
                  THEN [i |-> merged[n - 1].i + 1, j |-> merged[n - 1].j,
                        out |-> Append(merged[n - 1].out, l1[merged[n - 1].i + 1])]
                  ELSE [i |-> merged[n - 1].i, j |-> merged[n - 1].j + 1,
                        out |-> Append(merged[n - 1].out, l2[merged[n - 1].j + 1])]
<1>1. \E f : f = [n \in 0 .. Len(l1) + Len(l2) |->
               IF n = 0 THEN [i |-> 0, j |-> 0, out |-> <<>>]
             ELSE IF f[n - 1].i < Len(l1)
                     /\ (f[n - 1].j = Len(l2)
                         \/ <<l1[f[n - 1].i + 1], l2[f[n - 1].j + 1]>> \in first)
                  THEN [i |-> f[n - 1].i + 1, j |-> f[n - 1].j,
                        out |-> Append(f[n - 1].out, l1[f[n - 1].i + 1])]
                  ELSE [i |-> f[n - 1].i, j |-> f[n - 1].j + 1,
                        out |-> Append(f[n - 1].out, l2[f[n - 1].j + 1])]]
  <2>1. Len(l1) + Len(l2) \in Nat
    OBVIOUS
  <2>2. \E f : Merges(first, l1, l2, Len(l1) + Len(l2), f)
    BY <2>1, MergesExists
  <2>3. QED
    BY <2>2 DEF Merges, MergeStep
<1>2. merged = [n \in 0 .. Len(l1) + Len(l2) |->
               IF n = 0 THEN [i |-> 0, j |-> 0, out |-> <<>>]
             ELSE IF merged[n - 1].i < Len(l1)
                     /\ (merged[n - 1].j = Len(l2)
                         \/ <<l1[merged[n - 1].i + 1], l2[merged[n - 1].j + 1]>> \in first)
                  THEN [i |-> merged[n - 1].i + 1, j |-> merged[n - 1].j,
                        out |-> Append(merged[n - 1].out, l1[merged[n - 1].i + 1])]
                  ELSE [i |-> merged[n - 1].i, j |-> merged[n - 1].j + 1,
                        out |-> Append(merged[n - 1].out, l2[merged[n - 1].j + 1])]]
  BY <1>1, Zenon
<1>3. Merge(first, l1, l2) = merged[Len(l1) + Len(l2)].out
  BY Zenon DEF Merge
<1> HIDE DEF merged
<1>4. QED
  BY <1>2, <1>3 DEF Merges, MergeStep

\* What the merge has taken after k turns.
FirstOf(l, n) == {l[x] : x \in 1 .. n}

MergeOK(S, l1, l2, k, m) ==
    /\ m.i \in 0 .. Len(l1) /\ m.j \in 0 .. Len(l2) /\ m.i + m.j = k
    /\ m.out \in Seq(S) /\ Len(m.out) = k
    /\ ToSet(m.out) = FirstOf(l1, m.i) \cup FirstOf(l2, m.j)

LEMMA AppendSet ==
    ASSUME NEW S, NEW s \in Seq(S), NEW x \in S
    PROVE  /\ Append(s, x) \in Seq(S) /\ Len(Append(s, x)) = Len(s) + 1
           /\ ToSet(Append(s, x)) = ToSet(s) \cup {x}
<1>1. /\ Append(s, x) \in Seq(S) /\ Len(Append(s, x)) = Len(s) + 1
      /\ \A i \in 1 .. Len(s) : Append(s, x)[i] = s[i]
      /\ Append(s, x)[Len(s) + 1] = x
  OBVIOUS
<1>2. DOMAIN s = 1 .. Len(s) /\ DOMAIN Append(s, x) = 1 .. Len(s) + 1 /\ Len(s) \in Nat
  OBVIOUS
<1>3. ASSUME NEW y \in ToSet(Append(s, x)) PROVE y \in ToSet(s) \cup {x}
  <2>1. PICK i \in 1 .. Len(s) + 1 : y = Append(s, x)[i]
    BY <1>2 DEF ToSet
  <2>2. i \in 1 .. Len(s) \/ i = Len(s) + 1
    BY <1>2
  <2>3. QED
    BY <2>1, <2>2, <1>1, <1>2 DEF ToSet
<1>4. ASSUME NEW y \in ToSet(s) PROVE y \in ToSet(Append(s, x))
  <2>1. PICK i \in 1 .. Len(s) : y = s[i]
    BY <1>2 DEF ToSet
  <2>2. i \in 1 .. Len(s) + 1 /\ y = Append(s, x)[i]
    BY <2>1, <1>1, <1>2
  <2>3. QED
    BY <2>2, <1>2 DEF ToSet
<1>5. x \in ToSet(Append(s, x))
  <2>1. Len(s) + 1 \in 1 .. Len(s) + 1
    BY <1>2
  <2>2. QED
    BY <2>1, <1>1, <1>2 DEF ToSet
<1>6. QED
  BY <1>1, <1>3, <1>4, <1>5

LEMMA FirstOfNext ==
    ASSUME NEW l, NEW n \in Nat
    PROVE  FirstOf(l, n + 1) = FirstOf(l, n) \cup {l[n + 1]} /\ FirstOf(l, 0) = {}
<1>1. \A x : x \in 1 .. n + 1 <=> x \in 1 .. n \/ x = n + 1
  OBVIOUS
<1>2. QED
  BY <1>1 DEF FirstOf

\* A turn takes the next client of one of the two lists.
LEMMA MergeTurn ==
    ASSUME NEW S, NEW l1 \in Seq(S), NEW l2 \in Seq(S), NEW first,
           NEW k \in Nat, k < Len(l1) + Len(l2), NEW m, MergeOK(S, l1, l2, k, m)
    PROVE  MergeOK(S, l1, l2, k + 1, MergeStep(first, l1, l2, k + 1, m))
<1> DEFINE left == m.i < Len(l1)
                   /\ (m.j = Len(l2) \/ <<l1[m.i + 1], l2[m.j + 1]>> \in first)
<1>1. Len(l1) \in Nat /\ Len(l2) \in Nat /\ DOMAIN l1 = 1 .. Len(l1) /\ DOMAIN l2 = 1 .. Len(l2)
  OBVIOUS
<1>2. /\ m.i \in 0 .. Len(l1) /\ m.j \in 0 .. Len(l2) /\ m.i + m.j = k
      /\ m.out \in Seq(S) /\ Len(m.out) = k
      /\ ToSet(m.out) = FirstOf(l1, m.i) \cup FirstOf(l2, m.j)
  BY DEF MergeOK
<1>3. CASE left
  <2> DEFINE r == [i |-> m.i + 1, j |-> m.j, out |-> Append(m.out, l1[m.i + 1])]
  <2>1. MergeStep(first, l1, l2, k + 1, m) = r
    <3>1. k + 1 # 0
      OBVIOUS
    <3>2. QED
      BY <1>3, <3>1, Zenon DEF MergeStep
  <2>2. m.i + 1 \in 1 .. Len(l1) /\ m.i \in Nat /\ l1[m.i + 1] \in S
    BY <1>1, <1>2, <1>3
  <2>3. /\ Append(m.out, l1[m.i + 1]) \in Seq(S) /\ Len(Append(m.out, l1[m.i + 1])) = k + 1
        /\ ToSet(Append(m.out, l1[m.i + 1])) = ToSet(m.out) \cup {l1[m.i + 1]}
    <3>1. m.out \in Seq(S) /\ Len(m.out) = k
      BY <1>2
    <3>2. /\ Append(m.out, l1[m.i + 1]) \in Seq(S)
          /\ Len(Append(m.out, l1[m.i + 1])) = Len(m.out) + 1
          /\ ToSet(Append(m.out, l1[m.i + 1])) = ToSet(m.out) \cup {l1[m.i + 1]}
      BY <3>1, <2>2, AppendSet
    <3>3. QED
      BY <3>1, <3>2
  <2>4. FirstOf(l1, m.i + 1) = FirstOf(l1, m.i) \cup {l1[m.i + 1]}
    BY <2>2, FirstOfNext
  <2>5. r.i = m.i + 1 /\ r.j = m.j /\ r.out = Append(m.out, l1[m.i + 1])
    OBVIOUS
  <2>6. r.i \in 0 .. Len(l1) /\ r.j \in 0 .. Len(l2) /\ r.i + r.j = k + 1
    <3> HIDE DEF r
    <3>1. \A x, y \in Nat : x + y = k => (x + 1) + y = k + 1 /\ x + (y + 1) = k + 1
      OBVIOUS
    <3>2. m.i \in Nat /\ m.j \in Nat
      BY <1>1, <1>2
    <3>3. QED
      BY <2>2, <2>5, <1>1, <1>2, <3>1, <3>2
  <2>7. ToSet(r.out) = FirstOf(l1, r.i) \cup FirstOf(l2, r.j)
    <3> HIDE DEF r
    <3>1. QED
      BY <2>3, <2>4, <2>5, <1>2
  <2> HIDE DEF r
  <2>8. QED
    BY <2>1, <2>3, <2>5, <2>6, <2>7 DEF MergeOK
<1>4. CASE ~left
  <2> DEFINE r == [i |-> m.i, j |-> m.j + 1, out |-> Append(m.out, l2[m.j + 1])]
  <2>1. MergeStep(first, l1, l2, k + 1, m) = r
    <3>1. k + 1 # 0
      OBVIOUS
    <3>2. QED
      BY <1>4, <3>1, Zenon DEF MergeStep
  <2>2. m.j + 1 \in 1 .. Len(l2) /\ m.j \in Nat /\ l2[m.j + 1] \in S
    BY <1>1, <1>2, <1>4
  <2>3. /\ Append(m.out, l2[m.j + 1]) \in Seq(S) /\ Len(Append(m.out, l2[m.j + 1])) = k + 1
        /\ ToSet(Append(m.out, l2[m.j + 1])) = ToSet(m.out) \cup {l2[m.j + 1]}
    <3>1. m.out \in Seq(S) /\ Len(m.out) = k
      BY <1>2
    <3>2. /\ Append(m.out, l2[m.j + 1]) \in Seq(S)
          /\ Len(Append(m.out, l2[m.j + 1])) = Len(m.out) + 1
          /\ ToSet(Append(m.out, l2[m.j + 1])) = ToSet(m.out) \cup {l2[m.j + 1]}
      BY <3>1, <2>2, AppendSet
    <3>3. QED
      BY <3>1, <3>2
  <2>4. FirstOf(l2, m.j + 1) = FirstOf(l2, m.j) \cup {l2[m.j + 1]}
    BY <2>2, FirstOfNext
  <2>5. r.i = m.i /\ r.j = m.j + 1 /\ r.out = Append(m.out, l2[m.j + 1])
    OBVIOUS
  <2>6. r.i \in 0 .. Len(l1) /\ r.j \in 0 .. Len(l2) /\ r.i + r.j = k + 1
    <3> HIDE DEF r
    <3>1. \A x, y \in Nat : x + y = k => (x + 1) + y = k + 1 /\ x + (y + 1) = k + 1
      OBVIOUS
    <3>2. m.i \in Nat /\ m.j \in Nat
      BY <1>1, <1>2
    <3>3. QED
      BY <2>2, <2>5, <1>1, <1>2, <3>1, <3>2
  <2>7. ToSet(r.out) = FirstOf(l1, r.i) \cup FirstOf(l2, r.j)
    <3> HIDE DEF r
    <3>1. QED
      BY <2>3, <2>4, <2>5, <1>2
  <2> HIDE DEF r
  <2>8. QED
    BY <2>1, <2>3, <2>5, <2>6, <2>7 DEF MergeOK
<1>5. QED
  BY <1>3, <1>4

LEMMA MergeKeeps ==
    ASSUME NEW S, NEW l1 \in Seq(S), NEW l2 \in Seq(S), NEW first
    PROVE  /\ Merge(first, l1, l2) \in Seq(S)
           /\ Len(Merge(first, l1, l2)) = Len(l1) + Len(l2)
           /\ ToSet(Merge(first, l1, l2)) = ToSet(l1) \cup ToSet(l2)
<1> DEFINE n == Len(l1) + Len(l2)
<1>1. Len(l1) \in Nat /\ Len(l2) \in Nat /\ DOMAIN l1 = 1 .. Len(l1) /\ DOMAIN l2 = 1 .. Len(l2)
  OBVIOUS
<1>2. PICK f : Merges(first, l1, l2, n, f) /\ Merge(first, l1, l2) = f[n].out
  BY <1>1, MergeIs
<1> DEFINE bad == {k \in 0 .. n : ~MergeOK(S, l1, l2, k, f[k])}
<1>3. bad = {}
  <2> SUFFICES ASSUME bad # {} PROVE FALSE
    OBVIOUS
  <2>1. PICK k \in bad : \A j \in bad : k <= j
    <3>1. bad \in SUBSET Nat
      OBVIOUS
    <3> HIDE DEF bad
    <3>2. QED
      BY <3>1, LeastExists
  <2>2. k \in 0 .. n /\ n \in Nat /\ f[k] = MergeStep(first, l1, l2, k, f[k - 1])
    <3>1. k \in 0 .. n /\ n \in Nat
      BY <1>1
    <3> HIDE DEF n, bad
    <3>2. QED
      BY <3>1, <1>2 DEF Merges
  <2>3. CASE k = 0
    <3>1. f[k] = [i |-> 0, j |-> 0, out |-> <<>>]
      BY <2>2, <2>3 DEF MergeStep
    <3>2. ToSet(<<>>) = {} /\ <<>> \in Seq(S) /\ Len(<<>>) = 0
      BY DEF ToSet
    <3>3. FirstOf(l1, 0) = {} /\ FirstOf(l2, 0) = {}
      BY FirstOfNext
    <3>4. MergeOK(S, l1, l2, 0, f[k])
      BY <3>1, <3>2, <3>3, <1>1 DEF MergeOK
    <3>5. QED
      BY <3>4, <2>3
  <2>4. CASE k # 0
    <3>1. k - 1 \in 0 .. n /\ k - 1 \in Nat /\ k - 1 < n /\ (k - 1) + 1 = k /\ k - 1 \notin bad
      BY <2>1, <2>2, <2>4
    <3>2. MergeOK(S, l1, l2, k - 1, f[k - 1])
      BY <3>1
    <3>3. MergeOK(S, l1, l2, (k - 1) + 1, MergeStep(first, l1, l2, (k - 1) + 1, f[k - 1]))
      BY <3>1, <3>2, MergeTurn
    <3>4. QED
      BY <3>1, <3>3, <2>2
  <2>5. QED
    BY <2>3, <2>4
<1>4. MergeOK(S, l1, l2, n, f[n])
  BY <1>1, <1>3
<1>5. f[n].i = Len(l1) /\ f[n].j = Len(l2)
  BY <1>1, <1>4 DEF MergeOK
<1>6. ToSet(l1) = FirstOf(l1, Len(l1)) /\ ToSet(l2) = FirstOf(l2, Len(l2))
  BY <1>1 DEF ToSet, FirstOf
<1>7. QED
  BY <1>2, <1>4, <1>5, <1>6 DEF MergeOK

\* The sorted parts of n clients, from the shorter ones.
SortStep(first, l, n, f) ==
    [i \in 0 .. Len(l) - n |->
        IF n < 2 THEN SubSeq(l, i + 1, i + n)
        ELSE Merge(first, f[n \div 2][i], f[n - n \div 2][i + n \div 2])]

Sorts(first, l, n, f) == f = [k \in 0 .. n |-> SortStep(first, l, k, f)]

\* Shorter parts are all that a part is made of.
LEMMA SortStepLooksBack ==
    ASSUME NEW first, NEW l, NEW n \in Nat, NEW f, NEW h,
           \A k \in 0 .. n - 1 : f[k] = h[k]
    PROVE  SortStep(first, l, n, f) = SortStep(first, l, n, h)
<1>1. CASE n < 2
  BY <1>1, Zenon DEF SortStep
<1>2. CASE ~(n < 2)
  <2>1. n \div 2 \in 0 .. n - 1 /\ n - n \div 2 \in 0 .. n - 1
    BY <1>2
  <2>2. f[n \div 2] = h[n \div 2] /\ f[n - n \div 2] = h[n - n \div 2]
    BY <2>1
  <2>3. QED
    BY <2>2, Zenon DEF SortStep
<1>3. QED
  BY <1>1, <1>2

LEMMA SortsExists ==
    ASSUME NEW first, NEW l, NEW n \in Nat
    PROVE  \E f : Sorts(first, l, n, f)
<1> DEFINE bad == {m \in Nat : ~ \E f : Sorts(first, l, m, f)}
<1>1. SUFFICES ASSUME bad # {} PROVE FALSE
  OBVIOUS
<1>2. PICK m \in bad : \A k \in bad : m <= k
  <2>1. bad \in SUBSET Nat
    OBVIOUS
  <2> HIDE DEF bad
  <2>2. QED
    BY <1>1, <2>1, LeastExists
<1>3. \E f : \A k \in 0 .. m - 1 : f[k] = SortStep(first, l, k, f)
  <2>1. CASE m = 0
    <3>1. \A k \in 0 .. m - 1 : FALSE
      BY <2>1
    <3>2. QED
      BY <3>1
  <2>2. CASE m # 0
    <3>1. m \in Nat /\ m - 1 \in Nat /\ m - 1 \notin bad
      BY <1>2, <2>2
    <3>2. PICK f : Sorts(first, l, m - 1, f)
      BY <3>1
    <3>3. \A k \in 0 .. m - 1 : f[k] = SortStep(first, l, k, f)
      BY <3>2 DEF Sorts
    <3>4. QED
      BY <3>3
  <2>3. QED
    BY <2>1, <2>2
<1>4. PICK f : \A k \in 0 .. m - 1 : f[k] = SortStep(first, l, k, f)
  BY <1>3
<1> DEFINE h == [k \in 0 .. m |-> IF k < m THEN f[k] ELSE SortStep(first, l, m, f)]
<1>5. m \in Nat
  BY <1>2
<1>6. \A k \in 0 .. m - 1 : f[k] = h[k]
  BY <1>5
<1>7. h[m] = SortStep(first, l, m, f)
  BY <1>5
<1>8. h = [k \in 0 .. m |-> h[k]]
  OBVIOUS
<1> HIDE DEF h
<1>9. ASSUME NEW k \in 0 .. m PROVE h[k] = SortStep(first, l, k, h)
  <2>1. k \in Nat /\ 0 .. k - 1 \subseteq 0 .. m - 1
    BY <1>5
  <2>2. SortStep(first, l, k, f) = SortStep(first, l, k, h)
    BY <2>1, <1>6, SortStepLooksBack
  <2>3. h[k] = SortStep(first, l, k, f)
    <3>1. k \in 0 .. m - 1 \/ k = m
      BY <1>5
    <3>2. QED
      BY <3>1, <1>4, <1>6, <1>7
  <2>4. QED
    BY <2>2, <2>3
<1>10. Sorts(first, l, m, h)
  BY <1>8, <1>9 DEF Sorts
<1>11. QED
  BY <1>2, <1>10

LEMMA MergeSortIs ==
    ASSUME NEW first, NEW l, Len(l) \in Nat
    PROVE  \E f : Sorts(first, l, Len(l), f) /\ MergeSort(first, l) = f[Len(l)][0]
<1> DEFINE sorted[n \in 0 .. Len(l)] ==
             [i \in 0 .. Len(l) - n |->
                IF n < 2 THEN SubSeq(l, i + 1, i + n)
                ELSE Merge(first, sorted[n \div 2][i], sorted[n - n \div 2][i + n \div 2])]
<1>1. \E f : f = [n \in 0 .. Len(l) |->
             [i \in 0 .. Len(l) - n |->
                IF n < 2 THEN SubSeq(l, i + 1, i + n)
                ELSE Merge(first, f[n \div 2][i], f[n - n \div 2][i + n \div 2])]]
  <2>1. \E f : Sorts(first, l, Len(l), f)
    BY SortsExists
  <2>2. QED
    BY <2>1, Zenon DEF Sorts, SortStep
<1>2. sorted = [n \in 0 .. Len(l) |->
             [i \in 0 .. Len(l) - n |->
                IF n < 2 THEN SubSeq(l, i + 1, i + n)
                ELSE Merge(first, sorted[n \div 2][i], sorted[n - n \div 2][i + n \div 2])]]
  BY <1>1, Zenon
<1>3. MergeSort(first, l) = sorted[Len(l)][0]
  BY Zenon DEF MergeSort
<1> HIDE DEF sorted
<1>4. Sorts(first, l, Len(l), sorted)
  BY <1>2, Zenon DEF Sorts, SortStep
<1>5. QED
  BY <1>3, <1>4

\* The n clients after the first i.
PartOf(l, i, n) == {l[x] : x \in i + 1 .. i + n}

SortOK(S, l, n, s) ==
    \A i \in 0 .. Len(l) - n : s[i] \in Seq(S) /\ Len(s[i]) = n /\ ToSet(s[i]) = PartOf(l, i, n)

LEMMA SortTurn ==
    ASSUME NEW S, NEW l \in Seq(S), NEW first, NEW n \in 0 .. Len(l), NEW f,
           \A k \in 0 .. n - 1 : SortOK(S, l, k, f[k])
    PROVE  SortOK(S, l, n, SortStep(first, l, n, f))
<1> SUFFICES ASSUME NEW i \in 0 .. Len(l) - n
             PROVE  LET s == SortStep(first, l, n, f)[i]
                    IN  s \in Seq(S) /\ Len(s) = n /\ ToSet(s) = PartOf(l, i, n)
  BY DEF SortOK
<1>1. Len(l) \in Nat /\ n \in Nat /\ i \in Nat /\ i + n <= Len(l) /\ DOMAIN l = 1 .. Len(l)
  OBVIOUS
<1>2. CASE n < 2
  <2> DEFINE s == SubSeq(l, i + 1, i + n)
  <2>1. SortStep(first, l, n, f)[i] = s
    BY <1>2 DEF SortStep
  <2>2. s \in Seq(S) /\ Len(s) = n /\ \A x \in 1 .. n : s[x] = l[i + x]
    BY <1>1
  <2> HIDE DEF s
  <2>3. ToSet(s) = PartOf(l, i, n)
    <3>1. DOMAIN s = 1 .. n
      BY <2>2
    <3>2. n = 0 \/ n = 1
      BY <1>1, <1>2
    <3>3. CASE n = 0
      BY <3>1, <3>3, <1>1 DEF ToSet, PartOf
    <3>4. CASE n = 1
      <4>1. 1 .. 1 = {1} /\ i + 1 .. i + 1 = {i + 1}
        BY <1>1
      <4>2. QED
        BY <2>2, <3>1, <3>4, <4>1 DEF ToSet, PartOf
    <3>5. QED
      BY <3>2, <3>3, <3>4
  <2>4. QED
    BY <2>1, <2>2, <2>3
<1>3. CASE ~(n < 2)
  <2> DEFINE h == n \div 2
             a == f[h][i]
             b == f[n - h][i + h]
  <2>1. h \in 0 .. n - 1 /\ n - h \in 0 .. n - 1 /\ h + (n - h) = n
    BY <1>1, <1>3
  <2>2. SortStep(first, l, n, f)[i] = Merge(first, a, b)
    BY <1>3 DEF SortStep
  <2>3. SortOK(S, l, h, f[h]) /\ SortOK(S, l, n - h, f[n - h])
    BY <2>1
  <2> HIDE DEF h
  <2>4. i \in 0 .. Len(l) - h /\ i + h \in 0 .. Len(l) - (n - h)
    BY <2>1, <1>1
  <2>5. a \in Seq(S) /\ Len(a) = h /\ ToSet(a) = PartOf(l, i, h)
    BY <2>3, <2>4 DEF SortOK
  <2>6. b \in Seq(S) /\ Len(b) = n - h /\ ToSet(b) = PartOf(l, i + h, n - h)
    BY <2>3, <2>4 DEF SortOK
  <2> HIDE DEF a, b
  <2>7. /\ Merge(first, a, b) \in Seq(S) /\ Len(Merge(first, a, b)) = Len(a) + Len(b)
        /\ ToSet(Merge(first, a, b)) = ToSet(a) \cup ToSet(b)
    BY <2>5, <2>6, MergeKeeps
  <2>8. PartOf(l, i, n) = PartOf(l, i, h) \cup PartOf(l, i + h, n - h)
    <3>1. \A x : x \in i + 1 .. i + n <=> x \in i + 1 .. i + h \/ x \in (i + h) + 1 .. (i + h) + (n - h)
      BY <2>1, <1>1
    <3>2. QED
      BY <3>1 DEF PartOf
  <2>9. QED
    BY <2>1, <2>2, <2>5, <2>6, <2>7, <2>8
<1>4. QED
  BY <1>2, <1>3

LEMMA MergeSortKeeps ==
    ASSUME NEW S, NEW l \in Seq(S), NEW first
    PROVE  /\ MergeSort(first, l) \in Seq(S)
           /\ Len(MergeSort(first, l)) = Len(l)
           /\ ToSet(MergeSort(first, l)) = ToSet(l)
<1>1. Len(l) \in Nat /\ DOMAIN l = 1 .. Len(l)
  OBVIOUS
<1>2. PICK f : Sorts(first, l, Len(l), f) /\ MergeSort(first, l) = f[Len(l)][0]
  BY <1>1, MergeSortIs
<1> DEFINE bad == {k \in 0 .. Len(l) : ~SortOK(S, l, k, f[k])}
<1>3. bad = {}
  <2> SUFFICES ASSUME bad # {} PROVE FALSE
    OBVIOUS
  <2>1. PICK k \in bad : \A j \in bad : k <= j
    <3>1. bad \in SUBSET Nat
      OBVIOUS
    <3> HIDE DEF bad
    <3>2. QED
      BY <3>1, LeastExists
  <2>2. k \in 0 .. Len(l) /\ f[k] = SortStep(first, l, k, f)
    BY <1>1, <1>2 DEF Sorts
  <2>3. \A j \in 0 .. k - 1 : SortOK(S, l, j, f[j])
    BY <2>1, <2>2, <1>1
  <2>4. SortOK(S, l, k, f[k])
    BY <2>2, <2>3, SortTurn
  <2>5. QED
    BY <2>4
<1>4. SortOK(S, l, Len(l), f[Len(l)])
  BY <1>1, <1>3
<1>5. 0 \in 0 .. Len(l) - Len(l)
  BY <1>1
<1>6. ToSet(l) = PartOf(l, 0, Len(l))
  BY <1>1 DEF ToSet, PartOf
<1>7. QED
  BY <1>2, <1>4, <1>5, <1>6 DEF SortOK

------------------------------------------------------------------------------
(* Lists of clients and of connections.                                       *)

LEMMA ListIsOnto ==
    ASSUME NEW S, NEW q \in Seq(S)
    PROVE  q \in Surjection(1 .. Len(q), ToSet(q)) /\ IsFiniteSet(1 .. Len(q))
           /\ Cardinality(1 .. Len(q)) = Len(q) /\ Len(q) \in Nat /\ DOMAIN q = 1 .. Len(q)
<1>1. Len(q) \in Nat /\ DOMAIN q = 1 .. Len(q) /\ q = [i \in 1 .. Len(q) |-> q[i]]
  OBVIOUS
<1>2. q \in [1 .. Len(q) -> ToSet(q)] /\ \A x \in ToSet(q) : \E i \in 1 .. Len(q) : q[i] = x
  BY <1>1 DEF ToSet
<1>3. IsFiniteSet(1 .. Len(q)) /\ Cardinality(1 .. Len(q)) = IF 1 > Len(q) THEN 0 ELSE Len(q) - 1 + 1
  BY <1>1, FS_Interval
<1>4. Cardinality(1 .. Len(q)) = Len(q)
  BY <1>1, <1>3
<1>5. QED
  BY <1>1, <1>2, <1>3, <1>4 DEF Surjection

\* A list has no element twice when it has as many as elements.
LEMMA OnceCounted ==
    ASSUME NEW S, NEW q \in Seq(S)
    PROVE  /\ IsFiniteSet(ToSet(q))
           /\ Once(q) <=> Cardinality(ToSet(q)) = Len(q)
<1>1. q \in Surjection(1 .. Len(q), ToSet(q)) /\ IsFiniteSet(1 .. Len(q))
      /\ Cardinality(1 .. Len(q)) = Len(q) /\ DOMAIN q = 1 .. Len(q)
  BY ListIsOnto
<1>2. /\ IsFiniteSet(ToSet(q))
      /\ Cardinality(ToSet(q)) = Cardinality(1 .. Len(q)) <=> q \in Injection(1 .. Len(q), ToSet(q))
  BY <1>1, FS_Surjection
<1>3. q \in [1 .. Len(q) -> ToSet(q)]
  BY <1>1 DEF Surjection
<1>4. q \in Injection(1 .. Len(q), ToSet(q)) <=> Once(q)
  BY <1>1, <1>3 DEF Injection, IsInjective, Once
<1>5. QED
  BY <1>1, <1>2, <1>4

LEMMA SortIsOnce ==
    ASSUME NEW S, NEW l \in Seq(S), Once(l), NEW first
    PROVE  /\ MergeSort(first, l) \in Seq(S) /\ Once(MergeSort(first, l))
           /\ ToSet(MergeSort(first, l)) = ToSet(l)
<1>1. /\ MergeSort(first, l) \in Seq(S) /\ Len(MergeSort(first, l)) = Len(l)
      /\ ToSet(MergeSort(first, l)) = ToSet(l)
  BY MergeSortKeeps
<1>2. QED
  BY <1>1, OnceCounted

LEMMA SetIsList ==
    ASSUME NEW T, IsFiniteSet(T)
    PROVE  SetToSeq(T) \in Seq(T) /\ Once(SetToSeq(T)) /\ ToSet(SetToSeq(T)) = T
<1> DEFINE n == Cardinality(T)
           q == SetToSeq(T)
<1>1. n \in Nat /\ ExistsBijection(1 .. n, T)
  BY FS_CardinalityType
<1>2. \E f \in [1 .. n -> T] : IsInjective(f)
  BY <1>1 DEF ExistsBijection, Bijection, Injection
<1>3. q \in [1 .. n -> T] /\ IsInjective(q)
  BY <1>2 DEF SetToSeq
<1> HIDE DEF q
<1>4. q \in Seq(T) /\ Len(q) = n
  <2> HIDE DEF n
  <2>1. QED
    BY <1>1, <1>3
<1>5. Once(q) /\ ToSet(q) \subseteq T
  BY <1>3 DEF Once, IsInjective, ToSet
<1>6. Cardinality(ToSet(q)) = n
  BY <1>4, <1>5, OnceCounted
<1>7. ToSet(q) = T
  BY <1>5, <1>6, FS_Subset
<1>8. QED
  BY <1>4, <1>5, <1>7 DEF q

\* A new head.
LEMMA HeadedList ==
    ASSUME NEW S, NEW s \in Seq(S), NEW x \in S
    PROVE  /\ <<x>> \o s \in Seq(S)
           /\ ToSet(<<x>> \o s) = ToSet(s) \cup {x}
           /\ Once(s) /\ x \notin ToSet(s) => Once(<<x>> \o s)
<1> DEFINE t == <<x>> \o s
<1>1. Len(s) \in Nat /\ DOMAIN s = 1 .. Len(s)
  OBVIOUS
<1>2. /\ t \in Seq(S) /\ Len(t) = Len(s) + 1 /\ t[1] = x
      /\ \A i \in 2 .. Len(s) + 1 : t[i] = s[i - 1]
  OBVIOUS
<1> HIDE DEF t
<1>3. DOMAIN t = 1 .. Len(s) + 1
  BY <1>1, <1>2
<1>4. ASSUME NEW y \in ToSet(t) PROVE y \in ToSet(s) \cup {x}
  <2>1. PICK i \in 1 .. Len(s) + 1 : y = t[i]
    BY <1>3 DEF ToSet
  <2>2. CASE i = 1
    BY <2>1, <2>2, <1>2
  <2>3. CASE i # 1
    <3>1. i \in 2 .. Len(s) + 1 /\ i - 1 \in 1 .. Len(s)
      BY <2>3, <1>1
    <3>2. QED
      BY <2>1, <3>1, <1>1, <1>2 DEF ToSet
  <2>4. QED
    BY <2>2, <2>3
<1>5. ASSUME NEW y \in ToSet(s) PROVE y \in ToSet(t)
  <2>1. PICK i \in 1 .. Len(s) : y = s[i]
    BY <1>1 DEF ToSet
  <2>2. i + 1 \in 2 .. Len(s) + 1 /\ i + 1 \in 1 .. Len(s) + 1 /\ (i + 1) - 1 = i
    BY <1>1
  <2>3. t[i + 1] = y
    BY <2>1, <2>2, <1>2
  <2>4. QED
    BY <2>2, <2>3, <1>3 DEF ToSet
<1>6. x \in ToSet(t)
  BY <1>1, <1>2, <1>3 DEF ToSet
<1>7. ASSUME Once(s), x \notin ToSet(s) PROVE Once(t)
  <2>1. \A i \in 2 .. Len(s) + 1 : t[i] # x
    BY <1>1, <1>2, <1>7 DEF ToSet
  <2>2. ASSUME NEW i \in 2 .. Len(s) + 1, NEW j \in 2 .. Len(s) + 1, t[i] = t[j] PROVE i = j
    <3>1. i - 1 \in DOMAIN s /\ j - 1 \in DOMAIN s /\ s[i - 1] = s[j - 1]
      BY <2>2, <1>1, <1>2
    <3>2. i - 1 = j - 1
      BY <3>1, <1>7 DEF Once
    <3>3. QED
      BY <3>2
  <2>3. \A i \in DOMAIN t : i = 1 \/ i \in 2 .. Len(s) + 1
    BY <1>3
  <2>4. QED
    BY <2>1, <2>2, <2>3, <1>2 DEF Once
<1>8. QED
  BY <1>2, <1>4, <1>5, <1>6, <1>7 DEF t

\* The first one of an element is the only one.
LEMMA RemoveFirstTakes ==
    ASSUME NEW S, NEW s \in Seq(S), Once(s), NEW e
    PROVE  /\ RemoveFirst(s, e) \in Seq(S) /\ Once(RemoveFirst(s, e))
           /\ ToSet(RemoveFirst(s, e)) = ToSet(s) \ {e}
<1>1. Len(s) \in Nat /\ DOMAIN s = 1 .. Len(s)
  OBVIOUS
<1>2. CASE \E i \in 1 .. Len(s) : s[i] = e
  <2> DEFINE I == {i \in 1 .. Len(s) : s[i] = e}
             k == Min(I)
  <2>1. I # {} /\ I \in SUBSET Nat
    BY <1>1, <1>2
  <2>2. k \in I
    <3>1. \E x \in I : \A y \in I : x <= y
      <4> HIDE DEF I
      <4>1. QED
        BY <2>1, LeastExists
    <3>2. QED
      BY <3>1 DEF Min
  <2>3. RemoveFirst(s, e) = RemoveAt(s, k)
    BY <1>2, <2>1 DEF RemoveFirst, SelectInSeq
  <2> HIDE DEF k
  <2>4. k \in DOMAIN s /\ s[k] = e
    BY <2>2, <1>1
  <2>5. \A m, n \in DOMAIN s : s[m] = s[n] => m = n
    BY DEF Once
  <2>6. /\ RemoveAt(s, k) \in Seq(S)
        /\ \A m, n \in DOMAIN RemoveAt(s, k) : RemoveAt(s, k)[m] = RemoveAt(s, k)[n] => m = n
        /\ ToSet(RemoveAt(s, k)) = ToSet(s) \ {s[k]}
    BY <2>4, <2>5, RemoveAtTakesOne
  <2>7. QED
    BY <2>3, <2>4, <2>6 DEF Once
<1>3. CASE ~\E i \in 1 .. Len(s) : s[i] = e
  <2>1. RemoveFirst(s, e) = s
    BY <1>3 DEF RemoveFirst
  <2>2. e \notin ToSet(s)
    BY <1>1, <1>3 DEF ToSet
  <2>3. QED
    BY <2>1, <2>2
<1>4. QED
  BY <1>2, <1>3

------------------------------------------------------------------------------
(* What every step on the graph keeps, in terms of the set of connections.    *)

Src(x) == Owner[x.source]
Dst(x) == Owner[x.destination]
Counted(X, c, d) == {x \in X : x.dir # 0 /\ Dst(x) \notin Drivers /\ Src(x) = c /\ Dst(x) = d}
Forwards(X, c, d) == {x \in Counted(X, c, d) : x.dir = 1}
Feedbacks(X, c, d) == {x \in Counted(X, c, d) : x.dir = -1}
Into(X, d) == {x \in X : x.dir # 0 /\ Dst(x) \notin Drivers /\ Dst(x) = d}
AllBack(X) == {x \in X : x.dir = -1}
In(gr) == ToSet(gr.connections)
Here(gr) == ToSet(gr.clients)

GraphShape(gr) == gr \in Graph

\* No client is listed twice, no connection is made twice.
ListsOnce(gr) ==
    /\ Once(gr.clients) /\ Drivers \subseteq Here(gr)
    /\ Once(gr.connections)
    /\ \A x, y \in In(gr) : x.source = y.source /\ x.destination = y.destination => x = y

\* What the direction of a connection says of its ends.
DirsRight(gr) ==
    \A x \in In(gr) :
        /\ Src(x) \in Here(gr) /\ Dst(x) \in Here(gr)
        /\ Dst(x) \in Drivers => x.dir = 1
        /\ Dst(x) \notin Drivers => (x.dir = 0 <=> Src(x) = Dst(x))
        /\ x.dir = -1 => Src(x) \notin Drivers

FeedsRight(gr) ==
    /\ \A c, d \in Clients :
         /\ gr.sortfeeds[c][d] = Cardinality(Forwards(In(gr), c, d))
                                 + Cardinality(Feedbacks(In(gr), d, c))
         /\ gr.truefeeds[c][d] = Cardinality(Counted(In(gr), c, d))
    /\ gr.feedbackcount = Cardinality(AllBack(In(gr)))

\* A client's fedcount is what malloc left in it and the connections that feed
\* it; a driver's only falls.
FedRight(gr) ==
    /\ \A d \in Here(gr) \ Drivers : gr.fedcount[d] - Cardinality(Into(In(gr), d)) \in FreshFed
    /\ \A d \in Drivers : gr.fedcount[d] <= 0

\* Were a new client's fedcount negative, a cycle could be taken for sorted.
SortsRight(gr) == FreshFed \subseteq Nat => ~Cyclic(gr.sortfeeds)

FeedbackRight(gr) ==
    FreshFed = {0} /\ gr.feedbackcount > 0 =>
        Cyclic(gr.truefeeds) \/ \E d \in Drivers : gr.fedcount[d] < 0

\* What a step on the graph keeps; Cut: what it keeps before it looks for cycles.
Cut(gr) ==
    /\ GraphShape(gr) /\ ListsOnce(gr) /\ DirsRight(gr)
    /\ FeedsRight(gr) /\ FedRight(gr) /\ SortsRight(gr)
Kept(gr) == Cut(gr) /\ FeedbackRight(gr)

------------------------------------------------------------------------------
(* Counting.                                                                  *)

LEMMA OneMore ==
    ASSUME NEW S, IsFiniteSet(S), NEW x, x \notin S
    PROVE  IsFiniteSet(S \cup {x}) /\ Cardinality(S) \in Nat
           /\ Cardinality(S \cup {x}) = Cardinality(S) + 1
BY FS_AddElement, FS_CardinalityType

LEMMA OneLess ==
    ASSUME NEW S, IsFiniteSet(S), NEW x \in S
    PROVE  IsFiniteSet(S \ {x}) /\ Cardinality(S) \in Nat /\ Cardinality(S \ {x}) \in Nat
           /\ Cardinality(S \ {x}) = Cardinality(S) - 1
BY FS_RemoveElement, FS_CardinalityType

\* The connections that are counted are finitely many.
LEMMA CountsAreFinite ==
    ASSUME NEW X, IsFiniteSet(X), NEW c, NEW d
    PROVE  /\ IsFiniteSet(Counted(X, c, d)) /\ Cardinality(Counted(X, c, d)) \in Nat
           /\ IsFiniteSet(Forwards(X, c, d)) /\ Cardinality(Forwards(X, c, d)) \in Nat
           /\ IsFiniteSet(Feedbacks(X, c, d)) /\ Cardinality(Feedbacks(X, c, d)) \in Nat
           /\ IsFiniteSet(Into(X, d)) /\ Cardinality(Into(X, d)) \in Nat
           /\ IsFiniteSet(AllBack(X)) /\ Cardinality(AllBack(X)) \in Nat
<1>1. \A T \in SUBSET X : IsFiniteSet(T) /\ Cardinality(T) \in Nat
  BY FS_Subset, FS_CardinalityType
<1>2. Counted(X, c, d) \in SUBSET X /\ Into(X, d) \in SUBSET X /\ AllBack(X) \in SUBSET X
  BY DEF Counted, Into, AllBack
<1>3. Forwards(X, c, d) \in SUBSET X /\ Feedbacks(X, c, d) \in SUBSET X
  BY <1>2 DEF Forwards, Feedbacks
<1>4. QED
  BY <1>1, <1>2, <1>3

LEMMA SomeCounted ==
    ASSUME NEW S, IsFiniteSet(S)
    PROVE  Cardinality(S) > 0 <=> S # {}
BY FS_EmptySet, FS_CardinalityType

\* The fields of a graph.
LEMMA GraphFields ==
    ASSUME NEW gr, GraphShape(gr)
    PROVE  /\ gr.clients \in Seq(Clients) /\ gr.active \subseteq Clients
           /\ gr.dead \subseteq Clients /\ gr.error \in [Clients -> Errors]
           /\ gr.connections \in Seq(Connections)
           /\ gr.sortfeeds \in [Clients -> [Clients -> Nat]]
           /\ gr.truefeeds \in [Clients -> [Clients -> Nat]]
           /\ gr.fedcount \in [Clients -> Int] /\ gr.feedbackcount \in Int
           /\ IsFiniteSet(In(gr)) /\ In(gr) \subseteq Connections
           /\ IsFiniteSet(Here(gr)) /\ Here(gr) \subseteq Clients
<1>1. /\ gr.clients \in Seq(Clients) /\ gr.active \subseteq Clients
      /\ gr.dead \subseteq Clients /\ gr.error \in [Clients -> Errors]
      /\ gr.connections \in Seq(Connections)
      /\ gr.sortfeeds \in [Clients -> [Clients -> Nat]]
      /\ gr.truefeeds \in [Clients -> [Clients -> Nat]]
      /\ gr.fedcount \in [Clients -> Int] /\ gr.feedbackcount \in Int
  BY DEF GraphShape, Graph
<1>2. \A S : \A q \in Seq(S) : IsFiniteSet(ToSet(q)) /\ ToSet(q) \subseteq S
  <2> SUFFICES ASSUME NEW S, NEW q \in Seq(S) PROVE IsFiniteSet(ToSet(q)) /\ ToSet(q) \subseteq S
    OBVIOUS
  <2>1. IsFiniteSet(ToSet(q))
    BY OnceCounted
  <2>2. \A i \in DOMAIN q : q[i] \in S
    OBVIOUS
  <2>3. QED
    BY <2>1, <2>2 DEF ToSet
<1>3. QED
  BY <1>1, <1>2 DEF In, Here

LEMMA ConnectionParts ==
    ASSUME NEW x \in Connections
    PROVE  /\ x.source \in Ports /\ x.destination \in Ports /\ x.dir \in Dirs
           /\ Src(x) \in Clients /\ Dst(x) \in Clients
BY GraphAssumption DEF Connections, Src, Dst

------------------------------------------------------------------------------
(* The search for a cycle.                                                    *)

\* Clients each of which is fed by one of them: some feed themselves.
LEMMA NoSourceCycle ==
    ASSUME NEW feeds, NEW U \in SUBSET Clients, IsFiniteSet(U), U # {},
           \A c \in U : \E b \in U : feeds[b][c] > 0
    PROVE  Cyclic(feeds)
<1> SUFFICES ASSUME ~Cyclic(feeds) PROVE FALSE
  OBVIOUS
<1> DEFINE P(c) == U \cap ({c} \cup Fed(feeds, c))
           Rest(c) == Cardinality(U) - Cardinality(P(c))
           Rests == {Rest(c) : c \in U}
<1>1. \A c \in U : IsFiniteSet(P(c)) /\ Cardinality(P(c)) \in Nat /\ Rest(c) \in Nat
  <2> SUFFICES ASSUME NEW c \in U PROVE IsFiniteSet(P(c)) /\ Cardinality(P(c)) \in Nat /\ Rest(c) \in Nat
    OBVIOUS
  <2>1. P(c) \in SUBSET U
    OBVIOUS
  <2> HIDE DEF P
  <2>2. IsFiniteSet(P(c)) /\ Cardinality(P(c)) <= Cardinality(U)
    BY <2>1, FS_Subset
  <2>3. Cardinality(P(c)) \in Nat /\ Cardinality(U) \in Nat
    BY <2>2, FS_CardinalityType
  <2>4. QED
    BY <2>2, <2>3
<1>2. PICK r \in Rests : \A q \in Rests : r <= q
  <2>1. Rests \in SUBSET Nat /\ Rests # {}
    <3> HIDE DEF Rest
    <3>1. QED
      BY <1>1
  <2> HIDE DEF Rests
  <2>2. QED
    BY <2>1, LeastExists
<1>3. PICK c \in U : r = Rest(c)
  OBVIOUS
<1>4. PICK b \in U : feeds[b][c] > 0
  OBVIOUS
<1>5. b \in Clients /\ c \in Clients /\ c \in Fed(feeds, b)
  BY <1>4, FedHas
<1>6. b \notin P(c)
  <2>1. ASSUME b = c PROVE FALSE
    BY <1>5, <2>1 DEF Cyclic
  <2>2. ASSUME b \in Fed(feeds, c) PROVE FALSE
    <3>1. b \in Fed(feeds, b)
      BY <1>5, <2>2, FedThrough
    <3>2. QED
      BY <1>5, <3>1 DEF Cyclic
  <2>3. QED
    BY <2>1, <2>2
<1>7. P(c) \cup {b} \subseteq P(b)
  <2>1. \A e \in Fed(feeds, c) : e \in Fed(feeds, b)
    BY <1>5, FedThrough
  <2>2. QED
    BY <2>1, <1>5
<1> HIDE DEF P
<1>8. Cardinality(P(c) \cup {b}) = Cardinality(P(c)) + 1
  BY <1>1, <1>6, OneMore
<1>9. Cardinality(P(c) \cup {b}) <= Cardinality(P(b))
  BY <1>1, <1>7, FS_Subset
<1>10. Cardinality(U) \in Nat /\ Cardinality(P(c)) \in Nat /\ Cardinality(P(b)) \in Nat
  BY <1>1, FS_CardinalityType
<1>11. Rest(b) < Rest(c)
  BY <1>8, <1>9, <1>10
<1>12. Rest(b) \in Rests /\ Rest(b) \in Nat /\ Rest(c) \in Nat
  <2> HIDE DEF Rest
  <2>1. QED
    BY <1>1
<1> HIDE DEF Rest, Rests
<1>13. QED
  BY <1>2, <1>3, <1>11, <1>12

\* What the passes know after they took the clients of T: what still feeds the
\* others, and that those taken are fed by each other only, without a cycle.
From(X, d, T) == {x \in Into(X, d) : Src(x) \in T}

Passed(gr, T, st) ==
    /\ T \subseteq Here(gr)
    /\ st.unsorted = Len(gr.clients) - Cardinality(T)
    /\ \A d \in Clients : st.tfed[d] \in Int
    /\ \A d \in Here(gr) \ T :
         st.tfed[d] = gr.fedcount[d] - Cardinality(From(In(gr), d, T))
    /\ \A d \in T : st.tfed[d] < 0
    /\ \A b \in Clients, c \in T : gr.truefeeds[b][c] > 0 => b \in T
    /\ \A c \in T : c \notin Fed(gr.truefeeds, c)

\* A client that nothing not taken feeds: all that feeds it is taken.
LEMMA SourceIsFed ==
    ASSUME FreshFed \subseteq Nat, NEW gr, Cut(gr), NEW T, NEW st, Passed(gr, T, st),
           NEW c \in Here(gr), c \notin T, st.tfed[c] = 0, NEW b \in Clients,
           gr.truefeeds[b][c] > 0
    PROVE  b \in T
<1> DEFINE X == In(gr)
<1>1. IsFiniteSet(X) /\ c \in Clients /\ gr.fedcount[c] \in Int
  BY GraphFields DEF Cut
<1>2. gr.truefeeds[b][c] = Cardinality(Counted(X, b, c))
  BY <1>1 DEF Cut, FeedsRight
<1> HIDE DEF X
<1>3. PICK x \in Counted(X, b, c) : TRUE
  <2>1. IsFiniteSet(Counted(X, b, c))
    BY <1>1, CountsAreFinite
  <2>2. Counted(X, b, c) # {}
    BY <1>2, <2>1, SomeCounted
  <2>3. QED
    BY <2>2
<1>4. x \in Into(X, c) /\ Src(x) = b /\ c \notin Drivers
  BY <1>3 DEF Counted, Into
<1>5. gr.fedcount[c] - Cardinality(Into(X, c)) \in Nat
  BY <1>4 DEF Cut, FedRight, X
<1>6. gr.fedcount[c] = Cardinality(From(X, c, T))
  <2>1. 0 = gr.fedcount[c] - Cardinality(From(X, c, T))
    BY DEF Passed, X
  <2>2. Cardinality(From(X, c, T)) \in Nat
    <3>1. From(X, c, T) \in SUBSET X
      BY DEF From, Into
    <3>2. QED
      BY <1>1, <3>1, FS_Subset, FS_CardinalityType
  <2>3. QED
    BY <1>1, <2>1, <2>2
<1>7. From(X, c, T) = Into(X, c)
  <2>1. From(X, c, T) \in SUBSET Into(X, c)
    BY DEF From
  <2>2. IsFiniteSet(Into(X, c)) /\ Cardinality(Into(X, c)) \in Nat
    BY <1>1, CountsAreFinite
  <2>3. /\ Cardinality(From(X, c, T)) <= Cardinality(Into(X, c))
        /\ Cardinality(Into(X, c)) = Cardinality(From(X, c, T)) => Into(X, c) = From(X, c, T)
    BY <2>1, <2>2, FS_Subset
  <2>4. QED
    BY <1>1, <1>5, <1>6, <2>2, <2>3
<1>8. QED
  BY <1>4, <1>7 DEF From

\* Taking one more.
LEMMA TakingKeeps ==
    ASSUME FreshFed \subseteq Nat, NEW gr, Cut(gr), NEW T, NEW st, Passed(gr, T, st),
           NEW c \in Here(gr), st.tfed[c] = 0
    PROVE  /\ Passed(gr, T \cup {c}, TakeSource(gr, st, c))
           /\ TakeSource(gr, st, c).unsorted = st.unsorted - 1
<1> DEFINE X == In(gr)
           V == T \cup {c}
           new == TakeSource(gr, st, c)
           feeds == gr.truefeeds
<1>1. /\ IsFiniteSet(X) /\ c \in Clients /\ Here(gr) \subseteq Clients /\ IsFiniteSet(Here(gr))
      /\ gr.truefeeds \in [Clients -> [Clients -> Nat]] /\ gr.fedcount \in [Clients -> Int]
      /\ Len(gr.clients) \in Nat
  BY GraphFields DEF Cut
<1>2. /\ T \subseteq Here(gr) /\ st.unsorted = Len(gr.clients) - Cardinality(T)
      /\ \A d \in Clients : st.tfed[d] \in Int
      /\ \A d \in Here(gr) \ T : st.tfed[d] = gr.fedcount[d] - Cardinality(From(X, d, T))
      /\ \A d \in T : st.tfed[d] < 0
      /\ \A b \in Clients, d \in T : feeds[b][d] > 0 => b \in T
      /\ \A d \in T : d \notin Fed(feeds, d)
  BY DEF Passed
<1>3. c \notin T
  <2>1. ~(0 < 0)
    OBVIOUS
  <2>2. QED
    BY <1>2, <2>1
<1>4. /\ new.tfed = [d \in Clients |-> (IF d = c THEN -1 ELSE st.tfed[d]) - feeds[c][d]]
      /\ new.unsorted = st.unsorted - 1
  BY DEF TakeSource
<1>5. \A b \in Clients, d \in V : feeds[b][d] > 0 => b \in V
  BY <1>2, <1>3, SourceIsFed
<1>6. ASSUME NEW d \in V PROVE d \notin Fed(feeds, d)
  <2>1. CASE d \in T
    BY <1>2, <2>1
  <2>2. CASE d = c
    <3> DEFINE S == Clients \ V
    <3>1. \A b \in Clients : feeds[b][c] > 0 => b \in T
      BY <1>3, SourceIsFed
    <3>2. \A e \in Clients : feeds[c][e] > 0 => e \in S
      BY <1>1, <1>2, <1>3, <3>1
    <3>3. \A e \in S, f \in Clients : feeds[e][f] > 0 => f \in S
      BY <1>5
    <3> HIDE DEF feeds
    <3>4. Fed(feeds, c) \subseteq S
      BY <1>1, <3>2, <3>3, FedWithin
    <3>5. QED
      BY <2>2, <3>4
  <2>3. QED
    BY <2>1, <2>2
<1>7. IsFiniteSet(T) /\ Cardinality(V) = Cardinality(T) + 1 /\ Cardinality(T) \in Nat
  <2>1. IsFiniteSet(T)
    BY <1>1, <1>2, FS_Subset
  <2>2. QED
    BY <2>1, <1>3, OneMore
<1>8. new.unsorted = Len(gr.clients) - Cardinality(V)
  <2> HIDE DEF new, V, X, feeds
  <2>1. \A n, k \in Nat : n - k - 1 = n - (k + 1)
    OBVIOUS
  <2>2. QED
    BY <1>1, <1>2, <1>4, <1>7, <2>1
<1>9. \A d \in Clients : new.tfed[d] \in Int
  BY <1>1, <1>2, <1>4
<1>10. ASSUME NEW d \in V PROVE new.tfed[d] < 0
  <2>1. d \in Clients /\ feeds[c][d] \in Nat /\ new.tfed[d] = (IF d = c THEN -1 ELSE st.tfed[d]) - feeds[c][d]
    BY <1>1, <1>2, <1>4
  <2>2. CASE d = c
    BY <2>1, <2>2
  <2>3. CASE d # c
    <3>1. st.tfed[d] < 0 /\ st.tfed[d] \in Int
      BY <1>2, <2>1, <2>3
    <3> HIDE DEF feeds
    <3>2. QED
      BY <2>1, <2>3, <3>1
  <2>4. QED
    BY <2>2, <2>3
<1>11. ASSUME NEW d \in Here(gr) \ V
       PROVE  new.tfed[d] = gr.fedcount[d] - Cardinality(From(X, d, V))
  <2>1. d \in Clients /\ d # c /\ d \notin T /\ new.tfed[d] = st.tfed[d] - feeds[c][d]
    BY <1>1, <1>4
  <2>2. st.tfed[d] = gr.fedcount[d] - Cardinality(From(X, d, T))
    BY <1>2, <2>1
  <2>3. feeds[c][d] = Cardinality(Counted(X, c, d))
    BY <1>1, <2>1 DEF Cut, FeedsRight
  <2>4. From(X, d, V) = From(X, d, T) \cup Counted(X, c, d) /\ From(X, d, T) \cap Counted(X, c, d) = {}
    BY <1>3 DEF From, Into, Counted
  <2>5. IsFiniteSet(From(X, d, T)) /\ IsFiniteSet(Counted(X, c, d))
    <3>1. From(X, d, T) \in SUBSET X /\ Counted(X, c, d) \in SUBSET X
      BY DEF From, Into, Counted
    <3>2. QED
      BY <1>1, <3>1, FS_Subset
  <2>6. Cardinality(From(X, d, V)) = Cardinality(From(X, d, T)) + Cardinality(Counted(X, c, d))
    <3>1. Cardinality(From(X, d, T) \cup Counted(X, c, d))
          = Cardinality(From(X, d, T)) + Cardinality(Counted(X, c, d))
            - Cardinality(From(X, d, T) \cap Counted(X, c, d))
      BY <2>5, FS_Union
    <3>2. Cardinality({}) = 0 /\ Cardinality(From(X, d, T)) \in Nat /\ Cardinality(Counted(X, c, d)) \in Nat
      BY <2>5, FS_EmptySet, FS_CardinalityType
    <3>3. Cardinality(From(X, d, T) \cap Counted(X, c, d)) = 0
      BY <2>4, <3>2
    <3>4. \A p, q \in Nat : p + q - 0 = p + q
      OBVIOUS
    <3>5. Cardinality(From(X, d, V)) = Cardinality(From(X, d, T) \cup Counted(X, c, d))
      BY <2>4
    <3> HIDE DEF X, V
    <3>6. QED
      BY <3>1, <3>2, <3>3, <3>4, <3>5
  <2>7. Cardinality(From(X, d, T)) \in Nat /\ Cardinality(Counted(X, c, d)) \in Nat /\ gr.fedcount[d] \in Int
    BY <1>1, <2>1, <2>5, FS_CardinalityType
  <2> HIDE DEF feeds, new, X, V
  <2>8. QED
    BY <2>1, <2>2, <2>3, <2>6, <2>7
<1>12. V \subseteq Here(gr)
  BY <1>2
<1> HIDE DEF new
<1>13. Passed(gr, V, new)
  BY <1>5, <1>6, <1>8, <1>9, <1>10, <1>11, <1>12 DEF Passed
<1>14. QED
  BY <1>4, <1>13 DEF new

\* One turn of a pass, and one pass.
PassStep(gr, st, i, s) == IF i = 0 THEN st ELSE TakeSource(gr, s, gr.clients[i])
Passing(gr, st, n, f) == f = [i \in 0 .. n |-> PassStep(gr, st, i, f[i - 1])]

SortStart(gr) == [tfed |-> gr.fedcount, unsorted |-> Len(gr.clients)]
RoundStep(gr, n, s) == IF n = 0 THEN SortStart(gr) ELSE OnePass(gr, s)
Rounds(gr, n, f) == f = [k \in 0 .. n |-> RoundStep(gr, k, f[k - 1])]

\* The loop exists up to every turn.
LEMMA PassingExists ==
    ASSUME NEW gr, NEW st, NEW n \in Nat
    PROVE  \E f : Passing(gr, st, n, f)
<1> DEFINE bad == {m \in Nat : ~ \E f : Passing(gr, st, m, f)}
<1>1. SUFFICES ASSUME bad # {} PROVE FALSE
  OBVIOUS
<1>2. PICK m \in bad : \A k \in bad : m <= k
  <2>1. bad \in SUBSET Nat
    OBVIOUS
  <2> HIDE DEF bad
  <2>2. QED
    BY <1>1, <2>1, LeastExists
<1>3. CASE m = 0
  <2> DEFINE f == [i \in 0 .. 0 |-> PassStep(gr, st, 0, 0)]
  <2>1. Passing(gr, st, 0, f)
    BY DEF Passing, PassStep
  <2>2. QED
    BY <1>3, <2>1
<1>4. CASE m # 0
  <2>1. m \in Nat /\ m - 1 \in Nat /\ m - 1 \notin bad
    BY <1>2, <1>4
  <2>2. PICK f : Passing(gr, st, m - 1, f)
    BY <2>1
  <2> DEFINE h == [i \in 0 .. m |-> IF i < m THEN f[i] ELSE PassStep(gr, st, m, f[m - 1])]
  <2>3. ASSUME NEW i \in 0 .. m PROVE h[i] = PassStep(gr, st, i, h[i - 1])
    <3>1. CASE i = 0
      <4>1. f[0] = PassStep(gr, st, 0, f[0 - 1])
        BY <2>1, <2>2 DEF Passing
      <4>2. \A p, q : PassStep(gr, st, 0, p) = PassStep(gr, st, 0, q)
        BY Zenon DEF PassStep
      <4>3. h[0] = f[0]
        BY <1>4, <2>1
      <4>4. h[0] = PassStep(gr, st, 0, h[0 - 1])
        <5> HIDE DEF h
        <5>1. QED
          BY <4>1, <4>2, <4>3, Zenon
      <4>5. QED
        BY <3>1, <4>4, Zenon
    <3>2. CASE i # 0 /\ i < m
      <4>1. i \in 0 .. m - 1 /\ i - 1 \in 0 .. m - 1 /\ i - 1 < m
        BY <2>1, <3>2
      <4>2. f[i] = PassStep(gr, st, i, f[i - 1])
        BY <2>2, <4>1 DEF Passing
      <4>3. QED
        BY <3>2, <4>1, <4>2
    <3>3. CASE i = m
      BY <1>4, <2>1, <3>3
    <3>4. i = 0 \/ (i # 0 /\ i < m) \/ i = m
      BY <2>1
    <3>5. QED
      BY <3>1, <3>2, <3>3, <3>4, Zenon
  <2>4. Passing(gr, st, m, h)
    <3>1. h = [i \in 0 .. m |-> h[i]]
      OBVIOUS
    <3> HIDE DEF h
    <3>2. QED
      BY <2>3, <3>1 DEF Passing
  <2>5. QED
    BY <1>2, <2>4
<1>5. QED
  BY <1>3, <1>4

\* What the operator is: the loop's last turn.
LEMMA OnePassIs ==
    ASSUME NEW gr, NEW st, Len(gr.clients) \in Nat
    PROVE  \E f : Passing(gr, st, Len(gr.clients), f) /\ OnePass(gr, st) = f[Len(gr.clients)]
<1> DEFINE taken[i \in 0 .. Len(gr.clients)] ==
             IF i = 0 THEN st ELSE TakeSource(gr, taken[i - 1], gr.clients[i])
<1>1. \E f : f = [i \in 0 .. Len(gr.clients) |->
               IF i = 0 THEN st ELSE TakeSource(gr, f[i - 1], gr.clients[i])]
  <2>1. Len(gr.clients) \in Nat
    OBVIOUS
  <2>2. \E f : Passing(gr, st, Len(gr.clients), f)
    BY <2>1, PassingExists
  <2>3. QED
    BY <2>2 DEF Passing, PassStep
<1>2. taken = [i \in 0 .. Len(gr.clients) |->
               IF i = 0 THEN st ELSE TakeSource(gr, taken[i - 1], gr.clients[i])]
  BY <1>1, Zenon
<1>3. OnePass(gr, st) = taken[Len(gr.clients)]
  BY Zenon DEF OnePass
<1> HIDE DEF taken
<1>4. QED
  BY <1>2, <1>3 DEF Passing, PassStep

\* The loop exists up to every turn.
LEMMA RoundsExists ==
    ASSUME NEW gr, NEW n \in Nat
    PROVE  \E f : Rounds(gr, n, f)
<1> DEFINE bad == {m \in Nat : ~ \E f : Rounds(gr, m, f)}
<1>1. SUFFICES ASSUME bad # {} PROVE FALSE
  OBVIOUS
<1>2. PICK m \in bad : \A k \in bad : m <= k
  <2>1. bad \in SUBSET Nat
    OBVIOUS
  <2> HIDE DEF bad
  <2>2. QED
    BY <1>1, <2>1, LeastExists
<1>3. CASE m = 0
  <2> DEFINE f == [i \in 0 .. 0 |-> RoundStep(gr, 0, 0)]
  <2>1. Rounds(gr, 0, f)
    BY DEF Rounds, RoundStep, SortStart
  <2>2. QED
    BY <1>3, <2>1
<1>4. CASE m # 0
  <2>1. m \in Nat /\ m - 1 \in Nat /\ m - 1 \notin bad
    BY <1>2, <1>4
  <2>2. PICK f : Rounds(gr, m - 1, f)
    BY <2>1
  <2> DEFINE h == [i \in 0 .. m |-> IF i < m THEN f[i] ELSE RoundStep(gr, m, f[m - 1])]
  <2>3. ASSUME NEW i \in 0 .. m PROVE h[i] = RoundStep(gr, i, h[i - 1])
    <3>1. CASE i = 0
      <4>1. f[0] = RoundStep(gr, 0, f[0 - 1])
        BY <2>1, <2>2 DEF Rounds
      <4>2. \A p, q : RoundStep(gr, 0, p) = RoundStep(gr, 0, q)
        BY Zenon DEF RoundStep
      <4>3. h[0] = f[0]
        BY <1>4, <2>1
      <4>4. h[0] = RoundStep(gr, 0, h[0 - 1])
        <5> HIDE DEF h
        <5>1. QED
          BY <4>1, <4>2, <4>3, Zenon
      <4>5. QED
        BY <3>1, <4>4, Zenon
    <3>2. CASE i # 0 /\ i < m
      <4>1. i \in 0 .. m - 1 /\ i - 1 \in 0 .. m - 1 /\ i - 1 < m
        BY <2>1, <3>2
      <4>2. f[i] = RoundStep(gr, i, f[i - 1])
        BY <2>2, <4>1 DEF Rounds
      <4>3. QED
        BY <3>2, <4>1, <4>2
    <3>3. CASE i = m
      BY <1>4, <2>1, <3>3
    <3>4. i = 0 \/ (i # 0 /\ i < m) \/ i = m
      BY <2>1
    <3>5. QED
      BY <3>1, <3>2, <3>3, <3>4, Zenon
  <2>4. Rounds(gr, m, h)
    <3>1. h = [i \in 0 .. m |-> h[i]]
      OBVIOUS
    <3> HIDE DEF h
    <3>2. QED
      BY <2>3, <3>1 DEF Rounds
  <2>5. QED
    BY <1>2, <2>4
<1>5. QED
  BY <1>3, <1>4

\* What the operator is: the loop's last turn.
LEMMA SortsWithoutFeedbackIs ==
    ASSUME NEW gr, Len(gr.clients) \in Nat
    PROVE  \E f : Rounds(gr, Len(gr.clients), f) /\ SortsWithoutFeedback(gr) = (f[Len(gr.clients)].unsorted = 0)
<1> DEFINE passed[n \in 0 .. Len(gr.clients)] ==
             IF n = 0 THEN [tfed |-> gr.fedcount, unsorted |-> Len(gr.clients)]
             ELSE OnePass(gr, passed[n - 1])
<1>1. \E f : f = [n \in 0 .. Len(gr.clients) |->
               IF n = 0 THEN [tfed |-> gr.fedcount, unsorted |-> Len(gr.clients)]
             ELSE OnePass(gr, f[n - 1])]
  <2>1. Len(gr.clients) \in Nat
    OBVIOUS
  <2>2. \E f : Rounds(gr, Len(gr.clients), f)
    BY <2>1, RoundsExists
  <2>3. QED
    BY <2>2 DEF Rounds, RoundStep, SortStart
<1>2. passed = [n \in 0 .. Len(gr.clients) |->
               IF n = 0 THEN [tfed |-> gr.fedcount, unsorted |-> Len(gr.clients)]
             ELSE OnePass(gr, passed[n - 1])]
  BY <1>1, Zenon
<1>3. SortsWithoutFeedback(gr) = (passed[Len(gr.clients)].unsorted = 0)
  BY Zenon DEF SortsWithoutFeedback
<1> HIDE DEF passed
<1>4. QED
  BY <1>2, <1>3 DEF Rounds, RoundStep, SortStart

\* No client of the list is one that nothing feeds.
Stuck(gr, st) == \A c \in Here(gr) : st.tfed[c] # 0

\* A pass either finds none and changes nothing or takes some.
LEMMA PassKeeps ==
    ASSUME FreshFed \subseteq Nat, NEW gr, Cut(gr), NEW st, \E T : Passed(gr, T, st)
    PROVE  /\ \E T : Passed(gr, T, OnePass(gr, st))
           /\ \/ OnePass(gr, st) = st /\ Stuck(gr, st)
              \/ OnePass(gr, st).unsorted < st.unsorted /\ ~Stuck(gr, st)
<1> DEFINE n == Len(gr.clients)
<1>1. n \in Nat /\ DOMAIN gr.clients = 1 .. n /\ \A i \in 1 .. n : gr.clients[i] \in Here(gr)
  <2>1. gr.clients \in Seq(Clients)
    BY GraphFields DEF Cut
  <2>2. n \in Nat /\ DOMAIN gr.clients = 1 .. n
    BY <2>1
  <2>3. QED
    BY <2>2 DEF Here, ToSet
<1>2. PICK f : Passing(gr, st, n, f) /\ OnePass(gr, st) = f[n]
  BY <1>1, OnePassIs
<1> HIDE DEF n
<1>3. f[0] = st /\ \A i \in 1 .. n : f[i] = TakeSource(gr, f[i - 1], gr.clients[i])
  BY <1>1, <1>2 DEF Passing, PassStep
<1> DEFINE Good(i) == /\ \E T : Passed(gr, T, f[i])
                      /\ \/ f[i] = st /\ \A j \in 1 .. i : st.tfed[gr.clients[j]] # 0
                         \/ f[i].unsorted < st.unsorted /\ ~Stuck(gr, st)
           bad == {i \in 0 .. n : ~Good(i)}
<1>4. Good(0)
  BY <1>3
<1>5. ASSUME NEW k \in Nat, k < n, Good(k) PROVE Good(k + 1)
  <2> DEFINE c == gr.clients[k + 1]
  <2>1. k + 1 \in 1 .. n /\ (k + 1) - 1 = k
    BY <1>1, <1>5
  <2>2. c \in Here(gr) /\ f[k + 1] = TakeSource(gr, f[k], c)
    BY <2>1, <1>1, <1>3
  <2>3. PICK T : Passed(gr, T, f[k])
    BY <1>5
  <2>4. CASE f[k].tfed[c] # 0
    <3>1. f[k + 1] = f[k]
      BY <2>2, <2>4 DEF TakeSource
    <3>2. CASE f[k].unsorted < st.unsorted /\ ~Stuck(gr, st)
      BY <3>1, <3>2, <2>3
    <3>3. CASE f[k] = st /\ \A j \in 1 .. k : st.tfed[gr.clients[j]] # 0
      <4>1. \A j \in 1 .. k + 1 : j \in 1 .. k \/ j = k + 1
        OBVIOUS
      <4>2. QED
        BY <3>1, <3>3, <4>1, <2>3, <2>4
    <3>4. QED
      BY <1>5, <3>2, <3>3
  <2>5. CASE f[k].tfed[c] = 0
    <3>1. /\ Passed(gr, T \cup {c}, f[k + 1])
          /\ f[k + 1].unsorted = f[k].unsorted - 1
      BY <2>2, <2>3, <2>5, TakingKeeps
    <3>2. f[k].unsorted \in Int
      <4>1. /\ T \subseteq Here(gr) /\ f[k].unsorted = n - Cardinality(T)
        BY <2>3 DEF Passed, n
      <4>2. IsFiniteSet(T)
        BY <4>1, GraphFields, FS_Subset DEF Cut
      <4>3. QED
        BY <1>1, <4>1, <4>2, FS_CardinalityType
    <3>3. f[k].unsorted = st.unsorted \/ f[k].unsorted < st.unsorted
      BY <1>5, Zenon
    <3>4. f[k + 1].unsorted < st.unsorted
      <4>1. st.unsorted \in Int
        <5>1. PICK V : Passed(gr, V, st)
          OBVIOUS
        <5>2. /\ V \subseteq Here(gr) /\ st.unsorted = n - Cardinality(V)
          BY <5>1 DEF Passed, n
        <5>3. IsFiniteSet(V)
          BY <5>2, GraphFields, FS_Subset DEF Cut
        <5>4. QED
          BY <1>1, <5>2, <5>3, FS_CardinalityType
      <4>2. QED
        BY <3>1, <3>2, <3>3, <4>1
    <3>5. ~Stuck(gr, st)
      BY <1>5, <2>2, <2>5 DEF Stuck
    <3>6. QED
      BY <3>1, <3>4, <3>5
  <2>6. QED
    BY <2>4, <2>5
<1> HIDE DEF Good
<1>6. bad = {}
  <2> SUFFICES ASSUME bad # {} PROVE FALSE
    OBVIOUS
  <2>1. PICK i \in bad : \A j \in bad : i <= j
    <3>1. bad \in SUBSET Nat
      BY <1>1
    <3> HIDE DEF bad
    <3>2. QED
      BY <3>1, LeastExists
  <2>2. i # 0 /\ i \in 0 .. n
    BY <1>4
  <2>3. i - 1 \in Nat /\ i - 1 < n /\ (i - 1) + 1 = i /\ i - 1 \in 0 .. n /\ i - 1 \notin bad
    BY <2>1, <2>2, <1>1
  <2>4. Good(i - 1)
    BY <2>3
  <2>5. Good((i - 1) + 1)
    BY <2>3, <2>4, <1>5
  <2>6. QED
    BY <2>1, <2>3, <2>5
<1>7. Good(n)
  BY <1>1, <1>6
<1>8. ASSUME \A j \in 1 .. n : st.tfed[gr.clients[j]] # 0 PROVE Stuck(gr, st)
  BY <1>1, <1>8 DEF Stuck, Here, ToSet
<1>9. QED
  BY <1>2, <1>7, <1>8 DEF Good

\* What the search for a cycle ends with.
LEMMA RoundsEnd ==
    ASSUME FreshFed \subseteq Nat, NEW gr, Cut(gr)
    PROVE  \E T, st : /\ Passed(gr, T, st)
                      /\ SortsWithoutFeedback(gr) => T = Here(gr)
                      /\ ~SortsWithoutFeedback(gr) => Stuck(gr, st) /\ T # Here(gr)
<1> DEFINE n == Len(gr.clients)
<1>1. /\ n \in Nat /\ IsFiniteSet(Here(gr)) /\ Cardinality(Here(gr)) = n
      /\ gr.fedcount \in [Clients -> Int] /\ Here(gr) \subseteq Clients
  <2>1. /\ gr.clients \in Seq(Clients) /\ Once(gr.clients) /\ gr.fedcount \in [Clients -> Int]
        /\ Here(gr) \subseteq Clients
    BY GraphFields DEF Cut, ListsOnce
  <2>2. QED
    BY <2>1, OnceCounted DEF Here
<1>2. PICK f : Rounds(gr, n, f) /\ SortsWithoutFeedback(gr) = (f[n].unsorted = 0)
  BY <1>1, SortsWithoutFeedbackIs
<1>3. f[0] = SortStart(gr) /\ \A k \in 1 .. n : f[k] = OnePass(gr, f[k - 1])
  BY <1>1, <1>2 DEF Rounds, RoundStep
<1>4. \A T, st : Passed(gr, T, st) =>
                   /\ IsFiniteSet(T) /\ Cardinality(T) \in Nat /\ Cardinality(T) <= n
                   /\ st.unsorted = n - Cardinality(T) /\ st.unsorted \in Nat
  <2> SUFFICES ASSUME NEW T, NEW st, Passed(gr, T, st)
               PROVE  /\ IsFiniteSet(T) /\ Cardinality(T) \in Nat /\ Cardinality(T) <= n
                      /\ st.unsorted = n - Cardinality(T) /\ st.unsorted \in Nat
    OBVIOUS
  <2>1. T \subseteq Here(gr) /\ st.unsorted = n - Cardinality(T)
    BY DEF Passed
  <2>2. IsFiniteSet(T) /\ Cardinality(T) <= n
    BY <2>1, <1>1, FS_Subset
  <2>3. Cardinality(T) \in Nat
    BY <2>2, FS_CardinalityType
  <2> HIDE DEF n
  <2>4. QED
    BY <2>1, <2>2, <2>3, <1>1
<1> DEFINE Good(k) == /\ \E T : Passed(gr, T, f[k])
                      /\ f[k].unsorted <= n - k \/ Stuck(gr, f[k])
           bad == {k \in 0 .. n : ~Good(k)}
<1>5. Good(0)
  <2>1. f[0].tfed = gr.fedcount /\ f[0].unsorted = n
    BY <1>3 DEF SortStart
  <2>2. Cardinality({}) = 0
    BY FS_EmptySet
  <2>3. \A d \in Here(gr) : From(In(gr), d, {}) = {}
    BY DEF From
  <2>4. Passed(gr, {}, f[0])
    <3>1. f[0].unsorted = Len(gr.clients) - Cardinality({})
      BY <2>1, <2>2, <1>1
    <3>2. ASSUME NEW d \in Here(gr)
          PROVE  f[0].tfed[d] = gr.fedcount[d] - Cardinality(From(In(gr), d, {}))
      <4>1. Cardinality(From(In(gr), d, {})) = 0
        BY <2>2, <2>3
      <4>2. gr.fedcount[d] \in Int
        BY <1>1
      <4>3. f[0].tfed[d] = gr.fedcount[d]
        BY <2>1
      <4>4. QED
        BY <4>1, <4>2, <4>3
    <3>3. \A d \in Clients : f[0].tfed[d] \in Int
      BY <2>1, <1>1
    <3>4. QED
      BY <3>1, <3>2, <3>3 DEF Passed
  <2>5. f[0].unsorted <= n - 0
    BY <2>1, <1>1
  <2>6. QED
    BY <2>4, <2>5
<1> HIDE DEF n
<1>6. ASSUME NEW k \in Nat, k < n, Good(k) PROVE Good(k + 1)
  <2>1. k + 1 \in 1 .. n /\ (k + 1) - 1 = k
    BY <1>1, <1>6
  <2>2. f[k + 1] = OnePass(gr, f[k])
    BY <2>1, <1>3
  <2>3. /\ \E T : Passed(gr, T, f[k + 1])
        /\ \/ f[k + 1] = f[k] /\ Stuck(gr, f[k])
           \/ f[k + 1].unsorted < f[k].unsorted /\ ~Stuck(gr, f[k])
    BY <1>6, <2>2, PassKeeps
  <2>4. f[k].unsorted \in Nat /\ f[k + 1].unsorted \in Nat
    BY <1>4, <1>6, <2>3
  <2>5. CASE f[k + 1] = f[k] /\ Stuck(gr, f[k])
    BY <2>3, <2>5
  <2>6. CASE f[k + 1].unsorted < f[k].unsorted /\ f[k].unsorted <= n - k
    <3>1. f[k + 1].unsorted <= n - (k + 1)
      BY <2>4, <2>6, <1>1
    <3>2. QED
      BY <2>3, <3>1
  <2>7. QED
    BY <1>6, <2>3, <2>5, <2>6
<1> HIDE DEF Good
<1>7. bad = {}
  <2> SUFFICES ASSUME bad # {} PROVE FALSE
    OBVIOUS
  <2>1. PICK i \in bad : \A j \in bad : i <= j
    <3>1. bad \in SUBSET Nat
      BY <1>1
    <3> HIDE DEF bad
    <3>2. QED
      BY <3>1, LeastExists
  <2>2. i # 0 /\ i \in 0 .. n
    BY <1>5
  <2>3. i - 1 \in Nat /\ i - 1 < n /\ (i - 1) + 1 = i /\ i - 1 \in 0 .. n /\ i - 1 \notin bad
    BY <2>1, <2>2, <1>1
  <2>4. Good(i - 1)
    BY <2>3
  <2>5. Good((i - 1) + 1)
    BY <2>3, <2>4, <1>6
  <2>6. QED
    BY <2>1, <2>3, <2>5
<1>8. Good(n)
  BY <1>1, <1>7
<1>9. PICK T : Passed(gr, T, f[n])
  BY <1>8 DEF Good
<1>10. T \subseteq Here(gr) /\ f[n].unsorted = n - Cardinality(T) /\ f[n].unsorted \in Nat
       /\ Cardinality(T) \in Nat
  BY <1>4, <1>9 DEF Passed
<1>11. ASSUME SortsWithoutFeedback(gr) PROVE T = Here(gr)
  <2>1. Cardinality(T) = Cardinality(Here(gr))
    <3>1. f[n].unsorted = 0
      BY <1>2, <1>11
    <3>2. \A p, q \in Nat : 0 = p - q => q = p
      OBVIOUS
    <3>3. QED
      BY <3>1, <3>2, <1>1, <1>10
  <2>2. QED
    BY <2>1, <1>1, <1>10, FS_Subset
<1>12. ASSUME ~SortsWithoutFeedback(gr) PROVE Stuck(gr, f[n]) /\ T # Here(gr)
  <2>1. f[n].unsorted # 0
    BY <1>2, <1>12
  <2>2. ~(f[n].unsorted <= n - n)
    BY <2>1, <1>1, <1>10
  <2>3. Cardinality(T) # Cardinality(Here(gr))
    BY <2>1, <1>1, <1>10
  <2>4. QED
    BY <2>2, <2>3, <1>8 DEF Good
<1>13. QED
  BY <1>9, <1>11, <1>12

LEMMA SortedIsAcyclic ==
    ASSUME FreshFed \subseteq Nat, NEW gr, Cut(gr), SortsWithoutFeedback(gr)
    PROVE  ~Cyclic(gr.truefeeds)
<1>1. PICK T, st : Passed(gr, T, st) /\ T = Here(gr)
  BY RoundsEnd
<1> SUFFICES ASSUME NEW c \in Clients PROVE c \notin Fed(gr.truefeeds, c)
  BY DEF Cyclic
<1>2. CASE c \in Here(gr)
  BY <1>1, <1>2 DEF Passed
<1>3. CASE c \notin Here(gr)
  <2>1. ASSUME NEW d \in Clients PROVE ~(gr.truefeeds[c][d] > 0)
    <3>1. gr.truefeeds[c][d] = Cardinality(Counted(In(gr), c, d))
      BY DEF Cut, FeedsRight
    <3>2. Counted(In(gr), c, d) = {}
      BY <1>3 DEF Cut, DirsRight, Counted
    <3>3. QED
      BY <3>1, <3>2, FS_EmptySet
  <2>2. Fed(gr.truefeeds, c) \subseteq {}
    <3>1. {} \in SUBSET Clients /\ \A d \in Clients : gr.truefeeds[c][d] > 0 => d \in {}
      BY <2>1
    <3>2. \A d \in {}, e \in Clients : gr.truefeeds[d][e] > 0 => e \in {}
      OBVIOUS
    <3>3. QED
      BY <3>1, <3>2, FedWithin
  <2>3. QED
    BY <2>2
<1>4. QED
  BY <1>2, <1>3

LEMMA StuckIsCyclic ==
    ASSUME FreshFed = {0}, NEW gr, Cut(gr), ~SortsWithoutFeedback(gr)
    PROVE  Cyclic(gr.truefeeds) \/ \E d \in Drivers : gr.fedcount[d] < 0
<1> DEFINE X == In(gr)
<1>1. PICK T, st : Passed(gr, T, st) /\ Stuck(gr, st) /\ T # Here(gr)
  BY RoundsEnd
<1> DEFINE U == Here(gr) \ T
<1>2. U # {} /\ IsFiniteSet(U) /\ U \subseteq Clients /\ IsFiniteSet(X) /\ X \subseteq Connections
      /\ gr.fedcount \in [Clients -> Int]
  BY <1>1, GraphFields, FS_Subset DEF Passed, Cut
<1>3. SUFFICES ASSUME \A d \in Drivers : ~(gr.fedcount[d] < 0) PROVE Cyclic(gr.truefeeds)
  OBVIOUS
<1>4. ASSUME NEW c \in U PROVE \E b \in U : gr.truefeeds[b][c] > 0
  <2>1. /\ st.tfed[c] # 0 /\ c \in Clients /\ gr.fedcount[c] \in Int
        /\ st.tfed[c] = gr.fedcount[c] - Cardinality(From(X, c, T))
    BY <1>1, <1>2 DEF Passed, Stuck
  <2>2. c \notin Drivers
    <3> SUFFICES ASSUME c \in Drivers PROVE FALSE
      OBVIOUS
    <3>1. gr.fedcount[c] = 0
      BY <1>3, <2>1 DEF Cut, FedRight
    <3>2. From(X, c, T) = {}
      BY DEF From, Into
    <3>3. Cardinality(From(X, c, T)) = 0
      BY <3>2, FS_EmptySet
    <3>4. QED
      BY <2>1, <3>1, <3>3
  <2>3. gr.fedcount[c] - Cardinality(Into(X, c)) = 0
    BY <2>2 DEF Cut, FedRight
  <2>4. PICK x \in Into(X, c) : Src(x) \notin T
    <3> SUFFICES ASSUME \A x \in Into(X, c) : Src(x) \in T PROVE FALSE
      OBVIOUS
    <3>1. From(X, c, T) = Into(X, c)
      BY DEF From
    <3>2. QED
      BY <2>1, <2>3, <3>1
  <2>5. Src(x) \in U /\ x \in X
    BY <2>4 DEF Cut, DirsRight, Into
  <2>6. gr.truefeeds[Src(x)][c] = Cardinality(Counted(X, Src(x), c))
    BY <2>1, <2>5, <1>2 DEF Cut, FeedsRight
  <2>7. x \in Counted(X, Src(x), c)
    BY <2>4 DEF Into, Counted
  <2>8. Cardinality(Counted(X, Src(x), c)) > 0
    <3> HIDE DEF X
    <3>1. IsFiniteSet(Counted(X, Src(x), c))
      BY <1>2, CountsAreFinite
    <3>2. QED
      BY <2>7, <3>1, SomeCounted
  <2>9. QED
    BY <2>5, <2>6, <2>8
<1> HIDE DEF U
<1>5. QED
  BY <1>2, <1>4, NoSourceCycle

------------------------------------------------------------------------------
(* The steps on the graph.                                                    *)

\* The clients are the same, in any order, and what is known of them.
Alike(gr, h) ==
    /\ h.active = gr.active /\ h.dead = gr.dead /\ h.error = gr.error
    /\ Here(h) = Here(gr)

Pairs(gr) == {<<x.source, x.destination>> : x \in In(gr)}

LEMMA SortFields ==
    ASSUME NEW gr, GraphShape(gr), Once(gr.clients)
    PROVE  LET h == jack_sort_graph(gr)
           IN  /\ GraphShape(h) /\ Alike(gr, h) /\ Once(h.clients)
               /\ h.connections = gr.connections
               /\ h.sortfeeds = gr.sortfeeds /\ h.truefeeds = gr.truefeeds
               /\ h.fedcount = gr.fedcount /\ h.feedbackcount = gr.feedbackcount
<1> DEFINE l == MergeSort(ComesFirst(gr), gr.clients)
           h == jack_sort_graph(gr)
<1>1. gr \in Graph /\ gr.clients \in Seq(Clients)
  BY GraphFields DEF GraphShape
<1>2. l \in Seq(Clients) /\ Once(l) /\ ToSet(l) = ToSet(gr.clients)
  BY <1>1, SortIsOnce
<1>3. h = [gr EXCEPT !.clients = l]
  BY Zenon DEF jack_sort_graph
<1> HIDE DEF l, h
<1>4. /\ h \in Graph /\ h.clients = l
      /\ h.active = gr.active /\ h.dead = gr.dead /\ h.error = gr.error
      /\ h.connections = gr.connections
      /\ h.sortfeeds = gr.sortfeeds /\ h.truefeeds = gr.truefeeds
      /\ h.fedcount = gr.fedcount /\ h.feedbackcount = gr.feedbackcount
  BY <1>1, <1>2, <1>3 DEF Graph
<1>5. QED
  BY <1>2, <1>4 DEF GraphShape, Alike, Here, h

LEMMA SortKeeps ==
    ASSUME NEW gr, Cut(gr)
    PROVE  LET h == jack_sort_graph(gr)
           IN  /\ Cut(h) /\ (FeedbackRight(gr) => FeedbackRight(h))
               /\ Alike(gr, h) /\ h.connections = gr.connections
               /\ h.feedbackcount = gr.feedbackcount
<1> DEFINE h == jack_sort_graph(gr)
<1>1. /\ GraphShape(h) /\ Alike(gr, h) /\ Once(h.clients)
      /\ h.connections = gr.connections
      /\ h.sortfeeds = gr.sortfeeds /\ h.truefeeds = gr.truefeeds
      /\ h.fedcount = gr.fedcount /\ h.feedbackcount = gr.feedbackcount
  BY SortFields DEF Cut, ListsOnce
<1> HIDE DEF h
<1>2. In(h) = In(gr) /\ Here(h) = Here(gr)
  BY <1>1 DEF In, Alike
<1>3. ListsOnce(h)
  BY <1>1, <1>2 DEF Cut, ListsOnce
<1>4. DirsRight(h)
  BY <1>2 DEF Cut, DirsRight
<1>5. FeedsRight(h)
  BY <1>1, <1>2 DEF Cut, FeedsRight
<1>6. FedRight(h)
  BY <1>1, <1>2 DEF Cut, FedRight
<1>7. SortsRight(h)
  BY <1>1 DEF Cut, SortsRight
<1>8. FeedbackRight(gr) => FeedbackRight(h)
  BY <1>1 DEF FeedbackRight
<1>9. QED
  BY <1>1, <1>3, <1>4, <1>5, <1>6, <1>7, <1>8 DEF Cut, h

\* What a new connection adds to the counts.
CountsGrow(X, x, c, d) ==
    LET Y == X \cup {x}
        new == x.dir # 0 /\ Dst(x) \notin Drivers /\ Src(x) = c /\ Dst(x) = d
        into == x.dir # 0 /\ Dst(x) \notin Drivers /\ Dst(x) = d
    IN  /\ Cardinality(Counted(Y, c, d))
           = IF new THEN Cardinality(Counted(X, c, d)) + 1 ELSE Cardinality(Counted(X, c, d))
        /\ Cardinality(Forwards(Y, c, d))
           = IF new /\ x.dir = 1 THEN Cardinality(Forwards(X, c, d)) + 1
                                 ELSE Cardinality(Forwards(X, c, d))
        /\ Cardinality(Feedbacks(Y, c, d))
           = IF new /\ x.dir = -1 THEN Cardinality(Feedbacks(X, c, d)) + 1
                                  ELSE Cardinality(Feedbacks(X, c, d))
        /\ Cardinality(Into(Y, d))
           = IF into THEN Cardinality(Into(X, d)) + 1 ELSE Cardinality(Into(X, d))
        /\ Cardinality(AllBack(Y))
           = IF x.dir = -1 THEN Cardinality(AllBack(X)) + 1 ELSE Cardinality(AllBack(X))

LEMMA NewCounts ==
    ASSUME NEW X, IsFiniteSet(X), NEW x, x \notin X, NEW c, NEW d
    PROVE  CountsGrow(X, x, c, d)
<1> DEFINE Y == X \cup {x}
           new == x.dir # 0 /\ Dst(x) \notin Drivers /\ Src(x) = c /\ Dst(x) = d
           into == x.dir # 0 /\ Dst(x) \notin Drivers /\ Dst(x) = d
<1>1. /\ IsFiniteSet(Counted(X, c, d)) /\ IsFiniteSet(Forwards(X, c, d))
      /\ IsFiniteSet(Feedbacks(X, c, d)) /\ IsFiniteSet(Into(X, d)) /\ IsFiniteSet(AllBack(X))
  BY CountsAreFinite
<1>2. /\ x \notin Counted(X, c, d) /\ x \notin Forwards(X, c, d) /\ x \notin Feedbacks(X, c, d)
      /\ x \notin Into(X, d) /\ x \notin AllBack(X)
  BY DEF Counted, Forwards, Feedbacks, Into, AllBack
<1>3. Counted(Y, c, d) = IF new THEN Counted(X, c, d) \cup {x} ELSE Counted(X, c, d)
  BY DEF Counted
<1>4. Forwards(Y, c, d) = IF new /\ x.dir = 1 THEN Forwards(X, c, d) \cup {x} ELSE Forwards(X, c, d)
  BY DEF Counted, Forwards
<1>5. Feedbacks(Y, c, d) = IF new /\ x.dir = -1 THEN Feedbacks(X, c, d) \cup {x} ELSE Feedbacks(X, c, d)
  BY DEF Counted, Feedbacks
<1>6. Into(Y, d) = IF into THEN Into(X, d) \cup {x} ELSE Into(X, d)
  BY DEF Into
<1>7. AllBack(Y) = IF x.dir = -1 THEN AllBack(X) \cup {x} ELSE AllBack(X)
  BY DEF AllBack
<1>8. /\ Cardinality(Counted(X, c, d) \cup {x}) = Cardinality(Counted(X, c, d)) + 1
      /\ Cardinality(Forwards(X, c, d) \cup {x}) = Cardinality(Forwards(X, c, d)) + 1
      /\ Cardinality(Feedbacks(X, c, d) \cup {x}) = Cardinality(Feedbacks(X, c, d)) + 1
      /\ Cardinality(Into(X, d) \cup {x}) = Cardinality(Into(X, d)) + 1
      /\ Cardinality(AllBack(X) \cup {x}) = Cardinality(AllBack(X)) + 1
  BY <1>1, <1>2, OneMore
<1> HIDE DEF new, into, Y
<1>9. /\ Cardinality(Counted(Y, c, d))
         = IF new THEN Cardinality(Counted(X, c, d)) + 1 ELSE Cardinality(Counted(X, c, d))
      /\ Cardinality(Forwards(Y, c, d))
         = IF new /\ x.dir = 1 THEN Cardinality(Forwards(X, c, d)) + 1
                               ELSE Cardinality(Forwards(X, c, d))
      /\ Cardinality(Feedbacks(Y, c, d))
         = IF new /\ x.dir = -1 THEN Cardinality(Feedbacks(X, c, d)) + 1
                                ELSE Cardinality(Feedbacks(X, c, d))
      /\ Cardinality(Into(Y, d))
         = IF into THEN Cardinality(Into(X, d)) + 1 ELSE Cardinality(Into(X, d))
      /\ Cardinality(AllBack(Y))
         = IF x.dir = -1 THEN Cardinality(AllBack(X)) + 1 ELSE Cardinality(AllBack(X))
  BY <1>3, <1>4, <1>5, <1>6, <1>7, <1>8
<1>10. QED
  BY <1>9 DEF new, into, Y, CountsGrow

AddsOne(f, c, d) ==
    \A a, b \in Clients :
        Added(f, c, d)[a][b] = IF a = c /\ b = d THEN f[a][b] + 1 ELSE f[a][b]

TakesOne(f, c, d) ==
    \A a, b \in Clients :
        Removed(f, c, d)[a][b] = IF a = c /\ b = d /\ f[a][b] # 0 THEN f[a][b] - 1 ELSE f[a][b]

LEMMA AddedIs ==
    ASSUME NEW f \in [Clients -> [Clients -> Nat]], NEW c \in Clients, NEW d \in Clients
    PROVE  /\ Added(f, c, d) \in [Clients -> [Clients -> Nat]]
           /\ AddsOne(f, c, d)
<1> DEFINE r == [f[c] EXCEPT ![d] = f[c][d] + 1]
<1>1. r \in [Clients -> Nat] /\ \A b \in Clients : r[b] = IF b = d THEN f[c][d] + 1 ELSE f[c][b]
  OBVIOUS
<1>2. Added(f, c, d) = [f EXCEPT ![c] = r]
  BY DEF Added
<1> HIDE DEF r
<1>3. /\ [f EXCEPT ![c] = r] \in [Clients -> [Clients -> Nat]]
      /\ \A a \in Clients : [f EXCEPT ![c] = r][a] = IF a = c THEN r ELSE f[a]
  BY <1>1
<1>4. QED
  BY <1>1, <1>2, <1>3 DEF AddsOne

LEMMA RemovedIs ==
    ASSUME NEW f \in [Clients -> [Clients -> Nat]], NEW c \in Clients, NEW d \in Clients
    PROVE  /\ Removed(f, c, d) \in [Clients -> [Clients -> Nat]]
           /\ TakesOne(f, c, d)
<1> DEFINE v == IF f[c][d] = 0 THEN 0 ELSE f[c][d] - 1
           r == [f[c] EXCEPT ![d] = v]
<1>1. f[c][d] \in Nat /\ v \in Nat
  OBVIOUS
<1>2. Removed(f, c, d) = [f EXCEPT ![c] = r]
  BY DEF Removed
<1>3. v = IF f[c][d] # 0 THEN f[c][d] - 1 ELSE f[c][d]
  BY <1>1
<1> HIDE DEF v
<1>4. r \in [Clients -> Nat] /\ \A b \in Clients : r[b] = IF b = d THEN v ELSE f[c][b]
  BY <1>1
<1> HIDE DEF r
<1>5. /\ [f EXCEPT ![c] = r] \in [Clients -> [Clients -> Nat]]
      /\ \A a \in Clients : [f EXCEPT ![c] = r][a] = IF a = c THEN r ELSE f[a]
  BY <1>4
<1>6. QED
  BY <1>2, <1>3, <1>4, <1>5 DEF TakesOne

\* The graph with a connection from s to d more, before it is sorted.
LinkOf(gr, s, d) ==
    [source |-> s, destination |-> d,
     dir |-> IF Owner[d] \in Drivers THEN 1
             ELSE IF Owner[s] = Owner[d] THEN 0
             ELSE IF jack_client_feeds_transitive(gr, Owner[d], Owner[s]) THEN -1 ELSE 1]

LinkedIn(gr, s, d) ==
    LET src == Owner[s]
        dst == Owner[d]
        feedback == jack_client_feeds_transitive(gr, dst, src)
        connected == [gr EXCEPT !.connections = <<LinkOf(gr, s, d)>> \o @]
    IN  IF dst \in Drivers \/ src = dst THEN connected
        ELSE [connected EXCEPT
            !.truefeeds = Added(@, src, dst),
            !.fedcount[dst] = @ + 1,
            !.sortfeeds = IF feedback THEN Added(@, dst, src)
                                      ELSE Added(@, src, dst),
            !.feedbackcount = IF feedback THEN @ + 1 ELSE @]

LEMMA ConnectIs ==
    ASSUME NEW gr, NEW s, NEW d
    PROVE  jack_port_do_connect(gr, s, d) = jack_sort_graph(LinkedIn(gr, s, d))
BY Zenon DEF jack_port_do_connect, LinkedIn, LinkOf

\* Its fields.
LEMMA LinkedFields ==
    ASSUME NEW gr, GraphShape(gr), NEW s \in Ports, NEW d \in Ports
    PROVE  LET x == LinkOf(gr, s, d)
               h == LinkedIn(gr, s, d)
               src == Owner[s]
               dst == Owner[d]
               feedback == src \in Fed(gr.sortfeeds, dst)
               plain == dst \in Drivers \/ src = dst
           IN  /\ x \in Connections /\ x.source = s /\ x.destination = d
               /\ x.dir = IF dst \in Drivers THEN 1 ELSE IF src = dst THEN 0
                          ELSE IF feedback THEN -1 ELSE 1
               /\ GraphShape(h) /\ Alike(gr, h) /\ h.clients = gr.clients
               /\ h.connections = <<x>> \o gr.connections
               /\ h.truefeeds = IF plain THEN gr.truefeeds ELSE Added(gr.truefeeds, src, dst)
               /\ h.fedcount = IF plain THEN gr.fedcount
                               ELSE [gr.fedcount EXCEPT ![dst] = @ + 1]
               /\ h.sortfeeds = IF plain THEN gr.sortfeeds
                                ELSE IF feedback THEN Added(gr.sortfeeds, dst, src)
                                ELSE Added(gr.sortfeeds, src, dst)
               /\ h.feedbackcount = IF ~plain /\ feedback THEN gr.feedbackcount + 1
                                    ELSE gr.feedbackcount
<1> DEFINE x == LinkOf(gr, s, d)
           h == LinkedIn(gr, s, d)
           src == Owner[s]
           dst == Owner[d]
           feedback == src \in Fed(gr.sortfeeds, dst)
           plain == dst \in Drivers \/ src = dst
           l == <<x>> \o gr.connections
           mid == [gr EXCEPT !.connections = l]
<1>1. src \in Clients /\ dst \in Clients
  BY GraphAssumption
<1>2. x.source = s /\ x.destination = d
      /\ x.dir = IF dst \in Drivers THEN 1 ELSE IF src = dst THEN 0
                 ELSE IF feedback THEN -1 ELSE 1
  BY DEF LinkOf, jack_client_feeds_transitive
<1>3. x \in Connections
  <2>1. x = [source |-> s, destination |-> d, dir |-> x.dir]
    BY DEF LinkOf
  <2>2. x.dir \in Dirs
    BY <1>2 DEF Dirs
  <2> HIDE DEF x
  <2>3. QED
    BY <2>1, <2>2 DEF Connections
<1>4. /\ gr \in Graph /\ gr.connections \in Seq(Connections)
      /\ gr.sortfeeds \in [Clients -> [Clients -> Nat]] /\ gr.truefeeds \in [Clients -> [Clients -> Nat]]
      /\ gr.fedcount \in [Clients -> Int] /\ gr.feedbackcount \in Int
  BY GraphFields DEF GraphShape
<1> HIDE DEF x
<1>5. l \in Seq(Connections)
  BY <1>3, <1>4, HeadedList
<1> HIDE DEF l
<1>6. /\ mid \in Graph /\ mid.connections = l /\ mid.clients = gr.clients
      /\ mid.active = gr.active /\ mid.dead = gr.dead /\ mid.error = gr.error
      /\ mid.sortfeeds = gr.sortfeeds /\ mid.truefeeds = gr.truefeeds
      /\ mid.fedcount = gr.fedcount /\ mid.feedbackcount = gr.feedbackcount
  BY <1>4, <1>5 DEF Graph
<1>7. h = IF plain THEN mid
          ELSE [mid EXCEPT !.truefeeds = Added(@, src, dst), !.fedcount[dst] = @ + 1,
                           !.sortfeeds = IF feedback THEN Added(@, dst, src) ELSE Added(@, src, dst),
                           !.feedbackcount = IF feedback THEN @ + 1 ELSE @]
  BY Zenon DEF LinkedIn, jack_client_feeds_transitive, l, x
<1> HIDE DEF h, mid, src, dst
<1>8. CASE plain
  <2>1. h = mid
    BY <1>7, <1>8
  <2>2. GraphShape(h) /\ Alike(gr, h)
    BY <2>1, <1>6 DEF GraphShape, Alike, Here
  <2>3. QED
    BY <1>2, <1>3, <1>6, <1>8, <2>1, <2>2 DEF h, src, dst, l, x
<1>9. CASE ~plain
  <2> DEFINE tf == Added(gr.truefeeds, src, dst)
             fc == [gr.fedcount EXCEPT ![dst] = @ + 1]
             sf == IF feedback THEN Added(gr.sortfeeds, dst, src) ELSE Added(gr.sortfeeds, src, dst)
             fb == IF feedback THEN gr.feedbackcount + 1 ELSE gr.feedbackcount
  <2>1. tf \in [Clients -> [Clients -> Nat]] /\ sf \in [Clients -> [Clients -> Nat]]
    BY <1>1, <1>4, AddedIs
  <2>2. fc \in [Clients -> Int] /\ fb \in Int
    BY <1>1, <1>4
  <2>3. h = [mid EXCEPT !.truefeeds = tf, !.fedcount = fc, !.sortfeeds = sf, !.feedbackcount = fb]
    BY <1>6, <1>7, <1>9
  <2> HIDE DEF tf, fc, sf, fb
  <2>4. /\ h \in Graph /\ h.connections = l /\ h.clients = gr.clients
        /\ h.active = gr.active /\ h.dead = gr.dead /\ h.error = gr.error
        /\ h.truefeeds = tf /\ h.fedcount = fc /\ h.sortfeeds = sf /\ h.feedbackcount = fb
    BY <1>6, <2>1, <2>2, <2>3 DEF Graph
  <2>5. GraphShape(h) /\ Alike(gr, h)
    BY <2>4 DEF GraphShape, Alike, Here
  <2>6. QED
    BY <1>2, <1>3, <1>9, <2>4, <2>5 DEF h, src, dst, l, x, tf, fc, sf, fb
<1>10. QED
  BY <1>8, <1>9

\* No client feeds a driver, so none is reached by feedback.
LEMMA DriversUnfed ==
    ASSUME NEW gr, Cut(gr), NEW c \in Clients
    PROVE  Fed(gr.sortfeeds, c) \cap Drivers = {} /\ Fed(gr.truefeeds, c) \cap Drivers = {}
<1> DEFINE S == Clients \ Drivers
           X == In(gr)
<1>1. ASSUME NEW b \in Clients, NEW d \in Clients, d \in Drivers
      PROVE  ~(gr.sortfeeds[b][d] > 0) /\ ~(gr.truefeeds[b][d] > 0)
  <2>1. Forwards(X, b, d) = {} /\ Counted(X, b, d) = {}
    BY <1>1 DEF Forwards, Counted
  <2>2. Feedbacks(X, d, b) = {}
    BY <1>1 DEF Feedbacks, Counted, Cut, DirsRight
  <2>3. Cardinality({}) = 0
    BY FS_EmptySet
  <2>4. gr.sortfeeds[b][d] = 0 + 0 /\ gr.truefeeds[b][d] = 0
    BY <2>1, <2>2, <2>3 DEF Cut, FeedsRight
  <2>5. QED
    BY <2>4
<1>2. S \in SUBSET Clients
  OBVIOUS
<1>3. /\ \A d \in Clients : gr.sortfeeds[c][d] > 0 => d \in S
      /\ \A d \in Clients : gr.truefeeds[c][d] > 0 => d \in S
  BY <1>1
<1>4. /\ \A b \in S, d \in Clients : gr.sortfeeds[b][d] > 0 => d \in S
      /\ \A b \in S, d \in Clients : gr.truefeeds[b][d] > 0 => d \in S
  BY <1>1
<1>5. Fed(gr.sortfeeds, c) \subseteq S
  <2> HIDE DEF S
  <2>1. QED
    BY <1>2, <1>3, <1>4, FedWithin
<1>6. Fed(gr.truefeeds, c) \subseteq S
  <2> HIDE DEF S
  <2>1. QED
    BY <1>2, <1>3, <1>4, FedWithin
<1>7. QED
  BY <1>5, <1>6

\* A connection of two clients of the list that are not connected is right.
LEMMA LinkedKeeps ==
    ASSUME NEW gr, Kept(gr), NEW s \in Ports, NEW d \in Ports,
           Owner[s] \in Here(gr), Owner[d] \in Here(gr), ~Connected(gr, s, d)
    PROVE  LET h == LinkedIn(gr, s, d)
           IN  Kept(h) /\ Alike(gr, h) /\ Pairs(h) = Pairs(gr) \cup {<<s, d>>}
<1> DEFINE x == LinkOf(gr, s, d)
           h == LinkedIn(gr, s, d)
           src == Owner[s]
           dst == Owner[d]
           feedback == src \in Fed(gr.sortfeeds, dst)
           plain == dst \in Drivers \/ src = dst
           X == In(gr)
<1>1. /\ gr.connections \in Seq(Connections)
      /\ gr.sortfeeds \in [Clients -> [Clients -> Nat]] /\ gr.truefeeds \in [Clients -> [Clients -> Nat]]
      /\ gr.fedcount \in [Clients -> Int] /\ gr.feedbackcount \in Int
      /\ IsFiniteSet(X) /\ X \subseteq Connections /\ Here(gr) \subseteq Clients
      /\ src \in Clients /\ dst \in Clients
  BY GraphFields, GraphAssumption DEF Kept, Cut
<1>2. /\ x \in Connections /\ x.source = s /\ x.destination = d
      /\ x.dir = IF dst \in Drivers THEN 1 ELSE IF src = dst THEN 0
                 ELSE IF feedback THEN -1 ELSE 1
      /\ GraphShape(h) /\ Alike(gr, h) /\ h.clients = gr.clients
      /\ h.connections = <<x>> \o gr.connections
      /\ h.truefeeds = IF plain THEN gr.truefeeds ELSE Added(gr.truefeeds, src, dst)
      /\ h.fedcount = IF plain THEN gr.fedcount ELSE [gr.fedcount EXCEPT ![dst] = @ + 1]
      /\ h.sortfeeds = IF plain THEN gr.sortfeeds
                       ELSE IF feedback THEN Added(gr.sortfeeds, dst, src)
                       ELSE Added(gr.sortfeeds, src, dst)
      /\ h.feedbackcount = IF ~plain /\ feedback THEN gr.feedbackcount + 1 ELSE gr.feedbackcount
  BY LinkedFields DEF Kept, Cut
<1>3. Src(x) = src /\ Dst(x) = dst
  BY <1>2 DEF Src, Dst
<1> HIDE DEF x, h, src, dst, feedback, plain, X
<1>4. x \notin X
  BY <1>2 DEF Connected, In, X
<1>5. In(h) = X \cup {x} /\ Here(h) = Here(gr) /\ Once(h.connections)
  <2>1. Once(gr.connections) /\ x \notin ToSet(gr.connections)
    BY <1>4 DEF Kept, Cut, ListsOnce, In, X
  <2>2. In(h) = ToSet(<<x>> \o gr.connections) /\ Here(h) = Here(gr) /\ X = ToSet(gr.connections)
    BY <1>2 DEF In, Alike, X
  <2> DEFINE l == gr.connections
  <2>3. l \in Seq(Connections) /\ Once(l) /\ x \notin ToSet(l) /\ x \in Connections
    BY <1>1, <1>2, <2>1
  <2> HIDE DEF l
  <2>4. ToSet(<<x>> \o l) = ToSet(l) \cup {x} /\ Once(<<x>> \o l)
    BY <2>3, HeadedList
  <2>5. QED
    BY <1>2, <2>2, <2>4 DEF l
<1>0. /\ AddsOne(gr.truefeeds, src, dst)
      /\ AddsOne(gr.sortfeeds, src, dst) /\ AddsOne(gr.sortfeeds, dst, src)
  BY <1>1, AddedIs
<1>6. ListsOnce(h)
  <2>1. ASSUME NEW y \in In(h), NEW z \in In(h), y.source = z.source, y.destination = z.destination
        PROVE  y = z
    <3>1. CASE y \in X /\ z \in X
      BY <2>1, <3>1 DEF Kept, Cut, ListsOnce, X
    <3>2. \A w \in X : ~(w.source = s /\ w.destination = d)
      BY DEF Connected, In, X
    <3>3. CASE y = x \/ z = x
      BY <1>2, <1>5, <2>1, <3>2, <3>3
    <3>4. QED
      BY <1>5, <3>1, <3>3
  <2>2. Once(h.clients) /\ Drivers \subseteq Here(h)
    BY <1>2, <1>5 DEF Kept, Cut, ListsOnce
  <2>3. QED
    BY <1>5, <2>1, <2>2 DEF ListsOnce
<1>7. DirsRight(h)
  <2>1. ASSUME x.dir = -1 PROVE src \notin Drivers
    <3>1. feedback
      BY <1>2, <2>1
    <3>2. QED
      BY <1>1, <3>1, DriversUnfed DEF Kept, feedback
  <2>2. /\ dst \in Drivers => x.dir = 1
        /\ dst \notin Drivers => (x.dir = 0 <=> src = dst)
    BY <1>2
  <2>3. src \in Here(h) /\ dst \in Here(h)
    BY <1>5 DEF src, dst
  <2>4. DirsRight(gr)
    BY DEF Kept, Cut
  <2>5. QED
    BY <1>3, <1>5, <2>1, <2>2, <2>3, <2>4 DEF DirsRight, X
<1>8. FeedsRight(h) /\ FedRight(h)
  <2> DEFINE Y == X \cup {x}
  <2>1. ASSUME NEW a \in Clients, NEW b \in Clients
        PROVE  /\ Cardinality(Counted(Y, a, b))
                  = IF ~plain /\ src = a /\ dst = b THEN Cardinality(Counted(X, a, b)) + 1
                                                    ELSE Cardinality(Counted(X, a, b))
               /\ Cardinality(Forwards(Y, a, b))
                  = IF ~plain /\ ~feedback /\ src = a /\ dst = b
                    THEN Cardinality(Forwards(X, a, b)) + 1 ELSE Cardinality(Forwards(X, a, b))
               /\ Cardinality(Feedbacks(Y, a, b))
                  = IF ~plain /\ feedback /\ src = a /\ dst = b
                    THEN Cardinality(Feedbacks(X, a, b)) + 1 ELSE Cardinality(Feedbacks(X, a, b))
               /\ Cardinality(Into(Y, b))
                  = IF ~plain /\ dst = b THEN Cardinality(Into(X, b)) + 1 ELSE Cardinality(Into(X, b))
               /\ Cardinality(AllBack(Y))
                  = IF ~plain /\ feedback THEN Cardinality(AllBack(X)) + 1 ELSE Cardinality(AllBack(X))
    <3>1. /\ x.dir # 0 /\ dst \notin Drivers <=> ~plain
          /\ ~plain => (x.dir = 1 <=> ~feedback) /\ (x.dir = -1 <=> feedback)
          /\ x.dir = -1 <=> ~plain /\ feedback
      BY <1>2 DEF plain
    <3> HIDE DEF Y
    <3>2. /\ Cardinality(Counted(Y, a, b))
             = IF x.dir # 0 /\ Dst(x) \notin Drivers /\ Src(x) = a /\ Dst(x) = b
               THEN Cardinality(Counted(X, a, b)) + 1 ELSE Cardinality(Counted(X, a, b))
          /\ Cardinality(Forwards(Y, a, b))
             = IF x.dir # 0 /\ Dst(x) \notin Drivers /\ Src(x) = a /\ Dst(x) = b /\ x.dir = 1
               THEN Cardinality(Forwards(X, a, b)) + 1 ELSE Cardinality(Forwards(X, a, b))
          /\ Cardinality(Feedbacks(Y, a, b))
             = IF x.dir # 0 /\ Dst(x) \notin Drivers /\ Src(x) = a /\ Dst(x) = b /\ x.dir = -1
               THEN Cardinality(Feedbacks(X, a, b)) + 1 ELSE Cardinality(Feedbacks(X, a, b))
          /\ Cardinality(Into(Y, b))
             = IF x.dir # 0 /\ Dst(x) \notin Drivers /\ Dst(x) = b
               THEN Cardinality(Into(X, b)) + 1 ELSE Cardinality(Into(X, b))
          /\ Cardinality(AllBack(Y))
             = IF x.dir = -1 THEN Cardinality(AllBack(X)) + 1 ELSE Cardinality(AllBack(X))
      <4>1. CountsGrow(X, x, a, b)
        BY <1>1, <1>4, NewCounts
      <4>2. QED
        BY Zenon, <4>1 DEF CountsGrow, Y
    <3>3. QED
      BY <1>3, <3>1, <3>2
  <2>2. /\ \A a, b \in Clients :
             /\ gr.sortfeeds[a][b] = Cardinality(Forwards(X, a, b)) + Cardinality(Feedbacks(X, b, a))
             /\ gr.truefeeds[a][b] = Cardinality(Counted(X, a, b))
        /\ gr.feedbackcount = Cardinality(AllBack(X))
    BY DEF Kept, Cut, FeedsRight, X
  <2>3. /\ \A b \in Here(gr) \ Drivers : gr.fedcount[b] - Cardinality(Into(X, b)) \in FreshFed
        /\ \A b \in Drivers : gr.fedcount[b] <= 0
    BY DEF Kept, Cut, FedRight, X
  <2>4. \A a, b \in Clients : Cardinality(Forwards(X, a, b)) \in Nat /\ Cardinality(Feedbacks(X, a, b)) \in Nat
                              /\ Cardinality(Into(X, b)) \in Nat
    BY <1>1, CountsAreFinite
  <2>5. ASSUME NEW a \in Clients, NEW b \in Clients
        PROVE  h.truefeeds[a][b] = IF ~plain /\ src = a /\ dst = b THEN gr.truefeeds[a][b] + 1
                                   ELSE gr.truefeeds[a][b]
    <3>1. CASE plain
      BY <1>2, <3>1
    <3>2. CASE ~plain
      <4>1. h.truefeeds = Added(gr.truefeeds, src, dst)
        BY <1>2, <3>2
      <4>2. Added(gr.truefeeds, src, dst)[a][b]
            = IF a = src /\ b = dst THEN gr.truefeeds[a][b] + 1 ELSE gr.truefeeds[a][b]
        BY Zenon, <1>0 DEF AddsOne
      <4>3. QED
        BY <3>2, <4>1, <4>2
    <3>3. QED
      BY <3>1, <3>2
  <2>6. ASSUME NEW a \in Clients, NEW b \in Clients
        PROVE  h.sortfeeds[a][b] = IF ~plain /\ ~feedback /\ src = a /\ dst = b THEN gr.sortfeeds[a][b] + 1
                                   ELSE IF ~plain /\ feedback /\ dst = a /\ src = b THEN gr.sortfeeds[a][b] + 1
                                   ELSE gr.sortfeeds[a][b]
    <3>1. CASE plain
      BY <1>2, <3>1
    <3>2. CASE ~plain /\ feedback
      <4>1. h.sortfeeds = Added(gr.sortfeeds, dst, src)
        BY <1>2, <3>2
      <4>2. Added(gr.sortfeeds, dst, src)[a][b]
            = IF a = dst /\ b = src THEN gr.sortfeeds[a][b] + 1 ELSE gr.sortfeeds[a][b]
        BY Zenon, <1>0 DEF AddsOne
      <4>3. QED
        BY <3>2, <4>1, <4>2
    <3>3. CASE ~plain /\ ~feedback
      <4>1. h.sortfeeds = Added(gr.sortfeeds, src, dst)
        BY <1>2, <3>3
      <4>2. Added(gr.sortfeeds, src, dst)[a][b]
            = IF a = src /\ b = dst THEN gr.sortfeeds[a][b] + 1 ELSE gr.sortfeeds[a][b]
        BY Zenon, <1>0 DEF AddsOne
      <4>3. QED
        BY <3>3, <4>1, <4>2
    <3>4. QED
      BY <3>1, <3>2, <3>3
  <2>7. ASSUME NEW b \in Clients
        PROVE  h.fedcount[b] = IF ~plain /\ dst = b THEN gr.fedcount[b] + 1 ELSE gr.fedcount[b]
    <3> DEFINE fc == gr.fedcount
    <3>1. CASE plain
      BY <1>2, <3>1
    <3>2. CASE ~plain
      <4>1. h.fedcount = [fc EXCEPT ![dst] = @ + 1]
        BY <1>2, <3>2
      <4>2. fc \in [Clients -> Int]
        BY <1>1
      <4> HIDE DEF fc
      <4>3. [fc EXCEPT ![dst] = @ + 1][b] = IF dst = b THEN fc[b] + 1 ELSE fc[b]
        BY <1>1, <4>2
      <4>4. QED
        BY <3>2, <4>1, <4>3 DEF fc
    <3>3. QED
      BY <3>1, <3>2
  <2>8. In(h) = Y
    BY <1>5
  <2>9. h.feedbackcount = IF ~plain /\ feedback THEN gr.feedbackcount + 1 ELSE gr.feedbackcount
    BY <1>2
  <2>11. ASSUME NEW b \in Drivers PROVE ~(~plain /\ dst = b)
    BY DEF plain
  <2> HIDE DEF Y
  <2>12. FeedsRight(h)
    <3>1. ASSUME NEW a \in Clients, NEW b \in Clients
          PROVE  h.sortfeeds[a][b] = Cardinality(Forwards(Y, a, b)) + Cardinality(Feedbacks(Y, b, a))
      <4>1. gr.sortfeeds[a][b] = Cardinality(Forwards(X, a, b)) + Cardinality(Feedbacks(X, b, a))
            /\ Cardinality(Forwards(X, a, b)) \in Nat /\ Cardinality(Feedbacks(X, b, a)) \in Nat
        BY <2>2, <2>4
      <4>2. /\ Cardinality(Forwards(Y, a, b))
               = IF ~plain /\ ~feedback /\ src = a /\ dst = b
                 THEN Cardinality(Forwards(X, a, b)) + 1 ELSE Cardinality(Forwards(X, a, b))
            /\ Cardinality(Feedbacks(Y, b, a))
               = IF ~plain /\ feedback /\ src = b /\ dst = a
                 THEN Cardinality(Feedbacks(X, b, a)) + 1 ELSE Cardinality(Feedbacks(X, b, a))
        BY <2>1
      <4>3. \A p, q \in Nat : (p + 1) + q = (p + q) + 1 /\ p + (q + 1) = (p + q) + 1
        OBVIOUS
      <4>4. QED
        BY <2>6, <4>1, <4>2, <4>3
    <3>2. \A a, b \in Clients : h.truefeeds[a][b] = Cardinality(Counted(Y, a, b))
      BY <2>1, <2>2, <2>5
    <3>3. h.feedbackcount = Cardinality(AllBack(Y))
      BY <1>1, <2>1, <2>2, <2>9
    <3>4. QED
      BY <2>8, <3>1, <3>2, <3>3 DEF FeedsRight
  <2>13. FedRight(h)
    <3>1. ASSUME NEW b \in Here(gr) \ Drivers PROVE h.fedcount[b] - Cardinality(Into(Y, b)) \in FreshFed
      <4>1. b \in Clients /\ gr.fedcount[b] \in Int /\ Cardinality(Into(X, b)) \in Nat
        BY <1>1, <2>4
      <4>2. /\ h.fedcount[b] = IF ~plain /\ dst = b THEN gr.fedcount[b] + 1 ELSE gr.fedcount[b]
            /\ Cardinality(Into(Y, b))
               = IF ~plain /\ dst = b THEN Cardinality(Into(X, b)) + 1 ELSE Cardinality(Into(X, b))
        BY <4>1, <2>1, <2>7
      <4>3. \A p \in Int, q \in Nat : (p + 1) - (q + 1) = p - q
        OBVIOUS
      <4>4. h.fedcount[b] - Cardinality(Into(Y, b)) = gr.fedcount[b] - Cardinality(Into(X, b))
        BY <4>1, <4>2, <4>3
      <4>5. QED
        BY <4>4, <2>3
    <3>2. \A b \in Drivers : b \in Clients
      BY GraphAssumption
    <3>3. \A b \in Drivers : h.fedcount[b] <= 0
      BY <3>2, <2>3, <2>7, <2>11
    <3>4. QED
      BY <1>5, <2>8, <3>1, <3>3 DEF FedRight
  <2>14. QED
    BY <2>12, <2>13
<1>9. SortsRight(h)
  <2> SUFFICES ASSUME FreshFed \subseteq Nat PROVE ~Cyclic(h.sortfeeds)
    BY DEF SortsRight
  <2>1. ~Cyclic(gr.sortfeeds)
    BY DEF Kept, Cut, SortsRight
  <2>2. CASE plain
    BY <1>2, <2>1, <2>2
  <2>3. CASE ~plain /\ feedback
    <3>1. h.sortfeeds = Added(gr.sortfeeds, dst, src)
      BY <1>2, <2>3
    <3>2. \A a, b \in Clients : Added(gr.sortfeeds, dst, src)[a][b] > 0
                                => gr.sortfeeds[a][b] > 0 \/ (a = dst /\ b = src)
      BY <1>0 DEF AddsOne
    <3>3. ~Cyclic(Added(gr.sortfeeds, dst, src))
      <4> DEFINE sf == gr.sortfeeds
                 more == Added(sf, dst, src)
      <4>1. ~Cyclic(sf) /\ src \in Fed(sf, dst)
            /\ \A a, b \in Clients : more[a][b] > 0 => sf[a][b] > 0 \/ (a = dst /\ b = src)
        BY <2>1, <2>3, <3>2 DEF feedback
      <4> HIDE DEF sf, more
      <4>2. ~Cyclic(more)
        BY <1>1, <4>1, AlongAcyclic
      <4>3. QED
        BY <4>2 DEF more, sf
    <3>4. QED
      BY <3>1, <3>3
  <2>4. CASE ~plain /\ ~feedback
    <3>1. h.sortfeeds = Added(gr.sortfeeds, src, dst)
      BY <1>2, <2>4
    <3>2. \A a, b \in Clients : Added(gr.sortfeeds, src, dst)[a][b] > 0
                                => gr.sortfeeds[a][b] > 0 \/ (a = src /\ b = dst)
      BY <1>0 DEF AddsOne
    <3>3. ~Cyclic(Added(gr.sortfeeds, src, dst))
      <4> DEFINE sf == gr.sortfeeds
                 more == Added(sf, src, dst)
      <4>1. ~Cyclic(sf) /\ src \notin Fed(sf, dst) /\ src # dst
            /\ \A a, b \in Clients : more[a][b] > 0 => sf[a][b] > 0 \/ (a = src /\ b = dst)
        BY <2>1, <2>4, <3>2 DEF feedback, plain
      <4> HIDE DEF sf, more
      <4>2. ~Cyclic(more)
        BY <1>1, <4>1, ForwardAcyclic
      <4>3. QED
        BY <4>2 DEF more, sf
    <3>4. QED
      BY <3>1, <3>3
  <2>5. QED
    BY <2>2, <2>3, <2>4
<1>10. FeedbackRight(h)
  <2> SUFFICES ASSUME FreshFed = {0}, h.feedbackcount > 0
               PROVE  Cyclic(h.truefeeds) \/ \E b \in Drivers : h.fedcount[b] < 0
    BY DEF FeedbackRight
  <2>1. CASE plain
    BY <1>2, <2>1 DEF Kept, FeedbackRight
  <2>2. CASE ~plain
    <3>1. h.truefeeds = Added(gr.truefeeds, src, dst)
      BY <1>2, <2>2
    <3>2. /\ \A a, b \in Clients : gr.truefeeds[a][b] > 0 => h.truefeeds[a][b] > 0
          /\ h.truefeeds[src][dst] > 0
      <4>1. \A a, b \in Clients : Added(gr.truefeeds, src, dst)[a][b]
              = IF a = src /\ b = dst THEN gr.truefeeds[a][b] + 1 ELSE gr.truefeeds[a][b]
        BY Zenon, <1>0 DEF AddsOne
      <4>2. \A a, b \in Clients : gr.truefeeds[a][b] \in Nat
        BY <1>1
      <4>3. \A n \in Nat : n + 1 > 0 /\ (n > 0 => n + 1 > 0)
        OBVIOUS
      <4>4. h.truefeeds[src][dst] = gr.truefeeds[src][dst] + 1
        BY <1>1, <3>1, <4>1
      <4>5. ASSUME NEW a \in Clients, NEW b \in Clients, gr.truefeeds[a][b] > 0
            PROVE  h.truefeeds[a][b] > 0
        <5>1. h.truefeeds[a][b] = IF a = src /\ b = dst THEN gr.truefeeds[a][b] + 1 ELSE gr.truefeeds[a][b]
          BY <3>1, <4>1
        <5>2. CASE a = src /\ b = dst
          BY <4>2, <4>3, <5>1, <5>2
        <5>3. CASE ~(a = src /\ b = dst)
          BY <4>5, <5>1, <5>3
        <5>4. QED
          BY <5>2, <5>3
      <4>6. QED
        BY <1>1, <4>2, <4>3, <4>4, <4>5
    <3>3. CASE gr.feedbackcount > 0
      <4>1. Cyclic(gr.truefeeds) \/ \E b \in Drivers : gr.fedcount[b] < 0
        BY <3>3 DEF Kept, FeedbackRight
      <4>2. ASSUME Cyclic(gr.truefeeds) PROVE Cyclic(h.truefeeds)
        BY <3>2, <4>2, FewerAcyclic
      <4>3. ASSUME NEW b \in Drivers, gr.fedcount[b] < 0 PROVE h.fedcount[b] < 0
        <5>1. b # dst /\ b \in Clients
          BY <2>2, GraphAssumption DEF plain
        <5>2. h.fedcount[b] = gr.fedcount[b]
          BY <1>1, <1>2, <2>2, <5>1
        <5>3. QED
          BY <4>3, <5>2
      <4>4. QED
        BY <4>1, <4>2, <4>3
    <3>4. CASE ~(gr.feedbackcount > 0)
      <4>1. feedback
        BY <1>2, <3>4
      <4>2. AllBack(X) = {}
        <5>1. gr.feedbackcount = Cardinality(AllBack(X)) /\ IsFiniteSet(AllBack(X))
          BY <1>1, CountsAreFinite DEF Kept, Cut, FeedsRight, X
        <5>2. QED
          BY <3>4, <5>1, SomeCounted
      <4>3. ASSUME NEW a \in Clients, NEW b \in Clients, gr.sortfeeds[a][b] > 0
            PROVE  h.truefeeds[a][b] > 0
        <5>1. Feedbacks(X, b, a) = {} /\ Forwards(X, a, b) = Counted(X, a, b)
          <6>1. \A y \in X : y.dir # -1 /\ y.dir \in Dirs
            BY <1>1, <4>2 DEF AllBack, Connections
          <6>2. QED
            BY <6>1 DEF Feedbacks, Forwards, Counted, Dirs
        <5>2. gr.sortfeeds[a][b] = Cardinality(Counted(X, a, b)) + 0
          BY <5>1, FS_EmptySet DEF Kept, Cut, FeedsRight, X
        <5>3. gr.truefeeds[a][b] = Cardinality(Counted(X, a, b)) /\ gr.truefeeds[a][b] \in Nat
          BY <1>1 DEF Kept, Cut, FeedsRight, X
        <5>4. QED
          BY <3>2, <4>3, <5>2, <5>3
      <4>4. src \in Fed(h.truefeeds, dst)
        BY <1>1, <4>1, <4>3, FewerFeedFewer DEF feedback
      <4>5. dst \in Fed(h.truefeeds, dst)
        BY <1>1, <3>2, <4>4, FedGoesOn
      <4>6. QED
        BY <1>1, <4>5 DEF Cyclic
    <3>5. QED
      BY <3>3, <3>4
  <2>3. QED
    BY <2>1, <2>2
<1>11. Pairs(h) = Pairs(gr) \cup {<<s, d>>}
  BY <1>2, <1>5 DEF Pairs, X
<1>12. QED
  BY <1>2, <1>6, <1>7, <1>8, <1>9, <1>10, <1>11 DEF Kept, Cut, h

\* The graph without a connection, before it is checked and sorted.
LEMMA UnlinkedFields ==
    ASSUME NEW gr, GraphShape(gr), Once(gr.connections), NEW x \in In(gr)
    PROVE  LET h == Unlinked(gr, x)
               src == Src(x)
               dst == Dst(x)
           IN  /\ GraphShape(h) /\ Alike(gr, h) /\ h.clients = gr.clients
               /\ In(h) = In(gr) \ {x} /\ Once(h.connections)
               /\ h.truefeeds = IF x.dir = 0 THEN gr.truefeeds ELSE Removed(gr.truefeeds, src, dst)
               /\ h.fedcount = IF x.dir = 0 THEN gr.fedcount
                               ELSE [gr.fedcount EXCEPT ![dst] = @ - 1]
               /\ h.sortfeeds = IF x.dir = 0 THEN gr.sortfeeds
                                ELSE IF x.dir = 1 THEN Removed(gr.sortfeeds, src, dst)
                                ELSE Removed(gr.sortfeeds, dst, src)
               /\ h.feedbackcount = IF x.dir = -1 THEN gr.feedbackcount - 1
                                    ELSE gr.feedbackcount
<1> DEFINE h == Unlinked(gr, x)
           src == Src(x)
           dst == Dst(x)
           l == RemoveFirst(gr.connections, x)
           mid == [gr EXCEPT !.connections = l]
<1>1. x \in Connections
  BY GraphFields
<1>2. src \in Clients /\ dst \in Clients /\ x.dir \in {-1, 0, 1}
  BY <1>1, ConnectionParts DEF Dirs
<1>3. /\ gr \in Graph /\ gr.connections \in Seq(Connections)
      /\ gr.sortfeeds \in [Clients -> [Clients -> Nat]] /\ gr.truefeeds \in [Clients -> [Clients -> Nat]]
      /\ gr.fedcount \in [Clients -> Int] /\ gr.feedbackcount \in Int
  BY GraphFields DEF GraphShape
<1>4. l \in Seq(Connections) /\ Once(l) /\ ToSet(l) = ToSet(gr.connections) \ {x}
  BY <1>3, RemoveFirstTakes
<1> HIDE DEF l
<1>5. /\ mid \in Graph /\ mid.connections = l /\ mid.clients = gr.clients
      /\ mid.active = gr.active /\ mid.dead = gr.dead /\ mid.error = gr.error
      /\ mid.sortfeeds = gr.sortfeeds /\ mid.truefeeds = gr.truefeeds
      /\ mid.fedcount = gr.fedcount /\ mid.feedbackcount = gr.feedbackcount
  BY <1>3, <1>4 DEF Graph
<1>6. h = IF x.dir = 0 THEN mid
          ELSE [mid EXCEPT !.truefeeds = Removed(@, src, dst), !.fedcount[dst] = @ - 1,
                           !.sortfeeds = IF x.dir = 1 THEN Removed(@, src, dst)
                                                      ELSE Removed(@, dst, src),
                           !.feedbackcount = IF x.dir = 1 THEN @ ELSE @ - 1]
  BY Zenon DEF Unlinked, l, Src, Dst
<1> HIDE DEF h, mid, src, dst
<1>7. CASE x.dir = 0
  <2>1. h = mid
    BY <1>6, <1>7
  <2>2. GraphShape(h) /\ Alike(gr, h) /\ In(h) = In(gr) \ {x}
    BY <2>1, <1>4, <1>5 DEF GraphShape, Alike, Here, In
  <2>3. QED
    BY <1>4, <1>5, <1>7, <2>1, <2>2 DEF h, src, dst
<1>8. CASE x.dir # 0
  <2> DEFINE tf == Removed(gr.truefeeds, src, dst)
             fc == [gr.fedcount EXCEPT ![dst] = @ - 1]
             sf == IF x.dir = 1 THEN Removed(gr.sortfeeds, src, dst) ELSE Removed(gr.sortfeeds, dst, src)
             fb == IF x.dir = 1 THEN gr.feedbackcount ELSE gr.feedbackcount - 1
  <2>1. tf \in [Clients -> [Clients -> Nat]] /\ sf \in [Clients -> [Clients -> Nat]]
    BY <1>2, <1>3, RemovedIs
  <2>2. fc \in [Clients -> Int] /\ fb \in Int
    BY <1>2, <1>3
  <2>3. h = [mid EXCEPT !.truefeeds = tf, !.fedcount = fc, !.sortfeeds = sf, !.feedbackcount = fb]
    BY <1>5, <1>6, <1>8
  <2> HIDE DEF tf, fc, sf, fb
  <2>4. /\ h \in Graph /\ h.connections = l /\ h.clients = gr.clients
        /\ h.active = gr.active /\ h.dead = gr.dead /\ h.error = gr.error
        /\ h.truefeeds = tf /\ h.fedcount = fc /\ h.sortfeeds = sf /\ h.feedbackcount = fb
    BY <1>5, <2>1, <2>2, <2>3 DEF Graph
  <2>5. GraphShape(h) /\ Alike(gr, h) /\ In(h) = In(gr) \ {x}
    BY <2>4, <1>4 DEF GraphShape, Alike, Here, In
  <2>6. fb = IF x.dir = -1 THEN gr.feedbackcount - 1 ELSE gr.feedbackcount
    BY <1>2, <1>8 DEF fb
  <2>7. QED
    BY <1>4, <1>8, <2>4, <2>5, <2>6 DEF h, src, dst, tf, fc, sf
<1>9. QED
  BY <1>7, <1>8

LEMMA NoDriverFed ==
    ASSUME NEW gr, Cut(gr), NEW b \in Clients, NEW d \in Drivers
    PROVE  gr.sortfeeds[b][d] = 0 /\ gr.truefeeds[b][d] = 0
<1> DEFINE X == In(gr)
<1>1. Forwards(X, b, d) = {} /\ Counted(X, b, d) = {}
  BY DEF Forwards, Counted
<1>2. Feedbacks(X, d, b) = {}
  BY DEF Feedbacks, Counted, Cut, DirsRight
<1>3. Cardinality({}) = 0 /\ d \in Clients
  BY FS_EmptySet, GraphAssumption
<1>4. gr.sortfeeds[b][d] = 0 + 0 /\ gr.truefeeds[b][d] = 0
  BY <1>1, <1>2, <1>3 DEF Cut, FeedsRight
<1>5. QED
  BY <1>4

LEMMA UnlinkedCuts ==
    ASSUME NEW gr, Cut(gr), NEW x \in In(gr)
    PROVE  LET h == Unlinked(gr, x)
           IN  /\ Cut(h) /\ Alike(gr, h) /\ In(h) = In(gr) \ {x}
               /\ gr.feedbackcount = 0 => FeedbackRight(h)
<1> DEFINE h == Unlinked(gr, x)
           src == Src(x)
           dst == Dst(x)
           Y == In(gr)
           X == Y \ {x}
           tf == gr.truefeeds
           sf == gr.sortfeeds
           fc == gr.fedcount
<1>1. /\ sf \in [Clients -> [Clients -> Nat]] /\ tf \in [Clients -> [Clients -> Nat]]
      /\ fc \in [Clients -> Int] /\ gr.feedbackcount \in Int
      /\ IsFiniteSet(Y) /\ Y \subseteq Connections /\ Here(gr) \subseteq Clients
  BY GraphFields DEF Cut
<1>2. /\ src \in Clients /\ dst \in Clients /\ x.dir \in {-1, 0, 1}
      /\ dst \in Drivers => x.dir = 1
  BY <1>1, ConnectionParts DEF Dirs, Cut, DirsRight
<1>3. /\ GraphShape(h) /\ Alike(gr, h) /\ h.clients = gr.clients
      /\ In(h) = X /\ Once(h.connections)
      /\ h.truefeeds = IF x.dir = 0 THEN tf ELSE Removed(tf, src, dst)
      /\ h.fedcount = IF x.dir = 0 THEN fc ELSE [fc EXCEPT ![dst] = @ - 1]
      /\ h.sortfeeds = IF x.dir = 0 THEN sf
                       ELSE IF x.dir = 1 THEN Removed(sf, src, dst) ELSE Removed(sf, dst, src)
      /\ h.feedbackcount = IF x.dir = -1 THEN gr.feedbackcount - 1 ELSE gr.feedbackcount
  BY UnlinkedFields DEF Cut, ListsOnce
<1>4. /\ TakesOne(tf, src, dst) /\ TakesOne(sf, src, dst) /\ TakesOne(sf, dst, src)
  <2> HIDE DEF src, dst, tf, sf
  <2>1. QED
    BY <1>1, <1>2, RemovedIs
<1>5. ListsOnce(h) /\ DirsRight(h)
  <2>1. Here(h) = Here(gr) /\ X \subseteq Y
    BY <1>3 DEF Alike
  <2>2. ListsOnce(h)
    BY <1>3, <2>1 DEF Cut, ListsOnce
  <2>3. DirsRight(h)
    BY <1>3, <2>1 DEF Cut, DirsRight
  <2>4. QED
    BY <2>2, <2>3
<1>6. x \notin X /\ Y = X \cup {x} /\ IsFiniteSet(X)
  BY <1>1, FS_Subset
<1>7. /\ \A a, b \in Clients :
           /\ sf[a][b] = Cardinality(Forwards(Y, a, b)) + Cardinality(Feedbacks(Y, b, a))
           /\ tf[a][b] = Cardinality(Counted(Y, a, b))
      /\ gr.feedbackcount = Cardinality(AllBack(Y))
  BY DEF Cut, FeedsRight
<1>8. /\ \A b \in Here(gr) \ Drivers : fc[b] - Cardinality(Into(Y, b)) \in FreshFed
      /\ \A b \in Drivers : fc[b] <= 0
  BY DEF Cut, FedRight
<1>9. \A a \in Clients, b \in Drivers : sf[a][b] = 0 /\ tf[a][b] = 0
  BY NoDriverFed
<1> DEFINE plain == x.dir = 0 \/ dst \in Drivers
<1> HIDE DEF h, src, dst, X, Y, tf, sf, fc, plain
<1>10. \A a, b \in Clients :
         /\ Cardinality(Forwards(X, a, b)) \in Nat /\ Cardinality(Feedbacks(X, a, b)) \in Nat
         /\ Cardinality(Into(X, b)) \in Nat /\ Cardinality(Counted(X, a, b)) \in Nat
         /\ Cardinality(AllBack(X)) \in Nat
  BY <1>6, CountsAreFinite
<1>11. ASSUME NEW a \in Clients, NEW b \in Clients
       PROVE  /\ Cardinality(Counted(Y, a, b))
                 = IF ~plain /\ src = a /\ dst = b THEN Cardinality(Counted(X, a, b)) + 1
                                                   ELSE Cardinality(Counted(X, a, b))
              /\ Cardinality(Forwards(Y, a, b))
                 = IF ~plain /\ x.dir = 1 /\ src = a /\ dst = b
                   THEN Cardinality(Forwards(X, a, b)) + 1 ELSE Cardinality(Forwards(X, a, b))
              /\ Cardinality(Feedbacks(Y, a, b))
                 = IF ~plain /\ x.dir = -1 /\ src = a /\ dst = b
                   THEN Cardinality(Feedbacks(X, a, b)) + 1 ELSE Cardinality(Feedbacks(X, a, b))
              /\ Cardinality(Into(Y, b))
                 = IF ~plain /\ dst = b THEN Cardinality(Into(X, b)) + 1 ELSE Cardinality(Into(X, b))
              /\ Cardinality(AllBack(Y))
                 = IF x.dir = -1 THEN Cardinality(AllBack(X)) + 1 ELSE Cardinality(AllBack(X))
  <2>1. CountsGrow(X, x, a, b)
    BY <1>6, NewCounts
  <2>2. x.dir # 0 /\ dst \notin Drivers <=> ~plain
    BY DEF plain
  <2>3. /\ Cardinality(Counted(Y, a, b))
           = IF x.dir # 0 /\ dst \notin Drivers /\ src = a /\ dst = b
             THEN Cardinality(Counted(X, a, b)) + 1 ELSE Cardinality(Counted(X, a, b))
        /\ Cardinality(Forwards(Y, a, b))
           = IF (x.dir # 0 /\ dst \notin Drivers /\ src = a /\ dst = b) /\ x.dir = 1
             THEN Cardinality(Forwards(X, a, b)) + 1 ELSE Cardinality(Forwards(X, a, b))
        /\ Cardinality(Feedbacks(Y, a, b))
           = IF (x.dir # 0 /\ dst \notin Drivers /\ src = a /\ dst = b) /\ x.dir = -1
             THEN Cardinality(Feedbacks(X, a, b)) + 1 ELSE Cardinality(Feedbacks(X, a, b))
        /\ Cardinality(Into(Y, b))
           = IF x.dir # 0 /\ dst \notin Drivers /\ dst = b
             THEN Cardinality(Into(X, b)) + 1 ELSE Cardinality(Into(X, b))
        /\ Cardinality(AllBack(Y))
           = IF x.dir = -1 THEN Cardinality(AllBack(X)) + 1 ELSE Cardinality(AllBack(X))
    BY Zenon, <1>6, <2>1 DEF CountsGrow, src, dst
  <2>4. QED
    BY <2>2, <2>3
<1>12. FeedsRight(h)
  <2>1. ASSUME NEW a \in Clients, NEW b \in Clients
        PROVE  h.truefeeds[a][b] = Cardinality(Counted(X, a, b))
    <3>1. tf[a][b] = Cardinality(Counted(Y, a, b)) /\ Cardinality(Counted(X, a, b)) \in Nat
      BY <1>7, <1>10
    <3>2. Cardinality(Counted(Y, a, b))
          = IF ~plain /\ src = a /\ dst = b THEN Cardinality(Counted(X, a, b)) + 1
                                            ELSE Cardinality(Counted(X, a, b))
      BY <1>11
    <3>3. h.truefeeds[a][b] = IF x.dir # 0 /\ a = src /\ b = dst /\ tf[a][b] # 0
                              THEN tf[a][b] - 1 ELSE tf[a][b]
      BY <1>3, <1>4 DEF TakesOne
    <3>4. \A n \in Nat : n + 1 # 0 /\ (n + 1) - 1 = n
      OBVIOUS
    <3>5. CASE ~plain /\ src = a /\ dst = b
      <4>1. h.truefeeds[a][b] = tf[a][b] - 1
        BY <3>1, <3>2, <3>3, <3>4, <3>5 DEF plain
      <4>2. QED
        BY <3>1, <3>2, <3>4, <3>5, <4>1
    <3>6. CASE ~(~plain /\ src = a /\ dst = b)
      <4>1. h.truefeeds[a][b] = tf[a][b]
        BY <1>9, <3>3, <3>6 DEF plain
      <4>2. QED
        BY <3>1, <3>2, <3>6, <4>1
    <3>7. QED
      BY <3>5, <3>6
  <2>2. ASSUME NEW a \in Clients, NEW b \in Clients
        PROVE  h.sortfeeds[a][b] = Cardinality(Forwards(X, a, b)) + Cardinality(Feedbacks(X, b, a))
    <3> DEFINE f == Cardinality(Forwards(X, a, b))
               k == Cardinality(Feedbacks(X, b, a))
               there == ~plain /\ x.dir = 1 /\ src = a /\ dst = b
               back == ~plain /\ x.dir = -1 /\ src = b /\ dst = a
    <3>1. sf[a][b] = Cardinality(Forwards(Y, a, b)) + Cardinality(Feedbacks(Y, b, a))
          /\ f \in Nat /\ k \in Nat
      BY <1>7, <1>10
    <3>2. /\ Cardinality(Forwards(Y, a, b)) = IF there THEN f + 1 ELSE f
          /\ Cardinality(Feedbacks(Y, b, a)) = IF back THEN k + 1 ELSE k
      BY <1>11
    <3>3. ~(there /\ back)
      OBVIOUS
    <3>4. \A p, q \in Nat : /\ (p + 1) + q # 0 /\ ((p + 1) + q) - 1 = p + q
                            /\ p + (q + 1) # 0 /\ (p + (q + 1)) - 1 = p + q
      OBVIOUS
    <3>5. h.sortfeeds[a][b] = IF /\ x.dir # 0 /\ sf[a][b] # 0
                                 /\ IF x.dir = 1 THEN a = src /\ b = dst ELSE a = dst /\ b = src
                              THEN sf[a][b] - 1 ELSE sf[a][b]
      <4>1. CASE x.dir = 0
        BY <1>3, <4>1
      <4>2. CASE x.dir = 1
        <5>1. h.sortfeeds = Removed(sf, src, dst)
          BY <1>3, <4>2
        <5>2. Removed(sf, src, dst)[a][b]
              = IF a = src /\ b = dst /\ sf[a][b] # 0 THEN sf[a][b] - 1 ELSE sf[a][b]
          BY Zenon, <1>4 DEF TakesOne
        <5>3. QED
          BY <4>2, <5>1, <5>2
      <4>3. CASE x.dir # 0 /\ x.dir # 1
        <5>1. h.sortfeeds = Removed(sf, dst, src)
          BY <1>3, <4>3
        <5>2. Removed(sf, dst, src)[a][b]
              = IF a = dst /\ b = src /\ sf[a][b] # 0 THEN sf[a][b] - 1 ELSE sf[a][b]
          BY Zenon, <1>4 DEF TakesOne
        <5>3. QED
          BY <4>3, <5>1, <5>2
      <4>4. QED
        BY <4>1, <4>2, <4>3
    <3> SUFFICES h.sortfeeds[a][b] = f + k
      OBVIOUS
    <3> HIDE DEF f, k
    <3>6. CASE there
      BY <3>1, <3>2, <3>4, <3>5, <3>6
    <3>7. CASE back
      BY <3>1, <3>2, <3>4, <3>5, <3>7
    <3>8. CASE ~there /\ ~back
      <4>1. sf[a][b] = f + k
        BY <3>1, <3>2, <3>8
      <4>2. x.dir = 1 /\ a = src /\ b = dst => b \in Drivers
        BY <3>8 DEF plain
      <4>3. ~(x.dir = -1 /\ a = dst /\ b = src)
        BY <1>2, <3>8 DEF plain
      <4>4. h.sortfeeds[a][b] = sf[a][b]
        BY <1>2, <1>9, <3>5, <4>2, <4>3
      <4>5. QED
        BY <4>1, <4>4
    <3>9. QED
      BY <3>6, <3>7, <3>8
  <2>3. h.feedbackcount = Cardinality(AllBack(X))
    <3>1. Cardinality(AllBack(X)) \in Nat
      BY <1>2, <1>10
    <3>2. gr.feedbackcount = IF x.dir = -1 THEN Cardinality(AllBack(X)) + 1 ELSE Cardinality(AllBack(X))
      BY <1>2, <1>7, <1>11
    <3>3. \A n \in Nat : (n + 1) - 1 = n
      OBVIOUS
    <3>4. QED
      BY <1>3, <3>1, <3>2, <3>3
  <2>4. QED
    BY <1>3, <2>1, <2>2, <2>3 DEF FeedsRight
<1>13. FedRight(h)
  <2>1. ASSUME NEW b \in Clients
        PROVE  h.fedcount[b] = IF x.dir # 0 /\ dst = b THEN fc[b] - 1 ELSE fc[b]
    <3>1. CASE x.dir = 0
      BY <1>3, <3>1
    <3>2. CASE x.dir # 0
      <4>1. h.fedcount = [fc EXCEPT ![dst] = @ - 1]
        BY <1>3, <3>2
      <4>2. [fc EXCEPT ![dst] = @ - 1][b] = IF dst = b THEN fc[b] - 1 ELSE fc[b]
        BY <1>1, <1>2
      <4>3. QED
        BY <3>2, <4>1, <4>2
    <3>3. QED
      BY <3>1, <3>2
  <2>2. ASSUME NEW b \in Here(gr) \ Drivers PROVE h.fedcount[b] - Cardinality(Into(X, b)) \in FreshFed
    <3>1. b \in Clients /\ fc[b] \in Int /\ Cardinality(Into(X, b)) \in Nat
      BY <1>1, <1>10
    <3>2. /\ Cardinality(Into(Y, b))
             = IF ~plain /\ dst = b THEN Cardinality(Into(X, b)) + 1 ELSE Cardinality(Into(X, b))
          /\ h.fedcount[b] = IF x.dir # 0 /\ dst = b THEN fc[b] - 1 ELSE fc[b]
      BY <1>11, <2>1, <3>1
    <3>3. x.dir # 0 /\ dst = b <=> ~plain /\ dst = b
      BY DEF plain
    <3>4. \A p \in Int, q \in Nat : (p - 1) - q = p - (q + 1)
      OBVIOUS
    <3>5. h.fedcount[b] - Cardinality(Into(X, b)) = fc[b] - Cardinality(Into(Y, b))
      BY <3>1, <3>2, <3>3, <3>4
    <3>6. QED
      BY <1>8, <3>5
  <2>3. ASSUME NEW b \in Drivers PROVE h.fedcount[b] <= 0
    <3>1. b \in Clients
      BY GraphAssumption
    <3>2. fc[b] \in Int /\ fc[b] <= 0 /\ h.fedcount[b] = IF x.dir # 0 /\ dst = b THEN fc[b] - 1 ELSE fc[b]
      BY <1>1, <1>8, <2>1, <3>1
    <3>3. QED
      BY <3>2
  <2>4. Here(h) = Here(gr)
    BY <1>3 DEF Alike
  <2>5. QED
    BY <1>3, <2>2, <2>3, <2>4 DEF FedRight
<1>14. SortsRight(h)
  <2> SUFFICES ASSUME FreshFed \subseteq Nat PROVE ~Cyclic(h.sortfeeds)
    BY DEF SortsRight
  <2>1. ~Cyclic(sf)
    BY DEF Cut, SortsRight, sf
  <2>2. ASSUME NEW a \in Clients, NEW b \in Clients, h.sortfeeds[a][b] > 0
        PROVE  sf[a][b] > 0
    <3>1. \/ h.sortfeeds[a][b] = sf[a][b]
          \/ h.sortfeeds[a][b] = sf[a][b] - 1
      <4>1. /\ Removed(sf, src, dst)[a][b] = sf[a][b] \/ Removed(sf, src, dst)[a][b] = sf[a][b] - 1
            /\ Removed(sf, dst, src)[a][b] = sf[a][b] \/ Removed(sf, dst, src)[a][b] = sf[a][b] - 1
        BY <1>4 DEF TakesOne
      <4>2. QED
        BY <1>3, <4>1
    <3>2. sf[a][b] \in Nat
      BY <1>1
    <3>3. QED
      BY <2>2, <3>1, <3>2
  <2>3. QED
    BY <2>1, <2>2, FewerAcyclic
<1>15. gr.feedbackcount = 0 => FeedbackRight(h)
  <2> SUFFICES ASSUME gr.feedbackcount = 0 PROVE ~(h.feedbackcount > 0)
    BY DEF FeedbackRight
  <2>1. h.feedbackcount = gr.feedbackcount \/ h.feedbackcount = gr.feedbackcount - 1
    BY <1>3
  <2>2. QED
    BY <2>1
<1>16. QED
  BY <1>3, <1>5, <1>12, <1>13, <1>14, <1>15 DEF Cut, h, X, Y

\* A connection that is turned is the same but for its direction.
LEMMA TurnedIs ==
    ASSUME NEW x \in Connections
    PROVE  /\ Turned(x) \in Connections
           /\ Turned(x).source = x.source /\ Turned(x).destination = x.destination
           /\ Turned(x).dir = IF x.dir = -1 THEN 1 ELSE x.dir
           /\ Src(Turned(x)) = Src(x) /\ Dst(Turned(x)) = Dst(x)
<1> DEFINE v == IF x.dir = -1 THEN 1 ELSE x.dir
<1>1. x.dir \in Dirs /\ v \in Dirs
  BY DEF Connections, Dirs
<1>2. Turned(x) = [x EXCEPT !.dir = v]
  BY DEF Turned
<1> HIDE DEF v
<1>3. /\ [x EXCEPT !.dir = v] \in Connections
      /\ [x EXCEPT !.dir = v].source = x.source
      /\ [x EXCEPT !.dir = v].destination = x.destination
      /\ [x EXCEPT !.dir = v].dir = v
  BY <1>1 DEF Connections
<1>4. QED
  BY <1>2, <1>3 DEF Src, Dst, v

LEMMA TurnedCounted ==
    ASSUME NEW gr, Cut(gr), NEW C \in SUBSET In(gr)
    PROVE  IsFiniteSet({Turned(x) : x \in C})
           /\ Cardinality({Turned(x) : x \in C}) = Cardinality(C)
<1> DEFINE T == {Turned(x) : x \in C}
           f == [x \in C |-> Turned(x)]
<1>1. C \subseteq Connections /\ IsFiniteSet(C)
  BY GraphFields, FS_Subset DEF Cut
<1>2. \A x, y \in C : Turned(x) = Turned(y) => x = y
  BY <1>1, TurnedIs DEF Cut, ListsOnce
<1>3. f \in Bijection(C, T)
  BY <1>2 DEF Bijection, Injection, Surjection, IsInjective
<1>4. ExistsBijection(C, T)
  BY <1>3 DEF ExistsBijection
<1>5. QED
  BY <1>1, <1>4, FS_Bijection

\* A list that is turned.
LEMMA TurnedList ==
    ASSUME NEW l \in Seq(Connections), Once(l),
           \A x, y \in ToSet(l) : Turned(x) = Turned(y) => x = y
    PROVE  LET t == [i \in DOMAIN l |-> Turned(l[i])]
           IN  t \in Seq(Connections) /\ Once(t) /\ ToSet(t) = {Turned(x) : x \in ToSet(l)}
<1> DEFINE t == [i \in DOMAIN l |-> Turned(l[i])]
<1>1. Len(l) \in Nat /\ DOMAIN l = 1 .. Len(l) /\ \A i \in DOMAIN l : l[i] \in Connections
  OBVIOUS
<1>2. \A i \in DOMAIN l : Turned(l[i]) \in Connections
  BY <1>1, TurnedIs
<1>3. t \in Seq(Connections)
  BY <1>1, <1>2
<1>4. DOMAIN t = DOMAIN l /\ \A i \in DOMAIN l : t[i] = Turned(l[i])
  OBVIOUS
<1>5. \A i \in DOMAIN l : l[i] \in ToSet(l)
  BY DEF ToSet
<1> HIDE DEF t
<1>6. Once(t)
  BY <1>4, <1>5 DEF Once
<1>7. ToSet(t) = {Turned(x) : x \in ToSet(l)}
  BY <1>4 DEF ToSet
<1>8. QED
  BY <1>3, <1>6, <1>7 DEF t

\* A pair of clients is counted on the sortfeeds list of either; a check that
\* succeeds leaves the graph as if no connection had ever been turned.
LEMMA CheckFields ==
    ASSUME NEW gr, Cut(gr), SortsWithoutFeedback(gr)
    PROVE  LET h == jack_check_acyclic(gr)
           IN  /\ GraphShape(h) /\ Alike(gr, h) /\ h.clients = gr.clients
               /\ In(h) = {Turned(x) : x \in In(gr)} /\ Once(h.connections)
               /\ h.truefeeds = gr.truefeeds /\ h.fedcount = gr.fedcount
               /\ h.feedbackcount = 0
               /\ \A c, d \in Clients : h.sortfeeds[c][d] = gr.truefeeds[c][d]
<1> DEFINE h == jack_check_acyclic(gr)
           X == In(gr)
           l == [i \in DOMAIN gr.connections |-> Turned(gr.connections[i])]
           new(c, d) == gr.sortfeeds[c][d] - Backwards(gr, d, c) + Backwards(gr, c, d)
           sf == [c \in Clients |-> [d \in Clients |-> new(c, d)]]
<1>1. /\ gr \in Graph /\ gr.connections \in Seq(Connections)
      /\ gr.truefeeds \in [Clients -> [Clients -> Nat]]
      /\ IsFiniteSet(X) /\ X \subseteq Connections /\ X = ToSet(gr.connections)
  BY GraphFields DEF Cut, GraphShape, In
<1>2. \A x, y \in X : Turned(x) = Turned(y) => x = y
  BY <1>1, TurnedIs DEF Cut, ListsOnce
<1>3. l \in Seq(Connections) /\ Once(l) /\ ToSet(l) = {Turned(x) : x \in X}
  BY <1>1, <1>2, TurnedList DEF Cut, ListsOnce
<1>4. ASSUME NEW c \in Clients, NEW d \in Clients PROVE new(c, d) = gr.truefeeds[c][d]
  <2>1. Backwards(gr, d, c) = Cardinality(Feedbacks(X, d, c))
        /\ Backwards(gr, c, d) = Cardinality(Feedbacks(X, c, d))
    <3>1. \A x \in X : x.dir = -1 => Dst(x) \notin Drivers
      BY DEF Cut, DirsRight
    <3>2. \A a, b : {x \in X : x.dir = -1 /\ Owner[x.source] = a /\ Owner[x.destination] = b}
                    = Feedbacks(X, a, b)
      BY <3>1 DEF Feedbacks, Counted, Src, Dst
    <3>3. QED
      BY <3>2 DEF Backwards, In
  <2>2. Cardinality(Forwards(X, c, d)) + Cardinality(Feedbacks(X, c, d)) = Cardinality(Counted(X, c, d))
    <3> DEFINE F == Forwards(X, c, d)
               B == Feedbacks(X, c, d)
    <3>1. F \cup B = Counted(X, c, d)
      BY <1>1 DEF Forwards, Feedbacks, Counted, Connections, Dirs
    <3>2. F \cap B = {}
      BY DEF Forwards, Feedbacks
    <3>3. IsFiniteSet(F) /\ IsFiniteSet(B) /\ Cardinality(F) \in Nat /\ Cardinality(B) \in Nat
      BY <1>1, CountsAreFinite
    <3>4. Cardinality(F \cap B) = 0
      BY <3>2, FS_EmptySet
    <3> HIDE DEF F, B
    <3>5. Cardinality(F \cup B) = Cardinality(F) + Cardinality(B) - Cardinality(F \cap B)
      BY <3>3, FS_Union
    <3>6. Cardinality(F) + Cardinality(B) = Cardinality(F \cup B)
      BY <3>3, <3>4, <3>5
    <3>7. QED
      BY <3>1, <3>6 DEF F, B
  <2>3. /\ gr.sortfeeds[c][d] = Cardinality(Forwards(X, c, d)) + Cardinality(Feedbacks(X, d, c))
        /\ gr.truefeeds[c][d] = Cardinality(Counted(X, c, d))
    BY DEF Cut, FeedsRight
  <2>4. /\ Cardinality(Forwards(X, c, d)) \in Nat /\ Cardinality(Feedbacks(X, d, c)) \in Nat
        /\ Cardinality(Feedbacks(X, c, d)) \in Nat
    BY <1>1, CountsAreFinite
  <2>5. \A p, q, r \in Nat : ((p + q) - q) + r = p + r
    OBVIOUS
  <2>6. new(c, d) = Cardinality(Forwards(X, c, d)) + Cardinality(Feedbacks(X, c, d))
    BY <2>1, <2>3, <2>4, <2>5
  <2>7. QED
    BY <2>2, <2>3, <2>6
<1> HIDE DEF new
<1>5. sf \in [Clients -> [Clients -> Nat]]
      /\ \A c, d \in Clients : sf[c][d] = gr.truefeeds[c][d]
  BY <1>1, <1>4
<1>6. h = [gr EXCEPT !.sortfeeds = sf, !.connections = l, !.feedbackcount = 0]
  BY Zenon DEF jack_check_acyclic, sf, new, l
<1> HIDE DEF h, sf, l
<1>7. /\ h \in Graph /\ h.clients = gr.clients /\ h.active = gr.active
      /\ h.dead = gr.dead /\ h.error = gr.error /\ h.connections = l
      /\ h.truefeeds = gr.truefeeds /\ h.fedcount = gr.fedcount
      /\ h.feedbackcount = 0 /\ h.sortfeeds = sf
  <2>1. gr \in Graph /\ sf \in [Clients -> [Clients -> Nat]] /\ l \in Seq(Connections)
    BY <1>1, <1>3, <1>5
  <2> DEFINE fb == 0
  <2>2. fb \in Int /\ h = [gr EXCEPT !.sortfeeds = sf, !.connections = l, !.feedbackcount = fb]
    BY <1>6
  <2>3. fb = 0
    OBVIOUS
  <2> HIDE DEF fb
  <2>4. /\ h \in Graph /\ h.clients = gr.clients /\ h.active = gr.active
        /\ h.dead = gr.dead /\ h.error = gr.error /\ h.connections = l
        /\ h.truefeeds = gr.truefeeds /\ h.fedcount = gr.fedcount
        /\ h.feedbackcount = fb /\ h.sortfeeds = sf
    BY <2>1, <2>2 DEF Graph
  <2>5. QED
    BY <2>3, <2>4
<1>8. GraphShape(h) /\ Alike(gr, h) /\ In(h) = {Turned(x) : x \in X}
  BY <1>3, <1>7 DEF GraphShape, Alike, In, Here
<1>9. QED
  BY <1>3, <1>5, <1>7, <1>8 DEF h

\* What a check keeps.

LEMMA CheckKeeps ==
    ASSUME NEW gr, Cut(gr)
    PROVE  LET h == jack_check_acyclic(gr)
           IN  Kept(h) /\ Alike(gr, h) /\ Pairs(h) = Pairs(gr)
<1> DEFINE h == jack_check_acyclic(gr)
           X == In(gr)
<1>1. CASE ~SortsWithoutFeedback(gr)
  <2>1. h = gr
    BY <1>1 DEF jack_check_acyclic
  <2>2. FeedbackRight(gr)
    BY <1>1, StuckIsCyclic DEF FeedbackRight
  <2>3. Alike(gr, gr)
    BY DEF Alike
  <2> HIDE DEF h
  <2>4. QED
    BY <1>1, <2>1, <2>2, <2>3 DEF h, Kept
<1>2. CASE SortsWithoutFeedback(gr)
  <2> DEFINE Y == {Turned(x) : x \in X}
  <2>1. /\ GraphShape(h) /\ Alike(gr, h) /\ h.clients = gr.clients
        /\ In(h) = Y /\ Once(h.connections)
        /\ h.truefeeds = gr.truefeeds /\ h.fedcount = gr.fedcount
        /\ h.feedbackcount = 0
        /\ \A c, d \in Clients : h.sortfeeds[c][d] = gr.truefeeds[c][d]
    BY <1>2, CheckFields
  <2>2. X \subseteq Connections /\ IsFiniteSet(X)
    BY GraphFields DEF Cut
  <2>3. \A x \in X : /\ Turned(x).source = x.source /\ Turned(x).destination = x.destination
                     /\ Turned(x).dir = IF x.dir = -1 THEN 1 ELSE x.dir
                     /\ Src(Turned(x)) = Src(x) /\ Dst(Turned(x)) = Dst(x)
                     /\ x.dir \in {-1, 0, 1}
    BY <2>2, TurnedIs, ConnectionParts DEF Dirs
  <2> HIDE DEF h
  <2>4. Pairs(h) = Pairs(gr)
    BY <2>1, <2>3 DEF Pairs
  <2>5. Here(h) = Here(gr)
    BY <2>1 DEF Alike
  <2>6. ListsOnce(h)
    BY <2>1, <2>3, <2>5 DEF Cut, ListsOnce
  <2>7. DirsRight(h)
    <3>1. ASSUME NEW x \in X
          PROVE  LET y == Turned(x)
                 IN  /\ Src(y) \in Here(h) /\ Dst(y) \in Here(h)
                     /\ Dst(y) \in Drivers => y.dir = 1
                     /\ Dst(y) \notin Drivers => (y.dir = 0 <=> Src(y) = Dst(y))
                     /\ ~(y.dir = -1)
      <4>1. /\ Src(x) \in Here(h) /\ Dst(x) \in Here(h)
            /\ Dst(x) \in Drivers => x.dir = 1
            /\ Dst(x) \notin Drivers => (x.dir = 0 <=> Src(x) = Dst(x))
        BY <2>5 DEF Cut, DirsRight
      <4>2. QED
        BY <2>3, <4>1
    <3>2. QED
      BY <2>1, <3>1 DEF DirsRight
  <2>8. ASSUME NEW c \in Clients, NEW d \in Clients
        PROVE  /\ Cardinality(Counted(Y, c, d)) = Cardinality(Counted(X, c, d))
               /\ Cardinality(Into(Y, d)) = Cardinality(Into(X, d))
               /\ Forwards(Y, c, d) = Counted(Y, c, d) /\ Feedbacks(Y, c, d) = {}
    <3>1. Counted(Y, c, d) = {Turned(x) : x \in Counted(X, c, d)}
      BY <2>3 DEF Counted
    <3>2. Into(Y, d) = {Turned(x) : x \in Into(X, d)}
      BY <2>3 DEF Into
    <3>3. Counted(X, c, d) \in SUBSET X /\ Into(X, d) \in SUBSET X
      BY DEF Counted, Into
    <3>4. Forwards(Y, c, d) = Counted(Y, c, d) /\ Feedbacks(Y, c, d) = {}
      BY <2>3 DEF Counted, Forwards, Feedbacks
    <3>5. QED
      BY <3>1, <3>2, <3>3, <3>4, TurnedCounted
  <2>9. AllBack(Y) = {}
    BY <2>3 DEF AllBack
  <2>10. \A c, d \in Clients : gr.truefeeds[c][d] = Cardinality(Counted(X, c, d))
                               /\ Cardinality(Counted(X, c, d)) \in Nat
    BY <2>2, CountsAreFinite DEF Cut, FeedsRight
  <2>11. Cardinality({}) = 0
    BY FS_EmptySet
  <2> HIDE DEF X, Y
  <2>12. FeedsRight(h)
    <3>1. ASSUME NEW c \in Clients, NEW d \in Clients
          PROVE  /\ h.sortfeeds[c][d] = Cardinality(Forwards(Y, c, d)) + Cardinality(Feedbacks(Y, d, c))
                 /\ h.truefeeds[c][d] = Cardinality(Counted(Y, c, d))
      <4>1. Cardinality(Forwards(Y, c, d)) = Cardinality(Counted(X, c, d))
            /\ Cardinality(Feedbacks(Y, d, c)) = 0
        BY <2>8, <2>11
      <4>2. \A n \in Nat : n + 0 = n
        OBVIOUS
      <4>3. QED
        BY <2>1, <2>8, <2>10, <4>1, <4>2
    <3>2. QED
      BY <2>1, <2>9, <2>11, <3>1 DEF FeedsRight
  <2>13. FedRight(h)
    <3>1. \A d \in Here(gr) \ Drivers : d \in Clients
      BY GraphFields DEF Cut
    <3>2. \A d \in Here(gr) \ Drivers : gr.fedcount[d] - Cardinality(Into(X, d)) \in FreshFed
      BY DEF Cut, FedRight, X
    <3>3. \A d \in Here(gr) \ Drivers : Cardinality(Into(Y, d)) = Cardinality(Into(X, d))
      BY <2>8, <3>1
    <3>4. \A d \in Drivers : gr.fedcount[d] <= 0
      BY DEF Cut, FedRight
    <3>5. QED
      BY <2>1, <2>5, <3>2, <3>3, <3>4 DEF FedRight
  <2>14. SortsRight(h)
    <3> SUFFICES ASSUME FreshFed \subseteq Nat PROVE ~Cyclic(h.sortfeeds)
      BY DEF SortsRight
    <3>1. ~Cyclic(gr.truefeeds)
      BY <1>2, SortedIsAcyclic
    <3>2. QED
      BY <2>1, <3>1, FewerAcyclic
  <2>15. FeedbackRight(h)
    BY <2>1 DEF FeedbackRight
  <2>16. QED
    BY <2>1, <2>4, <2>6, <2>7, <2>12, <2>13, <2>14, <2>15 DEF Cut, Kept, h
<1>3. QED
  BY <1>1, <1>2

LEMMA AlikeThrough ==
    ASSUME NEW gr, NEW h, NEW k, Alike(gr, h), Alike(h, k)
    PROVE  Alike(gr, k)
BY DEF Alike

\* The end of a disconnection: the graph is checked if it had feedback, and
\* sorted.
LEMMA CheckedAndSorted ==
    ASSUME NEW gr, Cut(gr), NEW had,
           had = 0 => FeedbackRight(gr)
    PROVE  LET h == jack_sort_graph(IF had # 0 THEN jack_check_acyclic(gr) ELSE gr)
           IN  Kept(h) /\ Alike(gr, h) /\ Pairs(h) = Pairs(gr)
<1> DEFINE k == IF had # 0 THEN jack_check_acyclic(gr) ELSE gr
           h == jack_sort_graph(k)
<1>1. Alike(gr, gr)
  BY DEF Alike
<1>2. Kept(k) /\ Alike(gr, k) /\ Pairs(k) = Pairs(gr)
  <2>1. CASE had # 0
    BY <2>1, CheckKeeps
  <2>2. CASE had = 0
    BY <1>1, <2>2 DEF Kept
  <2>3. QED
    BY <2>1, <2>2
<1> HIDE DEF k
<1>3. Cut(h) /\ FeedbackRight(h) /\ Alike(k, h) /\ h.connections = k.connections
  BY <1>2, SortKeeps DEF Kept
<1> HIDE DEF h
<1>4. Pairs(h) = Pairs(k)
  BY <1>3 DEF Pairs, In
<1>5. Alike(gr, h)
  BY <1>2, <1>3, AlikeThrough
<1>6. QED
  BY <1>2, <1>3, <1>4, <1>5 DEF Kept, h, k

\* A connection takes a pair of ports in, a disconnection takes it out.
LEMMA ConnectKeeps ==
    ASSUME NEW gr, Kept(gr), NEW s \in Ports, NEW d \in Ports,
           Owner[s] \in Here(gr), Owner[d] \in Here(gr), ~Connected(gr, s, d)
    PROVE  LET h == jack_port_do_connect(gr, s, d)
           IN  Kept(h) /\ Alike(gr, h) /\ Pairs(h) = Pairs(gr) \cup {<<s, d>>}
<1> DEFINE k == LinkedIn(gr, s, d)
           h == jack_sort_graph(k)
<1>1. Kept(k) /\ Alike(gr, k) /\ Pairs(k) = Pairs(gr) \cup {<<s, d>>}
  BY LinkedKeeps
<1> HIDE DEF k
<1>4. Cut(h) /\ FeedbackRight(h) /\ Alike(k, h) /\ h.connections = k.connections
  BY <1>1, SortKeeps DEF Kept
<1> HIDE DEF h
<1>5. Pairs(h) = Pairs(k)
  BY <1>4 DEF Pairs, In
<1>6. Alike(gr, h)
  BY <1>1, <1>4, AlikeThrough
<1>7. jack_port_do_connect(gr, s, d) = h
  BY ConnectIs DEF h, k
<1>8. QED
  BY <1>1, <1>4, <1>5, <1>6, <1>7 DEF Kept

LEMMA DisconnectKeeps ==
    ASSUME NEW gr, Kept(gr), NEW s, NEW d
    PROVE  LET h == jack_port_disconnect_internal(gr, s, d)
           IN  Kept(h) /\ Alike(gr, h) /\ Pairs(h) = Pairs(gr) \ {<<s, d>>}
<1> DEFINE x == TheConnection(gr, s, d)
           k == IF Connected(gr, s, d) THEN Unlinked(gr, x) ELSE gr
           h == jack_sort_graph(IF gr.feedbackcount # 0 THEN jack_check_acyclic(k) ELSE k)
<1>1. jack_port_disconnect_internal(gr, s, d) = h
  BY Zenon DEF jack_port_disconnect_internal
<1>2. Cut(k) /\ Alike(gr, k) /\ (gr.feedbackcount = 0 => FeedbackRight(k))
      /\ Pairs(k) = Pairs(gr) \ {<<s, d>>}
  <2>1. CASE Connected(gr, s, d)
    <3>1. x \in In(gr) /\ x.source = s /\ x.destination = d
      BY <2>1, Zenon DEF Connected, TheConnection, In
    <3> HIDE DEF x
    <3>2. Cut(k) /\ Alike(gr, k) /\ In(k) = In(gr) \ {x}
          /\ (gr.feedbackcount = 0 => FeedbackRight(k))
      BY <2>1, <3>1, UnlinkedCuts DEF Kept
    <3> HIDE DEF k
    <3>3. \A y \in In(gr) : y.source = s /\ y.destination = d => y = x
      BY <3>1 DEF Kept, Cut, ListsOnce
    <3>4. Pairs(k) = Pairs(gr) \ {<<s, d>>}
      BY <3>1, <3>2, <3>3 DEF Pairs
    <3>5. QED
      BY <3>2, <3>4
  <2>2. CASE ~Connected(gr, s, d)
    <3>1. k = gr /\ Alike(gr, gr)
      BY <2>2 DEF Alike
    <3>2. <<s, d>> \notin Pairs(gr)
      BY <2>2 DEF Pairs, Connected, In
    <3> HIDE DEF k
    <3>3. QED
      BY <3>1, <3>2 DEF Kept
  <2>3. QED
    BY <2>1, <2>2
<1> HIDE DEF k
<1>3. Kept(h) /\ Alike(k, h) /\ Pairs(h) = Pairs(k)
  BY <1>2, CheckedAndSorted
<1> HIDE DEF h
<1>4. QED
  BY <1>1, <1>2, <1>3, AlikeThrough

\* One turn of the loops that clear a port and a client.
ClearStep(gr, p, i, s) ==
    IF i = 0 THEN gr
    ELSE LET x == gr.connections[i]
         IN  IF p \in {x.source, x.destination}
             THEN jack_port_disconnect_internal(s, x.source, x.destination)
             ELSE s
Clearing(gr, p, n, f) == f = [i \in 0 .. n |-> ClearStep(gr, p, i, f[i - 1])]

\* The loop exists up to every turn.
LEMMA ClearingExists ==
    ASSUME NEW gr, NEW p, NEW n \in Nat
    PROVE  \E f : Clearing(gr, p, n, f)
<1> DEFINE bad == {m \in Nat : ~ \E f : Clearing(gr, p, m, f)}
<1>1. SUFFICES ASSUME bad # {} PROVE FALSE
  OBVIOUS
<1>2. PICK m \in bad : \A k \in bad : m <= k
  <2>1. bad \in SUBSET Nat
    OBVIOUS
  <2> HIDE DEF bad
  <2>2. QED
    BY <1>1, <2>1, LeastExists
<1>3. CASE m = 0
  <2> DEFINE f == [i \in 0 .. 0 |-> ClearStep(gr, p, 0, 0)]
  <2>1. Clearing(gr, p, 0, f)
    BY DEF Clearing, ClearStep
  <2>2. QED
    BY <1>3, <2>1
<1>4. CASE m # 0
  <2>1. m \in Nat /\ m - 1 \in Nat /\ m - 1 \notin bad
    BY <1>2, <1>4
  <2>2. PICK f : Clearing(gr, p, m - 1, f)
    BY <2>1
  <2> DEFINE h == [i \in 0 .. m |-> IF i < m THEN f[i] ELSE ClearStep(gr, p, m, f[m - 1])]
  <2>3. ASSUME NEW i \in 0 .. m PROVE h[i] = ClearStep(gr, p, i, h[i - 1])
    <3>1. CASE i = 0
      <4>1. f[0] = ClearStep(gr, p, 0, f[0 - 1])
        BY <2>1, <2>2 DEF Clearing
      <4>2. \A u, w : ClearStep(gr, p, 0, u) = ClearStep(gr, p, 0, w)
        BY Zenon DEF ClearStep
      <4>3. h[0] = f[0]
        BY <1>4, <2>1
      <4>4. h[0] = ClearStep(gr, p, 0, h[0 - 1])
        <5> HIDE DEF h
        <5>1. QED
          BY <4>1, <4>2, <4>3, Zenon
      <4>5. QED
        BY <3>1, <4>4, Zenon
    <3>2. CASE i # 0 /\ i < m
      <4>1. i \in 0 .. m - 1 /\ i - 1 \in 0 .. m - 1 /\ i - 1 < m
        BY <2>1, <3>2
      <4>2. f[i] = ClearStep(gr, p, i, f[i - 1])
        BY <2>2, <4>1 DEF Clearing
      <4>3. QED
        BY <3>2, <4>1, <4>2
    <3>3. CASE i = m
      BY <1>4, <2>1, <3>3
    <3>4. i = 0 \/ (i # 0 /\ i < m) \/ i = m
      BY <2>1
    <3>5. QED
      BY <3>1, <3>2, <3>3, <3>4, Zenon
  <2>4. Clearing(gr, p, m, h)
    <3>1. h = [i \in 0 .. m |-> h[i]]
      OBVIOUS
    <3> HIDE DEF h
    <3>2. QED
      BY <2>3, <3>1 DEF Clearing
  <2>5. QED
    BY <1>2, <2>4
<1>5. QED
  BY <1>3, <1>4

\* What the operator is: the loop's last turn.
LEMMA ClearingIs ==
    ASSUME NEW gr, NEW p, Len(gr.connections) \in Nat
    PROVE  \E f : Clearing(gr, p, Len(gr.connections), f) /\ jack_port_clear_connections(gr, p) = f[Len(gr.connections)]
<1> DEFINE cut[i \in 0 .. Len(gr.connections)] ==
             IF i = 0 THEN gr
             ELSE LET x == gr.connections[i]
                  IN  IF p \in {x.source, x.destination}
                      THEN jack_port_disconnect_internal(cut[i - 1], x.source, x.destination)
                      ELSE cut[i - 1]
<1>1. \E f : f = [i \in 0 .. Len(gr.connections) |->
               IF i = 0 THEN gr
             ELSE LET x == gr.connections[i]
                  IN  IF p \in {x.source, x.destination}
                      THEN jack_port_disconnect_internal(f[i - 1], x.source, x.destination)
                      ELSE f[i - 1]]
  <2>1. Len(gr.connections) \in Nat
    OBVIOUS
  <2>2. \E f : Clearing(gr, p, Len(gr.connections), f)
    BY <2>1, ClearingExists
  <2>3. QED
    BY <2>2 DEF Clearing, ClearStep
<1>2. cut = [i \in 0 .. Len(gr.connections) |->
               IF i = 0 THEN gr
             ELSE LET x == gr.connections[i]
                  IN  IF p \in {x.source, x.destination}
                      THEN jack_port_disconnect_internal(cut[i - 1], x.source, x.destination)
                      ELSE cut[i - 1]]
  BY <1>1, Zenon
<1>3. jack_port_clear_connections(gr, p) = cut[Len(gr.connections)]
  BY Zenon DEF jack_port_clear_connections
<1> HIDE DEF cut
<1>4. QED
  BY <1>2, <1>3 DEF Clearing, ClearStep

\* PortStep: ports is the list of the client's ports.
PortStep(gr, ports, i, s) == IF i = 0 THEN gr ELSE jack_port_clear_connections(s, ports[i])
PortsClearing(gr, ports, n, f) == f = [i \in 0 .. n |-> PortStep(gr, ports, i, f[i - 1])]
PortsOf(c) == SetToSeq({p \in Ports : Owner[p] = c})

\* The loop exists up to every turn.
LEMMA PortsClearingExists ==
    ASSUME NEW gr, NEW ports, NEW n \in Nat
    PROVE  \E f : PortsClearing(gr, ports, n, f)
<1> DEFINE bad == {m \in Nat : ~ \E f : PortsClearing(gr, ports, m, f)}
<1>1. SUFFICES ASSUME bad # {} PROVE FALSE
  OBVIOUS
<1>2. PICK m \in bad : \A k \in bad : m <= k
  <2>1. bad \in SUBSET Nat
    OBVIOUS
  <2> HIDE DEF bad
  <2>2. QED
    BY <1>1, <2>1, LeastExists
<1>3. CASE m = 0
  <2> DEFINE f == [i \in 0 .. 0 |-> PortStep(gr, ports, 0, 0)]
  <2>1. PortsClearing(gr, ports, 0, f)
    BY DEF PortsClearing, PortStep
  <2>2. QED
    BY <1>3, <2>1
<1>4. CASE m # 0
  <2>1. m \in Nat /\ m - 1 \in Nat /\ m - 1 \notin bad
    BY <1>2, <1>4
  <2>2. PICK f : PortsClearing(gr, ports, m - 1, f)
    BY <2>1
  <2> DEFINE h == [i \in 0 .. m |-> IF i < m THEN f[i] ELSE PortStep(gr, ports, m, f[m - 1])]
  <2>3. ASSUME NEW i \in 0 .. m PROVE h[i] = PortStep(gr, ports, i, h[i - 1])
    <3>1. CASE i = 0
      <4>1. f[0] = PortStep(gr, ports, 0, f[0 - 1])
        BY <2>1, <2>2 DEF PortsClearing
      <4>2. \A p, q : PortStep(gr, ports, 0, p) = PortStep(gr, ports, 0, q)
        BY Zenon DEF PortStep
      <4>3. h[0] = f[0]
        BY <1>4, <2>1
      <4>4. h[0] = PortStep(gr, ports, 0, h[0 - 1])
        <5> HIDE DEF h
        <5>1. QED
          BY <4>1, <4>2, <4>3, Zenon
      <4>5. QED
        BY <3>1, <4>4, Zenon
    <3>2. CASE i # 0 /\ i < m
      <4>1. i \in 0 .. m - 1 /\ i - 1 \in 0 .. m - 1 /\ i - 1 < m
        BY <2>1, <3>2
      <4>2. f[i] = PortStep(gr, ports, i, f[i - 1])
        BY <2>2, <4>1 DEF PortsClearing
      <4>3. QED
        BY <3>2, <4>1, <4>2
    <3>3. CASE i = m
      BY <1>4, <2>1, <3>3
    <3>4. i = 0 \/ (i # 0 /\ i < m) \/ i = m
      BY <2>1
    <3>5. QED
      BY <3>1, <3>2, <3>3, <3>4, Zenon
  <2>4. PortsClearing(gr, ports, m, h)
    <3>1. h = [i \in 0 .. m |-> h[i]]
      OBVIOUS
    <3> HIDE DEF h
    <3>2. QED
      BY <2>3, <3>1 DEF PortsClearing
  <2>5. QED
    BY <1>2, <2>4
<1>5. QED
  BY <1>3, <1>4

\* What the operator is: the loop's last turn.
LEMMA PortsClearingIs ==
    ASSUME NEW gr, NEW ports, NEW c, ports = PortsOf(c), Len(ports) \in Nat
    PROVE  \E f : PortsClearing(gr, ports, Len(ports), f) /\ ClearPorts(gr, c) = f[Len(ports)]
<1> DEFINE cleared[i \in 0 .. Len(ports)] ==
             IF i = 0 THEN gr ELSE jack_port_clear_connections(cleared[i - 1], ports[i])
<1>1. \E f : f = [i \in 0 .. Len(ports) |->
               IF i = 0 THEN gr ELSE jack_port_clear_connections(f[i - 1], ports[i])]
  <2>1. Len(ports) \in Nat
    OBVIOUS
  <2>2. \E f : PortsClearing(gr, ports, Len(ports), f)
    BY <2>1, PortsClearingExists
  <2>3. QED
    BY <2>2 DEF PortsClearing, PortStep
<1>2. cleared = [i \in 0 .. Len(ports) |->
               IF i = 0 THEN gr ELSE jack_port_clear_connections(cleared[i - 1], ports[i])]
  BY <1>1, Zenon
<1>3. ClearPorts(gr, c) = cleared[Len(ports)]
  BY Zenon DEF ClearPorts, PortsOf
<1> HIDE DEF cleared
<1>4. QED
  BY <1>2, <1>3 DEF PortsClearing, PortStep

\* What a step that connects nothing keeps.
Cleared(gr, h) == Kept(h) /\ Alike(gr, h) /\ Pairs(h) \subseteq Pairs(gr)

LEMMA ClearedThrough ==
    ASSUME NEW gr, NEW h, NEW k, Cleared(gr, h), Cleared(h, k)
    PROVE  Cleared(gr, k)
BY AlikeThrough DEF Cleared

LEMMA ClearKeeps ==
    ASSUME NEW gr, Kept(gr), NEW p
    PROVE  LET h == jack_port_clear_connections(gr, p)
           IN  Cleared(gr, h) /\ \A q \in Pairs(h) : q[1] # p /\ q[2] # p
<1> DEFINE l == gr.connections
           n == Len(l)
           Ends(j) == <<l[j].source, l[j].destination>>
           Good(i, k) == /\ Cleared(gr, k)
                         /\ \A j \in 1 .. i : p \in {l[j].source, l[j].destination}
                                               => Ends(j) \notin Pairs(k)
<1>1. n \in Nat /\ DOMAIN l = 1 .. n
  <2>1. l \in Seq(Connections)
    BY GraphFields DEF Kept, Cut
  <2>2. QED
    BY <2>1
<1>2. PICK f : Clearing(gr, p, n, f) /\ jack_port_clear_connections(gr, p) = f[n]
  BY <1>1, ClearingIs
<1>3. \A i \in 0 .. n : f[i] = ClearStep(gr, p, i, f[i - 1])
  BY <1>2 DEF Clearing
<1> DEFINE bad == {i \in 0 .. n : ~Good(i, f[i])}
<1>4. SUFFICES ASSUME bad # {} PROVE FALSE
  <2>1. n \in 0 .. n
    BY <1>1
  <2>2. CASE bad = {}
    <3>1. Good(n, f[n])
      BY <2>1, <2>2
    <3>2. ASSUME NEW q \in Pairs(f[n]), q[1] = p \/ q[2] = p PROVE FALSE
      <4>1. q \in Pairs(gr)
        BY <3>1, <3>2 DEF Cleared
      <4>2. PICK j \in 1 .. n : q = Ends(j)
        BY <1>1, <4>1 DEF Pairs, In, ToSet
      <4>3. p \in {l[j].source, l[j].destination}
        BY <3>2, <4>2
      <4>4. QED
        BY <3>1, <3>2, <4>2, <4>3
    <3>3. QED
      BY <1>2, <3>1, <3>2
  <2>3. QED
    BY <1>4, <2>2
<1>5. PICK m \in bad : \A k \in bad : m <= k
  <2>1. bad \in SUBSET Nat
    BY <1>1
  <2> HIDE DEF bad
  <2>2. QED
    BY <1>4, <2>1, LeastExists
<1>6. m \in 0 .. n /\ ~Good(m, f[m])
  OBVIOUS
<1>7. m # 0
  <2> SUFFICES ASSUME m = 0 PROVE FALSE
    OBVIOUS
  <2>1. f[0] = gr
    BY <1>1, <1>3 DEF ClearStep
  <2>2. Cleared(gr, gr)
    BY DEF Cleared, Alike
  <2>3. Good(0, f[0])
    BY <2>1, <2>2
  <2>4. QED
    BY <1>6, <2>3
<1>8. m - 1 \in 0 .. n /\ m \in 1 .. n
  BY <1>1, <1>6, <1>7
<1>9. Good(m - 1, f[m - 1])
  <2>1. m - 1 \notin bad
    BY <1>1, <1>5, <1>6
  <2>2. QED
    BY <1>8, <2>1
<1> DEFINE k == f[m - 1]
           x == l[m]
<1>10. f[m] = IF p \in {x.source, x.destination}
              THEN jack_port_disconnect_internal(k, x.source, x.destination) ELSE k
  BY <1>3, <1>6, <1>7, Zenon DEF ClearStep
<1>11. Cleared(k, f[m]) /\ (p \in {x.source, x.destination} => Ends(m) \notin Pairs(f[m]))
  <2>1. Kept(k) /\ Alike(k, k)
    BY <1>9 DEF Cleared, Alike
  <2> HIDE DEF k
  <2>2. CASE p \in {x.source, x.destination}
    <3>1. LET h == jack_port_disconnect_internal(k, x.source, x.destination)
          IN  Kept(h) /\ Alike(k, h) /\ Pairs(h) = Pairs(k) \ {Ends(m)}
      BY <2>1, DisconnectKeeps
    <3>2. QED
      BY <1>10, <2>2, <3>1 DEF Cleared
  <2>3. CASE ~(p \in {x.source, x.destination})
    BY <1>10, <2>1, <2>3 DEF Cleared
  <2>4. QED
    BY <2>2, <2>3
<1>12. Cleared(gr, f[m])
  BY <1>9, <1>11, ClearedThrough
<1>13. ASSUME NEW j \in 1 .. m, p \in {l[j].source, l[j].destination} PROVE Ends(j) \notin Pairs(f[m])
  <2>1. CASE j = m
    BY <1>11, <1>13, <2>1
  <2>2. CASE j # m
    <3>1. j \in 1 .. m - 1
      BY <1>8, <2>2
    <3>2. Ends(j) \notin Pairs(k)
      BY <1>9, <1>13, <3>1
    <3>3. QED
      BY <1>11, <3>2 DEF Cleared
  <2>3. QED
    BY <2>1, <2>2
<1>14. QED
  BY <1>6, <1>12, <1>13

\* A client whose ports are cleared has no connections.
LEMMA ClearPortsKeep ==
    ASSUME NEW gr, Kept(gr), NEW c
    PROVE  LET h == ClearPorts(gr, c)
           IN  /\ Cleared(gr, h)
               /\ \A q \in Pairs(h) : q[1] \in Ports /\ q[2] \in Ports
                                      /\ Owner[q[1]] # c /\ Owner[q[2]] # c
<1> DEFINE ports == PortsOf(c)
           n == Len(ports)
           T == {p \in Ports : Owner[p] = c}
           Good(i, k) == /\ Cleared(gr, k)
                         /\ \A j \in 1 .. i, q \in Pairs(k) : q[1] # ports[j] /\ q[2] # ports[j]
<1>1. ports \in Seq(T) /\ ToSet(ports) = T
  <2>1. IsFiniteSet(T)
    BY GraphAssumption, FS_Subset
  <2>2. QED
    BY <2>1, SetIsList DEF PortsOf
<1> HIDE DEF ports
<1>2. n \in Nat /\ DOMAIN ports = 1 .. n
  BY <1>1
<1>3. PICK f : PortsClearing(gr, ports, n, f) /\ ClearPorts(gr, c) = f[n]
  BY <1>2, PortsClearingIs DEF ports
<1>4. \A i \in 0 .. n : f[i] = PortStep(gr, ports, i, f[i - 1])
  BY <1>3 DEF PortsClearing
<1> DEFINE bad == {i \in 0 .. n : ~Good(i, f[i])}
<1>5. SUFFICES ASSUME bad # {} PROVE FALSE
  <2>1. n \in 0 .. n
    BY <1>2
  <2>2. CASE bad = {}
    <3>1. Good(n, f[n])
      BY <2>1, <2>2
    <3>2. ASSUME NEW q \in Pairs(f[n])
          PROVE  q[1] \in Ports /\ q[2] \in Ports /\ Owner[q[1]] # c /\ Owner[q[2]] # c
      <4>1. q[1] \in Ports /\ q[2] \in Ports
        <5>1. Kept(f[n])
          BY <3>1 DEF Cleared
        <5>2. In(f[n]) \subseteq Connections
          BY <5>1, GraphFields DEF Kept, Cut
        <5>3. QED
          BY <3>2, <5>2 DEF Pairs, Connections
      <4>2. \A p \in T : \E j \in 1 .. n : ports[j] = p
        BY <1>1, <1>2 DEF ToSet
      <4>3. q[1] \notin T /\ q[2] \notin T
        BY <3>1, <3>2, <4>2
      <4>4. QED
        BY <4>1, <4>3
    <3>3. QED
      BY <1>3, <3>1, <3>2
  <2>3. QED
    BY <1>5, <2>2
<1>6. PICK m \in bad : \A k \in bad : m <= k
  <2>1. bad \in SUBSET Nat
    BY <1>2
  <2> HIDE DEF bad
  <2>2. QED
    BY <1>5, <2>1, LeastExists
<1>7. m \in 0 .. n /\ ~Good(m, f[m])
  OBVIOUS
<1>8. m # 0
  <2> SUFFICES ASSUME m = 0 PROVE FALSE
    OBVIOUS
  <2>1. f[0] = gr
    BY <1>2, <1>4 DEF PortStep
  <2>2. Cleared(gr, gr)
    BY DEF Cleared, Alike
  <2>3. Good(0, f[0])
    BY <2>1, <2>2
  <2>4. QED
    BY <1>7, <2>3
<1>9. m - 1 \in 0 .. n /\ m \in 1 .. n
  BY <1>2, <1>7, <1>8
<1>10. Good(m - 1, f[m - 1])
  <2>1. m - 1 \notin bad
    BY <1>2, <1>6, <1>7
  <2>2. QED
    BY <1>9, <2>1
<1> DEFINE k == f[m - 1]
<1>11. f[m] = jack_port_clear_connections(k, ports[m])
  BY <1>4, <1>7, <1>8, Zenon DEF PortStep
<1>12. Kept(k)
  BY <1>10 DEF Cleared
<1> HIDE DEF k
<1>13. Cleared(k, f[m]) /\ \A q \in Pairs(f[m]) : q[1] # ports[m] /\ q[2] # ports[m]
  BY <1>11, <1>12, ClearKeeps
<1>14. Cleared(gr, f[m])
  BY <1>10, <1>13, ClearedThrough DEF k
<1>15. ASSUME NEW j \in 1 .. m, NEW q \in Pairs(f[m]) PROVE q[1] # ports[j] /\ q[2] # ports[j]
  <2>1. CASE j = m
    BY <1>13, <2>1
  <2>2. CASE j # m
    <3>1. j \in 1 .. m - 1
      BY <1>9, <2>2
    <3>2. q \in Pairs(k)
      BY <1>13 DEF Cleared
    <3>3. QED
      BY <1>10, <3>1, <3>2 DEF k
  <2>3. QED
    BY <2>1, <2>2
<1>16. QED
  BY <1>7, <1>14, <1>15

\* A client without connections feeds nobody.
LEMMA NotConnectedFeeds ==
    ASSUME NEW gr, Kept(gr), NEW c \in Clients,
           \A q \in Pairs(gr) : Owner[q[1]] # c /\ Owner[q[2]] # c
    PROVE  /\ gr.sortfeeds[c] = NoFeeds /\ gr.truefeeds[c] = NoFeeds
           /\ Into(In(gr), c) = {}
<1> DEFINE X == In(gr)
<1>1. \A x \in X : Src(x) # c /\ Dst(x) # c
  <2> SUFFICES ASSUME NEW x \in X PROVE Owner[x.source] # c /\ Owner[x.destination] # c
    BY DEF Src, Dst
  <2> DEFINE q == <<x.source, x.destination>>
  <2>1. q \in Pairs(gr) /\ q[1] = x.source /\ q[2] = x.destination
    BY DEF Pairs
  <2> HIDE DEF q
  <2>2. QED
    BY <2>1
<1>2. \A d : Forwards(X, c, d) = {} /\ Feedbacks(X, d, c) = {} /\ Counted(X, c, d) = {}
  BY <1>1 DEF Forwards, Feedbacks, Counted
<1>3. Into(X, c) = {}
  BY <1>1 DEF Into
<1>4. Cardinality({}) = 0
  BY FS_EmptySet
<1>5. \A d \in Clients : gr.sortfeeds[c][d] = 0 + 0 /\ gr.truefeeds[c][d] = 0
  BY <1>2, <1>4 DEF Kept, Cut, FeedsRight
<1>6. gr.sortfeeds[c] \in [Clients -> Nat] /\ gr.truefeeds[c] \in [Clients -> Nat]
  BY GraphFields DEF Kept, Cut
<1> HIDE DEF X
<1>7. gr.sortfeeds[c] = NoFeeds /\ gr.truefeeds[c] = NoFeeds
  <2>1. \A f \in [Clients -> Nat] : (\A d \in Clients : f[d] = 0) => f = NoFeeds
    BY DEF NoFeeds
  <2>2. \A d \in Clients : gr.sortfeeds[c][d] = 0 /\ gr.truefeeds[c][d] = 0
    BY <1>5
  <2> DEFINE a == gr.sortfeeds[c]
             b == gr.truefeeds[c]
  <2>3. /\ a \in [Clients -> Nat] /\ \A d \in Clients : a[d] = 0
        /\ b \in [Clients -> Nat] /\ \A d \in Clients : b[d] = 0
    BY <1>6, <2>2
  <2> HIDE DEF a, b
  <2>4. a = NoFeeds /\ b = NoFeeds
    BY <2>1, <2>3
  <2>5. QED
    BY <2>4 DEF a, b
<1>8. QED
  BY <1>3, <1>7 DEF X

LEMMA DisconnectPortsKeep ==
    ASSUME NEW gr, Kept(gr), NEW c \in Clients
    PROVE  LET h == jack_client_disconnect_ports(gr, c)
           IN  /\ Cleared(gr, h)
               /\ \A q \in Pairs(h) : Owner[q[1]] # c /\ Owner[q[2]] # c
<1> DEFINE k == ClearPorts(gr, c)
           h == jack_client_disconnect_ports(gr, c)
<1>1. Cleared(gr, k) /\ \A q \in Pairs(k) : Owner[q[1]] # c /\ Owner[q[2]] # c
  BY ClearPortsKeep
<1>2. h = [k EXCEPT !.sortfeeds[c] = NoFeeds, !.truefeeds[c] = NoFeeds]
  BY Zenon DEF jack_client_disconnect_ports
<1> HIDE DEF k, h
<1>3. k.sortfeeds[c] = NoFeeds /\ k.truefeeds[c] = NoFeeds
  BY <1>1, NotConnectedFeeds DEF Cleared
<1>4. k \in Graph /\ k.sortfeeds \in [Clients -> [Clients -> Nat]]
      /\ k.truefeeds \in [Clients -> [Clients -> Nat]]
  BY <1>1, GraphFields DEF Cleared, Kept, Cut, GraphShape
<1>5. [k.sortfeeds EXCEPT ![c] = NoFeeds] = k.sortfeeds
      /\ [k.truefeeds EXCEPT ![c] = NoFeeds] = k.truefeeds
  <2> DEFINE sf == k.sortfeeds
             tf == k.truefeeds
  <2>1. sf \in [Clients -> [Clients -> Nat]] /\ tf \in [Clients -> [Clients -> Nat]]
        /\ sf[c] = NoFeeds /\ tf[c] = NoFeeds
    BY <1>3, <1>4
  <2> HIDE DEF sf, tf
  <2>2. [sf EXCEPT ![c] = NoFeeds] = sf /\ [tf EXCEPT ![c] = NoFeeds] = tf
    BY <2>1
  <2>3. QED
    BY <2>2 DEF sf, tf
<1>6. h = [k EXCEPT !.sortfeeds = k.sortfeeds, !.truefeeds = k.truefeeds]
  BY <1>2, <1>4, <1>5 DEF Graph
<1>7. h = k
  BY <1>4, <1>6 DEF Graph
<1>8. QED
  BY <1>1, <1>7 DEF h

\* Kept says nothing of who is active, dead or failing.
LEMMA SameKept ==
    ASSUME NEW gr, Kept(gr), NEW h, GraphShape(h),
           h.clients = gr.clients, h.connections = gr.connections,
           h.sortfeeds = gr.sortfeeds, h.truefeeds = gr.truefeeds,
           h.fedcount = gr.fedcount, h.feedbackcount = gr.feedbackcount
    PROVE  Kept(h) /\ Pairs(h) = Pairs(gr) /\ Here(h) = Here(gr)
<1>1. In(h) = In(gr) /\ Here(h) = Here(gr) /\ Pairs(h) = Pairs(gr)
  BY DEF In, Here, Pairs
<1>2. ListsOnce(h) /\ DirsRight(h)
  BY <1>1 DEF Kept, Cut, ListsOnce, DirsRight
<1>3. FeedsRight(h)
  BY <1>1 DEF Kept, Cut, FeedsRight
<1>4. FedRight(h)
  BY <1>1 DEF Kept, Cut, FedRight
<1>5. SortsRight(h) /\ FeedbackRight(h)
  BY DEF Kept, Cut, SortsRight, FeedbackRight
<1>6. QED
  BY <1>1, <1>2, <1>3, <1>4, <1>5 DEF Kept, Cut

\* Connected clients are in the list, active and not dead; a driver never fails.
Alive(gr) ==
    /\ \A q \in Pairs(gr) : \A p \in {q[1], q[2]} :
           Owner[p] \in Here(gr) \cap gr.active /\ Owner[p] \notin gr.dead
    /\ gr.dead \cap gr.active = {}
    /\ \A d \in Drivers : gr.error[d] = "none"

NoneOf(gr, c) == \A q \in Pairs(gr) : Owner[q[1]] # c /\ Owner[q[2]] # c

LEMMA ZombifyKeeps ==
    ASSUME NEW gr, Kept(gr), NEW c \in Clients
    PROVE  LET h == jack_zombify_client(gr, c)
           IN  /\ Kept(h) /\ NoneOf(h, c) /\ (Alive(gr) => Alive(h))
               /\ h.error = gr.error /\ Here(h) = Here(gr)
<1> DEFINE a == [gr EXCEPT !.dead = @ \cup {c}]
           b == jack_client_disconnect_ports(a, c)
           h == jack_zombify_client(gr, c)
<1>1. gr \in Graph /\ gr.dead \subseteq Clients /\ gr.active \subseteq Clients
  BY GraphFields DEF Kept, Cut, GraphShape
<1>2. /\ a \in Graph /\ a.clients = gr.clients /\ a.active = gr.active
      /\ a.dead = gr.dead \cup {c} /\ a.error = gr.error /\ a.connections = gr.connections
      /\ a.sortfeeds = gr.sortfeeds /\ a.truefeeds = gr.truefeeds
      /\ a.fedcount = gr.fedcount /\ a.feedbackcount = gr.feedbackcount
  BY <1>1 DEF Graph
<1>3. h = [b EXCEPT !.active = @ \ {c}]
  BY Zenon DEF jack_zombify_client, jack_client_do_deactivate
<1> HIDE DEF a, h
<1>4. Kept(a) /\ Pairs(a) = Pairs(gr) /\ Here(a) = Here(gr)
  BY <1>2, SameKept DEF GraphShape
<1>5. Cleared(a, b) /\ NoneOf(b, c)
  BY <1>4, DisconnectPortsKeep DEF NoneOf
<1> HIDE DEF b
<1>6. b \in Graph /\ b.active \subseteq Clients
  BY <1>5, GraphFields DEF Cleared, Kept, Cut, GraphShape
<1>7. /\ h \in Graph /\ h.clients = b.clients /\ h.active = b.active \ {c}
      /\ h.dead = b.dead /\ h.error = b.error /\ h.connections = b.connections
      /\ h.sortfeeds = b.sortfeeds /\ h.truefeeds = b.truefeeds
      /\ h.fedcount = b.fedcount /\ h.feedbackcount = b.feedbackcount
  BY <1>3, <1>6 DEF Graph
<1>8. Kept(h) /\ Pairs(h) = Pairs(b) /\ Here(h) = Here(b)
  BY <1>5, <1>7, SameKept DEF GraphShape, Cleared
<1>9. /\ NoneOf(h, c) /\ Here(h) = Here(gr) /\ h.error = gr.error
      /\ h.active = gr.active \ {c} /\ h.dead = gr.dead \cup {c}
      /\ Pairs(h) \subseteq Pairs(gr)
  BY <1>2, <1>4, <1>5, <1>7, <1>8 DEF NoneOf, Cleared, Alike
<1>10. Alive(gr) => Alive(h)
  BY <1>9 DEF Alive, NoneOf
<1>11. QED
  BY <1>8, <1>9, <1>10 DEF h

\* A client without connections is taken off the list.
LEMMA GoneKeeps ==
    ASSUME NEW gr, Kept(gr), Alive(gr), NEW c \in Clients, c \notin Drivers, NoneOf(gr, c),
           NEW h, h = [gr EXCEPT !.clients = RemoveFirst(@, c), !.dead = @ \ {c},
                                 !.error[c] = "none"]
    PROVE  Kept(h) /\ Alive(h)
<1> DEFINE l == RemoveFirst(gr.clients, c)
           dd == gr.dead \ {c}
           ee == [gr.error EXCEPT ![c] = "none"]
<1>1. gr \in Graph /\ gr.clients \in Seq(Clients) /\ gr.dead \subseteq Clients
      /\ gr.error \in [Clients -> Errors]
  BY GraphFields DEF Kept, Cut, GraphShape
<1>2. l \in Seq(Clients) /\ Once(l) /\ ToSet(l) = Here(gr) \ {c}
  BY <1>1, RemoveFirstTakes DEF Kept, Cut, ListsOnce, Here
<1>3. ee \in [Clients -> Errors] /\ \A d \in Drivers : ee[d] = gr.error[d]
  BY <1>1, GraphAssumption DEF Errors
<1>4. h = [gr EXCEPT !.clients = l, !.dead = dd, !.error = ee] /\ dd \subseteq Clients
  BY <1>1 DEF Graph
<1> HIDE DEF l, ee
<1>5. /\ h \in Graph /\ h.clients = l /\ h.active = gr.active /\ h.dead = dd
      /\ h.error = ee /\ h.connections = gr.connections
      /\ h.sortfeeds = gr.sortfeeds /\ h.truefeeds = gr.truefeeds
      /\ h.fedcount = gr.fedcount /\ h.feedbackcount = gr.feedbackcount
  <2> HIDE DEF dd
  <2>1. QED
    BY <1>1, <1>2, <1>3, <1>4 DEF Graph
<1>6. In(h) = In(gr) /\ Pairs(h) = Pairs(gr) /\ Here(h) = Here(gr) \ {c}
  BY <1>2, <1>5 DEF In, Pairs, Here
<1>7. \A x \in In(gr) : Src(x) # c /\ Dst(x) # c
  <2> SUFFICES ASSUME NEW x \in In(gr) PROVE Owner[x.source] # c /\ Owner[x.destination] # c
    BY DEF Src, Dst
  <2> DEFINE q == <<x.source, x.destination>>
  <2>1. q \in Pairs(gr) /\ q[1] = x.source /\ q[2] = x.destination
    BY DEF Pairs
  <2> HIDE DEF q
  <2>2. QED
    BY <2>1 DEF NoneOf
<1>8. ListsOnce(h)
  BY <1>2, <1>5, <1>6 DEF Kept, Cut, ListsOnce
<1>9. DirsRight(h)
  BY <1>6, <1>7 DEF Kept, Cut, DirsRight
<1>10. FeedsRight(h)
  BY <1>5, <1>6 DEF Kept, Cut, FeedsRight
<1>11. FedRight(h)
  BY <1>5, <1>6 DEF Kept, Cut, FedRight
<1>12. SortsRight(h) /\ FeedbackRight(h)
  BY <1>5 DEF Kept, Cut, SortsRight, FeedbackRight
<1>13. Alive(h)
  BY <1>3, <1>5, <1>6 DEF Alive, NoneOf
<1>14. QED
  BY <1>5, <1>8, <1>9, <1>10, <1>11, <1>12, <1>13 DEF Kept, Cut, GraphShape

LEMMA RemoveKeeps ==
    ASSUME NEW gr, Kept(gr), Alive(gr), NEW c \in Clients, c \notin Drivers
    PROVE  LET h == jack_remove_client(gr, c)
           IN  Kept(h) /\ Alive(h)
<1> DEFINE z == IF c \in gr.dead THEN gr ELSE jack_zombify_client(gr, c)
           h == jack_remove_client(gr, c)
<1>1. Kept(z) /\ Alive(z) /\ NoneOf(z, c)
  <2>1. CASE c \in gr.dead
    BY <2>1 DEF NoneOf, Alive
  <2>2. CASE c \notin gr.dead
    BY <2>2, ZombifyKeeps
  <2>3. QED
    BY <2>1, <2>2
<1>2. h = [z EXCEPT !.clients = RemoveFirst(@, c), !.dead = @ \ {c}, !.error[c] = "none"]
  BY Zenon DEF jack_remove_client
<1> HIDE DEF z, h
<1>3. Kept(h) /\ Alive(h)
  BY <1>1, <1>2, GoneKeeps
<1>4. QED
  BY <1>3 DEF h

LEMMA RemoveFailedKeeps ==
    ASSUME NEW gr, Kept(gr), Alive(gr), NEW c \in Clients
    PROVE  LET h == RemoveFailed(gr, c)
           IN  Kept(h) /\ Alive(h)
<1>1. gr.error[c] \in {"none", "socket", "late"}
  BY GraphFields DEF Kept, Cut, Errors
<1>2. CASE gr.error[c] = "none"
  <2>1. RemoveFailed(gr, c) = gr
    BY <1>2 DEF RemoveFailed
  <2>2. QED
    BY <2>1
<1>3. CASE gr.error[c] = "socket"
  <2>1. RemoveFailed(gr, c) = jack_remove_client(gr, c)
    BY <1>3 DEF RemoveFailed
  <2>2. c \notin Drivers
    BY <1>3 DEF Alive
  <2>3. QED
    BY <2>1, <2>2, RemoveKeeps
<1>4. CASE gr.error[c] = "late"
  <2>1. CASE NoZombies
    <3>1. RemoveFailed(gr, c) = gr
      BY <1>4, <2>1 DEF RemoveFailed
    <3>2. QED
      BY <3>1
  <2>2. CASE ~NoZombies
    <3> DEFINE z == jack_zombify_client(gr, c)
               h == [z EXCEPT !.error[c] = "none"]
    <3>1. RemoveFailed(gr, c) = h
      BY <1>4, <2>2 DEF RemoveFailed
    <3>2. Kept(z) /\ Alive(z)
      BY ZombifyKeeps
    <3> HIDE DEF z
    <3>3. z \in Graph /\ z.error \in [Clients -> Errors]
      BY <3>2, GraphFields DEF Kept, Cut, GraphShape
    <3> DEFINE ee == [z.error EXCEPT ![c] = "none"]
    <3>4. ee \in [Clients -> Errors] /\ \A d \in Drivers : z.error[d] = "none" => ee[d] = "none"
      BY <3>3, GraphAssumption DEF Errors
    <3>5. h = [z EXCEPT !.error = ee]
      BY <3>3 DEF Graph
    <3> HIDE DEF ee, h
    <3>6. /\ h \in Graph /\ h.clients = z.clients /\ h.active = z.active /\ h.dead = z.dead
          /\ h.error = ee /\ h.connections = z.connections
          /\ h.sortfeeds = z.sortfeeds /\ h.truefeeds = z.truefeeds
          /\ h.fedcount = z.fedcount /\ h.feedbackcount = z.feedbackcount
      BY <3>3, <3>4, <3>5 DEF Graph
    <3>7. Kept(h) /\ Pairs(h) = Pairs(z) /\ Here(h) = Here(z)
      BY <3>2, <3>6, SameKept DEF GraphShape
    <3>8. Alive(h)
      BY <3>2, <3>4, <3>6, <3>7 DEF Alive
    <3>9. QED
      BY <3>1, <3>7, <3>8
  <2>3. QED
    BY <2>1, <2>2
<1>5. QED
  BY <1>1, <1>2, <1>3, <1>4

\* One turn of jack_remove_clients.
LeaveStep(gr, i, s) == IF i = 0 THEN gr ELSE RemoveFailed(s, gr.clients[i])
Leaving(gr, n, f) == f = [i \in 0 .. n |-> LeaveStep(gr, i, f[i - 1])]

\* The loop exists up to every turn.
LEMMA LeavingExists ==
    ASSUME NEW gr, NEW n \in Nat
    PROVE  \E f : Leaving(gr, n, f)
<1> DEFINE bad == {m \in Nat : ~ \E f : Leaving(gr, m, f)}
<1>1. SUFFICES ASSUME bad # {} PROVE FALSE
  OBVIOUS
<1>2. PICK m \in bad : \A k \in bad : m <= k
  <2>1. bad \in SUBSET Nat
    OBVIOUS
  <2> HIDE DEF bad
  <2>2. QED
    BY <1>1, <2>1, LeastExists
<1>3. CASE m = 0
  <2> DEFINE f == [i \in 0 .. 0 |-> LeaveStep(gr, 0, 0)]
  <2>1. Leaving(gr, 0, f)
    BY DEF Leaving, LeaveStep
  <2>2. QED
    BY <1>3, <2>1
<1>4. CASE m # 0
  <2>1. m \in Nat /\ m - 1 \in Nat /\ m - 1 \notin bad
    BY <1>2, <1>4
  <2>2. PICK f : Leaving(gr, m - 1, f)
    BY <2>1
  <2> DEFINE h == [i \in 0 .. m |-> IF i < m THEN f[i] ELSE LeaveStep(gr, m, f[m - 1])]
  <2>3. ASSUME NEW i \in 0 .. m PROVE h[i] = LeaveStep(gr, i, h[i - 1])
    <3>1. CASE i = 0
      <4>1. f[0] = LeaveStep(gr, 0, f[0 - 1])
        BY <2>1, <2>2 DEF Leaving
      <4>2. \A p, q : LeaveStep(gr, 0, p) = LeaveStep(gr, 0, q)
        BY Zenon DEF LeaveStep
      <4>3. h[0] = f[0]
        BY <1>4, <2>1
      <4>4. h[0] = LeaveStep(gr, 0, h[0 - 1])
        <5> HIDE DEF h
        <5>1. QED
          BY <4>1, <4>2, <4>3, Zenon
      <4>5. QED
        BY <3>1, <4>4, Zenon
    <3>2. CASE i # 0 /\ i < m
      <4>1. i \in 0 .. m - 1 /\ i - 1 \in 0 .. m - 1 /\ i - 1 < m
        BY <2>1, <3>2
      <4>2. f[i] = LeaveStep(gr, i, f[i - 1])
        BY <2>2, <4>1 DEF Leaving
      <4>3. QED
        BY <3>2, <4>1, <4>2
    <3>3. CASE i = m
      BY <1>4, <2>1, <3>3
    <3>4. i = 0 \/ (i # 0 /\ i < m) \/ i = m
      BY <2>1
    <3>5. QED
      BY <3>1, <3>2, <3>3, <3>4, Zenon
  <2>4. Leaving(gr, m, h)
    <3>1. h = [i \in 0 .. m |-> h[i]]
      OBVIOUS
    <3> HIDE DEF h
    <3>2. QED
      BY <2>3, <3>1 DEF Leaving
  <2>5. QED
    BY <1>2, <2>4
<1>5. QED
  BY <1>3, <1>4

\* What the operator is: the loop's last turn.
LEMMA LeavingIs ==
    ASSUME NEW gr, Len(gr.clients) \in Nat
    PROVE  \E f : Leaving(gr, Len(gr.clients), f) /\ jack_remove_clients(gr) = jack_sort_graph(f[Len(gr.clients)])
<1> DEFINE gone[i \in 0 .. Len(gr.clients)] ==
             IF i = 0 THEN gr ELSE RemoveFailed(gone[i - 1], gr.clients[i])
<1>1. \E f : f = [i \in 0 .. Len(gr.clients) |->
               IF i = 0 THEN gr ELSE RemoveFailed(f[i - 1], gr.clients[i])]
  <2>1. Len(gr.clients) \in Nat
    OBVIOUS
  <2>2. \E f : Leaving(gr, Len(gr.clients), f)
    BY <2>1, LeavingExists
  <2>3. QED
    BY <2>2 DEF Leaving, LeaveStep
<1>2. gone = [i \in 0 .. Len(gr.clients) |->
               IF i = 0 THEN gr ELSE RemoveFailed(gone[i - 1], gr.clients[i])]
  BY <1>1, Zenon
<1>3. jack_remove_clients(gr) = jack_sort_graph(gone[Len(gr.clients)])
  BY Zenon DEF jack_remove_clients
<1> HIDE DEF gone
<1>4. QED
  BY <1>2, <1>3 DEF Leaving, LeaveStep

\* jack_sort_graph, for a graph with its living clients.
LEMMA SortAlive ==
    ASSUME NEW gr, Kept(gr), Alive(gr)
    PROVE  LET h == jack_sort_graph(gr) IN Kept(h) /\ Alive(h)
<1> DEFINE h == jack_sort_graph(gr)
<1>1. Cut(h) /\ FeedbackRight(h) /\ Alike(gr, h) /\ h.connections = gr.connections
  BY SortKeeps DEF Kept
<1> HIDE DEF h
<1>2. Pairs(h) = Pairs(gr) /\ Alive(h)
  BY <1>1 DEF Pairs, In, Alive, Alike
<1>3. QED
  BY <1>1, <1>2 DEF Kept, h

LEMMA RemoveClientsKeeps ==
    ASSUME NEW gr, Kept(gr), Alive(gr)
    PROVE  LET h == jack_remove_clients(gr) IN Kept(h) /\ Alive(h)
<1> DEFINE l == gr.clients
           n == Len(l)
           Good(k) == Kept(k) /\ Alive(k)
<1>1. n \in Nat /\ \A i \in 1 .. n : l[i] \in Clients
  <2>1. l \in Seq(Clients)
    BY GraphFields DEF Kept, Cut
  <2>2. QED
    BY <2>1
<1>2. PICK f : Leaving(gr, n, f) /\ jack_remove_clients(gr) = jack_sort_graph(f[n])
  BY <1>1, LeavingIs
<1>3. \A i \in 0 .. n : f[i] = LeaveStep(gr, i, f[i - 1])
  BY <1>2 DEF Leaving
<1> DEFINE bad == {i \in 0 .. n : ~Good(f[i])}
<1>4. SUFFICES ASSUME bad # {} PROVE FALSE
  <2>1. n \in 0 .. n
    BY <1>1
  <2>2. CASE bad = {}
    <3>1. Good(f[n])
      BY <2>1, <2>2
    <3>2. QED
      BY <1>2, <3>1, SortAlive
  <2>3. QED
    BY <1>4, <2>2
<1>5. PICK m \in bad : \A k \in bad : m <= k
  <2>1. bad \in SUBSET Nat
    BY <1>1
  <2> HIDE DEF bad
  <2>2. QED
    BY <1>4, <2>1, LeastExists
<1>6. m \in 0 .. n /\ ~Good(f[m])
  OBVIOUS
<1>7. m # 0
  <2>1. f[0] = gr
    BY <1>1, <1>3 DEF LeaveStep
  <2>2. QED
    BY <1>6, <2>1
<1>8. m - 1 \in 0 .. n /\ m \in 1 .. n
  BY <1>1, <1>6, <1>7
<1>9. Good(f[m - 1])
  <2>1. m - 1 \notin bad
    BY <1>1, <1>5, <1>6
  <2>2. QED
    BY <1>8, <2>1
<1>10. f[m] = RemoveFailed(f[m - 1], l[m])
  BY <1>3, <1>6, <1>7, Zenon DEF LeaveStep
<1>11. Good(f[m])
  BY <1>1, <1>8, <1>9, <1>10, RemoveFailedKeeps
<1>12. QED
  BY <1>6, <1>11

------------------------------------------------------------------------------
(* The actions.                                                               *)

GraphIInv ==
    /\ Kept(g) /\ Alive(g)
    /\ pending \in {None} \cup Ports \X Ports
    /\ undefined \in BOOLEAN

LEMMA ClearedAlive ==
    ASSUME NEW gr, NEW h, Alive(gr), Cleared(gr, h)
    PROVE  Kept(h) /\ Alive(h)
BY DEF Alive, Cleared, Alike

LEMMA ConnectAlive ==
    ASSUME NEW gr, Kept(gr), Alive(gr), NEW s \in Ports, NEW d \in Ports, MayConnect(gr, s, d)
    PROVE  LET h == jack_port_do_connect(gr, s, d) IN Kept(h) /\ Alive(h)
<1> DEFINE h == jack_port_do_connect(gr, s, d)
<1>1. /\ Owner[s] \in Here(gr) \cap gr.active /\ Owner[d] \in Here(gr) \cap gr.active
      /\ ~Connected(gr, s, d)
  BY DEF MayConnect, Here
<1>2. Kept(h) /\ Alike(gr, h) /\ Pairs(h) = Pairs(gr) \cup {<<s, d>>}
  BY <1>1, ConnectKeeps
<1> HIDE DEF h
<1>3. Owner[s] \notin gr.dead /\ Owner[d] \notin gr.dead
  BY <1>1 DEF Alive
<1>4. ASSUME NEW q \in Pairs(h), NEW p \in {q[1], q[2]}
      PROVE  Owner[p] \in Here(h) \cap h.active /\ Owner[p] \notin h.dead
  <2>1. CASE q \in Pairs(gr)
    BY <1>2, <1>4, <2>1 DEF Alive, Alike
  <2>2. CASE q = <<s, d>>
    <3>1. p = s \/ p = d
      BY <1>4, <2>2
    <3>2. QED
      BY <1>1, <1>2, <1>3, <3>1 DEF Alike
  <2>3. QED
    BY <1>2, <1>4, <2>1, <2>2
<1>5. Alive(h)
  BY <1>2, <1>4 DEF Alive, Alike
<1>6. QED
  BY <1>2, <1>5 DEF h

\* Nobody feeds anybody in the graph of a server that has just started.
LEMMA InitIsKept ==
    ASSUME Init
    PROVE  Kept(g) /\ Alive(g)
<1> DEFINE none == [c \in Clients |-> NoFeeds]
<1>1. /\ SetToSeq(Drivers) \in Seq(Clients) /\ Once(SetToSeq(Drivers))
      /\ ToSet(SetToSeq(Drivers)) = Drivers /\ Drivers \subseteq Clients
  <2>1. IsFiniteSet(Drivers) /\ Drivers \subseteq Clients
    BY GraphAssumption
  <2>2. SetToSeq(Drivers) \in Seq(Drivers) /\ Once(SetToSeq(Drivers)) /\ ToSet(SetToSeq(Drivers)) = Drivers
    BY <2>1, SetIsList
  <2>3. QED
    BY <2>1, <2>2
<1>2. NoFeeds \in [Clients -> Nat] /\ NoFeeds \in [Clients -> Int]
      /\ \A c \in Clients : NoFeeds[c] = 0
  BY DEF NoFeeds
<1>3. none \in [Clients -> [Clients -> Nat]] /\ \A c, d \in Clients : none[c][d] = 0
  BY <1>2
<1>4. /\ g.clients = SetToSeq(Drivers) /\ g.active = {} /\ g.dead = {}
      /\ g.error = [c \in Clients |-> "none"] /\ g.connections = <<>>
      /\ g.sortfeeds = none /\ g.truefeeds = none
      /\ g.fedcount = NoFeeds /\ g.feedbackcount = 0
  BY DEF Init
<1>5. g \in Graph
  <2>1. [c \in Clients |-> "none"] \in [Clients -> Errors]
    BY DEF Errors
  <2>2. <<>> \in Seq(Connections)
    OBVIOUS
  <2>3. {} \in SUBSET Clients /\ 0 \in Int
    OBVIOUS
  <2>4. g = [clients |-> SetToSeq(Drivers), active |-> {}, dead |-> {},
             error |-> [c \in Clients |-> "none"], connections |-> <<>>,
             sortfeeds |-> none, truefeeds |-> none,
             fedcount |-> NoFeeds, feedbackcount |-> 0]
    BY DEF Init
  <2> HIDE DEF none
  <2>5. QED
    BY <1>1, <1>2, <1>3, <2>1, <2>2, <2>3, <2>4 DEF Graph
<1> HIDE DEF none
<1>6. In(g) = {} /\ Here(g) = Drivers /\ Pairs(g) = {}
  BY <1>1, <1>4 DEF In, Here, Pairs, ToSet
<1>7. ListsOnce(g) /\ DirsRight(g)
  <2>1. Once(g.connections)
    BY <1>4 DEF Once
  <2>2. QED
    BY <1>1, <1>4, <1>6, <2>1 DEF ListsOnce, DirsRight
<1>8. Cardinality({}) = 0
  BY FS_EmptySet
<1>9. FeedsRight(g)
  <2>1. \A c, d : Forwards({}, c, d) = {} /\ Feedbacks({}, d, c) = {} /\ Counted({}, c, d) = {}
    BY DEF Forwards, Feedbacks, Counted
  <2>2. AllBack({}) = {}
    BY DEF AllBack
  <2>3. \A c, d \in Clients :
          /\ Cardinality(Forwards({}, c, d)) + Cardinality(Feedbacks({}, d, c)) = 0
          /\ Cardinality(Counted({}, c, d)) = 0
    BY <1>8, <2>1
  <2>4. QED
    <3>1. \A c, d \in Clients : g.sortfeeds[c][d] = 0 /\ g.truefeeds[c][d] = 0
      BY <1>3, <1>4
    <3>2. QED
      BY <1>4, <1>6, <1>8, <2>2, <2>3, <3>1 DEF FeedsRight
<1>10. FedRight(g)
  <2>1. \A d \in Drivers : g.fedcount[d] = 0
    BY <1>1, <1>2, <1>4
  <2>2. QED
    BY <1>6, <2>1 DEF FedRight
<1>11. SortsRight(g)
  <2> SUFFICES ASSUME NEW c \in Clients PROVE c \notin Fed(none, c)
    BY <1>4 DEF SortsRight, Cyclic
  <2> DEFINE S == {}
  <2>1. S \in SUBSET Clients
    OBVIOUS
  <2>2. \A d \in Clients : none[c][d] > 0 => d \in S
    BY <1>3
  <2>3. \A b \in S, d \in Clients : none[b][d] > 0 => d \in S
    OBVIOUS
  <2> HIDE DEF S
  <2>4. Fed(none, c) \subseteq S
    BY <2>1, <2>2, <2>3, FedWithin
  <2>5. QED
    BY <2>4 DEF S
<1>12. FeedbackRight(g)
  BY <1>4 DEF FeedbackRight
<1>13. Alive(g)
  <2>1. \A d \in Drivers : g.error[d] = "none"
    BY <1>1, <1>4
  <2>2. QED
    BY <1>4, <1>6, <2>1 DEF Alive
<1>14. QED
  BY <1>5, <1>7, <1>9, <1>10, <1>11, <1>12, <1>13 DEF Kept, Cut, GraphShape

\* A new client feeds nobody, whatever malloc left in its fedcount.
LEMMA SetupKeeps ==
    ASSUME GraphIInv, NEW c \in Clients, SetupClient(c)
    PROVE  Kept(g') /\ Alive(g')
<1>1. PICK garbage \in FreshFed :
        g' = [g EXCEPT !.clients = <<c>> \o @, !.fedcount[c] = garbage,
                       !.sortfeeds[c] = NoFeeds, !.truefeeds[c] = NoFeeds]
  BY DEF SetupClient
<1> DEFINE l == <<c>> \o g.clients
           fc == [g.fedcount EXCEPT ![c] = garbage]
           h == g'
<1>2. Kept(g) /\ Alive(g) /\ c \notin Here(g)
  BY DEF GraphIInv, SetupClient, Exists, Here
<1>3. /\ g \in Graph /\ g.clients \in Seq(Clients) /\ g.fedcount \in [Clients -> Int]
      /\ g.sortfeeds \in [Clients -> [Clients -> Nat]] /\ g.truefeeds \in [Clients -> [Clients -> Nat]]
  BY <1>2, GraphFields DEF Kept, Cut, GraphShape
<1>4. l \in Seq(Clients) /\ ToSet(l) = Here(g) \cup {c} /\ Once(l)
  <2> DEFINE k == g.clients
  <2>1. k \in Seq(Clients) /\ Once(k) /\ c \notin ToSet(k) /\ ToSet(k) = Here(g)
    BY <1>2, <1>3 DEF Kept, Cut, ListsOnce, Here
  <2> HIDE DEF k
  <2>2. <<c>> \o k \in Seq(Clients) /\ ToSet(<<c>> \o k) = ToSet(k) \cup {c} /\ Once(<<c>> \o k)
    BY <2>1, HeadedList
  <2>3. QED
    BY <2>1, <2>2 DEF k
<1>5. \A q \in Pairs(g) : Owner[q[1]] # c /\ Owner[q[2]] # c
  BY <1>2 DEF Alive
<1>6. g.sortfeeds[c] = NoFeeds /\ g.truefeeds[c] = NoFeeds /\ Into(In(g), c) = {}
  BY <1>2, <1>5, NotConnectedFeeds
<1>7. fc \in [Clients -> Int] /\ fc[c] = garbage /\ \A d \in Clients : d # c => fc[d] = g.fedcount[d]
  BY <1>3, GraphAssumption
<1>8. [g.sortfeeds EXCEPT ![c] = NoFeeds] = g.sortfeeds
      /\ [g.truefeeds EXCEPT ![c] = NoFeeds] = g.truefeeds
  <2> DEFINE sf == g.sortfeeds
             tf == g.truefeeds
  <2>1. sf \in [Clients -> [Clients -> Nat]] /\ tf \in [Clients -> [Clients -> Nat]]
        /\ sf[c] = NoFeeds /\ tf[c] = NoFeeds
    BY <1>3, <1>6
  <2> HIDE DEF sf, tf
  <2>2. [sf EXCEPT ![c] = NoFeeds] = sf /\ [tf EXCEPT ![c] = NoFeeds] = tf
    BY <2>1
  <2>3. QED
    BY <2>2 DEF sf, tf
<1>9. h = [g EXCEPT !.clients = l, !.fedcount = fc]
  BY <1>1, <1>3, <1>8 DEF Graph
<1> HIDE DEF l, fc, h
<1>10. /\ h \in Graph /\ h.clients = l /\ h.active = g.active /\ h.dead = g.dead
       /\ h.error = g.error /\ h.connections = g.connections
       /\ h.sortfeeds = g.sortfeeds /\ h.truefeeds = g.truefeeds
       /\ h.fedcount = fc /\ h.feedbackcount = g.feedbackcount
  <2>1. g \in Graph /\ l \in Seq(Clients) /\ fc \in [Clients -> Int]
    BY <1>3, <1>4, <1>7
  <2>2. QED
    BY <1>9, <2>1 DEF Graph
<1>11. In(h) = In(g) /\ Pairs(h) = Pairs(g) /\ Here(h) = Here(g) \cup {c}
  BY <1>4, <1>10 DEF In, Pairs, Here
<1>12. ListsOnce(h) /\ DirsRight(h)
  BY <1>2, <1>4, <1>10, <1>11 DEF Kept, Cut, ListsOnce, DirsRight
<1>13. FeedsRight(h)
  BY <1>2, <1>10, <1>11 DEF Kept, Cut, FeedsRight
<1>14. c \notin Drivers /\ Drivers \subseteq Clients
  BY <1>2, GraphAssumption DEF Kept, Cut, ListsOnce
<1>15. FedRight(h)
  <2>1. ASSUME NEW d \in Here(h) \ Drivers PROVE h.fedcount[d] - Cardinality(Into(In(h), d)) \in FreshFed
    <3>1. CASE d = c
      <4>1. Cardinality(Into(In(h), c)) = 0
        BY <1>6, <1>11, FS_EmptySet
      <4>2. garbage \in Int
        BY GraphAssumption
      <4>3. garbage - 0 = garbage
        BY <4>2
      <4>4. QED
        BY <1>7, <1>10, <3>1, <4>1, <4>3
    <3>2. CASE d # c
      <4>1. d \in Here(g) \ Drivers /\ d \in Clients
        BY <1>2, <1>11, <3>2, GraphFields DEF Kept, Cut
      <4>2. QED
        BY <1>2, <1>7, <1>10, <1>11, <3>2, <4>1 DEF Kept, Cut, FedRight
    <3>3. QED
      BY <3>1, <3>2
  <2>2. \A d \in Drivers : h.fedcount[d] = g.fedcount[d]
    BY <1>7, <1>10, <1>14
  <2>3. \A d \in Drivers : h.fedcount[d] <= 0
    BY <1>2, <2>2 DEF Kept, Cut, FedRight
  <2>4. QED
    BY <2>1, <2>3 DEF FedRight
<1>16. SortsRight(h)
  BY <1>2, <1>10 DEF Kept, Cut, SortsRight
<1>17. FeedbackRight(h)
  <2>1. \A d \in Drivers : h.fedcount[d] = g.fedcount[d]
    BY <1>7, <1>10, <1>14
  <2>2. QED
    BY <1>2, <1>10, <2>1 DEF Kept, FeedbackRight
<1>18. Alive(h)
  BY <1>2, <1>10, <1>11 DEF Alive
<1>19. QED
  BY <1>10, <1>12, <1>13, <1>15, <1>16, <1>17, <1>18 DEF Kept, Cut, GraphShape, h

LEMMA ActivateKeeps ==
    ASSUME GraphIInv, NEW c \in Clients, ActivateClient(c)
    PROVE  Kept(g') /\ Alive(g')
<1> DEFINE k == [g EXCEPT !.active = @ \cup {c}]
<1>1. Kept(g) /\ Alive(g) /\ c \notin g.dead
  BY DEF GraphIInv, ActivateClient, Requests
<1>2. g \in Graph /\ g.active \subseteq Clients
  BY <1>1, GraphFields DEF Kept, Cut, GraphShape
<1>3. /\ k \in Graph /\ k.clients = g.clients /\ k.active = g.active \cup {c} /\ k.dead = g.dead
      /\ k.error = g.error /\ k.connections = g.connections
      /\ k.sortfeeds = g.sortfeeds /\ k.truefeeds = g.truefeeds
      /\ k.fedcount = g.fedcount /\ k.feedbackcount = g.feedbackcount
  BY <1>2 DEF Graph
<1>4. g' = jack_sort_graph(k)
  BY DEF ActivateClient
<1> HIDE DEF k
<1>5. Kept(k) /\ Pairs(k) = Pairs(g) /\ Here(k) = Here(g)
  BY <1>1, <1>3, SameKept DEF GraphShape
<1>6. Alive(k)
  BY <1>1, <1>3, <1>5 DEF Alive
<1>7. QED
  BY <1>4, <1>5, <1>6, SortAlive

LEMMA DeactivateKeeps ==
    ASSUME GraphIInv, NEW c \in Clients, DeactivateClient(c)
    PROVE  Kept(g') /\ Alive(g')
<1> DEFINE b == ClearPorts(g, c)
           k == [b EXCEPT !.active = @ \ {c}]
<1>1. Kept(g) /\ Alive(g)
  BY DEF GraphIInv
<1>2. Cleared(g, b) /\ \A q \in Pairs(b) : Owner[q[1]] # c /\ Owner[q[2]] # c
  BY <1>1, ClearPortsKeep
<1>3. g' = jack_sort_graph(k)
  BY Zenon DEF DeactivateClient, jack_client_do_deactivate
<1> HIDE DEF b
<1>4. Kept(b) /\ Alive(b)
  BY <1>1, <1>2, ClearedAlive
<1>5. b \in Graph /\ b.active \subseteq Clients
  BY <1>4, GraphFields DEF Kept, Cut, GraphShape
<1>6. /\ k \in Graph /\ k.clients = b.clients /\ k.active = b.active \ {c} /\ k.dead = b.dead
      /\ k.error = b.error /\ k.connections = b.connections
      /\ k.sortfeeds = b.sortfeeds /\ k.truefeeds = b.truefeeds
      /\ k.fedcount = b.fedcount /\ k.feedbackcount = b.feedbackcount
  BY <1>5 DEF Graph
<1> HIDE DEF k
<1>7. Kept(k) /\ Pairs(k) = Pairs(b) /\ Here(k) = Here(b)
  BY <1>4, <1>6, SameKept DEF GraphShape
<1>8. Alive(k)
  BY <1>2, <1>4, <1>6, <1>7 DEF Alive
<1>9. QED
  BY <1>3, <1>7, <1>8, SortAlive

LEMMA ConnectPortsKeeps ==
    ASSUME GraphIInv, NEW s \in Ports, NEW d \in Ports, ConnectPorts(s, d)
    PROVE  Kept(g') /\ Alive(g')
<1>1. Kept(g) /\ Alive(g) /\ MayConnect(g, s, d) /\ g' = jack_port_do_connect(g, s, d)
  BY DEF GraphIInv, ConnectPorts
<1>2. QED
  BY <1>1, ConnectAlive

LEMMA FinishConnectKeeps ==
    ASSUME GraphIInv, FinishConnect
    PROVE  Kept(g') /\ Alive(g')
<1> DEFINE s == pending[1]
           d == pending[2]
<1>1. s \in Ports /\ d \in Ports
  BY DEF GraphIInv, FinishConnect
<1>2. Kept(g) /\ Alive(g) /\ MayConnect(g, s, d) /\ g' = jack_port_do_connect(g, s, d)
  BY DEF GraphIInv, FinishConnect
<1> HIDE DEF s, d
<1>3. QED
  BY <1>1, <1>2, ConnectAlive

LEMMA DisconnectPortsKeeps ==
    ASSUME GraphIInv, NEW s \in Ports, NEW d \in Ports, DisconnectPorts(s, d)
    PROVE  Kept(g') /\ Alive(g')
<1>1. Kept(g) /\ Alive(g) /\ g' = jack_port_disconnect_internal(g, s, d)
  BY DEF GraphIInv, DisconnectPorts
<1>2. Cleared(g, g')
  BY <1>1, DisconnectKeeps DEF Cleared
<1>3. QED
  BY <1>1, <1>2, ClearedAlive

LEMMA DisconnectNothingKeeps ==
    ASSUME GraphIInv, DisconnectNothing
    PROVE  Kept(g') /\ Alive(g')
<1>1. /\ Kept(g) /\ Alive(g)
      /\ g' = jack_sort_graph(IF g.feedbackcount # 0 THEN jack_check_acyclic(g) ELSE g)
  BY DEF GraphIInv, DisconnectNothing
<1>2. Cut(g) /\ (g.feedbackcount = 0 => FeedbackRight(g))
  BY <1>1 DEF Kept
<1>3. Cleared(g, g')
  BY <1>1, <1>2, CheckedAndSorted DEF Cleared
<1>4. QED
  BY <1>1, <1>3, ClearedAlive

LEMMA DisconnectPortKeeps ==
    ASSUME GraphIInv, NEW p \in Ports, DisconnectPort(p)
    PROVE  Kept(g') /\ Alive(g')
<1> DEFINE k == jack_port_clear_connections(g, p)
<1>1. Kept(g) /\ Alive(g) /\ g' = jack_sort_graph(k)
  BY DEF GraphIInv, DisconnectPort
<1>2. Cleared(g, k)
  BY <1>1, ClearKeeps
<1> HIDE DEF k
<1>3. Kept(k) /\ Alive(k)
  BY <1>1, <1>2, ClearedAlive
<1>4. QED
  BY <1>1, <1>3, SortAlive

\* Failures are noted, of clients that are not drivers.
LEMMA FailureKeeps ==
    ASSUME GraphIInv, NEW c \in Clients, ClientIsLate(c) \/ ClientIsLost(c)
    PROVE  Kept(g') /\ Alive(g')
<1>1. PICK e \in {"late", "socket"} : g' = [g EXCEPT !.error[c] = e]
  BY DEF ClientIsLate, ClientIsLost
<1> DEFINE ee == [g.error EXCEPT ![c] = e]
<1>2. Kept(g) /\ Alive(g) /\ c \notin Drivers
  BY DEF GraphIInv, ClientIsLate, ClientIsLost
<1>3. g \in Graph /\ g.error \in [Clients -> Errors]
  BY <1>2, GraphFields DEF Kept, Cut, GraphShape
<1>4. ee \in [Clients -> Errors] /\ \A d \in Drivers : ee[d] = g.error[d]
  BY <1>2, <1>3, GraphAssumption DEF Errors
<1>5. g' = [g EXCEPT !.error = ee]
  BY <1>1, <1>3 DEF Graph
<1> DEFINE h == g'
<1> HIDE DEF ee, h
<1>6. /\ h \in Graph /\ h.clients = g.clients /\ h.active = g.active /\ h.dead = g.dead
      /\ h.error = ee /\ h.connections = g.connections
      /\ h.sortfeeds = g.sortfeeds /\ h.truefeeds = g.truefeeds
      /\ h.fedcount = g.fedcount /\ h.feedbackcount = g.feedbackcount
  BY <1>3, <1>4, <1>5 DEF Graph, h
<1>7. Kept(h) /\ Pairs(h) = Pairs(g) /\ Here(h) = Here(g)
  BY <1>2, <1>6, SameKept DEF GraphShape
<1>8. Alive(h)
  BY <1>2, <1>4, <1>6, <1>7 DEF Alive
<1>9. QED
  BY <1>7, <1>8 DEF h

LEMMA ServerRemovesKeeps ==
    ASSUME GraphIInv, ServerRemovesClients
    PROVE  Kept(g') /\ Alive(g')
<1>1. Kept(g) /\ Alive(g) /\ g' = jack_remove_clients(g)
  BY DEF GraphIInv, ServerRemovesClients
<1>2. QED
  BY <1>1, RemoveClientsKeeps

LEMMA UnloadKeeps ==
    ASSUME GraphIInv, NEW c \in Clients, UnloadClient(c)
    PROVE  Kept(g') /\ Alive(g')
<1>1. Kept(g) /\ Alive(g) /\ g' = jack_remove_client(g, c) /\ c \notin Drivers
  BY GraphAssumption DEF GraphIInv, UnloadClient
<1>2. QED
  BY <1>1, RemoveKeeps

LEMMA GraphStep ==
    ASSUME GraphIInv, [Next]_vars
    PROVE  GraphIInv'
<1>1. pending' \in {None} \cup Ports \X Ports /\ undefined' \in BOOLEAN
  <2>1. pending \in {None} \cup Ports \X Ports /\ undefined \in BOOLEAN
    BY DEF GraphIInv
  <2>2. ASSUME NEW c \in Clients,
               \/ SetupClient(c) \/ ActivateClient(c) \/ DeactivateClient(c)
               \/ ClientIsLate(c) \/ ClientIsLost(c) \/ UnloadClient(c)
        PROVE  pending' = pending /\ undefined' = undefined
    BY Zenon, <2>2 DEF SetupClient, ActivateClient, DeactivateClient, ClientIsLate, ClientIsLost,
                       UnloadClient
  <2>3. ASSUME NEW s \in Ports, NEW d \in Ports,
               ConnectPorts(s, d) \/ CheckConnect(s, d) \/ DisconnectPorts(s, d)
        PROVE  pending' \in {pending, <<s, d>>} /\ undefined' = undefined
    BY Zenon, <2>3 DEF ConnectPorts, CheckConnect, DisconnectPorts
  <2>4. CASE FinishConnect \/ ConnectStale
    BY Zenon, <2>1, <2>4 DEF FinishConnect, ConnectStale
  <2>5. CASE DisconnectNothing \/ ServerRemovesClients \/ UNCHANGED vars
    BY Zenon, <2>1, <2>5 DEF DisconnectNothing, ServerRemovesClients, vars
  <2>6. ASSUME NEW p \in Ports, DisconnectPort(p)
        PROVE  pending' = pending /\ undefined' = undefined
    BY Zenon, <2>6 DEF DisconnectPort
  <2>7. QED
    BY <2>1, <2>2, <2>3, <2>4, <2>5, <2>6 DEF Next
<1>2. Kept(g') /\ Alive(g')
  <2>1. ASSUME NEW c \in Clients,
               \/ SetupClient(c) \/ ActivateClient(c) \/ DeactivateClient(c)
               \/ ClientIsLate(c) \/ ClientIsLost(c) \/ UnloadClient(c)
        PROVE  Kept(g') /\ Alive(g')
    BY <2>1, SetupKeeps, ActivateKeeps, DeactivateKeeps, FailureKeeps, UnloadKeeps
  <2>2. ASSUME NEW s \in Ports, NEW d \in Ports,
               ConnectPorts(s, d) \/ CheckConnect(s, d) \/ DisconnectPorts(s, d)
        PROVE  Kept(g') /\ Alive(g')
    <3>1. CASE CheckConnect(s, d)
      BY <3>1 DEF CheckConnect, GraphIInv
    <3>2. QED
      BY <2>2, <3>1, ConnectPortsKeeps, DisconnectPortsKeeps
  <2>3. CASE FinishConnect \/ DisconnectNothing \/ ServerRemovesClients
    BY <2>3, FinishConnectKeeps, DisconnectNothingKeeps, ServerRemovesKeeps
  <2>4. CASE ConnectStale
    BY <2>4 DEF ConnectStale, GraphIInv
  <2>5. ASSUME NEW p \in Ports, DisconnectPort(p)
        PROVE  Kept(g') /\ Alive(g')
    BY <2>5, DisconnectPortKeeps
  <2>6. CASE UNCHANGED vars
    BY <2>6 DEF vars, GraphIInv
  <2>7. QED
    BY <2>1, <2>2, <2>3, <2>4, <2>5, <2>6 DEF Next
<1>3. Kept(g)' /\ Alive(g)'
  BY <1>2
<1>4. QED
  BY <1>1, <1>3 DEF GraphIInv

LEMMA GraphAlways == Spec => []GraphIInv
<1>1. Init => GraphIInv
  BY InitIsKept DEF Init, GraphIInv
<1>2. GraphIInv /\ [Next]_vars => GraphIInv'
  BY GraphStep
<1>3. QED
  BY <1>1, <1>2, PTL DEF Spec

------------------------------------------------------------------------------
(* What the runs check.                                                       *)

LEMMA GraphTypes == ASSUME GraphIInv PROVE GraphTypeOK
BY DEF GraphIInv, Kept, Cut, GraphShape, GraphTypeOK

LEMMA GraphFeeds == ASSUME GraphIInv PROVE FeedsMatchConnections
<1> DEFINE X == In(g)
<1>1. \A c, d : {x \in X : x.dir = 1 /\ ~ToDriver(x) /\ Owner[x.source] = c
                           /\ Owner[x.destination] = d} = Forwards(X, c, d)
  BY DEF Forwards, Counted, Src, Dst, ToDriver
<1>2. \A x \in X : x.dir = -1 => Dst(x) \notin Drivers
  BY DEF GraphIInv, Kept, Cut, DirsRight
<1>3. \A c, d : {x \in X : x.dir = -1 /\ Owner[x.source] = d /\ Owner[x.destination] = c}
                = Feedbacks(X, d, c)
  BY <1>2 DEF Feedbacks, Counted, Src, Dst
<1>4. \A c, d : {x \in X : x.dir # 0 /\ ~ToDriver(x) /\ Owner[x.source] = c
                           /\ Owner[x.destination] = d} = Counted(X, c, d)
  BY DEF Counted, Src, Dst, ToDriver
<1>5. {x \in X : x.dir = -1} = AllBack(X)
  BY DEF AllBack
<1>6. FeedsRight(g) /\ X = ToSet(g.connections)
  BY DEF GraphIInv, Kept, Cut, In
<1> HIDE DEF X
<1>7. /\ \A c, d \in Clients :
           /\ g.sortfeeds[c][d]
              = Cardinality({x \in X : x.dir = 1 /\ ~ToDriver(x) /\ Owner[x.source] = c
                                       /\ Owner[x.destination] = d})
                + Cardinality({x \in X : x.dir = -1 /\ Owner[x.source] = d
                                         /\ Owner[x.destination] = c})
           /\ g.truefeeds[c][d]
              = Cardinality({x \in X : x.dir # 0 /\ ~ToDriver(x) /\ Owner[x.source] = c
                                       /\ Owner[x.destination] = d})
      /\ g.feedbackcount = Cardinality({x \in X : x.dir = -1})
  <2>1. ASSUME NEW c \in Clients, NEW d \in Clients
        PROVE  /\ g.sortfeeds[c][d]
                  = Cardinality({x \in X : x.dir = 1 /\ ~ToDriver(x) /\ Owner[x.source] = c
                                           /\ Owner[x.destination] = d})
                    + Cardinality({x \in X : x.dir = -1 /\ Owner[x.source] = d
                                             /\ Owner[x.destination] = c})
               /\ g.truefeeds[c][d]
                  = Cardinality({x \in X : x.dir # 0 /\ ~ToDriver(x) /\ Owner[x.source] = c
                                           /\ Owner[x.destination] = d})
    <3>1. /\ g.sortfeeds[c][d] = Cardinality(Forwards(X, c, d)) + Cardinality(Feedbacks(X, d, c))
          /\ g.truefeeds[c][d] = Cardinality(Counted(X, c, d))
      BY <1>6 DEF FeedsRight, X
    <3>2. QED
      BY Zenon, <1>1, <1>3, <1>4, <3>1
  <2>2. g.feedbackcount = Cardinality({x \in X : x.dir = -1})
    BY <1>5, <1>6 DEF FeedsRight, X
  <2>3. QED
    BY Zenon, <2>1, <2>2
<1>8. QED
  BY <1>6, <1>7 DEF FeedsMatchConnections, Count

LEMMA GraphOnce == ASSUME GraphIInv PROVE ConnectedOnce
<1> SUFFICES ASSUME NEW i \in DOMAIN g.connections, NEW j \in DOMAIN g.connections,
                    g.connections[i].source = g.connections[j].source,
                    g.connections[i].destination = g.connections[j].destination
             PROVE  i = j
  BY DEF ConnectedOnce
<1>1. ListsOnce(g)
  BY DEF GraphIInv, Kept, Cut
<1>2. g.connections[i] \in In(g) /\ g.connections[j] \in In(g)
  BY DEF In, ToSet
<1>3. g.connections[i] = g.connections[j]
  BY <1>1, <1>2 DEF ListsOnce
<1>4. QED
  BY <1>1, <1>3 DEF ListsOnce, Once

LEMMA GraphActive == ASSUME GraphIInv PROVE ConnectedAreActive
<1> SUFFICES ASSUME NEW x \in In(g), NEW p \in {x.source, x.destination}
             PROVE  Owner[p] \in Here(g) \cap g.active /\ Owner[p] \notin g.dead
  BY DEF ConnectedAreActive, In, Here
<1> DEFINE q == <<x.source, x.destination>>
<1>1. q \in Pairs(g) /\ q[1] = x.source /\ q[2] = x.destination
  BY DEF Pairs
<1>2. Alive(g)
  BY DEF GraphIInv
<1> HIDE DEF q
<1>3. QED
  BY <1>1, <1>2 DEF Alive

LEMMA GraphSorts == ASSUME FreshFed \subseteq Nat, GraphIInv PROVE SortfeedsAcyclic
BY DEF GraphIInv, Kept, Cut, SortsRight, SortfeedsAcyclic

\* Whatever malloc leaves in the fedcount of a new client: the feeds lists are
\* those of the connections, which are made once and between active clients.
THEOREM GraphIsKept ==
    Spec => [](GraphTypeOK /\ FeedsMatchConnections /\ ConnectedOnce /\ ConnectedAreActive)
<1> DEFINE Inv == GraphTypeOK /\ FeedsMatchConnections /\ ConnectedOnce /\ ConnectedAreActive
<1>1. GraphIInv => Inv
  BY GraphTypes, GraphFeeds, GraphOnce, GraphActive
<1>2. Spec => []GraphIInv
  BY GraphAlways
<1>3. QED
  BY <1>1, <1>2, PTL

\* Unless what it leaves is negative, the sortfeeds relation is acyclic: the
\* rules of jack_port_do_connect do what engine.c says of them.
THEOREM SortfeedsStayAcyclic ==
    ASSUME FreshFed \subseteq Nat
    PROVE  Spec => []SortfeedsAcyclic
<1>1. GraphIInv => SortfeedsAcyclic
  BY GraphSorts
<1>2. Spec => []GraphIInv
  BY GraphAlways
<1>3. QED
  BY <1>1, <1>2, PTL

\* If what it leaves is 0, as in the run, all of GraphInv holds: feedback is
\* counted only where there is a cycle, or a driver's connection was broken.
THEOREM GraphIsRight ==
    ASSUME FreshFed = {0}
    PROVE  Spec => []GraphInv
<1>1. GraphIInv => GraphInv
  <2> SUFFICES ASSUME GraphIInv PROVE GraphInv
    OBVIOUS
  <2>1. FeedbackOnlyInCycles
    BY DEF GraphIInv, Kept, FeedbackRight, FeedbackOnlyInCycles
  <2>2. SortfeedsAcyclic
    BY GraphSorts
  <2>3. QED
    BY <2>1, <2>2, GraphTypes, GraphFeeds, GraphOnce, GraphActive DEF GraphInv
<1>2. Spec => []GraphIInv
  BY GraphAlways
<1>3. QED
  BY <1>1, <1>2, PTL
================================================================================
