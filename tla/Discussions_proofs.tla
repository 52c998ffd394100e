-------------------------- MODULE Discussions_proofs ---------------------------
(*****************************************************************************)
(* Proofs about a story's discussion: that what is stored of it is the       *)
(* thread, for any threads, batches and numbers of collections; that the     *)
(* answers about it are supported, for any answers, limits and numbers of    *)
(* attempts; and that what the LLM reads of it, and of the article, is       *)
(* chosen fairly, for any discussions, articles, sizes and budgets.          *)
(*                                                                           *)
(* What a recursive function computes is an induction over its data, here    *)
(* by the least place at which it would fail: a filter is described by the   *)
(* places its entries come from, a choice by what had been taken up to each  *)
(* place.                                                                    *)
(*****************************************************************************)
EXTENDS CommentThread, AnalysisAnswers, ContextSelection, FiniteSetTheorems,
        WellFoundedInduction, TLAPS

(* Sequences.                                                              *)

LEMMA LeastOfNaturals ==
    ASSUME NEW B, B \subseteq Nat, B # {}
    PROVE  \E m \in B : \A n \in B : m <= n
<1>1. PICK m \in B : \A n \in B : ~ (<<n, m>> \in OpToRel(<, Nat))
  BY NatLessThanWellFounded, WFMin
<1>2. \A n \in B : ~ (n < m)
  BY <1>1 DEF OpToRel
<1> QED
  BY <1>2

\* A set of numbers with 0 and the successor of each below a bound has all
\* up to the bound.
LEMMA UpToBound ==
    ASSUME NEW N \in Nat, NEW P, 0 \in P,
           \A n \in 1 .. N : n - 1 \in P => n \in P
    PROVE  0 .. N \subseteq P
<1> DEFINE B == (0 .. N) \ P
<1>1. SUFFICES ASSUME B # {} PROVE FALSE
  OBVIOUS
<1>2. B \subseteq Nat
  OBVIOUS
<1>3. PICK m \in B : \A n \in B : m <= n
  BY <1>1, <1>2, LeastOfNaturals
<1>4. m \in 1 .. N /\ m - 1 \in 0 .. N /\ m - 1 < m
  BY <1>3
<1>5. m - 1 \notin B
  BY <1>3, <1>4
<1> QED
  BY <1>4, <1>5

LEMMA SequenceFacts ==
    ASSUME NEW T, NEW e \in Seq(T)
    PROVE  /\ Len(e) \in Nat /\ DOMAIN e = 1 .. Len(e)
           /\ \A i \in 1 .. Len(e) : e[i] \in T
           /\ e # <<>> => Len(e) >= 1
OBVIOUS

IsStep(step, N, V) == step \in [(1 .. N) \X V -> V]

Iterates(f, N, V, start, step) ==
    /\ f \in [0 .. N -> V]
    /\ f[0] = start /\ \A n \in 1 .. N : f[n] = step[<<n, f[n - 1]>>]

\* A function may be defined from each value to the next.
LEMMA StepsAreThere ==
    ASSUME NEW V, NEW start \in V, NEW N \in Nat, NEW step, IsStep(step, N, V)
    PROVE  \E f : Iterates(f, N, V, start, step)
<1> USE DEF IsStep, Iterates
<1> DEFINE IsUpTo(f, m) ==
              /\ f \in [0 .. m -> V]
              /\ f[0] = start /\ \A n \in 1 .. m : f[n] = step[<<n, f[n - 1]>>]
           P == {m \in 0 .. N : \E f : IsUpTo(f, m)}
<1>1. 0 \in P
  <2> DEFINE g == [n \in 0 .. 0 |-> start]
  <2>1. g \in [0 .. 0 -> V] /\ g[0] = start
    OBVIOUS
  <2>2. \A n : n \notin 1 .. 0
    OBVIOUS
  <2> HIDE DEF g
  <2>3. IsUpTo(g, 0)
    BY <2>1, <2>2
  <2> HIDE DEF IsUpTo
  <2> QED
    BY <2>3
<1>2. ASSUME NEW m \in 1 .. N, m - 1 \in P
      PROVE  m \in P
  <2>1. PICK f : IsUpTo(f, m - 1)
    BY <1>2
  <2> DEFINE g == [n \in 0 .. m |-> IF n = m THEN step[<<m, f[m - 1]>>] ELSE f[n]]
  <2>2. f \in [0 .. m - 1 -> V] /\ m - 1 \in 0 .. m - 1 /\ 0 \in 0 .. m - 1
    BY <2>1
  <2>3. step[<<m, f[m - 1]>>] \in V
    BY <2>2
  <2>4. g \in [0 .. m -> V]
    <3>1. \A n \in 0 .. m : n # m => n \in 0 .. m - 1
      OBVIOUS
    <3> QED
      BY <2>2, <2>3, <3>1
  <2>5. /\ g[m] = step[<<m, f[m - 1]>>]
        /\ \A n \in 0 .. m - 1 : g[n] = f[n]
    OBVIOUS
  <2> HIDE DEF g
  <2>6. g[0] = start
    BY <2>1, <2>2, <2>5
  <2>7. ASSUME NEW n \in 1 .. m
        PROVE  g[n] = step[<<n, g[n - 1]>>]
    <3>1. n - 1 \in 0 .. m - 1
      OBVIOUS
    <3>2. g[n - 1] = f[n - 1]
      BY <2>5, <3>1
    <3>3. CASE n = m
      BY <2>5, <3>2, <3>3
    <3>4. CASE n # m
      <4>1. n \in 1 .. m - 1 /\ n \in 0 .. m - 1
        BY <3>4
      <4> QED
        BY <2>1, <2>5, <3>2, <4>1
    <3> QED
      BY <3>3, <3>4
  <2>8. IsUpTo(g, m)
    BY <2>4, <2>6, <2>7
  <2> HIDE DEF IsUpTo
  <2> QED
    BY <2>8
<1>3. N \in P
  <2> HIDE DEF P
  <2>1. 0 .. N \subseteq P
    BY <1>1, <1>2, UpToBound
  <2> QED
    BY <2>1
<1> QED
  BY <1>3

LEMMA UpToIsThere ==
    ASSUME NEW T, NEW seq \in Seq(T), NEW S
    PROVE  \E f : f = [n \in 0 .. Len(seq) |->
                          IF n = 0 THEN <<>>
                          ELSE IF n \in S THEN Append(f[n - 1], seq[n]) ELSE f[n - 1]]
<1> DEFINE V == Seq(T)
           next(v, n) == IF n \in S THEN Append(v, seq[n]) ELSE v
           step == [p \in (1 .. Len(seq)) \X V |-> next(p[2], p[1])]
<1>1. Len(seq) \in Nat /\ <<>> \in V /\ \A n \in 1 .. Len(seq) : seq[n] \in T
  BY SequenceFacts
<1>2. \A n \in 1 .. Len(seq) : \A v \in V : next(v, n) \in V
  BY <1>1
<1>3. \A n \in 1 .. Len(seq) : \A v \in V : step[<<n, v>>] = next(v, n)
  <2> HIDE DEF V, next
  <2> QED
    OBVIOUS
<1>4. IsStep(step, Len(seq), V)
  <2>1. \A p \in (1 .. Len(seq)) \X V : next(p[2], p[1]) \in V
    <3> HIDE DEF V, next
    <3> QED
      BY <1>2
  <2> HIDE DEF V, next
  <2> QED
    BY <2>1 DEF IsStep
<1> HIDE DEF V, step, next
<1>5. PICK f : Iterates(f, Len(seq), V, <<>>, step)
  BY <1>1, <1>4, StepsAreThere
<1>6. \A n \in 0 .. Len(seq) : f[n] = IF n = 0 THEN <<>> ELSE next(f[n - 1], n)
  <2>1. \A n \in 0 .. Len(seq) : n # 0 => n \in 1 .. Len(seq) /\ n - 1 \in 0 .. Len(seq)
    BY <1>1
  <2> QED
    BY <1>3, <1>5, <2>1 DEF Iterates
<1>7. f = [n \in 0 .. Len(seq) |-> f[n]]
  BY <1>5 DEF Iterates
<1>8. f = [n \in 0 .. Len(seq) |-> IF n = 0 THEN <<>> ELSE next(f[n - 1], n)]
  BY <1>6, <1>7
<1> QED
  BY <1>8 DEF next

\* EntriesAt, by the places its entries come from.
LEMMA EntriesAtFacts ==
    ASSUME NEW T, NEW seq \in Seq(T), NEW S
    PROVE  /\ EntriesAt(seq, S) \in Seq(T)
           /\ Len(EntriesAt(seq, S)) <= Len(seq)
           /\ \E place \in [DOMAIN EntriesAt(seq, S) -> DOMAIN seq \cap S] :
                 /\ \A k \in DOMAIN EntriesAt(seq, S) :
                       EntriesAt(seq, S)[k] = seq[place[k]]
                 /\ \A k, l \in DOMAIN EntriesAt(seq, S) :
                       k < l => place[k] < place[l]
                 /\ \A i \in DOMAIN seq \cap S :
                       \E k \in DOMAIN EntriesAt(seq, S) : place[k] = i
<1> DEFINE IsF(f) == f = [n \in 0 .. Len(seq) |->
                          IF n = 0 THEN <<>>
                          ELSE IF n \in S THEN Append(f[n - 1], seq[n]) ELSE f[n - 1]]
           F == CHOOSE f : IsF(f)
<1>1. IsF(F)
  <2>1. \E f : IsF(f)
    BY UpToIsThere
  <2> HIDE DEF IsF
  <2> QED
    BY <2>1
<1>2. EntriesAt(seq, S) = F[Len(seq)]
  BY DEF EntriesAt
<1>3. /\ F[0] = <<>>
      /\ \A n \in 1 .. Len(seq) :
            F[n] = IF n \in S THEN Append(F[n - 1], seq[n]) ELSE F[n - 1]
  <2>1. Len(seq) \in Nat
    OBVIOUS
  <2> HIDE DEF F
  <2>2. \A n \in 0 .. Len(seq) :
           F[n] = IF n = 0 THEN <<>>
                  ELSE IF n \in S THEN Append(F[n - 1], seq[n]) ELSE F[n - 1]
    BY <1>1
  <2>3. 0 \in 0 .. Len(seq) /\ \A n \in 1 .. Len(seq) : n \in 0 .. Len(seq) /\ n # 0
    BY <2>1
  <2> QED
    BY <2>2, <2>3
<1> HIDE DEF F
<1> DEFINE Holds(e, n) ==
              /\ e \in Seq(T) /\ Len(e) <= n
              /\ \E place \in [1 .. Len(e) -> (1 .. n) \cap S] :
                    /\ \A k \in 1 .. Len(e) : e[k] = seq[place[k]]
                    /\ \A k, l \in 1 .. Len(e) : k < l => place[k] < place[l]
                    /\ \A i \in (1 .. n) \cap S : \E k \in 1 .. Len(e) : place[k] = i
           P == {n \in 0 .. Len(seq) : Holds(F[n], n)}
<1>4. Len(seq) \in Nat
  OBVIOUS
<1>5. ASSUME NEW e, e = <<>>
      PROVE  Holds(e, 0)
  <2> DEFINE p == [k \in {} |-> k]
  <2>1. e \in Seq(T) /\ Len(e) = 0 /\ 1 .. 0 = {}
    BY <1>5
  <2>2. p \in [1 .. Len(e) -> (1 .. 0) \cap S]
    BY <2>1
  <2>3. \A k : k \notin 1 .. Len(e) /\ k \notin 1 .. 0
    BY <2>1
  <2> HIDE DEF p
  <2>4. Len(e) <= 0
    BY <2>1
  <2> QED
    BY <2>1, <2>2, <2>3, <2>4
<1>6. ASSUME NEW n \in 1 .. Len(seq), NEW e, Holds(e, n - 1), n \notin S
      PROVE  Holds(e, n)
  <2>1. (1 .. n) \cap S = (1 .. n - 1) \cap S
    BY <1>6
  <2>2. Len(e) <= n
    BY <1>6
  <2> QED
    BY <1>6, <2>1, <2>2
<1>7. ASSUME NEW n \in 1 .. Len(seq), NEW e, Holds(e, n - 1), n \in S
      PROVE  Holds(Append(e, seq[n]), n)
  <2>1. PICK place \in [1 .. Len(e) -> (1 .. n - 1) \cap S] :
           /\ \A k \in 1 .. Len(e) : e[k] = seq[place[k]]
           /\ \A k, l \in 1 .. Len(e) : k < l => place[k] < place[l]
           /\ \A i \in (1 .. n - 1) \cap S : \E k \in 1 .. Len(e) : place[k] = i
    BY <1>7
  <2> DEFINE new == Append(e, seq[n])
             m   == Len(e)
             p   == [k \in 1 .. m + 1 |-> IF k = m + 1 THEN n ELSE place[k]]
  <2>2. m \in Nat /\ seq[n] \in T /\ e \in Seq(T) /\ m <= n - 1
    BY <1>7
  <2>3. /\ new \in Seq(T) /\ Len(new) = m + 1 /\ new[m + 1] = seq[n]
        /\ \A k \in 1 .. m : new[k] = e[k]
    BY <2>2
  <2>4. \A k \in 1 .. m : k \in 1 .. m + 1 /\ k # m + 1
    BY <2>2
  <2>5. /\ p[m + 1] = n
        /\ \A k \in 1 .. m : p[k] = place[k] /\ p[k] \in (1 .. n - 1) \cap S
    BY <2>2, <2>4
  <2>6. \A k \in 1 .. m + 1 : k \in 1 .. m \/ k = m + 1
    BY <2>2
  <2>7. p \in [1 .. m + 1 -> (1 .. n) \cap S]
    <3>1. \A k \in 1 .. m + 1 : p[k] \in (1 .. n) \cap S
      <4> HIDE DEF p
      <4>1. (1 .. n - 1) \cap S \subseteq (1 .. n) \cap S /\ n \in (1 .. n) \cap S
        BY <1>7
      <4> QED
        BY <2>5, <2>6, <4>1
    <3> QED
      BY <3>1
  <2> HIDE DEF p, new, m
  <2>8. \A k \in 1 .. m + 1 : new[k] = seq[p[k]]
    BY <2>1, <2>3, <2>5, <2>6 DEF m
  <2>9. ASSUME NEW k \in 1 .. m + 1, NEW l \in 1 .. m + 1, k < l
        PROVE  p[k] < p[l]
    <3>1. k \in 1 .. m
      BY <2>2, <2>9
    <3>2. CASE l \in 1 .. m
      BY <2>1, <2>5, <2>9, <3>1, <3>2 DEF m
    <3>3. CASE l = m + 1
      <4>1. p[k] \in 1 .. n - 1 /\ p[l] = n
        BY <2>5, <3>1, <3>3
      <4> QED
        BY <4>1
    <3> QED
      BY <2>6, <3>2, <3>3
  <2>10. ASSUME NEW i \in (1 .. n) \cap S
         PROVE  \E k \in 1 .. m + 1 : p[k] = i
    <3>1. CASE i = n
      <4>1. m + 1 \in 1 .. m + 1
        BY <2>2
      <4> QED
        BY <2>5, <3>1, <4>1
    <3>2. CASE i # n
      <4>1. i \in (1 .. n - 1) \cap S
        BY <3>2
      <4>2. PICK k \in 1 .. m : place[k] = i
        BY <2>1, <4>1 DEF m
      <4> QED
        BY <2>4, <2>5, <4>2
    <3> QED
      BY <3>1, <3>2
  <2>11. m + 1 <= n
    BY <2>2
  <2>12. Len(new) = m + 1 /\ new \in Seq(T)
    BY <2>3
  <2>13. /\ p \in [1 .. Len(new) -> (1 .. n) \cap S]
         /\ \A k \in 1 .. Len(new) : new[k] = seq[p[k]]
         /\ \A k, l \in 1 .. Len(new) : k < l => p[k] < p[l]
         /\ \A i \in (1 .. n) \cap S : \E k \in 1 .. Len(new) : p[k] = i
    BY <2>7, <2>8, <2>9, <2>10, <2>12
  <2>14. Len(new) <= n
    BY <2>11, <2>12
  <2>15. Holds(new, n)
    BY <2>12, <2>13, <2>14
  <2> HIDE DEF Holds
  <2> QED
    BY <2>15 DEF new
<1> HIDE DEF Holds
<1>8. 0 .. Len(seq) \subseteq P
  <2>1. 0 \in P
    BY <1>3, <1>4, <1>5
  <2>2. \A n \in 1 .. Len(seq) : n - 1 \in P => n \in P
    BY <1>3, <1>6, <1>7
  <2> HIDE DEF P
  <2> QED
    BY <1>4, <2>1, <2>2, UpToBound
<1>9. Holds(F[Len(seq)], Len(seq))
  BY <1>4, <1>8
<1> DEFINE e == EntriesAt(seq, S)
<1>10. Holds(e, Len(seq))
  BY <1>2, <1>9
<1> HIDE DEF e
<1>11. DOMAIN e = 1 .. Len(e) /\ DOMAIN seq = 1 .. Len(seq)
  BY <1>10 DEF Holds
<1> USE DEF Holds
<1> QED
  BY <1>10, <1>11 DEF e

LEMMA IsSequence ==
    ASSUME NEW T, NEW n \in Nat, NEW f, f = [i \in 1 .. n |-> f[i]],
           \A i \in 1 .. n : f[i] \in T
    PROVE  f \in Seq(T) /\ Len(f) = n /\ DOMAIN f = 1 .. n
OBVIOUS

-----------------------------------------------------------------------------
(* The walk of a thread.                                                   *)

ThreadIds == Items \cup {StoryItem}

Entries == [id : Items, parent : ThreadIds]

Finds == [id : Items, parent : ThreadIds, what : Answers \cup {"failed"}]

\* The item was found, and its kids are visited.
IsFound(id) == \E i \in DOMAIN found : found[i].id = id /\ HasKids(found[i].what)

IsKnownParent(id) == id = StoryItem \/ IsFound(id)

WalkTypeOK ==
    /\ kids \in Threads
    /\ pending \in Seq(Entries) /\ found \in Seq(Finds)
    /\ batch \in Seq(ItemRequests) /\ Len(batch) <= Concurrency
    /\ comment \in [Items -> CommentRow \cup {NoRow}]
    /\ collected \in 0 .. Collections

\* An item that was visited is in one place.
IsInOnePlace ==
    /\ \A i, j \in DOMAIN found : found[i].id = found[j].id => i = j
    /\ \A i, j \in DOMAIN batch : batch[i].id = batch[j].id => i = j
    /\ \A i \in DOMAIN found, j \in DOMAIN batch : found[i].id # batch[j].id
    /\ visited = {found[i].id : i \in DOMAIN found} \cup {batch[i].id : i \in DOMAIN batch}

IsPending(id) == \E k \in DOMAIN pending : pending[k].id = id

\* A kid of what is visited was visited, or will be.
KidsAreKnown ==
    \A id \in ThreadIds :
        (id = StoryItem /\ collected < Collections) \/ IsFound(id) =>
            \A i \in DOMAIN kids[id] : kids[id][i] \in visited \/ IsPending(kids[id][i])

ParentsAreFound ==
    /\ \A i \in DOMAIN pending : IsKnownParent(pending[i].parent)
    /\ \A i \in DOMAIN batch : IsKnownParent(batch[i].parent)
    /\ \A i \in DOMAIN found : IsKnownParent(found[i].parent)

\* The inductive invariant.
WalkInv ==
    /\ WalkTypeOK
    /\ IsInOnePlace
    /\ KidsAreKnown
    /\ ParentsAreFound
    /\ collected = Collections => pending = <<>> /\ batch = <<>> /\ found = <<>>
    /\ ThreadIsLinked

LEMMA KidsFacts ==
    ASSUME kids \in Threads, NEW id \in ThreadIds
    PROVE  /\ kids[id] \in Seq(Items) /\ KidsOf(id) \in Seq(Entries)
           /\ DOMAIN KidsOf(id) = DOMAIN kids[id]
           /\ \A i \in DOMAIN kids[id] : /\ KidsOf(id)[i].id = kids[id][i]
                                         /\ KidsOf(id)[i].parent = id
<1>1. kids[id] \in Seq(Items)
  BY ThreadAssumption DEF ThreadIds
<1>2. /\ Len(kids[id]) \in Nat /\ DOMAIN kids[id] = 1 .. Len(kids[id])
      /\ \A i \in DOMAIN kids[id] : kids[id][i] \in Items
  BY <1>1
<1> DEFINE k == KidsOf(id)
<1>3. k = [i \in DOMAIN kids[id] |-> [id |-> kids[id][i], parent |-> id]]
  BY DEF KidsOf
<1>4. \A i \in DOMAIN kids[id] :
         k[i] \in Entries /\ k[i].id = kids[id][i] /\ k[i].parent = id
  BY <1>2, <1>3 DEF Entries
<1>5. k = [i \in 1 .. Len(kids[id]) |-> k[i]]
  BY <1>2, <1>3
<1> HIDE DEF k
<1>6. k \in Seq(Entries) /\ DOMAIN k = DOMAIN kids[id]
  <2>1. Len(kids[id]) \in Nat /\ \A i \in 1 .. Len(kids[id]) : k[i] \in Entries
    BY <1>2, <1>4
  <2> QED
    BY <1>2, <1>5, <2>1, IsSequence
<1> QED
  BY <1>1, <1>4, <1>6 DEF k

\* What Unvisited takes: each id that was not visited, once.
LEMMA UnvisitedFacts ==
    ASSUME NEW entries \in Seq(Entries), NEW taken, taken = Unvisited(entries)
    PROVE  /\ taken \in Seq(Entries) /\ Len(taken) <= Len(entries)
           /\ \A k \in DOMAIN taken :
                 /\ taken[k].id \notin visited
                 /\ \E i \in DOMAIN entries : taken[k] = entries[i]
           /\ \A k, l \in DOMAIN taken : taken[k].id = taken[l].id => k = l
           /\ \A i \in DOMAIN entries :
                 \/ entries[i].id \in visited
                 \/ \E k \in DOMAIN taken : taken[k].id = entries[i].id
<1> DEFINE S == {i \in DOMAIN entries :
                    /\ entries[i].id \notin visited
                    /\ \A j \in 1 .. i - 1 : entries[j].id # entries[i].id}
<1>1. taken = EntriesAt(entries, S)
  BY DEF Unvisited
<1>2. \A i \in S : /\ i \in DOMAIN entries /\ entries[i].id \notin visited
                   /\ \A j \in 1 .. i - 1 : entries[j].id # entries[i].id
  OBVIOUS
<1>3. ASSUME NEW i \in DOMAIN entries, entries[i].id \notin visited
      PROVE  \E m \in DOMAIN entries \cap S : entries[m].id = entries[i].id
  <2> DEFINE B == {j \in DOMAIN entries : entries[j].id = entries[i].id}
  <2>1. DOMAIN entries = 1 .. Len(entries) /\ Len(entries) \in Nat
    OBVIOUS
  <2>2. B \subseteq Nat /\ B # {}
    BY <2>1
  <2>3. PICK m \in B : \A j \in B : m <= j
    BY <2>2, LeastOfNaturals
  <2>4. m \in 1 .. Len(entries) /\ entries[m].id = entries[i].id
    BY <2>1, <2>3
  <2>5. ASSUME NEW j \in 1 .. m - 1
        PROVE  entries[j].id # entries[m].id
    <3>1. j \in 1 .. Len(entries) /\ ~(m <= j)
      BY <2>1, <2>4
    <3>2. j \notin B
      BY <2>3, <3>1
    <3> QED
      BY <2>1, <2>4, <3>1, <3>2
  <2>6. m \in S
    BY <1>3, <2>1, <2>4, <2>5
  <2> QED
    BY <2>1, <2>4, <2>6
<1> HIDE DEF S
<1>4. /\ taken \in Seq(Entries) /\ Len(taken) <= Len(entries)
      /\ \E place \in [DOMAIN taken -> DOMAIN entries \cap S] :
            /\ \A k \in DOMAIN taken : taken[k] = entries[place[k]]
            /\ \A k, l \in DOMAIN taken : k < l => place[k] < place[l]
            /\ \A i \in DOMAIN entries \cap S : \E k \in DOMAIN taken : place[k] = i
  BY <1>1, EntriesAtFacts
<1>5. PICK place \in [DOMAIN taken -> DOMAIN entries \cap S] :
            /\ \A k \in DOMAIN taken : taken[k] = entries[place[k]]
            /\ \A k, l \in DOMAIN taken : k < l => place[k] < place[l]
            /\ \A i \in DOMAIN entries \cap S : \E k \in DOMAIN taken : place[k] = i
  BY <1>4
<1>6. ASSUME NEW k \in DOMAIN taken, NEW l \in DOMAIN taken, k < l
      PROVE  taken[k].id # taken[l].id
  <2>1. /\ place[k] \in DOMAIN entries /\ place[l] \in S /\ place[k] < place[l]
        /\ place[l] \in DOMAIN entries
    BY <1>5, <1>6
  <2>2. DOMAIN entries = 1 .. Len(entries) /\ Len(entries) \in Nat
    OBVIOUS
  <2>3. place[k] \in 1 .. place[l] - 1
    BY <2>1, <2>2
  <2>4. entries[place[k]].id # entries[place[l]].id
    BY <1>2, <2>1, <2>3
  <2> QED
    BY <1>5, <2>4
<1>7. \A k, l \in DOMAIN taken : taken[k].id = taken[l].id => k = l
  <2>1. \A k \in DOMAIN taken : k \in Int
    BY <1>4
  <2>2. \A k, l \in Int : k < l \/ l < k \/ k = l
    OBVIOUS
  <2> QED
    BY <1>6, <2>1, <2>2
<1>8. \A k \in DOMAIN taken : /\ taken[k].id \notin visited
                              /\ \E i \in DOMAIN entries : taken[k] = entries[i]
  BY <1>2, <1>5
<1>9. \A i \in DOMAIN entries : \/ entries[i].id \in visited
                                \/ \E k \in DOMAIN taken : taken[k].id = entries[i].id
  BY <1>3, <1>5
<1> QED
  BY <1>4, <1>7, <1>8, <1>9

LEMMA EnqueuedIsThere ==
    ASSUME WalkTypeOK
    PROVE  \E f : f = [n \in 0 .. Len(batch) |->
                          IF n = 0 THEN pending
                          ELSE IF HasKids(batch[n].what)
                               THEN f[n - 1] \o KidsOf(batch[n].id) ELSE f[n - 1]]
<1> DEFINE N == Len(batch)
           V == Seq(Entries)
           next(v, n) == IF HasKids(batch[n].what) THEN v \o KidsOf(batch[n].id) ELSE v
           step == [p \in (1 .. N) \X V |-> next(p[2], p[1])]
<1>1. N \in Nat /\ pending \in V /\ \A n \in 1 .. N : batch[n].id \in Items
  <2>1. \A e \in ItemRequests : e.id \in Items
    BY DEF ItemRequests
  <2> QED
    BY <2>1, SequenceFacts DEF WalkTypeOK
<1>2. \A n \in 1 .. N : \A v \in V : next(v, n) \in V
  <2>1. \A n \in 1 .. N : KidsOf(batch[n].id) \in V
    BY <1>1, KidsFacts DEF WalkTypeOK, ThreadIds
  <2> QED
    BY <2>1
<1>3. \A n \in 1 .. N : \A v \in V : step[<<n, v>>] = next(v, n)
  <2> HIDE DEF V, next
  <2> QED
    OBVIOUS
<1>4. IsStep(step, N, V)
  <2>1. \A p \in (1 .. N) \X V : next(p[2], p[1]) \in V
    <3> HIDE DEF V, next
    <3> QED
      BY <1>2
  <2> HIDE DEF V, next
  <2> QED
    BY <2>1 DEF IsStep
<1> HIDE DEF V, step, next, N
<1>5. PICK f : Iterates(f, N, V, pending, step)
  BY <1>1, <1>4, StepsAreThere
<1>6. \A n \in 0 .. N : f[n] = IF n = 0 THEN pending ELSE next(f[n - 1], n)
  <2>1. \A n \in 0 .. N : n # 0 => n \in 1 .. N /\ n - 1 \in 0 .. N
    BY <1>1
  <2> QED
    BY <1>3, <1>5, <2>1 DEF Iterates
<1>7. f = [n \in 0 .. N |-> f[n]]
  BY <1>5 DEF Iterates
<1>8. f = [n \in 0 .. N |-> IF n = 0 THEN pending ELSE next(f[n - 1], n)]
  BY <1>6, <1>7
<1> QED
  BY <1>8 DEF next, N

\* The queue grows, by the kids of all that was found and by nothing else.
LEMMA EnqueuedFacts ==
    ASSUME WalkTypeOK, NEW queue, queue = Enqueued
    PROVE  /\ queue \in Seq(Entries)
           /\ \A k \in DOMAIN pending : k \in DOMAIN queue /\ queue[k] = pending[k]
           /\ \A k \in DOMAIN queue :
                 \/ \E l \in DOMAIN pending : queue[k] = pending[l]
                 \/ \E i \in DOMAIN batch : /\ HasKids(batch[i].what)
                                            /\ queue[k].parent = batch[i].id
           /\ \A i \in DOMAIN batch : HasKids(batch[i].what) =>
                 \A j \in DOMAIN kids[batch[i].id] :
                    \E k \in DOMAIN queue : queue[k].id = kids[batch[i].id][j]
<1> DEFINE IsF(f) == f = [n \in 0 .. Len(batch) |->
                          IF n = 0 THEN pending
                          ELSE IF HasKids(batch[n].what)
                               THEN f[n - 1] \o KidsOf(batch[n].id) ELSE f[n - 1]]
           F == CHOOSE f : IsF(f)
<1>1. batch \in Seq(ItemRequests) /\ pending \in Seq(Entries) /\ kids \in Threads
  BY DEF WalkTypeOK
<1>2. IsF(F)
  <2>1. \E f : IsF(f)
    BY EnqueuedIsThere
  <2> HIDE DEF IsF
  <2> QED
    BY <2>1
<1>3. queue = F[Len(batch)]
  BY DEF Enqueued
<1>4. Len(batch) \in Nat /\ DOMAIN batch = 1 .. Len(batch)
  BY <1>1
<1>5. /\ F[0] = pending
      /\ \A n \in 1 .. Len(batch) :
            F[n] = IF HasKids(batch[n].what) THEN F[n - 1] \o KidsOf(batch[n].id)
                                             ELSE F[n - 1]
  <2> HIDE DEF F
  <2>1. \A n \in 0 .. Len(batch) :
           F[n] = IF n = 0 THEN pending
                  ELSE IF HasKids(batch[n].what)
                       THEN F[n - 1] \o KidsOf(batch[n].id) ELSE F[n - 1]
    BY <1>2
  <2>2. 0 \in 0 .. Len(batch)
        /\ \A n \in 1 .. Len(batch) : n \in 0 .. Len(batch) /\ n # 0
    BY <1>4
  <2> QED
    BY <2>1, <2>2
<1> HIDE DEF F
<1> DEFINE Holds(q, n) ==
              /\ q \in Seq(Entries)
              /\ \A k \in DOMAIN pending : k \in DOMAIN q /\ q[k] = pending[k]
              /\ \A k \in DOMAIN q :
                    \/ \E l \in DOMAIN pending : q[k] = pending[l]
                    \/ \E i \in DOMAIN batch : /\ HasKids(batch[i].what)
                                               /\ q[k].parent = batch[i].id
              /\ \A i \in 1 .. n : HasKids(batch[i].what) =>
                    \A j \in DOMAIN kids[batch[i].id] :
                       \E k \in DOMAIN q : q[k].id = kids[batch[i].id][j]
           P == {n \in 0 .. Len(batch) : Holds(F[n], n)}
<1>6. Holds(pending, 0)
  <2>1. \A i : i \notin 1 .. 0
    OBVIOUS
  <2> QED
    BY <1>1, <2>1
<1>7. ASSUME NEW n \in 1 .. Len(batch), NEW q, Holds(q, n - 1), ~HasKids(batch[n].what)
      PROVE  Holds(q, n)
  <2>1. \A i \in 1 .. n : i \in 1 .. n - 1 \/ i = n
    OBVIOUS
  <2> QED
    BY <1>7, <2>1
<1>8. ASSUME NEW n \in 1 .. Len(batch), NEW q, Holds(q, n - 1), HasKids(batch[n].what)
      PROVE  Holds(q \o KidsOf(batch[n].id), n)
  <2> DEFINE id == batch[n].id
             more == KidsOf(id)
             new == q \o more
  <2>1. n \in DOMAIN batch /\ id \in ThreadIds
    <3>1. n \in DOMAIN batch
      BY <1>4
    <3>2. batch[n] \in ItemRequests
      BY <1>1, <3>1
    <3> QED
      BY <3>1, <3>2 DEF ItemRequests, ThreadIds
  <2>2. /\ more \in Seq(Entries) /\ DOMAIN more = DOMAIN kids[id]
        /\ \A i \in DOMAIN kids[id] : more[i].id = kids[id][i] /\ more[i].parent = id
    BY <1>1, <2>1, KidsFacts
  <2> HIDE DEF more
  <2>3. q \in Seq(Entries)
    BY <1>8
  <2>4. /\ new \in Seq(Entries)
        /\ \A k \in DOMAIN q : k \in DOMAIN new /\ new[k] = q[k]
        /\ \A k \in DOMAIN more : Len(q) + k \in DOMAIN new /\ new[Len(q) + k] = more[k]
        /\ \A k \in DOMAIN new : k \in DOMAIN q \/ k - Len(q) \in DOMAIN more
    BY <2>2, <2>3
  <2>5. \A k \in DOMAIN new : k \notin DOMAIN q =>
           k - Len(q) \in DOMAIN more /\ new[k] = more[k - Len(q)]
    <3>1. \A k \in DOMAIN new : k \in Int /\ Len(q) \in Int
      BY <2>3, <2>4
    <3>2. \A k, m \in Int : m + (k - m) = k
      OBVIOUS
    <3> HIDE DEF new
    <3> QED
      BY <2>4, <3>1, <3>2
  <2> HIDE DEF new
  <2>6. \A k \in DOMAIN pending : k \in DOMAIN new /\ new[k] = pending[k]
    BY <1>8, <2>4
  <2>7. ASSUME NEW k \in DOMAIN new
        PROVE  \/ \E l \in DOMAIN pending : new[k] = pending[l]
               \/ \E i \in DOMAIN batch : /\ HasKids(batch[i].what)
                                          /\ new[k].parent = batch[i].id
    <3>1. CASE k \in DOMAIN q
      <4>1. new[k] = q[k]
        BY <2>4, <3>1
      <4>2. \/ \E l \in DOMAIN pending : q[k] = pending[l]
            \/ \E i \in DOMAIN batch : /\ HasKids(batch[i].what)
                                       /\ q[k].parent = batch[i].id
        BY <1>8, <3>1
      <4> QED
        BY <4>1, <4>2
    <3>2. CASE k \notin DOMAIN q
      <4>1. new[k].parent = id
        BY <2>2, <2>5, <3>2
      <4> QED
        BY <1>8, <2>1, <4>1
    <3> QED
      BY <3>1, <3>2
  <2>8. ASSUME NEW i \in 1 .. n, HasKids(batch[i].what),
               NEW j \in DOMAIN kids[batch[i].id]
        PROVE  \E k \in DOMAIN new : new[k].id = kids[batch[i].id][j]
    <3>1. CASE i = n
      <4>1. j \in DOMAIN more /\ more[j].id = kids[id][j]
        BY <2>2, <2>8, <3>1
      <4>2. Len(q) + j \in DOMAIN new /\ new[Len(q) + j] = more[j]
        BY <2>4, <4>1
      <4> QED
        BY <3>1, <4>1, <4>2
    <3>2. CASE i # n
      <4>1. i \in 1 .. n - 1
        BY <3>2
      <4>2. PICK k \in DOMAIN q : q[k].id = kids[batch[i].id][j]
        BY <1>8, <2>8, <4>1
      <4> QED
        BY <2>4, <4>2
    <3> QED
      BY <3>1, <3>2
  <2>9. Holds(new, n)
    BY <2>4, <2>6, <2>7, <2>8
  <2> HIDE DEF Holds
  <2> QED
    BY <2>9 DEF new, more
<1> HIDE DEF Holds
<1>9. 0 .. Len(batch) \subseteq P
  <2>1. 0 \in P
    BY <1>4, <1>5, <1>6
  <2>2. \A n \in 1 .. Len(batch) : n - 1 \in P => n \in P
    BY <1>5, <1>7, <1>8
  <2> HIDE DEF P
  <2> QED
    BY <1>4, <2>1, <2>2, UpToBound
<1>10. Holds(queue, Len(batch))
  BY <1>3, <1>4, <1>9
<1> QED
  BY <1>4, <1>10 DEF Holds

-----------------------------------------------------------------------------
(* Steps.                                                                  *)

LEMMA WalkInitially == ThreadInit => WalkInv
<1> SUFFICES ASSUME ThreadInit PROVE WalkInv
  OBVIOUS
<1>1. /\ kids \in Threads /\ pending = KidsOf(StoryItem) /\ visited = {}
      /\ batch = <<>> /\ found = <<>> /\ comment = [i \in Items |-> NoRow]
      /\ collected = 0
  BY DEF ThreadInit
<1>2. /\ StoryItem \in ThreadIds /\ {Concurrency, Collections} \subseteq Nat \ {0}
  BY ThreadAssumption DEF ThreadIds
<1>3. /\ pending \in Seq(Entries) /\ DOMAIN pending = DOMAIN kids[StoryItem]
      /\ \A i \in DOMAIN pending : /\ pending[i].id = kids[StoryItem][i]
                                   /\ pending[i].parent = StoryItem
  BY <1>1, <1>2, KidsFacts
<1>4. WalkTypeOK
  BY <1>1, <1>2, <1>3 DEF WalkTypeOK
<1>5. IsInOnePlace
  BY <1>1 DEF IsInOnePlace
<1>6. \A id : ~IsFound(id)
  BY <1>1 DEF IsFound
<1>7. KidsAreKnown
  BY <1>3, <1>6 DEF KidsAreKnown, IsPending
<1>8. ParentsAreFound
  BY <1>1, <1>3 DEF ParentsAreFound, IsKnownParent
<1>9. collected # Collections /\ ThreadIsLinked
  BY <1>1, <1>2 DEF ThreadIsLinked
<1> QED
  BY <1>4, <1>5, <1>7, <1>8, <1>9 DEF WalkInv

LEMMA TakeBatchKeeps ==
    ASSUME WalkInv, TakeBatch
    PROVE  WalkInv'
<1> DEFINE size  == IF Len(pending) < Concurrency THEN Len(pending) ELSE Concurrency
           first == SubSeq(pending, 1, size)
           rest  == SubSeq(pending, size + 1, Len(pending))
           taken == Unvisited(first)
<1>1. /\ batch = <<>> /\ collected < Collections /\ pending' = rest
      /\ visited' = visited \cup {taken[i].id : i \in DOMAIN taken}
      /\ batch' = [i \in DOMAIN taken |->
                    [id |-> taken[i].id, parent |-> taken[i].parent,
                     attempt |-> 0, what |-> "asking"]]
      /\ UNCHANGED <<kids, found, comment, collected>>
  BY DEF TakeBatch
<1>2. /\ pending \in Seq(Entries) /\ Concurrency \in Nat /\ Retries \in Nat
      /\ collected \in Nat /\ Collections \in Nat /\ Len(pending) \in Nat
  BY ThreadAssumption DEF WalkInv, WalkTypeOK
<1>3. size \in 0 .. Len(pending) /\ size <= Concurrency
  BY <1>2
<1>4. /\ first \in Seq(Entries) /\ Len(first) = size
      /\ \A i \in DOMAIN first : i \in DOMAIN pending /\ first[i] = pending[i]
      /\ \A i \in DOMAIN pending : i <= size => i \in DOMAIN first
  <2> HIDE DEF size
  <2> QED
    BY <1>2, <1>3
<1>5. /\ rest \in Seq(Entries)
      /\ \A i \in DOMAIN rest : \E k \in DOMAIN pending : rest[i] = pending[k]
      /\ \A k \in DOMAIN pending : k > size => \E i \in DOMAIN rest : rest[i] = pending[k]
  <2> HIDE DEF size
  <2>1. /\ rest \in Seq(Entries) /\ DOMAIN rest = 1 .. Len(pending) - size
        /\ \A i \in DOMAIN rest : rest[i] = pending[size + i]
    BY <1>2, <1>3
  <2>2. \A i \in 1 .. Len(pending) - size : size + i \in DOMAIN pending
    BY <1>2, <1>3
  <2>3. \A k \in DOMAIN pending : k > size =>
           k - size \in 1 .. Len(pending) - size /\ size + (k - size) = k
    BY <1>2, <1>3
  <2> HIDE DEF rest
  <2> QED
    BY <2>1, <2>2, <2>3
<1> HIDE DEF first, rest
<1>6. /\ taken \in Seq(Entries) /\ Len(taken) <= Len(first)
      /\ \A k \in DOMAIN taken :
            /\ taken[k].id \notin visited
            /\ \E i \in DOMAIN first : taken[k] = first[i]
      /\ \A k, l \in DOMAIN taken : taken[k].id = taken[l].id => k = l
      /\ \A i \in DOMAIN first :
            \/ first[i].id \in visited
            \/ \E k \in DOMAIN taken : taken[k].id = first[i].id
  BY <1>4, UnvisitedFacts
<1> HIDE DEF taken, size
<1>7. /\ DOMAIN taken = 1 .. Len(taken) /\ Len(taken) \in Nat
      /\ \A i \in DOMAIN taken : taken[i] \in Entries
  BY <1>6
<1>8. \A i \in DOMAIN taken :
         /\ batch'[i] = [id |-> taken[i].id, parent |-> taken[i].parent,
                         attempt |-> 0, what |-> "asking"]
         /\ batch'[i].id = taken[i].id /\ batch'[i].parent = taken[i].parent
  BY <1>1
<1>9. \A i \in DOMAIN taken : batch'[i] \in ItemRequests
  <2> SUFFICES ASSUME NEW i \in DOMAIN taken
               PROVE  batch'[i] \in ItemRequests
    OBVIOUS
  <2>1. taken[i].id \in Items /\ taken[i].parent \in ThreadIds
    BY <1>7 DEF Entries
  <2>2. 0 \in 0 .. Retries /\ "asking" \in Answers \cup {"asking", "failed"}
    BY <1>2
  <2>3. batch'[i] = [id |-> taken[i].id, parent |-> taken[i].parent,
                     attempt |-> 0, what |-> "asking"]
    BY <1>8
  <2> QED
    BY <2>1, <2>2, <2>3 DEF ItemRequests, ThreadIds
<1>10. /\ batch' \in Seq(ItemRequests) /\ Len(batch') = Len(taken)
       /\ DOMAIN batch' = DOMAIN taken
  <2>1. batch' = [i \in 1 .. Len(taken) |-> batch'[i]]
    BY <1>1, <1>7
  <2>2. \A f : f = [i \in 1 .. Len(taken) |-> f[i]]
               /\ (\A i \in 1 .. Len(taken) : f[i] \in ItemRequests)
             => /\ f \in Seq(ItemRequests) /\ Len(f) = Len(taken)
                /\ DOMAIN f = 1 .. Len(taken)
    BY <1>7, IsSequence
  <2> QED
    BY <1>7, <1>9, <2>1, <2>2
<1>11. Len(batch') <= Concurrency
  BY <1>2, <1>3, <1>4, <1>6, <1>7, <1>10
<1>12. WalkTypeOK'
  BY <1>1, <1>5, <1>10, <1>11 DEF WalkInv, WalkTypeOK
<1>13. visited = {found[i].id : i \in DOMAIN found}
  BY <1>1 DEF WalkInv, IsInOnePlace
<1>14. visited' = {found'[i].id : i \in DOMAIN found'} \cup {batch'[i].id : i \in DOMAIN batch'}
  BY <1>1, <1>8, <1>10, <1>13
<1>15. IsInOnePlace'
  <2>1. \A i, j \in DOMAIN batch' : batch'[i].id = batch'[j].id => i = j
    BY <1>6, <1>8, <1>10
  <2>2. \A i \in DOMAIN found', j \in DOMAIN batch' : found'[i].id # batch'[j].id
    BY <1>1, <1>6, <1>8, <1>10, <1>13
  <2>3. \A i, j \in DOMAIN found' : found'[i].id = found'[j].id => i = j
    BY <1>1 DEF WalkInv, IsInOnePlace
  <2> QED
    BY <1>14, <2>1, <2>2, <2>3 DEF IsInOnePlace
<1>16. \A id : IsFound(id)' <=> IsFound(id)
  BY <1>1 DEF IsFound
<1>17. \A k \in DOMAIN pending : \/ pending[k].id \in visited'
                                 \/ \E i \in DOMAIN rest : rest[i].id = pending[k].id
  <2> SUFFICES ASSUME NEW k \in DOMAIN pending
               PROVE  \/ pending[k].id \in visited'
                      \/ \E i \in DOMAIN rest : rest[i].id = pending[k].id
    OBVIOUS
  <2>1. CASE k > size
    BY <1>5, <2>1
  <2>2. CASE k <= size
    <3>1. k \in DOMAIN first /\ first[k] = pending[k]
      BY <1>4, <2>2
    <3>2. \/ first[k].id \in visited
          \/ \E l \in DOMAIN taken : taken[l].id = first[k].id
      BY <1>6, <3>1
    <3> QED
      BY <1>1, <3>1, <3>2
  <2>3. k \in Int /\ size \in Int
    BY <1>2, <1>3
  <2> QED
    BY <2>1, <2>2, <2>3
<1>18. KidsAreKnown'
  <2> SUFFICES ASSUME NEW id \in ThreadIds,
                      (id = StoryItem /\ collected < Collections) \/ IsFound(id),
                      NEW i \in DOMAIN kids[id]
               PROVE  kids[id][i] \in visited' \/ IsPending(kids[id][i])'
    BY <1>1, <1>16 DEF KidsAreKnown, IsPending
  <2>1. kids[id][i] \in visited \/ \E k \in DOMAIN pending : pending[k].id = kids[id][i]
    BY DEF WalkInv, KidsAreKnown, IsPending
  <2> QED
    BY <1>1, <1>17, <2>1 DEF IsPending
<1>19. ParentsAreFound'
  <2>1. \A id : IsKnownParent(id)' <=> IsKnownParent(id)
    BY <1>16 DEF IsKnownParent
  <2>2. \A i \in DOMAIN pending : IsKnownParent(pending[i].parent)
    BY DEF WalkInv, ParentsAreFound
  <2>3. \A i \in DOMAIN rest : IsKnownParent(rest[i].parent)
    BY <1>5, <2>2
  <2>4. \A i \in DOMAIN batch' : IsKnownParent(batch'[i].parent)
    BY <1>4, <1>6, <1>8, <1>10, <2>2
  <2>5. \A i \in DOMAIN found : IsKnownParent(found[i].parent)
    BY DEF WalkInv, ParentsAreFound
  <2> QED
    BY <1>1, <2>1, <2>3, <2>4, <2>5 DEF ParentsAreFound, IsKnownParent, IsFound
<1>20. collected' # Collections
  BY <1>1, <1>2
<1>21. ThreadIsLinked'
  BY <1>1 DEF WalkInv, ThreadIsLinked
<1> QED
  BY <1>12, <1>15, <1>18, <1>19, <1>20, <1>21 DEF WalkInv

LEMMA RequestKeeps ==
    ASSUME WalkInv, Request
    PROVE  WalkInv'
<1>1. PICK i \in DOMAIN batch :
        /\ batch[i].what = "asking"
        /\ \/ \E a \in Answers : batch' = [batch EXCEPT ![i].what = a]
           \/ \E e \in Errors :
                 batch' = [batch EXCEPT ![i] = AfterRequestError(batch[i], e)]
        /\ UNCHANGED <<kids, pending, visited, found, comment, collected>>
  BY DEF Request
<1>2. /\ batch \in Seq(ItemRequests) /\ Retries \in Nat /\ Len(batch) \in Nat
      /\ DOMAIN batch = 1 .. Len(batch) /\ batch[i] \in ItemRequests
  BY ThreadAssumption DEF WalkInv, WalkTypeOK
<1>3. \E r \in ItemRequests : /\ r.id = batch[i].id /\ r.parent = batch[i].parent
                              /\ batch' = [batch EXCEPT ![i] = r]
  <2>1. ASSUME NEW a \in Answers, batch' = [batch EXCEPT ![i].what = a]
        PROVE  \E r \in ItemRequests : /\ r.id = batch[i].id /\ r.parent = batch[i].parent
                                       /\ batch' = [batch EXCEPT ![i] = r]
    <3> DEFINE r == [batch[i] EXCEPT !.what = a]
    <3>1. r \in ItemRequests /\ r.id = batch[i].id /\ r.parent = batch[i].parent
      BY <1>2 DEF ItemRequests
    <3>2. batch' = [batch EXCEPT ![i] = r]
      BY <2>1
    <3> HIDE DEF r
    <3> QED
      BY <3>1, <3>2
  <2>2. ASSUME NEW e \in Errors,
               batch' = [batch EXCEPT ![i] = AfterRequestError(batch[i], e)]
        PROVE  \E r \in ItemRequests : /\ r.id = batch[i].id /\ r.parent = batch[i].parent
                                       /\ batch' = [batch EXCEPT ![i] = r]
    <3> DEFINE q == batch[i]
               r == AfterRequestError(q, e)
    <3>1. r \in ItemRequests /\ r.id = q.id /\ r.parent = q.parent
      <4>1. CASE e = "invalid" \/ q.attempt = Retries
        <5>1. r = [q EXCEPT !.what = "failed"]
          BY <4>1 DEF AfterRequestError
        <5> HIDE DEF q, r
        <5> QED
          BY <1>2, <5>1 DEF ItemRequests, q
      <4>2. CASE ~(e = "invalid" \/ q.attempt = Retries)
        <5>1. r = [q EXCEPT !.attempt = q.attempt + 1]
          BY <4>2 DEF AfterRequestError
        <5>2. q.attempt \in 0 .. Retries /\ q.attempt # Retries
          BY <1>2, <4>2 DEF ItemRequests
        <5>3. q.attempt + 1 \in 0 .. Retries
          BY <1>2, <5>2
        <5> HIDE DEF q, r
        <5> QED
          BY <1>2, <5>1, <5>3 DEF ItemRequests, q
      <4> QED
        BY <4>1, <4>2
    <3>2. batch' = [batch EXCEPT ![i] = r]
      BY <2>2
    <3> HIDE DEF r
    <3> QED
      BY <3>1, <3>2
  <2> QED
    BY <1>1, <2>1, <2>2
<1>4. PICK r \in ItemRequests : /\ r.id = batch[i].id /\ r.parent = batch[i].parent
                                /\ batch' = [batch EXCEPT ![i] = r]
  BY <1>3
<1>5. /\ batch' \in Seq(ItemRequests) /\ Len(batch') = Len(batch)
      /\ DOMAIN batch' = DOMAIN batch
      /\ \A k \in DOMAIN batch : /\ batch'[k].id = batch[k].id
                                 /\ batch'[k].parent = batch[k].parent
  BY <1>2, <1>4
<1>6. WalkTypeOK'
  BY <1>1, <1>5 DEF WalkInv, WalkTypeOK
<1>7. IsInOnePlace'
  <2>1. {batch'[k].id : k \in DOMAIN batch'} = {batch[k].id : k \in DOMAIN batch}
    BY <1>5
  <2>2. visited' = {found'[k].id : k \in DOMAIN found'} \cup {batch'[k].id : k \in DOMAIN batch'}
    BY <1>1, <2>1 DEF WalkInv, IsInOnePlace
  <2>3. /\ \A k, l \in DOMAIN found' : found'[k].id = found'[l].id => k = l
        /\ \A k, l \in DOMAIN batch' : batch'[k].id = batch'[l].id => k = l
        /\ \A k \in DOMAIN found', l \in DOMAIN batch' : found'[k].id # batch'[l].id
    BY <1>1, <1>5 DEF WalkInv, IsInOnePlace
  <2> QED
    BY <2>2, <2>3 DEF IsInOnePlace
<1>8. KidsAreKnown'
  BY <1>1 DEF WalkInv, KidsAreKnown, IsFound, IsPending
<1>9. ParentsAreFound'
  BY <1>1, <1>5 DEF WalkInv, ParentsAreFound, IsKnownParent, IsFound
<1>10. collected' # Collections
  BY <1>1, <1>2 DEF WalkInv
<1>11. ThreadIsLinked'
  BY <1>1 DEF WalkInv, ThreadIsLinked
<1> QED
  BY <1>6, <1>7, <1>8, <1>9, <1>10, <1>11 DEF WalkInv

LEMMA ReadBatchKeeps ==
    ASSUME WalkInv, ReadBatch
    PROVE  WalkInv'
<1> DEFINE more == [i \in DOMAIN batch |->
                    [id |-> batch[i].id, parent |-> batch[i].parent,
                     what |-> batch[i].what]]
           n == Len(found)
<1>1. /\ batch # <<>> /\ \A i \in DOMAIN batch : batch[i].what # "asking"
      /\ found' = found \o more /\ pending' = Enqueued /\ batch' = <<>>
      /\ UNCHANGED <<kids, visited, comment, collected>>
  BY DEF ReadBatch
<1>2. /\ WalkTypeOK /\ IsInOnePlace /\ batch \in Seq(ItemRequests)
      /\ found \in Seq(Finds) /\ kids \in Threads
      /\ DOMAIN batch = 1 .. Len(batch) /\ Len(batch) \in Nat
      /\ n \in Nat /\ DOMAIN found = 1 .. n
  BY DEF WalkInv, WalkTypeOK
<1>3. \A i \in DOMAIN batch : batch[i] \in ItemRequests
  BY <1>2
<1>4. \A i \in DOMAIN batch : /\ more[i] \in Finds /\ more[i].id = batch[i].id
                              /\ more[i].parent = batch[i].parent
                              /\ more[i].what = batch[i].what
  BY <1>1, <1>3 DEF ItemRequests, Finds, ThreadIds
<1>5. more \in Seq(Finds) /\ DOMAIN more = DOMAIN batch /\ Len(more) = Len(batch)
  <2>1. more = [i \in 1 .. Len(batch) |-> more[i]]
    BY <1>2
  <2> HIDE DEF more
  <2> QED
    BY <1>2, <1>4, <2>1, IsSequence
<1> HIDE DEF more
<1>6. /\ found' \in Seq(Finds)
      /\ \A i \in DOMAIN found : i \in DOMAIN found' /\ found'[i] = found[i]
      /\ \A i \in DOMAIN batch : n + i \in DOMAIN found' /\ found'[n + i] = more[i]
      /\ \A i \in DOMAIN found' : i \in DOMAIN found \/ i - n \in DOMAIN batch
  BY <1>1, <1>2, <1>5
<1>7. ASSUME NEW k \in DOMAIN found', k \notin DOMAIN found
      PROVE  /\ k - n \in DOMAIN batch /\ found'[k] = more[k - n]
             /\ k \in Int /\ n \in Int
  <2>1. k \in Int /\ n \in Int
    BY <1>2, <1>6
  <2>2. n + (k - n) = k
    BY <2>1
  <2> QED
    BY <1>6, <1>7, <2>1, <2>2
<1>8. \A k \in DOMAIN found' :
         \/ k \in DOMAIN found /\ found'[k] = found[k]
         \/ \E i \in DOMAIN batch : k = n + i /\ found'[k] = more[i]
  <2> SUFFICES ASSUME NEW k \in DOMAIN found', k \notin DOMAIN found
               PROVE  \E i \in DOMAIN batch : k = n + i /\ found'[k] = more[i]
    BY <1>6
  <2>1. /\ k - n \in DOMAIN batch /\ found'[k] = more[k - n] /\ k \in Int /\ n \in Int
    BY <1>7
  <2>2. k = n + (k - n)
    BY <2>1
  <2> QED
    BY <2>1, <2>2
<1>9. /\ \A k, l \in DOMAIN found : found[k].id = found[l].id => k = l
      /\ \A k, l \in DOMAIN batch : batch[k].id = batch[l].id => k = l
      /\ \A k \in DOMAIN found, l \in DOMAIN batch : found[k].id # batch[l].id
      /\ visited = {found[i].id : i \in DOMAIN found} \cup {batch[i].id : i \in DOMAIN batch}
  BY <1>2 DEF IsInOnePlace
<1>10. ASSUME NEW k \in DOMAIN found', NEW l \in DOMAIN found', found'[k].id = found'[l].id
       PROVE  k = l
  <2>1. CASE k \in DOMAIN found /\ found'[k] = found[k]
    <3>1. ASSUME NEW i \in DOMAIN batch, found'[l] = more[i]
          PROVE  FALSE
      BY <1>4, <1>9, <1>10, <2>1, <3>1
    <3>2. l \in DOMAIN found /\ found'[l] = found[l]
      BY <1>8, <3>1
    <3> QED
      BY <1>9, <1>10, <2>1, <3>2
  <2>2. CASE \E i \in DOMAIN batch : k = n + i /\ found'[k] = more[i]
    <3>1. PICK i \in DOMAIN batch : k = n + i /\ found'[k] = more[i]
      BY <2>2
    <3>2. CASE l \in DOMAIN found /\ found'[l] = found[l]
      BY <1>4, <1>9, <1>10, <3>1, <3>2
    <3>3. CASE \E j \in DOMAIN batch : l = n + j /\ found'[l] = more[j]
      <4>1. PICK j \in DOMAIN batch : l = n + j /\ found'[l] = more[j]
        BY <3>3
      <4>2. batch[i].id = batch[j].id
        BY <1>4, <1>10, <3>1, <4>1
      <4> QED
        BY <1>9, <3>1, <4>1, <4>2
    <3> QED
      BY <1>8, <3>2, <3>3
  <2> QED
    BY <1>8, <2>1, <2>2
<1>11. visited' = {found'[i].id : i \in DOMAIN found'} \cup {batch'[i].id : i \in DOMAIN batch'}
  <2>1. ASSUME NEW x \in visited
        PROVE  \E k \in DOMAIN found' : found'[k].id = x
    <3>1. CASE \E i \in DOMAIN found : found[i].id = x
      BY <1>6, <3>1
    <3>2. CASE \E i \in DOMAIN batch : batch[i].id = x
      BY <1>4, <1>6, <3>2
    <3> QED
      BY <1>9, <3>1, <3>2
  <2>2. ASSUME NEW k \in DOMAIN found'
        PROVE  found'[k].id \in visited
    BY <1>4, <1>8, <1>9
  <2>3. DOMAIN batch' = {}
    BY <1>1
  <2> QED
    BY <1>1, <2>1, <2>2, <2>3
<1>12. IsInOnePlace'
  <2>1. DOMAIN batch' = {}
    BY <1>1
  <2> QED
    BY <1>10, <1>11, <2>1 DEF IsInOnePlace
<1>13. /\ pending' \in Seq(Entries)
       /\ \A k \in DOMAIN pending : k \in DOMAIN pending' /\ pending'[k] = pending[k]
       /\ \A k \in DOMAIN pending' :
             \/ \E l \in DOMAIN pending : pending'[k] = pending[l]
             \/ \E i \in DOMAIN batch : /\ HasKids(batch[i].what)
                                        /\ pending'[k].parent = batch[i].id
       /\ \A i \in DOMAIN batch : HasKids(batch[i].what) =>
             \A j \in DOMAIN kids[batch[i].id] :
                \E k \in DOMAIN pending' : pending'[k].id = kids[batch[i].id][j]
  BY <1>1, <1>2, EnqueuedFacts
<1>14. WalkTypeOK'
  <2>1. Len(<<>>) = 0 /\ <<>> \in Seq(ItemRequests) /\ 0 <= Concurrency
    BY ThreadAssumption
  <2> QED
    BY <1>1, <1>2, <1>6, <1>13, <2>1 DEF WalkTypeOK
<1>15. \A id : IsFound(id)' <=>
          \/ IsFound(id)
          \/ \E i \in DOMAIN batch : batch[i].id = id /\ HasKids(batch[i].what)
  <2>1. ASSUME NEW id, IsFound(id)'
        PROVE  \/ IsFound(id)
               \/ \E i \in DOMAIN batch : batch[i].id = id /\ HasKids(batch[i].what)
    BY <1>4, <1>8, <2>1 DEF IsFound, HasKids
  <2>2. ASSUME NEW id, IsFound(id)
        PROVE  IsFound(id)'
    BY <1>6, <2>2 DEF IsFound, HasKids
  <2>3. ASSUME NEW id, NEW i \in DOMAIN batch, batch[i].id = id, HasKids(batch[i].what)
        PROVE  IsFound(id)'
    BY <1>4, <1>6, <2>3 DEF IsFound, HasKids
  <2> QED
    BY <2>1, <2>2, <2>3
<1>16. KidsAreKnown'
  <2> SUFFICES ASSUME NEW id \in ThreadIds,
                      (id = StoryItem /\ collected < Collections) \/ IsFound(id)',
                      NEW j \in DOMAIN kids[id]
               PROVE  kids[id][j] \in visited \/ \E k \in DOMAIN pending' : pending'[k].id = kids[id][j]
    BY <1>1 DEF KidsAreKnown, IsPending
  <2>1. CASE (id = StoryItem /\ collected < Collections) \/ IsFound(id)
    <3>1. kids[id][j] \in visited \/ \E k \in DOMAIN pending : pending[k].id = kids[id][j]
      BY <2>1 DEF WalkInv, KidsAreKnown, IsPending
    <3> QED
      BY <1>13, <3>1
  <2>2. CASE \E i \in DOMAIN batch : batch[i].id = id /\ HasKids(batch[i].what)
    <3>1. PICK i \in DOMAIN batch : batch[i].id = id /\ HasKids(batch[i].what)
      BY <2>2
    <3>2. \A m \in DOMAIN kids[batch[i].id] :
             \E k \in DOMAIN pending' : pending'[k].id = kids[batch[i].id][m]
      BY <1>13, <3>1
    <3> QED
      BY <3>1, <3>2
  <2> QED
    BY <1>15, <2>1, <2>2
<1>17. ParentsAreFound'
  <2>1. \A id : IsKnownParent(id) => IsKnownParent(id)'
    BY <1>15 DEF IsKnownParent
  <2>2. /\ \A i \in DOMAIN pending : IsKnownParent(pending[i].parent)
        /\ \A i \in DOMAIN batch : IsKnownParent(batch[i].parent)
        /\ \A i \in DOMAIN found : IsKnownParent(found[i].parent)
    BY DEF WalkInv, ParentsAreFound
  <2>3. \A i \in DOMAIN batch : HasKids(batch[i].what) =>
           \A p : p = batch[i].id => IsKnownParent(p)'
    BY <1>15 DEF IsKnownParent
  <2>4. ASSUME NEW k \in DOMAIN pending'
        PROVE  \A p : p = pending'[k].parent => IsKnownParent(p)'
    BY <1>13, <2>1, <2>2, <2>3
  <2>5. ASSUME NEW k \in DOMAIN found'
        PROVE  \A p : p = found'[k].parent => IsKnownParent(p)'
    BY <1>4, <1>8, <2>1, <2>2
  <2>6. DOMAIN batch' = {}
    BY <1>1
  <2> QED
    BY <2>4, <2>5, <2>6 DEF ParentsAreFound, IsKnownParent, IsFound
<1>18. collected' # Collections
  BY <1>1 DEF WalkInv
<1>19. ThreadIsLinked'
  BY <1>1 DEF WalkInv, ThreadIsLinked
<1> QED
  BY <1>12, <1>14, <1>16, <1>17, <1>18, <1>19 DEF WalkInv

\* What is stored: the rows of comments and of deleted ones, with their ids.
LEMMA NormalizedAre ==
    ASSUME WalkTypeOK, NEW rows, rows = Normalized
    PROVE  /\ rows \in Seq(Finds)
           /\ \A k \in DOMAIN rows :
                 \E i \in DOMAIN found : rows[k] = found[i] /\ HasKids(found[i].what)
           /\ \A i \in DOMAIN found : HasKids(found[i].what) =>
                 \E k \in DOMAIN rows : rows[k] = found[i]
<1> DEFINE T == {i \in DOMAIN found : found[i].what \in {"text", "blank"}}
           D == {i \in DOMAIN found : found[i].what = "deleted"}
           a == EntriesAt(found, T)
           b == EntriesAt(found, D)
<1>1. found \in Seq(Finds)
  BY DEF WalkTypeOK
<1>2. /\ T \subseteq DOMAIN found /\ D \subseteq DOMAIN found
      /\ \A i \in DOMAIN found : HasKids(found[i].what) <=> i \in T \/ i \in D
  BY DEF HasKids
<1>3. rows = a \o b
  BY DEF Normalized
<1> HIDE DEF T, D
<1>4. /\ a \in Seq(Finds)
      /\ \A k \in DOMAIN a : \E i \in DOMAIN found \cap T : a[k] = found[i]
      /\ \A i \in DOMAIN found \cap T : \E k \in DOMAIN a : a[k] = found[i]
  BY <1>1, EntriesAtFacts
<1>5. /\ b \in Seq(Finds)
      /\ \A k \in DOMAIN b : \E i \in DOMAIN found \cap D : b[k] = found[i]
      /\ \A i \in DOMAIN found \cap D : \E k \in DOMAIN b : b[k] = found[i]
  BY <1>1, EntriesAtFacts
<1> HIDE DEF a, b
<1>6. /\ rows \in Seq(Finds) /\ Len(a) \in Nat
      /\ \A k \in DOMAIN a : k \in DOMAIN rows /\ rows[k] = a[k]
      /\ \A k \in DOMAIN b : Len(a) + k \in DOMAIN rows /\ rows[Len(a) + k] = b[k]
      /\ \A k \in DOMAIN rows : k \in Int /\ (k \in DOMAIN a \/ k - Len(a) \in DOMAIN b)
  BY <1>3, <1>4, <1>5
<1>7. \A k \in DOMAIN rows : k \in DOMAIN a \/ \E l \in DOMAIN b : k = Len(a) + l
  <2> SUFFICES ASSUME NEW k \in DOMAIN rows, k - Len(a) \in DOMAIN b
               PROVE  \E l \in DOMAIN b : k = Len(a) + l
    BY <1>6
  <2>1. k = Len(a) + (k - Len(a))
    BY <1>6
  <2> QED
    BY <2>1
<1>8. ASSUME NEW k \in DOMAIN rows
      PROVE  \E i \in DOMAIN found : rows[k] = found[i] /\ HasKids(found[i].what)
  <2>1. CASE k \in DOMAIN a
    BY <1>2, <1>4, <1>6, <2>1
  <2>2. CASE \E l \in DOMAIN b : k = Len(a) + l
    BY <1>2, <1>5, <1>6, <2>2
  <2> QED
    BY <1>7, <2>1, <2>2
<1>9. ASSUME NEW i \in DOMAIN found, HasKids(found[i].what)
      PROVE  \E k \in DOMAIN rows : rows[k] = found[i]
  <2>1. CASE i \in T
    BY <1>4, <1>6, <2>1
  <2>2. CASE i \in D
    BY <1>5, <1>6, <2>2
  <2> QED
    BY <1>2, <1>9, <2>1, <2>2
<1> QED
  BY <1>6, <1>8, <1>9

\* A row that is stored is linked to its parent.
LEMMA SavedIsLinked ==
    ASSUME WalkInv, NEW rows, rows = Normalized, NEW i \in DOMAIN rows
    PROVE  /\ Linked(rows, i) = rows[i].parent
           /\ [state |-> rows[i].what, parent |-> rows[i].parent,
               link |-> Linked(rows, i)] \in CommentRow
<1>1. /\ rows \in Seq(Finds)
      /\ \A k \in DOMAIN rows :
            \E m \in DOMAIN found : rows[k] = found[m] /\ HasKids(found[m].what)
      /\ \A m \in DOMAIN found : HasKids(found[m].what) =>
            \E k \in DOMAIN rows : rows[k] = found[m]
  BY NormalizedAre DEF WalkInv
<1>2. PICK m \in DOMAIN found : rows[i] = found[m] /\ HasKids(found[m].what)
  BY <1>1
<1>3. rows[i] \in Finds
  BY <1>1
<1>4. IsKnownParent(rows[i].parent)
  BY <1>2 DEF WalkInv, ParentsAreFound
<1>5. Linked(rows, i) = rows[i].parent
  <2>1. CASE rows[i].parent = StoryItem
    BY <2>1 DEF Linked
  <2>2. CASE IsFound(rows[i].parent)
    <3>1. PICK p \in DOMAIN found : found[p].id = rows[i].parent /\ HasKids(found[p].what)
      BY <2>2 DEF IsFound
    <3>2. \E k \in DOMAIN rows : rows[k].id = rows[i].parent
      BY <1>1, <3>1
    <3> QED
      BY <3>2 DEF Linked
  <2> QED
    BY <1>4, <2>1, <2>2 DEF IsKnownParent
<1>6. rows[i].what \in {"text", "blank", "deleted"}
  BY <1>2 DEF HasKids
<1>7. rows[i].parent \in Items \cup {StoryItem}
  BY <1>3 DEF Finds, ThreadIds
<1> QED
  BY <1>5, <1>6, <1>7 DEF CommentRow

LEMMA SaveCommentsKeeps ==
    ASSUME WalkInv, SaveComments
    PROVE  WalkInv'
<1> DEFINE rows == Normalized
           Row(i) == [state |-> rows[i].what, parent |-> rows[i].parent,
                      link |-> Linked(rows, i)]
           At(id) == CHOOSE i \in DOMAIN rows : rows[i].id = id
<1>1. /\ pending = <<>> /\ batch = <<>> /\ collected < Collections
      /\ comment' = [id \in Items |->
            IF \E i \in DOMAIN rows : rows[i].id = id THEN Row(At(id)) ELSE comment[id]]
      /\ collected' = collected + 1
      /\ pending' = IF collected' < Collections THEN KidsOf(StoryItem) ELSE <<>>
      /\ visited' = {} /\ found' = <<>> /\ batch' = batch /\ kids' = kids
  BY DEF SaveComments
<1>2. /\ kids \in Threads /\ collected' \in 0 .. Collections
      /\ comment \in [Items -> CommentRow \cup {NoRow}]
      /\ ~(collected' < Collections) => collected' = Collections
      /\ 0 <= Concurrency /\ StoryItem \in ThreadIds
  BY <1>1, ThreadAssumption DEF WalkInv, WalkTypeOK, ThreadIds
<1>3. /\ KidsOf(StoryItem) \in Seq(Entries)
      /\ DOMAIN KidsOf(StoryItem) = DOMAIN kids[StoryItem]
      /\ \A i \in DOMAIN kids[StoryItem] : /\ KidsOf(StoryItem)[i].id = kids[StoryItem][i]
                                            /\ KidsOf(StoryItem)[i].parent = StoryItem
  BY <1>2, KidsFacts
<1>4. ASSUME NEW id \in Items, \E i \in DOMAIN rows : rows[i].id = id
      PROVE  /\ comment'[id] \in CommentRow
             /\ comment'[id].link = comment'[id].parent
  <2>1. At(id) \in DOMAIN rows
    BY <1>4
  <2>2. comment'[id] = Row(At(id))
    BY <1>1, <1>4
  <2> HIDE DEF At, rows
  <2>3. /\ Linked(rows, At(id)) = rows[At(id)].parent /\ Row(At(id)) \in CommentRow
    BY <2>1, SavedIsLinked DEF rows
  <2> QED
    BY <2>2, <2>3
<1>5. ASSUME NEW id \in Items, ~\E i \in DOMAIN rows : rows[i].id = id
      PROVE  comment'[id] = comment[id]
  BY <1>1, <1>5
<1>6. comment' \in [Items -> CommentRow \cup {NoRow}]
  <2>1. comment' = [id \in Items |-> comment'[id]]
    BY <1>1
  <2> HIDE DEF rows
  <2> QED
    BY <1>2, <1>4, <1>5, <2>1
<1>7. ThreadIsLinked'
  <2> SUFFICES ASSUME NEW id \in Items, comment'[id] # NoRow
               PROVE  comment'[id].link = comment'[id].parent
    BY DEF ThreadIsLinked, NoRow
  <2>1. CASE \E i \in DOMAIN rows : rows[i].id = id
    BY <1>4, <2>1
  <2>2. CASE ~\E i \in DOMAIN rows : rows[i].id = id
    BY <1>5, <2>2 DEF WalkInv, ThreadIsLinked
  <2> QED
    BY <2>1, <2>2
<1>8. /\ <<>> \in Seq(Entries) /\ <<>> \in Seq(Finds) /\ <<>> \in Seq(ItemRequests)
      /\ Len(<<>>) = 0 /\ DOMAIN <<>> = {}
  OBVIOUS
<1> HIDE DEF rows
<1>9. WalkTypeOK'
  <2>1. pending' \in Seq(Entries)
    BY <1>1, <1>3, <1>8
  <2> QED
    BY <1>1, <1>2, <1>6, <1>8, <2>1 DEF WalkTypeOK
<1>10. IsInOnePlace'
  BY <1>1, <1>8 DEF IsInOnePlace
<1>11. \A id : ~IsFound(id)'
  BY <1>1, <1>8 DEF IsFound
<1>12. KidsAreKnown'
  <2> SUFFICES ASSUME collected' < Collections, NEW i \in DOMAIN kids[StoryItem]
               PROVE  \E k \in DOMAIN pending' : pending'[k].id = kids[StoryItem][i]
    BY <1>1, <1>11 DEF KidsAreKnown, IsPending
  <2> QED
    BY <1>1, <1>3
<1>13. ParentsAreFound'
  <2>1. \A i \in DOMAIN pending' : pending'[i].parent = StoryItem
    BY <1>1, <1>3, <1>8
  <2> QED
    BY <1>1, <1>8, <2>1 DEF ParentsAreFound, IsKnownParent
<1>14. collected' = Collections => pending' = <<>> /\ batch' = <<>> /\ found' = <<>>
  <2>1. collected' = Collections => ~(collected' < Collections)
    BY <1>2, ThreadAssumption
  <2> QED
    BY <1>1, <2>1
<1> QED
  BY <1>7, <1>9, <1>10, <1>12, <1>13, <1>14 DEF WalkInv

LEMMA WalkIsKept == WalkInv /\ [ThreadNext]_threadVars => WalkInv'
<1> SUFFICES ASSUME WalkInv, [ThreadNext]_threadVars PROVE WalkInv'
  OBVIOUS
<1>1. CASE UNCHANGED threadVars
  BY <1>1 DEF threadVars, WalkInv, WalkTypeOK, IsInOnePlace, KidsAreKnown, ParentsAreFound,
              IsKnownParent, IsFound, IsPending, ThreadIsLinked
<1>2. CASE ThreadNext
  BY <1>2, TakeBatchKeeps, RequestKeeps, ReadBatchKeeps, SaveCommentsKeeps DEF ThreadNext
<1> QED
  BY <1>1, <1>2

LEMMA WalkIsWhole == WalkInv => ThreadIsWhole
<1> SUFFICES ASSUME WalkInv PROVE ThreadIsWhole
  OBVIOUS
<1>1. WalkTypeOK /\ IsInOnePlace
  BY DEF WalkInv
<1>2. /\ pending \in Seq(Entries) /\ found \in Seq(Finds) /\ batch \in Seq(ItemRequests)
  BY <1>1 DEF WalkTypeOK
<1>3. visited = {found[i].id : i \in DOMAIN found} \cup {batch[i].id : i \in DOMAIN batch}
  BY <1>1 DEF IsInOnePlace
<1>4. ThreadTypeOK
  <2>0. /\ \A i \in DOMAIN pending : pending[i] \in Entries
        /\ \A i \in DOMAIN batch : batch[i] \in ItemRequests
        /\ \A i \in DOMAIN found : found[i] \in Finds
    BY <1>2
  <2>1. \A i \in DOMAIN pending : /\ pending[i].id \in Items
                                  /\ pending[i].parent \in Items \cup {StoryItem}
    <3>1. \A e \in Entries : e.id \in Items /\ e.parent \in Items \cup {StoryItem}
      BY DEF Entries, ThreadIds
    <3> QED
      BY <2>0, <3>1
  <2>2. \A i \in DOMAIN batch : batch[i] \in ItemRequests /\ batch[i].id \in Items
    <3>1. \A e \in ItemRequests : e.id \in Items
      BY DEF ItemRequests
    <3> QED
      BY <2>0, <3>1
  <2>3. \A i \in DOMAIN found : found[i].id \in Items /\ found[i].id \in visited
    <3>1. \A e \in Finds : e.id \in Items
      BY DEF Finds
    <3> QED
      BY <1>3, <2>0, <3>1
  <2>4. visited \subseteq Items
    BY <1>3, <2>2, <2>3
  <2> QED
    BY <1>1, <2>1, <2>2, <2>3, <2>4 DEF WalkTypeOK, ThreadTypeOK
<1>5. ASSUME pending = <<>>, batch = <<>>, NEW id \in Items \cup {StoryItem},
             \/ id = StoryItem /\ collected < Collections
             \/ id \in Items /\ FoundAs(id) \cap {"text", "blank", "deleted"} # {},
             NEW i \in DOMAIN kids[id]
      PROVE  FoundAs(kids[id][i]) # {}
  <2>1. (id = StoryItem /\ collected < Collections) \/ IsFound(id)
    BY <1>5 DEF FoundAs, IsFound, HasKids
  <2>2. ~IsPending(kids[id][i])
    BY <1>5 DEF IsPending
  <2>3. kids[id][i] \in visited
    BY <1>5, <2>1, <2>2 DEF WalkInv, KidsAreKnown, ThreadIds
  <2>4. PICK k \in DOMAIN found : found[k].id = kids[id][i]
    BY <1>3, <1>5, <2>3
  <2>5. found[k].what \in FoundAs(kids[id][i])
    BY <2>4 DEF FoundAs
  <2> QED
    BY <2>5
<1>6. WalkIsComplete
  BY <1>1, <1>5 DEF WalkIsComplete, IsInOnePlace
<1> QED
  BY <1>4, <1>6 DEF ThreadIsWhole, WalkInv

\* What a collection leaves is the thread, whatever the API answers between two
\* requests, for threads of any shape, ids that form circles included: an item
\* is found once, every kid of what was found has been asked for when the walk
\* is over, and a row is linked to its parent's (getCommentDescendants,
\* saveComments).
THEOREM ThreadsStayWhole == ThreadSpec => []ThreadIsWhole
<1> QED
  BY WalkInitially, WalkIsKept, WalkIsWhole, PTL DEF ThreadSpec

-----------------------------------------------------------------------------
(* Answers.                                                                *)

AnswerClaims == [ids : Seq(CitedIds), own : BOOLEAN]

\* What may be stored of an answer.
Outputs == [consensus : Seq(AnswerClaims), viewpoints : Seq(AnswerClaims),
            insights : Seq(CitedIds), thesis : BOOLEAN, notes : 0 .. MaxNotes,
            warned : BOOLEAN, confidence : {"given", "low"},
            summary : {"given", "limited", "rewritten"}, stored : {TRUE}]

\* Claims that are within the limits, each with support.
AreSupported(claims) ==
    /\ claims \in Seq(AnswerClaims) /\ Len(claims) <= MaxClaims
    /\ \A i \in DOMAIN claims : /\ claims[i].ids # <<>>
                                /\ Len(claims[i].ids) <= MaxSupport

AreSelected(claims) ==
    \A i \in DOMAIN claims : ToSet(claims[i].ids) \subseteq SelectedComments

AreOwn(claims) == \A i \in DOMAIN claims : claims[i].own

\* The output o is what a stored answer a may have become.
IsMadeOf(o, a) ==
    /\ AreSupported(o.consensus) /\ AreSupported(o.viewpoints)
    /\ AreSelected(o.consensus) /\ AreSelected(o.viewpoints)
    /\ Len(o.insights) <= MaxInsights /\ ToSet(o.insights) \subseteq SelectedComments
    /\ o.confidence = "given" =>
          /\ Len(o.consensus) = Len(NormalizedAnswer(a).consensus)
          /\ Len(o.viewpoints) = Len(NormalizedAnswer(a).viewpoints)
          /\ Len(o.insights) = Len(NormalizedAnswer(a).insights)
    /\ o.confidence = "low" => o.warned

\* The inductive invariant.  A job that may still be asked has been answered
\* less often than it was claimed, and less often than may be tried.
AnswersInv ==
    /\ analysisState \in {"queued", "running", "succeeded", "failed", "incomplete"}
    /\ attempts \in 0 .. MaxAttempts /\ answered \in 0 .. attempts
    /\ answer \in LlmAnswers \cup {NoAnswer}
    /\ analysisState # "succeeded" => output = NoOutput
    /\ analysisState = "succeeded" =>
          /\ output \in Outputs /\ answer \in LlmAnswers
          /\ IsMadeOf(output, answer) /\ OnlyTheShownIsRewritten
          /\ output.confidence = "low" => attempts >= MaxCitationAttempts
          /\ output.summary # "rewritten" =>
                AreOwn(output.consensus) /\ AreOwn(output.viewpoints)
    /\ answered <= MaxCitationAttempts
    /\ analysisState \in {"queued", "running"} => answered < MaxCitationAttempts
    /\ analysisState = "running" => answered < attempts

LEMMA AtMostFacts ==
    ASSUME NEW T, NEW seq \in Seq(T), NEW n \in Nat
    PROVE  /\ AtMost(seq, n) \in Seq(T)
           /\ Len(AtMost(seq, n)) <= n /\ Len(AtMost(seq, n)) <= Len(seq)
           /\ \A i \in DOMAIN AtMost(seq, n) :
                 i \in DOMAIN seq /\ AtMost(seq, n)[i] = seq[i]
BY DEF AtMost

\* What stays of a sequence is some of it.
LEMMA EntriesAtAreSome ==
    ASSUME NEW T, NEW seq \in Seq(T), NEW S
    PROVE  /\ EntriesAt(seq, S) \in Seq(T)
           /\ Len(EntriesAt(seq, S)) <= Len(seq)
           /\ \A k \in DOMAIN EntriesAt(seq, S) :
                 \E i \in DOMAIN seq \cap S : EntriesAt(seq, S)[k] = seq[i]
BY EntriesAtFacts

LEMMA NormalizedClaimsFacts ==
    ASSUME NEW claims \in Seq(Seq(CitedIds))
    PROVE  AreSupported(NormalizedClaims(claims)) /\ AreOwn(NormalizedClaims(claims))
<1> DEFINE all == [i \in DOMAIN claims |->
                   [ids |-> AtMost(Deduplicated(claims[i]), MaxSupport), own |-> TRUE]]
           S == {i \in DOMAIN all : all[i].ids # <<>>}
           some == EntriesAt(all, S)
<1>1. MaxSupport \in Nat /\ MaxClaims \in Nat
  BY AnswerAssumption
<1>2. ASSUME NEW i \in DOMAIN claims
      PROVE  /\ AtMost(Deduplicated(claims[i]), MaxSupport) \in Seq(CitedIds)
             /\ Len(AtMost(Deduplicated(claims[i]), MaxSupport)) <= MaxSupport
  <2>1. claims[i] \in Seq(CitedIds)
    OBVIOUS
  <2>2. Deduplicated(claims[i]) \in Seq(CitedIds)
    BY <2>1, EntriesAtAreSome DEF Deduplicated
  <2> QED
    BY <1>1, <2>2, AtMostFacts
<1>3. /\ all \in Seq(AnswerClaims) /\ DOMAIN all = DOMAIN claims
      /\ \A i \in DOMAIN claims : Len(all[i].ids) <= MaxSupport /\ all[i].own
  <2>1. \A i \in DOMAIN claims : /\ all[i] \in AnswerClaims /\ all[i].own
                                 /\ Len(all[i].ids) <= MaxSupport
    BY <1>2 DEF AnswerClaims
  <2>2. DOMAIN claims = 1 .. Len(claims) /\ Len(claims) \in Nat
    OBVIOUS
  <2>3. all = [i \in 1 .. Len(claims) |-> all[i]]
    BY <2>2
  <2> HIDE DEF all
  <2>4. all \in Seq(AnswerClaims) /\ DOMAIN all = 1 .. Len(claims)
    BY <2>1, <2>2, <2>3
  <2> QED
    BY <2>1, <2>2, <2>4
<1> HIDE DEF all
<1>4. /\ some \in Seq(AnswerClaims)
      /\ \A k \in DOMAIN some : \E i \in DOMAIN all \cap S : some[k] = all[i]
  <2> HIDE DEF S
  <2> QED
    BY <1>3, EntriesAtAreSome
<1>5. \A k \in DOMAIN some : /\ some[k].ids # <<>> /\ some[k].own
                             /\ Len(some[k].ids) <= MaxSupport
  <2> HIDE DEF some
  <2> QED
    BY <1>3, <1>4
<1>6. NormalizedClaims(claims) = AtMost(some, MaxClaims)
  BY DEF NormalizedClaims, all
<1> HIDE DEF some, S
<1> DEFINE c == AtMost(some, MaxClaims)
<1>7. /\ c \in Seq(AnswerClaims) /\ Len(c) <= MaxClaims
      /\ \A i \in DOMAIN c : i \in DOMAIN some /\ c[i] = some[i]
  BY <1>1, <1>4, AtMostFacts
<1> HIDE DEF c
<1>8. AreSupported(c) /\ AreOwn(c)
  BY <1>5, <1>7 DEF AreSupported, AreOwn
<1> QED
  BY <1>6, <1>8 DEF c

LEMMA SelectedOfFacts ==
    ASSUME NEW ids \in Seq(CitedIds)
    PROVE  /\ SelectedOf(ids) \in Seq(CitedIds)
           /\ Len(SelectedOf(ids)) <= Len(ids)
           /\ ToSet(SelectedOf(ids)) \subseteq SelectedComments
<1> DEFINE S == {i \in DOMAIN ids : ids[i] \in SelectedComments}
<1>1. SelectedOf(ids) = EntriesAt(ids, S)
  BY DEF SelectedOf
<1>2. \A i \in DOMAIN ids \cap S : ids[i] \in SelectedComments
  OBVIOUS
<1> HIDE DEF S
<1>3. /\ SelectedOf(ids) \in Seq(CitedIds)
      /\ Len(SelectedOf(ids)) <= Len(ids)
      /\ \A k \in DOMAIN SelectedOf(ids) :
            \E i \in DOMAIN ids \cap S : SelectedOf(ids)[k] = ids[i]
  BY <1>1, EntriesAtAreSome
<1> QED
  BY <1>2, <1>3 DEF ToSet

LEMMA PrunedClaimsFacts ==
    ASSUME NEW claims, AreSupported(claims)
    PROVE  /\ AreSupported(PrunedClaims(claims))
           /\ Len(PrunedClaims(claims)) = Len(claims)
           /\ AreOwn(claims) => AreOwn(PrunedClaims(claims))
           /\ (\A i \in DOMAIN claims : SelectedOf(claims[i].ids) # <<>>)
                 => AreSelected(PrunedClaims(claims))
<1> DEFINE pruned == PrunedClaims(claims)
<1>1. claims \in Seq(AnswerClaims) /\ DOMAIN claims = 1 .. Len(claims)
  BY DEF AreSupported
<1>2. ASSUME NEW i \in DOMAIN claims
      PROVE  /\ pruned[i] \in AnswerClaims /\ pruned[i].ids # <<>>
             /\ Len(pruned[i].ids) <= MaxSupport
             /\ pruned[i].own = claims[i].own
             /\ SelectedOf(claims[i].ids) # <<>> =>
                   ToSet(pruned[i].ids) \subseteq SelectedComments
  <2>0. claims[i] \in AnswerClaims
    <3> HIDE DEF pruned
    <3> QED
      BY <1>1
  <2>1. /\ claims[i] \in AnswerClaims /\ claims[i].ids \in Seq(CitedIds)
        /\ claims[i].ids # <<>> /\ Len(claims[i].ids) <= MaxSupport
    BY <2>0 DEF AreSupported, AnswerClaims
  <2>2. pruned[i] = IF SelectedOf(claims[i].ids) = <<>> THEN claims[i]
                    ELSE [claims[i] EXCEPT !.ids = SelectedOf(claims[i].ids)]
    BY DEF PrunedClaims
  <2> DEFINE kept == SelectedOf(claims[i].ids)
  <2>3. /\ kept \in Seq(CitedIds) /\ Len(kept) <= Len(claims[i].ids)
        /\ ToSet(kept) \subseteq SelectedComments
    BY <2>1, SelectedOfFacts
  <2>4. CASE kept = <<>>
    BY <2>1, <2>2, <2>4
  <2>5. CASE kept # <<>>
    <3> DEFINE new == [claims[i] EXCEPT !.ids = kept]
    <3> HIDE DEF kept, pruned
    <3>1. new \in AnswerClaims /\ new.ids = kept /\ new.own = claims[i].own
      BY <2>1, <2>3 DEF AnswerClaims
    <3>2. pruned[i] = new
      BY <2>2, <2>5 DEF kept
    <3>3. Len(kept) <= MaxSupport
      <4>1. MaxSupport \in Nat /\ Len(kept) \in Nat /\ Len(claims[i].ids) \in Nat
        BY <2>1, <2>3, AnswerAssumption
      <4> QED
        BY <2>1, <2>3, <4>1
    <3> HIDE DEF new
    <3> QED
      BY <2>3, <2>5, <3>1, <3>2, <3>3
  <2> QED
    BY <2>4, <2>5
<1>3. pruned = [i \in 1 .. Len(claims) |-> pruned[i]] /\ Len(claims) \in Nat
  BY <1>1 DEF PrunedClaims
<1> HIDE DEF pruned
<1>4. pruned \in Seq(AnswerClaims) /\ Len(pruned) = Len(claims)
      /\ DOMAIN pruned = DOMAIN claims
  BY <1>1, <1>2, <1>3
<1>5. AreSupported(pruned)
  BY <1>2, <1>4 DEF AreSupported
<1>6. AreOwn(claims) => AreOwn(pruned)
  BY <1>2, <1>4 DEF AreOwn
<1>7. (\A i \in DOMAIN claims : SelectedOf(claims[i].ids) # <<>>) => AreSelected(pruned)
  BY <1>2, <1>4 DEF AreSelected
<1> QED
  BY <1>4, <1>5, <1>6, <1>7 DEF pruned

LEMMA GroundedFacts ==
    ASSUME NEW claims, AreSupported(claims)
    PROVE  /\ AreSupported(Grounded(claims)) /\ AreSelected(Grounded(claims))
           /\ AreOwn(claims) => AreOwn(Grounded(claims))
<1> DEFINE S == {i \in DOMAIN claims : SelectedOf(claims[i].ids) # <<>>}
           some == EntriesAt(claims, S)
<1>1. claims \in Seq(AnswerClaims)
  BY DEF AreSupported
<1>2. /\ some \in Seq(AnswerClaims) /\ Len(some) <= Len(claims)
      /\ \A k \in DOMAIN some : \E i \in DOMAIN claims \cap S : some[k] = claims[i]
  <2> HIDE DEF S
  <2> QED
    BY <1>1, EntriesAtAreSome
<1> HIDE DEF some
<1>3. AreSupported(some)
  <2>1. Len(some) <= MaxClaims
    <3>1. Len(some) \in Nat /\ Len(claims) \in Nat /\ MaxClaims \in Nat
      BY <1>1, <1>2, AnswerAssumption
    <3> QED
      BY <1>2, <3>1 DEF AreSupported
  <2> QED
    BY <1>2, <2>1 DEF AreSupported
<1>4. \A i \in DOMAIN some : SelectedOf(some[i].ids) # <<>>
  BY <1>2
<1>5. AreOwn(claims) => AreOwn(some)
  BY <1>2 DEF AreOwn
<1>6. Grounded(claims) = PrunedClaims(some)
  BY DEF Grounded, some
<1> QED
  BY <1>3, <1>4, <1>5, <1>6, PrunedClaimsFacts

LEMMA NormalizedFacts ==
    ASSUME NEW a \in LlmAnswers
    PROVE  /\ NormalizedAnswer(a) \in Outputs
           /\ AreSupported(NormalizedAnswer(a).consensus)
           /\ AreSupported(NormalizedAnswer(a).viewpoints)
           /\ AreOwn(NormalizedAnswer(a).consensus)
           /\ AreOwn(NormalizedAnswer(a).viewpoints)
           /\ Len(NormalizedAnswer(a).insights) <= MaxInsights
           /\ NormalizedAnswer(a).confidence = "given"
           /\ NormalizedAnswer(a).summary = "given"
<1>1. /\ a.consensus \in Seq(Seq(CitedIds)) /\ a.viewpoints \in Seq(Seq(CitedIds))
      /\ a.insights \in Seq(CitedIds) /\ a.thesis \in BOOLEAN /\ a.notes \in Nat
      /\ MaxInsights \in Nat /\ MaxNotes \in Nat
  BY AnswerAssumption
<1>2. /\ AreSupported(NormalizedClaims(a.consensus)) /\ AreOwn(NormalizedClaims(a.consensus))
      /\ AreSupported(NormalizedClaims(a.viewpoints)) /\ AreOwn(NormalizedClaims(a.viewpoints))
  BY <1>1, NormalizedClaimsFacts
<1>3. AtMost(a.insights, MaxInsights) \in Seq(CitedIds)
      /\ Len(AtMost(a.insights, MaxInsights)) <= MaxInsights
  BY <1>1, AtMostFacts
<1>4. (IF a.notes < MaxNotes THEN a.notes ELSE MaxNotes) \in 0 .. MaxNotes
  BY <1>1
<1>5. /\ NormalizedClaims(a.consensus) \in Seq(AnswerClaims)
      /\ NormalizedClaims(a.viewpoints) \in Seq(AnswerClaims)
  BY <1>2 DEF AreSupported
<1> QED
  BY <1>1, <1>2, <1>3, <1>4, <1>5 DEF NormalizedAnswer, Outputs

LEMMA CitedParts ==
    ASSUME NEW o, Cited(o) \subseteq SelectedComments
    PROVE  /\ AreSelected(o.consensus) /\ AreSelected(o.viewpoints)
           /\ ToSet(o.insights) \subseteq SelectedComments
<1> DEFINE C == {ToSet(o.consensus[i].ids) : i \in DOMAIN o.consensus}
           V == {ToSet(o.viewpoints[i].ids) : i \in DOMAIN o.viewpoints}
<1>0. Cited(o) = (UNION C) \cup (UNION V) \cup ToSet(o.insights)
  BY Zenon DEF Cited
<1>1. ASSUME NEW i \in DOMAIN o.consensus
      PROVE  ToSet(o.consensus[i].ids) \subseteq Cited(o)
  <2>1. ToSet(o.consensus[i].ids) \in C
    OBVIOUS
  <2> HIDE DEF C, V
  <2> QED
    BY <1>0, <2>1
<1>2. ASSUME NEW i \in DOMAIN o.viewpoints
      PROVE  ToSet(o.viewpoints[i].ids) \subseteq Cited(o)
  <2>1. ToSet(o.viewpoints[i].ids) \in V
    OBVIOUS
  <2> HIDE DEF C, V
  <2> QED
    BY <1>0, <2>1
<1> HIDE DEF C, V
<1>3. ToSet(o.insights) \subseteq Cited(o)
  BY <1>0
<1> QED
  BY <1>1, <1>2, <1>3 DEF AreSelected

\* What pruning leaves fits the contract, and is as long as before.
LEMMA PrunedFacts ==
    ASSUME NEW a \in LlmAnswers
    PROVE  LET o == Pruned(NormalizedAnswer(a)) IN
           /\ o \in Outputs
           /\ AreSupported(o.consensus) /\ AreSupported(o.viewpoints)
           /\ AreOwn(o.consensus) /\ AreOwn(o.viewpoints)
           /\ Len(o.consensus) = Len(NormalizedAnswer(a).consensus)
           /\ Len(o.viewpoints) = Len(NormalizedAnswer(a).viewpoints)
           /\ o.insights = NormalizedAnswer(a).insights
           /\ o.confidence = "given" /\ o.summary = "given"
<1> DEFINE n == NormalizedAnswer(a)
           o == Pruned(n)
<1>1. /\ n \in Outputs /\ AreSupported(n.consensus) /\ AreSupported(n.viewpoints)
      /\ AreOwn(n.consensus) /\ AreOwn(n.viewpoints)
      /\ n.confidence = "given" /\ n.summary = "given"
  BY NormalizedFacts
<1> HIDE DEF n
<1> DEFINE c == PrunedClaims(n.consensus)
           v == PrunedClaims(n.viewpoints)
<1>2. /\ AreSupported(c) /\ Len(c) = Len(n.consensus) /\ AreOwn(c)
      /\ AreSupported(v) /\ Len(v) = Len(n.viewpoints) /\ AreOwn(v)
  BY <1>1, PrunedClaimsFacts
<1>3. c \in Seq(AnswerClaims) /\ v \in Seq(AnswerClaims)
  BY <1>2 DEF AreSupported
<1>4. o = [n EXCEPT !.consensus = c, !.viewpoints = v]
  BY DEF Pruned
<1> HIDE DEF c, v, o
<1>5. /\ o \in Outputs /\ o.consensus = c /\ o.viewpoints = v
      /\ o.insights = n.insights /\ o.confidence = n.confidence /\ o.summary = n.summary
  BY <1>1, <1>3, <1>4 DEF Outputs
<1> QED
  BY <1>1, <1>2, <1>5 DEF o, n

LEMMA DegradedFacts ==
    ASSUME NEW o \in Outputs, AreSupported(o.consensus), AreSupported(o.viewpoints),
           AreOwn(o.consensus), AreOwn(o.viewpoints),
           Len(o.insights) <= MaxInsights
    PROVE  LET d == Degraded(o) IN
           /\ d \in Outputs
           /\ AreSupported(d.consensus) /\ AreSupported(d.viewpoints)
           /\ AreSelected(d.consensus) /\ AreSelected(d.viewpoints)
           /\ AreOwn(d.consensus) /\ AreOwn(d.viewpoints)
           /\ Len(d.insights) <= MaxInsights
           /\ ToSet(d.insights) \subseteq SelectedComments
           /\ d.confidence = "low" /\ d.warned
<1> DEFINE c == Grounded(o.consensus)
           v == Grounded(o.viewpoints)
           i == SelectedOf(o.insights)
           m == IF o.notes < MaxNotes THEN o.notes + 1 ELSE MaxNotes
           d == Degraded(o)
<1>1. /\ AreSupported(c) /\ AreSelected(c) /\ AreOwn(c)
      /\ AreSupported(v) /\ AreSelected(v) /\ AreOwn(v)
  BY GroundedFacts
<1>2. c \in Seq(AnswerClaims) /\ v \in Seq(AnswerClaims)
  BY <1>1 DEF AreSupported
<1>3. o.insights \in Seq(CitedIds) /\ o.notes \in 0 .. MaxNotes /\ MaxNotes \in Nat
      /\ MaxInsights \in Nat
  BY AnswerAssumption DEF Outputs
<1>4. /\ i \in Seq(CitedIds) /\ Len(i) <= Len(o.insights)
      /\ ToSet(i) \subseteq SelectedComments
  BY <1>3, SelectedOfFacts
<1>5. Len(i) <= MaxInsights
  <2> HIDE DEF i
  <2>1. Len(i) \in Nat /\ Len(o.insights) \in Nat
    BY <1>3, <1>4
  <2> QED
    BY <1>3, <1>4, <2>1
<1>6. m \in 0 .. MaxNotes
  BY <1>3
<1>7. d = [o EXCEPT !.consensus = c, !.viewpoints = v, !.insights = i, !.notes = m,
                    !.warned = TRUE, !.confidence = "low", !.summary = "limited"]
  BY DEF Degraded
<1> HIDE DEF c, v, i, m, d
<1>8. /\ d \in Outputs /\ d.consensus = c /\ d.viewpoints = v /\ d.insights = i
      /\ d.confidence = "low" /\ d.warned
  BY <1>2, <1>4, <1>6, <1>7 DEF Outputs
<1> QED
  BY <1>1, <1>4, <1>5, <1>8 DEF d

-----------------------------------------------------------------------------
(* Steps.                                                                  *)

LEMMA AnswersInitially == AnswerInit => AnswersInv
BY AnswerAssumption DEF AnswerInit, AnswersInv

LEMMA ClaimAnalysisKeeps ==
    ASSUME AnswersInv, ClaimAnalysis
    PROVE  AnswersInv'
<1>1. /\ attempts \in Nat /\ answered \in Nat /\ MaxAttempts \in Nat
      /\ attempts < MaxAttempts /\ answered <= attempts
      /\ attempts' = attempts + 1 /\ answered' = answered
  BY AnswerAssumption DEF AnswersInv, ClaimAnalysis
<1>2. attempts' \in 0 .. MaxAttempts /\ answered' \in 0 .. attempts' /\ answered' < attempts'
  BY <1>1
<1>3. /\ analysisState' = "running" /\ analysisState \in {"queued", "running"}
      /\ UNCHANGED <<answer, output>>
  BY DEF ClaimAnalysis
<1> QED
  BY <1>1, <1>2, <1>3 DEF AnswersInv

\* An answer that is not stored: the job ends when it may not be asked again.
LEMMA ThrowsKeeps ==
    ASSUME AnswersInv, analysisState = "running", answered' = answered + 1,
           attempts' = attempts, NEW last \in {"failed", "incomplete"}, Throws(last)
    PROVE  AnswersInv'
<1>1. /\ attempts \in 0 .. MaxAttempts /\ answered \in 0 .. attempts
      /\ MaxAttempts \in Nat /\ MaxCitationAttempts \in Nat
      /\ answered < attempts /\ answered < MaxCitationAttempts
  BY AnswerAssumption DEF AnswersInv
<1>2. answered' \in 0 .. attempts /\ answered' <= MaxCitationAttempts
  BY <1>1
<1>3. UNCHANGED <<answer, output>> /\ output = NoOutput
  BY DEF Throws, AnswersInv
<1>4. CASE MayAskAgain
  <2>1. analysisState' = "queued" /\ answered' < MaxCitationAttempts
    BY <1>1, <1>4 DEF Throws, MayAskAgain
  <2> QED
    BY <1>1, <1>2, <1>3, <2>1 DEF AnswersInv
<1>5. CASE ~MayAskAgain
  <2>1. analysisState' \in {"failed", "incomplete"}
    BY <1>5 DEF Throws
  <2> QED
    BY <1>1, <1>2, <1>3, <2>1 DEF AnswersInv
<1> QED
  BY <1>4, <1>5

LEMMA StoresKeeps ==
    ASSUME AnswersInv, analysisState = "running", answered' = answered + 1,
           attempts' = attempts, NEW a \in LlmAnswers, NEW o \in Outputs,
           IsMadeOf(o, a), AreOwn(o.consensus), AreOwn(o.viewpoints),
           o.confidence = "low" => attempts >= MaxCitationAttempts,
           Stores(a, o)
    PROVE  AnswersInv'
<1>1. /\ attempts \in 0 .. MaxAttempts /\ answered \in 0 .. attempts
      /\ MaxAttempts \in Nat /\ MaxCitationAttempts \in Nat
      /\ answered < attempts /\ answered < MaxCitationAttempts
  BY AnswerAssumption DEF AnswersInv
<1>2. answered' \in 0 .. attempts /\ answered' <= MaxCitationAttempts
  BY <1>1
<1>3. analysisState' = "succeeded" /\ answer' = a /\ output' = o
  BY DEF Stores
<1>4. OnlyTheShownIsRewritten'
  BY <1>3 DEF OnlyTheShownIsRewritten, AreOwn
<1>5. IsMadeOf(output, answer)' /\ AreOwn(output.consensus)' /\ AreOwn(output.viewpoints)'
  BY <1>3 DEF IsMadeOf, AreOwn, AreSupported, AreSelected, NormalizedAnswer
<1> QED
  BY <1>1, <1>2, <1>3, <1>4, <1>5 DEF AnswersInv

LEMMA ProcessAnswerKeeps ==
    ASSUME AnswersInv, ProcessAnswer
    PROVE  AnswersInv'
<1>1. /\ analysisState = "running" /\ answered' = answered + 1 /\ attempts' = attempts
  BY DEF ProcessAnswer
<1>2. PICK a \in LlmAnswers :
          \/ Throws("incomplete")
          \/ Throws("failed")
          \/ LET o == Pruned(NormalizedAnswer(a)) IN
             \/ CitesSelected(o) /\ Stores(a, o)
             \/ attempts >= MaxCitationAttempts /\ Stores(a, Degraded(o))
  <2>1. PICK a \in LlmAnswers :
          LET o == Pruned(NormalizedAnswer(a)) IN
          CASE a.prose = "cut"     -> Throws("incomplete")
            [] a.prose = "foreign" -> Throws("failed")
            [] a.prose = "whole"   ->
                 IF CitesSelected(o) THEN Stores(a, o)
                 ELSE IF attempts >= MaxCitationAttempts THEN Stores(a, Degraded(o))
                 ELSE Throws("failed")
    BY DEF ProcessAnswer
  <2>2. a.prose \in {"whole", "cut", "foreign"}
    BY AnswerAssumption
  <2> QED
    BY <2>1, <2>2
<1> DEFINE o == Pruned(NormalizedAnswer(a))
<1>3. /\ o \in Outputs
      /\ AreSupported(o.consensus) /\ AreSupported(o.viewpoints)
      /\ AreOwn(o.consensus) /\ AreOwn(o.viewpoints)
      /\ Len(o.consensus) = Len(NormalizedAnswer(a).consensus)
      /\ Len(o.viewpoints) = Len(NormalizedAnswer(a).viewpoints)
      /\ o.insights = NormalizedAnswer(a).insights
      /\ o.confidence = "given"
  BY PrunedFacts
<1>4. Len(o.insights) <= MaxInsights
  BY <1>3, NormalizedFacts
<1>5. \/ Throws("incomplete")
      \/ Throws("failed")
      \/ CitesSelected(o) /\ Stores(a, o)
      \/ attempts >= MaxCitationAttempts /\ Stores(a, Degraded(o))
  BY <1>2
<1> HIDE DEF o
<1>6. CASE Throws("incomplete") \/ Throws("failed")
  BY <1>1, <1>6, ThrowsKeeps
<1>7. CASE CitesSelected(o) /\ Stores(a, o)
  <2>1. /\ AreSelected(o.consensus) /\ AreSelected(o.viewpoints)
        /\ ToSet(o.insights) \subseteq SelectedComments
    BY <1>7, CitedParts DEF CitesSelected
  <2>2. IsMadeOf(o, a)
    BY <1>3, <1>4, <2>1 DEF IsMadeOf
  <2> QED
    BY <1>1, <1>3, <1>7, <2>2, StoresKeeps
<1>8. CASE attempts >= MaxCitationAttempts /\ Stores(a, Degraded(o))
  <2> DEFINE d == Degraded(o)
  <2>1. /\ d \in Outputs
        /\ AreSupported(d.consensus) /\ AreSupported(d.viewpoints)
        /\ AreSelected(d.consensus) /\ AreSelected(d.viewpoints)
        /\ AreOwn(d.consensus) /\ AreOwn(d.viewpoints)
        /\ Len(d.insights) <= MaxInsights
        /\ ToSet(d.insights) \subseteq SelectedComments
        /\ d.confidence = "low" /\ d.warned
    BY <1>3, <1>4, DegradedFacts
  <2>2. Stores(a, d)
    BY <1>8
  <2> HIDE DEF d
  <2>3. IsMadeOf(d, a)
    BY <2>1 DEF IsMadeOf
  <2> QED
    BY <1>1, <1>8, <2>1, <2>2, <2>3, StoresKeeps
<1> QED
  BY <1>5, <1>6, <1>7, <1>8

\* One claim is rewritten: its ids stay.
LEMMA RewrittenFacts ==
    ASSUME NEW claims, AreSupported(claims), AreSelected(claims), AreOwn(claims),
           claims # <<>>,
           NEW new, new = [claims EXCEPT ![1].own = FALSE]
    PROVE  /\ AreSupported(new) /\ AreSelected(new) /\ Len(new) = Len(claims)
           /\ \A i \in DOMAIN new : ~new[i].own => i = 1
           /\ new # <<>>
<1>1. /\ claims \in Seq(AnswerClaims) /\ DOMAIN claims = 1 .. Len(claims)
      /\ Len(claims) \in Nat /\ 1 \in DOMAIN claims
  BY DEF AreSupported
<1>2. new = [i \in 1 .. Len(claims) |->
                IF i = 1 THEN [claims[i] EXCEPT !.own = FALSE] ELSE claims[i]]
  BY <1>1
<1>3. \A i \in 1 .. Len(claims) : claims[i] \in AnswerClaims
  BY <1>1
<1>4. \A i \in 1 .. Len(claims) : /\ new[i] \in AnswerClaims
                                  /\ new[i].ids = claims[i].ids
                                  /\ i # 1 => new[i].own = claims[i].own
  BY <1>2, <1>3 DEF AnswerClaims
<1>5. new = [i \in 1 .. Len(claims) |-> new[i]]
  BY <1>2
<1>6. /\ new \in Seq(AnswerClaims) /\ Len(new) = Len(claims)
      /\ DOMAIN new = 1 .. Len(claims)
  <2>1. Len(claims) \in Nat
    BY <1>1
  <2>2. \A i \in 1 .. Len(claims) : new[i] \in AnswerClaims
    BY <1>4
  <2>3. \A f : f = [i \in 1 .. Len(claims) |-> f[i]]
                 /\ (\A i \in 1 .. Len(claims) : f[i] \in AnswerClaims)
               => /\ f \in Seq(AnswerClaims) /\ Len(f) = Len(claims)
                  /\ DOMAIN f = 1 .. Len(claims)
    BY <2>1, IsSequence
  <2> QED
    BY <2>2, <1>5, <2>3
<1>7. AreSupported(new) /\ AreSelected(new)
  BY <1>1, <1>4, <1>6 DEF AreSupported, AreSelected
<1>8. new # <<>>
  BY <1>1, <1>6
<1> QED
  BY <1>1, <1>4, <1>6, <1>7, <1>8 DEF AreOwn

LEMMA HumanizeKeeps ==
    ASSUME AnswersInv, Humanize
    PROVE  AnswersInv'
<1> DEFINE c == output.consensus
           v == output.viewpoints
<1>1. /\ analysisState = "succeeded" /\ output.summary # "rewritten"
      /\ UNCHANGED <<analysisState, attempts, answered, answer>>
      /\ \/ output' = [Humanized(output) EXCEPT !.summary = "rewritten"]
         \/ output' = [output EXCEPT !.summary = "rewritten"]
  BY DEF Humanize
<1>2. /\ output \in Outputs /\ answer \in LlmAnswers /\ IsMadeOf(output, answer)
      /\ AreOwn(c) /\ AreOwn(v)
      /\ output.confidence = "low" => attempts >= MaxCitationAttempts
  BY <1>1 DEF AnswersInv
<1>3. /\ AreSupported(c) /\ AreSupported(v) /\ AreSelected(c) /\ AreSelected(v)
  BY <1>2 DEF IsMadeOf
<1>4. ASSUME NEW c1, NEW v1, output' = [output EXCEPT !.consensus = c1, !.viewpoints = v1,
                                                      !.summary = "rewritten"],
             AreSupported(c1), AreSelected(c1), AreSupported(v1), AreSelected(v1),
             Len(c1) = Len(c), Len(v1) = Len(v),
             \A i \in DOMAIN c1 : ~c1[i].own => i = 1,
             \A i \in DOMAIN v1 : ~v1[i].own => i = 1 /\ c1 = <<>>
      PROVE  AnswersInv'
  <2>1. c1 \in Seq(AnswerClaims) /\ v1 \in Seq(AnswerClaims)
    BY <1>4 DEF AreSupported
  <2>2. /\ output' \in Outputs /\ output'.consensus = c1 /\ output'.viewpoints = v1
        /\ output'.insights = output.insights /\ output'.confidence = output.confidence
        /\ output'.warned = output.warned /\ output'.summary = "rewritten"
    BY <1>2, <1>4, <2>1 DEF Outputs
  <2>3. IsMadeOf(output', answer)
    BY <1>2, <1>4, <2>2 DEF IsMadeOf
  <2>4. IsMadeOf(output, answer)'
    BY <1>1, <2>3 DEF IsMadeOf, AreSupported, AreSelected, NormalizedAnswer
  <2>5. OnlyTheShownIsRewritten'
    BY <1>4, <2>2 DEF OnlyTheShownIsRewritten
  <2>6. UNCHANGED <<analysisState, attempts, answered, answer>>
    BY <1>1
  <2> QED
    BY <1>1, <1>2, <2>2, <2>4, <2>5, <2>6 DEF AnswersInv
<1>5. CASE output' = [output EXCEPT !.summary = "rewritten"]
  <2>1. output' = [output EXCEPT !.consensus = c, !.viewpoints = v,
                                 !.summary = "rewritten"]
    BY <1>2, <1>5 DEF Outputs
  <2>2. (\A i \in DOMAIN c : c[i].own) /\ (\A i \in DOMAIN v : v[i].own)
    BY <1>2 DEF AreOwn
  <2> HIDE DEF c, v
  <2> QED
    BY <1>3, <1>4, <2>1, <2>2
<1>6. CASE output' = [Humanized(output) EXCEPT !.summary = "rewritten"]
  <2>1. CASE c # <<>>
    <3> DEFINE c1 == [c EXCEPT ![1].own = FALSE]
    <3>1. output' = [output EXCEPT !.consensus = c1, !.viewpoints = v,
                                   !.summary = "rewritten"]
      <4>1. Humanized(output) = [output EXCEPT !.consensus[1].own = FALSE]
        BY <2>1 DEF Humanized
      <4>2. Humanized(output) = [output EXCEPT !.consensus = c1]
        BY <1>2, <4>1 DEF Outputs
      <4> HIDE DEF c1
      <4> QED
        BY <1>2, <1>6, <4>2 DEF Outputs
    <3>2. /\ AreSupported(c1) /\ AreSelected(c1) /\ Len(c1) = Len(c)
          /\ \A i \in DOMAIN c1 : ~c1[i].own => i = 1
      <4> HIDE DEF c
      <4> QED
        BY <1>2, <1>3, <2>1, RewrittenFacts
    <3>3. \A i \in DOMAIN v : v[i].own
      BY <1>2 DEF AreOwn
    <3> HIDE DEF c1, c, v
    <3> QED
      BY <1>3, <1>4, <3>1, <3>2, <3>3
  <2>2. CASE c = <<>> /\ v # <<>>
    <3> DEFINE v1 == [v EXCEPT ![1].own = FALSE]
    <3>1. output' = [output EXCEPT !.consensus = c, !.viewpoints = v1,
                                   !.summary = "rewritten"]
      <4>1. Humanized(output) = [output EXCEPT !.viewpoints[1].own = FALSE]
        BY <2>2 DEF Humanized
      <4>2. Humanized(output) = [output EXCEPT !.viewpoints = v1]
        BY <1>2, <4>1 DEF Outputs
      <4> HIDE DEF v1
      <4> QED
        BY <1>2, <1>6, <4>2 DEF Outputs
    <3>2. /\ AreSupported(v1) /\ AreSelected(v1) /\ Len(v1) = Len(v)
          /\ \A i \in DOMAIN v1 : ~v1[i].own => i = 1
      <4> HIDE DEF v
      <4> QED
        BY <1>2, <1>3, <2>2, RewrittenFacts
    <3>3. \A i \in DOMAIN c : c[i].own
      BY <1>2 DEF AreOwn
    <3> HIDE DEF v1, c, v
    <3> QED
      BY <1>3, <1>4, <2>2, <3>1, <3>2, <3>3
  <2>3. CASE c = <<>> /\ v = <<>>
    <3>1. Humanized(output) = output
      BY <2>3 DEF Humanized
    <3> QED
      BY <1>5, <1>6, <3>1
  <2> QED
    BY <2>1, <2>2, <2>3
<1> QED
  BY <1>1, <1>5, <1>6

LEMMA AnswersAreKept == AnswersInv /\ [AnswerNext]_answerVars => AnswersInv'
<1> SUFFICES ASSUME AnswersInv, [AnswerNext]_answerVars PROVE AnswersInv'
  OBVIOUS
<1>1. CASE UNCHANGED answerVars
  BY <1>1 DEF answerVars, AnswersInv, OnlyTheShownIsRewritten, IsMadeOf, AreSupported,
              AreSelected, AreOwn, NormalizedAnswer
<1>2. CASE AnswerNext
  BY <1>2, ClaimAnalysisKeeps, ProcessAnswerKeeps, HumanizeKeeps DEF AnswerNext
<1> QED
  BY <1>1, <1>2

LEMMA AnswersInvIsSound == AnswersInv => AnswersAreSound
<1> SUFFICES ASSUME AnswersInv PROVE AnswersAreSound
  OBVIOUS
<1>1. output.stored <=> analysisState = "succeeded"
  <2>1. NoOutput.stored = FALSE
    BY DEF NoOutput
  <2>2. \A o \in Outputs : o.stored = TRUE
    BY DEF Outputs
  <2> QED
    BY <2>1, <2>2 DEF AnswersInv
<1>2. output.stored =>
         /\ output \in Outputs /\ IsMadeOf(output, answer) /\ OnlyTheShownIsRewritten
         /\ output.confidence = "low" => attempts >= MaxCitationAttempts
  BY <1>1 DEF AnswersInv
<1>3. AnswerTypeOK
  <2>1. output.stored =>
           /\ Len(output.consensus) <= MaxClaims /\ Len(output.viewpoints) <= MaxClaims
           /\ Len(output.insights) <= MaxInsights
    BY <1>2 DEF IsMadeOf, AreSupported
  <2>2. output.stored => output.notes <= MaxNotes
    <3>1. \A o \in Outputs : o.notes \in 0 .. MaxNotes
      BY DEF Outputs
    <3>2. \A n \in 0 .. MaxNotes : n <= MaxNotes
      OBVIOUS
    <3> QED
      BY <1>2, <3>1, <3>2
  <2>3. /\ analysisState \in {"queued", "running", "succeeded", "failed", "incomplete"}
        /\ attempts \in 0 .. MaxAttempts /\ answered \in 0 .. attempts
        /\ answer \in LlmAnswers \cup {NoAnswer}
    BY DEF AnswersInv
  <2> QED
    BY <1>1, <2>1, <2>2, <2>3 DEF AnswerTypeOK
<1>4. CitationsAreSelected
  <2> SUFFICES ASSUME output.stored
               PROVE  /\ Cited(output) \subseteq SelectedComments
                      /\ \A c \in ClaimsOf(output) :
                            c.ids # <<>> /\ Len(c.ids) <= MaxSupport
    BY DEF CitationsAreSelected
  <2>1. /\ AreSupported(output.consensus) /\ AreSupported(output.viewpoints)
        /\ AreSelected(output.consensus) /\ AreSelected(output.viewpoints)
        /\ ToSet(output.insights) \subseteq SelectedComments
    BY <1>2 DEF IsMadeOf
  <2>2. Cited(output) \subseteq SelectedComments
    <3> DEFINE C == {ToSet(output.consensus[i].ids) : i \in DOMAIN output.consensus}
               V == {ToSet(output.viewpoints[i].ids) : i \in DOMAIN output.viewpoints}
    <3>1. Cited(output) = (UNION C) \cup (UNION V) \cup ToSet(output.insights)
      BY Zenon DEF Cited
    <3>2. \A s \in C \cup V : s \subseteq SelectedComments
      BY <2>1 DEF AreSelected
    <3> HIDE DEF C, V
    <3> QED
      BY <2>1, <3>1, <3>2
  <2>3. \A c \in ClaimsOf(output) : c.ids # <<>> /\ Len(c.ids) <= MaxSupport
    BY <2>1 DEF ClaimsOf, AreSupported
  <2> QED
    BY <2>2, <2>3
<1>5. LossIsSaid
  <2> SUFFICES ASSUME output.stored
               PROVE  \/ output.confidence = "low" /\ output.warned
                                /\ attempts >= MaxCitationAttempts
                      \/ /\ ~(Len(output.consensus) < Len(NormalizedAnswer(answer).consensus))
                         /\ ~(Len(output.viewpoints) < Len(NormalizedAnswer(answer).viewpoints))
                         /\ ~(Len(output.insights) < Len(NormalizedAnswer(answer).insights))
    BY DEF LossIsSaid
  <2>1. CASE output.confidence = "low"
    BY <1>2, <2>1 DEF IsMadeOf
  <2>2. CASE output.confidence = "given"
    <3>1. /\ Len(output.consensus) \in Nat /\ Len(output.viewpoints) \in Nat
          /\ Len(output.insights) \in Nat
      BY <1>2 DEF Outputs
    <3>2. /\ Len(output.consensus) = Len(NormalizedAnswer(answer).consensus)
          /\ Len(output.viewpoints) = Len(NormalizedAnswer(answer).viewpoints)
          /\ Len(output.insights) = Len(NormalizedAnswer(answer).insights)
      BY <1>2, <2>2 DEF IsMadeOf
    <3>3. \A x \in Nat : ~(x < x)
      OBVIOUS
    <3> QED
      BY <3>1, <3>2, <3>3
  <2>3. output.confidence \in {"given", "low"}
    BY <1>2 DEF Outputs
  <2> QED
    BY <2>1, <2>2, <2>3
<1>6. OnlyTheShownIsRewritten
  BY <1>2 DEF OnlyTheShownIsRewritten
<1>7. RetriesAreBounded
  BY DEF AnswersInv, RetriesAreBounded
<1> QED
  BY <1>3, <1>4, <1>5, <1>6, <1>7 DEF AnswersAreSound

\* What is stored of an answer, humanized or not, cites only comments that were
\* selected, each claim with one at least, says what it lost, and took no more
\* answers than may be tried (normalizeAnalysisOutputCandidate, citations.ts,
\* processClaimedJob, patchHumanizedAnalysis).
THEOREM AnswersStaySound == AnswerSpec => []AnswersAreSound
<1> QED
  BY AnswersInitially, AnswersAreKept, AnswersInvIsSound, PTL DEF AnswerSpec

-----------------------------------------------------------------------------
(* Sizes.                                                                  *)

AreSizes(f, s, S) ==
    /\ f \in [0 .. Len(s) -> Nat]
    /\ f[0] = 0
    /\ \A n \in 1 .. Len(s) : f[n] = f[n - 1] + (IF n \in S THEN s[n] ELSE 0)
    /\ SizeOf(s, S) = f[Len(s)]

\* SizeOf is the last of the sizes up to each place.
LEMMA SizeOfSteps ==
    ASSUME NEW s \in Seq(Nat), NEW S
    PROVE  \E f : AreSizes(f, s, S)
<1> DEFINE N == Len(s)
           step == [p \in (1 .. N) \X Nat |->
                       p[2] + (IF p[1] \in S THEN s[p[1]] ELSE 0)]
           IsF(f) == f = [n \in 0 .. N |-> IF n = 0 THEN 0
                          ELSE f[n - 1] + (IF n \in S THEN s[n] ELSE 0)]
<1>1. N \in Nat /\ \A n \in 1 .. N : s[n] \in Nat
  OBVIOUS
<1>2. \A n \in 1 .. N : \A v \in Nat :
         step[<<n, v>>] = v + (IF n \in S THEN s[n] ELSE 0)
  OBVIOUS
<1>3. IsStep(step, N, Nat)
  BY DEF IsStep
<1>4. PICK f : Iterates(f, N, Nat, 0, step)
  <2> HIDE DEF step, N
  <2>1. 0 \in Nat /\ N \in Nat
    BY <1>1
  <2> QED
    BY <1>3, <2>1, StepsAreThere
<1> HIDE DEF step
<1> USE DEF Iterates
<1>5. \A n \in 1 .. N : f[n] = f[n - 1] + (IF n \in S THEN s[n] ELSE 0)
  <2>1. \A n \in 1 .. N : n - 1 \in 0 .. N
    BY <1>1
  <2>2. \A n \in 1 .. N : f[n - 1] \in Nat
    BY <1>4, <2>1
  <2> QED
    BY <1>2, <1>4, <2>2
<1>6. IsF(f)
  <2>1. \A n \in 0 .. N : f[n] = IF n = 0 THEN 0
                                 ELSE f[n - 1] + (IF n \in S THEN s[n] ELSE 0)
    <3>1. \A n \in 0 .. N : n # 0 => n \in 1 .. N
      BY <1>1
    <3> QED
      BY <1>4, <1>5, <3>1
  <2>2. f = [n \in 0 .. N |-> f[n]]
    BY <1>4
  <2> QED
    BY <2>1, <2>2
<1> DEFINE F == CHOOSE g : IsF(g)
<1>7. IsF(F)
  <2> HIDE DEF IsF
  <2> QED
    BY <1>6
<1>8. SizeOf(s, S) = F[N]
  BY DEF SizeOf
<1> HIDE DEF F
<1>9. F[0] = 0 /\ \A n \in 1 .. N : F[n] = F[n - 1] + (IF n \in S THEN s[n] ELSE 0)
  <2>1. \A n \in 0 .. N : F[n] = IF n = 0 THEN 0
                                 ELSE F[n - 1] + (IF n \in S THEN s[n] ELSE 0)
    BY <1>7
  <2>2. 0 \in 0 .. N /\ \A n \in 1 .. N : n \in 0 .. N /\ n # 0
    BY <1>1
  <2> QED
    BY <2>1, <2>2
<1>10. \A n \in 0 .. N : F[n] \in Nat
  <2> DEFINE P == {n \in 0 .. N : F[n] \in Nat}
  <2>1. 0 \in P
    BY <1>1, <1>9
  <2>2. ASSUME NEW n \in 1 .. N, n - 1 \in P
        PROVE  n \in P
    <3>1. F[n] = F[n - 1] + (IF n \in S THEN s[n] ELSE 0)
      BY <1>9
    <3>2. F[n - 1] \in Nat /\ s[n] \in Nat /\ n \in 0 .. N
      BY <1>1, <2>2
    <3> QED
      BY <3>1, <3>2
  <2> HIDE DEF P
  <2>3. 0 .. N \subseteq P
    BY <1>1, <2>1, <2>2, UpToBound
  <2> QED
    BY <2>3 DEF P
<1>11. F \in [0 .. N -> Nat]
  <2>1. F = [n \in 0 .. N |-> IF n = 0 THEN 0
                              ELSE F[n - 1] + (IF n \in S THEN s[n] ELSE 0)]
    BY <1>7
  <2>2. F = [n \in 0 .. N |-> F[n]]
    BY <2>1
  <2> QED
    BY <1>10, <2>2
<1> QED
  BY <1>8, <1>9, <1>11 DEF AreSizes

LEMMA SizeOfNone ==
    ASSUME NEW s \in Seq(Nat)
    PROVE  SizeOf(s, {}) = 0
<1>1. PICK f : AreSizes(f, s, {})
  BY SizeOfSteps
<1> USE DEF AreSizes
<1> DEFINE P == {n \in 0 .. Len(s) : f[n] = 0}
<1>2. Len(s) \in Nat
  OBVIOUS
<1>3. 0 \in P
  BY <1>1, <1>2
<1>4. \A n \in 1 .. Len(s) : n - 1 \in P => n \in P
  BY <1>1, <1>2
<1>5. 0 .. Len(s) \subseteq P
  <2> HIDE DEF P
  <2> QED
    BY <1>2, <1>3, <1>4, UpToBound
<1>6. Len(s) \in 0 .. Len(s)
  BY <1>2
<1> QED
  BY <1>1, <1>5, <1>6

LEMMA SizeOfMore ==
    ASSUME NEW s \in Seq(Nat), NEW S, NEW T, S \subseteq T
    PROVE  /\ SizeOf(s, S) \in Nat /\ SizeOf(s, T) \in Nat
           /\ SizeOf(s, S) <= SizeOf(s, T)
<1>1. PICK f : AreSizes(f, s, S)
  BY SizeOfSteps
<1>2. PICK g : AreSizes(g, s, T)
  BY SizeOfSteps
<1> USE DEF AreSizes
<1> DEFINE P == {n \in 0 .. Len(s) : f[n] <= g[n]}
<1>3. Len(s) \in Nat /\ \A n \in 1 .. Len(s) : s[n] \in Nat
  OBVIOUS
<1>4. 0 \in P
  BY <1>1, <1>2, <1>3
<1>5. ASSUME NEW n \in 1 .. Len(s), n - 1 \in P
      PROVE  n \in P
  <2>1. f[n - 1] \in Nat /\ g[n - 1] \in Nat /\ f[n - 1] <= g[n - 1] /\ s[n] \in Nat
    BY <1>1, <1>2, <1>3, <1>5
  <2>2. /\ f[n] = f[n - 1] + (IF n \in S THEN s[n] ELSE 0)
        /\ g[n] = g[n - 1] + (IF n \in T THEN s[n] ELSE 0)
    BY <1>1, <1>2
  <2>3. n \in S => n \in T
    OBVIOUS
  <2>4. f[n] <= g[n]
    BY <2>1, <2>2, <2>3
  <2> QED
    BY <1>3, <2>4
<1>6. 0 .. Len(s) \subseteq P
  <2> HIDE DEF P
  <2> QED
    BY <1>3, <1>4, <1>5, UpToBound
<1>7. Len(s) \in 0 .. Len(s)
  BY <1>3
<1>8. f[Len(s)] <= g[Len(s)] /\ f[Len(s)] \in Nat /\ g[Len(s)] \in Nat
  BY <1>1, <1>2, <1>6, <1>7
<1> QED
  BY <1>1, <1>2, <1>8

LEMMA SizeOfAdded ==
    ASSUME NEW s \in Seq(Nat), NEW S, NEW i \in 1 .. Len(s), i \notin S
    PROVE  SizeOf(s, S \cup {i}) = SizeOf(s, S) + s[i]
<1>1. PICK f : AreSizes(f, s, S)
  BY SizeOfSteps
<1>2. PICK g : AreSizes(g, s, S \cup {i})
  BY SizeOfSteps
<1> USE DEF AreSizes
<1> DEFINE P == {n \in 0 .. Len(s) : g[n] = f[n] + (IF n < i THEN 0 ELSE s[i])}
<1>3. Len(s) \in Nat /\ \A n \in 1 .. Len(s) : s[n] \in Nat
  OBVIOUS
<1>4. 0 \in P
  BY <1>1, <1>2, <1>3
<1>5. ASSUME NEW n \in 1 .. Len(s), n - 1 \in P
      PROVE  n \in P
  <2>1. /\ f[n - 1] \in Nat /\ g[n - 1] \in Nat /\ s[n] \in Nat /\ s[i] \in Nat
        /\ g[n - 1] = f[n - 1] + (IF n - 1 < i THEN 0 ELSE s[i])
    BY <1>1, <1>2, <1>3, <1>5
  <2>2. /\ f[n] = f[n - 1] + (IF n \in S THEN s[n] ELSE 0)
        /\ g[n] = g[n - 1] + (IF n \in S \/ n = i THEN s[n] ELSE 0)
    BY <1>1, <1>2
  <2>3. g[n] = f[n] + (IF n < i THEN 0 ELSE s[i])
    <3>1. CASE n = i
      BY <2>1, <2>2, <3>1
    <3>2. CASE n # i
      <4>1. n < i <=> n - 1 < i
        BY <3>2
      <4>2. (IF n \in S \/ n = i THEN s[n] ELSE 0) = (IF n \in S THEN s[n] ELSE 0)
        BY <3>2
      <4>3. (IF n < i THEN 0 ELSE s[i]) = (IF n - 1 < i THEN 0 ELSE s[i])
        BY <4>1
      <4> DEFINE x == IF n \in S THEN s[n] ELSE 0
                 y == IF n - 1 < i THEN 0 ELSE s[i]
      <4>4. x \in Nat /\ y \in Nat
        BY <2>1
      <4>5. f[n] = f[n - 1] + x /\ g[n] = g[n - 1] + x /\ g[n - 1] = f[n - 1] + y
        BY <2>1, <2>2, <4>2
      <4> HIDE DEF x, y
      <4>6. g[n] = f[n] + y
        BY <2>1, <4>4, <4>5
      <4> QED
        BY <4>3, <4>6 DEF y
    <3> QED
      BY <3>1, <3>2
  <2> QED
    BY <1>3, <2>3
<1>6. 0 .. Len(s) \subseteq P
  <2> HIDE DEF P
  <2> QED
    BY <1>3, <1>4, <1>5, UpToBound
<1>7. Len(s) \in 0 .. Len(s) /\ ~(Len(s) < i)
  BY <1>3
<1>8. g[Len(s)] = f[Len(s)] + s[i]
  BY <1>6, <1>7
<1> QED
  BY <1>1, <1>2, <1>8

LEMMA SizeOfAppended ==
    ASSUME NEW s \in Seq(Nat), NEW x \in Nat
    PROVE  SizeOf(Append(s, x), 1 .. Len(s) + 1) = SizeOf(s, 1 .. Len(s)) + x
<1> DEFINE N == Len(s)
           t == Append(s, x)
<1>1. /\ N \in Nat /\ t \in Seq(Nat) /\ Len(s) = N /\ Len(t) = N + 1 /\ t[N + 1] = x
      /\ \A n \in 1 .. N : t[n] = s[n] /\ s[n] \in Nat
  OBVIOUS
<1> HIDE DEF N, t
<1>2. PICK f : AreSizes(f, s, 1 .. N)
  BY SizeOfSteps
<1>3. PICK g : AreSizes(g, t, 1 .. N + 1)
  BY <1>1, SizeOfSteps
<1> USE DEF AreSizes
<1> DEFINE P == {n \in 0 .. N : g[n] = f[n]}
<1>4. 0 \in P
  BY <1>1, <1>2, <1>3
<1>5. ASSUME NEW n \in 1 .. N, n - 1 \in P
      PROVE  n \in P
  <2>1. n \in 1 .. N + 1 /\ g[n - 1] = f[n - 1] /\ t[n] = s[n]
    BY <1>1, <1>5
  <2>2. /\ f[n] = f[n - 1] + (IF n \in 1 .. N THEN s[n] ELSE 0)
        /\ g[n] = g[n - 1] + (IF n \in 1 .. N + 1 THEN t[n] ELSE 0)
    BY <1>1, <1>2, <1>3, <2>1
  <2>3. g[n] = f[n]
    BY <2>1, <2>2
  <2> QED
    BY <1>1, <2>3
<1>6. 0 .. N \subseteq P
  <2> HIDE DEF P
  <2> QED
    BY <1>1, <1>4, <1>5, UpToBound
<1>7. N \in 0 .. N /\ N + 1 \in 1 .. N + 1 /\ (N + 1) - 1 = N
  BY <1>1
<1>8. g[N + 1] = f[N] + x
  <2>1. g[N] = f[N]
    BY <1>6, <1>7
  <2>2. g[N + 1] = g[(N + 1) - 1] + t[N + 1]
    BY <1>1, <1>3, <1>7
  <2> QED
    BY <1>1, <1>7, <2>1, <2>2
<1> QED
  BY <1>1, <1>2, <1>3, <1>8 DEF N, t

AreTaken(f, s, order, budget) ==
    /\ f \in [0 .. Len(order) -> SUBSET (1 .. Len(s))]
    /\ f[0] = {}
    /\ \A n \in 1 .. Len(order) :
          f[n] = IF SizeOf(s, f[n - 1] \cup {order[n]}) <= budget
                 THEN f[n - 1] \cup {order[n]} ELSE f[n - 1]
    /\ Fitting(s, order, budget) = f[Len(order)]

\* What fits is put together place by place.
LEMMA FittingSteps ==
    ASSUME NEW s \in Seq(Nat), NEW order \in Seq(1 .. Len(s)), NEW budget \in Nat
    PROVE  \E f : AreTaken(f, s, order, budget)
<1> DEFINE N == Len(order)
           V == SUBSET (1 .. Len(s))
           with(v, n) == IF SizeOf(s, v \cup {order[n]}) <= budget
                         THEN v \cup {order[n]} ELSE v
           step == [p \in (1 .. N) \X V |-> with(p[2], p[1])]
           IsF(f) == f = [n \in 0 .. N |-> IF n = 0 THEN {}
                          ELSE IF SizeOf(s, f[n - 1] \cup {order[n]}) <= budget
                               THEN f[n - 1] \cup {order[n]} ELSE f[n - 1]]
<1>1. N \in Nat /\ \A n \in 1 .. N : order[n] \in 1 .. Len(s)
  OBVIOUS
<1>2. \A n \in 1 .. N : \A v \in V : with(v, n) \in V
  BY <1>1
<1>3. \A n \in 1 .. N : \A v \in V : step[<<n, v>>] = with(v, n)
  <2> HIDE DEF V, with
  <2> QED
    OBVIOUS
<1>4. IsStep(step, N, V)
  <2>1. \A p \in (1 .. N) \X V : with(p[2], p[1]) \in V
    <3> HIDE DEF V, with
    <3> QED
      BY <1>2
  <2> HIDE DEF V, with
  <2> QED
    BY <2>1 DEF IsStep
<1>5. PICK f : Iterates(f, N, V, {}, step)
  <2>1. N \in Nat /\ {} \in V
    BY <1>1
  <2> HIDE DEF step, N, V
  <2> QED
    BY <1>4, <2>1, StepsAreThere
<1> HIDE DEF step
<1> USE DEF Iterates
<1>6. \A n \in 1 .. N : f[n] = with(f[n - 1], n)
  <2>1. \A n \in 1 .. N : n - 1 \in 0 .. N
    BY <1>1
  <2> HIDE DEF V, with
  <2>2. \A n \in 1 .. N : f[n - 1] \in V
    BY <1>5, <2>1
  <2> QED
    BY <1>3, <1>5, <2>2
<1>7. IsF(f)
  <2>1. \A n \in 0 .. N : f[n] = IF n = 0 THEN {} ELSE with(f[n - 1], n)
    <3>1. \A n \in 0 .. N : n # 0 => n \in 1 .. N
      BY <1>1
    <3> HIDE DEF V, with
    <3> QED
      BY <1>5, <1>6, <3>1
  <2>2. f = [n \in 0 .. N |-> f[n]]
    BY <1>5
  <2>3. f = [n \in 0 .. N |-> IF n = 0 THEN {} ELSE with(f[n - 1], n)]
    <3> HIDE DEF with, V
    <3> QED
      BY <2>1, <2>2
  <2> QED
    BY <2>3
<1> DEFINE F == CHOOSE g : IsF(g)
<1>8. IsF(F)
  <2> HIDE DEF IsF
  <2> QED
    BY <1>7
<1>9. Fitting(s, order, budget) = F[N]
  BY DEF Fitting
<1>10. F = [n \in 0 .. N |-> IF n = 0 THEN {} ELSE with(F[n - 1], n)]
  <2> HIDE DEF F
  <2> QED
    BY <1>8
<1> HIDE DEF F
<1>11. F[0] = {} /\ \A n \in 1 .. N : F[n] = with(F[n - 1], n)
  <2> HIDE DEF with
  <2>1. \A n \in 0 .. N : F[n] = IF n = 0 THEN {} ELSE with(F[n - 1], n)
    BY <1>10
  <2>2. 0 \in 0 .. N /\ \A n \in 1 .. N : n \in 0 .. N /\ n # 0
    BY <1>1
  <2> QED
    BY <2>1, <2>2
<1>12. \A n \in 0 .. N : F[n] \in V
  <2> DEFINE P == {n \in 0 .. N : F[n] \in V}
  <2>1. 0 \in P
    BY <1>1, <1>11
  <2>2. ASSUME NEW n \in 1 .. N, n - 1 \in P
        PROVE  n \in P
    <3> HIDE DEF with, V
    <3>1. F[n - 1] \in V /\ n \in 0 .. N
      BY <1>1, <2>2
    <3> QED
      BY <1>2, <1>11, <3>1
  <2> HIDE DEF P
  <2>3. 0 .. N \subseteq P
    BY <1>1, <2>1, <2>2, UpToBound
  <2> QED
    BY <2>3 DEF P
<1>13. F \in [0 .. N -> V]
  <2> HIDE DEF with, V
  <2>1. F = [n \in 0 .. N |-> F[n]]
    BY <1>10
  <2> QED
    BY <1>12, <2>1
<1> QED
  BY <1>9, <1>11, <1>13 DEF AreTaken

\* What is taken is kept, and stays within the budget.
LEMMA TakenGrows ==
    ASSUME NEW s \in Seq(Nat), NEW order \in Seq(1 .. Len(s)), NEW budget \in Nat,
           NEW f, AreTaken(f, s, order, budget)
    PROVE  \A n \in 0 .. Len(order) :
              SizeOf(s, f[n]) <= budget /\ \A m \in 0 .. n : f[m] \subseteq f[n]
<1> DEFINE N == Len(order)
           P == {n \in 0 .. N :
                   SizeOf(s, f[n]) <= budget /\ \A m \in 0 .. n : f[m] \subseteq f[n]}
<1>1. N \in Nat
  OBVIOUS
<1>2. /\ f[0] = {}
      /\ \A n \in 1 .. N :
            \/ f[n] = f[n - 1]
            \/ /\ f[n] = f[n - 1] \cup {order[n]}
               /\ SizeOf(s, f[n]) <= budget
  <2>1. ASSUME NEW n \in 1 .. N
        PROVE  \/ f[n] = f[n - 1]
               \/ f[n] = f[n - 1] \cup {order[n]} /\ SizeOf(s, f[n]) <= budget
    <3>1. f[n] = IF SizeOf(s, f[n - 1] \cup {order[n]}) <= budget
                 THEN f[n - 1] \cup {order[n]} ELSE f[n - 1]
      BY DEF AreTaken
    <3> QED
      BY <3>1
  <2> QED
    BY <2>1 DEF AreTaken
<1>3. 0 \in P
  <2>1. SizeOf(s, f[0]) = 0
    BY <1>2, SizeOfNone
  <2>2. \A m \in 0 .. 0 : m = 0
    OBVIOUS
  <2>3. SizeOf(s, f[0]) <= budget /\ \A m \in 0 .. 0 : f[m] \subseteq f[0]
    BY <2>1, <2>2
  <2> QED
    BY <1>1, <2>3
<1>4. ASSUME NEW n \in 1 .. N, n - 1 \in P
      PROVE  n \in P
  <2>1. SizeOf(s, f[n - 1]) <= budget /\ \A m \in 0 .. n - 1 : f[m] \subseteq f[n - 1]
    BY <1>4
  <2>2. SizeOf(s, f[n]) <= budget /\ f[n - 1] \subseteq f[n]
    BY <1>2, <2>1
  <2>3. ASSUME NEW m \in 0 .. n
        PROVE  f[m] \subseteq f[n]
    <3>1. m = n \/ m \in 0 .. n - 1
      OBVIOUS
    <3> QED
      BY <2>1, <2>2, <3>1
  <2>4. n \in 0 .. N
    BY <1>1
  <2> QED
    BY <2>2, <2>3, <2>4
<1>5. 0 .. N \subseteq P
  <2> HIDE DEF P
  <2> QED
    BY <1>1, <1>3, <1>4, UpToBound
<1> QED
  BY <1>5

\* What fits is within the budget, and nothing else that was looked at fits
\* beside it.
LEMMA FittingIsFull ==
    ASSUME NEW s \in Seq(Nat), NEW order \in Seq(1 .. Len(s)), NEW budget \in Nat
    PROVE  /\ Fitting(s, order, budget) \subseteq 1 .. Len(s)
           /\ SizeOf(s, Fitting(s, order, budget)) <= budget
           /\ \A n \in 1 .. Len(order) : order[n] \notin Fitting(s, order, budget) =>
                 SizeOf(s, Fitting(s, order, budget)) + s[order[n]] > budget
<1>1. PICK f : AreTaken(f, s, order, budget)
  BY FittingSteps
<1> DEFINE N == Len(order)
<1>2. N \in Nat /\ N \in 0 .. N
  OBVIOUS
<1>3. Fitting(s, order, budget) = f[N] /\ f[N] \subseteq 1 .. Len(s)
  BY <1>1, <1>2 DEF AreTaken
<1>4. \A n \in 0 .. N :
         SizeOf(s, f[n]) <= budget /\ \A m \in 0 .. n : f[m] \subseteq f[n]
  BY <1>1, TakenGrows
<1>5. ASSUME NEW n \in 1 .. N, order[n] \notin f[N]
      PROVE  SizeOf(s, f[N]) + s[order[n]] > budget
  <2>1. /\ n \in 0 .. N /\ n - 1 \in 0 .. N /\ order[n] \in 1 .. Len(s)
        /\ s[order[n]] \in Nat
    BY <1>2
  <2>2. f[n] \subseteq f[N] /\ f[n - 1] \subseteq f[N]
    BY <1>2, <1>4, <2>1
  <2>3. f[n] = IF SizeOf(s, f[n - 1] \cup {order[n]}) <= budget
               THEN f[n - 1] \cup {order[n]} ELSE f[n - 1]
    BY <1>1 DEF AreTaken
  <2>4. ~(SizeOf(s, f[n - 1] \cup {order[n]}) <= budget)
    <3>1. order[n] \notin f[n]
      BY <1>5, <2>2
    <3> QED
      BY <2>3, <3>1
  <2>5. order[n] \notin f[n - 1]
    BY <1>5, <2>2
  <2>6. SizeOf(s, f[n - 1] \cup {order[n]}) = SizeOf(s, f[n - 1]) + s[order[n]]
    BY <2>1, <2>5, SizeOfAdded
  <2>7. /\ SizeOf(s, f[n - 1]) \in Nat /\ SizeOf(s, f[N]) \in Nat
        /\ SizeOf(s, f[n - 1]) <= SizeOf(s, f[N])
    BY <2>2, SizeOfMore
  <2> DEFINE x == SizeOf(s, f[n - 1])
             y == s[order[n]]
             z == SizeOf(s, f[N])
  <2>8. x \in Nat /\ y \in Nat /\ z \in Nat /\ x <= z
    BY <2>1, <2>7
  <2>9. ~(x + y <= budget)
    BY <2>4, <2>6
  <2> HIDE DEF x, y, z
  <2>10. z + y > budget
    BY <2>8, <2>9
  <2> QED
    BY <2>10 DEF y, z
<1> QED
  BY <1>2, <1>3, <1>4, <1>5

-----------------------------------------------------------------------------
(* The request.                                                            *)

AreKept(f, s, S) ==
    /\ f \in [0 .. Len(s) -> Seq(Nat)]
    /\ f[0] = <<>>
    /\ \A n \in 1 .. Len(s) :
          f[n] = IF n \in S THEN Append(f[n - 1], s[n]) ELSE f[n - 1]
    /\ EntriesAt(s, S) = f[Len(s)]

\* EntriesAt is put together place by place.
LEMMA EntriesAtSteps ==
    ASSUME NEW s \in Seq(Nat), NEW S
    PROVE  \E f : AreKept(f, s, S)
<1> DEFINE IsF(f) == f = [n \in 0 .. Len(s) |->
                          IF n = 0 THEN <<>>
                          ELSE IF n \in S THEN Append(f[n - 1], s[n]) ELSE f[n - 1]]
           F == CHOOSE f : IsF(f)
<1>1. IsF(F)
  <2>1. \E f : IsF(f)
    BY UpToIsThere
  <2> HIDE DEF IsF
  <2> QED
    BY <2>1
<1>2. EntriesAt(s, S) = F[Len(s)]
  BY DEF EntriesAt
<1>3. Len(s) \in Nat /\ \A n \in 1 .. Len(s) : s[n] \in Nat
  OBVIOUS
<1>4. /\ F[0] = <<>>
      /\ \A n \in 1 .. Len(s) :
            F[n] = IF n \in S THEN Append(F[n - 1], s[n]) ELSE F[n - 1]
  <2> HIDE DEF F
  <2>2. \A n \in 0 .. Len(s) :
           F[n] = IF n = 0 THEN <<>>
                  ELSE IF n \in S THEN Append(F[n - 1], s[n]) ELSE F[n - 1]
    BY <1>1
  <2>3. 0 \in 0 .. Len(s) /\ \A n \in 1 .. Len(s) : n \in 0 .. Len(s) /\ n # 0
    BY <1>3
  <2> QED
    BY <2>2, <2>3
<1>5. F = [n \in 0 .. Len(s) |-> F[n]]
  <2> HIDE DEF F
  <2> QED
    BY <1>1
<1> HIDE DEF F
<1>6. \A n \in 0 .. Len(s) : F[n] \in Seq(Nat)
  <2> DEFINE P == {n \in 0 .. Len(s) : F[n] \in Seq(Nat)}
  <2>1. 0 \in P
    <3>1. <<>> \in Seq(Nat) /\ 0 \in 0 .. Len(s)
      BY <1>3
    <3> QED
      BY <1>4, <3>1
  <2>2. ASSUME NEW n \in 1 .. Len(s), n - 1 \in P
        PROVE  n \in P
    <3>1. F[n - 1] \in Seq(Nat) /\ s[n] \in Nat
      BY <1>3, <2>2
    <3>2. F[n] = IF n \in S THEN Append(F[n - 1], s[n]) ELSE F[n - 1]
      BY <1>4
    <3>3. F[n] \in Seq(Nat)
      BY <3>1, <3>2
    <3> QED
      BY <1>3, <3>3
  <2> HIDE DEF P
  <2>3. 0 .. Len(s) \subseteq P
    BY <1>3, <2>1, <2>2, UpToBound
  <2> QED
    BY <2>3 DEF P
<1> QED
  BY <1>2, <1>4, <1>5, <1>6 DEF AreKept

\* The size of the entries is their size where they come from.
LEMMA SizeOfEntries ==
    ASSUME NEW s \in Seq(Nat), NEW S
    PROVE  /\ EntriesAt(s, S) \in Seq(Nat)
           /\ SizeOf(EntriesAt(s, S), 1 .. Len(EntriesAt(s, S))) = SizeOf(s, S)
<1>1. PICK f : AreSizes(f, s, S)
  BY SizeOfSteps
<1>2. PICK e : AreKept(e, s, S)
  BY EntriesAtSteps
<1> DEFINE P == {n \in 0 .. Len(s) : SizeOf(e[n], 1 .. Len(e[n])) = f[n]}
<1>3. Len(s) \in Nat /\ \A n \in 1 .. Len(s) : s[n] \in Nat
  OBVIOUS
<1>4. 0 \in P
  <2>1. e[0] = <<>> /\ f[0] = 0
    BY <1>1, <1>2 DEF AreSizes, AreKept
  <2>2. e[0] \in Seq(Nat) /\ 1 .. Len(e[0]) = {}
    BY <2>1
  <2>3. SizeOf(e[0], 1 .. Len(e[0])) = 0
    BY <2>2, SizeOfNone
  <2> QED
    BY <1>3, <2>1, <2>3
<1>5. ASSUME NEW n \in 1 .. Len(s), n - 1 \in P
      PROVE  n \in P
  <2>1. n \in 0 .. Len(s) /\ n - 1 \in 0 .. Len(s) /\ s[n] \in Nat
    BY <1>3
  <2>2. e[n - 1] \in Seq(Nat) /\ SizeOf(e[n - 1], 1 .. Len(e[n - 1])) = f[n - 1]
    BY <1>2, <1>5, <2>1 DEF AreKept
  <2>3. /\ e[n] = IF n \in S THEN Append(e[n - 1], s[n]) ELSE e[n - 1]
        /\ f[n] = f[n - 1] + (IF n \in S THEN s[n] ELSE 0)
        /\ f[n - 1] \in Nat
    BY <1>1, <1>2, <2>1 DEF AreSizes, AreKept
  <2>4. CASE n \in S
    <3>1. SizeOf(Append(e[n - 1], s[n]), 1 .. Len(e[n - 1]) + 1)
             = SizeOf(e[n - 1], 1 .. Len(e[n - 1])) + s[n]
      BY <2>1, <2>2, SizeOfAppended
    <3>2. e[n] = Append(e[n - 1], s[n]) /\ Len(e[n]) = Len(e[n - 1]) + 1
      BY <2>1, <2>2, <2>3, <2>4
    <3>3. SizeOf(e[n], 1 .. Len(e[n])) = f[n - 1] + s[n]
      BY <2>2, <3>1, <3>2
    <3> QED
      BY <2>1, <2>3, <2>4, <3>3
  <2>5. CASE n \notin S
    BY <2>1, <2>2, <2>3, <2>5
  <2> QED
    BY <2>4, <2>5
<1>6. 0 .. Len(s) \subseteq P
  <2> HIDE DEF P
  <2> QED
    BY <1>3, <1>4, <1>5, UpToBound
<1>7. Len(s) \in 0 .. Len(s)
  BY <1>3
<1>8. SizeOf(e[Len(s)], 1 .. Len(e[Len(s)])) = f[Len(s)] /\ e[Len(s)] \in Seq(Nat)
  BY <1>2, <1>6, <1>7 DEF AreKept
<1> QED
  BY <1>1, <1>2, <1>8 DEF AreSizes, AreKept

\* The order in which they were ranked.
LEMMA RankedOrder ==
    ASSUME NEW s \in Seq(Nat)
    PROVE  /\ DOMAIN s = 1 .. Len(s)
           /\ [i \in DOMAIN s |-> i] \in Seq(1 .. Len(s))
           /\ Len([i \in DOMAIN s |-> i]) = Len(s)
<1>1. Len(s) \in Nat /\ DOMAIN s = 1 .. Len(s)
  OBVIOUS
<1> DEFINE f == [i \in 1 .. Len(s) |-> i]
<1>2. f = [i \in 1 .. Len(s) |-> f[i]] /\ \A i \in 1 .. Len(s) : f[i] \in 1 .. Len(s)
  OBVIOUS
<1> HIDE DEF f
<1>3. f \in Seq(1 .. Len(s)) /\ Len(f) = Len(s)
  BY <1>1, <1>2, IsSequence
<1> QED
  BY <1>1, <1>3 DEF f

\* Comments of a size the request has room for are all in it.
LEMMA AllFit ==
    ASSUME NEW s \in Seq(Nat), NEW budget \in Nat,
           SizeOf(s, 1 .. Len(s)) <= budget
    PROVE  Fitting(s, [i \in DOMAIN s |-> i], budget) = 1 .. Len(s)
<1> DEFINE order == [i \in DOMAIN s |-> i]
           N == Len(s)
<1>1. /\ N \in Nat /\ order \in Seq(1 .. N) /\ Len(order) = N
      /\ \A n \in 1 .. N : order[n] = n
  BY RankedOrder
<1> HIDE DEF order
<1>2. PICK f : AreTaken(f, s, order, budget)
  BY <1>1, FittingSteps
<1> DEFINE P == {n \in 0 .. N : f[n] = 1 .. n}
<1>3. 0 \in P
  <2>1. f[0] = {} /\ 1 .. 0 = {}
    BY <1>2 DEF AreTaken
  <2> QED
    BY <1>1, <2>1
<1>4. ASSUME NEW n \in 1 .. N, n - 1 \in P
      PROVE  n \in P
  <2>1. f[n - 1] = 1 .. n - 1 /\ order[n] = n /\ n \in 0 .. N
    BY <1>1, <1>4
  <2>2. (1 .. n - 1) \cup {n} = 1 .. n /\ 1 .. n \subseteq 1 .. N
    BY <1>1
  <2>3. f[n] = IF SizeOf(s, f[n - 1] \cup {order[n]}) <= budget
               THEN f[n - 1] \cup {order[n]} ELSE f[n - 1]
    BY <1>1, <1>2 DEF AreTaken
  <2>4. SizeOf(s, 1 .. n) <= SizeOf(s, 1 .. N) /\ SizeOf(s, 1 .. n) \in Nat
        /\ SizeOf(s, 1 .. N) \in Nat
    BY <2>2, SizeOfMore
  <2>5. f[n - 1] \cup {order[n]} = 1 .. n
    BY <2>1, <2>2
  <2>6. SizeOf(s, 1 .. n) <= budget
    BY <2>4
  <2>7. SizeOf(s, f[n - 1] \cup {order[n]}) <= budget
    BY ONLY <2>5, <2>6
  <2> QED
    BY <2>1, <2>3, <2>5, <2>7
<1>5. 0 .. N \subseteq P
  <2> HIDE DEF P
  <2> QED
    BY <1>1, <1>3, <1>4, UpToBound
<1>6. N \in 0 .. N
  BY <1>1
<1>7. f[N] = 1 .. N
  BY <1>5, <1>6
<1> QED
  BY <1>1, <1>2, <1>7 DEF AreTaken, order

\* What was taken of the comments up to one is what is taken of those in all.
LEMMA TakenByRank ==
    ASSUME NEW s \in Seq(Nat), NEW budget \in Nat,
           NEW f, AreTaken(f, s, [i \in DOMAIN s |-> i], budget)
    PROVE  \A n \in 0 .. Len(s) : f[n] = f[Len(s)] \cap (1 .. n)
<1> DEFINE order == [i \in DOMAIN s |-> i]
           N == Len(s)
<1>1. /\ N \in Nat /\ order \in Seq(1 .. N) /\ Len(order) = N
      /\ \A n \in 1 .. N : order[n] = n
  BY RankedOrder
<1>2. AreTaken(f, s, order, budget)
  OBVIOUS
<1> HIDE DEF order
<1>3. f[0] = {} /\ \A n \in 1 .. N : f[n] = f[n - 1] \/ f[n] = f[n - 1] \cup {n}
  <2>1. ASSUME NEW n \in 1 .. N
        PROVE  f[n] = f[n - 1] \/ f[n] = f[n - 1] \cup {n}
    <3>1. f[n] = IF SizeOf(s, f[n - 1] \cup {order[n]}) <= budget
                 THEN f[n - 1] \cup {order[n]} ELSE f[n - 1]
      BY <1>1, <1>2 DEF AreTaken
    <3> QED
      BY <1>1, <3>1
  <2> QED
    BY <1>2, <2>1 DEF AreTaken
<1> DEFINE P == {n \in 0 .. N : f[n] \subseteq 1 .. n
                                /\ \A m \in 0 .. n : f[m] = f[n] \cap (1 .. m)}
<1>4. 0 \in P
  <2>1. \A m \in 0 .. 0 : m = 0
    OBVIOUS
  <2> QED
    BY <1>1, <1>3, <2>1
<1>5. ASSUME NEW n \in 1 .. N, n - 1 \in P
      PROVE  n \in P
  <2>1. /\ f[n - 1] \subseteq 1 .. n - 1
        /\ \A m \in 0 .. n - 1 : f[m] = f[n - 1] \cap (1 .. m)
    BY <1>5
  <2>2. f[n - 1] \subseteq f[n] /\ f[n] \subseteq f[n - 1] \cup {n}
    BY <1>3
  <2>3. f[n] \subseteq 1 .. n
    BY <2>1, <2>2
  <2>4. ASSUME NEW m \in 0 .. n
        PROVE  f[m] = f[n] \cap (1 .. m)
    <3>1. CASE m = n
      BY <2>3, <3>1
    <3>2. CASE m # n
      <4>1. m \in 0 .. n - 1 /\ n \notin 1 .. m
        BY <3>2
      <4> QED
        BY <2>1, <2>2, <4>1
    <3> QED
      BY <3>1, <3>2
  <2>5. n \in 0 .. N
    BY <1>1
  <2> QED
    BY <2>3, <2>4, <2>5
<1>6. 0 .. N \subseteq P
  <2> HIDE DEF P
  <2> QED
    BY <1>1, <1>4, <1>5, UpToBound
<1>7. N \in 0 .. N
  BY <1>1
<1> QED
  BY <1>6, <1>7

\* The comments that are sent.
LEMMA RequestFacts ==
    ASSUME NEW s \in CommentSizes, NEW C, C = FittingComments(s)
    PROVE  /\ SizeOf(s, C) <= CommentTokens
           /\ \A i \in DOMAIN s \ C :
                 SizeOf(s, {c \in C : c < i}) + s[i] > CommentTokens
           /\ FittingComments(EntriesAt(s, C)) = DOMAIN EntriesAt(s, C)
<1> DEFINE order == [i \in DOMAIN s |-> i]
           N == Len(s)
<1>1. s \in Seq(Nat) /\ CommentTokens \in Nat
  BY SelectionAssumption
<1>2. /\ N \in Nat /\ DOMAIN s = 1 .. N
      /\ order \in Seq(1 .. N) /\ Len(order) = N
      /\ \A n \in 1 .. N : order[n] = n
  BY <1>1, RankedOrder
<1>3. C = Fitting(s, order, CommentTokens)
  BY DEF FittingComments
<1> HIDE DEF order
<1>4. PICK f : AreTaken(f, s, order, CommentTokens)
  BY <1>1, <1>2, FittingSteps
<1>5. C = f[N] /\ C \subseteq 1 .. N
  <2>1. N \in 0 .. N
    BY <1>2
  <2> QED
    BY <1>2, <1>3, <1>4, <2>1 DEF AreTaken
<1>6. SizeOf(s, C) <= CommentTokens
  BY <1>1, <1>2, <1>3, FittingIsFull
<1>7. ASSUME NEW i \in DOMAIN s \ C
      PROVE  SizeOf(s, {c \in C : c < i}) + s[i] > CommentTokens
  <2>1. i \in 1 .. N /\ i \in 0 .. N /\ i - 1 \in 0 .. N
    BY <1>2, <1>7
  <2>2. \A n \in 0 .. N : f[n] = C \cap (1 .. n)
    BY <1>1, <1>4, <1>5, TakenByRank DEF order
  <2>3. f[i - 1] = {c \in C : c < i} /\ i \notin f[i] /\ i \notin f[i - 1]
    <3>1. \A c \in C : c \in 1 .. i - 1 <=> c < i
      BY <1>2, <1>5, <2>1
    <3>2. i \notin C
      BY <1>7
    <3> QED
      BY <2>1, <2>2, <3>1, <3>2
  <2>4. f[i] = IF SizeOf(s, f[i - 1] \cup {i}) <= CommentTokens
               THEN f[i - 1] \cup {i} ELSE f[i - 1]
    <3>1. f[i] = IF SizeOf(s, f[i - 1] \cup {order[i]}) <= CommentTokens
                 THEN f[i - 1] \cup {order[i]} ELSE f[i - 1]
      BY <1>2, <1>4, <2>1 DEF AreTaken
    <3> QED
      BY <1>2, <2>1, <3>1
  <2>5. ~(SizeOf(s, f[i - 1] \cup {i}) <= CommentTokens)
    BY <2>3, <2>4
  <2>6. SizeOf(s, f[i - 1] \cup {i}) = SizeOf(s, f[i - 1]) + s[i]
    BY <1>1, <2>1, <2>3, SizeOfAdded
  <2>7. SizeOf(s, f[i - 1]) \in Nat /\ s[i] \in Nat
    BY <1>1, <1>2, <2>1, SizeOfMore
  <2>8. SizeOf(s, f[i - 1]) + s[i] > CommentTokens
    BY <1>1, <2>5, <2>6, <2>7
  <2> QED
    BY <2>3, <2>8
<1>8. FittingComments(EntriesAt(s, C)) = DOMAIN EntriesAt(s, C)
  <2> DEFINE kept == EntriesAt(s, C)
  <2>1. kept \in Seq(Nat) /\ SizeOf(kept, 1 .. Len(kept)) = SizeOf(s, C)
    BY <1>1, SizeOfEntries
  <2>2. DOMAIN kept = 1 .. Len(kept)
    BY <2>1
  <2> HIDE DEF kept
  <2>3. FittingComments(kept) = 1 .. Len(kept)
    BY <1>1, <1>6, <2>1, AllFit DEF FittingComments
  <2> QED
    BY <2>2, <2>3 DEF kept
<1> QED
  BY <1>6, <1>7, <1>8

-----------------------------------------------------------------------------
(* The article.                                                            *)

\* From some place of an article another one is some distance away.
LEMMA DistanceIsNumber ==
    ASSUME NEW N \in Nat, NEW i \in 1 .. N, NEW order \in Seq(1 .. N),
           order # <<>>
    PROVE  Distance(i, order) \in 0 .. N
<1> DEFINE far(k) == Larger(i - order[k], order[k] - i)
           B == {far(k) : k \in DOMAIN order}
<1>1. \A k \in DOMAIN order : order[k] \in 1 .. N
  OBVIOUS
<1>2. \A k \in DOMAIN order : far(k) \in 0 .. N
  <2>1. SUFFICES ASSUME NEW k \in DOMAIN order PROVE far(k) \in 0 .. N
    OBVIOUS
  <2>2. order[k] \in 1 .. N
    BY <1>1
  <2> QED
    BY <2>2 DEF Larger
<1>3. 1 \in DOMAIN order
  OBVIOUS
<1> HIDE DEF far
<1>4. B \subseteq 0 .. N /\ B # {} /\ B \subseteq Nat
  BY <1>2, <1>3
<1>5. \E m \in B : \A n \in B : m <= n
  <2> HIDE DEF B
  <2> QED
    BY <1>4, LeastOfNaturals
<1>6. Distance(i, order) = CHOOSE m \in B : \A n \in B : m <= n
  BY DEF Distance, far, Min
<1> HIDE DEF B
<1>7. Distance(i, order) \in B
  BY <1>5, <1>6
<1> QED
  BY <1>4, <1>7

LEMMA FarthestIsThere ==
    ASSUME NEW N \in Nat, NEW rest, rest \subseteq 1 .. N, rest # {},
           NEW order \in Seq(1 .. N), order # <<>>
    PROVE  Farthest(rest, order) \in rest
<1> DEFINE away(i) == Distance(i, order)
           near(i) == N - away(i)
           B == {near(i) : i \in rest}
<1>1. \A i \in rest : away(i) \in 0 .. N /\ near(i) \in Nat /\ i \in Nat
  BY DistanceIsNumber
<1> HIDE DEF away
<1>2. PICK m \in B : \A n \in B : m <= n
  <2>1. B \subseteq Nat /\ B # {}
    BY <1>1
  <2> HIDE DEF B
  <2> QED
    BY <2>1, LeastOfNaturals
<1> DEFINE D == {i \in rest : near(i) = m}
<1>3. PICK i \in D : \A j \in D : i <= j
  <2>1. D \subseteq Nat /\ D # {}
    BY <1>1
  <2> HIDE DEF D
  <2> QED
    BY <2>1, LeastOfNaturals
<1>4. \A j \in rest \ {i} : away(i) > away(j) \/ (away(i) = away(j) /\ i < j)
  <2>1. SUFFICES ASSUME NEW j \in rest \ {i}
                 PROVE  away(i) > away(j) \/ (away(i) = away(j) /\ i < j)
    OBVIOUS
  <2>2. i \in rest /\ N - away(i) = m /\ m <= N - away(j)
    BY <1>2
  <2>3. N - away(j) = m => i <= j
    BY <1>3
  <2>4. away(i) \in Nat /\ away(j) \in Nat /\ i \in Nat /\ j \in Nat /\ i # j
    BY <1>1, <2>2
  <2> QED
    BY <2>2, <2>3, <2>4
<1>5. \E x \in rest : \A j \in rest \ {x} :
         away(x) > away(j) \/ (away(x) = away(j) /\ x < j)
  BY <1>4
<1> QED
  BY <1>5 DEF Farthest, away

Orders(N) == {o \in Seq(1 .. N) : o # <<>> /\ o[1] = 1}

Longer(order, N) ==
    LET rest == 1 .. N \ ToSet(order)
    IN  IF rest = {} THEN order ELSE Append(order, Farthest(rest, order))

AreOrdered(f, a) ==
    /\ f \in [0 .. Len(a) -> Orders(Len(a))]
    /\ \A n \in 1 .. Len(a) : f[n] = Longer(f[n - 1], Len(a))
    /\ PriorityOrder(a) = f[Len(a)]

LEMMA LongerIsOrder ==
    ASSUME NEW N \in Nat, NEW order \in Orders(N)
    PROVE  Longer(order, N) \in Orders(N)
<1> DEFINE rest == 1 .. N \ ToSet(order)
<1>1. order \in Seq(1 .. N) /\ order # <<>> /\ order[1] = 1
  BY DEF Orders
<1>2. CASE rest = {}
  BY <1>2 DEF Longer
<1>3. CASE rest # {}
  <2> DEFINE x == Farthest(rest, order)
  <2>1. x \in 1 .. N
    <3>1. rest \subseteq 1 .. N
      OBVIOUS
    <3> HIDE DEF rest
    <3>2. x \in rest
      BY <1>1, <1>3, <3>1, FarthestIsThere
    <3> QED
      BY <3>1, <3>2
  <2>2. Longer(order, N) = Append(order, x)
    BY <1>3 DEF Longer
  <2> HIDE DEF x
  <2> DEFINE e == Append(order, x)
  <2>3. Len(order) \in Nat /\ Len(order) >= 1
    BY <1>1
  <2>4. e \in Seq(1 .. N) /\ Len(e) = Len(order) + 1 /\ e[1] = order[1]
    BY <1>1, <2>1, <2>3
  <2>5. e # <<>>
    <3> HIDE DEF e
    <3> QED
      BY <2>3, <2>4
  <2> QED
    BY <1>1, <2>2, <2>4, <2>5 DEF Orders
<1> QED
  BY <1>2, <1>3

\* The first block comes first, and the rest is added one by one.
LEMMA PriorityOrderSteps ==
    ASSUME NEW a \in Articles, a # <<>>
    PROVE  \E f : AreOrdered(f, a)
<1> DEFINE N == Len(a)
           V == Orders(N)
           ends == IF Len(a) > 1 THEN <<1, Len(a)>> ELSE <<1>>
           places == [i \in DOMAIN a |-> i]
           H == {i \in 2 .. Len(a) - 1 : a[i].heading}
           headings == EntriesAt(places, H)
           start == ends \o headings
           step == [p \in (1 .. N) \X V |-> Longer(p[2], N)]
           IsF(f) == f = [n \in 0 .. N |-> IF n = 0 THEN start
                          ELSE LET rest == DOMAIN a \ ToSet(f[n - 1])
                               IN  IF rest = {} THEN f[n - 1]
                                   ELSE Append(f[n - 1], Farthest(rest, f[n - 1]))]
<1>1. /\ a \in Seq([tokens : Nat \ {0}, heading : BOOLEAN])
      /\ N \in Nat /\ N >= 1 /\ DOMAIN a = 1 .. N
  <2>1. a \in Seq([tokens : Nat \ {0}, heading : BOOLEAN])
    BY SelectionAssumption
  <2> QED
    BY <2>1
<1>2. start \in V
  <2>1. ends \in Seq(1 .. N) /\ ends # <<>> /\ ends[1] = 1
    <3>1. 1 \in 1 .. N /\ N \in 1 .. N
      BY <1>1
    <3>2. CASE Len(a) > 1
      <4>1. ends = <<1, N>>
        BY <3>2
      <4> HIDE DEF ends, N
      <4>2. <<1, N>> \in Seq(1 .. N) /\ <<1, N>> # <<>> /\ <<1, N>>[1] = 1
        BY <3>1
      <4> QED
        BY <4>1, <4>2
    <3>3. CASE ~(Len(a) > 1)
      <4>1. ends = <<1>>
        BY <3>3
      <4> QED
        BY <3>1, <4>1
    <3> QED
      BY <3>2, <3>3
  <2>2. headings \in Seq(1 .. N)
    <3>1. places \in Seq(1 .. N)
      <4>1. /\ places = [i \in 1 .. N |-> places[i]]
            /\ \A i \in 1 .. N : places[i] \in 1 .. N
        BY <1>1
      <4> HIDE DEF places
      <4> QED
        BY <1>1, <4>1, IsSequence
    <3> HIDE DEF places, H
    <3> QED
      BY <3>1, EntriesAtFacts
  <2> HIDE DEF ends, headings
  <2>3. start \in Seq(1 .. N) /\ start # <<>> /\ start[1] = 1
    BY <2>1, <2>2
  <2> QED
    BY <2>3 DEF Orders
<1>3. IsStep(step, N, V)
  <2>1. \A p \in (1 .. N) \X V : Longer(p[2], N) \in V
    <3>1. \A p \in (1 .. N) \X V : p[2] \in V
      OBVIOUS
    <3> QED
      BY <1>1, <3>1, LongerIsOrder
  <2> HIDE DEF V
  <2> QED
    BY <2>1 DEF IsStep
<1>4. \A n \in 1 .. N : \A v \in V : step[<<n, v>>] = Longer(v, N)
  <2> HIDE DEF V
  <2> QED
    OBVIOUS
<1> HIDE DEF step, start, V
<1>5. PICK f : Iterates(f, N, V, start, step)
  <2> HIDE DEF N
  <2> QED
    BY <1>1, <1>2, <1>3, StepsAreThere
<1>6. /\ f \in [0 .. N -> V] /\ f[0] = start
      /\ \A n \in 1 .. N : f[n] = Longer(f[n - 1], N)
  <2>1. \A n \in 1 .. N : n - 1 \in 0 .. N
    BY <1>1
  <2>2. \A n \in 1 .. N : f[n - 1] \in V
    BY <1>5, <2>1 DEF Iterates
  <2> QED
    BY <1>4, <1>5, <2>2 DEF Iterates
<1>7. IsF(f)
  <2>1. \A n \in 0 .. N : f[n] = IF n = 0 THEN start ELSE Longer(f[n - 1], N)
    <3>1. \A n \in 0 .. N : n # 0 => n \in 1 .. N
      BY <1>1
    <3> QED
      BY <1>6, <3>1
  <2>2. f = [n \in 0 .. N |-> f[n]]
    BY <1>6
  <2>3. f = [n \in 0 .. N |-> IF n = 0 THEN start ELSE Longer(f[n - 1], N)]
    BY <2>1, <2>2
  <2> QED
    BY <1>1, <2>3 DEF Longer
<1> DEFINE F == CHOOSE g : IsF(g)
<1>8. IsF(F)
  <2> HIDE DEF IsF
  <2> QED
    BY <1>7
<1>9. PriorityOrder(a) = F[N]
  BY DEF PriorityOrder, start
<1> HIDE DEF F
<1>10. F = [n \in 0 .. N |-> IF n = 0 THEN start ELSE Longer(F[n - 1], N)]
  BY <1>1, <1>8 DEF Longer
<1>11. F[0] = start /\ \A n \in 1 .. N : F[n] = Longer(F[n - 1], N)
  <2>1. \A n \in 0 .. N : F[n] = IF n = 0 THEN start ELSE Longer(F[n - 1], N)
    BY <1>10
  <2>2. 0 \in 0 .. N /\ \A n \in 1 .. N : n \in 0 .. N /\ n # 0
    BY <1>1
  <2> QED
    BY <2>1, <2>2
<1>12. \A n \in 0 .. N : F[n] \in V
  <2> DEFINE P == {n \in 0 .. N : F[n] \in V}
  <2>1. 0 \in P
    BY <1>1, <1>2, <1>11
  <2>2. ASSUME NEW n \in 1 .. N, n - 1 \in P
        PROVE  n \in P
    <3>1. F[n - 1] \in V /\ n \in 0 .. N
      BY <1>1, <2>2
    <3>2. F[n] \in V
      BY <1>1, <1>11, <3>1, LongerIsOrder DEF V
    <3> QED
      BY <3>1, <3>2
  <2> HIDE DEF P
  <2>3. 0 .. N \subseteq P
    BY <1>1, <2>1, <2>2, UpToBound
  <2> QED
    BY <2>3 DEF P
<1>13. F \in [0 .. N -> V]
  <2>1. F = [n \in 0 .. N |-> F[n]]
    BY <1>10
  <2> QED
    BY <1>12, <2>1
<1> QED
  BY <1>9, <1>11, <1>13 DEF AreOrdered, V

\* Every block is in the order.
LEMMA PriorityOrderFacts ==
    ASSUME NEW a \in Articles, a # <<>>, NEW order, order = PriorityOrder(a)
    PROVE  /\ order \in Seq(1 .. Len(a)) /\ order # <<>> /\ order[1] = 1
           /\ \A i \in 1 .. Len(a) : \E n \in 1 .. Len(order) : order[n] = i
<1> DEFINE N == Len(a)
<1>1. N \in Nat /\ N \in 0 .. N
  <2>1. a \in Seq([tokens : Nat \ {0}, heading : BOOLEAN])
    BY SelectionAssumption
  <2> QED
    BY <2>1
<1>2. PICK f : AreOrdered(f, a)
  BY PriorityOrderSteps
<1> HIDE DEF N
<1> DEFINE In(n) == ToSet(f[n])
<1>3. \A n \in 0 .. N : f[n] \in Seq(1 .. N) /\ f[n] # <<>> /\ f[n][1] = 1
  <2>1. \A n \in 0 .. N : f[n] \in Orders(N)
    BY <1>2 DEF AreOrdered, N
  <2> QED
    BY <2>1 DEF Orders
<1>4. \A n \in 0 .. N : In(n) \subseteq 1 .. N
  <2>1. \A e \in Seq(1 .. N) : ToSet(e) \subseteq 1 .. N
    <3>1. \A e \in Seq(1 .. N) : \A i \in DOMAIN e : e[i] \in 1 .. N
      BY SequenceFacts
    <3> QED
      BY <3>1 DEF ToSet
  <2> QED
    BY <1>3, <2>1
<1>5. IsFiniteSet(1 .. N) /\ Cardinality(1 .. N) = N
  BY <1>1, FS_Interval
<1>6. \A n \in 0 .. N : IsFiniteSet(In(n)) /\ Cardinality(In(n)) \in Nat
  BY <1>4, <1>5, FS_Subset, FS_CardinalityType
<1> DEFINE P == {n \in 0 .. N : In(n) = 1 .. N \/ Cardinality(In(n)) >= n}
<1>7. 0 \in P
  BY <1>1, <1>6
<1>8. ASSUME NEW n \in 1 .. N, n - 1 \in P
      PROVE  n \in P
  <2> DEFINE o == f[n - 1]
             rest == 1 .. N \ ToSet(o)
  <2>1. n \in 0 .. N /\ n - 1 \in 0 .. N
    BY <1>1
  <2>2. f[n] = IF rest = {} THEN o ELSE Append(o, Farthest(rest, o))
    <3>1. f[n] = Longer(f[n - 1], N)
      BY <1>2 DEF AreOrdered, N
    <3> QED
      BY <3>1 DEF Longer
  <2>3. In(n - 1) = 1 .. N \/ Cardinality(In(n - 1)) >= n - 1
    BY <1>8
  <2>4. CASE rest = {}
    <3>1. f[n] = f[n - 1] /\ In(n - 1) = 1 .. N
      BY <1>4, <2>1, <2>2, <2>4
    <3> QED
      BY <2>1, <3>1
  <2>5. CASE rest # {}
    <3> DEFINE x == Farthest(rest, o)
    <3>1. x \in rest
      <4>1. rest \subseteq 1 .. N /\ o \in Seq(1 .. N) /\ o # <<>>
        BY <1>3, <2>1
      <4> HIDE DEF rest, o
      <4> QED
        BY <1>1, <2>5, <4>1, FarthestIsThere
    <3>2. f[n] = Append(o, x) /\ o \in Seq(1 .. N) /\ x \in 1 .. N
      BY <1>3, <2>1, <2>2, <2>5, <3>1
    <3> HIDE DEF x
    <3>3. In(n) = In(n - 1) \cup {x}
      <4> DEFINE e == Append(o, x)
      <4>1. /\ DOMAIN e = 1 .. Len(o) + 1 /\ DOMAIN o = 1 .. Len(o) /\ Len(o) \in Nat
            /\ e[Len(o) + 1] = x /\ \A k \in 1 .. Len(o) : e[k] = o[k]
        BY <3>2
      <4> HIDE DEF e, o
      <4>2. \A k \in DOMAIN e : k = Len(o) + 1 \/ k \in 1 .. Len(o)
        BY <4>1
      <4>3. Len(o) + 1 \in DOMAIN e /\ \A k \in 1 .. Len(o) : k \in DOMAIN e
        BY <4>1
      <4>4. ToSet(e) = ToSet(o) \cup {x}
        BY <4>1, <4>2, <4>3 DEF ToSet
      <4> QED
        BY <3>2, <4>4 DEF e, o
    <3>4. x \notin In(n - 1) /\ In(n - 1) # 1 .. N
      BY <3>1, <3>2
    <3>5. Cardinality(In(n)) = Cardinality(In(n - 1)) + 1
      <4> HIDE DEF In
      <4> QED
        BY <1>6, <2>1, <3>3, <3>4, FS_AddElement
    <3>6. Cardinality(In(n)) >= n
      <4> HIDE DEF In
      <4> QED
        BY <1>6, <2>1, <2>3, <3>4, <3>5
    <3> QED
      BY <2>1, <3>6
  <2> QED
    BY <2>4, <2>5
<1>9. N \in P
  <2> HIDE DEF P
  <2>1. 0 .. N \subseteq P
    BY <1>1, <1>7, <1>8, UpToBound
  <2> QED
    BY <1>1, <2>1
<1>10. In(N) = 1 .. N
  <2>1. In(N) \in SUBSET (1 .. N) /\ Cardinality(In(N)) \in Nat
    BY <1>1, <1>4, <1>6
  <2>2. CASE Cardinality(In(N)) >= N
    <3> HIDE DEF In
    <3>1. Cardinality(In(N)) <= N
      BY <1>5, <2>1, FS_Subset
    <3>2. Cardinality(1 .. N) = Cardinality(In(N))
      BY <1>1, <1>5, <2>1, <2>2, <3>1
    <3> QED
      BY <1>5, <2>1, <3>2, FS_Subset
  <2> QED
    BY <1>9, <2>2
<1>11. order = f[N]
  BY <1>2 DEF AreOrdered, N
<1>12. order \in Seq(1 .. N) /\ order # <<>> /\ order[1] = 1
  BY <1>1, <1>3, <1>11
<1>13. \A i \in 1 .. N : \E n \in 1 .. Len(order) : order[n] = i
  <2>1. DOMAIN order = 1 .. Len(order)
    BY <1>12
  <2> QED
    BY <1>10, <1>11, <2>1 DEF ToSet
<1> QED
  BY <1>12, <1>13 DEF N

\* The blocks of an article that are used.
LEMMA ArticleFacts ==
    ASSUME NEW a \in Articles, NEW C, C = SelectedBlocks(a)
    PROVE  /\ SizeOf(TokensOf(a), C) <= ArticleTokens
           /\ \A i \in DOMAIN a \ C :
                 SizeOf(TokensOf(a), C) + a[i].tokens > ArticleTokens
           /\ a # <<>> /\ a[1].tokens <= ArticleTokens => 1 \in C
<1> DEFINE s == TokensOf(a)
           N == Len(a)
<1>1. N \in Nat /\ DOMAIN a = 1 .. N /\ \A i \in 1 .. N : a[i].tokens \in Nat
  <2>1. a \in Seq([tokens : Nat \ {0}, heading : BOOLEAN])
    BY SelectionAssumption
  <2>2. \A e \in [tokens : Nat \ {0}, heading : BOOLEAN] : e.tokens \in Nat
    OBVIOUS
  <2>3. N \in Nat /\ DOMAIN a = 1 .. N
        /\ \A i \in 1 .. N : a[i] \in [tokens : Nat \ {0}, heading : BOOLEAN]
    <3> DEFINE T == [tokens : Nat \ {0}, heading : BOOLEAN]
    <3>1. a \in Seq(T)
      BY <2>1
    <3> HIDE DEF T
    <3>2. \A i \in 1 .. N : a[i] \in T
      BY <3>1, SequenceFacts
    <3> QED
      BY <3>1, <3>2 DEF T
  <2> QED
    BY <2>2, <2>3
<1>2. s \in Seq(Nat) /\ Len(s) = N /\ \A i \in 1 .. N : s[i] = a[i].tokens
  <2>1. s = [i \in 1 .. N |-> s[i]] /\ \A i \in 1 .. N : s[i] = a[i].tokens
    BY <1>1 DEF TokensOf
  <2>2. \A i \in 1 .. N : s[i] \in Nat
    BY <1>1, <2>1
  <2> HIDE DEF s
  <2> QED
    BY <1>1, <2>1, <2>2, IsSequence
<1> HIDE DEF s, N
<1>3. ArticleTokens \in Nat
  BY SelectionAssumption
<1>4. CASE SizeOf(s, 1 .. N) <= ArticleTokens
  <2>1. C = 1 .. N
    BY <1>1, <1>4 DEF SelectedBlocks, s
  <2>2. a # <<>> => N >= 1
    <3>1. a \in Seq([tokens : Nat \ {0}, heading : BOOLEAN])
      BY SelectionAssumption
    <3> QED
      BY <3>1 DEF N
  <2> QED
    BY <1>1, <1>4, <2>1, <2>2 DEF s
<1>5. CASE ~(SizeOf(s, 1 .. N) <= ArticleTokens)
  <2> DEFINE order == PriorityOrder(a)
  <2>1. C = Fitting(s, order, ArticleTokens)
    BY <1>1, <1>5 DEF SelectedBlocks, s
  <2>2. a # <<>>
    <3>1. SUFFICES ASSUME a = <<>> PROVE FALSE
      OBVIOUS
    <3>2. N = 0 /\ 1 .. N = {}
      BY <3>1 DEF N
    <3>3. SizeOf(s, 1 .. N) = 0
      BY <1>2, <3>2, SizeOfNone
    <3> QED
      BY <1>3, <1>5, <3>3
  <2>3. /\ order \in Seq(1 .. N) /\ order # <<>> /\ order[1] = 1
        /\ \A i \in 1 .. N : \E n \in 1 .. Len(order) : order[n] = i
    <3> HIDE DEF order
    <3>1. order = PriorityOrder(a)
      BY DEF order
    <3> QED
      BY <2>2, <3>1, PriorityOrderFacts DEF N
  <2> HIDE DEF order
  <2>4. /\ SizeOf(s, C) <= ArticleTokens
        /\ \A n \in 1 .. Len(order) : order[n] \notin C =>
              SizeOf(s, C) + s[order[n]] > ArticleTokens
    BY <1>2, <1>3, <2>1, <2>3, FittingIsFull
  <2>5. ASSUME NEW i \in DOMAIN a \ C
        PROVE  SizeOf(s, C) + a[i].tokens > ArticleTokens
    <3>1. i \in 1 .. N /\ i \notin C
      BY <1>1, <2>5
    <3>2. PICK n \in 1 .. Len(order) : order[n] = i
      BY <2>3, <3>1
    <3>3. SizeOf(s, C) + s[i] > ArticleTokens
      BY <2>4, <3>1, <3>2
    <3> QED
      BY <1>2, <3>1, <3>3
  <2>6. ASSUME a[1].tokens <= ArticleTokens
        PROVE  1 \in C
    <3>1. PICK f : AreTaken(f, s, order, ArticleTokens)
      BY <1>2, <1>3, <2>3, FittingSteps
    <3>2. Len(order) \in Nat /\ Len(order) >= 1 /\ 1 \in 1 .. N
      <4>1. order \in Seq(1 .. N) /\ order # <<>>
        BY <2>3
      <4>2. Len(order) \in Nat /\ Len(order) >= 1
        BY <4>1, SequenceFacts
      <4>3. order[1] \in 1 .. N
        <5>1. 1 \in 1 .. Len(order)
          BY <4>2
        <5>2. \A i \in 1 .. Len(order) : order[i] \in 1 .. N
          BY <4>1, SequenceFacts
        <5> QED
          BY <5>1, <5>2
      <4> QED
        BY <2>3, <4>2, <4>3
    <3>3. f[1] = IF SizeOf(s, f[0] \cup {1}) <= ArticleTokens
                 THEN f[0] \cup {1} ELSE f[0]
      <4>1. 1 \in 1 .. Len(order) /\ 1 - 1 = 0
        BY <3>2
      <4>2. f[1] = IF SizeOf(s, f[1 - 1] \cup {order[1]}) <= ArticleTokens
                   THEN f[1 - 1] \cup {order[1]} ELSE f[1 - 1]
        BY <3>1, <4>1 DEF AreTaken
      <4> QED
        BY <2>3, <4>1, <4>2
    <3>4. f[0] = {}
      BY <3>1 DEF AreTaken
    <3>5. SizeOf(s, f[0] \cup {1}) = a[1].tokens
      <4>1. SizeOf(s, {}) = 0
        BY <1>2, SizeOfNone
      <4>2. SizeOf(s, {} \cup {1}) = SizeOf(s, {}) + s[1]
        BY <1>2, <3>2, SizeOfAdded
      <4> QED
        BY <1>1, <1>2, <3>2, <3>4, <4>1, <4>2
    <3>6. 1 \in f[1]
      BY <2>6, <3>3, <3>5
    <3>7. f[1] \subseteq f[Len(order)]
      <4>1. Len(order) \in 0 .. Len(order) /\ 1 \in 0 .. Len(order)
        BY <3>2
      <4> QED
        BY <1>2, <1>3, <2>3, <3>1, <4>1, TakenGrows
    <3> QED
      BY <2>1, <3>1, <3>6, <3>7 DEF AreTaken
  <2> QED
    BY <2>4, <2>5, <2>6 DEF s
<1> QED
  BY <1>4, <1>5

-----------------------------------------------------------------------------
(* The discussion.                                                         *)

Further(path, d) ==
    LET parent == d[Last(path)].parent
    IN  IF parent \in Candidates(d) /\ ~Contains(path, parent)
        THEN Append(path, parent) ELSE path

LEMMA CandidatesAreFinite ==
    ASSUME NEW d \in Discussions
    PROVE  /\ Candidates(d) \subseteq Comments /\ Candidates(d) \subseteq Nat
           /\ IsFiniteSet(Candidates(d))
           /\ \A S : S \subseteq Candidates(d) =>
                 IsFiniteSet(S) /\ Cardinality(S) \in Nat
<1>1. Candidates(d) \subseteq Comments
  BY DEF Candidates
<1>2. IsFiniteSet(Comments) /\ Comments \subseteq Nat
  BY SelectionAssumption
<1>3. IsFiniteSet(Candidates(d))
  BY <1>1, <1>2, FS_Subset
<1>4. ASSUME NEW S, S \subseteq Candidates(d)
      PROVE  IsFiniteSet(S) /\ Cardinality(S) \in Nat
  BY <1>3, <1>4, FS_Subset, FS_CardinalityType
<1> QED
  BY <1>1, <1>2, <1>3, <1>4

\* The walk up from a comment is a sequence of comments.
LEMMA WalkUpIsPath ==
    ASSUME NEW d \in Discussions, NEW c \in Candidates(d)
    PROVE  WalkUp(d, c) \in Seq(Comments)
<1> DEFINE N == Cardinality(Comments)
           V == Seq(Comments)
           start == <<c>>
           step == [p \in (1 .. N) \X V |-> Further(p[2], d)]
           IsF(f) == f = [n \in 0 .. N |->
                          IF n = 0 THEN <<c>>
                          ELSE LET path   == f[n - 1]
                                   parent == d[Last(path)].parent
                               IN  IF parent \in Candidates(d)
                                      /\ ~Contains(path, parent)
                                   THEN Append(path, parent) ELSE path]
<1>1. N \in Nat
  BY SelectionAssumption, FS_CardinalityType
<1>2. start \in V
  BY CandidatesAreFinite
<1>3. \A v \in V : Further(v, d) \in V
  BY CandidatesAreFinite DEF Further
<1>4. IsStep(step, N, V)
  <2>1. \A p \in (1 .. N) \X V : Further(p[2], d) \in V
    <3> HIDE DEF V
    <3> QED
      BY <1>3
  <2> HIDE DEF V
  <2> QED
    BY <2>1 DEF IsStep
<1>5. \A n \in 1 .. N : \A v \in V : step[<<n, v>>] = Further(v, d)
  <2> HIDE DEF V
  <2> QED
    OBVIOUS
<1> HIDE DEF step, V, start
<1>6. PICK f : Iterates(f, N, V, start, step)
  <2> HIDE DEF N
  <2> QED
    BY <1>1, <1>2, <1>4, StepsAreThere
<1>7. /\ f \in [0 .. N -> V] /\ f[0] = start
      /\ \A n \in 1 .. N : f[n] = Further(f[n - 1], d)
  <2>1. \A n \in 1 .. N : n - 1 \in 0 .. N
    BY <1>1
  <2>2. \A n \in 1 .. N : f[n - 1] \in V
    BY <1>6, <2>1 DEF Iterates
  <2> QED
    BY <1>5, <1>6, <2>2 DEF Iterates
<1>8. IsF(f)
  <2>1. \A n \in 0 .. N : f[n] = IF n = 0 THEN start ELSE Further(f[n - 1], d)
    <3>1. \A n \in 0 .. N : n # 0 => n \in 1 .. N
      BY <1>1
    <3> QED
      BY <1>7, <3>1
  <2>2. f = [n \in 0 .. N |-> f[n]]
    BY <1>7
  <2>3. f = [n \in 0 .. N |-> IF n = 0 THEN start ELSE Further(f[n - 1], d)]
    BY <2>1, <2>2
  <2> QED
    BY <2>3 DEF Further, start
<1> DEFINE F == CHOOSE g : IsF(g)
<1>9. IsF(F)
  <2> HIDE DEF IsF
  <2> QED
    BY <1>8
<1>10. WalkUp(d, c) = F[N]
  BY DEF WalkUp
<1> HIDE DEF F
<1>11. F = [n \in 0 .. N |-> IF n = 0 THEN start ELSE Further(F[n - 1], d)]
  BY <1>9 DEF Further, start
<1> DEFINE P == {n \in 0 .. N : F[n] \in V}
<1>12. 0 \in P
  <2>1. 0 \in 0 .. N
    BY <1>1
  <2> QED
    BY <1>2, <1>11, <2>1
<1>13. ASSUME NEW n \in 1 .. N, n - 1 \in P
       PROVE  n \in P
  <2>1. n \in 0 .. N /\ n # 0 /\ F[n - 1] \in V
    BY <1>1, <1>13
  <2>2. F[n] = Further(F[n - 1], d)
    BY <1>11, <2>1
  <2> QED
    BY <1>3, <2>1, <2>2
<1>14. 0 .. N \subseteq P
  <2> HIDE DEF P
  <2> QED
    BY <1>1, <1>12, <1>13, UpToBound
<1>15. N \in 0 .. N
  BY <1>1
<1> QED
  BY <1>10, <1>14, <1>15 DEF V

LEMMA ScoreIsNumber ==
    ASSUME NEW d \in Discussions, NEW c \in Candidates(d)
    PROVE  Score(d, c) \in Int
<1> DEFINE text == TextFacts[d[c].text]
           same == {o \in Candidates(d) : d[o].text = d[c].text}
<1>1. text.characters \in Nat
  <2>1. d[c].text \in DOMAIN TextFacts
    BY SelectionAssumption, CandidatesAreFinite DEF Candidates
  <2>2. \A t \in DOMAIN TextFacts : TextFacts[t].characters \in Nat
    BY DEF TextFacts
  <2> QED
    BY <2>1, <2>2
<1>2. Depth(d, c) \in Int
  BY WalkUpIsPath DEF Depth
<1>3. Cardinality(Replies(d, c)) \in Nat
  BY CandidatesAreFinite DEF Replies
<1>4. Cardinality(Descendants(d, c)) \in Nat
  BY CandidatesAreFinite DEF Descendants
<1>5. Cardinality(Branch(d, c)) \in Nat
  BY CandidatesAreFinite DEF Branch
<1> DEFINE depth == Depth(d, c)
           replies == Cardinality(Replies(d, c))
           descendants == Cardinality(Descendants(d, c))
           branch == Cardinality(Branch(d, c))
           length == text.characters
           quoting == text.quoted
           doubled == Cardinality(same) > 1
<1>6. Score(d, c) = Larger(0, 30 - 6 * depth) + 3 * Smaller(replies, 5)
                    + 4 * Smaller(descendants, 10) + Smaller(30, length \div 40)
                    + Smaller(20, 2 * branch)
                    - (IF quoting THEN 30 ELSE 0) - (IF doubled THEN 35 ELSE 0)
  BY DEF Score
<1> HIDE DEF depth, replies, descendants, branch, length, quoting, doubled
<1>7. Larger(0, 30 - 6 * depth) \in Int
  BY <1>2 DEF Larger, depth
<1>8. 3 * Smaller(replies, 5) \in Int /\ 4 * Smaller(descendants, 10) \in Int
      /\ Smaller(20, 2 * branch) \in Int
  BY <1>3, <1>4, <1>5 DEF Smaller, replies, descendants, branch
<1>9. Smaller(30, length \div 40) \in Int
  BY <1>1 DEF Smaller, length
<1> QED
  BY <1>6, <1>7, <1>8, <1>9

\* Of any two candidates one is ahead, and nobody is ahead in a circle.
LEMMA AheadIsOrder ==
    ASSUME NEW d \in Discussions
    PROVE  /\ \A x \in Candidates(d) : ~Ahead(d, x, x)
           /\ \A x, y \in Candidates(d) : x # y => Ahead(d, x, y) \/ Ahead(d, y, x)
           /\ \A x, y, z \in Candidates(d) :
                 Ahead(d, x, y) /\ Ahead(d, y, z) => Ahead(d, x, z)
<1> DEFINE score(x) == Score(d, x)
<1>1. \A x \in Candidates(d) : score(x) \in Int /\ x \in Nat
  BY ScoreIsNumber, CandidatesAreFinite
<1>2. \A x, y : Ahead(d, x, y)
                    <=> (score(x) > score(y) \/ (score(x) = score(y) /\ x < y))
  BY DEF Ahead
<1> HIDE DEF score
<1>3. \A x \in Candidates(d) : ~Ahead(d, x, x)
  BY <1>1, <1>2
<1>4. \A x, y \in Candidates(d) : x # y => Ahead(d, x, y) \/ Ahead(d, y, x)
  BY <1>1, <1>2
<1>5. \A x, y, z \in Candidates(d) :
         Ahead(d, x, y) /\ Ahead(d, y, z) => Ahead(d, x, z)
  <2> SUFFICES ASSUME NEW x \in Candidates(d), NEW y \in Candidates(d),
                      NEW z \in Candidates(d), Ahead(d, x, y), Ahead(d, y, z)
               PROVE  Ahead(d, x, z)
    OBVIOUS
  <2>1. /\ score(x) \in Int /\ score(y) \in Int /\ score(z) \in Int
        /\ x \in Nat /\ y \in Nat /\ z \in Nat
    BY <1>1
  <2>2. /\ score(x) > score(y) \/ (score(x) = score(y) /\ x < y)
        /\ score(y) > score(z) \/ (score(y) = score(z) /\ y < z)
    BY <1>2
  <2>3. score(x) > score(z) \/ (score(x) = score(z) /\ x < z)
    BY <2>1, <2>2
  <2> QED
    BY <1>2, <2>3
<1> QED
  BY <1>3, <1>4, <1>5

\* The first of a set are as many as asked for, if there are so many, and
\* ahead of all others.
LEMMA FirstAreAhead ==
    ASSUME NEW d \in Discussions, NEW S, S \subseteq Candidates(d), NEW n \in Nat
    PROVE  /\ FirstOf(d, S, n) \subseteq S
           /\ \A x \in FirstOf(d, S, n) : \A y \in S \ FirstOf(d, S, n) : Ahead(d, x, y)
<1> DEFINE before(c) == {o \in S : Ahead(d, o, c)}
           F == FirstOf(d, S, n)
<1>1. F = {c \in S : Cardinality(before(c)) < n}
  BY DEF FirstOf
<1>2. ASSUME NEW x \in F, NEW y \in S \ F
      PROVE  Ahead(d, x, y)
  <2>1. x \in S /\ y \in S /\ x # y /\ x \in Candidates(d) /\ y \in Candidates(d)
    BY <1>1, <1>2
  <2>2. SUFFICES ASSUME ~Ahead(d, x, y) PROVE FALSE
    OBVIOUS
  <2>3. Ahead(d, y, x)
    BY <2>1, <2>2, AheadIsOrder
  <2>4. before(y) \subseteq before(x)
    BY <2>1, <2>3, AheadIsOrder
  <2>5. IsFiniteSet(before(x)) /\ Cardinality(before(x)) \in Nat
        /\ Cardinality(before(y)) \in Nat
    <3>1. before(x) \subseteq Candidates(d) /\ before(y) \subseteq Candidates(d)
      OBVIOUS
    <3> HIDE DEF before
    <3> QED
      BY <3>1, CandidatesAreFinite
  <2>6. Cardinality(before(y)) <= Cardinality(before(x))
    <3> HIDE DEF before
    <3> QED
      BY <2>4, <2>5, FS_Subset
  <2>7. Cardinality(before(x)) < n /\ ~(Cardinality(before(y)) < n)
    BY <1>1, <1>2
  <2> HIDE DEF before
  <2> QED
    BY <2>5, <2>6, <2>7
<1> QED
  BY <1>1, <1>2

\* One more is the one ahead of all that are not yet among them.
LEMMA OneMore ==
    ASSUME NEW d \in Discussions, NEW S, S \subseteq Candidates(d), NEW n \in Nat,
           FirstOf(d, S, n) # S, Cardinality(FirstOf(d, S, n)) = n
    PROVE  \E x \in S \ FirstOf(d, S, n) :
              FirstOf(d, S, n + 1) = FirstOf(d, S, n) \cup {x}
<1> DEFINE before(c) == {o \in S : Ahead(d, o, c)}
           F == FirstOf(d, S, n)
           G == FirstOf(d, S, n + 1)
           R == S \ F
           rank(c) == Cardinality(before(c))
<1>1. F = {c \in S : rank(c) < n} /\ G = {c \in S : rank(c) < n + 1}
  BY DEF FirstOf
<1>2. /\ \A x \in F : \A y \in R : Ahead(d, x, y)
      /\ F \subseteq S /\ R # {} /\ R \subseteq Candidates(d)
  BY FirstAreAhead
<1>3. \A c \in S : IsFiniteSet(before(c)) /\ rank(c) \in Nat
  <2>1. \A c \in S : before(c) \subseteq Candidates(d)
    OBVIOUS
  <2> HIDE DEF before
  <2> QED
    BY <2>1, CandidatesAreFinite
<1>4. IsFiniteSet(F) /\ Cardinality(F) = n
  BY <1>2, CandidatesAreFinite
<1> HIDE DEF F, G
<1>5. PICK x \in R : \A y \in R : rank(x) <= rank(y)
  <2> DEFINE B == {rank(y) : y \in R}
  <2>1. B \subseteq Nat /\ B # {}
    <3> HIDE DEF rank
    <3> QED
      BY <1>2, <1>3
  <2> HIDE DEF B
  <2>2. PICK m \in B : \A k \in B : m <= k
    BY <2>1, LeastOfNaturals
  <2> QED
    BY <2>2 DEF B
<1>6. \A y \in R : ~Ahead(d, y, x)
  <2> SUFFICES ASSUME NEW y \in R, Ahead(d, y, x) PROVE FALSE
    OBVIOUS
  <2>1. x \in S /\ y \in S /\ x \in Candidates(d) /\ y \in Candidates(d)
    BY <1>2
  <2>2. before(y) \subseteq before(x) /\ y \in before(x) /\ y \notin before(y)
    BY <2>1, AheadIsOrder
  <2>3. rank(y) < rank(x)
    <3>1. rank(y) <= rank(x) /\ rank(y) # rank(x)
      <4>1. before(y) # before(x)
        BY <2>2
      <4>2. before(y) \in SUBSET before(x) /\ IsFiniteSet(before(x))
        BY <1>3, <2>1, <2>2
      <4> HIDE DEF before
      <4>3. Cardinality(before(y)) <= Cardinality(before(x))
        BY <4>2, FS_Subset
      <4>4. Cardinality(before(x)) # Cardinality(before(y))
        BY <4>1, <4>2, FS_Subset
      <4> QED
        BY <4>3, <4>4
    <3>2. rank(y) \in Nat /\ rank(x) \in Nat
      BY <1>3, <2>1
    <3> HIDE DEF rank
    <3> QED
      BY <3>1, <3>2
  <2>4. rank(x) <= rank(y) /\ rank(y) \in Nat /\ rank(x) \in Nat
    BY <1>3, <1>5, <2>1
  <2> HIDE DEF rank
  <2> QED
    BY <2>3, <2>4
<1>7. x \in S /\ x \notin F
  OBVIOUS
<1>8. before(x) = F
  BY <1>2, <1>6, <1>7
<1>9. x \in G
  <2>1. rank(x) = n
    <3> HIDE DEF before
    <3> QED
      BY <1>4, <1>8
  <2> HIDE DEF rank
  <2> QED
    BY <1>1, <1>7, <2>1
<1>10. F \subseteq G
  <2> HIDE DEF rank
  <2>1. \A c \in S : rank(c) \in Nat /\ rank(c) < n => rank(c) < n + 1
    OBVIOUS
  <2> QED
    BY <1>1, <1>3, <2>1
<1>11. ASSUME NEW y \in R \ {x}
       PROVE  y \notin G
  <2>1. y \in S /\ y \in Candidates(d) /\ x \in Candidates(d)
    BY <1>2
  <2>2. Ahead(d, x, y)
    BY <1>6, <2>1, AheadIsOrder
  <2>3. F \cup {x} \subseteq before(y)
    BY <1>2, <1>7, <2>2
  <2>4. Cardinality(F \cup {x}) = n + 1 /\ IsFiniteSet(F \cup {x})
    BY <1>4, <1>7, FS_AddElement
  <2>5. IsFiniteSet(before(y)) /\ rank(y) \in Nat
    BY <1>3, <2>1
  <2>6. n + 1 <= rank(y)
    <3> HIDE DEF before
    <3> QED
      BY <2>3, <2>4, <2>5, FS_Subset
  <2> HIDE DEF rank
  <2> QED
    BY <1>1, <2>5, <2>6
<1>12. G = F \cup {x}
  <2>1. G \subseteq S
    BY <1>1
  <2> QED
    BY <1>9, <1>10, <1>11, <2>1
<1> QED
  BY <1>12 DEF F, G

LEMMA FirstAreMany ==
    ASSUME NEW d \in Discussions, NEW S, S \subseteq Candidates(d), NEW n \in Nat
    PROVE  /\ FirstOf(d, S, n) = S \/ Cardinality(FirstOf(d, S, n)) = n
           /\ Cardinality(FirstOf(d, S, n)) = Smaller(n, Cardinality(S))
<1> DEFINE Many(m) == \/ FirstOf(d, S, m) = S /\ Cardinality(S) <= m
                      \/ Cardinality(FirstOf(d, S, m)) = m
           P == {m \in 0 .. n : Many(m)}
<1>1. IsFiniteSet(S) /\ Cardinality(S) \in Nat
  BY CandidatesAreFinite
<1>2. Many(0)
  <2>1. \A c \in S : Cardinality({o \in S : Ahead(d, o, c)}) \in Nat
    BY CandidatesAreFinite
  <2>2. FirstOf(d, S, 0) = {}
    BY <2>1 DEF FirstOf
  <2> QED
    BY <2>2, FS_EmptySet
<1>3. ASSUME NEW m \in Nat, Many(m)
      PROVE  Many(m + 1)
  <2>1. CASE FirstOf(d, S, m) = S /\ Cardinality(S) <= m
    <3>1. FirstOf(d, S, m + 1) = S
      <4>1. \A c \in S : Cardinality({o \in S : Ahead(d, o, c)}) \in Nat
        BY CandidatesAreFinite
      <4>2. \A c \in S : Cardinality({o \in S : Ahead(d, o, c)}) < m
        BY <2>1 DEF FirstOf
      <4>3. \A c \in S : Cardinality({o \in S : Ahead(d, o, c)}) < m + 1
        BY <4>1, <4>2
      <4> QED
        BY <4>3 DEF FirstOf
    <3>2. Cardinality(S) <= m + 1
      BY <1>1, <2>1
    <3> QED
      BY <3>1, <3>2
  <2>2. CASE FirstOf(d, S, m) = S /\ ~(Cardinality(S) <= m)
    BY <1>1, <1>3, <2>2
  <2>3. CASE FirstOf(d, S, m) # S
    <3>1. Cardinality(FirstOf(d, S, m)) = m
      BY <1>3, <2>3
    <3>2. PICK x \in S \ FirstOf(d, S, m) :
             FirstOf(d, S, m + 1) = FirstOf(d, S, m) \cup {x}
      BY <2>3, <3>1, OneMore
    <3>3. IsFiniteSet(FirstOf(d, S, m))
      BY <1>1, FirstAreAhead, FS_Subset
    <3>4. Cardinality(FirstOf(d, S, m + 1)) = m + 1
      BY <3>1, <3>2, <3>3, FS_AddElement
    <3> QED
      BY <3>4
  <2> QED
    BY <2>1, <2>2, <2>3
<1> HIDE DEF Many
<1>4. 0 \in P
  BY <1>2
<1>5. ASSUME NEW m \in 1 .. n, m - 1 \in P
      PROVE  m \in P
  <2>1. m - 1 \in Nat /\ Many(m - 1) /\ m \in 0 .. n
    BY <1>5
  <2>2. Many((m - 1) + 1)
    BY <1>3, <2>1
  <2>3. (m - 1) + 1 = m
    OBVIOUS
  <2> QED
    BY <2>1, <2>2, <2>3
<1>6. 0 .. n \subseteq P
  <2> HIDE DEF P
  <2> QED
    BY <1>4, <1>5, UpToBound
<1>7. n \in 0 .. n
  OBVIOUS
<1>8. Many(n)
  BY <1>6, <1>7
<1>9. Cardinality(FirstOf(d, S, n)) <= Cardinality(S)
  BY <1>1, FirstAreAhead, FS_Subset
<1> QED
  BY <1>1, <1>8, <1>9 DEF Many, Smaller

\* The comments of a discussion that are chosen.
LEMMA BranchFacts ==
    ASSUME NEW d \in Discussions, NEW C, C = Selected(d)
    PROVE  /\ C \subseteq Candidates(d)
           /\ Cardinality(C) = Smaller(MaximumComments, Cardinality(Candidates(d)))
           /\ \A b \in BestOfBranches(d) \ C : \A c \in C :
                 c \in BestOfBranches(d) /\ Ahead(d, c, b)
<1> DEFINE all == Candidates(d)
           heads == BestOfBranches(d)
           best == FirstOf(d, heads, MaximumComments)
           others == all \ best
           room == MaximumComments - Cardinality(best)
           rest == FirstOf(d, others, room)
<1>1. C = best \cup rest
  BY DEF Selected
<1>2. MaximumComments \in Nat
  BY SelectionAssumption
<1>3. heads \subseteq all /\ best \subseteq heads /\ others \subseteq all
  BY FirstAreAhead, <1>2 DEF BestOfBranches
<1>4. /\ IsFiniteSet(all) /\ IsFiniteSet(heads) /\ IsFiniteSet(best)
      /\ IsFiniteSet(others)
      /\ Cardinality(all) \in Nat /\ Cardinality(heads) \in Nat
      /\ Cardinality(best) \in Nat /\ Cardinality(others) \in Nat
  <2> HIDE DEF best, heads, others
  <2>1. best \subseteq all
    BY <1>3
  <2> QED
    BY <1>3, <2>1, CandidatesAreFinite
<1>5. /\ best = heads \/ Cardinality(best) = MaximumComments
      /\ Cardinality(best) = Smaller(MaximumComments, Cardinality(heads))
  BY <1>2, <1>3, FirstAreMany
<1>6. room \in Nat
  <2> HIDE DEF best, heads
  <2> QED
    BY <1>2, <1>4, <1>5 DEF Smaller
<1>7. /\ rest \subseteq others
      /\ rest = others \/ Cardinality(rest) = room
      /\ Cardinality(rest) = Smaller(room, Cardinality(others))
  <2> HIDE DEF best, others, room
  <2> QED
    BY <1>3, <1>6, FirstAreAhead, FirstAreMany
<1> HIDE DEF best, heads, rest
<1>8. C \subseteq all
  BY <1>1, <1>3, <1>7
<1>9. Cardinality(C) = Smaller(MaximumComments, Cardinality(all))
  <2>1. Cardinality(others) = Cardinality(all) - Cardinality(best)
    <3>1. all \cap best = best
      BY <1>3
    <3> HIDE DEF all
    <3> QED
      BY <1>4, <3>1, FS_Difference
  <2>2. IsFiniteSet(rest) /\ Cardinality(rest) \in Nat
    BY <1>3, <1>7, CandidatesAreFinite
  <2>3. Cardinality(C) = Cardinality(best) + Cardinality(rest)
    <3>1. best \cap rest = {}
      BY <1>7
    <3>2. Cardinality(best \cap rest) = 0
      BY <3>1, FS_EmptySet
    <3>3. Cardinality(best \cup rest)
             = Cardinality(best) + Cardinality(rest) - Cardinality(best \cap rest)
      BY <1>4, <2>2, FS_Union
    <3> QED
      BY <1>1, <1>4, <2>2, <3>2, <3>3
  <2>4. Cardinality(best) <= Cardinality(all)
    BY <1>3, <1>4, FS_Subset
  <2> HIDE DEF all, others
  <2> QED
    BY <1>2, <1>4, <1>6, <1>7, <2>1, <2>2, <2>3, <2>4 DEF Smaller
<1>10. ASSUME NEW b \in heads \ C
       PROVE  \A c \in C : c \in heads /\ Ahead(d, c, b)
  <2>1. b \notin best
    BY <1>1, <1>10
  <2>2. Cardinality(best) = MaximumComments
    BY <1>5, <1>10, <2>1
  <2>3. room = 0
    BY <1>2, <2>2
  <2>4. rest = {}
    <3>1. IsFiniteSet(rest)
      BY <1>3, <1>7, CandidatesAreFinite
    <3>2. Cardinality(rest) = 0
      BY <1>4, <1>7, <2>3 DEF Smaller
    <3> QED
      BY <3>1, <3>2, FS_EmptySet
  <2>5. C = best
    BY <1>1, <2>4
  <2>6. \A c \in best : Ahead(d, c, b)
    BY <1>2, <1>3, <1>10, <2>1, FirstAreAhead DEF best
  <2> QED
    BY <1>3, <2>5, <2>6
<1> QED
  BY <1>8, <1>9, <1>10 DEF heads

-----------------------------------------------------------------------------
(* The specification.                                                      *)

\* What is chosen is what the algorithms choose of what there is.
SelectionInv ==
    \/ /\ input.of = "discussion" /\ input.value \in Discussions
       /\ chosen = NothingChosen \/ chosen = Selected(input.value)
    \/ /\ input.of = "article" /\ input.value \in Articles
       /\ chosen = NothingChosen \/ chosen = SelectedBlocks(input.value)
    \/ /\ input.of = "request" /\ input.value \in CommentSizes
       /\ chosen = NothingChosen \/ chosen = FittingComments(input.value)

LEMMA SelectionInitially == SelectionInit => SelectionInv
<1> SUFFICES ASSUME SelectionInit PROVE SelectionInv
  OBVIOUS
<1>1. /\ input \in [of : {"discussion"}, value : Discussions]
                   \cup [of : {"article"}, value : Articles]
                   \cup [of : {"request"}, value : CommentSizes]
      /\ chosen = NothingChosen
  BY DEF SelectionInit
<1>2. /\ \A i \in [of : {"discussion"}, value : Discussions] :
            i.of = "discussion" /\ i.value \in Discussions
      /\ \A i \in [of : {"article"}, value : Articles] :
            i.of = "article" /\ i.value \in Articles
      /\ \A i \in [of : {"request"}, value : CommentSizes] :
            i.of = "request" /\ i.value \in CommentSizes
  OBVIOUS
<1>3. \/ input.of = "discussion" /\ input.value \in Discussions
      \/ input.of = "article" /\ input.value \in Articles
      \/ input.of = "request" /\ input.value \in CommentSizes
  BY <1>1, <1>2
<1> QED
  BY <1>1, <1>3 DEF SelectionInv

LEMMA SelectionIsKept ==
    SelectionInv /\ [SelectionNext]_selectionVars => SelectionInv'
<1> SUFFICES ASSUME SelectionInv, [SelectionNext]_selectionVars
             PROVE  SelectionInv'
  OBVIOUS
<1>1. CASE Select("discussion", Selected(input.value))
  BY <1>1 DEF SelectionInv, Select
<1>2. CASE Select("article", SelectedBlocks(input.value))
  BY <1>2 DEF SelectionInv, Select
<1>3. CASE Select("request", FittingComments(input.value))
  BY <1>3 DEF SelectionInv, Select
<1>4. CASE UNCHANGED selectionVars
  BY <1>4 DEF SelectionInv, selectionVars
<1> QED
  BY <1>1, <1>2, <1>3, <1>4 DEF SelectionNext

LEMMA SelectionIsFair == SelectionInv => ContextIsFair
<1> SUFFICES ASSUME SelectionInv PROVE ContextIsFair
  OBVIOUS
<1>1. BranchesAreHeard
  <2> SUFFICES ASSUME IsChosen("discussion") PROVE BranchesAreHeard
    BY DEF BranchesAreHeard
  <2>1. input.value \in Discussions /\ chosen = Selected(input.value)
    BY DEF SelectionInv, IsChosen
  <2> QED
    BY <2>1, BranchFacts DEF BranchesAreHeard
<1>2. ArticleIsUsed
  <2> SUFFICES ASSUME IsChosen("article") PROVE ArticleIsUsed
    BY DEF ArticleIsUsed
  <2>1. input.value \in Articles /\ chosen = SelectedBlocks(input.value)
    BY DEF SelectionInv, IsChosen
  <2> QED
    BY <2>1, ArticleFacts DEF ArticleIsUsed
<1>3. RequestIsFull
  <2> SUFFICES ASSUME IsChosen("request") PROVE RequestIsFull
    BY DEF RequestIsFull
  <2>1. input.value \in CommentSizes /\ chosen = FittingComments(input.value)
    BY DEF SelectionInv, IsChosen
  <2> QED
    BY <2>1, RequestFacts DEF RequestIsFull
<1> QED
  BY <1>1, <1>2, <1>3 DEF ContextIsFair

\* What the LLM reads is chosen fairly from any discussion, any article and any
\* ranked comments, whatever the budgets: the best of each branch worth reading
\* before second ones (selectComments of src/src/comments/ranking.ts), blocks
\* until none fits any more (selectArticleContext of
\* src/src/articles/selection.ts), and comments by rank as long as they fit
\* (selectCommentData of src/src/analysis/request.ts).
THEOREM ContextsStayFair == SelectionSpec => []ContextIsFair
<1>1. SelectionInit => SelectionInv
  BY SelectionInitially
<1>2. SelectionInv /\ [SelectionNext]_selectionVars => SelectionInv'
  BY SelectionIsKept
<1>3. SelectionInv => ContextIsFair
  BY SelectionIsFair
<1> QED
  BY <1>1, <1>2, <1>3, PTL DEF SelectionSpec

=============================================================================
