-------------------------- MODULE TimedQueueProofs --------------------------
(***************************************************************************)
(* Proofs about TimedQueue for any keys, callers, delays and length of time: *)
(* the list stays sorted with one entry per key, and the thread in loop      *)
(* never sleeps past its first entry without a caller about to wake it.      *)
(***************************************************************************)
EXTENDS TimedQueue, SequenceTheorems, WellFoundedInduction, TLAPS

\* UniqueList.hpp: "sorted by ascending order", and one element per key.
SortedByOrder(l) == \A i, j \in DOMAIN l : i < j => l[i].order <= l[j].order
OneEntryPerKey(l) == \A i, j \in DOMAIN l : l[i].key = l[j].key => i = j

\* No entry is due before the thread in loop wakes up.
NothingDueBefore ==
    pc = "wait" /\ notifies = {} => \A i \in DOMAIN list : deadline <= list[i].order

IInv == TypeOK /\ SortedByOrder(list) /\ OneEntryPerKey(list) /\ NothingDueBefore

-----------------------------------------------------------------------------
(* Lists. *)

\* What RemoveAt returns.
LEMMA RemoveAtProperties ==
    ASSUME NEW S, NEW l \in Seq(S), NEW i \in 1..Len(l)
    PROVE  /\ RemoveAt(l, i) \in Seq(S)
           /\ Len(RemoveAt(l, i)) = Len(l) - 1
           /\ \A j \in 1..Len(l) - 1 : RemoveAt(l, i)[j] = l[IF j < i THEN j ELSE j + 1]
<1> DEFINE a == SubSeq(l, 1, i - 1)
           b == SubSeq(l, i + 1, Len(l))
<1>0. Len(l) \in Nat /\ \A j \in 1..Len(l) : l[j] \in S
  BY ElementOfSeq, LenProperties
<1>1. a \in Seq(S) /\ Len(a) = i - 1 /\ \A j \in 1..i - 1 : a[j] = l[j]
  BY <1>0, SubSeqProperties
<1>2. b \in Seq(S) /\ Len(b) = Len(l) - i /\ \A j \in 1..Len(l) - i : b[j] = l[i + j]
  BY <1>0, SubSeqProperties
<1> HIDE DEF a, b
<1>3. /\ a \o b \in Seq(S) /\ Len(a \o b) = Len(l) - 1
      /\ \A j \in 1..Len(l) - 1 : (a \o b)[j] = IF j <= i - 1 THEN a[j] ELSE b[j - (i - 1)]
  <2>1. /\ a \o b \in Seq(S) /\ Len(a \o b) = Len(a) + Len(b)
        /\ \A j \in 1..Len(a) + Len(b) :
              (a \o b)[j] = IF j <= Len(a) THEN a[j] ELSE b[j - Len(a)]
    BY <1>1, <1>2, ConcatProperties, Zenon
  <2>2. Len(a) = i - 1 /\ Len(a) + Len(b) = Len(l) - 1 BY <1>0, <1>1, <1>2
  <2>3. QED BY <2>1, <2>2
<1>4. ASSUME NEW j \in 1..Len(l) - 1
      PROVE  (a \o b)[j] = l[IF j < i THEN j ELSE j + 1]
  <2>1. CASE j < i BY <1>0, <1>1, <1>3, <2>1
  <2>2. CASE ~(j < i)
    <3>1. j - (i - 1) \in 1..Len(l) - i /\ i + (j - (i - 1)) = j + 1 BY <1>0, <2>2
    <3>2. QED BY <1>0, <1>2, <1>3, <2>2, <3>1, SMTT(30)
  <2>3. QED BY <2>1, <2>2, Zenon
<1>5. QED BY <1>3, <1>4, Zenon DEF RemoveAt, a, b

\* What InsertAt returns.
LEMMA InsertAtProperties ==
    ASSUME NEW S, NEW l \in Seq(S), NEW i \in 1..Len(l) + 1, NEW e \in S
    PROVE  /\ InsertAt(l, i, e) \in Seq(S)
           /\ Len(InsertAt(l, i, e)) = Len(l) + 1
           /\ \A j \in 1..Len(l) + 1 :
                InsertAt(l, i, e)[j] = IF j < i THEN l[j] ELSE IF j = i THEN e ELSE l[j - 1]
<1> DEFINE a == SubSeq(l, 1, i - 1)
           b == SubSeq(l, i, Len(l))
<1>0. Len(l) \in Nat /\ \A j \in 1..Len(l) : l[j] \in S
  BY ElementOfSeq, LenProperties
<1>1. a \in Seq(S) /\ Len(a) = i - 1 /\ \A j \in 1..i - 1 : a[j] = l[j]
  BY <1>0, SubSeqProperties
<1>2. b \in Seq(S) /\ Len(b) = Len(l) - i + 1 /\ \A j \in 1..Len(l) - i + 1 : b[j] = l[i + j - 1]
  BY <1>0, SubSeqProperties
<1>3. <<e>> \in Seq(S) /\ Len(<<e>>) = 1 /\ <<e>>[1] = e
  OBVIOUS
<1> HIDE DEF a, b
<1>4. /\ a \o <<e>> \in Seq(S) /\ Len(a \o <<e>>) = i
      /\ \A j \in 1..i : (a \o <<e>>)[j] = IF j <= i - 1 THEN l[j] ELSE e
  <2>1. /\ a \o <<e>> \in Seq(S) /\ Len(a \o <<e>>) = i
        /\ \A j \in 1..i : (a \o <<e>>)[j] = IF j <= i - 1 THEN a[j] ELSE <<e>>[j - (i - 1)]
    BY <1>0, <1>1, <1>3, ConcatProperties
  <2>2. QED BY <1>0, <1>1, <1>3, <2>1
<1> DEFINE c == a \o <<e>>
<1> HIDE DEF c
<1>5. /\ c \o b \in Seq(S) /\ Len(c \o b) = Len(l) + 1
      /\ \A j \in 1..Len(l) + 1 : (c \o b)[j] = IF j <= i THEN c[j] ELSE b[j - i]
  <2>1. c \in Seq(S) /\ Len(c) = i BY <1>4 DEF c
  <2>2. /\ c \o b \in Seq(S) /\ Len(c \o b) = Len(c) + Len(b)
        /\ \A j \in 1..Len(c) + Len(b) :
              (c \o b)[j] = IF j <= Len(c) THEN c[j] ELSE b[j - Len(c)]
    BY <1>2, <2>1, ConcatProperties, SMTT(30)
  <2>3. Len(c) + Len(b) = Len(l) + 1 BY <1>0, <1>2, <2>1
  <2>4. QED BY <2>1, <2>2, <2>3
<1>6. ASSUME NEW j \in 1..Len(l) + 1
      PROVE  (c \o b)[j] = IF j < i THEN l[j] ELSE IF j = i THEN e ELSE l[j - 1]
  <2>1. CASE j <= i
    <3>1. (c \o b)[j] = c[j] BY <1>5, <2>1
    <3>2. j \in 1..i BY <2>1
    <3>3. c[j] = IF j <= i - 1 THEN l[j] ELSE e BY <1>4, <3>2 DEF c
    <3>4. QED BY <2>1, <3>1, <3>3
  <2>2. CASE j > i
    <3>1. j - i \in 1..Len(l) - i + 1 /\ i + (j - i) - 1 = j - 1 BY <1>0, <2>2
    <3>2. (c \o b)[j] = b[j - i] BY <1>0, <1>5, <2>2
    <3>3. b[j - i] = l[j - 1] BY <1>2, <3>1
    <3>4. QED BY <1>0, <2>2, <3>2, <3>3
  <2>3. i \in Int /\ j \in Int BY <1>0
  <2>4. j <= i \/ j > i BY <2>3
  <2>5. QED BY <2>1, <2>2, <2>4, Zenon
<1>7. QED BY <1>5, <1>6, Zenon DEF InsertAt, a, b, c

\* A set of natural numbers that is not empty has a least element.
LEMMA LeastNatural ==
    ASSUME NEW T, T \subseteq Nat, T # {}
    PROVE  \E i \in T : \A j \in T : i <= j
<1>1. PICK i \in T : \A j \in T : ~(<<j, i>> \in OpToRel(<, Nat))
  BY WFMin, NatLessThanWellFounded, Zenon
<1>2. ASSUME NEW j \in T, j < i PROVE FALSE
  <2>1. <<j, i>> \in Nat \X Nat /\ <<j, i>>[1] < <<j, i>>[2] BY <1>2
  <2>2. <<j, i>> \in OpToRel(<, Nat) BY <2>1 DEF OpToRel
  <2>3. QED BY <1>1, <2>2, Zenon
<1>3. QED BY <1>2

\* There is a place for every order, so PlaceFor is what its definition says.
LEMMA PlaceForExists ==
    ASSUME NEW l \in Seq(Entries), NEW order \in 0..MaxTime
    PROVE  /\ PlaceFor(l, order) \in 1..Len(l) + 1
           /\ \A j \in 1..PlaceFor(l, order) - 1 : l[j].order <= order
           /\ PlaceFor(l, order) <= Len(l) => order < l[PlaceFor(l, order)].order
<1> DEFINE greater == {i \in 1..Len(l) : order < l[i].order}
           P(i) == /\ \A j \in 1..i - 1 : l[j].order <= order
                   /\ i <= Len(l) => order < l[i].order
<1>0. Len(l) \in Nat /\ \A j \in 1..Len(l) : l[j].order \in Nat
  <2>1. Len(l) \in Nat /\ \A j \in 1..Len(l) : l[j] \in Entries BY ElementOfSeq, LenProperties
  <2>2. QED BY <2>1, QueueConstants DEF Entries
<1>1. \E i \in 1..Len(l) + 1 : P(i)
  <2>1. CASE greater = {}
    <3>1. P(Len(l) + 1) BY <1>0, <2>1, QueueConstants
    <3>2. QED BY <1>0, <3>1
  <2>2. CASE greater # {}
    <3>1. PICK i \in greater : \A j \in greater : i <= j
      <4>1. greater \subseteq Nat BY <1>0
      <4> HIDE DEF greater
      <4>2. QED BY <2>2, <4>1, LeastNatural, Zenon
    <3>2. P(i) BY <1>0, <3>1, QueueConstants, SMTT(30)
    <3>3. QED BY <1>0, <3>1, <3>2
  <2>3. QED BY <2>1, <2>2
<1>2. PlaceFor(l, order) = CHOOSE i \in 1..Len(l) + 1 : P(i) BY DEF PlaceFor
<1> HIDE DEF P
<1>3. PlaceFor(l, order) \in 1..Len(l) + 1 /\ P(PlaceFor(l, order)) BY <1>1, <1>2
<1>4. QED BY <1>3 DEF P

\* Without the entry of a key, a list is as sorted as it was, and has none of that key.
LEMMA ErasedProperties ==
    ASSUME NEW l \in Seq(Entries), SortedByOrder(l), OneEntryPerKey(l), NEW key
    PROVE  /\ Erased(l, key) \in Seq(Entries)
           /\ SortedByOrder(Erased(l, key)) /\ OneEntryPerKey(Erased(l, key))
           /\ \A i \in DOMAIN Erased(l, key) :
                Erased(l, key)[i].key # key /\ \E j \in DOMAIN l : Erased(l, key)[i] = l[j]
<1>0. Len(l) \in Nat /\ DOMAIN l = 1..Len(l) BY LenProperties
<1>1. CASE Find(l, key) = {} BY <1>1 DEF Erased, Find
<1>2. CASE Find(l, key) # {}
  <2> DEFINE p == CHOOSE i \in Find(l, key) : TRUE
             r == RemoveAt(l, p)
             at(i) == IF i < p THEN i ELSE i + 1
  <2>1. p \in Find(l, key) BY <1>2
  <2>2. p \in 1..Len(l) /\ l[p].key = key BY <1>0, <2>1 DEF Find
  <2>3. Erased(l, key) = r BY <1>2 DEF Erased
  <2> HIDE DEF p
  <2>4. /\ r \in Seq(Entries) /\ Len(r) = Len(l) - 1
        /\ \A i \in 1..Len(l) - 1 : r[i] = l[at(i)]
    BY <2>2, RemoveAtProperties
  <2> HIDE DEF r
  <2>5. DOMAIN r = 1..Len(l) - 1 BY <2>4, LenProperties
  <2>6. ASSUME NEW i \in DOMAIN r
        PROVE  at(i) \in DOMAIN l /\ at(i) # p /\ r[i] = l[at(i)]
    BY <1>0, <2>2, <2>4, <2>5
  <2>7. ASSUME NEW i \in DOMAIN r, NEW j \in DOMAIN r
        PROVE  (i < j => at(i) < at(j)) /\ (at(i) = at(j) => i = j)
    BY <1>0, <2>2, <2>5
  <2> HIDE DEF at
  <2>8. SortedByOrder(r) BY <2>6, <2>7 DEF SortedByOrder
  <2>9. OneEntryPerKey(r) BY <2>6, <2>7 DEF OneEntryPerKey
  <2>10. \A i \in DOMAIN r : r[i].key # key /\ \E j \in DOMAIN l : r[i] = l[j]
    BY <1>0, <2>2, <2>6 DEF OneEntryPerKey
  <2>11. QED BY <2>3, <2>4, <2>8, <2>9, <2>10, SMTT(30)
<1>3. QED BY <1>1, <1>2

\* UniqueList::insert keeps the list sorted, with one entry per key, and adds only
\* the new entry.
LEMMA InsertedProperties ==
    ASSUME NEW l \in Seq(Entries), SortedByOrder(l), OneEntryPerKey(l), NEW e \in Entries
    PROVE  /\ Inserted(l, e) \in Seq(Entries) /\ Inserted(l, e) # <<>>
           /\ SortedByOrder(Inserted(l, e)) /\ OneEntryPerKey(Inserted(l, e))
           /\ \A i \in DOMAIN Inserted(l, e) :
                Inserted(l, e)[i] = e \/ \E j \in DOMAIN l : Inserted(l, e)[i] = l[j]
<1> DEFINE rest == Erased(l, e.key)
           p == PlaceFor(rest, e.order)
           new == InsertAt(rest, p, e)
<1>1. /\ rest \in Seq(Entries) /\ SortedByOrder(rest) /\ OneEntryPerKey(rest)
      /\ \A i \in DOMAIN rest : rest[i].key # e.key /\ \E j \in DOMAIN l : rest[i] = l[j]
  BY ErasedProperties
<1>2. Inserted(l, e) = new BY DEF Inserted
<1> HIDE DEF rest
<1>3. e.order \in 0..MaxTime /\ e.order \in Nat BY QueueConstants DEF Entries
<1>4. Len(rest) \in Nat /\ DOMAIN rest = 1..Len(rest) /\ \A i \in 1..Len(rest) : rest[i].order \in Nat
  <2>1. Len(rest) \in Nat /\ DOMAIN rest = 1..Len(rest) /\ \A i \in 1..Len(rest) : rest[i] \in Entries
    BY <1>1, ElementOfSeq, LenProperties
  <2>2. QED BY <2>1, QueueConstants DEF Entries
<1>5. /\ p \in 1..Len(rest) + 1
      /\ \A j \in 1..p - 1 : rest[j].order <= e.order
      /\ p <= Len(rest) => e.order < rest[p].order
  BY <1>1, <1>3, PlaceForExists, SMTT(30)
<1> HIDE DEF p
<1>6. /\ new \in Seq(Entries) /\ Len(new) = Len(rest) + 1
      /\ \A j \in 1..Len(rest) + 1 :
           new[j] = IF j < p THEN rest[j] ELSE IF j = p THEN e ELSE rest[j - 1]
  <2>1. rest \in Seq(Entries) /\ p \in 1..Len(rest) + 1 /\ e \in Entries BY <1>1, <1>5
  <2>2. /\ InsertAt(rest, p, e) \in Seq(Entries)
        /\ Len(InsertAt(rest, p, e)) = Len(rest) + 1
        /\ \A j \in 1..Len(rest) + 1 :
             InsertAt(rest, p, e)[j] = IF j < p THEN rest[j] ELSE IF j = p THEN e ELSE rest[j - 1]
    BY <2>1, InsertAtProperties
  <2>3. QED BY <2>2
<1> HIDE DEF new
<1>7. DOMAIN new = 1..Len(rest) + 1 BY <1>6, LenProperties
<1>8. SortedByOrder(new)
  <2>1. SUFFICES ASSUME NEW i \in DOMAIN new, NEW j \in DOMAIN new, i < j
                 PROVE  new[i].order <= new[j].order
    BY DEF SortedByOrder
  <2>2. \A k \in 1..Len(rest) : p <= k => e.order < rest[k].order
    <3>1. SUFFICES ASSUME NEW k \in 1..Len(rest), p <= k PROVE e.order < rest[k].order
      OBVIOUS
    <3>2. p \in 1..Len(rest) /\ e.order < rest[p].order BY <1>4, <1>5, <3>1
    <3>3. rest[p].order <= rest[k].order
      <4>1. CASE p = k BY <1>4, <3>2, <4>1
      <4>2. CASE p < k BY <1>1, <1>4, <3>2, <4>2, SMTT(30) DEF SortedByOrder
      <4>3. QED BY <1>4, <3>1, <3>2, <4>1, <4>2, SMTT(30)
    <3>4. QED BY <1>3, <1>4, <3>2, <3>3, SMTT(30)
  <2>3. \A k, m \in 1..Len(rest) : k < m => rest[k].order <= rest[m].order
    BY <1>1, <1>4, Zenon DEF SortedByOrder
  <2>4. CASE j < p BY <1>4, <1>5, <1>6, <1>7, <2>1, <2>3, <2>4, SMTT(30)
  <2>5. CASE j = p BY <1>4, <1>5, <1>6, <1>7, <2>1, <2>5, SMTT(30)
  <2>6. CASE j > p /\ i < p BY <1>4, <1>5, <1>6, <1>7, <2>1, <2>3, <2>6, SMTT(30)
  <2>7. CASE j > p /\ i = p
    <3>1. new[i] = e /\ new[j] = rest[j - 1] /\ j - 1 \in 1..Len(rest) /\ p <= j - 1
      BY <1>4, <1>5, <1>6, <1>7, <2>7, SMTT(30)
    <3>2. QED BY <1>3, <1>4, <2>2, <3>1, SMTT(30)
  <2>8. CASE j > p /\ i > p BY <1>4, <1>5, <1>6, <1>7, <2>1, <2>3, <2>8, SMTT(30)
  <2>9. QED BY <1>4, <1>5, <1>7, <2>4, <2>5, <2>6, <2>7, <2>8, SMTT(30)
<1> DEFINE at(j) == IF j < p THEN j ELSE j - 1
<1>9. \A j \in DOMAIN new : IF j = p THEN new[j] = e
                              ELSE at(j) \in 1..Len(rest) /\ new[j] = rest[at(j)]
  BY <1>4, <1>5, <1>6, <1>7, SMTT(30)
<1>10. OneEntryPerKey(new)
  <2>1. SUFFICES ASSUME NEW i \in DOMAIN new, NEW j \in DOMAIN new, new[i].key = new[j].key, i # j
                 PROVE  FALSE
    BY DEF OneEntryPerKey
  <2>2. \A k, m \in 1..Len(rest) : rest[k].key = rest[m].key => k = m
    BY <1>1, <1>4 DEF OneEntryPerKey
  <2>3. \A k \in 1..Len(rest) : rest[k].key # e.key BY <1>1, <1>4
  <2>4. CASE i = p \/ j = p BY <1>9, <2>1, <2>3, <2>4, SMTT(30)
  <2>5. CASE i # p /\ j # p
    <3>1. at(i) = at(j) BY <1>9, <2>1, <2>2, <2>5, SMTT(30)
    <3>2. QED BY <1>4, <1>5, <1>7, <2>1, <2>5, <3>1, SMTT(30)
  <2>6. QED BY <2>4, <2>5
<1>11. \A i \in DOMAIN new : new[i] = e \/ \E j \in DOMAIN l : new[i] = l[j]
  BY <1>1, <1>4, <1>9
<1>12. new # <<>> BY <1>4, <1>6
<1>13. QED BY <1>2, <1>6, <1>8, <1>10, <1>11, <1>12, SMTT(30)

-----------------------------------------------------------------------------
(* Steps. *)

\* The part of queue under the lock: the first entry is the new one, whose caller
\* notifies, or it is one that was there before.
LEMMA QueueStep ==
    ASSUME IInv, NEW c \in Callers, NEW key \in Keys, NEW info \in Infos, NEW delay \in Delays,
           Queue(c, key, info, delay)
    PROVE  IInv'
<1> DEFINE expired == clock + delay
           e == [key |-> key, info |-> info, order |-> expired]
<1>0. /\ list \in Seq(Entries) /\ clock \in Nat /\ delay \in Nat /\ expired \in 0..MaxTime
      /\ Len(list) \in Nat /\ DOMAIN list = 1..Len(list)
  BY QueueConstants, LenProperties DEF IInv, TypeOK, Queue
<1>1. UNCHANGED <<clock, stopped, exiting, pc, deadline, current>> BY DEF Queue
<1>2. CASE /\ list' = [i \in DOMAIN list |->
                         IF list[i].key = key THEN [list[i] EXCEPT !.info = info] ELSE list[i]]
           /\ UNCHANGED notifies
  <2>1. ASSUME NEW i \in DOMAIN list
        PROVE  /\ list'[i] \in Entries
               /\ list'[i].key = list[i].key /\ list'[i].order = list[i].order
    <3>1. list[i] \in Entries BY <1>0, ElementOfSeq
    <3>2. list'[i] = IF list[i].key = key THEN [list[i] EXCEPT !.info = info] ELSE list[i] BY <1>2
    <3>3. QED BY <3>1, <3>2 DEF Entries
  <2>2. list' \in Seq(Entries) /\ DOMAIN list' = DOMAIN list
    <3>1. list' \in [1..Len(list) -> Entries]
      <4>1. list' = [i \in DOMAIN list |-> list'[i]] BY <1>2
      <4>2. QED BY <1>0, <2>1, <4>1
    <3>2. QED BY <1>0, <3>1
  <2>3. QED
    BY <1>1, <1>2, <2>1, <2>2 DEF IInv, TypeOK, SortedByOrder, OneEntryPerKey, NothingDueBefore
<1>3. CASE /\ list' = Inserted(list, e)
           /\ notifies' = IF Head(list').key = key THEN notifies \cup {c} ELSE notifies
  <2>1. e \in Entries /\ e.key = key /\ e.order = expired BY <1>0 DEF Entries
  <2> HIDE DEF e
  <2>2. /\ list' \in Seq(Entries) /\ list' # <<>> /\ SortedByOrder(list') /\ OneEntryPerKey(list')
        /\ \A i \in DOMAIN list' : list'[i] = e \/ \E j \in DOMAIN list : list'[i] = list[j]
    BY <1>0, <1>3, <2>1, InsertedProperties, Zenon DEF IInv
  <2>3. /\ Len(list') \in Nat /\ DOMAIN list' = 1..Len(list') /\ 1 \in DOMAIN list'
        /\ Head(list') = list'[1] /\ \A i \in DOMAIN list' : list'[i].order \in Nat
    <3>1. Len(list') \in Nat /\ DOMAIN list' = 1..Len(list') /\ Head(list') = list'[1]
      BY <2>2, LenProperties
    <3>2. Len(list') # 0 BY <2>2, EmptySeq
    <3>3. \A i \in DOMAIN list' : list'[i] \in Entries BY <2>2, <3>1, ElementOfSeq
    <3>4. QED BY <3>1, <3>2, <3>3, QueueConstants DEF Entries
  <2>4. NothingDueBefore'
    <3>1. SUFFICES ASSUME pc' = "wait", notifies' = {}, NEW i \in DOMAIN list'
                   PROVE  deadline' <= list'[i].order
      BY DEF NothingDueBefore
    <3>2. notifies = {} /\ list'[1].key # key BY <1>3, <2>3, <3>1, SMTT(30)
    <3>3. \A j \in DOMAIN list : deadline <= list[j].order
      BY <1>1, <3>1, <3>2 DEF IInv, NothingDueBefore
    <3>4. deadline <= list'[1].order BY <2>1, <2>2, <2>3, <3>2, <3>3, SMTT(30)
    <3>5. list'[1].order <= list'[i].order BY <2>2, <2>3 DEF SortedByOrder
    <3>6. deadline \in Int /\ deadline' = deadline BY <1>1, QueueConstants DEF IInv, TypeOK, Never
    <3>7. QED BY <2>3, <3>4, <3>5, <3>6, SMTT(30)
  <2>5. QED BY <1>1, <1>3, <2>2, <2>4 DEF IInv, TypeOK
<1>4. QED BY <1>2, <1>3 DEF Queue

\* Any other step leaves the list alone, or takes entries away from it.
LEMMA OtherStep ==
    ASSUME IInv,
           \/ \E c \in Callers : Notify(c) \/ Stop(c)
           \/ \E c \in Callers, key \in Keys : RemoveEntry(c, key)
           \/ Exit \/ End \/ Wait \/ WakeUp \/ TakeExpired \/ Expired \/ Tick
           \/ UNCHANGED vars
    PROVE  IInv'
<1>0. /\ list \in Seq(Entries) /\ Len(list) \in Nat /\ DOMAIN list = 1..Len(list)
      /\ \A i \in DOMAIN list : list[i] \in Entries
  <2>1. list \in Seq(Entries) BY DEF IInv, TypeOK
  <2>2. Len(list) \in Nat /\ DOMAIN list = 1..Len(list) BY <2>1, LenProperties
  <2>3. QED BY <2>1, <2>2, ElementOfSeq
<1>1. NoEntry \in Entries
  <2>1. (CHOOSE k \in Keys : TRUE) \in Keys /\ (CHOOSE i \in Infos : TRUE) \in Infos BY QueueConstants
  <2>2. QED BY <2>1, QueueConstants DEF NoEntry, Entries
<1>2. ASSUME NEW c \in Callers, Notify(c) PROVE IInv'
  BY <1>2 DEF Notify, IInv, TypeOK, SortedByOrder, OneEntryPerKey, NothingDueBefore
<1>3. ASSUME NEW c \in Callers, Stop(c) PROVE IInv'
  <2>1. list' \in Seq(Entries) /\ DOMAIN list' = {} BY <1>3 DEF Stop
  <2>2. QED BY <1>3, <2>1 DEF Stop, IInv, TypeOK, SortedByOrder, OneEntryPerKey, NothingDueBefore
<1>4. ASSUME NEW c \in Callers, NEW key \in Keys, RemoveEntry(c, key) PROVE IInv'
  <2>1. /\ list' \in Seq(Entries) /\ SortedByOrder(list') /\ OneEntryPerKey(list')
        /\ \A i \in DOMAIN list' : \E j \in DOMAIN list : list'[i] = list[j]
    BY <1>0, <1>4, ErasedProperties, SMTT(30) DEF RemoveEntry, IInv
  <2>2. QED BY <1>4, <2>1 DEF RemoveEntry, IInv, TypeOK, NothingDueBefore
<1>5. CASE Exit \/ End \/ WakeUp
  BY <1>5, Zenon DEF Exit, End, WakeUp, IInv, TypeOK, SortedByOrder, OneEntryPerKey, NothingDueBefore
<1>6. CASE Wait
  <2>1. CASE list = <<>>
    BY <1>6, <2>1, QueueConstants
    DEF Wait, Never, IInv, TypeOK, SortedByOrder, OneEntryPerKey, NothingDueBefore
  <2>2. CASE list # <<>>
    <3>1. 1 \in DOMAIN list /\ Head(list) = list[1] BY <1>0, <2>2, EmptySeq
    <3>2. deadline' = list[1].order /\ deadline' \in 0..MaxTime BY <1>0, <1>6, <2>2, <3>1 DEF Wait, Entries
    <3>3. \A i \in DOMAIN list : list[1].order <= list[i].order
      BY <1>0, <3>1, QueueConstants DEF IInv, SortedByOrder, Entries
    <3>4. QED
      BY <1>6, <3>2, <3>3, QueueConstants
      DEF Wait, Never, IInv, TypeOK, SortedByOrder, OneEntryPerKey, NothingDueBefore
  <2>3. QED BY <2>1, <2>2
<1>7. CASE TakeExpired
  <2>1. list # <<>> BY <1>7 DEF TakeExpired
  <2>2. /\ Head(list) \in Entries /\ Tail(list) \in Seq(Entries)
        /\ Len(Tail(list)) = Len(list) - 1 /\ \A i \in 1..Len(Tail(list)) : Tail(list)[i] = list[i + 1]
    BY <1>0, <2>1, HeadTailProperties
  <2>3. DOMAIN Tail(list) = 1..Len(list) - 1 BY <2>2, LenProperties
  <2>4. SortedByOrder(Tail(list)) /\ OneEntryPerKey(Tail(list))
    <3>1. ASSUME NEW i \in DOMAIN Tail(list)
          PROVE  i + 1 \in DOMAIN list /\ Tail(list)[i] = list[i + 1]
      BY <1>0, <2>2, <2>3
    <3>2. \A i, j \in DOMAIN Tail(list) : (i < j => i + 1 < j + 1) /\ (i + 1 = j + 1 => i = j)
      BY <1>0, <2>3
    <3>3. QED BY <3>1, <3>2 DEF IInv, SortedByOrder, OneEntryPerKey
  <2>5. QED BY <1>7, <2>2, <2>4 DEF TakeExpired, IInv, TypeOK, NothingDueBefore
<1>8. CASE Expired
  BY <1>1, <1>8 DEF Expired, IInv, TypeOK, SortedByOrder, OneEntryPerKey, NothingDueBefore
<1>9. CASE Tick
  BY <1>9, QueueConstants, SMTT(30) DEF Tick, IInv, TypeOK, SortedByOrder, OneEntryPerKey, NothingDueBefore
<1>10. CASE UNCHANGED vars
  BY <1>10 DEF vars, IInv, TypeOK, SortedByOrder, OneEntryPerKey, NothingDueBefore
<1>11. QED BY <1>2, <1>3, <1>4, <1>5, <1>6, <1>7, <1>8, <1>9, <1>10, SMTT(30)

-----------------------------------------------------------------------------
\* The list of a timed queue is sorted and has one entry per key, and nothing in it is
\* due before the thread in loop wakes up (TimedQueue.hpp, UniqueList.hpp).
THEOREM QueueInvariance == Spec => []IInv
<1>1. Init => IInv
  <2>1. (CHOOSE k \in Keys : TRUE) \in Keys /\ (CHOOSE i \in Infos : TRUE) \in Infos BY QueueConstants
  <2>2. NoEntry \in Entries BY <2>1, QueueConstants DEF NoEntry, Entries
  <2>3. ASSUME Init PROVE TypeOK
    <3>1. list \in Seq(Entries) BY <2>3 DEF Init
    <3>2. clock \in 0..MaxTime /\ deadline \in 0..Never BY <2>3, QueueConstants DEF Init, Never
    <3>3. stopped \in BOOLEAN /\ exiting \in BOOLEAN BY <2>3, Zenon DEF Init
    <3>4. pc = "top" /\ current \in Entries /\ notifies \subseteq Callers BY <2>2, <2>3 DEF Init
    <3>5. QED BY <3>1, <3>2, <3>3, <3>4 DEF TypeOK
  <2>4. ASSUME Init PROVE SortedByOrder(list) /\ OneEntryPerKey(list) /\ NothingDueBefore
    BY <2>4 DEF Init, SortedByOrder, OneEntryPerKey, NothingDueBefore
  <2>5. QED BY <2>3, <2>4 DEF IInv
<1>2. IInv /\ [Next]_vars => IInv' BY QueueStep, OtherStep DEF Next
<1>3. QED BY <1>1, <1>2, PTL DEF Spec

\* The thread in loop never sleeps past the first entry while no caller is about to
\* notify it: queue loses no wake-up although it notifies after it gave the lock back.
THEOREM QueueSleepsNotTooLong == Spec => []SleepsNotTooLong
<1>1. IInv => SleepsNotTooLong
  <2>1. ASSUME IInv, list # <<>> PROVE 1 \in DOMAIN list /\ Head(list) = list[1]
    BY <2>1, EmptySeq, LenProperties DEF IInv, TypeOK
  <2>2. QED BY <2>1 DEF IInv, NothingDueBefore, SleepsNotTooLong
<1>2. QED BY <1>1, QueueInvariance, PTL
=============================================================================
