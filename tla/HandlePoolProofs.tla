--------------------------- MODULE HandlePoolProofs ---------------------------
(***************************************************************************)
(* Proofs about HandlePool for all finite sets of threads, handles and      *)
(* categories, all slots and types, and every pair of limits.                *)
(*                                                                         *)
(* The argument: every handle has one place, and the steps move it from one  *)
(* place to the next; every thread that has a handle, or is on the way to    *)
(* one or back, holds a share for it, so whoever drains is alone.            *)
(***************************************************************************)
EXTENDS HandlePool, Integers, TLAPS

\* The handle that t uses for c, and the one it carries to or from the pool.
Hand(t, c) == threaded[t][c].handle
Carried(t) == IF pc[t] = Idle THEN NoHandle ELSE pc[t].handle
Free(s) == {frees[s][i] : i \in DOMAIN frees[s]}

\* Every handle is in one place.
OnePlace ==
    /\ \A t, u \in Threads, c, d \in Categories :
          Hand(t, c) = Hand(u, d) => Hand(t, c) = NoHandle \/ (t = u /\ c = d)
    /\ \A t, u \in Threads : Carried(t) = Carried(u) => Carried(t) = NoHandle \/ t = u
    /\ \A t, u \in Threads, c \in Categories : Hand(t, c) = Carried(u) => Carried(u) = NoHandle
    /\ \A t \in Threads, s \in Slots : /\ Carried(t) \notin Free(s)
                                      /\ \A c \in Categories : Hand(t, c) \notin Free(s)
    /\ \A s, z \in Slots : \A i \in DOMAIN frees[s], j \in DOMAIN frees[z] :
          frees[s][i] = frees[z][j] => s = z /\ i = j

\* What a thread has at each place of flowOut and flowBack.
Way(t) ==
    pc[t] # Idle =>
      /\ pc[t].handle # NoHandle <=> pc[t].at \in {"reuse", "back"}
      /\ pc[t].at \in {"initialize", "count", "take", "generate", "reuse"}
           => threaded[t][CategoryOf[pc[t].type]] = Nothing

\* The lock as it is used: an owner is alone.
Alone ==
    /\ owner # NoThread <=> depth > 0
    /\ owner # NoThread => \A u \in Threads \ {owner} : shares[u] = 0

Uses(t) == {u \in InUse : u[1] = t}
WriteUses == {u \in InUse : threaded[u[1]][u[2]].hint}
WriteCounting == {t \in Counting : pc[t].hint}

\* The part of BooksAgree about the lock and the counter.
Accounts ==
    /\ \A t \in Threads : shares[t] = Cardinality(Uses(t)) + (IF Sharing(t) THEN 1 ELSE 0)
    /\ totalCount = Cardinality(InUse) + Cardinality(Counting)
    /\ writerCount = Cardinality(WriteUses) + Cardinality(WriteCounting)

\* The handles that somebody has, and the free ones, are in their slots.
Slotted ==
    /\ \A t \in Threads, c \in Categories :
          threaded[t][c] # Nothing => Hand(t, c) \in handles[SlotOf[threaded[t][c].type]]
    /\ \A t \in Threads : Carried(t) # NoHandle => Carried(t) \in handles[SlotOf[pc[t].type]]
    /\ \A s \in Slots : Free(s) \subseteq handles[s]
    /\ \A s, z \in Slots : s # z => handles[s] \cap handles[z] = {}
    /\ open = Alive

\* A transaction keeps its handle.
Kept ==
    /\ \A t \in Threads, c \in Categories :
          threaded[t][c] # Nothing /\ threaded[t][c].reference = 0 => Hand(t, c) \in transacting
    /\ \A h \in transacting : \E t \in Threads, c \in Categories : Hand(t, c) = h

IInv ==
    /\ TypeOK /\ OnePlace /\ (\A t \in Threads : Way(t)) /\ Alone /\ Accounts
    /\ ~DrainsWithHandle => Slotted /\ Kept

-----------------------------------------------------------------------------
\* What is used of finite sets.  The lemmas about counts have it as a hypothesis;
\* it is proved from the library before the steps are put together.
CountFacts(S) ==
    /\ Cardinality(S) \in Nat /\ (Cardinality(S) = 0 <=> S = {})
    /\ \A T \in SUBSET S : IsFiniteSet(T)
    /\ \A x : /\ Cardinality(S \cup {x}) = IF x \in S THEN Cardinality(S) ELSE Cardinality(S) + 1
             /\ Cardinality(S \ {x}) = IF x \in S THEN Cardinality(S) - 1 ELSE Cardinality(S)

FiniteSetFacts ==
    /\ Cardinality({}) = 0
    /\ \A S, T : IsFiniteSet(S) /\ IsFiniteSet(T) => IsFiniteSet(S \X T)
    /\ \A S : IsFiniteSet(S) => CountFacts(S)

\* Everything that is counted is finite.
LEMMA Finite ==
    ASSUME FiniteSetFacts
    PROVE
    /\ IsFiniteSet(InUse) /\ Cardinality(InUse) \in Nat
    /\ IsFiniteSet(WriteUses) /\ Cardinality(WriteUses) \in Nat
    /\ IsFiniteSet(Counting) /\ Cardinality(Counting) \in Nat
    /\ IsFiniteSet(WriteCounting) /\ Cardinality(WriteCounting) \in Nat
    /\ \A t \in Threads : IsFiniteSet(Uses(t)) /\ Cardinality(Uses(t)) \in Nat
<1>1. IsFiniteSet(Threads \X Categories) BY PoolAssumption, Zenon DEF FiniteSetFacts, CountFacts
<1>2. InUse \in SUBSET (Threads \X Categories) /\ WriteUses \in SUBSET (Threads \X Categories)
  BY Zenon DEF InUse, WriteUses
<1>3. Counting \in SUBSET Threads /\ WriteCounting \in SUBSET Threads
  BY Zenon DEF Counting, WriteCounting
<1>4. \A t \in Threads : Uses(t) \in SUBSET (Threads \X Categories)
  BY <1>2, Zenon DEF Uses
<1>5. IsFiniteSet(InUse) /\ IsFiniteSet(WriteUses) BY <1>1, <1>2, Zenon DEF FiniteSetFacts, CountFacts
<1>6. IsFiniteSet(Counting) /\ IsFiniteSet(WriteCounting) BY <1>3, PoolAssumption, Zenon DEF FiniteSetFacts, CountFacts
<1>7. \A t \in Threads : IsFiniteSet(Uses(t)) BY <1>1, <1>4, Zenon DEF FiniteSetFacts, CountFacts
<1>8. QED BY <1>5, <1>6, <1>7, Zenon DEF FiniteSetFacts, CountFacts

\* The uses when no thread gets or gives up a handle.
LEMMA SameUses ==
    ASSUME \A t \in Threads, c \in Categories :
              /\ threaded'[t][c] = Nothing <=> threaded[t][c] = Nothing
              /\ threaded'[t][c].hint = threaded[t][c].hint
    PROVE  InUse' = InUse /\ WriteUses' = WriteUses /\ \A t \in Threads : Uses(t)' = Uses(t)
<1>1. InUse' = InUse BY Zenon DEF InUse
<1>2. WriteUses' = WriteUses BY <1>1 DEF WriteUses, InUse
<1>3. QED BY <1>1, <1>2, Zenon DEF Uses

\* The uses when t gets a handle for c.
LEMMA OneMoreUse ==
    ASSUME FiniteSetFacts, NEW t \in Threads, NEW c \in Categories,
           threaded[t][c] = Nothing, threaded'[t][c] # Nothing,
           \A u \in Threads, d \in Categories :
              u # t \/ d # c => threaded'[u][d] = threaded[u][d]
    PROVE  /\ Cardinality(InUse') = Cardinality(InUse) + 1
           /\ Cardinality(WriteUses') = Cardinality(WriteUses)
                                        + (IF threaded'[t][c].hint THEN 1 ELSE 0)
           /\ Cardinality(Uses(t)') = Cardinality(Uses(t)) + 1
           /\ \A u \in Threads \ {t} : Uses(u)' = Uses(u)
<1> DEFINE p == <<t, c>>
<1>1. p \in Threads \X Categories /\ p[1] = t /\ p[2] = c BY Zenon
<1>2. \A u \in Threads \X Categories : u # p => u[1] # t \/ u[2] # c OBVIOUS
<1>3. InUse' = InUse \cup {p} /\ p \notin InUse BY <1>1, <1>2 DEF InUse
<1>4. Uses(t)' = Uses(t) \cup {p} /\ p \notin Uses(t) BY <1>1, <1>3, Zenon DEF Uses
<1>5. \A u \in Threads \ {t} : Uses(u)' = Uses(u) BY <1>1, <1>3, Zenon DEF Uses
<1>6. /\ WriteUses' = IF threaded'[t][c].hint THEN WriteUses \cup {p} ELSE WriteUses
      /\ p \notin WriteUses
  BY <1>1, <1>2, <1>3 DEF WriteUses, InUse
<1> HIDE DEF p
<1>7. Cardinality(InUse') = Cardinality(InUse) + 1 BY <1>3, Finite, Zenon DEF FiniteSetFacts, CountFacts
<1>8. Cardinality(Uses(t)') = Cardinality(Uses(t)) + 1
  <2>1. IsFiniteSet(Uses(t)) BY Finite, Zenon
  <2>2. \A x : Cardinality(Uses(t) \cup {x}) = IF x \in Uses(t) THEN Cardinality(Uses(t)) ELSE Cardinality(Uses(t)) + 1
    BY <2>1, Zenon DEF FiniteSetFacts, CountFacts
  <2>3. QED BY <1>4, <2>2, Zenon
<1>9. Cardinality(WriteUses') = Cardinality(WriteUses)
                                + (IF threaded'[t][c].hint THEN 1 ELSE 0)
  <2>1. Cardinality(WriteUses \cup {p}) = Cardinality(WriteUses) + 1
    BY <1>6, Finite, Zenon DEF FiniteSetFacts, CountFacts
  <2>2. CASE threaded'[t][c].hint BY <1>6, <2>1, <2>2, Zenon
  <2>3. CASE ~threaded'[t][c].hint
    <3>1. Cardinality(WriteUses) \in Nat BY Finite, Zenon
    <3>2. QED BY <1>6, <2>3, <3>1
  <2>4. QED BY <2>2, <2>3, Zenon
<1>10. QED BY <1>5, <1>7, <1>8, <1>9, Zenon

\* The uses when t gives up its handle for c.
LEMMA OneLessUse ==
    ASSUME FiniteSetFacts, NEW t \in Threads, NEW c \in Categories,
           threaded[t][c] # Nothing, threaded'[t][c] = Nothing,
           \A u \in Threads, d \in Categories :
              u # t \/ d # c => threaded'[u][d] = threaded[u][d]
    PROVE  /\ Cardinality(InUse') = Cardinality(InUse) - 1
           /\ Cardinality(WriteUses') = Cardinality(WriteUses)
                                        - (IF threaded[t][c].hint THEN 1 ELSE 0)
           /\ Cardinality(Uses(t)') = Cardinality(Uses(t)) - 1
           /\ \A u \in Threads \ {t} : Uses(u)' = Uses(u)
<1> DEFINE p == <<t, c>>
<1>1. p \in Threads \X Categories /\ p[1] = t /\ p[2] = c BY Zenon
<1>2. \A u \in Threads \X Categories : u # p => u[1] # t \/ u[2] # c OBVIOUS
<1>3. InUse' = InUse \ {p} /\ p \in InUse BY <1>1, <1>2 DEF InUse
<1>4. Uses(t)' = Uses(t) \ {p} /\ p \in Uses(t) BY <1>1, <1>3, Zenon DEF Uses
<1>5. \A u \in Threads \ {t} : Uses(u)' = Uses(u) BY <1>1, <1>3, Zenon DEF Uses
<1>6. /\ WriteUses' = WriteUses \ {p}
      /\ p \in WriteUses <=> threaded[t][c].hint
  BY <1>1, <1>2, <1>3 DEF WriteUses, InUse
<1> HIDE DEF p
<1>7. Cardinality(InUse') = Cardinality(InUse) - 1 BY <1>3, Finite, Zenon DEF FiniteSetFacts, CountFacts
<1>8. Cardinality(Uses(t)') = Cardinality(Uses(t)) - 1
  <2>1. IsFiniteSet(Uses(t)) BY Finite, Zenon
  <2>2. \A x : Cardinality(Uses(t) \ {x}) = IF x \in Uses(t) THEN Cardinality(Uses(t)) - 1 ELSE Cardinality(Uses(t))
    BY <2>1, Zenon DEF FiniteSetFacts, CountFacts
  <2>3. QED BY <1>4, <2>2, Zenon
<1>9. Cardinality(WriteUses') = Cardinality(WriteUses)
                                - (IF threaded[t][c].hint THEN 1 ELSE 0)
  <2>1. Cardinality(WriteUses \ {p})
          = IF p \in WriteUses THEN Cardinality(WriteUses) - 1 ELSE Cardinality(WriteUses)
    BY Finite, Zenon DEF FiniteSetFacts, CountFacts
  <2>2. Cardinality(WriteUses) \in Nat BY Finite, Zenon
  <2>3. CASE threaded[t][c].hint BY <1>6, <2>1, <2>3, Zenon
  <2>4. CASE ~threaded[t][c].hint BY <1>6, <2>1, <2>2, <2>4
  <2>5. QED BY <2>3, <2>4, Zenon
<1>10. QED BY <1>5, <1>7, <1>8, <1>9, Zenon

\* The threads the counter counts, when t stays counted or not counted.
LEMMA SameCounting ==
    ASSUME \A u \in Threads : /\ u \in Counting' <=> u \in Counting
                              /\ u \in Counting => pc'[u].hint = pc[u].hint
    PROVE  Counting' = Counting /\ WriteCounting' = WriteCounting
<1>1. Counting' = Counting BY Zenon DEF Counting
<1>2. \A u \in Counting : u \in Threads BY Zenon DEF Counting
<1>3. QED BY <1>1, <1>2, Zenon DEF WriteCounting

LEMMA OneMoreCounting ==
    ASSUME FiniteSetFacts, NEW t \in Threads, t \notin Counting, t \in Counting',
           \A u \in Threads \ {t} : pc'[u] = pc[u]
    PROVE  /\ Cardinality(Counting') = Cardinality(Counting) + 1
           /\ Cardinality(WriteCounting') = Cardinality(WriteCounting)
                                            + (IF pc'[t].hint THEN 1 ELSE 0)
<1>1. Counting' = Counting \cup {t} BY Zenon DEF Counting
<1>2. /\ WriteCounting' = IF pc'[t].hint THEN WriteCounting \cup {t} ELSE WriteCounting
      /\ t \notin WriteCounting
  BY <1>1, Zenon DEF WriteCounting, Counting
<1>3. Cardinality(Counting') = Cardinality(Counting) + 1 BY <1>1, Finite, Zenon DEF FiniteSetFacts, CountFacts
<1>4. Cardinality(WriteCounting \cup {t}) = Cardinality(WriteCounting) + 1
  BY <1>2, Finite, Zenon DEF FiniteSetFacts, CountFacts
<1>5. CASE pc'[t].hint BY <1>2, <1>3, <1>4, <1>5, Zenon
<1>6. CASE ~pc'[t].hint
  <2>1. Cardinality(WriteCounting) \in Nat BY Finite, Zenon
  <2>2. QED BY <1>2, <1>3, <1>6, <2>1
<1>7. QED BY <1>5, <1>6, Zenon

LEMMA OneLessCounting ==
    ASSUME FiniteSetFacts, NEW t \in Threads, t \in Counting, t \notin Counting',
           \A u \in Threads \ {t} : pc'[u] = pc[u]
    PROVE  /\ Cardinality(Counting') = Cardinality(Counting) - 1
           /\ Cardinality(WriteCounting') = Cardinality(WriteCounting)
                                            - (IF pc[t].hint THEN 1 ELSE 0)
<1>1. Counting' = Counting \ {t} BY Zenon DEF Counting
<1>2. /\ WriteCounting' = WriteCounting \ {t}
      /\ t \in WriteCounting <=> pc[t].hint
  BY <1>1, Zenon DEF WriteCounting, Counting
<1>3. Cardinality(Counting') = Cardinality(Counting) - 1 BY <1>1, Finite, Zenon DEF FiniteSetFacts, CountFacts
<1>4. Cardinality(WriteCounting \ {t})
        = IF t \in WriteCounting THEN Cardinality(WriteCounting) - 1
                                 ELSE Cardinality(WriteCounting)
  BY Finite, Zenon DEF FiniteSetFacts, CountFacts
<1>5. CASE pc[t].hint BY <1>2, <1>3, <1>4, <1>5, Zenon
<1>6. CASE ~pc[t].hint
  <2>1. Cardinality(WriteCounting) \in Nat BY Finite, Zenon
  <2>2. QED BY <1>2, <1>3, <1>4, <1>6, <2>1
<1>7. QED BY <1>5, <1>6, Zenon

-----------------------------------------------------------------------------
UseType == [handle : Handles, reference : 0 .. MaxReferences, type : Types, hint : BOOLEAN]
PlaceType == [at : Places, type : Types, hint : BOOLEAN, handle : Handles \cup {NoHandle}]

\* What the types say about one thread.
LEMMA Shape ==
    ASSUME TypeOK, NEW t \in Threads
    PROVE  /\ pc[t] = Idle <=> pc[t].at = "idle"
           /\ pc[t] # Idle => /\ pc[t] \in PlaceType /\ pc[t].at \in Places
                              /\ pc[t].type \in Types /\ pc[t].hint \in BOOLEAN
                              /\ pc[t].handle \in Handles \cup {NoHandle}
           /\ Carried(t) \in Handles \cup {NoHandle}
           /\ \A c \in Categories :
                /\ Hand(t, c) \in Handles \cup {NoHandle}
                /\ threaded[t][c] = Nothing <=> Hand(t, c) = NoHandle
                /\ threaded[t][c] # Nothing => threaded[t][c] \in UseType
<1>1. pc[t] = Idle \/ pc[t] \in PlaceType BY Zenon DEF TypeOK, PlaceType
<1>2. pc[t] \in PlaceType => /\ pc[t].at \in Places /\ pc[t].at # "idle"
                             /\ pc[t].type \in Types /\ pc[t].hint \in BOOLEAN
                             /\ pc[t].handle \in Handles \cup {NoHandle}
  BY Zenon DEF PlaceType, Places
<1>3. Idle.at = "idle" BY Zenon DEF Idle
<1>4. Carried(t) \in Handles \cup {NoHandle} BY <1>1, <1>2, Zenon DEF Carried
<1>5. ASSUME NEW c \in Categories
      PROVE  /\ Hand(t, c) \in Handles \cup {NoHandle}
             /\ threaded[t][c] = Nothing <=> Hand(t, c) = NoHandle
             /\ threaded[t][c] # Nothing => threaded[t][c] \in UseType
  <2>1. threaded[t][c] \in UseType \cup {Nothing} BY DEF TypeOK, UseType
  <2>2. threaded[t][c] \in UseType => Hand(t, c) \in Handles BY Zenon DEF UseType, Hand
  <2>3. Nothing.handle = NoHandle BY Zenon DEF Nothing
  <2>4. QED BY <2>1, <2>2, <2>3, PoolAssumption, Zenon DEF Hand
<1>6. QED BY <1>1, <1>2, <1>3, <1>4, <1>5, Zenon

Moved(q, place, h) == [q EXCEPT !.at = place, !.handle = h]

LEMMA PlaceChange ==
    ASSUME NEW q \in PlaceType, NEW place \in Places, NEW h \in Handles \cup {NoHandle}
    PROVE  /\ Moved(q, place, h) \in PlaceType
           /\ Moved(q, place, h).at = place /\ Moved(q, place, h).handle = h
           /\ Moved(q, place, h).type = q.type /\ Moved(q, place, h).hint = q.hint
<1> DEFINE r == [q EXCEPT !.at = place, !.handle = h]
<1>1. r.at = place /\ r.handle = h /\ r.type = q.type /\ r.hint = q.hint BY Zenon DEF PlaceType
<1>2. r \in PlaceType BY Zenon DEF PlaceType
<1>3. QED BY <1>1, <1>2, Zenon DEF Moved

\* Go and Return, as seen at the thread and at the others.
LEMMA Going ==
    ASSUME TypeOK, NEW t \in Threads, pc[t] # Idle, NEW place \in Places,
           NEW h \in Handles \cup {NoHandle}, Go(t, place, h)
    PROVE  /\ pc' \in [Threads -> PlaceType \cup {Idle}] /\ pc'[t] # Idle
           /\ pc'[t].at = place /\ pc'[t].handle = h
           /\ pc'[t].type = pc[t].type /\ pc'[t].hint = pc[t].hint
           /\ \A u \in Threads \ {t} : pc'[u] = pc[u]
           /\ Carried(t)' = h /\ \A u \in Threads \ {t} : Carried(u)' = Carried(u)
<1>1. pc \in [Threads -> PlaceType \cup {Idle}] BY Zenon DEF TypeOK, PlaceType
<1>2. pc[t] \in PlaceType BY <1>1, Zenon
<1> DEFINE r == Moved(pc[t], place, h)
<1>3. r \in PlaceType /\ r.at = place /\ r.handle = h
      /\ r.type = pc[t].type /\ r.hint = pc[t].hint
  BY <1>2, PlaceChange
<1>4. pc' = [pc EXCEPT ![t] = r] BY Zenon DEF Go, Moved
<1> HIDE DEF r
<1>5. r # Idle
  <2>1. r.at # "idle" BY <1>3, Zenon DEF Places
  <2>2. QED BY <2>1 DEF Idle
<1>6. pc'[t] = r /\ \A u \in Threads \ {t} : pc'[u] = pc[u] BY <1>1, <1>4, Zenon
<1>7. QED BY <1>1, <1>3, <1>4, <1>5, <1>6, Zenon DEF Carried

LEMMA Returning ==
    ASSUME TypeOK, NEW t \in Threads, Return(t)
    PROVE  /\ pc' \in [Threads -> PlaceType \cup {Idle}]
           /\ pc'[t] = Idle /\ pc'[t].at = "idle"
           /\ \A u \in Threads \ {t} : pc'[u] = pc[u]
           /\ Carried(t)' = NoHandle /\ \A u \in Threads \ {t} : Carried(u)' = Carried(u)
<1>1. pc \in [Threads -> PlaceType \cup {Idle}] BY Zenon DEF TypeOK, PlaceType
<1>2. pc' \in [Threads -> PlaceType \cup {Idle}] /\ pc'[t] = Idle
      /\ \A u \in Threads \ {t} : pc'[u] = pc[u]
  BY <1>1, Zenon DEF Return
<1>3. Idle.at = "idle" BY Zenon DEF Idle
<1>4. QED BY <1>2, <1>3, Zenon DEF Carried

-----------------------------------------------------------------------------
(* How handles change their places.                                        *)

\* The free handles are handles.
LEMMA FreeAreHandles ==
    ASSUME NEW f \in [Slots -> Seq(Handles)], NEW s \in Slots, NEW i \in DOMAIN f[s]
    PROVE  f[s][i] \in Handles /\ f[s][i] # NoHandle
<1>1. f[s] \in Seq(Handles) BY Zenon
<1>2. QED BY <1>1, PoolAssumption

\* Nobody gets a handle.
LEMMA PlacesKept ==
    ASSUME OnePlace, NEW t \in Threads, frees' \in [Slots -> Seq(Handles)],
           \A u \in Threads, c \in Categories : Hand(u, c)' = Hand(u, c),
           Carried(t)' \in {Carried(t), NoHandle},
           \A u \in Threads \ {t} : Carried(u)' = Carried(u),
           \A s \in Slots : frees'[s] = frees[s] \/ frees'[s] = <<>>
    PROVE  OnePlace'
<1>1. \A s \in Slots : \A i \in DOMAIN frees'[s] :
         /\ i \in DOMAIN frees[s] /\ frees'[s][i] = frees[s][i] /\ frees'[s][i] # NoHandle
  <2> SUFFICES ASSUME NEW s \in Slots, NEW i \in DOMAIN frees'[s]
               PROVE  /\ i \in DOMAIN frees[s] /\ frees'[s][i] = frees[s][i]
                      /\ frees'[s][i] # NoHandle
    BY Zenon
  <2>1. frees'[s] = frees[s] OBVIOUS
  <2>2. QED BY <2>1, FreeAreHandles, Zenon
<1>2. \A s \in Slots : NoHandle \notin Free(s)' /\ Free(s)' \subseteq Free(s) BY <1>1, Zenon DEF Free
<1>3. \A u, v \in Threads : Carried(u)' = Carried(v)' => Carried(u)' = NoHandle \/ u = v
  BY DEF OnePlace
<1>4. \A u, v \in Threads, c \in Categories : Hand(u, c)' = Carried(v)' => Carried(v)' = NoHandle
  BY DEF OnePlace
<1>5. \A u \in Threads, s \in Slots : /\ Carried(u)' \notin Free(s)'
                                      /\ \A c \in Categories : Hand(u, c)' \notin Free(s)'
  BY <1>2 DEF OnePlace
<1>6. \A s, z \in Slots : \A i \in DOMAIN frees'[s], j \in DOMAIN frees'[z] :
         frees'[s][i] = frees'[z][j] => s = z /\ i = j
  BY <1>1 DEF OnePlace
<1>7. QED BY <1>3, <1>4, <1>5, <1>6 DEF OnePlace

\* t gets the handle it carries, or one that is in no place.
LEMMA PlaceHand ==
    ASSUME OnePlace, NEW t \in Threads, NEW c \in Categories, NEW h \in Handles,
           frees' \in [Slots -> Seq(Handles)], h # NoHandle,
           Hand(t, c)' = h,
           \A u \in Threads, d \in Categories : u # t \/ d # c => Hand(u, d)' = Hand(u, d),
           Carried(t)' = NoHandle,
           \A u \in Threads \ {t} : Carried(u)' = Carried(u),
           \A s \in Slots : frees'[s] = frees[s] \/ frees'[s] = <<>>,
           \A u \in Threads, d \in Categories : Hand(u, d) # h,
           \A u \in Threads \ {t} : Carried(u) # h,
           \A s \in Slots : h \notin Free(s)
    PROVE  OnePlace'
<1>1. \A s \in Slots : \A i \in DOMAIN frees'[s] :
         /\ i \in DOMAIN frees[s] /\ frees'[s][i] = frees[s][i] /\ frees'[s][i] # NoHandle
  <2> SUFFICES ASSUME NEW s \in Slots, NEW i \in DOMAIN frees'[s]
               PROVE  /\ i \in DOMAIN frees[s] /\ frees'[s][i] = frees[s][i]
                      /\ frees'[s][i] # NoHandle
    BY Zenon
  <2>1. frees'[s] = frees[s] OBVIOUS
  <2>2. QED BY <2>1, FreeAreHandles, Zenon
<1>2. \A s \in Slots : NoHandle \notin Free(s)' /\ Free(s)' \subseteq Free(s) BY <1>1, Zenon DEF Free
<1>3. \A u, v \in Threads : Carried(u)' = Carried(v)' => Carried(u)' = NoHandle \/ u = v
  BY DEF OnePlace
<1>4. \A u, v \in Threads, d \in Categories : Hand(u, d)' = Carried(v)' => Carried(v)' = NoHandle
  BY DEF OnePlace
<1>5. \A u \in Threads, s \in Slots : /\ Carried(u)' \notin Free(s)'
                                      /\ \A d \in Categories : Hand(u, d)' \notin Free(s)'
  BY <1>2 DEF OnePlace
<1>6. \A s, z \in Slots : \A i \in DOMAIN frees'[s], j \in DOMAIN frees'[z] :
         frees'[s][i] = frees'[z][j] => s = z /\ i = j
  BY <1>1 DEF OnePlace
<1>7. \A u, v \in Threads, d, e \in Categories :
         Hand(u, d)' = Hand(v, e)' => Hand(u, d)' = NoHandle \/ (u = v /\ d = e)
  BY DEF OnePlace
<1>8. QED BY <1>3, <1>4, <1>5, <1>6, <1>7, Zenon DEF OnePlace

\* t carries the handle it had for c.
LEMMA PlaceCarried ==
    ASSUME OnePlace, NEW t \in Threads, NEW c \in Categories, UNCHANGED frees,
           frees \in [Slots -> Seq(Handles)],
           Hand(t, c)' = NoHandle, Carried(t)' = Hand(t, c),
           \A u \in Threads, d \in Categories : u # t \/ d # c => Hand(u, d)' = Hand(u, d),
           \A u \in Threads \ {t} : Carried(u)' = Carried(u)
    PROVE  OnePlace'
<1>1. \A s \in Slots : NoHandle \notin Free(s) /\ Free(s)' = Free(s)
  BY FreeAreHandles, Zenon DEF Free
<1>2. \A u, v \in Threads : Carried(u)' = Carried(v)' => Carried(u)' = NoHandle \/ u = v
  BY DEF OnePlace
<1>3. \A u, v \in Threads, d \in Categories : Hand(u, d)' = Carried(v)' => Carried(v)' = NoHandle
  BY DEF OnePlace
<1>4. \A u \in Threads, s \in Slots : /\ Carried(u)' \notin Free(s)'
                                      /\ \A d \in Categories : Hand(u, d)' \notin Free(s)'
  BY <1>1 DEF OnePlace
<1>5. \A u, v \in Threads, d, e \in Categories :
         Hand(u, d)' = Hand(v, e)' => Hand(u, d)' = NoHandle \/ (u = v /\ d = e)
  BY DEF OnePlace
<1>6. QED BY <1>2, <1>3, <1>4, <1>5 DEF OnePlace

\* A sequence without its last element, and one with one more.
LEMMA Popped ==
    ASSUME NEW q \in Seq(Handles), q # <<>>
    PROVE  /\ SubSeq(q, 1, Len(q) - 1) \in Seq(Handles)
           /\ Len(q) \in Nat \ {0} /\ DOMAIN q = 1 .. Len(q) /\ q[Len(q)] \in Handles
           /\ DOMAIN SubSeq(q, 1, Len(q) - 1) = 1 .. (Len(q) - 1)
           /\ \A i \in 1 .. (Len(q) - 1) : SubSeq(q, 1, Len(q) - 1)[i] = q[i]
<1>1. Len(q) \in Nat \ {0} /\ DOMAIN q = 1 .. Len(q) OBVIOUS
<1>2. \A i \in 1 .. Len(q) : q[i] \in Handles OBVIOUS
<1>3. Len(q) - 1 \in Int /\ 1 \in Int /\ \A i \in 1 .. (Len(q) - 1) : q[i] \in Handles
  BY <1>1, <1>2
<1>4. /\ SubSeq(q, 1, Len(q) - 1) \in Seq(Handles)
      /\ Len(SubSeq(q, 1, Len(q) - 1)) = IF 1 <= Len(q) - 1 THEN (Len(q) - 1) - 1 + 1 ELSE 0
      /\ \A i \in 1 .. ((Len(q) - 1) - 1 + 1) : SubSeq(q, 1, Len(q) - 1)[i] = q[1 + i - 1]
  BY <1>3
<1>5. Len(SubSeq(q, 1, Len(q) - 1)) = Len(q) - 1 BY <1>1, <1>4
<1>6. DOMAIN SubSeq(q, 1, Len(q) - 1) = 1 .. (Len(q) - 1) BY <1>4, <1>5
<1>7. \A i \in 1 .. (Len(q) - 1) : SubSeq(q, 1, Len(q) - 1)[i] = q[i]
  <2> SUFFICES ASSUME NEW i \in 1 .. (Len(q) - 1) PROVE SubSeq(q, 1, Len(q) - 1)[i] = q[i]
    BY Zenon
  <2>1. 1 + i - 1 = i /\ i \in 1 .. ((Len(q) - 1) - 1 + 1) BY <1>1
  <2>2. QED BY <1>4, <2>1, Zenon
<1>8. q[Len(q)] \in Handles BY <1>1, <1>2
<1>9. QED BY <1>1, <1>4, <1>6, <1>7, <1>8, Zenon

LEMMA Pushed ==
    ASSUME NEW q \in Seq(Handles), NEW h \in Handles
    PROVE  /\ Append(q, h) \in Seq(Handles)
           /\ Len(q) \in Nat /\ DOMAIN q = 1 .. Len(q)
           /\ DOMAIN Append(q, h) = 1 .. (Len(q) + 1)
           /\ \A i \in 1 .. Len(q) : Append(q, h)[i] = q[i]
           /\ Append(q, h)[Len(q) + 1] = h
<1>1. Len(q) \in Nat /\ DOMAIN q = 1 .. Len(q) OBVIOUS
<1>2. Append(q, h) \in Seq(Handles) /\ Len(Append(q, h)) = Len(q) + 1 OBVIOUS
<1>3. DOMAIN Append(q, h) = 1 .. (Len(q) + 1) BY <1>2
<1>4. QED BY <1>1, <1>2, <1>3

\* t carries the last free handle of a slot.
LEMMA PlacePopped ==
    ASSUME OnePlace, NEW t \in Threads, NEW s \in Slots, frees \in [Slots -> Seq(Handles)],
           frees[s] # <<>>, frees' = [frees EXCEPT ![s] = SubSeq(@, 1, Len(@) - 1)],
           \A u \in Threads, c \in Categories : Hand(u, c)' = Hand(u, c),
           Carried(t)' = frees[s][Len(frees[s])],
           \A u \in Threads \ {t} : Carried(u)' = Carried(u)
    PROVE  OnePlace' /\ \A z \in Slots : Free(z)' \subseteq Free(z)
<1> DEFINE n == Len(frees[s])
<1>1. /\ n \in Nat \ {0} /\ DOMAIN frees[s] = 1 .. n
      /\ DOMAIN frees'[s] = 1 .. (n - 1)
      /\ \A i \in 1 .. (n - 1) : frees'[s][i] = frees[s][i]
  BY Popped, ZenonT(30)
<1>2. \A z \in Slots \ {s} : frees'[z] = frees[z] BY Zenon
<1>3. \A z \in Slots : \A i \in DOMAIN frees'[z] :
         /\ i \in DOMAIN frees[z] /\ frees'[z][i] = frees[z][i]
         /\ z # s \/ i # n
  BY <1>1, <1>2
<1>4. n \in DOMAIN frees[s] BY <1>1
<1>5. \A z \in Slots : \A i \in DOMAIN frees'[z] :
         frees'[z][i] # frees[s][n] /\ frees'[z][i] # NoHandle
  <2>1. \A z \in Slots : \A i \in DOMAIN frees[z] : frees[z][i] # NoHandle
    BY FreeAreHandles, Zenon
  <2>2. \A z \in Slots : \A i \in DOMAIN frees[z] :
           frees[z][i] = frees[s][n] => z = s /\ i = n
    BY <1>4, Zenon DEF OnePlace
  <2>3. QED BY <1>3, <2>1, <2>2
<1>6. \A z \in Slots : Free(z)' \subseteq Free(z) /\ frees[s][n] \notin Free(z)'
  BY <1>3, <1>5 DEF Free
<1>7. frees[s][n] \in Free(s) /\ frees[s][n] # NoHandle BY <1>4, FreeAreHandles, Zenon DEF Free
<1> HIDE DEF n
<1>8. Carried(t)' = frees[s][n] BY Zenon DEF n
<1>9. \A u, v \in Threads : Carried(u)' = Carried(v)' => Carried(u)' = NoHandle \/ u = v
  BY <1>7, <1>8, SMTT(30) DEF OnePlace
<1>10. \A u, v \in Threads, c \in Categories : Hand(u, c)' = Carried(v)' => Carried(v)' = NoHandle
  BY <1>7, <1>8 DEF OnePlace
<1>11. \A u \in Threads, z \in Slots : /\ Carried(u)' \notin Free(z)'
                                       /\ \A c \in Categories : Hand(u, c)' \notin Free(z)'
  BY <1>6, <1>8, SMTT(30) DEF OnePlace
<1>12. \A y, z \in Slots : \A i \in DOMAIN frees'[y], j \in DOMAIN frees'[z] :
         frees'[y][i] = frees'[z][j] => y = z /\ i = j
  BY <1>3 DEF OnePlace
<1>13. QED BY <1>6, <1>9, <1>10, <1>11, <1>12 DEF OnePlace

\* The handle that t carried becomes a free one.
LEMMA PlacePushed ==
    ASSUME OnePlace, NEW t \in Threads, NEW s \in Slots, frees \in [Slots -> Seq(Handles)],
           Carried(t) \in Handles, Carried(t) # NoHandle, Carried(t)' = NoHandle,
           frees' = [frees EXCEPT ![s] = Append(@, Carried(t))],
           \A u \in Threads, c \in Categories : Hand(u, c)' = Hand(u, c),
           \A u \in Threads \ {t} : Carried(u)' = Carried(u)
    PROVE  /\ OnePlace' /\ frees' \in [Slots -> Seq(Handles)]
           /\ \A z \in Slots : Free(z)' = IF z = s THEN Free(z) \cup {Carried(t)} ELSE Free(z)
<1> DEFINE n == Len(frees[s])
           h == Carried(t)
<1>1. /\ n \in Nat /\ DOMAIN frees[s] = 1 .. n
      /\ DOMAIN frees'[s] = 1 .. (n + 1)
      /\ \A i \in 1 .. n : frees'[s][i] = frees[s][i]
      /\ frees'[s][n + 1] = h /\ frees' \in [Slots -> Seq(Handles)]
  BY Pushed
<1>2. \A z \in Slots \ {s} : frees'[z] = frees[z] BY Zenon
<1>3. \A z \in Slots : \A i \in DOMAIN frees'[z] :
         \/ i \in DOMAIN frees[z] /\ frees'[z][i] = frees[z][i]
         \/ z = s /\ i = n + 1 /\ frees'[z][i] = h
  BY <1>1, <1>2
<1>4. \A z \in Slots : \A i \in DOMAIN frees[z] :
         /\ i \in DOMAIN frees'[z] /\ frees'[z][i] = frees[z][i]
         /\ frees[z][i] # h /\ frees[z][i] # NoHandle
  <2>1. \A z \in Slots : \A i \in DOMAIN frees[z] : frees[z][i] # h
    BY DEF OnePlace, Free
  <2>2. \A z \in Slots : \A i \in DOMAIN frees[z] : frees[z][i] # NoHandle
    BY FreeAreHandles, Zenon
  <2>3. QED BY <1>1, <1>2, <2>1, <2>2
<1>5. n + 1 \in DOMAIN frees'[s] BY <1>1
<1>6. \A z \in Slots : Free(z)' = IF z = s THEN Free(z) \cup {h} ELSE Free(z)
  BY <1>1, <1>3, <1>4, <1>5 DEF Free
<1>7. \A y, z \in Slots : \A i \in DOMAIN frees'[y], j \in DOMAIN frees'[z] :
         frees'[y][i] = frees'[z][j] => y = z /\ i = j
  BY <1>3, <1>4 DEF OnePlace
<1>8. \A z \in Slots : NoHandle \notin Free(z) BY <1>4, Zenon DEF Free
<1> HIDE DEF n, h
<1>9. h = Carried(t) BY Zenon DEF h
<1>10. \A u, v \in Threads : Carried(u)' = Carried(v)' => Carried(u)' = NoHandle \/ u = v
  BY DEF OnePlace
<1>11. \A u, v \in Threads, c \in Categories : Hand(u, c)' = Carried(v)' => Carried(v)' = NoHandle
  BY DEF OnePlace
<1>12. \A u \in Threads, z \in Slots : /\ Carried(u)' \notin Free(z)'
                                       /\ \A c \in Categories : Hand(u, c)' \notin Free(z)'
  <2>1. \A u \in Threads, c \in Categories : Hand(u, c) # h BY <1>9 DEF OnePlace
  <2>2. \A u \in Threads \ {t} : Carried(u) # h BY <1>9, Zenon DEF OnePlace
  <2>3. \A u \in Threads, z \in Slots : /\ Carried(u) \notin Free(z)
                                        /\ \A c \in Categories : Hand(u, c) \notin Free(z)
    BY Zenon DEF OnePlace
  <2>4. \A z \in Slots : h # NoHandle /\ Free(z)' \subseteq Free(z) \cup {h} BY <1>6, <1>9, Zenon
  <2>5. \A u \in Threads, z \in Slots, c \in Categories : Hand(u, c)' \notin Free(z)'
    BY <2>1, <2>3, <2>4
  <2>6. \A u \in Threads, z \in Slots : Carried(u)' \notin Free(z)'
    BY <1>8, <2>2, <2>3, <2>4, SMTT(30)
  <2>7. QED BY <2>5, <2>6, Zenon
<1>13. QED BY <1>1, <1>6, <1>7, <1>9, <1>10, <1>11, <1>12 DEF OnePlace

-----------------------------------------------------------------------------
(* The steps of a thread that carries no handle.                           *)

\* t goes on without a handle and touches none.
LEMMA Walks ==
    ASSUME FiniteSetFacts, IInv, NEW t \in Threads, UNCHANGED <<handles, frees, open, threaded, transacting>>,
           \A u \in Threads \ {t} : pc'[u] = pc[u],
           Carried(t)' = NoHandle
    PROVE  /\ OnePlace' /\ \A u \in Threads \ {t} : Way(u)'
           /\ ~DrainsWithHandle => Slotted' /\ Kept'
           /\ InUse' = InUse /\ WriteUses' = WriteUses /\ \A u \in Threads : Uses(u)' = Uses(u)
           /\ \A u \in Threads \ {t} : Sharing(u)' = Sharing(u) /\ (u \in Counting' <=> u \in Counting)
<1>1. \A u \in Threads, c \in Categories : Hand(u, c)' = Hand(u, c) BY Zenon DEF Hand
<1>2. \A u \in Threads \ {t} : Carried(u)' = Carried(u) BY Zenon DEF Carried
<1>3. OnePlace' BY <1>1, <1>2, PlacesKept, Zenon DEF IInv, TypeOK
<1>4. \A u \in Threads \ {t} : Way(u)' BY Zenon DEF IInv, Way
<1>5. ASSUME ~DrainsWithHandle PROVE Slotted' /\ Kept'
  <2>1. Slotted' BY <1>1, <1>2, <1>5 DEF IInv, Slotted, Free, Alive
  <2>2. Kept' BY <1>1, <1>5 DEF IInv, Kept
  <2>3. QED BY <2>1, <2>2, Zenon
<1>6. InUse' = InUse /\ WriteUses' = WriteUses /\ \A u \in Threads : Uses(u)' = Uses(u)
  BY SameUses, Zenon
<1>7. \A u \in Threads \ {t} : Sharing(u)' = Sharing(u) /\ (u \in Counting' <=> u \in Counting)
  BY Zenon DEF Sharing, Counting
<1>8. QED BY <1>3, <1>4, <1>5, <1>6, <1>7, Zenon

\* Its accounts, by what changes at t.
LEMMA WalkAccounts ==
    ASSUME FiniteSetFacts, IInv, NEW t \in Threads, UNCHANGED threaded,
           \A u \in Threads \ {t} : pc'[u] = pc[u],
           shares' \in [Threads -> Nat],
           \A u \in Threads \ {t} : shares'[u] = shares[u],
           shares'[t] = shares[t] + (IF Sharing(t)' THEN 1 ELSE 0) - (IF Sharing(t) THEN 1 ELSE 0),
           \/ /\ t \in Counting' <=> t \in Counting
              /\ t \in Counting => pc'[t].hint = pc[t].hint
              /\ UNCHANGED counter
           \/ /\ t \notin Counting /\ t \in Counting'
              /\ totalCount' = totalCount + 1
              /\ writerCount' = IF pc'[t].hint THEN writerCount + 1 ELSE writerCount
           \/ /\ t \in Counting /\ t \notin Counting'
              /\ totalCount' = totalCount - 1
              /\ writerCount' = IF pc[t].hint THEN writerCount - 1 ELSE writerCount
    PROVE  Accounts' /\ totalCount' \in Nat /\ writerCount' \in Nat
<1>1. /\ InUse' = InUse /\ WriteUses' = WriteUses /\ \A u \in Threads : Uses(u)' = Uses(u)
      /\ \A u \in Threads \ {t} : Sharing(u)' = Sharing(u) /\ (u \in Counting' <=> u \in Counting)
  BY SameUses, Zenon DEF Sharing, Counting
<1>2. /\ Cardinality(InUse) \in Nat /\ Cardinality(WriteUses) \in Nat
      /\ Cardinality(Counting) \in Nat /\ Cardinality(WriteCounting) \in Nat
      /\ \A u \in Threads : Cardinality(Uses(u)) \in Nat
  BY Finite, Zenon
<1>3. \A u \in Threads : shares'[u] = Cardinality(Uses(u)') + (IF Sharing(u)' THEN 1 ELSE 0)
  <2>1. shares[t] = Cardinality(Uses(t)) + (IF Sharing(t) THEN 1 ELSE 0) BY Zenon DEF IInv, Accounts
  <2>2. shares'[t] = Cardinality(Uses(t)) + (IF Sharing(t)' THEN 1 ELSE 0)
    BY <1>2, <2>1
  <2>3. \A u \in Threads \ {t} : shares'[u] = Cardinality(Uses(u)) + (IF Sharing(u)' THEN 1 ELSE 0)
    BY <1>1, Zenon DEF IInv, Accounts
  <2>4. QED BY <1>1, <2>2, <2>3, Zenon
<1>4. /\ totalCount = Cardinality(InUse) + Cardinality(Counting)
      /\ writerCount = Cardinality(WriteUses) + Cardinality(WriteCounting)
  BY Zenon DEF IInv, Accounts
<1>5. CASE /\ t \in Counting' <=> t \in Counting
           /\ t \in Counting => pc'[t].hint = pc[t].hint
           /\ UNCHANGED counter
  <2>1. Counting' = Counting /\ WriteCounting' = WriteCounting
    BY <1>1, <1>5, SameCounting, Zenon
  <2>2. QED BY <1>1, <1>2, <1>3, <1>4, <1>5, <2>1 DEF Accounts, counter
<1>6. CASE /\ t \notin Counting /\ t \in Counting'
           /\ totalCount' = totalCount + 1
           /\ writerCount' = IF pc'[t].hint THEN writerCount + 1 ELSE writerCount
  <2>1. /\ Cardinality(Counting') = Cardinality(Counting) + 1
        /\ Cardinality(WriteCounting') = Cardinality(WriteCounting)
                                         + (IF pc'[t].hint THEN 1 ELSE 0)
    BY <1>6, OneMoreCounting, Zenon
  <2>2. totalCount' = Cardinality(InUse') + Cardinality(Counting') /\ totalCount' \in Nat
    BY <1>1, <1>2, <1>4, <1>6, <2>1
  <2>3. writerCount' = Cardinality(WriteUses') + Cardinality(WriteCounting') /\ writerCount' \in Nat
    BY <1>1, <1>2, <1>4, <1>6, <2>1
  <2>4. QED BY <1>3, <2>2, <2>3, Zenon DEF Accounts
<1>7. CASE /\ t \in Counting /\ t \notin Counting'
           /\ totalCount' = totalCount - 1
           /\ writerCount' = IF pc[t].hint THEN writerCount - 1 ELSE writerCount
  <2>1. /\ Cardinality(Counting') = Cardinality(Counting) - 1
        /\ Cardinality(WriteCounting') = Cardinality(WriteCounting)
                                         - (IF pc[t].hint THEN 1 ELSE 0)
    BY <1>7, OneLessCounting, Zenon
  <2>2. Cardinality(Counting') \in Nat /\ Cardinality(WriteCounting') \in Nat
    <3>1. Counting' \in SUBSET Threads /\ WriteCounting' \in SUBSET Threads
      BY Zenon DEF Counting, WriteCounting
    <3>2. IsFiniteSet(Counting') /\ IsFiniteSet(WriteCounting')
      BY <3>1, PoolAssumption, Zenon DEF FiniteSetFacts, CountFacts
    <3>3. QED BY <3>2, Zenon DEF FiniteSetFacts, CountFacts
  <2>3. totalCount' = Cardinality(InUse') + Cardinality(Counting') /\ totalCount' \in Nat
    BY <1>1, <1>2, <1>4, <1>7, <2>1, <2>2
  <2>4. writerCount' = Cardinality(WriteUses') + Cardinality(WriteCounting') /\ writerCount' \in Nat
    BY <1>1, <1>2, <1>4, <1>7, <2>1, <2>2
  <2>5. QED BY <1>3, <2>3, <2>4, Zenon DEF Accounts
<1>8. QED BY <1>5, <1>6, <1>7, Zenon

LEMMA GetHandleStep ==
    ASSUME FiniteSetFacts, IInv, NEW t \in Threads, NEW type \in Types, NEW hint \in BOOLEAN,
           GetHandle(t, type, hint)
    PROVE  IInv'
<1> DEFINE r == At("initialize", type, hint, NoHandle)
<1>1. TypeOK /\ pc[t] = Idle /\ pc[t].at = "idle" /\ UNCHANGED <<handles, frees, open, threaded,
          transacting, initialized, totalCount, writerCount, owner, depth, shares, drained>>
      /\ pc' = [pc EXCEPT ![t] = r]
  BY DEF GetHandle, IInv, pool, counter, lock, Idle
<1>2. /\ r \in PlaceType /\ r.at = "initialize" /\ r.handle = NoHandle /\ r # Idle
      /\ r.type = type
  BY Zenon DEF At, PlaceType, Places, Idle
<1> HIDE DEF r
<1>3. pc' \in [Threads -> PlaceType \cup {Idle}] /\ pc'[t] = r
      /\ \A u \in Threads \ {t} : pc'[u] = pc[u]
  BY <1>1, <1>2, Zenon DEF TypeOK, PlaceType
<1>4. TypeOK' BY <1>1, <1>3, Zenon DEF TypeOK, PlaceType
<1>5. Carried(t)' = NoHandle BY <1>2, <1>3, Zenon DEF Carried
<1>6. Way(t)' BY <1>1, <1>2, <1>3, Zenon DEF Way, GetHandle
<1>7. Alone' BY <1>1, Zenon DEF IInv, Alone
<1>8. ~Sharing(t) /\ ~Sharing(t)' /\ t \notin Counting /\ t \notin Counting'
  BY <1>1, <1>2, <1>3, Zenon DEF Sharing, Counting
<1>9. Accounts'
  BY <1>1, <1>3, <1>5, <1>8, WalkAccounts DEF TypeOK, counter
<1>10. QED BY <1>1, <1>3, <1>4, <1>5, <1>6, <1>7, <1>9, Walks, Zenon DEF IInv

\* The shares of t, when it takes one and when it gives one back.
LEMMA Sharings ==
    ASSUME FiniteSetFacts, IInv, NEW t \in Threads, Concurrency!Share(t)
    PROVE  /\ shares' \in [Threads -> Nat] /\ shares'[t] = shares[t] + 1
           /\ \A u \in Threads \ {t} : shares'[u] = shares[u]
           /\ UNCHANGED <<owner, depth>> /\ Alone'
<1>1. shares \in [Threads -> Nat] /\ Alone BY Zenon DEF IInv, TypeOK
<1>2. shares' = [shares EXCEPT ![t] = @ + 1] /\ UNCHANGED <<owner, depth>>
      /\ owner \in {NoThread, t}
  BY Zenon DEF Concurrency!Share
<1>3. shares' \in [Threads -> Nat] /\ shares'[t] = shares[t] + 1
      /\ \A u \in Threads \ {t} : shares'[u] = shares[u]
  BY <1>1, <1>2
<1>4. Alone' BY <1>1, <1>2, <1>3, Zenon DEF Alone
<1>5. QED BY <1>2, <1>3, <1>4, Zenon

LEMMA Unsharings ==
    ASSUME FiniteSetFacts, IInv, NEW t \in Threads, Concurrency!Unshare(t)
    PROVE  /\ shares' \in [Threads -> Nat] /\ shares'[t] = shares[t] - 1
           /\ \A u \in Threads \ {t} : shares'[u] = shares[u]
           /\ UNCHANGED <<owner, depth>> /\ Alone'
<1>1. shares \in [Threads -> Nat] /\ Alone BY Zenon DEF IInv, TypeOK
<1>2. shares' = [shares EXCEPT ![t] = @ - 1] /\ UNCHANGED <<owner, depth>> /\ shares[t] > 0
  BY Zenon DEF Concurrency!Unshare
<1>3. shares' \in [Threads -> Nat] /\ shares'[t] = shares[t] - 1
      /\ \A u \in Threads \ {t} : shares'[u] = shares[u]
  BY <1>1, <1>2, SMTT(30)
<1>4. Alone'
  <2>1. \A u \in Threads : shares[u] = 0 => shares'[u] = 0 BY <1>2, <1>3, SMTT(30)
  <2>2. QED BY <1>1, <1>2, <2>1, Zenon DEF Alone
<1>5. QED BY <1>2, <1>3, <1>4, Zenon

\* A step of t on its way, when it carries nothing afterwards.
LEMMA Walked ==
    ASSUME FiniteSetFacts, IInv, NEW t \in Threads,
           UNCHANGED <<handles, frees, open, threaded, transacting, owner, depth, drained>>,
           initialized' \in BOOLEAN, Alone',
           pc' \in [Threads -> PlaceType \cup {Idle}], Carried(t)' = NoHandle, Way(t)',
           \A u \in Threads \ {t} : pc'[u] = pc[u],
           shares' \in [Threads -> Nat],
           \A u \in Threads \ {t} : shares'[u] = shares[u],
           shares'[t] = shares[t] + (IF Sharing(t)' THEN 1 ELSE 0) - (IF Sharing(t) THEN 1 ELSE 0),
           \/ /\ t \in Counting' <=> t \in Counting
              /\ t \in Counting => pc'[t].hint = pc[t].hint
              /\ UNCHANGED counter
           \/ /\ t \notin Counting /\ t \in Counting'
              /\ totalCount' = totalCount + 1
              /\ writerCount' = IF pc'[t].hint THEN writerCount + 1 ELSE writerCount
           \/ /\ t \in Counting /\ t \notin Counting'
              /\ totalCount' = totalCount - 1
              /\ writerCount' = IF pc[t].hint THEN writerCount - 1 ELSE writerCount
    PROVE  IInv'
<1>1. Accounts' /\ totalCount' \in Nat /\ writerCount' \in Nat BY WalkAccounts, Zenon
<1>2. OnePlace' /\ (\A u \in Threads \ {t} : Way(u)') /\ (~DrainsWithHandle => Slotted' /\ Kept')
  BY Walks, Zenon
<1>3. TypeOK' BY <1>1, Zenon DEF IInv, TypeOK, PlaceType
<1>4. QED BY <1>1, <1>2, <1>3, Zenon DEF IInv

LEMMA InitializeSteps ==
    ASSUME FiniteSetFacts, IInv, NEW t \in Threads, InitializeShared(t) \/ InitializeBlocked(t)
    PROVE  IInv'
<1>1. TypeOK /\ pc[t].at = "initialize" BY Zenon DEF IInv, InitializeShared, InitializeBlocked
<1>2. pc[t] # Idle /\ ~Sharing(t) /\ t \notin Counting
      /\ threaded[t][CategoryOf[pc[t].type]] = Nothing /\ Carried(t) = NoHandle
  BY <1>1, Shape, Zenon DEF Sharing, Counting, IInv, Way, Carried
<1>3. shares \in [Threads -> Nat] BY <1>1, Zenon DEF TypeOK
<1>4. CASE InitializeShared(t)
  <2>1. Concurrency!Share(t) /\ Go(t, "count", NoHandle)
        /\ UNCHANGED <<handles, frees, open, threaded, transacting, initialized, drained, counter>>
    BY <1>4, Zenon DEF InitializeShared, pool
  <2>2. pc' \in [Threads -> PlaceType \cup {Idle}] /\ pc'[t] # Idle /\ pc'[t].at = "count"
        /\ pc'[t].handle = NoHandle /\ pc'[t].type = pc[t].type
        /\ (\A u \in Threads \ {t} : pc'[u] = pc[u]) /\ Carried(t)' = NoHandle
    BY <1>1, <1>2, <2>1, Going, Zenon DEF Places
  <2>3. Sharing(t)' /\ t \notin Counting' BY <2>2, Zenon DEF Sharing, Counting
  <2>4. Way(t)' BY <1>2, <2>1, <2>2, Zenon DEF Way
  <2>5. initialized' \in BOOLEAN BY <1>1, <2>1, Zenon DEF TypeOK
  <2>6. /\ shares' \in [Threads -> Nat] /\ shares'[t] = shares[t] + 1
        /\ \A u \in Threads \ {t} : shares'[u] = shares[u]
        /\ UNCHANGED <<owner, depth>> /\ Alone'
    BY <2>1, Sharings, Zenon
  <2>7. shares'[t] = shares[t] + (IF Sharing(t)' THEN 1 ELSE 0) - (IF Sharing(t) THEN 1 ELSE 0)
    BY <1>2, <1>3, <2>3, <2>6, SMTT(30)
  <2>8. QED BY <1>2, <2>1, <2>2, <2>3, <2>4, <2>5, <2>6, <2>7, Walked, Zenon
<1>5. CASE InitializeBlocked(t)
  <2>1. UNCHANGED <<handles, frees, open, threaded, transacting, drained, counter, owner, depth,
                    shares>> /\ initialized' \in BOOLEAN
        /\ (UNCHANGED pc \/ Return(t))
    BY <1>1, <1>5, Zenon DEF InitializeBlocked, pool, lock, TypeOK
  <2>2. pc' \in [Threads -> PlaceType \cup {Idle}] /\ (pc'[t] = pc[t] \/ pc'[t] = Idle)
        /\ (pc'[t].at = "initialize" \/ pc'[t].at = "idle")
        /\ (\A u \in Threads \ {t} : pc'[u] = pc[u]) /\ Carried(t)' = NoHandle
    <3>1. CASE UNCHANGED pc BY <1>1, <1>2, <3>1, Zenon DEF TypeOK, PlaceType, Carried
    <3>2. CASE Return(t) BY <1>1, <3>2, Returning, Zenon
    <3>3. QED BY <2>1, <3>1, <3>2, Zenon
  <2>3. ~Sharing(t)' /\ t \notin Counting' BY <2>2, Zenon DEF Sharing, Counting
  <2>4. Way(t)' BY <2>1, <2>2, Zenon DEF Way, IInv
  <2>5. Alone' BY <2>1, Zenon DEF IInv, Alone
  <2>6. shares'[t] = shares[t] + (IF Sharing(t)' THEN 1 ELSE 0) - (IF Sharing(t) THEN 1 ELSE 0)
    BY <1>2, <1>3, <2>1, <2>3, SMTT(30)
  <2>7. shares' \in [Threads -> Nat] /\ \A u \in Threads \ {t} : shares'[u] = shares[u]
    BY <1>3, <2>1, Zenon
  <2>8. QED BY <1>2, <2>1, <2>2, <2>3, <2>4, <2>5, <2>6, <2>7, Walked, Zenon
<1>6. QED BY <1>4, <1>5, Zenon

LEMMA CountStep ==
    ASSUME FiniteSetFacts, IInv, NEW t \in Threads, FlowOutCount(t)
    PROVE  IInv'
<1>1. TypeOK /\ pc[t].at = "count"
      /\ UNCHANGED <<handles, frees, open, threaded, transacting, initialized, drained>>
  BY Zenon DEF IInv, FlowOutCount, pool
<1>2. pc[t] # Idle /\ Sharing(t) /\ t \notin Counting
      /\ threaded[t][CategoryOf[pc[t].type]] = Nothing
  BY <1>1, Shape, Zenon DEF Sharing, Counting, IInv, Way
<1>3. shares \in [Threads -> Nat] /\ initialized' \in BOOLEAN BY <1>1, Zenon DEF TypeOK
<1>4. CASE /\ totalCount' = totalCount + 1
           /\ writerCount' = IF pc[t].hint THEN writerCount + 1 ELSE writerCount
           /\ Go(t, "take", NoHandle)
           /\ UNCHANGED lock
  <2>1. pc' \in [Threads -> PlaceType \cup {Idle}] /\ pc'[t] # Idle /\ pc'[t].at = "take"
        /\ pc'[t].handle = NoHandle /\ pc'[t].type = pc[t].type /\ pc'[t].hint = pc[t].hint
        /\ (\A u \in Threads \ {t} : pc'[u] = pc[u]) /\ Carried(t)' = NoHandle
    BY <1>1, <1>2, <1>4, Going, Zenon DEF Places
  <2>2. Sharing(t)' /\ t \in Counting' BY <2>1, Zenon DEF Sharing, Counting
  <2>3. Way(t)' BY <1>1, <1>2, <2>1, Zenon DEF Way
  <2>4. UNCHANGED <<owner, depth, shares>> /\ Alone' BY <1>4, Zenon DEF IInv, Alone, lock
  <2>5. shares'[t] = shares[t] + (IF Sharing(t)' THEN 1 ELSE 0) - (IF Sharing(t) THEN 1 ELSE 0)
        /\ shares' \in [Threads -> Nat] /\ \A u \in Threads \ {t} : shares'[u] = shares[u]
    BY <1>2, <1>3, <2>2, <2>4, SMTT(30)
  <2>6. QED BY <1>1, <1>2, <1>3, <1>4, <2>1, <2>2, <2>3, <2>4, <2>5, Walked, Zenon
<1>5. CASE Concurrency!Unshare(t) /\ Return(t) /\ UNCHANGED counter
  <2>1. pc' \in [Threads -> PlaceType \cup {Idle}] /\ pc'[t] = Idle /\ pc'[t].at = "idle"
        /\ (\A u \in Threads \ {t} : pc'[u] = pc[u]) /\ Carried(t)' = NoHandle
    BY <1>1, <1>5, Returning, Zenon
  <2>2. ~Sharing(t)' /\ t \notin Counting' /\ Way(t)' BY <2>1, Zenon DEF Sharing, Counting, Way
  <2>3. /\ shares' \in [Threads -> Nat] /\ shares'[t] = shares[t] - 1
        /\ \A u \in Threads \ {t} : shares'[u] = shares[u]
        /\ UNCHANGED <<owner, depth>> /\ Alone'
    BY <1>5, Unsharings, Zenon
  <2>4. shares'[t] = shares[t] + (IF Sharing(t)' THEN 1 ELSE 0) - (IF Sharing(t) THEN 1 ELSE 0)
    BY <1>2, <1>3, <2>2, <2>3, SMTT(30)
  <2>5. QED BY <1>1, <1>2, <1>3, <1>5, <2>1, <2>2, <2>3, <2>4, Walked, Zenon
<1>6. QED BY <1>4, <1>5, Zenon DEF FlowOutCount

LEMMA BackSteps ==
    ASSUME FiniteSetFacts, IInv, NEW t \in Threads, FlowBackUnshare(t) \/ FlowBackDecrease(t)
    PROVE  IInv'
<1>1. TypeOK /\ UNCHANGED <<handles, frees, open, threaded, transacting, initialized, drained>>
  BY Zenon DEF IInv, FlowBackUnshare, FlowBackDecrease, pool
<1>2. pc[t] # Idle /\ t \in Counting
  BY <1>1, Shape, Zenon DEF Counting, FlowBackUnshare, FlowBackDecrease
<1>3. shares \in [Threads -> Nat] /\ initialized' \in BOOLEAN BY <1>1, Zenon DEF TypeOK
<1>4. CASE FlowBackUnshare(t)
  <2>1. Concurrency!Unshare(t) /\ Go(t, "decrease", NoHandle) /\ UNCHANGED counter /\ Sharing(t)
    BY <1>4, Zenon DEF FlowBackUnshare, Sharing
  <2>2. pc' \in [Threads -> PlaceType \cup {Idle}] /\ pc'[t] # Idle /\ pc'[t].at = "decrease"
        /\ pc'[t].handle = NoHandle /\ pc'[t].type = pc[t].type /\ pc'[t].hint = pc[t].hint
        /\ (\A u \in Threads \ {t} : pc'[u] = pc[u]) /\ Carried(t)' = NoHandle
    BY <1>1, <1>2, <2>1, Going, Zenon DEF Places
  <2>3. ~Sharing(t)' /\ t \in Counting' /\ Way(t)' BY <2>2, Zenon DEF Sharing, Counting, Way
  <2>4. /\ shares' \in [Threads -> Nat] /\ shares'[t] = shares[t] - 1
        /\ \A u \in Threads \ {t} : shares'[u] = shares[u]
        /\ UNCHANGED <<owner, depth>> /\ Alone'
    BY <2>1, Unsharings, Zenon
  <2>5. shares'[t] = shares[t] + (IF Sharing(t)' THEN 1 ELSE 0) - (IF Sharing(t) THEN 1 ELSE 0)
    BY <1>3, <2>1, <2>3, <2>4, SMTT(30)
  <2>6. QED BY <1>1, <1>2, <1>3, <2>1, <2>2, <2>3, <2>4, <2>5, Walked, Zenon
<1>5. CASE FlowBackDecrease(t)
  <2>1. Decrease(pc[t].hint) /\ Return(t) /\ ~Sharing(t) /\ UNCHANGED <<owner, depth, shares>>
    BY <1>5, Zenon DEF FlowBackDecrease, Sharing, lock
  <2>2. pc' \in [Threads -> PlaceType \cup {Idle}] /\ pc'[t] = Idle /\ pc'[t].at = "idle"
        /\ (\A u \in Threads \ {t} : pc'[u] = pc[u]) /\ Carried(t)' = NoHandle
    BY <1>1, <2>1, Returning, Zenon
  <2>3. ~Sharing(t)' /\ t \notin Counting' /\ Way(t)' BY <2>2, Zenon DEF Sharing, Counting, Way
  <2>4. Alone' BY <2>1, Zenon DEF IInv, Alone
  <2>5. shares'[t] = shares[t] + (IF Sharing(t)' THEN 1 ELSE 0) - (IF Sharing(t) THEN 1 ELSE 0)
        /\ shares' \in [Threads -> Nat] /\ \A u \in Threads \ {t} : shares'[u] = shares[u]
    BY <1>3, <2>1, <2>3, SMTT(30)
  <2>6. totalCount' = totalCount - 1
        /\ writerCount' = IF pc[t].hint THEN writerCount - 1 ELSE writerCount
    BY <2>1, Zenon DEF Decrease
  <2>7. QED BY <1>1, <1>2, <1>3, <2>1, <2>2, <2>3, <2>4, <2>5, <2>6, Walked, Zenon
<1>6. QED BY <1>4, <1>5, Zenon

\* The first section of flowOut under m_memory.
LEMMA TakeStep ==
    ASSUME FiniteSetFacts, IInv, NEW t \in Threads, FlowOutTake(t)
    PROVE  IInv'
<1> DEFINE s == SlotOf[pc[t].type]
           h == frees[s][Len(frees[s])]
<1>1. TypeOK /\ pc[t].at = "take"
      /\ UNCHANGED <<handles, open, threaded, transacting, initialized, drained, counter, owner,
                     depth, shares>>
  BY Zenon DEF IInv, FlowOutTake, lock
<1>2. pc[t] # Idle /\ Sharing(t) /\ t \in Counting /\ pc[t].type \in Types /\ s \in Slots
      /\ threaded[t][CategoryOf[pc[t].type]] = Nothing
  BY <1>1, Shape, PoolAssumption, Zenon DEF Sharing, Counting, IInv, Way
<1>3. shares \in [Threads -> Nat] /\ initialized' \in BOOLEAN /\ frees \in [Slots -> Seq(Handles)]
  BY <1>1, Zenon DEF TypeOK
<1>4. Alone' BY <1>1, Zenon DEF IInv, Alone
<1>5. CASE Go(t, "generate", NoHandle) /\ UNCHANGED frees
  <2>1. pc' \in [Threads -> PlaceType \cup {Idle}] /\ pc'[t] # Idle /\ pc'[t].at = "generate"
        /\ pc'[t].handle = NoHandle /\ pc'[t].type = pc[t].type /\ pc'[t].hint = pc[t].hint
        /\ (\A u \in Threads \ {t} : pc'[u] = pc[u]) /\ Carried(t)' = NoHandle
    BY <1>1, <1>2, <1>5, Going, Zenon DEF Places
  <2>2. Sharing(t)' /\ t \in Counting' BY <2>1, Zenon DEF Sharing, Counting
  <2>3. Way(t)' BY <1>1, <1>2, <2>1, Zenon DEF Way
  <2>4. shares'[t] = shares[t] + (IF Sharing(t)' THEN 1 ELSE 0) - (IF Sharing(t) THEN 1 ELSE 0)
        /\ shares' \in [Threads -> Nat] /\ \A u \in Threads \ {t} : shares'[u] = shares[u]
    BY <1>1, <1>2, <1>3, <2>2, SMTT(30)
  <2>5. QED BY <1>1, <1>2, <1>3, <1>4, <1>5, <2>1, <2>2, <2>3, <2>4, Walked, Zenon
<1>6. CASE /\ frees[s] # <<>>
           /\ Go(t, "reuse", h)
           /\ frees' = [frees EXCEPT ![s] = SubSeq(@, 1, Len(@) - 1)]
  <2>1. h \in Handles /\ h # NoHandle /\ SubSeq(frees[s], 1, Len(frees[s]) - 1) \in Seq(Handles)
        /\ h \in Free(s)
    <3>1. frees[s] \in Seq(Handles) BY <1>2, <1>3, Zenon
    <3>2. /\ SubSeq(frees[s], 1, Len(frees[s]) - 1) \in Seq(Handles)
          /\ Len(frees[s]) \in Nat \ {0} /\ DOMAIN frees[s] = 1 .. Len(frees[s])
          /\ frees[s][Len(frees[s])] \in Handles
      BY <1>6, <3>1, Popped, Zenon
    <3>3. Len(frees[s]) \in DOMAIN frees[s] BY <3>2, SMTT(30)
    <3>4. QED BY <3>2, <3>3, PoolAssumption, Zenon DEF Free
  <2> HIDE DEF h, s
  <2>2. pc' \in [Threads -> PlaceType \cup {Idle}] /\ pc'[t] # Idle /\ pc'[t].at = "reuse"
        /\ pc'[t].handle = h /\ pc'[t].type = pc[t].type /\ pc'[t].hint = pc[t].hint
        /\ (\A u \in Threads \ {t} : pc'[u] = pc[u]) /\ Carried(t)' = h
        /\ (\A u \in Threads \ {t} : Carried(u)' = Carried(u))
    BY <1>1, <1>2, <1>6, <2>1, Going, Zenon DEF Places
  <2>3. frees' \in [Slots -> Seq(Handles)] BY <1>2, <1>3, <1>6, <2>1, Zenon
  <2>4. TypeOK' BY <1>1, <2>2, <2>3, Zenon DEF TypeOK, PlaceType, counter
  <2>5. \A u \in Threads, c \in Categories : Hand(u, c)' = Hand(u, c) BY <1>1, Zenon DEF Hand
  <2>6. OnePlace' /\ \A z \in Slots : Free(z)' \subseteq Free(z)
    BY <1>2, <1>3, <1>6, <2>2, <2>5, PlacePopped, Zenon DEF IInv, h
  <2>7. \A u \in Threads : Way(u)'
    <3>1. Way(t)' BY <1>1, <1>2, <2>1, <2>2, Zenon DEF Way
    <3>2. \A u \in Threads \ {t} : Way(u)' BY <1>1, <2>2, Zenon DEF IInv, Way
    <3>3. QED BY <3>1, <3>2, Zenon
  <2>8. InUse' = InUse /\ WriteUses' = WriteUses /\ \A u \in Threads : Uses(u)' = Uses(u)
    BY <1>1, SameUses, Zenon
  <2>9. /\ \A u \in Threads : Sharing(u)' = Sharing(u)
        /\ \A u \in Threads : (u \in Counting' <=> u \in Counting) /\ pc'[u].hint = pc[u].hint
    <3>1. Sharing(t)' = Sharing(t) BY <1>1, <2>2, SMTT(30) DEF Sharing
    <3>2. (t \in Counting' <=> t \in Counting) /\ pc'[t].hint = pc[t].hint
      BY <1>1, <2>2, Zenon DEF Counting
    <3>3. QED BY <2>2, <3>1, <3>2, Zenon DEF Sharing, Counting
  <2>10. Counting' = Counting /\ WriteCounting' = WriteCounting BY <2>9, SameCounting, Zenon
  <2>11. Accounts' BY <1>1, <2>8, <2>9, <2>10, Zenon DEF IInv, Accounts, counter
  <2>12. ASSUME ~DrainsWithHandle PROVE Slotted' /\ Kept'
    <3>1. Slotted /\ Kept BY <2>12, Zenon DEF IInv
    <3>2. h \in handles[s] BY <1>2, <2>1, <3>1, Zenon DEF Slotted
    <3>3. \A u \in Threads : Carried(u)' # NoHandle => Carried(u)' \in handles'[SlotOf[pc'[u].type]]
      <4>1. Carried(t)' \in handles'[SlotOf[pc'[t].type]] BY <1>1, <2>2, <3>2, Zenon DEF s
      <4>2. \A u \in Threads \ {t} :
               Carried(u)' # NoHandle => Carried(u)' \in handles'[SlotOf[pc'[u].type]]
        BY <1>1, <2>2, <3>1, SMTT(30) DEF Slotted
      <4>3. QED BY <4>1, <4>2, Zenon
    <3>4. Slotted' BY <1>1, <2>5, <2>6, <3>1, <3>3, SMTT(30) DEF Slotted, Alive
    <3>5. Kept' BY <1>1, <2>5, <3>1, SMTT(30) DEF Kept
    <3>6. QED BY <3>4, <3>5, Zenon
  <2>13. QED BY <1>4, <2>4, <2>6, <2>7, <2>11, <2>12, Zenon DEF IInv
<1>7. QED BY <1>5, <1>6, Zenon DEF FlowOutTake

-----------------------------------------------------------------------------
(* The steps of a thread with the handles it has.                          *)

Referenced(r, n) == [r EXCEPT !.reference = n]
Refers(t, c, n) == threaded' = [threaded EXCEPT ![t][c] = Referenced(threaded[t][c], n)]

\* Another number of references to the same handle.
LEMMA Referencing ==
    ASSUME TypeOK, NEW t \in Threads, NEW c \in Categories, threaded[t][c] # Nothing,
           NEW n \in 0 .. MaxReferences,
           Refers(t, c, n)
    PROVE  /\ threaded' \in [Threads -> [Categories -> UseType \cup {Nothing}]]
           /\ threaded'[t][c].reference = n
           /\ \A u \in Threads, d \in Categories :
                /\ threaded'[u][d] = Nothing <=> threaded[u][d] = Nothing
                /\ threaded'[u][d].hint = threaded[u][d].hint
                /\ threaded'[u][d].type = threaded[u][d].type
                /\ Hand(u, d)' = Hand(u, d)
                /\ u # t \/ d # c => threaded'[u][d] = threaded[u][d]
<1> DEFINE r == Referenced(threaded[t][c], n)
<1>1. threaded \in [Threads -> [Categories -> UseType \cup {Nothing}]] BY Zenon DEF TypeOK, UseType
<1>2. threaded[t][c] \in UseType BY <1>1, Zenon
<1>3. /\ r \in UseType /\ r.handle = threaded[t][c].handle /\ r.hint = threaded[t][c].hint
      /\ r.type = threaded[t][c].type /\ r.reference = n
  BY <1>2, Zenon DEF Referenced, UseType
<1>4. r # Nothing
  <2>1. r.handle \in Handles /\ Nothing.handle = NoHandle BY <1>3, Zenon DEF UseType, Nothing
  <2>2. QED BY <2>1, PoolAssumption, Zenon
<1> HIDE DEF r
<1>5. threaded' = [threaded EXCEPT ![t] = [threaded[t] EXCEPT ![c] = r]] BY Zenon DEF r, Refers
<1>6. [threaded[t] EXCEPT ![c] = r] \in [Categories -> UseType \cup {Nothing}] BY <1>1, <1>3, Zenon
<1>7. threaded' \in [Threads -> [Categories -> UseType \cup {Nothing}]] BY <1>1, <1>5, <1>6, Zenon
<1>8. threaded'[t][c] = r /\ \A u \in Threads, d \in Categories :
         u # t \/ d # c => threaded'[u][d] = threaded[u][d]
  BY <1>1, <1>5, <1>6, Zenon
<1>9. ASSUME NEW u \in Threads, NEW d \in Categories
      PROVE  /\ threaded'[u][d] = Nothing <=> threaded[u][d] = Nothing
             /\ threaded'[u][d].hint = threaded[u][d].hint
             /\ threaded'[u][d].type = threaded[u][d].type
             /\ Hand(u, d)' = Hand(u, d)
  <2>1. CASE u = t /\ d = c BY <1>3, <1>4, <1>8, <2>1, Zenon DEF Hand
  <2>2. CASE u # t \/ d # c BY <1>8, <2>2, Zenon DEF Hand
  <2>3. QED BY <2>1, <2>2, Zenon
<1>10. QED BY <1>3, <1>7, <1>8, <1>9, Zenon

LEMMA Referred ==
    ASSUME FiniteSetFacts, IInv, NEW t \in Threads, NEW c \in Categories, threaded[t][c] # Nothing,
           NEW n \in 0 .. MaxReferences,
           Refers(t, c, n),
           UNCHANGED <<handles, frees, open, transacting, initialized, totalCount, writerCount,
                       owner, depth, shares, drained, pc>>,
           ~DrainsWithHandle /\ n = 0 => Hand(t, c) \in transacting
    PROVE  IInv'
<1>1. /\ threaded' \in [Threads -> [Categories -> UseType \cup {Nothing}]]
      /\ threaded'[t][c].reference = n
      /\ \A u \in Threads, d \in Categories :
           /\ threaded'[u][d] = Nothing <=> threaded[u][d] = Nothing
           /\ threaded'[u][d].hint = threaded[u][d].hint
           /\ threaded'[u][d].type = threaded[u][d].type
           /\ Hand(u, d)' = Hand(u, d)
           /\ u # t \/ d # c => threaded'[u][d] = threaded[u][d]
  <2>1. TypeOK BY Zenon DEF IInv
  <2>2. QED BY <2>1, Referencing, Zenon
<1>2. TypeOK' BY <1>1, Zenon DEF IInv, TypeOK, UseType
<1>3. \A u \in Threads : Carried(u)' = Carried(u) BY Zenon DEF Carried
<1>4. OnePlace'
  <2>1. frees' \in [Slots -> Seq(Handles)] BY Zenon DEF IInv, TypeOK
  <2>2. QED BY <1>1, <1>3, <2>1, PlacesKept, Zenon DEF IInv
<1>5. \A u \in Threads : Way(u)'
  <2> SUFFICES ASSUME NEW u \in Threads PROVE Way(u)' BY Zenon
  <2>1. pc[u] # Idle => CategoryOf[pc[u].type] \in Categories
    BY Shape, PoolAssumption, Zenon DEF IInv
  <2>2. QED BY <1>1, <2>1, Zenon DEF IInv, Way
<1>6. Alone' BY Zenon DEF IInv, Alone
<1>7. InUse' = InUse /\ WriteUses' = WriteUses /\ \A u \in Threads : Uses(u)' = Uses(u)
  BY <1>1, SameUses, Zenon
<1>8. Counting' = Counting /\ WriteCounting' = WriteCounting
      /\ \A u \in Threads : Sharing(u)' = Sharing(u)
  BY Zenon DEF Counting, WriteCounting, Sharing
<1>9. Accounts' BY <1>7, <1>8, Zenon DEF IInv, Accounts
<1>10. ASSUME ~DrainsWithHandle PROVE Slotted' /\ Kept'
  <2>1. Slotted /\ Kept BY <1>10, ZenonT(30) DEF IInv
  <2>2. Slotted' BY <1>1, <1>3, <2>1, SMTT(30) DEF Slotted, Free, Alive
  <2>3. ASSUME NEW u \in Threads, NEW d \in Categories,
               threaded'[u][d] # Nothing, threaded'[u][d].reference = 0
        PROVE  Hand(u, d)' \in transacting'
    <3>1. CASE u = t /\ d = c BY <1>1, <1>10, <2>3, <3>1, Zenon
    <3>2. CASE u # t \/ d # c BY <1>1, <2>1, <2>3, <3>2, Zenon DEF Kept
    <3>3. QED BY <3>1, <3>2, Zenon
  <2>4. Kept' BY <1>1, <2>1, <2>3, SMTT(30) DEF Kept
  <2>5. QED BY <2>2, <2>4, Zenon
<1>11. QED BY <1>2, <1>4, <1>5, <1>6, <1>9, <1>10, Zenon DEF IInv

LEMMA FlowOutThreadedStep ==
    ASSUME FiniteSetFacts, IInv, NEW t \in Threads, NEW type \in Types, FlowOutThreaded(t, type)
    PROVE  IInv'
<1> DEFINE c == CategoryOf[type]
           n == threaded[t][c].reference + 1
<1>1. c \in Categories /\ threaded[t][c] # Nothing /\ threaded[t][c].reference < MaxReferences
      /\ UNCHANGED <<handles, frees, open, transacting, initialized, totalCount, writerCount,
                     owner, depth, shares, drained, pc>>
  BY PoolAssumption, Zenon DEF FlowOutThreaded, pool, counter, lock
<1>2. threaded[t][c] \in UseType BY <1>1, Shape, Zenon DEF IInv
<1>3. n \in 0 .. MaxReferences /\ n # 0 BY <1>1, <1>2, PoolAssumption, SMTT(30) DEF UseType
<1>4. Refers(t, c, n) BY Zenon DEF FlowOutThreaded, Referenced, Refers
<1> HIDE DEF c, n
<1>5. QED BY <1>1, <1>3, <1>4, Referred, Zenon

\* The begin and the end of a transaction change only which handles are in one.
LEMMA TransactionSteps ==
    ASSUME FiniteSetFacts, IInv, NEW t \in Threads, NEW c \in Categories,
           BeginTransaction(t, c) \/ EndTransaction(t, c)
    PROVE  IInv'
<1>1. UNCHANGED <<handles, frees, open, threaded, initialized, totalCount, writerCount,
                  owner, depth, shares, drained, pc>>
      /\ threaded[t][c].reference > 0
  BY Zenon DEF BeginTransaction, EndTransaction, pool, counter, lock
<1>2. transacting' \in SUBSET Handles
  BY SMTT(30) DEF BeginTransaction, EndTransaction, IInv, TypeOK
<1>3. TypeOK' BY <1>1, <1>2, Zenon DEF IInv, TypeOK
<1>4. (\A u \in Threads : Carried(u)' = Carried(u))
      /\ \A u \in Threads, d \in Categories : Hand(u, d)' = Hand(u, d)
  BY <1>1, Zenon DEF Carried, Hand
<1>5. OnePlace'
  <2>1. frees' \in [Slots -> Seq(Handles)] BY <1>1, Zenon DEF IInv, TypeOK
  <2>2. QED BY <1>1, <1>4, <2>1, PlacesKept, Zenon DEF IInv
<1>6. \A u \in Threads : Way(u)' BY <1>1, Zenon DEF IInv, Way
<1>7. Alone' BY <1>1, Zenon DEF IInv, Alone
<1>8. InUse' = InUse /\ WriteUses' = WriteUses /\ \A u \in Threads : Uses(u)' = Uses(u)
  BY <1>1, SameUses, Zenon
<1>9. Counting' = Counting /\ WriteCounting' = WriteCounting
      /\ \A u \in Threads : Sharing(u)' = Sharing(u)
  BY <1>1, Zenon DEF Counting, WriteCounting, Sharing
<1>10. Accounts' BY <1>1, <1>8, <1>9, Zenon DEF IInv, Accounts
<1>11. ASSUME ~DrainsWithHandle PROVE Slotted' /\ Kept'
  <2>1. Slotted /\ Kept BY <1>11, ZenonT(30) DEF IInv
  <2>2. Slotted' BY <1>1, <1>4, <2>1, SMTT(30) DEF Slotted, Free, Alive
  <2>3. CASE BeginTransaction(t, c)
    <3>1. transacting' = transacting \cup {Hand(t, c)} BY <2>3, Zenon DEF BeginTransaction, Hand
    <3>2. QED BY <1>1, <1>4, <2>1, <2>2, <3>1, SMTT(30) DEF Kept
  <2>4. CASE EndTransaction(t, c)
    <3>1. transacting' = transacting \ {Hand(t, c)} BY <2>4, Zenon DEF EndTransaction, Hand
    <3>2. ASSUME NEW u \in Threads, NEW d \in Categories,
                 threaded[u][d] # Nothing, threaded[u][d].reference = 0
          PROVE  Hand(u, d) \in transacting'
      <4>1. Hand(u, d) \in transacting BY <2>1, <3>2, Zenon DEF Kept
      <4>2. Hand(u, d) # NoHandle BY <3>2, Shape, Zenon DEF IInv
      <4>3. ~(u = t /\ d = c) BY <1>1, <3>2, SMTT(30)
      <4>4. Hand(u, d) # Hand(t, c) BY <4>2, <4>3, SMTT(30) DEF IInv, OnePlace
      <4>5. QED BY <3>1, <4>1, <4>4, Zenon
    <3>3. Kept' BY <1>1, <1>4, <2>1, <3>1, <3>2, SMTT(30) DEF Kept
    <3>4. QED BY <2>2, <3>3, Zenon
  <2>5. QED BY <2>3, <2>4, Zenon
<1>12. QED BY <1>3, <1>5, <1>6, <1>7, <1>10, <1>11, Zenon DEF IInv

\* flowBack: one reference less, or the handle on its way back.
LEMMA FlowBackStep ==
    ASSUME FiniteSetFacts, IInv, NEW t \in Threads, NEW c \in Categories, FlowBack(t, c)
    PROVE  IInv'
<1> DEFINE r == threaded[t][c]
<1>1. TypeOK /\ pc[t] = Idle /\ r.reference > 0
      /\ UNCHANGED <<handles, frees, open, transacting, initialized, totalCount, writerCount,
                     owner, depth, shares, drained>>
  BY Zenon DEF IInv, FlowBack, pool, counter, lock
<1>2. r # Nothing /\ r \in UseType /\ Hand(t, c) = r.handle /\ Hand(t, c) # NoHandle
      /\ Hand(t, c) \in Handles /\ r.reference \in 0 .. MaxReferences
      /\ r.type \in Types /\ r.hint \in BOOLEAN
  <2>1. r # Nothing BY <1>1, SMTT(30) DEF Nothing
  <2>2. QED BY <1>1, <2>1, Shape, ZenonT(30) DEF UseType, Hand
<1>3. CASE /\ r.reference > 1 \/ r.handle \in open \cap transacting
           /\ threaded' = [threaded EXCEPT ![t][c].reference = @ - 1]
           /\ UNCHANGED pc
  <2> DEFINE n == r.reference - 1
  <2>1. n \in 0 .. MaxReferences /\ (n = 0 => Hand(t, c) \in transacting)
    BY <1>1, <1>2, <1>3, PoolAssumption, SMTT(30)
  <2>2. Refers(t, c, n) BY <1>3, Zenon DEF Refers, Referenced
  <2>3. threaded[t][c] # Nothing BY <1>2, Zenon
  <2> HIDE DEF n, r
  <2>4. QED BY <1>1, <1>3, <2>1, <2>2, <2>3, Referred, Zenon
<1>4. CASE /\ r.handle \notin open \cap transacting
           /\ threaded' = [threaded EXCEPT ![t][c] = Nothing]
           /\ pc' = [pc EXCEPT ![t] = At("back", r.type, r.hint, r.handle)]
  <2> DEFINE q == At("back", r.type, r.hint, r.handle)
  <2>1. /\ q \in PlaceType /\ q.at = "back" /\ q.handle = r.handle /\ q # Idle
        /\ q.type = r.type /\ q.hint = r.hint
    BY <1>2, Zenon DEF At, PlaceType, Places, Idle, UseType
  <2>2. pc' = [pc EXCEPT ![t] = q] BY <1>4, Zenon
  <2> HIDE DEF q, r
  <2>3. pc' \in [Threads -> PlaceType \cup {Idle}] /\ pc'[t] = q
        /\ \A u \in Threads \ {t} : pc'[u] = pc[u]
    BY <1>1, <2>1, <2>2, Zenon DEF TypeOK, PlaceType
  <2>4. /\ threaded' \in [Threads -> [Categories -> UseType \cup {Nothing}]]
        /\ threaded'[t][c] = Nothing
        /\ \A u \in Threads, d \in Categories :
             u # t \/ d # c => threaded'[u][d] = threaded[u][d]
    BY <1>1, <1>4, Zenon DEF TypeOK, UseType
  <2>5. TypeOK' BY <1>1, <2>3, <2>4, ZenonT(30) DEF TypeOK, UseType, PlaceType
  <2>6. Hand(t, c)' = NoHandle /\ Carried(t)' = Hand(t, c)
        /\ (\A u \in Threads, d \in Categories : u # t \/ d # c => Hand(u, d)' = Hand(u, d))
        /\ (\A u \in Threads \ {t} : Carried(u)' = Carried(u))
    BY <1>2, <2>1, <2>3, <2>4, SMTT(30) DEF Hand, Carried, Nothing
  <2>7. OnePlace'
    <3>1. frees \in [Slots -> Seq(Handles)] BY <1>1, Zenon DEF TypeOK
    <3>2. QED BY <1>1, <2>6, <3>1, PlaceCarried, Zenon DEF IInv
  <2>8. \A u \in Threads : Way(u)'
    <3>1. Way(t)' BY <1>2, <2>1, <2>3, Zenon DEF Way
    <3>2. \A u \in Threads \ {t} : Way(u)'
      <4> SUFFICES ASSUME NEW u \in Threads \ {t} PROVE Way(u)' BY Zenon
      <4>1. pc[u] # Idle => CategoryOf[pc[u].type] \in Categories
        BY <1>1, Shape, PoolAssumption, Zenon
      <4>2. QED BY <2>3, <2>4, <4>1, SMTT(30) DEF IInv, Way
    <3>3. QED BY <3>1, <3>2, Zenon
  <2>9. Alone' BY <1>1, Zenon DEF IInv, Alone
  <2>10. /\ Cardinality(InUse') = Cardinality(InUse) - 1
         /\ Cardinality(WriteUses') = Cardinality(WriteUses) - (IF r.hint THEN 1 ELSE 0)
         /\ Cardinality(Uses(t)') = Cardinality(Uses(t)) - 1
         /\ \A u \in Threads \ {t} : Uses(u)' = Uses(u)
    BY <1>2, <2>4, OneLessUse, Zenon DEF r
  <2>11. ~Sharing(t) /\ t \notin Counting /\ Sharing(t)' /\ t \in Counting'
    BY <1>1, <2>1, <2>3, SMTT(30) DEF Sharing, Counting, Idle
  <2>12. /\ Cardinality(Counting') = Cardinality(Counting) + 1
         /\ Cardinality(WriteCounting') = Cardinality(WriteCounting)
                                          + (IF pc'[t].hint THEN 1 ELSE 0)
    BY <2>3, <2>11, OneMoreCounting, Zenon
  <2>13. \A u \in Threads \ {t} : Sharing(u)' = Sharing(u) BY <2>3, Zenon DEF Sharing
  <2>14. Accounts'
    <3>1. /\ Cardinality(InUse) \in Nat /\ Cardinality(WriteUses) \in Nat
          /\ Cardinality(Counting) \in Nat /\ Cardinality(WriteCounting) \in Nat
          /\ \A u \in Threads : Cardinality(Uses(u)) \in Nat
      BY Finite, ZenonT(30)
    <3>2. shares'[t] = Cardinality(Uses(t)') + (IF Sharing(t)' THEN 1 ELSE 0)
      BY <1>1, <2>10, <2>11, <3>1, SMTT(30) DEF IInv, Accounts
    <3>3. \A u \in Threads \ {t} : shares'[u] = Cardinality(Uses(u)') + (IF Sharing(u)' THEN 1 ELSE 0)
      BY <1>1, <2>10, <2>13, ZenonT(30) DEF IInv, Accounts
    <3>4. totalCount' = Cardinality(InUse') + Cardinality(Counting')
      BY <1>1, <2>10, <2>12, <3>1, SMTT(30) DEF IInv, Accounts
    <3>5. pc'[t].hint = r.hint BY <2>1, <2>3, Zenon
    <3>6. writerCount' = Cardinality(WriteUses') + Cardinality(WriteCounting')
      BY <1>1, <2>10, <2>12, <3>1, <3>5, SMTT(30) DEF IInv, Accounts
    <3>7. QED BY <3>2, <3>3, <3>4, <3>6, Zenon DEF Accounts
  <2>15. ASSUME ~DrainsWithHandle PROVE Slotted' /\ Kept'
    <3>1. Slotted /\ Kept BY <2>15, Zenon DEF IInv
    <3>2. Hand(t, c) \in handles[SlotOf[r.type]] /\ SlotOf[r.type] \in Slots
      BY <1>2, <3>1, PoolAssumption, ZenonT(30) DEF Slotted, r
    <3>3. Hand(t, c) \in open BY <3>1, <3>2, SMTT(30) DEF Slotted, Alive
    <3>4. Hand(t, c) \notin transacting BY <1>2, <1>4, <3>3, Zenon
    <3>5. \A u \in Threads : Carried(u)' # NoHandle => Carried(u)' \in handles'[SlotOf[pc'[u].type]]
      <4>1. Carried(t)' \in handles'[SlotOf[pc'[t].type]] BY <1>1, <2>1, <2>3, <2>6, <3>2, ZenonT(30)
      <4>2. \A u \in Threads \ {t} :
               Carried(u)' # NoHandle => Carried(u)' \in handles'[SlotOf[pc'[u].type]]
        BY <1>1, <2>3, <2>6, <3>1, SMTT(30) DEF Slotted
      <4>3. QED BY <4>1, <4>2, Zenon
    <3>6. \A u \in Threads, d \in Categories :
             threaded'[u][d] # Nothing => Hand(u, d)' \in handles'[SlotOf[threaded'[u][d].type]]
      BY <1>1, <2>4, <2>6, <3>1, SMTT(30) DEF Slotted
    <3>7. Slotted' BY <1>1, <3>1, <3>5, <3>6, SMTT(30) DEF Slotted, Free, Alive
    <3>8. \A h \in transacting' : \E u \in Threads, d \in Categories : Hand(u, d)' = h
      <4> SUFFICES ASSUME NEW h \in transacting
                   PROVE  \E u \in Threads, d \in Categories : Hand(u, d)' = h
        BY <1>1, Zenon
      <4>1. PICK u \in Threads, d \in Categories : Hand(u, d) = h BY <3>1, Zenon DEF Kept
      <4>2. u # t \/ d # c BY <3>4, <4>1, Zenon
      <4>3. QED BY <2>6, <4>1, <4>2, Zenon
    <3>9. Kept' BY <1>1, <2>4, <2>6, <3>1, <3>8, ZenonT(30) DEF Kept
    <3>10. QED BY <3>7, <3>9, Zenon
  <2>16. QED BY <2>5, <2>7, <2>8, <2>9, <2>14, <2>15, Zenon DEF IInv
<1>5. QED BY <1>3, <1>4, Zenon DEF FlowBack

\* The section of flowBack under m_memory.
LEMMA PushStep ==
    ASSUME FiniteSetFacts, IInv, NEW t \in Threads, FlowBackPush(t)
    PROVE  IInv'
<1> DEFINE s == SlotOf[pc[t].type]
<1>1. TypeOK /\ pc[t].at = "back" /\ Go(t, "unshare", NoHandle)
      /\ frees' = [frees EXCEPT ![s] = Append(@, pc[t].handle)]
      /\ UNCHANGED <<handles, open, threaded, transacting, initialized, totalCount, writerCount,
                     owner, depth, shares, drained>>
  BY Zenon DEF IInv, FlowBackPush, lock, counter
<1>2. pc[t] # Idle /\ pc[t].type \in Types /\ s \in Slots
      /\ Carried(t) = pc[t].handle /\ Carried(t) # NoHandle /\ Carried(t) \in Handles
  BY <1>1, Shape, PoolAssumption, Zenon DEF IInv, Way, Carried
<1>3. frees \in [Slots -> Seq(Handles)] BY <1>1, Zenon DEF TypeOK
<1>4. pc' \in [Threads -> PlaceType \cup {Idle}] /\ pc'[t] # Idle /\ pc'[t].at = "unshare"
      /\ pc'[t].handle = NoHandle /\ pc'[t].hint = pc[t].hint
      /\ (\A u \in Threads \ {t} : pc'[u] = pc[u]) /\ Carried(t)' = NoHandle
      /\ (\A u \in Threads \ {t} : Carried(u)' = Carried(u))
  BY <1>1, <1>2, Going, Zenon DEF Places
<1> HIDE DEF s
<1>5. \A u \in Threads, c \in Categories : Hand(u, c)' = Hand(u, c) BY <1>1, Zenon DEF Hand
<1>6. frees' = [frees EXCEPT ![s] = Append(@, Carried(t))] BY <1>1, <1>2, Zenon
<1>7. /\ OnePlace' /\ frees' \in [Slots -> Seq(Handles)]
      /\ \A z \in Slots : Free(z)' = IF z = s THEN Free(z) \cup {Carried(t)} ELSE Free(z)
  BY <1>2, <1>3, <1>4, <1>5, <1>6, PlacePushed, Zenon DEF IInv
<1>8. TypeOK' BY <1>1, <1>4, <1>7, Zenon DEF TypeOK, PlaceType
<1>9. \A u \in Threads : Way(u)' BY <1>1, <1>4, Zenon DEF IInv, Way
<1>10. Alone' BY <1>1, Zenon DEF IInv, Alone
<1>11. InUse' = InUse /\ WriteUses' = WriteUses /\ \A u \in Threads : Uses(u)' = Uses(u)
  BY <1>1, SameUses, Zenon
<1>12. \A u \in Threads : /\ Sharing(u)' = Sharing(u)
                          /\ (u \in Counting' <=> u \in Counting) /\ pc'[u].hint = pc[u].hint
  <2>1. Sharing(t)' = Sharing(t) BY <1>1, <1>4, SMTT(30) DEF Sharing
  <2>2. (t \in Counting' <=> t \in Counting) /\ pc'[t].hint = pc[t].hint
    BY <1>1, <1>4, Zenon DEF Counting
  <2>3. QED BY <1>4, <2>1, <2>2, Zenon DEF Sharing, Counting
<1>13. Counting' = Counting /\ WriteCounting' = WriteCounting BY <1>12, SameCounting, Zenon
<1>14. Accounts' BY <1>1, <1>11, <1>12, <1>13, Zenon DEF IInv, Accounts
<1>15. ASSUME ~DrainsWithHandle PROVE Slotted' /\ Kept'
  <2>1. Slotted /\ Kept BY <1>15, Zenon DEF IInv
  <2>2. Carried(t) \in handles[s] BY <1>2, <2>1, Zenon DEF Slotted, s
  <2>3. \A z \in Slots : Free(z)' \subseteq handles'[z] BY <1>1, <1>7, <2>1, <2>2, SMTT(30) DEF Slotted
  <2>4. \A u \in Threads : Carried(u)' # NoHandle => Carried(u)' \in handles'[SlotOf[pc'[u].type]]
    BY <1>1, <1>4, <2>1, SMTT(30) DEF Slotted
  <2>5. Slotted' BY <1>1, <1>5, <2>1, <2>3, <2>4, SMTT(30) DEF Slotted, Alive
  <2>6. Kept' BY <1>1, <1>5, <2>1, SMTT(30) DEF Kept
  <2>7. QED BY <2>5, <2>6, Zenon
<1>16. QED BY <1>7, <1>8, <1>9, <1>10, <1>14, <1>15, Zenon DEF IInv

-----------------------------------------------------------------------------
(* The end of flowOut.                                                     *)

\* t gets h for c; nobody has h, and what is free stays free or is forgotten.
GivesOut(t, c, h) ==
    /\ c = CategoryOf[pc[t].type] /\ pc[t].at \in {"generate", "reuse"}
    /\ HandOut(t, h) /\ UNCHANGED <<initialized, drained>>
    /\ handles' \in [Slots -> SUBSET Handles] /\ open' \in SUBSET Handles
    /\ transacting' \in SUBSET Handles /\ frees' \in [Slots -> Seq(Handles)]
    /\ \A s \in Slots : frees'[s] = frees[s] \/ frees'[s] = <<>>
    /\ \A u \in Threads, d \in Categories : Hand(u, d) # h
    /\ \A u \in Threads \ {t} : Carried(u) # h
    /\ \A s \in Slots : h \notin Free(s)

\* t gets h, which nobody else has.
LEMMA HandedOut ==
    ASSUME FiniteSetFacts, IInv, NEW t \in Threads, NEW c \in Categories, NEW h \in Handles,
           GivesOut(t, c, h)
    PROVE  /\ TypeOK' /\ OnePlace' /\ (\A u \in Threads : Way(u)') /\ Alone' /\ Accounts'
           /\ pc[t].type \in Types
           /\ threaded'[t][c] # Nothing
           /\ threaded'[t][c].type = pc[t].type
           /\ threaded'[t][c].reference = 1
           /\ Hand(t, c) = NoHandle
           /\ Hand(t, c)' = h
           /\ \A u \in Threads, d \in Categories : u # t \/ d # c =>
                threaded'[u][d] = threaded[u][d] /\ Hand(u, d)' = Hand(u, d)
           /\ Carried(t)' = NoHandle
           /\ \A u \in Threads \ {t} : Carried(u)' = Carried(u) /\ pc'[u] = pc[u]
<1> USE DEF GivesOut
<1> DEFINE r == [handle |-> h, reference |-> 1, type |-> pc[t].type, hint |-> pc[t].hint]
<1>1. TypeOK /\ Return(t) /\ threaded' = [threaded EXCEPT ![t][c] = r]
      /\ UNCHANGED <<totalCount, writerCount, owner, depth, shares>>
  BY Zenon DEF IInv, HandOut, counter, lock
<1>2. pc[t] # Idle /\ pc[t].type \in Types /\ pc[t].hint \in BOOLEAN /\ c \in Categories
      /\ threaded[t][c] = Nothing /\ Sharing(t) /\ t \in Counting
  BY <1>1, Shape, PoolAssumption, Zenon DEF IInv, Way, Sharing, Counting
<1>3. /\ r \in UseType /\ r.handle = h /\ r.reference = 1 /\ r.type = pc[t].type
      /\ r.hint = pc[t].hint /\ r # Nothing
  <2>1. r \in UseType /\ r.handle = h /\ r.reference = 1 /\ r.type = pc[t].type
        /\ r.hint = pc[t].hint
    BY <1>2, PoolAssumption, SMTT(30) DEF UseType
  <2>2. Nothing.handle = NoHandle BY Zenon DEF Nothing
  <2>3. QED BY <2>1, <2>2, PoolAssumption, Zenon
<1>4. /\ pc' \in [Threads -> PlaceType \cup {Idle}] /\ pc'[t] = Idle /\ pc'[t].at = "idle"
      /\ \A u \in Threads \ {t} : pc'[u] = pc[u]
      /\ Carried(t)' = NoHandle /\ \A u \in Threads \ {t} : Carried(u)' = Carried(u)
  BY <1>1, Returning, Zenon
<1> HIDE DEF r
<1>5. /\ threaded' \in [Threads -> [Categories -> UseType \cup {Nothing}]]
      /\ threaded'[t][c] = r
      /\ \A u \in Threads, d \in Categories :
           u # t \/ d # c => threaded'[u][d] = threaded[u][d]
  BY <1>1, <1>2, <1>3, Zenon DEF TypeOK, UseType
<1>6. Hand(t, c)' = h /\ Hand(t, c) = NoHandle
      /\ \A u \in Threads, d \in Categories : u # t \/ d # c => Hand(u, d)' = Hand(u, d)
  <2>1. Nothing.handle = NoHandle BY Zenon DEF Nothing
  <2>2. Hand(t, c)' = h BY <1>3, <1>5, Zenon DEF Hand
  <2>3. Hand(t, c) = NoHandle BY <1>2, <2>1, Zenon DEF Hand
  <2>4. \A u \in Threads, d \in Categories : u # t \/ d # c => Hand(u, d)' = Hand(u, d)
    BY <1>5, Zenon DEF Hand
  <2>5. QED BY <2>2, <2>3, <2>4, Zenon
<1>7. TypeOK' BY <1>1, <1>4, <1>5, Zenon DEF TypeOK, UseType, PlaceType
<1>8. OnePlace'
  <2>1. h # NoHandle /\ OnePlace /\ c \in Categories BY <1>2, PoolAssumption, Zenon DEF IInv
  <2>2. Hand(t, c)' = h BY <1>6, Zenon
  <2>3. \A u \in Threads, d \in Categories : u # t \/ d # c => Hand(u, d)' = Hand(u, d)
    BY <1>6, Zenon
  <2>4. Carried(t)' = NoHandle /\ \A u \in Threads \ {t} : Carried(u)' = Carried(u) BY <1>4, Zenon
  <2>5. QED BY <2>1, <2>2, <2>3, <2>4, PlaceHand, Zenon
<1>9. \A u \in Threads : Way(u)'
  <2>1. Way(t)' BY <1>4, ZenonT(30) DEF Way
  <2>2. \A u \in Threads \ {t} : Way(u)'
    <3> SUFFICES ASSUME NEW u \in Threads \ {t} PROVE Way(u)' BY Zenon
    <3>1. pc[u] # Idle => CategoryOf[pc[u].type] \in Categories
      BY <1>1, Shape, PoolAssumption, Zenon
    <3>2. QED BY <1>4, <1>5, <3>1, SMTT(30) DEF IInv, Way
  <2>3. QED BY <2>1, <2>2, Zenon
<1>10. Alone' BY <1>1, Zenon DEF IInv, Alone
<1>11. /\ Cardinality(InUse') = Cardinality(InUse) + 1
       /\ Cardinality(WriteUses') = Cardinality(WriteUses)
                                    + (IF threaded'[t][c].hint THEN 1 ELSE 0)
       /\ Cardinality(Uses(t)') = Cardinality(Uses(t)) + 1
       /\ \A u \in Threads \ {t} : Uses(u)' = Uses(u)
  BY <1>2, <1>3, <1>5, OneMoreUse, Zenon
<1>12. ~Sharing(t)' /\ t \notin Counting' BY <1>4, Zenon DEF Sharing, Counting
<1>13. /\ Cardinality(Counting') = Cardinality(Counting) - 1
       /\ Cardinality(WriteCounting') = Cardinality(WriteCounting)
                                        - (IF pc[t].hint THEN 1 ELSE 0)
  BY <1>2, <1>4, <1>12, OneLessCounting, Zenon
<1>14. \A u \in Threads \ {t} : Sharing(u)' = Sharing(u) BY <1>4, Zenon DEF Sharing
<1>15. Accounts'
  <2>1. /\ Cardinality(InUse) \in Nat /\ Cardinality(WriteUses) \in Nat
        /\ Cardinality(Counting) \in Nat /\ Cardinality(WriteCounting) \in Nat
        /\ \A u \in Threads : Cardinality(Uses(u)) \in Nat
    BY Finite, Zenon
  <2>2. shares'[t] = Cardinality(Uses(t)') + (IF Sharing(t)' THEN 1 ELSE 0)
    BY <1>1, <1>2, <1>11, <1>12, <2>1, SMTT(30) DEF IInv, Accounts
  <2>3. \A u \in Threads \ {t} : shares'[u] = Cardinality(Uses(u)') + (IF Sharing(u)' THEN 1 ELSE 0)
    BY <1>1, <1>11, <1>14, Zenon DEF IInv, Accounts
  <2>4. totalCount' = Cardinality(InUse') + Cardinality(Counting')
    BY <1>1, <1>11, <1>13, <2>1, SMTT(30) DEF IInv, Accounts
  <2>5. threaded'[t][c].hint = pc[t].hint BY <1>3, <1>5, Zenon
  <2>6. writerCount' = Cardinality(WriteUses') + Cardinality(WriteCounting')
    <3>1. writerCount' = Cardinality(WriteUses) + Cardinality(WriteCounting)
      BY <1>1, ZenonT(30) DEF IInv, Accounts
    <3>2. CASE pc[t].hint
      <4>1. Cardinality(WriteUses') = Cardinality(WriteUses) + 1
            /\ Cardinality(WriteCounting') = Cardinality(WriteCounting) - 1
        BY <1>11, <1>13, <2>5, <3>2, ZenonT(30)
      <4>2. QED BY <2>1, <3>1, <4>1, SMTT(30)
    <3>3. CASE ~pc[t].hint
      <4>1. Cardinality(WriteUses') = Cardinality(WriteUses) + 0
            /\ Cardinality(WriteCounting') = Cardinality(WriteCounting) - 0
        BY <1>11, <1>13, <2>5, <3>3, Zenon
      <4>2. QED BY <2>1, <3>1, <4>1, SMTT(30)
    <3>4. QED BY <3>2, <3>3, Zenon
  <2>7. QED BY <2>2, <2>3, <2>4, <2>6, Zenon DEF Accounts
<1>16. threaded'[t][c] # Nothing /\ threaded'[t][c].type = pc[t].type
       /\ threaded'[t][c].reference = 1
  BY <1>3, <1>5, Zenon
<1>17. QED BY <1>2, <1>4, <1>5, <1>6, <1>7, <1>8, <1>9, <1>10, <1>15, <1>16, Zenon

\* t gets no handle; the one it carried is gone.
LEMMA FailedOut ==
    ASSUME FiniteSetFacts, IInv, NEW t \in Threads, pc[t].at \in {"generate", "reuse"}, FlowOutFails(t),
           UNCHANGED <<frees, initialized, drained>>,
           handles' \in [Slots -> SUBSET Handles], open' \in SUBSET Handles,
           transacting' \in SUBSET Handles
    PROVE  /\ TypeOK' /\ OnePlace' /\ (\A u \in Threads : Way(u)') /\ Alone' /\ Accounts'
           /\ UNCHANGED threaded
           /\ \A u \in Threads, c \in Categories : Hand(u, c)' = Hand(u, c)
           /\ Carried(t)' = NoHandle
           /\ \A u \in Threads \ {t} : Carried(u)' = Carried(u) /\ pc'[u] = pc[u]
<1>1. TypeOK /\ Return(t) /\ UNCHANGED threaded /\ Concurrency!Unshare(t)
      /\ totalCount' = totalCount - 1
      /\ writerCount' = IF pc[t].hint THEN writerCount - 1 ELSE writerCount
  BY Zenon DEF IInv, FlowOutFails, Decrease
<1>2. Sharing(t) /\ t \in Counting BY Zenon DEF Sharing, Counting
<1>3. /\ pc' \in [Threads -> PlaceType \cup {Idle}] /\ pc'[t] = Idle /\ pc'[t].at = "idle"
      /\ \A u \in Threads \ {t} : pc'[u] = pc[u]
      /\ Carried(t)' = NoHandle /\ \A u \in Threads \ {t} : Carried(u)' = Carried(u)
  BY <1>1, Returning, Zenon
<1>4. ~Sharing(t)' /\ t \notin Counting' /\ Way(t)' BY <1>3, Zenon DEF Sharing, Counting, Way
<1>5. /\ shares' \in [Threads -> Nat] /\ shares'[t] = shares[t] - 1
      /\ \A u \in Threads \ {t} : shares'[u] = shares[u]
      /\ UNCHANGED <<owner, depth>> /\ Alone'
  BY <1>1, Unsharings, Zenon
<1>6. shares'[t] = shares[t] + (IF Sharing(t)' THEN 1 ELSE 0) - (IF Sharing(t) THEN 1 ELSE 0)
  <2>1. shares[t] \in Nat BY <1>1, Zenon DEF TypeOK
  <2>2. QED BY <1>2, <1>4, <1>5, <2>1, SMTT(30)
<1>7. Accounts' /\ totalCount' \in Nat /\ writerCount' \in Nat
  BY <1>1, <1>2, <1>3, <1>4, <1>5, <1>6, WalkAccounts, Zenon
<1>8. TypeOK' BY <1>1, <1>3, <1>5, <1>7, Zenon DEF TypeOK, PlaceType
<1>9. \A u \in Threads, c \in Categories : Hand(u, c)' = Hand(u, c) BY <1>1, Zenon DEF Hand
<1>10. OnePlace'
  <2>1. frees' \in [Slots -> Seq(Handles)] /\ OnePlace BY Zenon DEF IInv, TypeOK
  <2>2. QED BY <1>3, <1>9, <2>1, PlacesKept, Zenon
<1>11. \A u \in Threads : Way(u)' BY <1>1, <1>3, <1>4, Zenon DEF IInv, Way
<1>12. QED BY <1>1, <1>3, <1>5, <1>7, <1>8, <1>9, <1>10, <1>11, Zenon

LEMMA Unions ==
    /\ \A h : h \in Alive <=> \E s \in Slots : h \in handles[s]
    /\ \A h : h \in Alive' <=> \E s \in Slots : h \in handles'[s]
    /\ \A h : h \in FreeHandles <=> \E s \in Slots : h \in Free(s)
BY Zenon DEF Alive, FreeHandles, Free

\* A new object is nowhere.
LEMMA FreshIsNowhere ==
    ASSUME TypeOK, NEW h \in Fresh
    PROVE  /\ h \in Handles /\ h # NoHandle
           /\ \A u \in Threads, d \in Categories : Hand(u, d) # h
           /\ \A u \in Threads : Carried(u) # h
           /\ \A s \in Slots : h \notin Free(s) /\ h \notin handles[s]
<1>1. h \in Handles /\ h # NoHandle /\ h \notin Alive /\ h \notin FreeHandles
  BY PoolAssumption, Zenon DEF Fresh
<1>2. \A u \in Threads : h \notin InHand(u) /\ h \notin InTransit(u) BY SMTT(30) DEF Fresh
<1>3. \A u \in Threads, d \in Categories : Hand(u, d) # h BY <1>1, <1>2, Zenon DEF InHand, Hand
<1>4. \A u \in Threads : Carried(u) # h BY <1>1, <1>2, Zenon DEF InTransit, Carried
<1>5. QED BY <1>1, <1>3, <1>4, Unions, Zenon

\* The free handles are forgotten.
LEMMA Purged ==
    ASSUME NEW all \in [Slots -> SUBSET Handles], PurgeInto(all)
    PROVE  /\ handles' \in [Slots -> SUBSET Handles] /\ frees' \in [Slots -> Seq(Handles)]
           /\ \A s \in Slots : frees'[s] = <<>> /\ handles'[s] = all[s] \ Free(s)
           /\ \A s \in Slots : Free(s)' = {}
<1>1. handles' = [s \in Slots |-> all[s] \ Free(s)] /\ frees' = [s \in Slots |-> <<>>]
  BY Zenon DEF PurgeInto, Free
<1>2. <<>> \in Seq(Handles) /\ DOMAIN <<>> = {} BY SMTT(30)
<1>3. frees' \in [Slots -> Seq(Handles)] /\ \A s \in Slots : frees'[s] = <<>> BY <1>1, <1>2, Zenon
<1>4. handles' \in [Slots -> SUBSET Handles] /\ \A s \in Slots : handles'[s] = all[s] \ Free(s)
  BY <1>1, Zenon
<1>5. \A s \in Slots : Free(s)' = {} BY <1>2, <1>3, Zenon DEF Free
<1>6. QED BY <1>3, <1>4, <1>5, Zenon

\* The step gives t the handle h of the slot s, which was in no slot, and forgets the
\* free handles or not.
NewInSlot(t, c, s, h) ==
    /\ h # NoHandle
    /\ \A z \in Slots : h \notin Free(z) /\ h \notin handles[z]
    /\ threaded'[t][c].type \in Types /\ s = SlotOf[threaded'[t][c].type]
    /\ Hand(t, c)' = h
    /\ \A u \in Threads, d \in Categories : u # t \/ d # c =>
          threaded'[u][d] = threaded[u][d] /\ Hand(u, d)' = Hand(u, d)
    /\ Carried(t)' = NoHandle
    /\ \A u \in Threads \ {t} : Carried(u)' = Carried(u) /\ pc'[u] = pc[u]
    /\ \A u \in Threads, d \in Categories : threaded[u][d] # Nothing
          => SlotOf[threaded[u][d].type] \in Slots
    /\ \A u \in Threads : Carried(u) # NoHandle => SlotOf[pc[u].type] \in Slots
    /\ \/ /\ \A z \in Slots : /\ handles'[z] = IF z = s THEN handles[z] \cup {h} ELSE handles[z]
                              /\ Free(z)' = Free(z)
          /\ open' = open \cup {h}
       \/ /\ \A z \in Slots :
               /\ handles'[z] = (IF z = s THEN handles[z] \cup {h} ELSE handles[z]) \ Free(z)
               /\ Free(z)' = {}
          /\ open' = (open \cup {h}) \ FreeHandles

\* Slotted with a new handle of t, whether the pool was purged or not.
LEMMA SlottedWithNew ==
    ASSUME Slotted, OnePlace, NEW t \in Threads, NEW c \in Categories, NEW s \in Slots,
           NEW h \in Handles, NewInSlot(t, c, s, h)
    PROVE  Slotted'
<1> USE DEF NewInSlot
<1>1. /\ \A u \in Threads, z \in Slots : /\ Carried(u) \notin Free(z)
                                         /\ \A d \in Categories : Hand(u, d) \notin Free(z)
  BY Zenon DEF OnePlace
<1>2. \A z \in Slots : \A k \in handles[z] : k \notin Free(z) => k \in handles'[z]
  BY ZenonT(30)
<1>3. h \in handles'[s] BY ZenonT(30)
<1>4. \A u \in Threads, d \in Categories :
         threaded'[u][d] # Nothing => Hand(u, d)' \in handles'[SlotOf[threaded'[u][d].type]]
  <2> SUFFICES ASSUME NEW u \in Threads, NEW d \in Categories, threaded'[u][d] # Nothing
               PROVE  Hand(u, d)' \in handles'[SlotOf[threaded'[u][d].type]]
    BY Zenon
  <2>1. CASE u = t /\ d = c BY <1>3, <2>1, ZenonT(30)
  <2>2. CASE u # t \/ d # c
    <3>1. Hand(u, d) \in handles[SlotOf[threaded[u][d].type]] BY <2>2, SMTT(30) DEF Slotted
    <3>2. QED BY <1>1, <1>2, <2>2, <3>1, SMTT(30)
  <2>3. QED BY <2>1, <2>2, Zenon
<1>5. \A u \in Threads : Carried(u)' # NoHandle => Carried(u)' \in handles'[SlotOf[pc'[u].type]]
  <2> SUFFICES ASSUME NEW u \in Threads, Carried(u)' # NoHandle
               PROVE  Carried(u)' \in handles'[SlotOf[pc'[u].type]]
    BY Zenon
  <2>1. u # t /\ Carried(u)' = Carried(u) /\ pc'[u] = pc[u] BY Zenon
  <2>2. Carried(u) \in handles[SlotOf[pc[u].type]] /\ SlotOf[pc[u].type] \in Slots
    BY <2>1, ZenonT(30) DEF Slotted
  <2>3. QED BY <1>1, <1>2, <2>1, <2>2, SMTT(30)
<1>6. \A z \in Slots : Free(z)' \subseteq handles'[z]
  <2>1. \A z \in Slots : Free(z) \subseteq handles[z] BY Zenon DEF Slotted
  <2>2. \A z \in Slots : Free(z)' = {} \/ (Free(z)' = Free(z) /\ handles[z] \subseteq handles'[z])
    BY ZenonT(30)
  <2>3. QED BY <2>1, <2>2, SMTT(30)
<1>7. \A y, z \in Slots : y # z => handles'[y] \cap handles'[z] = {}
  <2>1. \A z \in Slots : handles'[z] \subseteq (IF z = s THEN handles[z] \cup {h} ELSE handles[z])
    BY ZenonT(30)
  <2>2. QED BY <2>1, SMTT(30) DEF Slotted
<1>8. \A k : k \in open' <=> \E z \in Slots : k \in handles'[z]
  <2>1. \A k : k \in open <=> \E z \in Slots : k \in handles[z] BY Unions, Zenon DEF Slotted
  <2>2. CASE /\ \A z \in Slots :
                  handles'[z] = IF z = s THEN handles[z] \cup {h} ELSE handles[z]
             /\ open' = open \cup {h}
    BY <2>1, <2>2, ZenonT(30)
  <2>3. CASE /\ \A z \in Slots :
                  handles'[z] = (IF z = s THEN handles[z] \cup {h} ELSE handles[z]) \ Free(z)
             /\ open' = (open \cup {h}) \ FreeHandles
    <3>1. \A k : k \in FreeHandles <=> \E z \in Slots : k \in Free(z) BY Unions, Zenon
    <3>2. h \notin FreeHandles BY <3>1, Zenon
    <3>3. \A k, z : z \in Slots /\ k \in handles[z] /\ k \notin Free(z) => k \notin FreeHandles
      <4> SUFFICES ASSUME NEW k, NEW z \in Slots, k \in handles[z], k \notin Free(z),
                          NEW y \in Slots, k \in Free(y)
                   PROVE  FALSE
        BY <3>1, Zenon
      <4>1. k \in handles[y] /\ y # z BY Zenon DEF Slotted
      <4>2. QED BY <4>1, Zenon DEF Slotted
    <3>4. ASSUME NEW k, k \in open' PROVE \E z \in Slots : k \in handles'[z]
      <4>1. CASE k = h BY <1>3, <4>1, Zenon
      <4>2. CASE k # h
        <5>1. PICK z \in Slots : k \in handles[z] BY <2>1, <2>3, <3>4, <4>2, Zenon
        <5>2. k \notin Free(z) BY <2>3, <3>1, <3>4, Zenon
        <5>3. QED BY <1>2, <5>1, <5>2, Zenon
      <4>3. QED BY <4>1, <4>2, Zenon
    <3>5. ASSUME NEW k, NEW z \in Slots, k \in handles'[z] PROVE k \in open'
      <4>1. CASE k = h BY <2>3, <3>2, <4>1, Zenon
      <4>2. CASE k # h
        <5>1. k \in handles[z] /\ k \notin Free(z) BY <2>3, <3>5, <4>2, SMTT(30)
        <5>2. QED BY <2>1, <2>3, <3>3, <5>1, ZenonT(30)
      <4>3. QED BY <4>1, <4>2, Zenon
    <3>6. QED BY <3>4, <3>5, Zenon
  <2>4. QED BY <2>2, <2>3, Zenon
<1>9. open' = Alive' BY <1>8, Unions, Zenon
<1>10. QED BY <1>4, <1>5, <1>6, <1>7, <1>9, Zenon DEF Slotted

\* generateSlotedHandle: a new handle, with a purge when there are too many, or none.
LEMMA GenerateStep ==
    ASSUME FiniteSetFacts, IInv, NEW t \in Threads, FlowOutGenerate(t)
    PROVE  IInv'
<1>1. TypeOK /\ OnePlace /\ pc[t].at = "generate" /\ UNCHANGED <<transacting, initialized, drained>>
  BY Zenon DEF IInv, FlowOutGenerate
<1>2. pc[t] # Idle /\ pc[t].type \in Types /\ SlotOf[pc[t].type] \in Slots
      /\ CategoryOf[pc[t].type] \in Categories
  BY <1>1, Shape, PoolAssumption, Zenon
<1>3. handles \in [Slots -> SUBSET Handles] /\ frees \in [Slots -> Seq(Handles)]
      /\ open \in SUBSET Handles /\ transacting \in SUBSET Handles
  BY <1>1, Zenon DEF TypeOK
<1>4. CASE FlowOutFails(t) /\ UNCHANGED pool
  <2>1. UNCHANGED <<handles, frees, open>> BY <1>4, Zenon DEF pool
  <2>2. /\ TypeOK' /\ OnePlace' /\ (\A u \in Threads : Way(u)') /\ Alone' /\ Accounts'
        /\ UNCHANGED threaded
        /\ \A u \in Threads, c \in Categories : Hand(u, c)' = Hand(u, c)
        /\ Carried(t)' = NoHandle
        /\ \A u \in Threads \ {t} : Carried(u)' = Carried(u) /\ pc'[u] = pc[u]
    <3>1. pc[t].at \in {"generate", "reuse"} /\ handles' \in [Slots -> SUBSET Handles]
          /\ open' \in SUBSET Handles /\ transacting' \in SUBSET Handles
      BY <1>1, <1>3, <2>1, Zenon
    <3>2. QED BY <1>1, <1>4, <2>1, <3>1, FailedOut, Zenon
  <2>3. ASSUME ~DrainsWithHandle PROVE Slotted' /\ Kept'
    <3>1. Slotted /\ Kept BY <2>3, Zenon DEF IInv
    <3>2. Slotted'
      <4>1. UNCHANGED <<handles, frees, open>> BY <1>1, <2>1, Zenon
      <4>2. Alive' = Alive /\ \A z \in Slots : Free(z)' = Free(z) BY <4>1, Zenon DEF Alive, Free
      <4>3. \A z \in Slots : Free(z)' \subseteq handles'[z] BY <3>1, <4>1, <4>2, Zenon DEF Slotted
      <4>4. \A y, z \in Slots : y # z => handles'[y] \cap handles'[z] = {}
        BY <3>1, <4>1, Zenon DEF Slotted
      <4>5. \A u \in Threads, d \in Categories :
               threaded'[u][d] # Nothing => Hand(u, d)' \in handles'[SlotOf[threaded'[u][d].type]]
        <5> SUFFICES ASSUME NEW u \in Threads, NEW d \in Categories, threaded'[u][d] # Nothing
                     PROVE  Hand(u, d)' \in handles'[SlotOf[threaded'[u][d].type]]
          BY Zenon
        <5>1. threaded'[u][d] = threaded[u][d] /\ Hand(u, d)' = Hand(u, d) BY <2>2, Zenon
        <5>2. Hand(u, d) \in handles[SlotOf[threaded[u][d].type]] BY <3>1, <5>1, Zenon DEF Slotted
        <5>3. QED BY <4>1, <5>1, <5>2, Zenon
      <4>6. \A u \in Threads : Carried(u)' # NoHandle => Carried(u)' \in handles'[SlotOf[pc'[u].type]]
        <5> SUFFICES ASSUME NEW u \in Threads, Carried(u)' # NoHandle
                     PROVE  Carried(u)' \in handles'[SlotOf[pc'[u].type]]
          BY Zenon
        <5>1. u # t /\ Carried(u)' = Carried(u) /\ pc'[u] = pc[u] BY <2>2, Zenon
        <5>2. Carried(u) \in handles[SlotOf[pc[u].type]] BY <3>1, <5>1, Zenon DEF Slotted
        <5>3. QED BY <4>1, <5>1, <5>2, Zenon
      <4>7. open' = Alive' BY <3>1, <4>1, <4>2, Zenon DEF Slotted
      <4>8. QED BY <4>3, <4>4, <4>5, <4>6, <4>7, Zenon DEF Slotted
    <3>3. Kept'
      <4>1. \A u \in Threads, d \in Categories : Hand(u, d)' = Hand(u, d)
               /\ threaded'[u][d] = threaded[u][d]
        BY <2>2, Zenon
      <4>2. transacting' = transacting BY <1>1, <2>1, Zenon
      <4>3. ASSUME NEW u \in Threads, NEW d \in Categories,
                   threaded'[u][d] # Nothing, threaded'[u][d].reference = 0
            PROVE  Hand(u, d)' \in transacting'
        <5>1. Hand(u, d) \in transacting BY <3>1, <4>1, <4>3, Zenon DEF Kept
        <5>2. QED BY <4>1, <4>2, <5>1, Zenon
      <4>4. ASSUME NEW k \in transacting'
            PROVE  \E u \in Threads, d \in Categories : Hand(u, d)' = k
        <5>1. PICK u \in Threads, d \in Categories : Hand(u, d) = k BY <3>1, <4>2, Zenon DEF Kept
        <5>2. QED BY <4>1, <5>1, Zenon
      <4>5. QED BY <4>3, <4>4, Zenon DEF Kept
    <3>4. QED BY <3>2, <3>3, Zenon
  <2>4. QED BY <2>2, <2>3, Zenon DEF IInv
<1>5. ASSUME NEW h \in Handles, NEW s \in Slots, NEW c \in Categories, h \in Fresh,
             s = SlotOf[pc[t].type], c = CategoryOf[pc[t].type], HandOut(t, h),
             \/ /\ PurgeInto([handles EXCEPT ![s] = @ \cup {h}])
                /\ open' = (open \cup {h}) \ FreeHandles
             \/ /\ handles' = [handles EXCEPT ![s] = @ \cup {h}]
                /\ open' = open \cup {h} /\ UNCHANGED frees
      PROVE  IInv'
  <2>1. /\ h \in Handles /\ h # NoHandle
        /\ \A u \in Threads, d \in Categories : Hand(u, d) # h
        /\ \A u \in Threads : Carried(u) # h
        /\ \A z \in Slots : h \notin Free(z) /\ h \notin handles[z]
    BY <1>1, <1>5, FreshIsNowhere, Zenon
  <2> DEFINE all == [handles EXCEPT ![s] = @ \cup {h}]
  <2>2. all \in [Slots -> SUBSET Handles]
        /\ \A z \in Slots : all[z] = IF z = s THEN handles[z] \cup {h} ELSE handles[z]
    BY <1>3, <2>1, Zenon
  <2>3. (PurgeInto(all) /\ open' = (open \cup {h}) \ FreeHandles)
        \/ (handles' = all /\ open' = open \cup {h} /\ UNCHANGED frees)
    BY <1>5, Zenon
  <2> HIDE DEF all
  <2>4. /\ handles' \in [Slots -> SUBSET Handles] /\ frees' \in [Slots -> Seq(Handles)]
        /\ \A z \in Slots : frees'[z] = frees[z] \/ frees'[z] = <<>>
        /\ open' \in SUBSET Handles /\ transacting' \in SUBSET Handles
        /\ \/ /\ \A z \in Slots :
                   /\ handles'[z] = (IF z = s THEN handles[z] \cup {h} ELSE handles[z]) \ Free(z)
                   /\ Free(z)' = {}
              /\ open' = (open \cup {h}) \ FreeHandles
           \/ /\ \A z \in Slots :
                   /\ handles'[z] = IF z = s THEN handles[z] \cup {h} ELSE handles[z]
                   /\ Free(z)' = Free(z)
              /\ open' = open \cup {h}
    <3>1. CASE PurgeInto(all) /\ open' = (open \cup {h}) \ FreeHandles
      <4>1. /\ handles' \in [Slots -> SUBSET Handles] /\ frees' \in [Slots -> Seq(Handles)]
            /\ \A z \in Slots : frees'[z] = <<>> /\ handles'[z] = all[z] \ Free(z)
            /\ \A z \in Slots : Free(z)' = {}
        BY <2>2, <3>1, Purged, Zenon
      <4>2. QED BY <1>1, <1>3, <2>1, <2>2, <3>1, <4>1, Zenon
    <3>2. CASE handles' = all /\ open' = open \cup {h} /\ UNCHANGED frees
      <4>1. \A z \in Slots : Free(z)' = Free(z) BY <3>2, Zenon DEF Free
      <4>2. QED BY <1>1, <1>3, <2>1, <2>2, <3>2, <4>1, Zenon
    <3>3. QED BY <2>3, <3>1, <3>2, Zenon
  <2>5. GivesOut(t, c, h) BY <1>1, <1>5, <2>1, <2>4, ZenonT(30) DEF GivesOut
  <2>6. /\ TypeOK' /\ OnePlace' /\ (\A u \in Threads : Way(u)') /\ Alone' /\ Accounts'
        /\ threaded'[t][c] # Nothing
        /\ threaded'[t][c].type = pc[t].type
        /\ threaded'[t][c].reference = 1
        /\ Hand(t, c) = NoHandle
        /\ Hand(t, c)' = h
        /\ \A u \in Threads, d \in Categories : u # t \/ d # c =>
             threaded'[u][d] = threaded[u][d] /\ Hand(u, d)' = Hand(u, d)
        /\ Carried(t)' = NoHandle
        /\ \A u \in Threads \ {t} : Carried(u)' = Carried(u) /\ pc'[u] = pc[u]
    BY <2>5, HandedOut, SMTT(30)
  <2>7. ASSUME ~DrainsWithHandle PROVE Slotted' /\ Kept'
    <3>1. Slotted /\ Kept BY <2>7, Zenon DEF IInv
    <3>2. \A u \in Threads, d \in Categories : threaded[u][d] # Nothing
             => SlotOf[threaded[u][d].type] \in Slots
      BY <1>1, Shape, PoolAssumption, Zenon DEF UseType
    <3>3. \A u \in Threads : Carried(u) # NoHandle => SlotOf[pc[u].type] \in Slots
      BY <1>1, Shape, PoolAssumption, Zenon DEF Carried
    <3>4. threaded'[t][c].type \in Types /\ s = SlotOf[threaded'[t][c].type]
      BY <1>2, <1>5, <2>6, Zenon
    <3>5. Slotted'
      <4>1. NewInSlot(t, c, s, h) BY <2>1, <2>4, <2>6, <3>2, <3>3, <3>4, Zenon DEF NewInSlot
      <4>2. QED BY <1>1, <3>1, <4>1, SlottedWithNew, Zenon
    <3>6. \A u \in Threads, d \in Categories :
             threaded'[u][d] # Nothing /\ threaded'[u][d].reference = 0 => Hand(u, d)' \in transacting'
      <4> SUFFICES ASSUME NEW u \in Threads, NEW d \in Categories,
                          threaded'[u][d] # Nothing, threaded'[u][d].reference = 0
                   PROVE  Hand(u, d)' \in transacting'
        BY Zenon
      <4>1. 1 # 0 OBVIOUS
      <4>2. u # t \/ d # c BY <2>6, <4>1, Zenon
      <4>3. threaded'[u][d] = threaded[u][d] /\ Hand(u, d)' = Hand(u, d) BY <2>6, <4>2, Zenon
      <4>4. Hand(u, d) \in transacting BY <3>1, <4>3, Zenon DEF Kept
      <4>5. QED BY <1>1, <4>3, <4>4, Zenon
    <3>7. \A k \in transacting' : \E u \in Threads, d \in Categories : Hand(u, d)' = k
      <4> SUFFICES ASSUME NEW k \in transacting
                   PROVE  \E u \in Threads, d \in Categories : Hand(u, d)' = k
        BY <1>1, Zenon
      <4>1. PICK u \in Threads, d \in Categories : Hand(u, d) = k BY <3>1, Zenon DEF Kept
      <4>2. k # NoHandle BY <1>3, PoolAssumption, Zenon
      <4>3. u # t \/ d # c BY <2>6, <4>1, <4>2, Zenon
      <4>4. QED BY <2>6, <4>1, <4>3, Zenon
    <3>8. QED BY <3>5, <3>6, <3>7, Zenon DEF Kept
  <2>8. QED BY <2>6, <2>7, Zenon DEF IInv
<1>6. \A h \in Fresh : h \in Handles BY <1>1, FreshIsNowhere, Zenon
<1>7. QED BY <1>2, <1>4, <1>5, <1>6, Zenon DEF FlowOutGenerate

\* willReuseSlotedHandle: the handle t carries, or that one closed.
LEMMA ReuseStep ==
    ASSUME FiniteSetFacts, IInv, NEW t \in Threads, FlowOutReuse(t)
    PROVE  IInv'
<1>1. TypeOK /\ OnePlace /\ pc[t].at = "reuse" /\ UNCHANGED <<frees, initialized, drained>>
  BY Zenon DEF IInv, FlowOutReuse
<1>2. pc[t] # Idle /\ pc[t].type \in Types /\ SlotOf[pc[t].type] \in Slots
      /\ CategoryOf[pc[t].type] \in Categories
      /\ pc[t].handle = Carried(t) /\ Carried(t) \in Handles /\ Carried(t) # NoHandle
  BY <1>1, Shape, PoolAssumption, Zenon DEF IInv, Way, Carried
<1>3. handles \in [Slots -> SUBSET Handles] /\ frees \in [Slots -> Seq(Handles)]
      /\ open \in SUBSET Handles /\ transacting \in SUBSET Handles
  BY <1>1, Zenon DEF TypeOK
<1>4. SUFFICES ASSUME NEW s \in Slots, NEW c \in Categories, NEW h \in Handles,
                      s = SlotOf[pc[t].type], c = CategoryOf[pc[t].type], h = pc[t].handle
               PROVE  IInv'
  BY <1>2, ZenonT(30)
<1>5. /\ h = Carried(t) /\ h # NoHandle
      /\ \A u \in Threads, d \in Categories : Hand(u, d) # h
      /\ \A u \in Threads \ {t} : Carried(u) # h
      /\ \A z \in Slots : h \notin Free(z)
  BY <1>1, <1>2, <1>4, SMTT(30) DEF OnePlace
<1>6. pc[t].at \in {"generate", "reuse"} BY <1>1, Zenon
<1>7. CASE HandOut(t, h) /\ open' = open \cup {h} /\ UNCHANGED <<handles, transacting>>
  <2>1. /\ handles' \in [Slots -> SUBSET Handles] /\ frees' \in [Slots -> Seq(Handles)]
        /\ \A z \in Slots : frees'[z] = frees[z] \/ frees'[z] = <<>>
        /\ open' \in SUBSET Handles /\ transacting' \in SUBSET Handles
        /\ HandOut(t, h) /\ UNCHANGED <<initialized, drained>>
    BY <1>1, <1>3, <1>7, ZenonT(30)
  <2>2. /\ TypeOK' /\ OnePlace' /\ (\A u \in Threads : Way(u)') /\ Alone' /\ Accounts'
        /\ threaded'[t][c] # Nothing
        /\ threaded'[t][c].type = pc[t].type
        /\ threaded'[t][c].reference = 1
        /\ Hand(t, c) = NoHandle
        /\ Hand(t, c)' = h
        /\ \A u \in Threads, d \in Categories : u # t \/ d # c =>
             threaded'[u][d] = threaded[u][d] /\ Hand(u, d)' = Hand(u, d)
        /\ Carried(t)' = NoHandle
        /\ \A u \in Threads \ {t} : Carried(u)' = Carried(u) /\ pc'[u] = pc[u]
    <3>1. GivesOut(t, c, h) BY <1>1, <1>4, <1>5, <1>6, <2>1, Zenon DEF GivesOut
    <3>2. QED BY <3>1, HandedOut, SMTT(30)
  <2>3. ASSUME ~DrainsWithHandle PROVE Slotted' /\ Kept'
    <3>1. Slotted /\ Kept BY <2>3, Zenon DEF IInv
    <3>2. h \in handles[s] BY <1>4, <1>5, <3>1, SMTT(30) DEF Slotted
    <3>3. open' = open
      <4>1. h \in open BY <3>1, <3>2, Unions, Zenon DEF Slotted
      <4>2. QED BY <1>7, <4>1, Zenon
    <3>4. \A u \in Threads, d \in Categories :
             threaded'[u][d] # Nothing => Hand(u, d)' \in handles'[SlotOf[threaded'[u][d].type]]
      <4> SUFFICES ASSUME NEW u \in Threads, NEW d \in Categories, threaded'[u][d] # Nothing
                   PROVE  Hand(u, d)' \in handles'[SlotOf[threaded'[u][d].type]]
        BY Zenon
      <4>1. CASE u = t /\ d = c BY <1>4, <1>7, <2>2, <3>2, <4>1, Zenon
      <4>2. CASE u # t \/ d # c
        <5>1. threaded'[u][d] = threaded[u][d] /\ Hand(u, d)' = Hand(u, d) BY <2>2, <4>2, Zenon
        <5>2. Hand(u, d) \in handles[SlotOf[threaded[u][d].type]] BY <3>1, <5>1, Zenon DEF Slotted
        <5>3. QED BY <1>7, <5>1, <5>2, Zenon
      <4>3. QED BY <4>1, <4>2, Zenon
    <3>5. \A u \in Threads : Carried(u)' # NoHandle => Carried(u)' \in handles'[SlotOf[pc'[u].type]]
      <4> SUFFICES ASSUME NEW u \in Threads, Carried(u)' # NoHandle
                   PROVE  Carried(u)' \in handles'[SlotOf[pc'[u].type]]
        BY Zenon
      <4>1. u # t /\ Carried(u)' = Carried(u) /\ pc'[u] = pc[u] BY <2>2, Zenon
      <4>2. Carried(u) \in handles[SlotOf[pc[u].type]] BY <3>1, <4>1, Zenon DEF Slotted
      <4>3. QED BY <1>7, <4>1, <4>2, Zenon
    <3>6. Slotted'
      <4>1. UNCHANGED <<handles, frees>> BY <1>1, <1>7, Zenon
      <4>2. Alive' = Alive /\ \A z \in Slots : Free(z)' = Free(z) BY <4>1, Zenon DEF Alive, Free
      <4>3. \A z \in Slots : Free(z)' \subseteq handles'[z] BY <3>1, <4>1, <4>2, Zenon DEF Slotted
      <4>4. \A y, z \in Slots : y # z => handles'[y] \cap handles'[z] = {}
        BY <3>1, <4>1, Zenon DEF Slotted
      <4>5. open' = Alive' BY <3>1, <3>3, <4>2, Zenon DEF Slotted
      <4>6. QED BY <3>4, <3>5, <4>3, <4>4, <4>5, Zenon DEF Slotted
    <3>7. \A u \in Threads, d \in Categories :
             threaded'[u][d] # Nothing /\ threaded'[u][d].reference = 0 => Hand(u, d)' \in transacting'
      <4> SUFFICES ASSUME NEW u \in Threads, NEW d \in Categories,
                          threaded'[u][d] # Nothing, threaded'[u][d].reference = 0
                   PROVE  Hand(u, d)' \in transacting'
        BY Zenon
      <4>1. 1 # 0 OBVIOUS
      <4>2. u # t \/ d # c BY <2>2, <4>1, Zenon
      <4>3. threaded'[u][d] = threaded[u][d] /\ Hand(u, d)' = Hand(u, d) BY <2>2, <4>2, Zenon
      <4>4. Hand(u, d) \in transacting BY <3>1, <4>3, Zenon DEF Kept
      <4>5. QED BY <1>7, <4>3, <4>4, Zenon
    <3>8. \A k \in transacting' : \E u \in Threads, d \in Categories : Hand(u, d)' = k
      <4> SUFFICES ASSUME NEW k \in transacting
                   PROVE  \E u \in Threads, d \in Categories : Hand(u, d)' = k
        BY <1>7, Zenon
      <4>1. PICK u \in Threads, d \in Categories : Hand(u, d) = k BY <3>1, Zenon DEF Kept
      <4>2. k # NoHandle BY <1>3, PoolAssumption, Zenon
      <4>3. u # t \/ d # c BY <2>2, <4>1, <4>2, Zenon
      <4>4. QED BY <2>2, <4>1, <4>3, Zenon
    <3>9. QED BY <3>6, <3>7, <3>8, ZenonT(30) DEF Kept
  <2>4. QED BY <2>2, <2>3, Zenon DEF IInv
<1>8. CASE /\ FlowOutFails(t) /\ open' = open \ {h} /\ transacting' = transacting \ {h}
           /\ handles' = [handles EXCEPT ![s] = @ \ {h}]
  <2>1. /\ handles' \in [Slots -> SUBSET Handles]
        /\ \A z \in Slots : handles'[z] = IF z = s THEN handles[z] \ {h} ELSE handles[z]
        /\ open' \in SUBSET Handles /\ transacting' \in SUBSET Handles
    BY <1>3, <1>8, Zenon
  <2>2. /\ TypeOK' /\ OnePlace' /\ (\A u \in Threads : Way(u)') /\ Alone' /\ Accounts'
        /\ UNCHANGED threaded
        /\ \A u \in Threads, d \in Categories : Hand(u, d)' = Hand(u, d)
        /\ Carried(t)' = NoHandle
        /\ \A u \in Threads \ {t} : Carried(u)' = Carried(u) /\ pc'[u] = pc[u]
    BY <1>1, <1>6, <1>8, <2>1, FailedOut, Zenon
  <2>3. ASSUME ~DrainsWithHandle PROVE Slotted' /\ Kept'
    <3>1. Slotted /\ Kept BY <2>3, Zenon DEF IInv
    <3>2. h \in handles[s] /\ \A z \in Slots : z # s => h \notin handles[z]
      BY <1>4, <1>5, <3>1, SMTT(30) DEF Slotted
    <3>3. \A z \in Slots : handles'[z] = handles[z] \ {h} BY <2>1, <3>2, Zenon
    <3>4. \A u \in Threads, d \in Categories : threaded[u][d] # Nothing
             => SlotOf[threaded[u][d].type] \in Slots
      BY <1>1, Shape, PoolAssumption, Zenon DEF UseType
    <3>5. \A u \in Threads : Carried(u) # NoHandle => SlotOf[pc[u].type] \in Slots
      BY <1>1, Shape, PoolAssumption, Zenon DEF Carried
    <3>6. \A u \in Threads, d \in Categories :
             threaded'[u][d] # Nothing => Hand(u, d)' \in handles'[SlotOf[threaded'[u][d].type]]
      <4> SUFFICES ASSUME NEW u \in Threads, NEW d \in Categories, threaded'[u][d] # Nothing
                   PROVE  Hand(u, d)' \in handles'[SlotOf[threaded'[u][d].type]]
        BY Zenon
      <4>1. threaded'[u][d] = threaded[u][d] /\ Hand(u, d)' = Hand(u, d) BY <2>2, Zenon
      <4>2. /\ Hand(u, d) \in handles[SlotOf[threaded[u][d].type]]
            /\ SlotOf[threaded[u][d].type] \in Slots
        BY <3>1, <3>4, <4>1, Zenon DEF Slotted
      <4>3. handles'[SlotOf[threaded[u][d].type]] = handles[SlotOf[threaded[u][d].type]] \ {h}
            /\ Hand(u, d) # h
        BY <1>5, <3>3, <4>2, Zenon
      <4>4. QED BY <4>1, <4>2, <4>3, Zenon
    <3>7. \A u \in Threads : Carried(u)' # NoHandle => Carried(u)' \in handles'[SlotOf[pc'[u].type]]
      <4> SUFFICES ASSUME NEW u \in Threads, Carried(u)' # NoHandle
                   PROVE  Carried(u)' \in handles'[SlotOf[pc'[u].type]]
        BY Zenon
      <4>1. u # t /\ Carried(u)' = Carried(u) /\ pc'[u] = pc[u] BY <2>2, Zenon
      <4>2. /\ Carried(u) \in handles[SlotOf[pc[u].type]]
            /\ SlotOf[pc[u].type] \in Slots
        BY <3>1, <3>5, <4>1, Zenon DEF Slotted
      <4>3. handles'[SlotOf[pc[u].type]] = handles[SlotOf[pc[u].type]] \ {h} /\ Carried(u) # h
        BY <1>5, <3>3, <4>1, <4>2, Zenon
      <4>4. QED BY <4>1, <4>2, <4>3, Zenon
    <3>8. \A z \in Slots : Free(z)' = Free(z) BY <1>1, Zenon DEF Free
    <3>9. \A z \in Slots : Free(z)' \subseteq handles'[z] BY <1>5, <3>1, <3>3, <3>8, SMTT(30) DEF Slotted
    <3>10. \A y, z \in Slots : y # z => handles'[y] \cap handles'[z] = {}
      BY <3>1, <3>3, Zenon DEF Slotted
    <3>11. open' = Alive'
      <4>1. \A k : k \in open <=> \E z \in Slots : k \in handles[z] BY <3>1, Unions, Zenon DEF Slotted
      <4>2. QED BY <1>8, <3>3, <4>1, Unions, SMTT(30)
    <3>12. Slotted' BY <3>6, <3>7, <3>9, <3>10, <3>11, Zenon DEF Slotted
    <3>13. Kept'
      <4>1. \A k \in transacting' : k \in transacting /\ k # h BY <1>8, Zenon
      <4>2. \A k \in transacting : k # h => k \in transacting' BY <1>8, Zenon
      <4>3. \A u \in Threads, d \in Categories : Hand(u, d)' = Hand(u, d) /\ Hand(u, d) # h
               /\ threaded'[u][d] = threaded[u][d]
        BY <1>5, <2>2, Zenon
      <4>4. ASSUME NEW u \in Threads, NEW d \in Categories,
                   threaded'[u][d] # Nothing, threaded'[u][d].reference = 0
            PROVE  Hand(u, d)' \in transacting'
        <5>1. Hand(u, d) \in transacting BY <3>1, <4>3, <4>4, Zenon DEF Kept
        <5>2. QED BY <4>2, <4>3, <5>1, Zenon
      <4>5. ASSUME NEW k \in transacting'
            PROVE  \E u \in Threads, d \in Categories : Hand(u, d)' = k
        <5>1. PICK u \in Threads, d \in Categories : Hand(u, d) = k BY <3>1, <4>1, Zenon DEF Kept
        <5>2. QED BY <4>3, <5>1, Zenon
      <4>6. QED BY <4>4, <4>5, Zenon DEF Kept
    <3>14. QED BY <3>12, <3>13, ZenonT(30)
  <2>4. QED BY <2>2, <2>3, Zenon DEF IInv
<1>9. QED BY <1>4, <1>7, <1>8, Zenon DEF FlowOutReuse

-----------------------------------------------------------------------------
(* The steps that close handles, and the lock they are taken under.        *)

\* A step that leaves every thread where it is, with the handles it has.
LEMMA Standing ==
    ASSUME FiniteSetFacts, IInv, UNCHANGED <<threaded, totalCount, writerCount, shares, pc>>, Alone',
           handles' \in [Slots -> SUBSET Handles], frees' \in [Slots -> Seq(Handles)],
           open' \in SUBSET Handles, transacting' \in SUBSET Handles, initialized' \in BOOLEAN,
           owner' \in Threads \cup {NoThread}, depth' \in Nat, drained' \in SUBSET Threads,
           NEW t \in Threads,
           \A s \in Slots : frees'[s] = frees[s] \/ frees'[s] = <<>>,
           ~DrainsWithHandle => Slotted' /\ Kept'
    PROVE  IInv'
<1>1. TypeOK' BY Zenon DEF IInv, TypeOK
<1>2. (\A u \in Threads : Carried(u)' = Carried(u))
      /\ \A u \in Threads, d \in Categories : Hand(u, d)' = Hand(u, d)
  BY Zenon DEF Carried, Hand
<1>3. OnePlace' BY <1>2, PlacesKept, Zenon DEF IInv
<1>4. \A u \in Threads : Way(u)' BY Zenon DEF IInv, Way
<1>5. InUse' = InUse /\ WriteUses' = WriteUses /\ \A u \in Threads : Uses(u)' = Uses(u)
  BY SameUses, Zenon
<1>6. Counting' = Counting /\ WriteCounting' = WriteCounting
      /\ \A u \in Threads : Sharing(u)' = Sharing(u)
  BY Zenon DEF Counting, WriteCounting, Sharing
<1>7. Accounts' BY <1>5, <1>6, Zenon DEF IInv, Accounts
<1>8. QED BY <1>1, <1>3, <1>4, <1>7, Zenon DEF IInv

LEMMA Acquiring ==
    ASSUME FiniteSetFacts, IInv, NEW t \in Threads, Concurrency!Acquire(t)
    PROVE  /\ owner' \in Threads \cup {NoThread} /\ depth' \in Nat /\ Alone' /\ UNCHANGED shares
           /\ \A u \in Threads : shares[u] = 0
<1>1. shares[t] = 0 /\ (owner = t \/ (owner = NoThread /\ \A u \in Threads : shares[u] = 0))
      /\ owner' = t /\ depth' = depth + 1 /\ UNCHANGED shares
  BY Zenon DEF Concurrency!Acquire
<1>2. depth \in Nat /\ Alone /\ t # NoThread BY PoolAssumption, Zenon DEF IInv, TypeOK
<1>3. \A u \in Threads : shares[u] = 0 BY <1>1, <1>2, Zenon DEF Alone
<1>4. Alone' BY <1>1, <1>2, <1>3, SMTT(30) DEF Alone
<1>5. QED BY <1>1, <1>2, <1>3, <1>4, SMTT(30)

LEMMA Releasing ==
    ASSUME FiniteSetFacts, IInv, NEW t \in Threads, Concurrency!Release(t)
    PROVE  /\ owner' \in Threads \cup {NoThread} /\ depth' \in Nat /\ Alone' /\ UNCHANGED shares
           /\ \A u \in Threads : shares[u] = 0
<1>1. shares[t] = 0 /\ owner = t /\ depth' = depth - 1 /\ UNCHANGED shares
      /\ owner' = IF depth = 1 THEN NoThread ELSE t
  BY Zenon DEF Concurrency!Release
<1>2. depth \in Nat /\ Alone /\ t # NoThread /\ depth > 0 BY <1>1, PoolAssumption, Zenon DEF IInv, TypeOK, Alone
<1>3. \A u \in Threads : shares[u] = 0 BY <1>1, <1>2, Zenon DEF Alone
<1>4. Alone' BY <1>1, <1>2, <1>3, SMTT(30) DEF Alone
<1>5. QED BY <1>1, <1>2, <1>3, <1>4, SMTT(30)

LEMMA BlockadeSteps ==
    ASSUME FiniteSetFacts, IInv, NEW t \in Threads, Blockade(t) \/ Unblockade(t)
    PROVE  IInv'
<1>1. UNCHANGED <<handles, frees, open, threaded, transacting, initialized, totalCount,
                  writerCount, drained, pc>>
  BY Zenon DEF Blockade, Unblockade, pool, counter
<1>2. /\ owner' \in Threads \cup {NoThread} /\ depth' \in Nat /\ Alone' /\ UNCHANGED shares
  BY Acquiring, Releasing, Zenon DEF Blockade, Unblockade
<1>3. /\ handles' \in [Slots -> SUBSET Handles] /\ frees' \in [Slots -> Seq(Handles)]
      /\ open' \in SUBSET Handles /\ transacting' \in SUBSET Handles /\ initialized' \in BOOLEAN
      /\ drained' \in SUBSET Threads
  BY <1>1, Zenon DEF IInv, TypeOK
<1>4. ASSUME ~DrainsWithHandle PROVE Slotted' /\ Kept'
  <2>1. Slotted /\ Kept BY <1>4, ZenonT(30) DEF IInv
  <2>2. Slotted' BY <1>1, <2>1, SMTT(30) DEF Slotted, Free, Alive, Hand, Carried
  <2>3. Kept' BY <1>1, <2>1, Zenon DEF Kept, Hand
  <2>4. QED BY <2>2, <2>3, Zenon
<1>5. QED BY <1>1, <1>2, <1>3, <1>4, Standing, Zenon

\* With no share held there is no handle in use, and none on its way.
LEMMA NobodyHas ==
    ASSUME FiniteSetFacts, IInv, \A u \in Threads : shares[u] = 0
    PROVE  \A u \in Threads : /\ Carried(u) = NoHandle
                              /\ \A d \in Categories : threaded[u][d] = Nothing
<1> SUFFICES ASSUME NEW u \in Threads
             PROVE  Carried(u) = NoHandle /\ \A d \in Categories : threaded[u][d] = Nothing
  BY Zenon
<1>1. IsFiniteSet(Uses(u)) /\ Cardinality(Uses(u)) \in Nat BY Finite, Zenon
<1>2. Cardinality(Uses(u)) + (IF Sharing(u) THEN 1 ELSE 0) = 0 BY Zenon DEF IInv, Accounts
<1>3. Cardinality(Uses(u)) = 0 /\ ~Sharing(u) BY <1>1, <1>2, SMTT(30)
<1>4. Uses(u) = {} BY <1>1, <1>3, Zenon DEF FiniteSetFacts, CountFacts
<1>5. \A d \in Categories : threaded[u][d] = Nothing
  <2> SUFFICES ASSUME NEW d \in Categories, threaded[u][d] # Nothing PROVE FALSE BY Zenon
  <2>1. <<u, d>> \in Uses(u) BY Zenon DEF Uses, InUse
  <2>2. QED BY <1>4, <2>1, Zenon
<1>6. Carried(u) = NoHandle BY <1>3, Zenon DEF IInv, Way, Sharing, Carried
<1>7. QED BY <1>5, <1>6, Zenon

\* clearAllHandles.
LEMMA Cleared ==
    ASSUME FiniteSetFacts, IInv, ClearAllHandles, UNCHANGED <<threaded, pc>>
    PROVE  /\ handles' \in [Slots -> SUBSET Handles] /\ frees' \in [Slots -> Seq(Handles)]
           /\ open' \in SUBSET Handles /\ transacting' \in SUBSET Handles
           /\ \A s \in Slots : frees'[s] = <<>>
           /\ ~DrainsWithHandle /\ (\A u \in Threads : shares[u] = 0) => Slotted' /\ Kept'
<1>1. <<>> \in Seq(Handles) /\ DOMAIN <<>> = {} BY SMTT(30)
<1>2. /\ handles' \in [Slots -> SUBSET Handles] /\ frees' \in [Slots -> Seq(Handles)]
      /\ \A s \in Slots : frees'[s] = <<>> /\ handles'[s] = {}
  BY <1>1, Zenon DEF ClearAllHandles
<1>3. open' \in SUBSET Handles /\ transacting' \in SUBSET Handles
  BY Zenon DEF ClearAllHandles, IInv, TypeOK
<1>4. ASSUME ~DrainsWithHandle, \A u \in Threads : shares[u] = 0 PROVE Slotted' /\ Kept'
  <2>1. Slotted /\ Kept BY <1>4, Zenon DEF IInv
  <2>2. \A u \in Threads : /\ Carried(u) = NoHandle
                           /\ \A d \in Categories : threaded[u][d] = Nothing
    BY <1>4, NobodyHas, Zenon
  <2>3. \A u \in Threads : /\ Carried(u)' = NoHandle
                           /\ \A d \in Categories : threaded'[u][d] = Nothing
    BY <2>2, Zenon DEF Carried
  <2>4. open' = {} BY <2>1, Zenon DEF ClearAllHandles, Slotted
  <2>5. Alive' = {} BY <1>2, Unions, Zenon
  <2>6. \A s \in Slots : Free(s)' = {} BY <1>1, <1>2, Zenon DEF Free
  <2>7. Slotted' BY <1>2, <2>3, <2>4, <2>5, <2>6, Zenon DEF Slotted
  <2>8. transacting = {}
    <3> SUFFICES ASSUME NEW k \in transacting PROVE FALSE BY Zenon
    <3>1. PICK u \in Threads, d \in Categories : Hand(u, d) = k BY <2>1, Zenon DEF Kept
    <3>2. Hand(u, d) = NoHandle BY <2>2, SMTT(30) DEF Hand, Nothing
    <3>3. k \in Handles BY Zenon DEF IInv, TypeOK
    <3>4. QED BY <3>1, <3>2, <3>3, PoolAssumption, Zenon
  <2>9. Kept' BY <2>3, <2>8, Zenon DEF Kept, ClearAllHandles
  <2>10. QED BY <2>7, <2>9, Zenon
<1>5. QED BY <1>2, <1>3, <1>4, Zenon

LEMMA DrainSteps ==
    ASSUME FiniteSetFacts, IInv, NEW t \in Threads, Drain(t) \/ DrainEnd(t)
    PROVE  IInv'
<1>1. UNCHANGED <<threaded, totalCount, writerCount, pc>> /\ ClearAllHandles
      /\ initialized' \in BOOLEAN
  BY Zenon DEF Drain, DrainEnd, counter
<1>2. drained' \in SUBSET Threads BY Zenon DEF Drain, DrainEnd, IInv, TypeOK
<1>3. /\ owner' \in Threads \cup {NoThread} /\ depth' \in Nat /\ Alone' /\ UNCHANGED shares
      /\ ~DrainsWithHandle => \A u \in Threads : shares[u] = 0
  <2>1. CASE Concurrency!Acquire(t) BY <2>1, Acquiring, Zenon
  <2>2. CASE Concurrency!Release(t) BY <2>2, Releasing, Zenon
  <2>3. CASE DrainsWithHandle /\ UNCHANGED lock
    BY <2>3, Zenon DEF lock, IInv, TypeOK, Alone
  <2>4. QED BY <2>1, <2>2, <2>3, Zenon DEF Drain, DrainEnd
<1>4. /\ handles' \in [Slots -> SUBSET Handles] /\ frees' \in [Slots -> Seq(Handles)]
      /\ open' \in SUBSET Handles /\ transacting' \in SUBSET Handles
      /\ \A s \in Slots : frees'[s] = <<>>
      /\ ~DrainsWithHandle /\ (\A u \in Threads : shares[u] = 0) => Slotted' /\ Kept'
  BY <1>1, Cleared, Zenon
<1>5. QED BY <1>1, <1>2, <1>3, <1>4, Standing, Zenon

\* purge: the free handles are closed.
LEMMA PurgeStep ==
    ASSUME FiniteSetFacts, IInv, NEW t \in Threads, Purge(t)
    PROVE  IInv'
<1>1. UNCHANGED <<threaded, totalCount, writerCount, shares, pc, owner, depth, initialized, drained>>
      /\ PurgeInto(handles) /\ open' = open \ FreeHandles
      /\ transacting' = transacting \ FreeHandles
  BY Zenon DEF Purge, counter, lock
<1>2. TypeOK /\ OnePlace /\ handles \in [Slots -> SUBSET Handles] BY Zenon DEF IInv, TypeOK
<1>3. /\ handles' \in [Slots -> SUBSET Handles] /\ frees' \in [Slots -> Seq(Handles)]
      /\ \A s \in Slots : frees'[s] = <<>> /\ handles'[s] = handles[s] \ Free(s)
      /\ \A s \in Slots : Free(s)' = {}
  BY <1>1, <1>2, Purged, Zenon
<1>4. /\ open' \in SUBSET Handles /\ transacting' \in SUBSET Handles /\ initialized' \in BOOLEAN
      /\ owner' \in Threads \cup {NoThread} /\ depth' \in Nat /\ drained' \in SUBSET Threads
  BY <1>1, <1>2, Zenon DEF TypeOK
<1>5. Alone' BY <1>1, Zenon DEF IInv, Alone
<1>6. ASSUME ~DrainsWithHandle PROVE Slotted' /\ Kept'
  <2>1. Slotted /\ Kept BY <1>6, Zenon DEF IInv
  <2>2. \A u \in Threads : /\ Carried(u)' = Carried(u) /\ Carried(u) \notin FreeHandles
                           /\ \A d \in Categories : /\ Hand(u, d)' = Hand(u, d)
                                                    /\ Hand(u, d) \notin FreeHandles
    <3>1. \A u \in Threads : Carried(u)' = Carried(u) BY <1>1, Zenon DEF Carried
    <3>2. \A u \in Threads, d \in Categories : Hand(u, d)' = Hand(u, d) BY <1>1, ZenonT(30) DEF Hand
    <3>3. \A u \in Threads : /\ Carried(u) \notin FreeHandles
                             /\ \A d \in Categories : Hand(u, d) \notin FreeHandles
      BY <1>2, Unions, SMTT(30) DEF OnePlace
    <3>4. QED BY <3>1, <3>2, <3>3, Zenon
  <2>3. \A s \in Slots : \A k \in handles[s] : k \in Free(s) <=> k \in FreeHandles
    <3> SUFFICES ASSUME NEW s \in Slots, NEW k \in handles[s], k \in FreeHandles
                 PROVE  k \in Free(s)
      BY Unions, Zenon
    <3>1. PICK z \in Slots : k \in Free(z) BY Unions, Zenon
    <3>2. k \in handles[z] BY <2>1, <3>1, Zenon DEF Slotted
    <3>3. z = s BY <2>1, <3>2, Zenon DEF Slotted
    <3>4. QED BY <3>1, <3>3, Zenon
  <2>4. \A s \in Slots : handles'[s] = handles[s] \ FreeHandles BY <1>3, <2>3, Zenon
  <2>5. \A u \in Threads, d \in Categories : threaded[u][d] # Nothing
           => SlotOf[threaded[u][d].type] \in Slots
    BY <1>2, Shape, PoolAssumption, Zenon DEF UseType
  <2>6. \A u \in Threads : Carried(u) # NoHandle => SlotOf[pc[u].type] \in Slots
    BY <1>2, Shape, PoolAssumption, Zenon DEF Carried
  <2>7. \A u \in Threads, d \in Categories :
           threaded'[u][d] # Nothing => Hand(u, d)' \in handles'[SlotOf[threaded'[u][d].type]]
    <3> SUFFICES ASSUME NEW u \in Threads, NEW d \in Categories, threaded[u][d] # Nothing
                 PROVE  Hand(u, d) \in handles'[SlotOf[threaded[u][d].type]]
      BY <1>1, <2>2, Zenon
    <3>1. Hand(u, d) \in handles[SlotOf[threaded[u][d].type]] BY <2>1, ZenonT(30) DEF Slotted
    <3>2. QED BY <2>2, <2>4, <2>5, <3>1, Zenon
  <2>8. \A u \in Threads : Carried(u)' # NoHandle => Carried(u)' \in handles'[SlotOf[pc'[u].type]]
    BY <1>1, <2>1, <2>2, <2>4, <2>6, SMTT(30) DEF Slotted
  <2>9. \A y, z \in Slots : y # z => handles'[y] \cap handles'[z] = {}
    BY <2>1, <2>4, Zenon DEF Slotted
  <2>10. open' = Alive'
    <3>1. \A k : k \in open <=> \E z \in Slots : k \in handles[z] BY <2>1, Unions, Zenon DEF Slotted
    <3>2. QED BY <1>1, <2>4, <3>1, Unions, SMTT(30)
  <2>11. Slotted' BY <1>3, <2>7, <2>8, <2>9, <2>10, ZenonT(30) DEF Slotted
  <2>12. Kept' BY <1>1, <2>1, <2>2, SMTT(30) DEF Kept
  <2>13. QED BY <2>11, <2>12, Zenon
<1>7. QED BY <1>1, <1>3, <1>4, <1>5, <1>6, Standing, Zenon

-----------------------------------------------------------------------------
LEMMA InitialPool == ASSUME FiniteSetFacts, Init PROVE IInv
<1>1. <<>> \in Seq(Handles) /\ DOMAIN <<>> = {} BY SMTT(30)
<1>2. /\ handles \in [Slots -> SUBSET Handles] /\ frees \in [Slots -> Seq(Handles)]
      /\ \A s \in Slots : handles[s] = {} /\ frees[s] = <<>>
  BY <1>1, Zenon DEF Init
<1>3. /\ threaded \in [Threads -> [Categories -> UseType \cup {Nothing}]]
      /\ \A t \in Threads, c \in Categories : threaded[t][c] = Nothing
  BY Zenon DEF Init
<1>4. pc \in [Threads -> PlaceType \cup {Idle}] /\ \A t \in Threads : pc[t] = Idle BY Zenon DEF Init
<1>5. owner = NoThread /\ depth = 0 /\ shares \in [Threads -> Nat]
      /\ \A t \in Threads : shares[t] = 0
  BY Zenon DEF Init, Concurrency!RWInit
<1>6. TypeOK BY <1>2, <1>3, <1>4, <1>5, Zenon DEF Init, TypeOK, UseType, PlaceType
<1>7. \A t \in Threads : Carried(t) = NoHandle /\ \A c \in Categories : Hand(t, c) = NoHandle
  BY <1>3, <1>4, SMTT(30) DEF Carried, Hand, Nothing
<1>8. \A s \in Slots : Free(s) = {} BY <1>1, <1>2, Zenon DEF Free
<1>9. OnePlace BY <1>1, <1>2, <1>7, <1>8, Zenon DEF OnePlace
<1>10. \A t \in Threads : Way(t) BY <1>4, Zenon DEF Way
<1>11. Alone BY <1>5, SMTT(30) DEF Alone
<1>12. Accounts
  <2>1. InUse = {} /\ WriteUses = {} /\ \A t \in Threads : Uses(t) = {}
    BY <1>3, Zenon DEF InUse, WriteUses, Uses
  <2>2. Counting = {} /\ WriteCounting = {} /\ \A t \in Threads : ~Sharing(t)
    BY <1>4, SMTT(30) DEF Counting, WriteCounting, Sharing, Idle
  <2>3. Cardinality({}) = 0 BY Zenon DEF FiniteSetFacts, CountFacts
  <2>4. \A t \in Threads : shares[t] = Cardinality(Uses(t)) + (IF Sharing(t) THEN 1 ELSE 0)
    BY <1>5, <2>1, <2>2, <2>3, SMTT(30)
  <2>5. totalCount = Cardinality(InUse) + Cardinality(Counting)
        /\ writerCount = Cardinality(WriteUses) + Cardinality(WriteCounting)
    BY <2>1, <2>2, <2>3, SMTT(30) DEF Init
  <2>6. QED BY <2>4, <2>5, Zenon DEF Accounts
<1>13. Slotted
  <2>1. Alive = {} BY <1>2, Unions, Zenon
  <2>2. open = Alive BY <2>1, Zenon DEF Init
  <2>3. QED BY <1>2, <1>3, <1>7, <1>8, <2>2, Zenon DEF Slotted
<1>14. Kept BY <1>3, Zenon DEF Init, Kept
<1>15. QED BY <1>6, <1>9, <1>10, <1>11, <1>12, <1>13, <1>14, Zenon DEF IInv

LEMMA PoolStep == ASSUME FiniteSetFacts, IInv, [Next]_vars PROVE IInv'
<1>1. CASE UNCHANGED vars
  <2>1. TypeOK' BY <1>1, ZenonT(30) DEF vars, IInv, TypeOK
  <2>2. OnePlace' BY <1>1, SMTT(30) DEF vars, IInv, OnePlace, Hand, Carried, Free
  <2>3. (\A t \in Threads : Way(t)') /\ Alone' BY <1>1, Zenon DEF vars, IInv, Way, Alone
  <2>4. Accounts'
    BY <1>1, ZenonT(30) DEF vars, IInv, Accounts, Uses, InUse, WriteUses, WriteCounting, Counting, Sharing
  <2>5. Slotted => Slotted' BY <1>1, SMTT(30) DEF vars, Slotted, Alive, Hand, Carried, Free
  <2>6. Kept => Kept' BY <1>1, Zenon DEF vars, Kept, Hand
  <2>7. QED BY <2>1, <2>2, <2>3, <2>4, <2>5, <2>6, Zenon DEF IInv
<1>2. ASSUME NEW t \in Threads, NEW type \in Types, FlowOutThreaded(t, type) PROVE IInv'
  BY <1>2, FlowOutThreadedStep, Zenon
<1>3. ASSUME NEW t \in Threads, NEW type \in Types, NEW hint \in BOOLEAN, GetHandle(t, type, hint)
      PROVE  IInv'
  BY <1>3, GetHandleStep, Zenon
<1>4. ASSUME NEW t \in Threads, InitializeShared(t) \/ InitializeBlocked(t) PROVE IInv'
  BY <1>4, InitializeSteps, Zenon
<1>5. ASSUME NEW t \in Threads, FlowOutCount(t) PROVE IInv' BY <1>5, CountStep, Zenon
<1>6. ASSUME NEW t \in Threads, FlowOutTake(t) PROVE IInv' BY <1>6, TakeStep, Zenon
<1>7. ASSUME NEW t \in Threads, FlowOutGenerate(t) PROVE IInv' BY <1>7, GenerateStep, Zenon
<1>8. ASSUME NEW t \in Threads, FlowOutReuse(t) PROVE IInv' BY <1>8, ReuseStep, Zenon
<1>9. ASSUME NEW t \in Threads, NEW c \in Categories,
             BeginTransaction(t, c) \/ EndTransaction(t, c)
      PROVE  IInv'
  BY <1>9, TransactionSteps, ZenonT(30)
<1>10. ASSUME NEW t \in Threads, NEW c \in Categories, FlowBack(t, c) PROVE IInv'
  BY <1>10, FlowBackStep, Zenon
<1>11. ASSUME NEW t \in Threads, FlowBackPush(t) PROVE IInv' BY <1>11, PushStep, Zenon
<1>12. ASSUME NEW t \in Threads, FlowBackUnshare(t) \/ FlowBackDecrease(t) PROVE IInv'
  BY <1>12, BackSteps, Zenon
<1>13. ASSUME NEW t \in Threads, Blockade(t) \/ Unblockade(t) PROVE IInv'
  BY <1>13, BlockadeSteps, Zenon
<1>14. ASSUME NEW t \in Threads, Drain(t) \/ DrainEnd(t) PROVE IInv' BY <1>14, DrainSteps, Zenon
<1>15. ASSUME NEW t \in Threads, Purge(t) PROVE IInv' BY <1>15, PurgeStep, Zenon
<1>16. QED
  BY <1>1, <1>2, <1>3, <1>4, <1>5, <1>6, <1>7, <1>8, <1>9, <1>10, <1>11, <1>12, <1>13, <1>14,
     <1>15, ZenonT(30)
  DEF Next

-----------------------------------------------------------------------------
\* What IInv says, in the words of the properties.
LEMMA OnePlaceIsOneUser == IInv => OneUser
<1> SUFFICES ASSUME IInv PROVE OneUser BY Zenon
<1>1. TypeOK /\ OnePlace BY Zenon DEF IInv
<1>2. \A t \in Threads : \A h : h \in InHand(t) => h # NoHandle /\ \E c \in Categories : Hand(t, c) = h
  BY Zenon DEF InHand, Hand
<1>3. \A t \in Threads : \A h : h \in InTransit(t) => h # NoHandle /\ Carried(t) = h
  BY Zenon DEF InTransit, Carried
<1>4. ASSUME NEW t \in Threads, NEW u \in Threads, t # u
      PROVE  (InHand(t) \cup InTransit(t)) \cap (InHand(u) \cup InTransit(u)) = {}
  <2> SUFFICES ASSUME NEW h, h \in InHand(t) \cup InTransit(t), h \in InHand(u) \cup InTransit(u)
               PROVE  FALSE
    BY Zenon
  <2>1. CASE h \in InHand(t) /\ h \in InHand(u) BY <1>1, <1>2, <1>4, <2>1, SMTT(30) DEF OnePlace
  <2>2. CASE h \in InHand(t) /\ h \in InTransit(u) BY <1>1, <1>2, <1>3, <2>2, SMTT(30) DEF OnePlace
  <2>3. CASE h \in InTransit(t) /\ h \in InHand(u) BY <1>1, <1>2, <1>3, <2>3, SMTT(30) DEF OnePlace
  <2>4. CASE h \in InTransit(t) /\ h \in InTransit(u) BY <1>1, <1>3, <1>4, <2>4, ZenonT(30) DEF OnePlace
  <2>5. QED BY <2>1, <2>2, <2>3, <2>4, Zenon
<1>5. \A t \in Threads : (InHand(t) \cup InTransit(t)) \cap FreeHandles = {}
  BY <1>1, <1>2, <1>3, Unions, SMTT(30) DEF OnePlace
<1>6. \A t \in Threads : InHand(t) \cap InTransit(t) = {}
  BY <1>1, <1>2, <1>3, SMTT(30) DEF OnePlace
<1>7. \A t \in Threads, c, d \in Categories :
         threaded[t][c].handle = threaded[t][d].handle => c = d \/ threaded[t][c] = Nothing
  <2> SUFFICES ASSUME NEW t \in Threads, NEW c \in Categories, NEW d \in Categories,
                      Hand(t, c) = Hand(t, d), threaded[t][c] # Nothing
               PROVE  c = d
    BY Zenon DEF Hand
  <2>1. Hand(t, c) # NoHandle BY <1>1, Shape, Zenon
  <2>2. QED BY <1>1, <2>1, Zenon DEF OnePlace
<1>8. \A s, z \in Slots : \A i \in DOMAIN frees[s], j \in DOMAIN frees[z] :
         frees[s][i] = frees[z][j] => s = z /\ i = j
  BY <1>1, Zenon DEF OnePlace
<1>9. QED BY <1>4, <1>5, <1>6, <1>7, <1>8, Zenon DEF OneUser

LEMMA SlottedIsOpen == IInv /\ ~DrainsWithHandle => HandleInUseIsOpen
<1> SUFFICES ASSUME IInv, ~DrainsWithHandle, NEW t \in Threads, NEW c \in Categories,
                    threaded[t][c] # Nothing
             PROVE  /\ threaded[t][c].handle \in open
                    /\ threaded[t][c].handle \in handles[SlotOf[threaded[t][c].type]]
  BY Zenon DEF HandleInUseIsOpen
<1>1. TypeOK /\ Slotted BY Zenon DEF IInv
<1>2. SlotOf[threaded[t][c].type] \in Slots BY <1>1, Shape, PoolAssumption, Zenon DEF UseType
<1>3. threaded[t][c].handle \in handles[SlotOf[threaded[t][c].type]] BY <1>1, Zenon DEF Slotted, Hand
<1>4. threaded[t][c].handle \in open BY <1>1, <1>2, <1>3, Unions, ZenonT(30) DEF Slotted
<1>5. QED BY <1>3, <1>4, Zenon

LEMMA AccountsAgree == IInv /\ ~DrainsWithHandle => BooksAgree
<1> SUFFICES ASSUME IInv, ~DrainsWithHandle PROVE BooksAgree BY Zenon
<1>1. TypeOK /\ Slotted /\ Kept /\ Accounts BY Zenon DEF IInv
<1>2. open = Alive BY <1>1, Zenon DEF Slotted
<1>3. \A t \in Threads : shares[t] = Cardinality({u \in InUse : u[1] = t})
                                     + (IF Sharing(t) THEN 1 ELSE 0)
  BY <1>1, Zenon DEF Accounts, Uses
<1>4. totalCount = Cardinality(InUse) + Cardinality(Counting) BY <1>1, Zenon DEF Accounts
<1>5. writerCount = Cardinality({u \in InUse : threaded[u[1]][u[2]].hint})
                    + Cardinality({t \in Counting : pc[t].hint})
  BY <1>1, Zenon DEF Accounts, WriteUses, WriteCounting
<1>6. \A t \in Threads, c \in Categories :
         threaded[t][c] # Nothing /\ threaded[t][c].reference = 0
           => threaded[t][c].handle \in transacting
  BY <1>1, Zenon DEF Kept, Hand
<1>7. transacting \subseteq UNION {InHand(t) : t \in Threads}
  <2> SUFFICES ASSUME NEW h \in transacting PROVE \E t \in Threads : h \in InHand(t) BY Zenon
  <2>1. PICK t \in Threads, c \in Categories : Hand(t, c) = h BY <1>1, Zenon DEF Kept
  <2>2. h # NoHandle BY <1>1, PoolAssumption, Zenon DEF TypeOK
  <2>3. h \in InHand(t) BY <2>1, <2>2, SMTT(30) DEF InHand, Hand
  <2>4. QED BY <2>3, Zenon
<1>8. QED BY <1>2, <1>3, <1>4, <1>5, <1>6, <1>7, Zenon DEF BooksAgree

-----------------------------------------------------------------------------
USE DEF IsFiniteSet, Cardinality
LOCAL INSTANCE FiniteSetTheorems

\* The hypothesis of the lemmas about counts, from the library.
LEMMA FiniteSetFactsHold == FiniteSetFacts
<1>1. \A S, T : IsFiniteSet(S) /\ IsFiniteSet(T) => IsFiniteSet(S \X T) BY FS_Product, Zenon
<1>2. Cardinality({}) = 0 BY FS_EmptySet, Zenon
<1>3. ASSUME NEW S, IsFiniteSet(S) PROVE CountFacts(S)
  <2>1. /\ Cardinality(S) \in Nat /\ (Cardinality(S) = 0 <=> S = {})
        /\ \A T \in SUBSET S : IsFiniteSet(T)
    BY <1>3, FS_CardinalityType, FS_EmptySet, FS_Subset, ZenonT(30)
  <2>2. ASSUME NEW x
        PROVE  /\ Cardinality(S \cup {x}) = IF x \in S THEN Cardinality(S) ELSE Cardinality(S) + 1
               /\ Cardinality(S \ {x}) = IF x \in S THEN Cardinality(S) - 1 ELSE Cardinality(S)
    BY <1>3, FS_AddElement, FS_RemoveElement, ZenonT(30)
  <2>3. QED BY <2>1, <2>2, Zenon DEF CountFacts, IsFiniteSet, Cardinality
<1>4. QED BY <1>1, <1>2, <1>3, ZenonT(30) DEF FiniteSetFacts, IsFiniteSet, Cardinality

\* The invariant the pool's correctness rests on, for every number of threads, handles,
\* slots and categories: each handle in one place, a share for every handle in use or on
\* its way, the counter in step, and, when nobody drains from inside a blockade with a
\* handle in use, every handle in use open and in its slot.
THEOREM PoolInvariance == Spec => []IInv
<1>1. Init => IInv BY InitialPool, FiniteSetFactsHold, Zenon
<1>2. IInv /\ [Next]_vars => IInv' BY PoolStep, FiniteSetFactsHold, Zenon
<1>3. QED BY <1>1, <1>2, PTL DEF Spec

\* HandlePool::flowOut and flowBack: no handle serves two threads, whatever the order of
\* their sections under m_memory, and also when the pool is drained by a user of it.
THEOREM HandlesServeOne == Spec => []OneUser
<1>1. IInv => OneUser BY OnePlaceIsOneUser, Zenon
<1>2. QED BY <1>1, PoolInvariance, PTL

\* HandlePool::drain and purge close no handle that is in use.
THEOREM HandlesInUseStayOpen ==
    ASSUME ~DrainsWithHandle
    PROVE  Spec => []HandleInUseIsOpen
<1>1. IInv => HandleInUseIsOpen BY SlottedIsOpen, ZenonT(30)
<1>2. QED BY <1>1, PoolInvariance, PTL

\* The counter, the lock's shares, m_handles and the transactions agree with the handles
\* the threads have, through every early return of flowOut and flowBack.
THEOREM PoolBooksAgree ==
    ASSUME ~DrainsWithHandle
    PROVE  Spec => []BooksAgree
<1>1. IInv => BooksAgree BY AccountsAgree, Zenon
<1>2. QED BY <1>1, PoolInvariance, PTL
=============================================================================
