--------------------------- MODULE MigrationProofs ---------------------------
(***************************************************************************)
(* Proofs about Migration for every set of tables and steppers and every    *)
(* finite set of handles: the life of an info, that it never migrates       *)
(* again, and that a live statement keeps the source table it is bound to.   *)
(*                                                                         *)
(* The argument: what an actor has read outside m_lock is about a table     *)
(* that is either still unknown, and then nobody drops it, or has an info,  *)
(* and then only moves forward in its life.                                  *)
(***************************************************************************)
EXTENDS Migration, FiniteSetTheorems, TLAPS

\* The handles whose binder holds the info of t, by rf.
Holders(rf, t) == {h \in Handles : t \in rf[h]}

\* What the place of an actor says about the table it is at.
Walk(a) ==
    /\ pc[a] \in {"target", "mark"} /\ filted[tab[a]] = "unknown" => tab[a] \in sources
    /\ pc[a] = "mark" /\ seen[a] /\ filted[tab[a]] = "unknown" => tab[a] \in targets
    /\ pc[a] \in {"drop", "dropped", "exists", "move", "moved"} => filted[tab[a]] = "info"
    /\ pc[a] \in {"drop", "dropped"} => tab[a] \notin DOMAIN referenceds
    /\ pc[a] = "moved" => rows[tab[a]] = 0

\* What a handle holds, and the statement it is about to bind.
Binding(h) ==
    /\ \A t \in bound[h] : filted[t] = "info"
    /\ Rebinds \/ bound[h] \subseteq refs[h]
    /\ pc[h] = "get" => goal[h] = "use"
    /\ pc[h] \in {"source", "none", "target", "mark", "get"} /\ goal[h] = "use"
         => Rebinds \/ tab[h] \notin bound[h]

\* An info that can be referenced has its source table, and a table that
\* migrates without a target has no rows left.
Sources ==
    /\ DOMAIN referenceds \subseteq sources
    /\ \A t \in Tables \ targets : filted[t] = "info" => rows[t] = 0

IInv ==
    /\ setup \in Setups /\ TypeOK
    /\ LifeOfInfo /\ Sources
    /\ \A a \in Actors : Walk(a)
    /\ \A h \in Handles : Binding(h)

-----------------------------------------------------------------------------
\* The holders of an info can be counted.
LEMMA Counting ==
    ASSUME NEW rf \in [Handles -> SUBSET Tables], NEW t \in Tables
    PROVE  /\ IsFiniteSet(Holders(rf, t))
           /\ Cardinality(Holders(rf, t)) \in 0..Cardinality(Handles)
           /\ Cardinality(Holders(rf, t)) = 0 <=> \A g \in Handles : t \notin rf[g]
<1>1. Holders(rf, t) \in SUBSET Handles BY DEF Holders
<1>2. IsFiniteSet(Holders(rf, t)) /\ Cardinality(Holders(rf, t)) <= Cardinality(Handles)
  BY <1>1, MigrationConstants, FS_Subset
<1>3. Cardinality(Holders(rf, t)) \in Nat /\ Cardinality(Handles) \in Nat
  BY <1>2, MigrationConstants, FS_CardinalityType
<1>4. Cardinality(Holders(rf, t)) = 0 <=> Holders(rf, t) = {} BY <1>2, FS_EmptySet
<1>5. Holders(rf, t) = {} <=> \A g \in Handles : t \notin rf[g] BY DEF Holders
<1>6. QED BY <1>2, <1>3, <1>4, <1>5

\* What one handle h changes in the count.
LEMMA Holding ==
    ASSUME NEW rf \in [Handles -> SUBSET Tables], NEW sf \in [Handles -> SUBSET Tables],
           NEW h \in Handles, \A g \in Handles \ {h} : sf[g] = rf[g], NEW t \in Tables
    PROVE  Cardinality(Holders(sf, t))
             = Cardinality(Holders(rf, t)) + (IF t \in sf[h] THEN 1 ELSE 0)
                                           - (IF t \in rf[h] THEN 1 ELSE 0)
<1> DEFINE H == Holders(rf, t)
           G == Holders(sf, t)
<1>1. IsFiniteSet(H) /\ Cardinality(H) \in 0..Cardinality(Handles) BY Counting
<1>2. /\ Cardinality(H \cup {h}) = IF h \in H THEN Cardinality(H) ELSE Cardinality(H) + 1
      /\ Cardinality(H \ {h}) = IF h \in H THEN Cardinality(H) - 1 ELSE Cardinality(H)
  BY <1>1, FS_AddElement, FS_RemoveElement, Zenon
<1>3. G = IF t \in sf[h] THEN H \cup {h} ELSE H \ {h} BY DEF Holders
<1>4. h \in H <=> t \in rf[h] BY DEF Holders
<1> HIDE DEF H, G
<1>5. Cardinality(G) = Cardinality(H) + (IF t \in sf[h] THEN 1 ELSE 0)
                                      - (IF t \in rf[h] THEN 1 ELSE 0)
  BY <1>1, <1>2, <1>3, <1>4
<1>6. QED BY <1>5 DEF H, G

\* A step of an actor that changes nothing anybody else can see.
LEMMA Moves ==
    ASSUME IInv, TypeOK', NEW a \in Actors,
           UNCHANGED <<setup, filted, migratings, dumpster, hints, referenceds,
                       tables, refs, bound>>,
           \A b \in Actors \ {a} : /\ pc'[b] = pc[b] /\ tab'[b] = tab[b]
                                   /\ seen'[b] = seen[b] /\ goal'[b] = goal[b],
           Walk(a)', a \in Handles => Binding(a)'
    PROVE  IInv'
<1>1. LifeOfInfo' /\ Sources' /\ setup' \in Setups
  BY DEF IInv, LifeOfInfo, Sources, tables
<1>2. \A b \in Actors : Walk(b)'
  BY DEF IInv, Walk, tables
<1>3. \A h \in Handles : Binding(h)'
  BY DEF IInv, Binding, Rebinds, Actors
<1>4. QED BY <1>1, <1>2, <1>3 DEF IInv

\* releaseInfo, when h gives up its references to ts.
LEMMA Releasing ==
    ASSUME IInv, NEW h \in Handles, NEW ts \in SUBSET refs[h], Released(ts),
           refs' \in [Handles -> SUBSET Tables], refs'[h] = refs[h] \ ts,
           \A g \in Handles \ {h} : refs'[g] = refs[g],
           UNCHANGED <<filted, migratings, hints, rows>>
    PROVE  /\ LifeOfInfo' /\ DOMAIN referenceds' \subseteq DOMAIN referenceds
           /\ dumpster' \subseteq Tables
           /\ referenceds' \in [DOMAIN referenceds' -> 0..Cardinality(Handles)]
<1> DEFINE count(t) == Cardinality(Holders(refs, t))
           less == [t \in DOMAIN referenceds |->
                      referenceds[t] - (IF t \in ts THEN 1 ELSE 0)]
           over == {t \in ts : less[t] = 0 /\ t \notin migratings}
<1>1. /\ refs \in [Handles -> SUBSET Tables] /\ refs[h] \in SUBSET Tables
      /\ refs[h] \ ts \in SUBSET Tables
      /\ DOMAIN referenceds \subseteq Tables
      /\ \A t \in DOMAIN referenceds : referenceds[t] \in Nat
  BY FS_CardinalityType, MigrationConstants DEF IInv, TypeOK
<1>2. /\ \A t \in DOMAIN referenceds : referenceds[t] = count(t)
      /\ \A g \in Handles : refs[g] \subseteq DOMAIN referenceds
  BY DEF IInv, LifeOfInfo, Holders
<1>3. \A t \in Tables :
        /\ Cardinality(Holders(refs', t)) = count(t) - (IF t \in ts THEN 1 ELSE 0)
        /\ Cardinality(Holders(refs', t)) \in 0..Cardinality(Handles)
        /\ Cardinality(Holders(refs', t)) = 0 <=> \A g \in Handles : t \notin refs'[g]
  <2> SUFFICES ASSUME NEW t \in Tables
               PROVE  /\ Cardinality(Holders(refs', t)) = count(t) - (IF t \in ts THEN 1 ELSE 0)
                      /\ Cardinality(Holders(refs', t)) \in 0..Cardinality(Handles)
                      /\ Cardinality(Holders(refs', t)) = 0
                           <=> \A g \in Handles : t \notin refs'[g]
    OBVIOUS
  <2>1. refs \in [Handles -> SUBSET Tables] BY <1>1
  <2>2. Cardinality(Holders(refs', t))
          = Cardinality(Holders(refs, t)) + (IF t \in refs'[h] THEN 1 ELSE 0)
                                          - (IF t \in refs[h] THEN 1 ELSE 0)
    BY <2>1, Holding
  <2>3. /\ Cardinality(Holders(refs', t)) \in 0..Cardinality(Handles)
        /\ Cardinality(Holders(refs', t)) = 0 <=> \A g \in Handles : t \notin refs'[g]
    BY Counting
  <2>4. count(t) \in 0..Cardinality(Handles) BY <2>1, Counting
  <2>5. QED BY <2>2, <2>3, <2>4
<1>4. /\ referenceds' = [t \in DOMAIN referenceds \ over |-> less[t]]
      /\ dumpster' = dumpster \cup over
      /\ DOMAIN referenceds' = DOMAIN referenceds \ over
  BY DEF Released, Without
<1>5. \A t \in DOMAIN referenceds' : referenceds'[t] = Cardinality(Holders(refs', t))
  BY <1>1, <1>2, <1>3, <1>4
<1>6. over \subseteq DOMAIN referenceds BY <1>2
<1>7. \A t \in over : Cardinality(Holders(refs', t)) = 0
  BY <1>1, <1>2, <1>3, <1>6
<1>8. \A g \in Handles : refs'[g] \subseteq DOMAIN referenceds'
  <2>1. \A g \in Handles : refs'[g] \subseteq refs[g] BY <1>1
  <2>2. QED BY <1>1, <1>2, <1>3, <1>4, <1>6, <1>7, <2>1
<1>9. \A t \in DOMAIN referenceds' : t \notin migratings => referenceds'[t] > 0
  <2> SUFFICES ASSUME NEW t \in DOMAIN referenceds', t \notin migratings
               PROVE  referenceds'[t] > 0
    OBVIOUS
  <2>1. referenceds'[t] = less[t] /\ t \in Tables BY <1>1, <1>4
  <2>2. less[t] \in Nat
    <3>1. less[t] = Cardinality(Holders(refs', t)) BY <1>5, <2>1
    <3>2. Cardinality(Holders(refs', t)) \in 0..Cardinality(Handles) BY <1>3, <2>1
    <3>3. QED BY <3>1, <3>2
  <2>3. CASE t \in ts
    <3>1. less[t] # 0 BY <1>4, <2>3
    <3> HIDE DEF less
    <3>2. QED BY <2>1, <2>2, <3>1
  <2>4. CASE t \notin ts
    <3>1. t \in DOMAIN referenceds /\ referenceds[t] \in Nat BY <1>1, <1>4
    <3>2. less[t] = referenceds[t] BY <2>4, <3>1
    <3>3. referenceds[t] > 0 BY <3>1, Zenon DEF IInv, LifeOfInfo
    <3>4. QED BY <2>1, <3>2, <3>3
  <2>5. QED BY <2>3, <2>4
<1>10. migratings' \subseteq DOMAIN referenceds'
  BY <1>4 DEF IInv, LifeOfInfo
<1>11. dumpster' \cap DOMAIN referenceds' = {} BY <1>4 DEF IInv, LifeOfInfo
<1>12. \A t \in DOMAIN referenceds' \cup dumpster' : filted'[t] = "info"
  BY <1>4, <1>6 DEF IInv, LifeOfInfo
<1> HIDE DEF count, less, over
<1>13. LifeOfInfo'
  BY <1>5, <1>8, <1>9, <1>10, <1>11, <1>12 DEF IInv, LifeOfInfo, Holders
<1>14. \A t \in DOMAIN referenceds' : referenceds'[t] \in 0..Cardinality(Handles)
  <2>1. \A t \in DOMAIN referenceds' : t \in Tables BY <1>1, <1>4
  <2>2. QED BY <1>3, <1>5, <2>1
<1>15. QED BY <1>1, <1>4, <1>6, <1>13, <1>14 DEF IInv, TypeOK

-----------------------------------------------------------------------------
\* initInfo, by a handle or by a stepper.
LEMMA InitSteps == ASSUME IInv, NEW a \in Actors, InitStep(a) PROVE IInv'
<1>1. /\ TypeOK /\ Walk(a) /\ tab[a] \in Tables
      /\ goal[a] \in {"use", "create", "acquire"}
  BY DEF IInv, TypeOK
<1>2. Back(a) \in {"get", "execute", "acquire"} /\ (Back(a) = "get" => goal[a] = "use")
  BY <1>1 DEF Back
<1>3. a \in Handles => Binding(a) BY DEF IInv
<1>4. CASE LookSource(a)
  <2>1. TypeOK' BY <1>1, <1>4 DEF LookSource, TypeOK, Goto, infos, tables, Places
  <2>2. \A b \in Actors \ {a} : pc'[b] = pc[b] /\ tab'[b] = tab[b]
                                 /\ seen'[b] = seen[b] /\ goal'[b] = goal[b]
    BY <1>1, <1>4 DEF LookSource, TypeOK, Goto
  <2>3. Walk(a)' /\ (a \in Handles => Binding(a)')
    BY <1>1, <1>3, <1>4, SMTT(30) DEF LookSource, TypeOK, Goto, infos, tables, Walk, Binding, Rebinds
  <2>4. QED BY <1>4, <2>1, <2>2, <2>3, Moves DEF LookSource, infos
<1>5. CASE LookTarget(a)
  <2>1. TypeOK' BY <1>1, <1>5 DEF LookTarget, TypeOK, Goto, infos, tables, Places
  <2>2. \A b \in Actors \ {a} : pc'[b] = pc[b] /\ tab'[b] = tab[b]
                                 /\ seen'[b] = seen[b] /\ goal'[b] = goal[b]
    BY <1>1, <1>5 DEF LookTarget, TypeOK, Goto
  <2>3. Walk(a)' /\ (a \in Handles => Binding(a)')
    BY <1>1, <1>3, <1>5, Zenon DEF LookTarget, TypeOK, Goto, infos, tables, Walk, Binding, Rebinds
  <2>4. QED BY <1>5, <2>1, <2>2, <2>3, Moves DEF LookTarget, infos
<1>6. CASE MarkAsNoNeedToMigrate(a)
  <2>1. TypeOK'
    BY <1>1, <1>2, <1>6 DEF MarkAsNoNeedToMigrate, TypeOK, Goto, tables, Places
  <2>2. /\ \A t \in Tables : filted'[t] = "info" <=> filted[t] = "info"
        /\ \A t \in Tables : filted'[t] = "unknown" <=> filted[t] = "unknown" /\ t # tab[a]
    BY <1>1, <1>6 DEF MarkAsNoNeedToMigrate, TypeOK
  <2>3. LifeOfInfo' /\ Sources'
    BY <1>1, <1>6, <2>2 DEF MarkAsNoNeedToMigrate, IInv, TypeOK, LifeOfInfo, Sources, tables
  <2>4. \A b \in Actors : Walk(b)'
    BY <1>1, <1>2, <1>6, <2>2 DEF MarkAsNoNeedToMigrate, IInv, TypeOK, Walk, tables, Goto
  <2>5. \A h \in Handles : Binding(h)'
    BY <1>1, <1>2, <1>6, <2>2
    DEF MarkAsNoNeedToMigrate, IInv, TypeOK, Binding, Rebinds, tables, Goto, Actors
  <2>6. QED BY <1>6, <2>1, <2>3, <2>4, <2>5 DEF IInv, MarkAsNoNeedToMigrate
<1>7. CASE MarkInfo(a)
  <2> DEFINE t == tab[a]
  <2>1. CASE filted[t] # "unknown"
    <3>1. UNCHANGED infos BY <1>7, <2>1 DEF MarkInfo
    <3>2. TypeOK' BY <1>1, <1>2, <1>7, <3>1 DEF MarkInfo, TypeOK, Goto, infos, tables, Places
    <3>3. \A b \in Actors \ {a} : pc'[b] = pc[b] /\ tab'[b] = tab[b]
                                   /\ seen'[b] = seen[b] /\ goal'[b] = goal[b]
      BY <1>1, <1>7 DEF MarkInfo, TypeOK, Goto
    <3>4. Walk(a)' /\ (a \in Handles => Binding(a)')
      BY <1>1, <1>2, <1>3, <1>7, <3>1
      DEF MarkInfo, TypeOK, Goto, infos, tables, Walk, Binding, Rebinds
    <3>5. QED BY <1>7, <3>1, <3>2, <3>3, <3>4, Moves DEF MarkInfo, infos
  <2>2. CASE filted[t] = "unknown" /\ ~seen[a]
    <3>1. TypeOK' BY <1>1, <1>2, <1>7, <2>2, Zenon DEF MarkInfo, TypeOK, Goto, infos, tables, Places
    <3>2. LifeOfInfo' /\ Sources'
      BY <1>1, <1>7, <2>2 DEF MarkInfo, IInv, LifeOfInfo, Sources, infos, tables
    <3>3. \A b \in Actors : Walk(b)'
      BY <1>1, <1>2, <1>7, <2>2 DEF MarkInfo, IInv, TypeOK, Walk, infos, tables, Goto
    <3>4. \A h \in Handles : Binding(h)'
      BY <1>1, <1>2, <1>7, <2>2
      DEF MarkInfo, IInv, TypeOK, Binding, Rebinds, infos, tables, Goto, Actors
    <3>5. QED BY <1>7, <3>1, <3>2, <3>3, <3>4 DEF IInv, MarkInfo
  <2>3. CASE filted[t] = "unknown" /\ seen[a]
    <3>1. /\ migratings' = migratings \cup {t} /\ UNCHANGED <<dumpster, refs, bound, acquired>>
          /\ referenceds' = [u \in DOMAIN referenceds \cup {t} |->
                               IF u = t THEN 0 ELSE referenceds[u]]
          /\ filted' = [filted EXCEPT ![t] = "info"] /\ hints' = hints \ {t}
          /\ pc' = [pc EXCEPT ![a] = Back(a)] /\ UNCHANGED <<setup, tables, tab, seen, goal, todo>>
          /\ pc[a] = "mark" /\ migrated' = FALSE
      BY <1>7, <2>3 DEF MarkInfo, Goto
    <3>2. /\ t \in sources /\ t \in targets
          /\ t \notin DOMAIN referenceds /\ t \notin dumpster
          /\ \A h \in Handles : t \notin refs[h] /\ t \notin bound[h]
      BY <1>1, <2>3, <3>1 DEF IInv, Walk, LifeOfInfo, Binding
    <3>3. TypeOK'
      <4>1. 0 \in 0..Cardinality(Handles)
        BY MigrationConstants, FS_CardinalityType
      <4>2. /\ DOMAIN referenceds' \subseteq Tables
            /\ referenceds' \in [DOMAIN referenceds' -> 0..Cardinality(Handles)]
        BY <1>1, <3>1, <4>1 DEF TypeOK
      <4>3. QED BY <1>1, <1>2, <3>1, <4>2, Zenon DEF TypeOK, Places, tables
    <3>4. LifeOfInfo' /\ Sources'
      <4>1. Cardinality(Holders(refs, t)) = 0
        BY <3>2, FS_EmptySet, Zenon DEF Holders
      <4>2. \A u \in DOMAIN referenceds :
               /\ referenceds[u] = Cardinality(Holders(refs, u))
               /\ u \notin migratings => referenceds[u] > 0
        BY DEF IInv, LifeOfInfo, Holders
      <4>3. \A u \in DOMAIN referenceds' :
               /\ referenceds'[u] = Cardinality(Holders(refs, u))
               /\ u \notin migratings' => referenceds'[u] > 0
        BY <3>1, <4>1, <4>2
      <4>4. \A u \in Tables : filted'[u] = IF u = t THEN "info" ELSE filted[u]
        BY <1>1, <3>1 DEF TypeOK
      <4>5. \A u \in DOMAIN referenceds' \cup dumpster' : filted'[u] = "info"
        BY <1>1, <3>1, <4>4 DEF IInv, LifeOfInfo, TypeOK
      <4>6. \A u \in hints' : filted'[u] = "unknown"
        BY <1>1, <3>1, <4>4 DEF IInv, LifeOfInfo, TypeOK
      <4>7. LifeOfInfo'
        <5>1. \A u \in Tables : filted'[u] = "info" /\ u \notin migratings' => rows'[u] = 0
          BY <3>1, <4>4 DEF IInv, LifeOfInfo, tables
        <5>2. /\ migratings' \subseteq DOMAIN referenceds'
              /\ dumpster' \cap DOMAIN referenceds' = {}
              /\ \A h \in Handles : refs'[h] \subseteq DOMAIN referenceds'
          BY <3>1, <3>2 DEF IInv, LifeOfInfo
        <5>3. \A u \in DOMAIN referenceds' :
                 /\ referenceds'[u] = Cardinality({h \in Handles : u \in refs'[h]})
                 /\ u \notin migratings' => referenceds'[u] > 0
          BY <3>1, <4>3, ZenonT(30) DEF Holders
        <5>4. QED BY <4>5, <4>6, <5>1, <5>2, <5>3, SMTT(30) DEF LifeOfInfo
      <4>8. Sources' BY <1>1, <3>1, <3>2, <4>4 DEF IInv, Sources, tables
      <4>9. QED BY <4>7, <4>8
    <3>5. \A b \in Actors : Walk(b)'
      <4> SUFFICES ASSUME NEW b \in Actors PROVE Walk(b)' OBVIOUS
      <4>1. Walk(b) /\ tab[b] \in Tables BY DEF IInv, TypeOK
      <4>2. filted'[tab[b]] = IF tab[b] = t THEN "info" ELSE filted[tab[b]]
        BY <1>1, <3>1, <4>1 DEF TypeOK
      <4>3. pc'[b] = IF b = a THEN Back(a) ELSE pc[b] BY <1>1, <3>1 DEF TypeOK
      <4>4. filted[tab[b]] = "info" => tab[b] # t BY <2>3
      <4>5. DOMAIN referenceds' = DOMAIN referenceds \cup {t} BY <3>1
      <4> HIDE DEF t
      <4>6. QED BY <1>2, <3>1, <4>1, <4>2, <4>3, <4>4, <4>5 DEF Walk, tables
    <3>6. \A h \in Handles : Binding(h)'
      BY <1>1, <1>2, <3>1, <3>2 DEF IInv, TypeOK, Binding, Rebinds, tables, Actors
    <3>7. QED BY <3>1, <3>3, <3>4, <3>5, <3>6 DEF IInv
  <2>4. QED BY <1>7, <2>1, <2>2, <2>3 DEF MarkInfo
<1>8. QED BY <1>4, <1>5, <1>6, <1>7 DEF InitStep

-----------------------------------------------------------------------------
\* What the references of a handle cannot change in the rest of the state.
LEMMA References ==
    ASSUME IInv, NEW h \in Handles, LifeOfInfo',
           DOMAIN referenceds' \subseteq DOMAIN referenceds, dumpster' \subseteq Tables,
           referenceds' \in [DOMAIN referenceds' -> 0..Cardinality(Handles)],
           refs' \in [Handles -> SUBSET Tables], bound' \in [Handles -> SUBSET Tables],
           pc' = [pc EXCEPT ![h] = "idle"],
           \A g \in Handles \ {h} : refs'[g] = refs[g] /\ bound'[g] = bound[g],
           \A t \in bound'[h] : filted[t] = "info",
           Rebinds \/ bound'[h] \subseteq refs'[h],
           UNCHANGED <<setup, filted, migratings, hints, acquired, migrated, tables,
                       tab, seen, goal, todo>>
    PROVE  IInv'
<1>1. TypeOK' BY DEF IInv, TypeOK, tables, Places, Actors
<1>2. Sources' BY DEF IInv, Sources, tables
<1>3. \A b \in Actors : pc'[b] = IF b = h THEN "idle" ELSE pc[b] BY DEF IInv, TypeOK
<1>4. \A b \in Actors : Walk(b)' BY <1>3 DEF IInv, Walk, tables
<1>5. \A g \in Handles : Binding(g)' BY <1>3 DEF IInv, Binding, Rebinds, Actors
<1>6. QED BY <1>1, <1>2, <1>4, <1>5 DEF IInv

\* getInfo and bindTable.
LEMMA GettingInfo ==
    ASSUME IInv, NEW h \in Handles, NEW t \in Tables, Rebinds \/ t \notin bound[h],
           GetInfo(h, t), pc' = [pc EXCEPT ![h] = "idle"],
           UNCHANGED <<setup, filted, migratings, hints, acquired, migrated, tables,
                       tab, seen, goal, todo>>
    PROVE  IInv'
<1>1. /\ refs \in [Handles -> SUBSET Tables] /\ bound \in [Handles -> SUBSET Tables]
      /\ DOMAIN referenceds \subseteq Tables /\ dumpster \subseteq Tables
      /\ referenceds \in [DOMAIN referenceds -> 0..Cardinality(Handles)]
      /\ LifeOfInfo /\ Binding(h)
  BY DEF IInv, TypeOK
<1>2. CASE t \in migratings
  <2>1. /\ t \in DOMAIN referenceds /\ filted[t] = "info"
    BY <1>2 DEF IInv, LifeOfInfo
  <2>2. /\ referenceds' = IF t \in refs[h] THEN referenceds ELSE Plus(referenceds, t, 1)
        /\ refs' = [refs EXCEPT ![h] = @ \cup {t}]
        /\ bound' = [bound EXCEPT ![h] = @ \cup {t}]
        /\ UNCHANGED dumpster
    BY <1>2, <2>1 DEF GetInfo
  <2>3. DOMAIN referenceds' = DOMAIN referenceds BY <1>1, <2>2 DEF Plus
  <2>4. /\ refs' \in [Handles -> SUBSET Tables] /\ refs'[h] = refs[h] \cup {t}
        /\ \A g \in Handles \ {h} : refs'[g] = refs[g]
    BY <1>1, <2>2
  <2>5. refs \in [Handles -> SUBSET Tables] BY <1>1
  <2>6. \A u \in DOMAIN referenceds' :
          /\ referenceds'[u] = Cardinality(Holders(refs', u))
          /\ referenceds'[u] \in 0..Cardinality(Handles)
          /\ referenceds'[u] >= referenceds[u]
    <3> SUFFICES ASSUME NEW u \in DOMAIN referenceds'
                 PROVE  /\ referenceds'[u] = Cardinality(Holders(refs', u))
                        /\ referenceds'[u] \in 0..Cardinality(Handles)
                        /\ referenceds'[u] >= referenceds[u]
      OBVIOUS
    <3>1. u \in DOMAIN referenceds /\ u \in Tables BY <1>1, <2>3
    <3>2. Cardinality(Holders(refs', u))
            = Cardinality(Holders(refs, u)) + (IF u \in refs'[h] THEN 1 ELSE 0)
                                            - (IF u \in refs[h] THEN 1 ELSE 0)
      BY <2>4, <2>5, <3>1, Holding
    <3>3. /\ Cardinality(Holders(refs, u)) \in 0..Cardinality(Handles)
          /\ Cardinality(Holders(refs', u)) \in 0..Cardinality(Handles)
      BY <2>4, <2>5, <3>1, Counting
    <3>4. referenceds[u] = Cardinality(Holders(refs, u))
      BY <1>1, <3>1 DEF LifeOfInfo, Holders
    <3>5. referenceds'[u] = referenceds[u] + (IF u = t /\ t \notin refs[h] THEN 1 ELSE 0)
      BY <1>1, <2>2, <3>1, <3>3, <3>4 DEF Plus
    <3>6. u \in refs'[h] <=> u \in refs[h] \/ u = t BY <2>4
    <3>7. QED BY <3>2, <3>3, <3>4, <3>5, <3>6, SMTT(30)
  <2>7. referenceds' \in [DOMAIN referenceds' -> 0..Cardinality(Handles)]
    BY <1>1, <2>2, <2>6, Zenon DEF Plus
  <2>8. LifeOfInfo'
    <3>1. \A u \in DOMAIN referenceds' : u \notin migratings' => referenceds'[u] > 0
      <4>1. \A u \in DOMAIN referenceds' : u \notin migratings' =>
               referenceds[u] > 0 /\ referenceds[u] \in 0..Cardinality(Handles)
        BY <1>1, <2>3, Zenon DEF LifeOfInfo
      <4>2. QED BY <2>6, <4>1
    <3>2. /\ migratings' \subseteq DOMAIN referenceds'
          /\ dumpster' \cap DOMAIN referenceds' = {}
          /\ \A u \in DOMAIN referenceds' \cup dumpster' : filted'[u] = "info"
      BY <1>1, <2>2, <2>3 DEF LifeOfInfo
    <3>3. \A g \in Handles : refs'[g] \subseteq DOMAIN referenceds'
      BY <1>1, <2>1, <2>3, <2>4 DEF LifeOfInfo
    <3>4. /\ \A u \in hints' : filted'[u] = "unknown"
          /\ \A u \in Tables : filted'[u] = "info" /\ u \notin migratings' => rows'[u] = 0
      BY <1>1 DEF LifeOfInfo, tables
    <3>5. QED BY <2>6, <3>1, <3>2, <3>3, <3>4 DEF LifeOfInfo, Holders
  <2>9. /\ bound' \in [Handles -> SUBSET Tables]
        /\ \A g \in Handles \ {h} : refs'[g] = refs[g] /\ bound'[g] = bound[g]
        /\ \A u \in bound'[h] : filted[u] = "info"
        /\ Rebinds \/ bound'[h] \subseteq refs'[h]
    BY <1>1, <2>1, <2>2 DEF Binding
  <2>10. QED BY <1>1, <2>2, <2>3, <2>4, <2>7, <2>8, <2>9, References, Zenon
<1>3. CASE t \notin migratings /\ filted[t] # "unknown"
  <2>1. /\ Released({t} \cap refs[h])
        /\ refs' = [refs EXCEPT ![h] = @ \ {t}] /\ UNCHANGED bound
    BY <1>3 DEF GetInfo
  <2>2. /\ refs' \in [Handles -> SUBSET Tables]
        /\ refs'[h] = refs[h] \ ({t} \cap refs[h])
        /\ \A g \in Handles \ {h} : refs'[g] = refs[g]
    BY <1>1, <2>1
  <2>3. {t} \cap refs[h] \in SUBSET refs[h] OBVIOUS
  <2>4. /\ LifeOfInfo' /\ DOMAIN referenceds' \subseteq DOMAIN referenceds
        /\ dumpster' \subseteq Tables
        /\ referenceds' \in [DOMAIN referenceds' -> 0..Cardinality(Handles)]
    BY <2>1, <2>2, <2>3, Releasing DEF tables
  <2>5. /\ refs' \in [Handles -> SUBSET Tables]
        /\ \A g \in Handles \ {h} : refs'[g] = refs[g] /\ bound'[g] = bound[g]
        /\ \A u \in bound'[h] : filted[u] = "info"
        /\ Rebinds \/ bound'[h] \subseteq refs'[h]
    BY <1>1, <2>1 DEF Binding
  <2>6. QED BY <1>1, <2>1, <2>4, <2>5, References, Zenon
<1>4. CASE filted[t] = "unknown"
  <2>1. t \notin migratings BY <1>1, <1>4 DEF LifeOfInfo
  <2>2. UNCHANGED <<referenceds, dumpster, refs, bound>> BY <1>4, <2>1 DEF GetInfo
  <2>3. LifeOfInfo' BY <1>1, <2>2, SMTT(30) DEF LifeOfInfo, tables
  <2>4. Rebinds \/ bound'[h] \subseteq refs'[h] BY <1>1, <2>2 DEF Binding
  <2>5. \A u \in bound'[h] : filted[u] = "info" BY <1>1, <2>2, SMTT(30) DEF Binding
  <2>6. QED BY <1>1, <2>2, <2>3, <2>4, <2>5, References, Zenon
<1>5. QED BY <1>2, <1>3, <1>4 DEF GetInfo

-----------------------------------------------------------------------------
LEMMA HandleSteps == ASSUME IInv, NEW h \in Handles, HandleStep(h) PROVE IInv'
<1>1. h \in Actors /\ TypeOK /\ Walk(h) /\ Binding(h) /\ LifeOfInfo /\ Sources
  BY DEF IInv, Actors
<1>2. CASE InitStep(h) BY <1>1, <1>2, InitSteps, SMTT(30)
<1>3. ASSUME NEW t \in Tables, NEW why \in {"use", "create"}, InitInfo(h, t, why),
             why = "use" => Rebinds \/ t \notin bound[h],
             UNCHANGED <<setup, infos, tables, seen, todo, refs, bound>>
      PROVE  IInv'
  <2>1. TypeOK' BY <1>1, <1>3 DEF InitInfo, TypeOK, Goto, infos, tables, Places
  <2>2. \A b \in Actors \ {h} : pc'[b] = pc[b] /\ tab'[b] = tab[b]
                                 /\ seen'[b] = seen[b] /\ goal'[b] = goal[b]
    BY <1>1, <1>3 DEF InitInfo, TypeOK, Goto
  <2>3. Walk(h)' BY <1>1, <1>3 DEF InitInfo, TypeOK, Goto, infos, tables, Walk
  <2>4. Binding(h)' BY <1>1, <1>3 DEF InitInfo, TypeOK, Goto, infos, Binding, Rebinds
  <2>5. QED BY <1>1, <1>3, <2>1, <2>2, <2>3, <2>4, Moves, SMTT(30) DEF infos
<1>4. ASSUME NEW t \in Tables, Prepare(h, t) PROVE IInv'
  <2>1. CASE filted[t] = "unknown"
    <3>1. /\ InitInfo(h, t, "use") /\ (Rebinds \/ t \notin bound[h])
          /\ UNCHANGED <<setup, infos, tables, seen, todo, refs, bound>>
      BY <1>4, <2>1, Zenon DEF Prepare, infos
    <3>2. QED BY <1>3, <3>1, SMTT(30)
  <2>2. CASE filted[t] # "unknown"
    <3>1. /\ GetInfo(h, t) /\ pc[h] = "idle" /\ pc' = pc /\ (Rebinds \/ t \notin bound[h])
          /\ UNCHANGED <<setup, filted, migratings, hints, acquired, migrated, tables,
                         tab, seen, goal, todo>>
      BY <1>4, <2>2, Zenon DEF Prepare
    <3>2. pc' = [pc EXCEPT ![h] = "idle"] BY <1>1, <3>1 DEF TypeOK
    <3>3. QED BY <3>1, <3>2, GettingInfo, ZenonT(30)
  <2>3. QED BY <2>1, <2>2, SMTT(30)
<1>5. CASE Get(h)
  <2>1. /\ GetInfo(h, tab[h]) /\ pc[h] = "get" /\ pc' = [pc EXCEPT ![h] = "idle"]
        /\ UNCHANGED <<setup, filted, migratings, hints, acquired, migrated, tables,
                       tab, seen, goal, todo>>
    BY <1>5 DEF Get, Goto
  <2>2. tab[h] \in Tables /\ (Rebinds \/ tab[h] \notin bound[h])
    BY <1>1, <2>1 DEF TypeOK, Binding
  <2>3. QED BY <2>1, <2>2, GettingInfo, ZenonT(30)
<1>6. ASSUME NEW t \in Tables, PrepareCreate(h, t) PROVE IInv'
  BY <1>3, <1>6 DEF PrepareCreate
<1>7. CASE ExecuteCreate(h)
  <2>1. TypeOK' BY <1>1, <1>7 DEF ExecuteCreate, TypeOK, Goto, infos, Places
  <2>2. \A b \in Actors : pc'[b] = IF b = h THEN "idle" ELSE pc[b]
    BY <1>1, <1>7 DEF ExecuteCreate, TypeOK, Goto
  <2>3. targets \subseteq targets' BY <1>7, SMTT(30) DEF ExecuteCreate
  <2>4. LifeOfInfo' /\ Sources'
    BY <1>1, <1>7, <2>3, SMTT(30) DEF ExecuteCreate, LifeOfInfo, Sources, infos
  <2>5. \A b \in Actors : Walk(b)'
    BY <1>7, <2>2, <2>3, SMTT(30) DEF IInv, ExecuteCreate, Walk, infos
  <2>6. \A g \in Handles : Binding(g)'
    BY <1>7, <2>2 DEF IInv, ExecuteCreate, Binding, Rebinds, infos, Actors
  <2>7. QED BY <1>7, <2>1, <2>4, <2>5, <2>6 DEF IInv, ExecuteCreate
<1>8. ASSUME NEW t \in Tables, DropTable(h, t) PROVE IInv'
  <2>1. filted[t] # "unknown" BY <1>1, <1>8, SMTT(30) DEF DropTable, Binding
  <2>2. \/ rows' = [rows EXCEPT ![t] = 0]
        \/ rows' = rows /\ (filted[t] = "info" => rows[t] = 0)
    BY <1>1, <1>8 DEF DropTable, LifeOfInfo
  <2>3. /\ TypeOK'
        /\ \A u \in Tables : rows[u] = 0 => rows'[u] = 0
        /\ filted[t] = "info" => rows'[t] = 0
    BY <1>1, <1>8, <2>2, MigrationConstants, SMTT(30) DEF DropTable, TypeOK, infos
  <2>4. LifeOfInfo' /\ Sources'
    BY <1>1, <1>8, <2>3, SMTT(30) DEF DropTable, LifeOfInfo, Sources, infos
  <2>5. \A b \in Actors : Walk(b)'
    BY <1>8, <2>1, <2>3, SMTT(30) DEF IInv, TypeOK, DropTable, Walk, infos
  <2>6. \A g \in Handles : Binding(g)'
    BY <1>8 DEF IInv, DropTable, Binding, Rebinds, infos
  <2>7. QED BY <1>8, <2>3, <2>4, <2>5, <2>6 DEF IInv, DropTable
<1>9. CASE FinalizeStatements(h)
  <2>1. /\ Released(refs[h]) /\ refs' = [refs EXCEPT ![h] = {}]
        /\ bound' = [bound EXCEPT ![h] = {}] /\ pc[h] = "idle" /\ pc' = pc
        /\ UNCHANGED <<setup, filted, migratings, hints, acquired, migrated, tables,
                       tab, seen, goal, todo>>
    BY <1>9 DEF FinalizeStatements
  <2>2. /\ refs' \in [Handles -> SUBSET Tables] /\ refs'[h] = refs[h] \ refs[h]
        /\ \A g \in Handles \ {h} : refs'[g] = refs[g]
    BY <1>1, <2>1 DEF TypeOK
  <2>3. /\ LifeOfInfo' /\ DOMAIN referenceds' \subseteq DOMAIN referenceds
        /\ dumpster' \subseteq Tables
        /\ referenceds' \in [DOMAIN referenceds' -> 0..Cardinality(Handles)]
    BY <2>1, <2>2, Releasing DEF tables
  <2>4. /\ refs' \in [Handles -> SUBSET Tables] /\ bound' \in [Handles -> SUBSET Tables]
        /\ pc' = [pc EXCEPT ![h] = "idle"] /\ bound'[h] = {}
        /\ \A g \in Handles \ {h} : refs'[g] = refs[g] /\ bound'[g] = bound[g]
    BY <1>1, <2>1 DEF TypeOK
  <2>5. QED BY <2>1, <2>3, <2>4, References, Zenon
<1>10. QED BY <1>2, <1>4, <1>5, <1>6, <1>7, <1>8, <1>9 DEF HandleStep

-----------------------------------------------------------------------------
\* A stepper goes on to another place, perhaps with another table.
LEMMA StepperMoves ==
    ASSUME IInv, NEW s \in Steppers, TypeOK', Walk(s)',
           UNCHANGED <<setup, filted, migratings, dumpster, hints, referenceds,
                       tables, refs, bound>>,
           \A b \in Actors \ {s} : /\ pc'[b] = pc[b] /\ tab'[b] = tab[b]
                                   /\ seen'[b] = seen[b] /\ goal'[b] = goal[b]
    PROVE  IInv'
<1>1. s \in Actors /\ s \notin Handles BY MigrationConstants, SMTT(30) DEF Actors
<1>2. QED BY <1>1, Moves

LEMMA StepperSteps == ASSUME IInv, NEW s \in Steppers, StepperStep(s) PROVE IInv'
<1>1. /\ s \in Actors /\ TypeOK /\ Walk(s) /\ LifeOfInfo /\ Sources
      /\ tab[s] \in Tables /\ s \notin Handles
      /\ \A b \in Actors : tab[b] \in Tables
  BY MigrationConstants DEF IInv, Actors, TypeOK
<1>2. CASE InitStep(s) BY <1>1, <1>2, InitSteps
<1>3. CASE \/ TryDropUnreferencedTable(s) \/ TryMigrateRows(s) \/ TableExists(s)
           \/ TryAcquireTables(s) \/ AcquireTable(s) \/ AcquiredTables(s)
           \/ CheckMigrated(s) \/ DidMigrate(s)
  <2>1. CASE TryDropUnreferencedTable(s)
    <3>1. TypeOK'
      BY <1>1, <2>1, SMTT(30) DEF TryDropUnreferencedTable, TypeOK, Goto, infos, tables, others, Places
    <3>2. Walk(s)'
      BY <1>1, <2>1
      DEF TryDropUnreferencedTable, TypeOK, LifeOfInfo, Goto, infos, tables, others, Walk
    <3>3. \A b \in Actors \ {s} : pc'[b] = pc[b] /\ tab'[b] = tab[b]
      BY <1>1, <2>1 DEF TryDropUnreferencedTable, TypeOK, Goto
    <3>4. QED
      BY <2>1, <3>1, <3>2, <3>3, StepperMoves DEF TryDropUnreferencedTable, infos, others
  <2>2. CASE TryMigrateRows(s)
    <3>1. TypeOK' BY <1>1, <2>2, SMTT(30) DEF TryMigrateRows, TypeOK, Goto, infos, tables, others, Places
    <3>2. Walk(s)'
      BY <1>1, <2>2 DEF TryMigrateRows, TypeOK, LifeOfInfo, Goto, infos, tables, others, Walk
    <3>3. \A b \in Actors \ {s} : pc'[b] = pc[b] /\ tab'[b] = tab[b]
      BY <1>1, <2>2, SMTT(30) DEF TryMigrateRows, TypeOK, Goto
    <3>4. QED BY <2>2, <3>1, <3>2, <3>3, StepperMoves, SMTT(30) DEF TryMigrateRows, infos, others
  <2>3. CASE TableExists(s)
    <3>1. TypeOK' BY <1>1, <2>3 DEF TableExists, TypeOK, Goto, infos, tables, others, Places
    <3>2. Walk(s)'
      BY <1>1, <2>3 DEF TableExists, TypeOK, Sources, Goto, infos, tables, others, Walk
    <3>3. \A b \in Actors \ {s} : pc'[b] = pc[b] /\ tab'[b] = tab[b]
      BY <1>1, <2>3, SMTT(30) DEF TableExists, TypeOK, Goto
    <3>4. QED BY <2>3, <3>1, <3>2, <3>3, StepperMoves, Zenon DEF TableExists, infos, others
  <2>4. CASE TryAcquireTables(s)
    <3>1. TypeOK' BY <1>1, <2>4, SMTT(30) DEF TryAcquireTables, TypeOK, Goto, infos, tables, others, Places
    <3>2. Walk(s)' BY <1>1, <2>4 DEF TryAcquireTables, TypeOK, Goto, Walk
    <3>3. \A b \in Actors \ {s} : pc'[b] = pc[b] /\ tab'[b] = tab[b]
      BY <1>1, <2>4 DEF TryAcquireTables, TypeOK, Goto
    <3>4. QED BY <2>4, <3>1, <3>2, <3>3, StepperMoves, Zenon DEF TryAcquireTables, infos, others
  <2>5. CASE AcquireTable(s)
    <3>1. TypeOK' BY <1>1, <2>5 DEF AcquireTable, InitInfo, TypeOK, Goto, infos, tables, Places
    <3>2. Walk(s)' BY <1>1, <2>5 DEF AcquireTable, InitInfo, TypeOK, Goto, Walk
    <3>3. \A b \in Actors \ {s} : pc'[b] = pc[b] /\ tab'[b] = tab[b] /\ goal'[b] = goal[b]
      BY <1>1, <2>5, SMTT(30) DEF AcquireTable, InitInfo, TypeOK, Goto
    <3>4. QED BY <2>5, <3>1, <3>2, <3>3, StepperMoves, Zenon DEF AcquireTable, infos
  <2>6. CASE AcquiredTables(s) \/ DidMigrate(s)
    <3>1. TypeOK'
      BY <1>1, <2>6, Zenon DEF AcquiredTables, DidMigrate, TypeOK, Goto, tables, others, Places
    <3>2. Walk(s)' BY <1>1, <2>6 DEF AcquiredTables, DidMigrate, TypeOK, Goto, Walk
    <3>3. \A b \in Actors \ {s} : pc'[b] = pc[b] /\ tab'[b] = tab[b]
      BY <1>1, <2>6, SMTT(30) DEF AcquiredTables, DidMigrate, TypeOK, Goto
    <3>4. QED
      BY <2>6, <3>1, <3>2, <3>3, StepperMoves, Zenon DEF AcquiredTables, DidMigrate, others
  <2>7. CASE CheckMigrated(s)
    <3>1. TypeOK' BY <1>1, <2>7 DEF CheckMigrated, TypeOK, Goto, infos, tables, others, Places
    <3>2. Walk(s)' BY <1>1, <2>7 DEF CheckMigrated, TypeOK, Goto, Walk
    <3>3. \A b \in Actors \ {s} : pc'[b] = pc[b] /\ tab'[b] = tab[b]
      BY <1>1, <2>7, SMTT(30) DEF CheckMigrated, TypeOK, Goto
    <3>4. QED BY <2>7, <3>1, <3>2, <3>3, StepperMoves, SMTT(30) DEF CheckMigrated, infos, others
  <2>8. QED BY <1>3, <2>1, <2>2, <2>3, <2>4, <2>5, <2>6, <2>7, SMTT(30)
<1>4. CASE DropSourceTable(s)
  <2>1. TypeOK' BY <1>1, <1>4, SMTT(30) DEF DropSourceTable, TypeOK, Goto, infos, others, Places
  <2>2. filted[tab[s]] = "info" /\ tab[s] \notin DOMAIN referenceds
    BY <1>1, <1>4, Zenon DEF DropSourceTable, Walk
  <2>3. sources \ {tab[s]} \subseteq sources' BY <1>4 DEF DropSourceTable
  <2>4. (\A b \in Actors \ {s} : pc'[b] = pc[b]) /\ pc'[s] \in {"dropped", "idle"}
    BY <1>1, <1>4, SMTT(30) DEF DropSourceTable, TypeOK, Goto
  <2>5. LifeOfInfo' /\ Sources'
    BY <1>1, <1>4, <2>2, <2>3 DEF DropSourceTable, LifeOfInfo, Sources, infos, others
  <2>6. \A b \in Actors : Walk(b)'
    <3> SUFFICES ASSUME NEW b \in Actors PROVE Walk(b)' BY SMTT(30)
    <3>1. Walk(b) /\ UNCHANGED <<infos, rows, targets, tab, seen>>
      BY <1>4, ZenonT(30) DEF IInv, DropSourceTable, others
    <3>2. CASE b = s BY <2>2, <2>4, <3>1, <3>2, SMTT(30) DEF Walk, infos
    <3>3. CASE b # s
      <4>1. pc'[b] = pc[b] BY <2>4, <3>3
      <4>2. filted[tab[b]] = "unknown" /\ tab[b] \in sources => tab[b] \in sources'
        BY <2>2, <2>3, SMTT(30)
      <4>3. QED BY <3>1, <4>1, <4>2 DEF Walk, infos
    <3>4. QED BY <3>2, <3>3
  <2>7. \A h \in Handles : Binding(h)'
    BY <1>1, <1>4, <2>4, SMTT(30) DEF IInv, DropSourceTable, Binding, Rebinds, infos, others, Actors
  <2>8. QED BY <1>4, <2>1, <2>5, <2>6, <2>7, ZenonT(30) DEF IInv, DropSourceTable
<1>5. CASE MarkAsDropped(s)
  <2>1. TypeOK' BY <1>1, <1>5 DEF MarkAsDropped, TypeOK, Goto, tables, others, Places
  <2>2. \A b \in Actors : pc'[b] = IF b = s THEN "idle" ELSE pc[b]
    BY <1>1, <1>5, SMTT(30) DEF MarkAsDropped, TypeOK, Goto
  <2>3. LifeOfInfo' /\ Sources'
    BY <1>1, <1>5, ZenonT(30) DEF MarkAsDropped, LifeOfInfo, Sources, tables, others
  <2>4. \A b \in Actors : Walk(b)'
    BY <1>5, <2>2, SMTT(30) DEF IInv, MarkAsDropped, Walk, tables, others
  <2>5. \A h \in Handles : Binding(h)'
    BY <1>1, <1>5, <2>2 DEF IInv, MarkAsDropped, Binding, Rebinds, others, Actors
  <2>6. QED BY <1>5, <2>1, <2>3, <2>4, <2>5, ZenonT(30) DEF IInv, MarkAsDropped
<1>6. CASE MigrateRows(s)
  <2> DEFINE t == tab[s]
  <2>1. filted[t] = "info" /\ rows[t] \in 0..MaxRows BY <1>1, <1>6 DEF MigrateRows, Walk, TypeOK
  <2>2. \E n \in 0..rows[t] :
          /\ rows' = [rows EXCEPT ![t] = @ - n]
          /\ \/ pc' = [pc EXCEPT ![s] = "idle"]
             \/ n = rows[t] /\ pc' = [pc EXCEPT ![s] = "moved"]
    <3>1. CASE UNCHANGED rows /\ Goto(s, "idle")
      <4>1. rows' = [rows EXCEPT ![t] = @ - 0] BY <1>1, <2>1, <3>1 DEF TypeOK
      <4>2. 0 \in 0..rows[t] BY <2>1
      <4>3. QED BY <3>1, <4>1, <4>2, ZenonT(30) DEF Goto
    <3>2. CASE ~(UNCHANGED rows /\ Goto(s, "idle")) BY <1>6, <3>2 DEF MigrateRows, Goto
    <3>3. QED BY <3>1, <3>2
  <2>3. /\ rows' \in [Tables -> 0..MaxRows]
        /\ \A u \in Tables : rows[u] = 0 => rows'[u] = 0
        /\ pc'[s] = "idle" \/ (pc'[s] = "moved" /\ rows'[t] = 0)
        /\ \A b \in Actors \ {s} : pc'[b] = pc[b]
        /\ pc' \in [Actors -> Places]
    BY <1>1, <2>1, <2>2, MigrationConstants, SMTT(30) DEF TypeOK, Places
  <2>4. TypeOK' BY <1>1, <1>6, <2>3, SMTT(30) DEF MigrateRows, TypeOK, infos, others
  <2>5. LifeOfInfo' /\ Sources'
    BY <1>1, <1>6, <2>3, SMTT(30) DEF MigrateRows, LifeOfInfo, Sources, infos, others
  <2>6. \A b \in Actors : Walk(b)'
    <3> SUFFICES ASSUME NEW b \in Actors PROVE Walk(b)' OBVIOUS
    <3>1. /\ Walk(b) /\ tab[b] \in Tables /\ pc[s] = "move"
          /\ UNCHANGED <<infos, sources, targets, tab, seen>>
      BY <1>1, <1>6, SMTT(30) DEF IInv, MigrateRows, others
    <3>2. rows[tab[b]] = 0 => rows'[tab[b]] = 0 BY <2>3, <3>1, SMTT(30)
    <3> HIDE DEF t
    <3>3. CASE b = s BY <2>1, <2>3, <3>1, <3>3, SMTT(30) DEF Walk, infos, t
    <3>4. CASE b # s BY <2>3, <3>1, <3>2, <3>4, SMTT(30) DEF Walk, infos
    <3>5. QED BY <3>3, <3>4
  <2>7. \A h \in Handles : Binding(h)'
    BY <1>1, <1>6, <2>3, SMTT(30) DEF IInv, MigrateRows, Binding, Rebinds, infos, others, Actors
  <2>8. QED BY <1>6, <2>4, <2>5, <2>6, <2>7, Zenon DEF IInv, MigrateRows
<1>7. CASE MarkAsMigrated(s)
  <2> DEFINE t == tab[s]
  <2>1. /\ filted[t] = "info" /\ rows[t] = 0
        /\ migratings' = migratings \ {t}
        /\ \A b \in Actors : pc'[b] = IF b = s THEN "idle" ELSE pc[b]
    BY <1>1, <1>7, SMTT(30) DEF MarkAsMigrated, Walk, TypeOK, Goto
  <2>2. /\ DOMAIN referenceds' \subseteq DOMAIN referenceds
        /\ DOMAIN referenceds \subseteq DOMAIN referenceds' \cup {t}
        /\ \A u \in DOMAIN referenceds' : referenceds'[u] = referenceds[u]
        /\ referenceds' \in [DOMAIN referenceds' -> 0..Cardinality(Handles)]
        /\ t \in DOMAIN referenceds => \/ referenceds[t] = 0 /\ t \notin DOMAIN referenceds'
                                       \/ referenceds[t] # 0
        /\ t \in DOMAIN referenceds /\ t \notin DOMAIN referenceds' => referenceds[t] = 0
        /\ dumpster' = dumpster \/ (dumpster' = dumpster \cup {t} /\ t \notin DOMAIN referenceds')
    BY <1>1, <1>7, SMTT(30) DEF MarkAsMigrated, Without, TypeOK
  <2>3. TypeOK'
    BY <1>1, <1>7, <2>1, <2>2, SMTT(30) DEF MarkAsMigrated, TypeOK, Goto, tables, others, Places
  <2>4. \A u \in DOMAIN referenceds : referenceds[u] = Cardinality(Holders(refs, u))
    BY <1>1, SMTT(30) DEF LifeOfInfo, Holders
  <2>5. refs' = refs /\ refs \in [Handles -> SUBSET Tables]
    BY <1>1, <1>7, SMTT(30) DEF MarkAsMigrated, others, TypeOK
  <2>6. LifeOfInfo'
    <3>1. \A h \in Handles : refs'[h] \subseteq DOMAIN referenceds'
      <4>1. t \in DOMAIN referenceds /\ t \notin DOMAIN referenceds'
              => \A h \in Handles : t \notin refs[h]
        BY <1>1, <2>2, <2>4, <2>5, Counting, SMTT(30)
      <4>2. \A h \in Handles : refs[h] \subseteq DOMAIN referenceds BY <1>1 DEF LifeOfInfo
      <4>3. QED BY <2>2, <2>5, <4>1, <4>2
    <3>2. \A u \in DOMAIN referenceds' : u \notin migratings' => referenceds'[u] > 0
      <4>1. \A u \in DOMAIN referenceds' : u # t /\ u \notin migratings' => referenceds'[u] > 0
        BY <1>1, <2>1, <2>2, Zenon DEF LifeOfInfo
      <4>2. t \in DOMAIN referenceds' => referenceds'[t] > 0
        <5>1. t \in DOMAIN referenceds' => referenceds[t] # 0 BY <2>2
        <5>2. t \in DOMAIN referenceds => referenceds[t] \in 0..Cardinality(Handles)
          BY <1>1 DEF TypeOK
        <5>3. QED BY <2>2, <5>1, <5>2
      <4>3. QED BY <4>1, <4>2
    <3>3. /\ migratings' \subseteq DOMAIN referenceds'
          /\ dumpster' \cap DOMAIN referenceds' = {}
      BY <1>1, <2>1, <2>2 DEF LifeOfInfo
    <3>4. \A u \in DOMAIN referenceds' : referenceds'[u] = Cardinality(Holders(refs', u))
      BY <2>2, <2>4, <2>5, SMTT(30)
    <3>5. /\ \A u \in DOMAIN referenceds' \cup dumpster' : filted'[u] = "info"
          /\ \A u \in hints' : filted'[u] = "unknown"
          /\ \A u \in Tables : filted'[u] = "info" /\ u \notin migratings' => rows'[u] = 0
      BY <1>1, <1>7, <2>1, <2>2, SMTT(30) DEF LifeOfInfo, MarkAsMigrated, tables
    <3>6. QED BY <3>1, <3>2, <3>3, <3>4, <3>5, SMTT(30) DEF LifeOfInfo, Holders
  <2>7. Sources' BY <1>1, <1>7, <2>2, SMTT(30) DEF MarkAsMigrated, Sources, tables
  <2>8. \A b \in Actors : Walk(b)'
    BY <1>7, <2>1, <2>2, SMTT(30) DEF IInv, MarkAsMigrated, Walk, tables, others
  <2>9. \A h \in Handles : Binding(h)'
    BY <1>1, <1>7, <2>1, ZenonT(30) DEF IInv, MarkAsMigrated, Binding, Rebinds, others, Actors
  <2>10. setup' \in Setups BY <1>7, ZenonT(30) DEF IInv, MarkAsMigrated
  <2>11. QED BY <2>3, <2>6, <2>7, <2>8, <2>9, <2>10, ZenonT(30) DEF IInv
<1>8. QED BY <1>2, <1>3, <1>4, <1>5, <1>6, <1>7, ZenonT(30) DEF StepperStep

-----------------------------------------------------------------------------
LEMMA InitialInfos == ASSUME Init PROVE IInv
<1>1. ATable \in Tables BY MigrationConstants DEF ATable
<1>2. setup \in Setups /\ setup.tables \subseteq Tables /\ setup.existing \subseteq Tables
  BY MigrationConstants DEF Init
<1>3. DOMAIN referenceds = {} /\ referenceds = [x \in {} |-> 0] BY SMTT(30) DEF Init
<1>4. TypeOK BY <1>1, <1>2, <1>3, Zenon DEF Init, TypeOK, Places
<1>5. LifeOfInfo /\ Sources BY <1>3 DEF Init, LifeOfInfo, Sources
<1>6. \A a \in Actors : Walk(a) BY DEF Init, Walk
<1>7. \A h \in Handles : Binding(h) BY DEF Init, Binding, Actors
<1>8. QED BY <1>2, <1>4, <1>5, <1>6, <1>7, Zenon DEF IInv

(* The infos of a migration are accounted for, whatever the handles and the  *)
(* steppers found out about the tables before they took m_lock.              *)
THEOREM MigrationInvariance == Spec => []IInv
<1>1. ASSUME IInv, [Next]_vars PROVE IInv'
  <2>1. CASE Next BY <1>1, <2>1, HandleSteps, StepperSteps DEF Next
  <2>2. CASE UNCHANGED vars
    <3>1. UNCHANGED <<setup, filted, migratings, dumpster, hints, referenceds, acquired,
                      migrated, rows, sources, targets, pc, tab, seen, goal, todo,
                      refs, bound>>
      BY <2>2, SMTT(30) DEF vars, infos, tables
    <3>2. TypeOK' /\ LifeOfInfo' /\ Sources'
      BY <1>1, <3>1, SMTT(30) DEF IInv, TypeOK, LifeOfInfo, Sources
    <3>3. (\A a \in Actors : Walk(a)') /\ (\A h \in Handles : Binding(h)')
      BY <1>1, <3>1 DEF IInv, Walk, Binding, Rebinds
    <3>4. QED BY <1>1, <3>1, <3>2, <3>3 DEF IInv
  <2>3. QED BY <1>1, <2>1, <2>2
<1>2. QED BY <1>1, InitialInfos, PTL DEF Spec

(* Migration.hpp's picture of the life of an info holds, and with it that    *)
(* the migration of a table ends only when no row is left behind.            *)
THEOREM InfosLive == Spec => []LifeOfInfo
<1>1. IInv => LifeOfInfo BY DEF IInv
<1>2. QED BY <1>1, MigrationInvariance, PTL

(* The source table is dropped only after every statement bound to the info  *)
(* is finalized, if no handle binds a table twice.                           *)
THEOREM SourcesOfStatementsKept == Spec => []BoundSourceKept
<1>1. IInv => BoundSourceKept
  BY Zenon DEF IInv, BoundSourceKept, Binding, LifeOfInfo, Sources
<1>2. QED BY <1>1, MigrationInvariance, PTL

(* No thread that initializes a table revives an info that is done with.     *)
THEOREM MigratesOnce == Spec => NeverAgain
<1> DEFINE Again(t) == /\ t \notin migratings => t \notin migratings'
                       /\ t \notin DOMAIN referenceds => t \notin DOMAIN referenceds'
           A == \A t \in Tables : filted[t] = "info" => Again(t)
<1>1. ASSUME IInv, NEW a \in Actors, InitStep(a) PROVE A
  BY <1>1, SMTT(30) DEF InitStep, LookSource, LookTarget, MarkAsNoNeedToMigrate, MarkInfo, infos
<1>2. ASSUME IInv, NEW h \in Handles, NEW t \in Tables, GetInfo(h, t), UNCHANGED migratings
      PROVE  A
  <2>1. DOMAIN referenceds' \subseteq DOMAIN referenceds
    <3>1. CASE Released({t} \cap refs[h]) BY <3>1 DEF Released, Without
    <3>2. CASE UNCHANGED referenceds BY <3>2
    <3>3. CASE referenceds' = Plus(referenceds, t, 1) BY <1>2, <3>3, SMTT(30) DEF IInv, TypeOK, Plus
    <3>4. QED BY <1>2, <3>1, <3>2, <3>3, SMTT(30) DEF GetInfo
  <2>2. QED BY <1>2, <2>1, ZenonT(30)
<1>3. ASSUME IInv, NEW h \in Handles, HandleStep(h) PROVE A
  <2>1. CASE InitStep(h) BY <1>1, <1>3, <2>1, SMTT(30) DEF Actors
  <2>2. ASSUME NEW t \in Tables, Prepare(h, t) PROVE A BY <1>2, <1>3, <2>2 DEF Prepare
  <2>3. CASE Get(h)
    <3>1. tab[h] \in Tables BY <1>3, SMTT(30) DEF IInv, TypeOK, Actors
    <3>2. QED BY <1>2, <1>3, <2>3, <3>1 DEF Get
  <2>4. CASE FinalizeStatements(h) BY <2>4 DEF FinalizeStatements, Released, Without
  <2>5. ASSUME NEW t \in Tables, PrepareCreate(h, t) \/ DropTable(h, t) PROVE A
    BY <2>5 DEF PrepareCreate, DropTable, infos
  <2>6. CASE ExecuteCreate(h) BY <2>6, SMTT(30) DEF ExecuteCreate, infos
  <2>7. QED BY <1>3, <2>1, <2>2, <2>3, <2>4, <2>5, <2>6, SMTT(30) DEF HandleStep
<1>4. ASSUME IInv, NEW s \in Steppers, StepperStep(s) PROVE A
  <2>1. CASE InitStep(s) BY <1>1, <1>4, <2>1 DEF Actors
  <2>2. CASE MarkAsMigrated(s) BY <2>2, SMTT(30) DEF MarkAsMigrated, Without
  <2>3. CASE \/ TryDropUnreferencedTable(s) \/ DropSourceTable(s) \/ MarkAsDropped(s)
             \/ TryMigrateRows(s) \/ TableExists(s) \/ MigrateRows(s)
    BY <2>3, SMTT(30) DEF TryDropUnreferencedTable, DropSourceTable, MarkAsDropped, TryMigrateRows,
                TableExists, MigrateRows, infos
  <2>4. CASE \/ TryAcquireTables(s) \/ AcquireTable(s) \/ AcquiredTables(s)
             \/ CheckMigrated(s) \/ DidMigrate(s)
    BY <2>4, Zenon DEF TryAcquireTables, AcquireTable, AcquiredTables, CheckMigrated, DidMigrate, infos
  <2>5. QED BY <1>4, <2>1, <2>2, <2>3, <2>4, ZenonT(30) DEF StepperStep
<1>5. ASSUME IInv, [Next]_vars PROVE [A]_vars
  BY <1>3, <1>4, <1>5 DEF Next
<1>6. QED BY <1>5, MigrationInvariance, PTL DEF Spec, NeverAgain
=============================================================================
