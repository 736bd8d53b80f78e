--------------------------- MODULE FactoryProofs ---------------------------
(* Proofs about Factory, for any data, any finite set of workshops, every   *)
(* combination of operations and failing calls, and both builds.            *)
(*                                                                          *)
(* The argument: at every step the files are such that an initialize that   *)
(* starts now finds the data, since the process may be killed and nothing   *)
(* but the files is left.  Four invariants carry it: which operation is at  *)
(* which line, which files are links to one file, where a vacuum or a       *)
(* renewal may be pending, and where the data is while files are moved.     *)
EXTENDS Factory, FiniteSetTheorems, TLAPS

VacuumWorkLines == {"vacuumWork", "vacuumClear", "vacuumMove", "vacuumExit", "vacuumGiveUp"}
RenewerLines == {"renewerWork", "renewClear", "renewMove", "renewExit"}
VacuumLines ==
    {"vacuumPrepare", "executeVacuum", "vacuumForget", "vacuumKeep", "vacuumKept", "vacuumRemove"}
DepositLines == {"renewPrepare", "assemble", "renewForget", "renewKeep", "renewKept"}
DepositorLines == {"depositorWork", "depositMove"}
RetrieveLines == {"restorePrepare", "restore", "restoreMove", "removeDeposited"}
MoveLines ==
    {"vacuumMove", "renewMove", "vacuumKeep", "renewKeep", "depositMove", "restoreMove"}

\* Where an operation can be, and what it is then.
ControlInv ==
    /\ at \in {"idle", "finish", "createFile"} \cup VacuumWorkLines
              \cup RenewerLines \cup VacuumLines \cup DepositLines \cup DepositorLines
              \cup RetrieveLines
    /\ at # "idle" => job \in Jobs \cup {"open"}
    /\ at \in VacuumWorkLines /\ initialized => job = "vacuum"
    /\ at \in RenewerLines /\ initialized => job = "deposit"
    /\ at \in VacuumLines => job = "vacuum" /\ initialized
    /\ at \in DepositLines => job = "deposit" /\ initialized
    /\ at \in DepositorLines => job \in {"deposit", "retrieve"} /\ initialized
    /\ at \in RetrieveLines => job = "retrieve" /\ initialized
    /\ at = "createFile" => ~initialized
    /\ at = "depositMove" => workshop \in Workshops
    /\ moving # "link" => at \in MoveLines
    /\ moving = "recover" => "link" \in Failing

----------------------------------------------------------------------------
(* What a routine does to the control state.                                *)

\* Where an operation goes from a line that removes items, a directory, or moves items.
LEMMA RemoveItemsControl ==
    ASSUME NEW here, NEW p, NEW next, RemoveItems(here, p, next)
    PROVE  at = here /\ at' \in {here, next} /\ UNCHANGED <<moving, rest>>
  BY DEF RemoveItems

LEMMA RemoveDirectoryControl ==
    ASSUME NEW here, NEW p, NEW next, RemoveDirectory(here, p, next)
    PROVE  at = here /\ at' \in {here, next} /\ UNCHANGED <<moving, rest>>
  BY DEF RemoveDirectory

LEMMA MoveItemsControl ==
    ASSUME NEW here, NEW from, NEW to, NEW next, NEW failed,
           MoveItems(here, from, to, next, failed)
    PROVE  /\ at = here /\ UNCHANGED rest
           /\ \/ at' = here /\ moving' \in {moving, "unlink"}
              \/ at' = here /\ moving' = "recover" /\ "link" \in Failing
              \/ at' \in {next, failed} /\ moving' = "link"
  BY DEF MoveItems, LinkItem, LinkFails, StatFails, UnlinkItem, RecoverItem

\* The part of the type invariant that is not about the files.
ControlType ==
    /\ setup \in FactorySetups /\ job \in Jobs \cup {"open", "none"}
    /\ moving \in {"link", "unlink", "recover"}
    /\ initialized \in BOOLEAN /\ written \subseteq Data

\* A step keeps the lines and the operations together.
LEMMA ControlStep == ControlType /\ ControlInv /\ FactoryNext => ControlType' /\ ControlInv'
<1> SUFFICES ASSUME ControlType, ControlInv, FactoryNext PROVE ControlType' /\ ControlInv'
  OBVIOUS
<1> DEFINE Quiet == /\ UNCHANGED rest
                    /\ moving' \in {"link", "unlink", "recover"}
                    /\ moving' # "link" => at' = at /\ at \in MoveLines
                    /\ moving' = "recover" => "link" \in Failing
<1> USE DEF VacuumWorkLines, RenewerLines, VacuumLines, DepositLines, DepositorLines,
            RetrieveLines, MoveLines
<1>q. ASSUME UNCHANGED rest PROVE Jobs' = Jobs /\ Failing' = Failing /\ setup' = setup /\ job' = job
                                  /\ initialized' = initialized /\ workshop' = workshop /\ written' = written
  BY <1>q DEF rest, Jobs, Failing
<1>m. \A here, from, to, next, failed :
         MoveItems(here, from, to, next, failed) /\ here \in MoveLines
           => Quiet /\ at = here /\ at' \in {here, next, failed}
  <2> TAKE here, from, to, next, failed
  <2> HAVE MoveItems(here, from, to, next, failed) /\ here \in MoveLines
  <2> QED BY MoveItemsControl DEF ControlType, ControlInv
<1>i. \A here, p, next :
         RemoveItems(here, p, next) /\ here \notin MoveLines
           => Quiet /\ at = here /\ at' \in {here, next}
  <2> TAKE here, p, next
  <2> HAVE RemoveItems(here, p, next) /\ here \notin MoveLines
  <2> QED BY RemoveItemsControl DEF ControlType, ControlInv
<1>d. \A here, p, next :
         RemoveDirectory(here, p, next) /\ here \notin MoveLines
           => Quiet /\ at = here /\ at' \in {here, next}
  <2> TAKE here, p, next
  <2> HAVE RemoveDirectory(here, p, next) /\ here \notin MoveLines
  <2> QED BY RemoveDirectoryControl DEF ControlType, ControlInv
<1>g. ASSUME NEW here, NEW next, at = here, Go(next), here \notin MoveLines
      PROVE  Quiet /\ at' = next
  BY <1>g DEF Go, ControlType, ControlInv
<1>1. ASSUME NEW j \in Jobs \cup {"open"}, Start(j) PROVE ControlType' /\ ControlInv'
  BY <1>1, Zenon DEF Start, ControlType, ControlInv, Jobs, Failing
<1>2. CASE VacuumWork
  <2>1. /\ Quiet
        /\ \/ at = "vacuumWork" /\ at' \in {"vacuumClear", "vacuumExit"}
           \/ at = "vacuumClear" /\ at' \in {"vacuumClear", "vacuumMove"}
           \/ at = "vacuumMove" /\ at' \in {"vacuumMove", "vacuumExit", "vacuumGiveUp"}
    BY <1>2, <1>m, <1>i, <1>g DEF VacuumWork
  <2> QED BY <2>1, <1>q DEF ControlType, ControlInv
<1>3. CASE VacuumExit
  <2>1. /\ Quiet
        /\ \/ at = "vacuumExit" /\ at' \in {"vacuumExit", IF initialized THEN "finish" ELSE "renewerWork"}
           \/ at = "vacuumGiveUp" /\ at' \in {"vacuumGiveUp", "finish"}
    BY <1>3, <1>d DEF VacuumExit
  <2> QED BY <2>1, <1>q DEF ControlType, ControlInv
<1>4. CASE RenewerWork
  <2>1. /\ Quiet
        /\ \/ at = "renewerWork" /\ at' \in {AfterRenewer, "renewExit", "renewClear"}
           \/ at = "renewClear" /\ at' \in {"renewClear", "renewMove"}
           \/ at = "renewMove" /\ at' \in {"renewMove", "renewExit", "finish"}
           \/ at = "renewExit" /\ at' \in {"renewExit", AfterRenewer}
    BY <1>4, <1>m, <1>i, <1>d, <1>g DEF RenewerWork
  <2> QED BY <2>1, <1>q DEF ControlType, ControlInv, AfterRenewer
<1>5. CASE CreateFile
  <2>1. job \in {"open", "vacuum", "deposit", "retrieve"}
    BY <1>5, FactoryConstants DEF CreateFile, ControlType, ControlInv, Jobs
  <2> QED BY <1>5, <2>1 DEF CreateFile, FirstLine, ControlType, ControlInv, Jobs, Failing
<1>6. CASE Vacuum
  <2>1. /\ Quiet
        /\ \/ at = "vacuumPrepare" /\ at' \in {"vacuumPrepare", "executeVacuum"}
           \/ at = "executeVacuum" /\ at' \in {"vacuumForget", "vacuumGiveUp"}
           \/ at = "vacuumForget" /\ at' \in {"vacuumForget", "vacuumKeep"}
           \/ at = "vacuumKeep" /\ at' \in {"vacuumKeep", "vacuumKept", "vacuumGiveUp"}
           \/ at = "vacuumKept" /\ at' \in {"vacuumKept", "vacuumRemove"}
           \/ at = "vacuumRemove" /\ at' \in {"vacuumRemove", "vacuumWork"}
    <3>1. CASE Make("executeVacuum", "vacuum/temp", Readable("base"), {"main"}, "vacuumForget")
      BY <3>1 DEF Make, ControlInv, ControlType
    <3>2. CASE GiveUp("executeVacuum", "vacuumGiveUp")
      BY <3>2, <1>g DEF GiveUp
    <3> QED BY <1>6, <3>1, <3>2, <1>m, <1>i, <1>d DEF Vacuum
  <2> QED BY <2>1, <1>q DEF ControlType, ControlInv
<1>7. CASE Deposit
  <2>1. /\ Quiet
        /\ \/ at = "renewPrepare" /\ at' \in {"renewPrepare", "assemble"}
           \/ at = "assemble" /\ at' \in {"renewForget", "finish"}
           \/ at = "renewForget" /\ at' \in {"renewForget", "renewKeep"}
           \/ at = "renewKeep" /\ at' \in {"renewKeep", "renewKept", "finish"}
           \/ at = "renewKept" /\ at' \in {"renewKept", "depositorWork"}
    <3>1. ASSUME NEW kinds, Make("assemble", "renew/temp", {}, kinds, "renewForget")
          PROVE  Quiet /\ at = "assemble" /\ at' = "renewForget"
      BY <3>1 DEF Make, ControlInv, ControlType
    <3>2. CASE GiveUp("assemble", "finish")
      BY <3>2, <1>g DEF GiveUp
    <3> QED BY <1>7, <3>1, <3>2, <1>m, <1>i, <1>d DEF Deposit
  <2> QED BY <2>1, <1>q DEF ControlType, ControlInv
<1>8. CASE DepositorWork
  <2>1. CASE at = "depositorWork"
    BY <2>1, <1>8, <1>m, Zenon DEF DepositorWork, ControlType, ControlInv, Jobs, Failing
  <2>2. CASE at # "depositorWork"
    <3>1. /\ Quiet /\ at = "depositMove"
          /\ at' \in {"depositMove", IF job = "deposit" THEN "renewerWork" ELSE "restoreMove", "finish"}
      BY <2>2, <1>8, <1>m DEF DepositorWork
    <3> QED BY <3>1, <1>q DEF ControlType, ControlInv
  <2> QED BY <2>1, <2>2
<1>9. CASE Retrieve
  <2>1. /\ Quiet
        /\ \/ at = "restorePrepare" /\ at' \in {"restorePrepare", "restore"}
           \/ at = "restore" /\ at' \in {"depositorWork", "finish"}
           \/ at = "restoreMove" /\ at' \in {"restoreMove", "removeDeposited", "finish"}
           \/ at = "removeDeposited" /\ at' \in {"removeDeposited", "finish"}
    <3>1. CASE Make("restore", "restore", Readable("base") \cup Deposited, {"main", "material"},
                    "depositorWork")
      BY <3>1 DEF Make, ControlInv, ControlType
    <3>2. CASE GiveUp("restore", "finish")
      BY <3>2, <1>g DEF GiveUp
    <3>3. CASE RemoveDeposited
      BY <3>3 DEF RemoveDeposited, ControlInv, ControlType
    <3> QED BY <1>9, <3>1, <3>2, <3>3, <1>m, <1>d DEF Retrieve
  <2> QED BY <2>1, <1>q DEF ControlType, ControlInv
<1>10. CASE Finish
  BY <1>10 DEF Finish, ControlType, ControlInv, Jobs, Failing
<1>11. CASE Crash
  BY <1>11, Zenon DEF Crash, ControlType, ControlInv, Jobs, Failing
<1>12. CASE Checkpoint
  BY <1>12, <1>q DEF Checkpoint, opened, ControlType, ControlInv
<1>13. ASSUME NEW d \in setup.data, Write(d) PROVE ControlType' /\ ControlInv'
  <2>1. setup.data \subseteq Data BY FactoryConstants DEF ControlType
  <2> QED BY <1>13, <2>1 DEF Write, opened, ControlType, ControlInv, Jobs, Failing
<1> QED
  BY <1>1, <1>2, <1>3, <1>4, <1>5, <1>6, <1>7, <1>8, <1>9, <1>10, <1>11, <1>12, <1>13
  DEF FactoryNext

----------------------------------------------------------------------------
(* The files.                                                               *)

Kinds == {"main", "wal", "material"}

FilesType ==
    /\ DOMAIN fs = Places
    /\ \A p \in Places : /\ DOMAIN fs[p] \subseteq Kinds
                         /\ \A k \in DOMAIN fs[p] : fs[p][k] \in File

\* Files with one inode are one file, under one name.
SameInode ==
    \A p, q \in Places : \A k \in DOMAIN fs[p] : \A j \in DOMAIN fs[q] :
        fs[p][k].id = fs[q][j].id => k = j /\ fs[p][k].data = fs[q][j].data

\* There are finitely many directories, hence finitely many inodes.
LEMMA PlacesFinite == IsFiniteSet(Places)
<1>1. IsFiniteSet({"base"} \cup {"vacuum"} \cup {"vacuum/temp"})
  BY FS_Singleton, FS_Union, Zenon
<1>2. IsFiniteSet({"renew"} \cup {"renew/temp"} \cup {"restore"})
  BY FS_Singleton, FS_Union, Zenon
<1>3. Places = (({"base"} \cup {"vacuum"} \cup {"vacuum/temp"})
                \cup ({"renew"} \cup {"renew/temp"} \cup {"restore"})) \cup Workshops
  BY DEF Places, Directories
<1> QED BY <1>1, <1>2, <1>3, FS_Union, FactoryConstants, Zenon

LEMMA InodesFinite == FilesType => IsFiniteSet(Inodes) /\ Inodes \subseteq Nat
<1> SUFFICES ASSUME FilesType PROVE IsFiniteSet(Inodes) /\ Inodes \subseteq Nat
  OBVIOUS
<1> DEFINE All == {x \in Places \X Kinds : x[2] \in DOMAIN fs[x[1]]}
           Id == [x \in All |-> fs[x[1]][x[2]].id]
<1>1. IsFiniteSet(Kinds)
  <2>1. Kinds = {"main"} \cup {"wal"} \cup {"material"} BY DEF Kinds
  <2> QED BY <2>1, FS_Singleton, FS_Union, Zenon
<1>2. IsFiniteSet(All)
  <2>1. IsFiniteSet(Places \X Kinds) BY <1>1, PlacesFinite, FS_Product
  <2>2. All \in SUBSET (Places \X Kinds) OBVIOUS
  <2> QED BY <2>1, <2>2, FS_Subset
<1>3. \A x \in All : Id[x] \in Inodes
  BY DEF Inodes
<1>4. ASSUME NEW i \in Inodes PROVE i \in Nat /\ \E x \in All : Id[x] = i
  <2>1. PICK p \in Places : \E k \in DOMAIN fs[p] : i = fs[p][k].id
    BY DEF Inodes
  <2>0. PICK k \in DOMAIN fs[p] : i = fs[p][k].id
    BY <2>1
  <2>2. k \in Kinds /\ fs[p][k] \in File
    BY DEF FilesType
  <2>3. <<p, k>> \in All /\ Id[<<p, k>>] = i
    BY <2>0, <2>2
  <2> QED BY <2>0, <2>2, <2>3 DEF File
<1>5. Id \in Surjection(All, Inodes)
  BY <1>3, <1>4 DEF Surjection
<1> QED BY <1>2, <1>4, <1>5, FS_Surjection

\* A new file has an inode that no file has.
LEMMA FreshInodes ==
    ASSUME FilesType
    PROVE  /\ NewInode \in Nat /\ NewInode \notin Inodes
           /\ SecondInode \in Nat /\ SecondInode \notin Inodes /\ SecondInode # NewInode
<1>1. IsFiniteSet(Inodes) /\ Cardinality(Inodes) \in Nat
  BY InodesFinite, FS_CardinalityType
<1>2. \E i \in 1..(Cardinality(Inodes) + 1) : i \notin Inodes
  <2> SUFFICES ASSUME 1..(Cardinality(Inodes) + 1) \subseteq Inodes PROVE FALSE
    OBVIOUS
  <2>1. Cardinality(1..(Cardinality(Inodes) + 1)) <= Cardinality(Inodes)
    BY <1>1, FS_Subset
  <2>2. Cardinality(1..(Cardinality(Inodes) + 1)) = Cardinality(Inodes) + 1
    BY <1>1, FS_Interval
  <2> QED BY <1>1, <2>1, <2>2
<1>3. NewInode \in 1..(Cardinality(Inodes) + 1) /\ NewInode \notin Inodes
  BY <1>2 DEF NewInode
<1> DEFINE Used == Inodes \cup {NewInode}
<1>4. IsFiniteSet(Used) /\ Cardinality(Used) = Cardinality(Inodes) + 1
  BY <1>1, <1>3, FS_AddElement
<1>5. \E i \in 1..(Cardinality(Inodes) + 2) : i \notin Used
  <2> SUFFICES ASSUME 1..(Cardinality(Inodes) + 2) \subseteq Used PROVE FALSE
    OBVIOUS
  <2>1. Cardinality(1..(Cardinality(Inodes) + 2)) <= Cardinality(Used)
    BY <1>4, FS_Subset, Zenon
  <2>2. Cardinality(1..(Cardinality(Inodes) + 2)) = Cardinality(Inodes) + 2
    BY <1>1, FS_Interval
  <2> QED BY <1>1, <1>4, <2>1, <2>2
<1>6. SecondInode \in 1..(Cardinality(Inodes) + 2) /\ SecondInode \notin Used
  BY <1>5 DEF SecondInode
<1> QED BY <1>1, <1>3, <1>6

\* Every file after the step was a file of that kind before.
Derived ==
    /\ DOMAIN fs' = Places
    /\ \A p \in Places : \A k \in DOMAIN fs'[p] :
          \E q \in Places : k \in DOMAIN fs[q] /\ fs'[p][k] = fs[q][k]

\* Files that all come from earlier files keep their types and inodes.
LEMMA DerivedFiles ==
    ASSUME FilesType, SameInode, Derived
    PROVE  FilesType' /\ SameInode'
<1>1. FilesType'
  BY DEF FilesType, Derived
<1>2. ASSUME NEW p \in Places, NEW q \in Places, NEW k \in DOMAIN fs'[p], NEW j \in DOMAIN fs'[q],
             fs'[p][k].id = fs'[q][j].id
      PROVE  k = j /\ fs'[p][k].data = fs'[q][j].data
  <2>1. PICK r \in Places : k \in DOMAIN fs[r] /\ fs'[p][k] = fs[r][k]
    BY DEF Derived
  <2>2. PICK t \in Places : j \in DOMAIN fs[t] /\ fs'[q][j] = fs[t][j]
    BY DEF Derived
  <2> QED BY <1>2, <2>1, <2>2 DEF SameInode
<1> QED BY <1>1, <1>2 DEF SameInode

\* A step that makes files in one directory, with inodes nobody has.
LEMMA FreshFiles ==
    ASSUME FilesType, SameInode, NEW b \in Places,
           DOMAIN fs' = Places, \A q \in Places \ {b} : fs'[q] = fs[q],
           DOMAIN fs'[b] \subseteq Kinds,
           \A k \in DOMAIN fs'[b] : \/ k \in DOMAIN fs[b] /\ fs'[b][k] = fs[b][k]
                                    \/ fs'[b][k] \in File /\ fs'[b][k].id \notin Inodes,
           \A k, j \in DOMAIN fs'[b] : fs'[b][k].id = fs'[b][j].id => k = j
    PROVE  FilesType' /\ SameInode'
<1>1. FilesType'
  BY DEF FilesType
<1>2. \A q \in Places : \A k \in DOMAIN fs[q] : fs[q][k].id \in Inodes
  BY DEF Inodes
<1>3. ASSUME NEW p \in Places, NEW q \in Places, NEW k \in DOMAIN fs'[p], NEW j \in DOMAIN fs'[q],
             fs'[p][k].id = fs'[q][j].id
      PROVE  k = j /\ fs'[p][k].data = fs'[q][j].data
  <2>1. CASE p = b /\ q = b
    BY <1>3, <2>1
  <2>2. CASE p = b /\ q # b
    BY <1>2, <1>3, <2>2 DEF SameInode
  <2>3. CASE p # b /\ q = b
    BY <1>2, <1>3, <2>3 DEF SameInode
  <2>4. CASE p # b /\ q # b
    BY <1>3, <2>4 DEF SameInode
  <2> QED BY <2>1, <2>2, <2>3, <2>4
<1> QED BY <1>1, <1>3 DEF SameInode

\* What a step does to the files of a directory.
Others(p) == DOMAIN fs' = Places /\ \A q \in Places \ {p} : fs'[q] = fs[q]

Removed(p, k) ==
    /\ Others(p)
    /\ DOMAIN fs'[p] = DOMAIN fs[p] \ {k}
    /\ \A j \in DOMAIN fs[p] \ {k} : fs'[p][j] = fs[p][j]

Added(p, k, f) ==
    /\ Others(p)
    /\ DOMAIN fs'[p] = DOMAIN fs[p] \cup {k}
    /\ fs'[p][k] = f
    /\ \A j \in DOMAIN fs[p] \ {k} : fs'[p][j] = fs[p][j]

Taken(from, to, k) ==
    /\ DOMAIN fs' = Places /\ \A q \in Places \ {from, to} : fs'[q] = fs[q]
    /\ DOMAIN fs'[from] = DOMAIN fs[from] \ {k}
    /\ \A j \in DOMAIN fs[from] \ {k} : fs'[from][j] = fs[from][j]
    /\ DOMAIN fs'[to] = DOMAIN fs[to] \cup {k}
    /\ fs'[to][k] = fs[from][k]
    /\ \A j \in DOMAIN fs[to] \ {k} : fs'[to][j] = fs[to][j]

\* What removing, adding and renaming a file change.
LEMMA RemoveEffect ==
    ASSUME FilesType, NEW p \in Places, NEW k, fs' = Without(p, k)
    PROVE  Removed(p, k)
  BY DEF FilesType, Without, Removed, Others

LEMMA PutEffect ==
    ASSUME FilesType, NEW p \in Places, NEW k, NEW f, fs' = Put(p, k, f)
    PROVE  Added(p, k, f)
  BY DEF FilesType, Put, Added, Others

LEMMA RenameEffect ==
    ASSUME FilesType, NEW from \in Places, NEW to \in Places, from # to, NEW k,
           fs' = Renamed(from, to, k)
    PROVE  Taken(from, to, k)
<1> DEFINE g == Put(to, k, fs[from][k])
<1>1. /\ DOMAIN g = Places
      /\ \A q \in Places \ {to} : g[q] = fs[q]
      /\ DOMAIN g[to] = DOMAIN fs[to] \cup {k}
      /\ g[to][k] = fs[from][k]
      /\ \A j \in DOMAIN fs[to] \ {k} : g[to][j] = fs[to][j]
  BY DEF FilesType, Put
<1>2. fs' = [g EXCEPT ![from] = [j \in DOMAIN fs[from] \ {k} |-> fs[from][j]]]
  BY DEF Renamed
<1> HIDE DEF g
<1> QED BY <1>1, <1>2 DEF Taken

\* None of them makes a new file.
LEMMA RemovedDerived ==
    ASSUME FilesType, NEW p \in Places, NEW k, Removed(p, k) PROVE Derived
  BY DEF FilesType, Removed, Others, Derived

LEMMA AddedDerived ==
    ASSUME FilesType, NEW p \in Places, NEW q \in Places, NEW k \in DOMAIN fs[q],
           Added(p, k, fs[q][k])
    PROVE  Derived
  BY DEF FilesType, Added, Others, Derived

LEMMA TakenDerived ==
    ASSUME FilesType, NEW p \in Places, NEW q \in Places, NEW k \in DOMAIN fs[q],
           Taken(q, p, k)
    PROVE  Derived
  BY DEF FilesType, Taken, Derived

LEMMA SameDerived == ASSUME FilesType, UNCHANGED fs PROVE Derived
  BY DEF FilesType, Derived

----------------------------------------------------------------------------
(* What the routines of FileManager do to the files.                        *)

\* One step of removeItems.
LEMMA RemoveItemsFiles ==
    ASSUME FilesType, NEW here, NEW p \in Places, NEW next, RemoveItems(here, p, next)
    PROVE  /\ at = here /\ UNCHANGED <<moving, rest>> /\ Derived
           /\ \/ /\ at' = here
                 /\ \E k \in DOMAIN fs[p] : First(p, k, DOMAIN fs[p]) /\ Removed(p, k)
              \/ at' = next /\ DOMAIN fs[p] = {} /\ fs' = fs
<1>1. UNCHANGED fs => Derived
  BY SameDerived
<1>2. ASSUME NEW k \in DOMAIN fs[p], First(p, k, DOMAIN fs[p]), fs' = Without(p, k)
      PROVE  Derived /\ First(p, k, DOMAIN fs[p]) /\ Removed(p, k)
  BY <1>2, RemoveEffect, RemovedDerived
<1> QED BY <1>1, <1>2 DEF RemoveItems

\* One step of removeDirectory.
LEMMA RemoveDirectoryFiles ==
    ASSUME FilesType, NEW here, NEW p \in Directories, NEW next, RemoveDirectory(here, p, next)
    PROVE  /\ at = here /\ UNCHANGED <<moving, rest>> /\ Derived
           /\ \/ at' = here /\ \E q \in Inside(p) : \E k \in DOMAIN fs[q] : Removed(q, k)
              \/ at' = next /\ (\A q \in Inside(p) : DOMAIN fs[q] = {}) /\ fs' = fs
<1>1. UNCHANGED fs => Derived
  BY SameDerived
<1>2. Inside(p) \subseteq Places
  BY DEF Inside, Places, Directories
<1>3. ASSUME NEW q \in Inside(p), NEW k \in DOMAIN fs[q], fs' = Without(q, k)
      PROVE  Derived /\ Removed(q, k)
  BY <1>2, <1>3, RemoveEffect, RemovedDerived
<1> QED BY <1>1, <1>3 DEF RemoveDirectory

\* One step of moveItems.
Moves(here, from, to, next, failed) ==
    \/ /\ at' = here /\ moving = "link" /\ moving' = "link"
       /\ \E k \in Unlinked(from, to) :
             \/ Has(to, k) /\ Removed(to, k)
             \/ ~Has(to, k) /\ Renames /\ Taken(from, to, k)
             \/ ~Has(to, k) /\ ~Renames /\ Added(to, k, fs[from][k])
    \/ /\ at' = here /\ moving = "link" /\ moving' = "unlink" /\ fs' = fs
       /\ Unlinked(from, to) = {} \/ "stat" \in Failing
    \/ at' = here /\ moving = "link" /\ moving' = "recover" /\ fs' = fs /\ "link" \in Failing
    \/ /\ at' = here /\ moving = "unlink" /\ moving' = "unlink"
       /\ \E k \in DOMAIN fs[from] : First(from, k, DOMAIN fs[from]) /\ Removed(from, k)
    \/ at' = next /\ moving = "unlink" /\ moving' = "link" /\ DOMAIN fs[from] = {} /\ fs' = fs
    \/ /\ at' = here /\ moving = "recover" /\ moving' = "recover"
       /\ \E k \in Linked(from, to) : Removed(to, k)
    \/ at' = failed /\ moving = "recover" /\ moving' = "link" /\ fs' = fs

\* moveItems takes such steps, and makes no new file.
LEMMA MoveItemsFiles ==
    ASSUME FilesType, NEW here, NEW from \in Places, NEW to \in Places, from # to,
           NEW next, NEW failed, MoveItems(here, from, to, next, failed)
    PROVE  /\ at = here /\ UNCHANGED rest /\ Derived
           /\ Moves(here, from, to, next, failed)
<1> USE DEF Moves
<1>1. UNCHANGED fs => Derived
  BY SameDerived
<1>2. CASE LinkItem(here, from, to)
  <2>1. ASSUME NEW k \in Unlinked(from, to), Has(to, k), fs' = Without(to, k)
        PROVE  Derived /\ Removed(to, k)
    BY <2>1, RemoveEffect, RemovedDerived
  <2>2. ASSUME NEW k \in Unlinked(from, to), fs' = Renamed(from, to, k)
        PROVE  Derived /\ Taken(from, to, k)
    BY <2>2, RenameEffect, TakenDerived DEF Unlinked
  <2>3. ASSUME NEW k \in Unlinked(from, to), fs' = Put(to, k, fs[from][k])
        PROVE  Derived /\ Added(to, k, fs[from][k])
    BY <2>3, PutEffect, AddedDerived DEF Unlinked
  <2>4. CASE Unlinked(from, to) = {}
    BY <1>1, <1>2, <2>4 DEF LinkItem
  <2>5. CASE Unlinked(from, to) # {}
    <3>1. PICK k \in Unlinked(from, to) :
             fs' = IF Has(to, k) THEN Without(to, k)
                   ELSE IF Renames THEN Renamed(from, to, k)
                   ELSE Put(to, k, fs[from][k])
      BY <1>2, <2>5 DEF LinkItem
    <3>2. at = here /\ moving = "link" /\ moving' = "link" /\ at' = here /\ UNCHANGED rest
      BY <1>2, <2>5 DEF LinkItem
    <3> QED BY <2>1, <2>2, <2>3, <3>1, <3>2
  <2> QED BY <2>4, <2>5
<1>3. CASE UnlinkItem(here, from, next)
  <2>1. ASSUME NEW k \in DOMAIN fs[from], fs' = Without(from, k)
        PROVE  Derived /\ Removed(from, k)
    BY <2>1, RemoveEffect, RemovedDerived
  <2> QED BY <1>1, <1>3, <2>1 DEF UnlinkItem
<1>4. CASE RecoverItem(here, from, to, failed)
  <2>1. ASSUME NEW k \in Linked(from, to), fs' = Without(to, k)
        PROVE  Derived /\ Removed(to, k)
    BY <2>1, RemoveEffect, RemovedDerived
  <2> QED BY <1>1, <1>4, <2>1 DEF RecoverItem
<1> QED BY <1>1, <1>2, <1>3, <1>4 DEF MoveItems, LinkFails, StatFails

----------------------------------------------------------------------------
(* The files keep their types, and an inode is one file.                    *)

\* The directories are different from each other.
LEMMA PlaceNames ==
    /\ Directories \subseteq Places /\ Workshops \subseteq Places
    /\ \A w \in Workshops : w \notin Directories
    /\ {"base", "vacuum", "vacuum/temp", "renew", "renew/temp", "restore"} \subseteq Directories
  BY FactoryConstants DEF Places, Directories

\* What is read is data.
LEMMA ReadableData ==
    ASSUME FilesType PROVE (\A p \in Places : Readable(p) \subseteq Data) /\ Deposited \subseteq Data
<1>1. \A p \in Places : Readable(p) \subseteq Data
  BY DEF FilesType, Readable, Has, File
<1> QED BY <1>1, PlaceNames DEF Deposited

\* A database that is made has inodes of its own.
LEMMA MakeFiles ==
    ASSUME FilesType, SameInode, NEW p \in Places, NEW data \in SUBSET Data,
           NEW kinds \in SUBSET {"main", "material"}, NEW here, NEW next,
           Make(here, p, data, kinds, next)
    PROVE  /\ at = here /\ at' = next /\ UNCHANGED <<moving, rest>>
           /\ Others(p) /\ DOMAIN fs'[p] = kinds
           /\ "main" \in kinds => fs'[p]["main"].data = data
           /\ FilesType' /\ SameInode'
<1>1. /\ Others(p) /\ DOMAIN fs'[p] = kinds
      /\ "main" \in kinds => fs'[p]["main"] = [id |-> NewInode, data |-> data]
      /\ "material" \in kinds => fs'[p]["material"] = [id |-> SecondInode, data |-> {}]
  BY DEF Make, Others, FilesType
<1>2. ASSUME NEW k \in DOMAIN fs'[p]
      PROVE  /\ fs'[p][k] \in File /\ fs'[p][k].id \notin Inodes
             /\ k = "main" => fs'[p][k].id = NewInode
             /\ k = "material" => fs'[p][k].id = SecondInode
  <2>1. k \in kinds /\ (k = "main" \/ k = "material")
    BY <1>1, Zenon
  <2>2. CASE k = "main"
    BY <1>1, <2>1, <2>2, FreshInodes DEF File
  <2>3. CASE k = "material"
    BY <1>1, <2>1, <2>3, FreshInodes DEF File
  <2> QED BY <2>1, <2>2, <2>3
<1>3. \A k, j \in DOMAIN fs'[p] : fs'[p][k].id = fs'[p][j].id => k = j
  <2>1. \A k \in DOMAIN fs'[p] : k = "main" \/ k = "material"
    BY <1>1, Zenon
  <2>2. NewInode # SecondInode
    BY FreshInodes
  <2> QED BY <1>2, <2>1, <2>2
<1>4. FilesType' /\ SameInode'
  BY <1>1, <1>2, <1>3, FreshFiles, Zenon DEF Others, Kinds
<1> QED BY <1>1, <1>4 DEF Make

\* The files after a change of content, with the same names and inodes.
Rewritten ==
    /\ DOMAIN fs' = Places
    /\ \A p \in Places :
          /\ DOMAIN fs'[p] = DOMAIN fs[p]
          /\ \A k \in DOMAIN fs[p] : fs'[p][k] \in File /\ fs'[p][k].id = fs[p][k].id

\* Links to one file are rewritten alike.
LEMMA RewrittenFiles ==
    ASSUME FilesType, SameInode, Rewritten,
           \A p, q \in Places : \A k \in DOMAIN fs[p] : \A j \in DOMAIN fs[q] :
              fs[p][k].id = fs[q][j].id => fs'[p][k].data = fs'[q][j].data
    PROVE  FilesType' /\ SameInode'
<1>1. FilesType'
  BY DEF Rewritten, FilesType
<1>2. ASSUME NEW p \in Places, NEW q \in Places, NEW k \in DOMAIN fs'[p], NEW j \in DOMAIN fs'[q],
             fs'[p][k].id = fs'[q][j].id
      PROVE  k = j /\ fs'[p][k].data = fs'[q][j].data
  <2>1. k \in DOMAIN fs[p] /\ j \in DOMAIN fs[q] /\ fs[p][k].id = fs[q][j].id
    BY <1>2, SMTT(30) DEF Rewritten
  <2> QED BY <2>1 DEF SameInode
<1> QED BY <1>1, <1>2 DEF SameInode

\* A write to the log loses nothing, whatever else is linked to the log.
LEMMA WriteFiles ==
    ASSUME FilesType, SameInode, Has("base", "wal"), NEW d \in Data,
           fs' = Change(fs["base"]["wal"].id, fs["base"]["wal"].data \cup {d})
    PROVE  /\ Rewritten
           /\ \A p \in Places : \A k \in DOMAIN fs[p] : fs[p][k].data \subseteq fs'[p][k].data
           /\ fs'["base"]["wal"].data = fs["base"]["wal"].data \cup {d}
           /\ FilesType' /\ SameInode'
<1>1. PICK f : f = fs["base"]["wal"]
  OBVIOUS
<1>2. "base" \in Places /\ "wal" \in DOMAIN fs["base"] /\ f \in File
  BY <1>1, PlaceNames DEF FilesType, Has
<1>3. f.id \in Nat /\ f.data \cup {d} \in SUBSET Data
  BY <1>2 DEF File
<1>4. fs' = [p \in Places |-> [k \in DOMAIN fs[p] |->
                IF fs[p][k].id = f.id THEN [id |-> f.id, data |-> f.data \cup {d}] ELSE fs[p][k]]]
  BY <1>1 DEF Change
<1>5. DOMAIN fs' = Places /\ \A p \in Places : DOMAIN fs'[p] = DOMAIN fs[p]
  BY <1>4, Zenon
<1>6. ASSUME NEW p \in Places, NEW k \in DOMAIN fs[p]
      PROVE  /\ fs[p][k].id = f.id => fs'[p][k] = [id |-> f.id, data |-> f.data \cup {d}]
             /\ fs[p][k].id # f.id => fs'[p][k] = fs[p][k]
             /\ fs[p][k] \in File
  <2>1. fs'[p] = [j \in DOMAIN fs[p] |->
                    IF fs[p][j].id = f.id THEN [id |-> f.id, data |-> f.data \cup {d}] ELSE fs[p][j]]
    BY <1>4, Zenon
  <2>2. fs[p][k] \in File
    BY SMTT(30) DEF FilesType
  <2> QED BY <2>1, <2>2, Zenon
<1>7. ASSUME NEW p \in Places, NEW k \in DOMAIN fs[p]
      PROVE  /\ fs'[p][k] \in File /\ fs'[p][k].id = fs[p][k].id
             /\ fs[p][k].id = f.id => fs'[p][k].data = f.data \cup {d}
             /\ fs[p][k].id # f.id => fs'[p][k].data = fs[p][k].data
  <2>1. CASE fs[p][k].id = f.id
    BY <1>3, <1>6, <2>1, SMTT(30) DEF File
  <2>2. CASE fs[p][k].id # f.id
    BY <1>6, <2>2, SMTT(30)
  <2> QED BY <2>1, <2>2, ZenonT(30)
<1>8. Rewritten
  BY <1>5, <1>7, Zenon DEF Rewritten
<1>9. \A p \in Places : \A k \in DOMAIN fs[p] : fs[p][k].data \subseteq fs'[p][k].data
  <2> TAKE p \in Places
  <2> TAKE k \in DOMAIN fs[p]
  <2>1. fs[p][k].id = f.id => fs[p][k].data = f.data
    BY <1>1, <1>2 DEF SameInode
  <2> QED BY <1>7, <2>1, ZenonT(30)
<1>10. fs'["base"]["wal"].data = f.data \cup {d}
  BY <1>1, <1>2, <1>7, Zenon
<1>11. ASSUME NEW p \in Places, NEW q \in Places, NEW k \in DOMAIN fs[p], NEW j \in DOMAIN fs[q],
              fs[p][k].id = fs[q][j].id
       PROVE  fs'[p][k].data = fs'[q][j].data
  <2>1. fs[p][k].data = fs[q][j].data
    BY <1>11 DEF SameInode
  <2> QED BY <1>7, <1>11, <2>1, ZenonT(30)
<1>12. FilesType' /\ SameInode'
  BY <1>8, <1>11, RewrittenFiles, Zenon
<1> QED BY <1>1, <1>8, <1>9, <1>10, <1>12

\* What a checkpoint makes of each file.
LEMMA CheckpointFiles ==
    ASSUME FilesType, SameInode, Has("base", "main"), Checkpoint
    PROVE  /\ Rewritten
           /\ \A p \in Places : \A k \in DOMAIN fs[p] :
                 \/ fs[p][k].id = fs["base"]["main"].id /\ fs'[p][k].data = Readable("base")
                 \/ fs[p][k].id = fs["base"]["wal"].id /\ fs'[p][k].data = {}
                 \/ fs'[p][k].data = fs[p][k].data
           /\ fs'["base"]["main"].data = Readable("base")
           /\ FilesType' /\ SameInode'
<1>1. PICK m, f : m = fs["base"]["main"].id /\ f = fs["base"]["wal"].id
  BY Zenon
<1>2. "base" \in Places /\ "main" \in DOMAIN fs["base"] /\ "wal" \in DOMAIN fs["base"]
  BY PlaceNames DEF Has, Checkpoint
<1>3. m # f
  BY <1>1, <1>2 DEF SameInode
<1>4. Readable("base") \in SUBSET Data /\ {} \in SUBSET Data
  BY <1>2, ReadableData
<1>5. fs' = [p \in Places |-> [k \in DOMAIN fs[p] |->
                IF fs[p][k].id = m THEN [id |-> m, data |-> Readable("base")]
                ELSE IF fs[p][k].id = f THEN [id |-> f, data |-> {}]
                ELSE fs[p][k]]]
  BY <1>1 DEF Checkpoint
<1>6. DOMAIN fs' = Places /\ \A p \in Places : DOMAIN fs'[p] = DOMAIN fs[p]
  BY <1>5
<1>7. ASSUME NEW p \in Places, NEW k \in DOMAIN fs[p]
      PROVE  /\ fs[p][k].id = m => fs'[p][k] = [id |-> m, data |-> Readable("base")]
             /\ fs[p][k].id = f => fs'[p][k] = [id |-> f, data |-> {}]
             /\ fs[p][k].id # m /\ fs[p][k].id # f => fs'[p][k] = fs[p][k]
             /\ fs[p][k] \in File /\ fs[p][k].id \in Nat
  BY <1>3, <1>5, SMTT(30) DEF FilesType, File
<1>8. ASSUME NEW p \in Places, NEW k \in DOMAIN fs[p]
      PROVE  /\ fs'[p][k] \in File /\ fs'[p][k].id = fs[p][k].id
             /\ fs[p][k].id = m => fs'[p][k].data = Readable("base")
             /\ fs[p][k].id = f => fs'[p][k].data = {}
             /\ fs[p][k].id # m /\ fs[p][k].id # f => fs'[p][k].data = fs[p][k].data
  <2>1. CASE fs[p][k].id = m
    BY <1>3, <1>4, <1>7, <2>1, SMTT(30) DEF File
  <2>2. CASE fs[p][k].id = f
    BY <1>3, <1>4, <1>7, <2>2, SMTT(30) DEF File
  <2>3. CASE fs[p][k].id # m /\ fs[p][k].id # f
    BY <1>7, <2>3
  <2> QED BY <2>1, <2>2, <2>3
<1>9. Rewritten
  BY <1>6, <1>8 DEF Rewritten
<1>10. \A p \in Places : \A k \in DOMAIN fs[p] :
          \/ fs[p][k].id = m /\ fs'[p][k].data = Readable("base")
          \/ fs[p][k].id = f /\ fs'[p][k].data = {}
          \/ fs'[p][k].data = fs[p][k].data
  BY <1>8
<1>11. fs'["base"]["main"].data = Readable("base")
  BY <1>1, <1>2, <1>8
<1>12. ASSUME NEW p \in Places, NEW q \in Places, NEW k \in DOMAIN fs[p], NEW j \in DOMAIN fs[q],
              fs[p][k].id = fs[q][j].id
       PROVE  fs'[p][k].data = fs'[q][j].data
  <2>1. fs[p][k].data = fs[q][j].data
    BY <1>12 DEF SameInode
  <2>2. CASE fs[p][k].id = m
    BY <1>8, <1>12, <2>2, ZenonT(30)
  <2>3. CASE fs[p][k].id = f
    BY <1>8, <1>12, <2>3, Zenon
  <2>4. CASE fs[p][k].id # m /\ fs[p][k].id # f
    BY <1>8, <1>12, <2>1, <2>4
  <2> QED BY <2>2, <2>3, <2>4
<1>13. FilesType' /\ SameInode'
  BY <1>9, <1>12, RewrittenFiles
<1> QED BY <1>1, <1>9, <1>10, <1>11, <1>13

\* The file that initialize creates.
LEMMA CreateFiles ==
    ASSUME FilesType, SameInode, CreateFile
    PROVE  /\ Others("base") /\ FilesType' /\ SameInode'
           /\ \/ Has("base", "main") /\ fs' = fs
              \/ /\ ~Has("base", "main")
                 /\ "main" \in DOMAIN fs'["base"]
<1>0. "base" \in Places
  BY PlaceNames
<1>1. CASE Has("base", "main")
  <2>1. fs' = fs BY <1>1 DEF CreateFile
  <2> QED BY <1>1, <2>1, SameDerived, DerivedFiles DEF Others, FilesType
<1>2. CASE ~Has("base", "main")
  <2>1. fs' = [fs EXCEPT !["base"] = [k \in (DOMAIN fs["base"] \ {"wal"}) \cup {"main"} |->
                  IF k = "main" THEN [id |-> NewInode, data |-> {}] ELSE fs["base"][k]]]
    BY <1>2 DEF CreateFile
  <2>2. /\ Others("base")
        /\ DOMAIN fs'["base"] = (DOMAIN fs["base"] \ {"wal"}) \cup {"main"}
        /\ fs'["base"]["main"] = [id |-> NewInode, data |-> {}]
        /\ \A k \in DOMAIN fs["base"] \ {"wal"} : k # "main" /\ fs'["base"][k] = fs["base"][k]
    BY <1>0, <1>2, <2>1 DEF Others, FilesType, Has
  <2>3. /\ fs'["base"]["main"] \in File /\ fs'["base"]["main"].id = NewInode
        /\ NewInode \notin Inodes
    BY <2>2, FreshInodes DEF File
  <2>4. \A k \in DOMAIN fs["base"] : fs["base"][k].id \in Inodes
    BY <1>0 DEF Inodes
  <2>5. \A k, j \in DOMAIN fs'["base"] : fs'["base"][k].id = fs'["base"][j].id => k = j
    <3> TAKE k, j \in DOMAIN fs'["base"]
    <3>1. CASE k = "main" /\ j # "main"
      BY <2>2, <2>3, <2>4, <3>1
    <3>2. CASE k # "main" /\ j = "main"
      BY <2>2, <2>3, <2>4, <3>2
    <3>3. CASE k # "main" /\ j # "main"
      BY <1>0, <2>2, <3>3 DEF SameInode
    <3> QED BY <3>1, <3>2, <3>3
  <2>6. DOMAIN fs'["base"] \subseteq Kinds
    BY <1>0, <2>2 DEF FilesType, Kinds
  <2>7. FilesType' /\ SameInode'
    BY <1>0, <2>2, <2>3, <2>5, <2>6, FreshFiles DEF Others
  <2> QED BY <1>2, <2>2, <2>7
<1> QED BY <1>1, <1>2

\* The first write creates a log.
LEMMA NewLogFiles ==
    ASSUME FilesType, SameInode, ~Has("base", "wal"), NEW d \in Data,
           fs' = Put("base", "wal", [id |-> NewInode, data |-> {d}])
    PROVE  /\ Added("base", "wal", [id |-> NewInode, data |-> {d}])
           /\ FilesType' /\ SameInode'
<1>0. "base" \in Places
  BY PlaceNames
<1>1. Added("base", "wal", [id |-> NewInode, data |-> {d}])
  BY <1>0, PutEffect
<1>2. /\ fs'["base"]["wal"] \in File /\ fs'["base"]["wal"].id = NewInode
      /\ NewInode \notin Inodes
  BY <1>1, FreshInodes DEF File, Added
<1>3. /\ DOMAIN fs'["base"] = DOMAIN fs["base"] \cup {"wal"}
      /\ \A k \in DOMAIN fs["base"] : k # "wal" /\ fs'["base"][k] = fs["base"][k]
  BY <1>1 DEF Added, Has
<1>4. \A k \in DOMAIN fs["base"] : fs["base"][k].id \in Inodes
  BY <1>0 DEF Inodes
<1>5. \A k, j \in DOMAIN fs'["base"] : fs'["base"][k].id = fs'["base"][j].id => k = j
  <2> TAKE k, j \in DOMAIN fs'["base"]
  <2>1. CASE k = "wal" /\ j # "wal"
    BY <1>2, <1>3, <1>4, <2>1, Zenon
  <2>2. CASE k # "wal" /\ j = "wal"
    BY <1>2, <1>3, <1>4, <2>2, Zenon
  <2>3. CASE k # "wal" /\ j # "wal"
    <3>1. k \in DOMAIN fs["base"] /\ j \in DOMAIN fs["base"]
      BY <1>3, <2>3
    <3>2. fs["base"][k].id = fs["base"][j].id => k = j
      BY <1>0, <3>1 DEF SameInode
    <3> QED BY <1>3, <3>1, <3>2, ZenonT(30)
  <2> QED BY <2>1, <2>2, <2>3
<1>6. DOMAIN fs'["base"] \subseteq Kinds
  BY <1>0, <1>3, SMTT(30) DEF FilesType, Kinds
<1>7. FilesType' /\ SameInode'
  <2>1. DOMAIN fs' = Places /\ \A q \in Places \ {"base"} : fs'[q] = fs[q]
    BY <1>1 DEF Added, Others
  <2>2. \A k \in DOMAIN fs'["base"] :
           \/ k \in DOMAIN fs["base"] /\ fs'["base"][k] = fs["base"][k]
           \/ fs'["base"][k] \in File /\ fs'["base"][k].id \notin Inodes
    BY <1>2, <1>3, SMTT(30)
  <2> QED BY <1>0, <1>5, <1>6, <2>1, <2>2, FreshFiles, Zenon
<1> QED BY <1>1, <1>7

\* A step keeps the types of the files, and links remain links.
LEMMA FilesStep ==
    ASSUME ControlType, FilesType, SameInode, opened => Has("base", "main"), FactoryNext
    PROVE  FilesType' /\ SameInode'
<1>0. Derived => FilesType' /\ SameInode'
  BY DerivedFiles
<1>a. UNCHANGED fs => Derived
  BY SameDerived
<1>m. \A here, next, failed : \A from, to \in Places :
         from # to /\ MoveItems(here, from, to, next, failed) => Derived
  BY MoveItemsFiles
<1>i. \A here, next : \A p \in Places : RemoveItems(here, p, next) => Derived
  BY RemoveItemsFiles
<1>d. \A here, next : \A p \in Directories : RemoveDirectory(here, p, next) => Derived
  BY RemoveDirectoryFiles
<1>p. /\ Directories \subseteq Places /\ Workshops \subseteq Places
      /\ \A w \in Workshops : w # "base"
      /\ {"base", "vacuum", "vacuum/temp", "renew", "renew/temp", "restore"} \subseteq Directories
  BY PlaceNames
<1>1. ASSUME NEW j, Start(j) PROVE Derived
  BY <1>1, <1>a DEF Start
<1>2. CASE VacuumWork
  BY <1>2, <1>0, <1>a, <1>m, <1>i, <1>p DEF VacuumWork, Go
<1>3. CASE VacuumExit
  BY <1>3, <1>0, <1>d, <1>p DEF VacuumExit
<1>4. CASE RenewerWork
  BY <1>4, <1>0, <1>a, <1>m, <1>i, <1>d, <1>p DEF RenewerWork, Go
<1>5. CASE CreateFile
  BY <1>5, CreateFiles
<1>6. CASE Vacuum
  <2>1. CASE Make("executeVacuum", "vacuum/temp", Readable("base"), {"main"}, "vacuumForget")
    BY <2>1, <1>p, MakeFiles, ReadableData
  <2>2. CASE GiveUp("executeVacuum", "vacuumGiveUp")
    BY <2>2, <1>0, <1>a DEF GiveUp, Go
  <2> QED BY <1>6, <1>0, <1>m, <1>i, <1>d, <1>p, <2>1, <2>2, SMTT(30) DEF Vacuum
<1>7. CASE Deposit
  <2>1. ASSUME NEW kinds \in Assembled,
               Make("assemble", "renew/temp", {}, kinds, "renewForget")
        PROVE  FilesType' /\ SameInode'
    <3>1. kinds \in SUBSET {"main", "material"} BY DEF Assembled
    <3> QED BY <2>1, <3>1, <1>p, MakeFiles
  <2>2. CASE GiveUp("assemble", "finish")
    BY <2>2, <1>0, <1>a DEF GiveUp, Go
  <2> QED BY <1>7, <1>0, <1>m, <1>i, <1>d, <1>p, <2>1, <2>2, SMTT(30) DEF Deposit
<1>8. CASE DepositorWork
  BY <1>8, <1>0, <1>a, <1>m, <1>p DEF DepositorWork
<1>9. CASE Retrieve
  <2>1. CASE Make("restore", "restore", Readable("base") \cup Deposited, {"main", "material"},
                  "depositorWork")
    <3>1. Readable("base") \cup Deposited \in SUBSET Data
      BY <1>p, ReadableData
    <3> QED BY <2>1, <3>1, <1>p, MakeFiles
  <2>2. CASE GiveUp("restore", "finish")
    BY <2>2, <1>0, <1>a DEF GiveUp, Go
  <2>3. CASE RemoveDeposited
    <3>1. ASSUME NEW p \in Places, NEW k \in DOMAIN fs[p], fs' = Without(p, k) PROVE Derived
      BY <3>1, RemoveEffect, RemovedDerived
    <3> QED BY <2>3, <3>1, <1>0, <1>a DEF RemoveDeposited
  <2> QED BY <1>9, <1>0, <1>m, <1>d, <1>p, <2>1, <2>2, <2>3, SMTT(30) DEF Retrieve
<1>10. CASE Finish \/ Crash
  BY <1>10, <1>0, <1>a, SMTT(30) DEF Finish, Crash
<1>11. CASE Checkpoint
  BY <1>11, CheckpointFiles, Zenon DEF Checkpoint
<1>12. ASSUME NEW d \in setup.data, Write(d) PROVE FilesType' /\ SameInode'
  <2>1. d \in Data BY FactoryConstants, SMTT(30) DEF ControlType
  <2>2. CASE Has("base", "wal")
    BY <1>12, <2>1, <2>2, WriteFiles, SMTT(30) DEF Write
  <2>3. CASE ~Has("base", "wal")
    BY <1>12, <2>1, <2>3, NewLogFiles DEF Write
  <2> QED BY <2>2, <2>3
<1> QED
  BY <1>0, <1>1, <1>2, <1>3, <1>4, <1>5, <1>6, <1>7, <1>8, <1>9, <1>10, <1>11, <1>12
  DEF FactoryNext

----------------------------------------------------------------------------
(* Nothing is pending in an open database.                                  *)

\* The database is open, or about to be.
Opening == initialized /\ (at = "idle" \/ (at = "finish" /\ job = "open"))

\* No vacuum is pending once FactoryVacuum::work is over, and no renewal once
\* FactoryRenewer::work is; from then on the database exists until the
\* operation takes it away.
PendingInv ==
    /\ \/ Opening
       \/ at \in {"createFile"} \cup RenewerLines \cup DepositLines \cup DepositorLines
                 \cup RetrieveLines
       => ~Has("vacuum", "main")
    /\ Opening \/ at = "createFile" => ~Has("renew", "main")
    /\ \/ Opening
       \/ at \in (VacuumLines \ {"vacuumRemove"}) \cup DepositLines
                 \cup {"depositorWork", "restorePrepare", "restore"}
       => Has("base", "main")

\* Which main files are there after a removal and after a step of moveItems.
LEMMA RemovedHas ==
    ASSUME NEW p, NEW k, Removed(p, k)
    PROVE  /\ \A q \in Places : Has(q, "main")' => Has(q, "main")
           /\ \A q \in Places \ {p} : Has(q, "main")' = Has(q, "main")
  BY SMTT(30) DEF Removed, Others, Has

LEMMA MovesHas ==
    ASSUME NEW here, NEW from \in Places, NEW to \in Places, NEW next, NEW failed,
           Moves(here, from, to, next, failed)
    PROVE  /\ \A q \in Places \ {from, to} : Has(q, "main")' = Has(q, "main")
           /\ at' \in {here, next, failed}
           /\ Has(from, "main")' => Has(from, "main")
  BY SMTT(30) DEF Moves, Removed, Added, Taken, Others, Has, Unlinked, Linked

\* A step keeps what is known of pending vacuums and renewals.
LEMMA PendingStep ==
    ASSUME ControlType, ControlInv, FilesType, SameInode, PendingInv, FactoryNext
    PROVE  PendingInv'
<1> USE DEF VacuumWorkLines, RenewerLines, VacuumLines, DepositLines, DepositorLines, RetrieveLines
<1>p. /\ Directories \subseteq Places /\ Workshops \subseteq Places
      /\ \A w \in Workshops : w \notin {"base", "vacuum", "renew"}
      /\ {"base", "vacuum", "vacuum/temp", "renew", "renew/temp", "restore"} \subseteq Directories
  BY PlaceNames
<1>q. ASSUME UNCHANGED rest PROVE job' = job /\ initialized' = initialized
  BY <1>q DEF rest
<1>f. ASSUME UNCHANGED fs PROVE \A q : Has(q, "main")' = Has(q, "main")
  BY <1>f DEF Has
<1>i. ASSUME NEW here, NEW p \in Places, NEW next, RemoveItems(here, p, next)
      PROVE  /\ at = here /\ at' \in {here, next} /\ UNCHANGED rest
             /\ \A q \in Places : Has(q, "main")' => Has(q, "main")
             /\ \A q \in Places \ {p} : Has(q, "main")' = Has(q, "main")
  BY <1>i, <1>f, RemoveItemsFiles, RemovedHas, Zenon
<1>d. ASSUME NEW here, NEW p \in Directories, NEW next, RemoveDirectory(here, p, next)
      PROVE  /\ at = here /\ UNCHANGED rest
             /\ \/ at' = here
                \/ at' = next /\ ~Has(p, "main")'
             /\ \A q \in Places : Has(q, "main")' => Has(q, "main")
             /\ \A q \in Places \ Inside(p) : Has(q, "main")' = Has(q, "main")
  <2>1. p \in Inside(p) /\ Inside(p) \subseteq Places
    BY <1>p DEF Inside
  <2>2. CASE fs' = fs
    <3>1. \/ at' = here
          \/ at' = next /\ DOMAIN fs[p] = {}
      BY <1>d, <2>1, RemoveDirectoryFiles
    <3>2. at = here /\ UNCHANGED rest
      BY <1>d, RemoveDirectoryFiles, SMTT(30)
    <3> QED BY <1>f, <2>1, <2>2, <3>1, <3>2 DEF Has
  <2>3. CASE fs' # fs
    <3>1. PICK q \in Inside(p) : \E k \in DOMAIN fs[q] : Removed(q, k)
      BY <1>d, <2>3, RemoveDirectoryFiles
    <3> QED BY <1>d, <2>1, <2>3, <3>1, RemoveDirectoryFiles, RemovedHas
  <2> QED BY <2>2, <2>3
<1>m. ASSUME NEW here, NEW from \in Places, NEW to \in Places, from # to, NEW next, NEW failed,
             MoveItems(here, from, to, next, failed)
      PROVE  /\ at = here /\ at' \in {here, next, failed} /\ UNCHANGED rest
             /\ \A q \in Places \ {from, to} : Has(q, "main")' = Has(q, "main")
             /\ Has(from, "main")' => Has(from, "main")
  BY <1>m, MoveItemsFiles, MovesHas
<1>k. ASSUME NEW p \in Places, NEW kinds, NEW data, NEW here, NEW next, Make(here, p, data, kinds, next)
      PROVE  /\ at = here /\ at' = next /\ UNCHANGED rest
             /\ \A q \in Places \ {p} : Has(q, "main")' = Has(q, "main")
  BY <1>k DEF Make, Has, FilesType
<1>g. ASSUME NEW here, NEW next, GiveUp(here, next)
      PROVE  at = here /\ at' = next /\ UNCHANGED rest /\ \A q : Has(q, "main")' = Has(q, "main")
  BY <1>g, <1>f DEF GiveUp, Go
<1>1. ASSUME NEW j, Start(j) PROVE PendingInv'
  BY <1>1 DEF Start, PendingInv, Opening
<1>2. CASE VacuumWork
  <2>1. UNCHANGED rest /\ at' \in {"vacuumClear", "vacuumExit", "vacuumMove", "vacuumGiveUp"}
    BY <1>2, <1>i, <1>m, <1>p DEF VacuumWork, Go
  <2> QED BY <2>1 DEF PendingInv, Opening
<1>3. CASE VacuumExit
  <2>1. /\ UNCHANGED rest
        /\ \/ at' \in {"vacuumExit", "vacuumGiveUp"}
           \/ at' = "finish" /\ (initialized => job = "vacuum")
           \/ at' = "renewerWork" /\ ~Has("vacuum", "main")'
    BY <1>3, <1>d, <1>p, Zenon DEF VacuumExit, ControlInv
  <2> QED BY <1>q, <2>1 DEF PendingInv, Opening
<1>4. CASE RenewerWork
  <2>1. /\ UNCHANGED rest /\ at \in RenewerLines
        /\ Has("vacuum", "main")' = Has("vacuum", "main")
        /\ \/ at' \in RenewerLines
           \/ at' = "finish"
           \/ at' = "createFile" /\ ~Has("renew", "main")'
    <3>1. Inside("renew") = {"renew", "renew/temp"} BY DEF Inside
    <3>2. CASE at = "renewerWork"
      BY <1>4, <3>2, <1>f, <1>i, <1>d, <1>m, <1>p, Zenon DEF RenewerWork, Go, AfterRenewer
    <3>3. CASE at # "renewerWork"
      BY <1>4, <3>3, <1>i, <1>d, <1>m, <1>p, <3>1, SMTT(30) DEF RenewerWork, AfterRenewer
    <3> QED BY <3>2, <3>3
  <2> QED BY <1>q, <2>1 DEF PendingInv, Opening, ControlInv
<1>5. CASE CreateFile
  <2>1. /\ "main" \in DOMAIN fs'["base"]
        /\ Has("vacuum", "main")' = Has("vacuum", "main")
        /\ Has("renew", "main")' = Has("renew", "main")
    BY <1>5, <1>p, CreateFiles DEF Others, Has
  <2> QED BY <1>5, <2>1 DEF CreateFile, PendingInv, Has
<1>6. CASE Vacuum
  <2>1. /\ UNCHANGED rest /\ at \in VacuumLines
        /\ \/ /\ at # "vacuumRemove" /\ Has("base", "main")' = Has("base", "main")
              /\ at' \in VacuumLines \cup {"vacuumGiveUp"}
           \/ at = "vacuumRemove" /\ at' \in {"vacuumRemove", "vacuumWork"}
    <3>1. Inside("vacuum/temp") = {"vacuum/temp"} BY DEF Inside
    <3>2. CASE RemoveDirectory("vacuumPrepare", "vacuum/temp", "executeVacuum")
      BY <1>d, <1>p, <3>1, <3>2
    <3>3. CASE Make("executeVacuum", "vacuum/temp", Readable("base"), {"main"}, "vacuumForget")
      BY <1>k, <1>p, <3>3
    <3>4. CASE GiveUp("executeVacuum", "vacuumGiveUp")
      BY <1>g, <3>4
    <3>5. CASE RemoveItems("vacuumForget", "vacuum", "vacuumKeep")
      BY <1>i, <1>p, <3>5
    <3>6. CASE MoveItems("vacuumKeep", "vacuum/temp", "vacuum", "vacuumKept", "vacuumGiveUp")
      BY <1>m, <1>p, <3>6
    <3>7. CASE RemoveDirectory("vacuumKept", "vacuum/temp", "vacuumRemove")
      BY <1>d, <1>p, <3>1, <3>7
    <3>8. CASE RemoveItems("vacuumRemove", "base", "vacuumWork")
      BY <1>i, <1>p, <3>8, SMTT(30)
    <3> QED BY <1>6, <3>2, <3>3, <3>4, <3>5, <3>6, <3>7, <3>8 DEF Vacuum
  <2> QED BY <1>q, <2>1, SMTT(30) DEF PendingInv, Opening
<1>7. CASE Deposit
  <2>1. /\ UNCHANGED rest /\ at \in DepositLines
        /\ Has("base", "main")' = Has("base", "main")
        /\ Has("vacuum", "main")' = Has("vacuum", "main")
        /\ at' \in DepositLines \cup {"depositorWork", "finish"}
    <3>1. Inside("renew/temp") = {"renew/temp"} BY DEF Inside
    <3>2. CASE RemoveDirectory("renewPrepare", "renew/temp", "assemble")
      BY <1>d, <1>p, <3>1, <3>2, Zenon
    <3>3. ASSUME NEW kinds, Make("assemble", "renew/temp", {}, kinds, "renewForget")
          PROVE  /\ UNCHANGED rest /\ at = "assemble" /\ at' = "renewForget"
                 /\ Has("base", "main")' = Has("base", "main")
                 /\ Has("vacuum", "main")' = Has("vacuum", "main")
      BY <1>k, <1>p, <3>3
    <3>4. CASE GiveUp("assemble", "finish")
      BY <1>g, <3>4
    <3>5. CASE RemoveItems("renewForget", "renew", "renewKeep")
      BY <1>i, <1>p, <3>5
    <3>6. CASE MoveItems("renewKeep", "renew/temp", "renew", "renewKept", "finish")
      BY <1>m, <1>p, <3>6
    <3>7. CASE RemoveDirectory("renewKept", "renew/temp", "depositorWork")
      BY <1>d, <1>p, <3>1, <3>7
    <3> QED BY <1>7, <3>2, <3>3, <3>4, <3>5, <3>6, <3>7 DEF Deposit
  <2> QED BY <1>q, <2>1, SMTT(30) DEF PendingInv, Opening, ControlInv
<1>8. CASE DepositorWork
  <2>1. CASE at = "depositorWork"
    BY <1>8, <2>1, <1>f, <1>m, <1>p, SMTT(30) DEF DepositorWork, PendingInv, Opening
  <2>2. CASE at # "depositorWork"
    <3>1. /\ UNCHANGED rest /\ at = "depositMove"
          /\ Has("vacuum", "main")' = Has("vacuum", "main")
          /\ at' \in {"depositMove", "renewerWork", "restoreMove", "finish"}
      BY <1>8, <2>2, <1>m, <1>p, SMTT(30) DEF DepositorWork
    <3> QED BY <1>q, <3>1 DEF PendingInv, Opening, ControlInv
  <2> QED BY <2>1, <2>2, ZenonT(30)
<1>9. CASE Retrieve
  <2>1. /\ UNCHANGED rest /\ at \in RetrieveLines
        /\ at \in {"restorePrepare", "restore"} => Has("base", "main")' = Has("base", "main")
        /\ Has("vacuum", "main")' => Has("vacuum", "main")
        /\ at' \in RetrieveLines \cup {"depositorWork", "finish"}
        /\ at' \in {"restorePrepare", "restore", "depositorWork"} => at \in {"restorePrepare", "restore"}
    <3>1. Inside("restore") = {"restore"} BY DEF Inside
    <3>2. CASE RemoveDeposited
      <4>1. ASSUME NEW p \in Places, NEW k \in DOMAIN fs[p], fs' = Without(p, k)
            PROVE  Has("vacuum", "main")' => Has("vacuum", "main")
        BY <4>1, <1>p, RemoveEffect, RemovedHas
      <4>2. at = "removeDeposited" /\ at' \in {"removeDeposited", "finish"} /\ UNCHANGED rest
        BY <3>2 DEF RemoveDeposited
      <4>3. Has("vacuum", "main")' => Has("vacuum", "main")
        BY <3>2, <4>1, <1>f DEF RemoveDeposited
      <4> QED BY <4>2, <4>3
    <3>3. CASE RemoveDirectory("restorePrepare", "restore", "restore")
      BY <3>3, <1>d, <1>p, <3>1, ZenonT(30)
    <3>4. CASE MoveItems("restoreMove", "restore", "base", "removeDeposited", "finish")
      BY <3>4, <1>m, <1>p
    <3>5. CASE GiveUp("restore", "finish")
      BY <3>5, <1>g
    <3>6. CASE Make("restore", "restore", Readable("base") \cup Deposited, {"main", "material"},
                    "depositorWork")
      BY <3>6, <1>k, <1>p
    <3> QED BY <1>9, <3>2, <3>3, <3>4, <3>5, <3>6 DEF Retrieve
  <2> QED BY <1>q, <2>1, SMTT(30) DEF PendingInv, Opening, ControlInv
<1>10. CASE Finish
  BY <1>10, <1>f, Zenon DEF Finish, PendingInv, Opening
<1>11. CASE Crash
  BY <1>11, SMTT(30) DEF Crash, PendingInv, Opening
<1>12. CASE Checkpoint
  <2>1. \A q \in Places : Has(q, "main")' = Has(q, "main")
    BY <1>12, CheckpointFiles, ZenonT(30) DEF Checkpoint, opened, PendingInv, Opening, Rewritten, Has
  <2> QED BY <1>12, <1>p, <1>q, <2>1 DEF Checkpoint, opened, PendingInv, Opening
<1>13. ASSUME NEW d \in setup.data, Write(d) PROVE PendingInv'
  <2>1. d \in Data BY FactoryConstants DEF ControlType
  <2>2. \A q \in Places : Has(q, "main")' = Has(q, "main")
    <3>1. CASE Has("base", "wal")
      BY <1>13, <2>1, <3>1, WriteFiles, ZenonT(30) DEF Write, Rewritten, Has
    <3>2. CASE ~Has("base", "wal")
      <4>1. Added("base", "wal", [id |-> NewInode, data |-> {d}])
        BY <1>13, <2>1, <3>2, NewLogFiles, SMTT(30) DEF Write
      <4> QED BY <4>1, SMTT(30) DEF Added, Others, Has
    <3> QED BY <3>1, <3>2, ZenonT(30)
  <2> QED BY <1>13, <1>p, <2>2 DEF Write, opened, PendingInv, Opening
<1> QED
  BY <1>1, <1>2, <1>3, <1>4, <1>5, <1>6, <1>7, <1>8, <1>9, <1>10, <1>11, <1>12, <1>13, SMTT(30)
  DEF FactoryNext

----------------------------------------------------------------------------
(* No data is lost.                                                         *)

\* The main file at p has all data but X.
Covers(g, p, X) == "main" \in DOMAIN g[p] /\ written \subseteq g[p]["main"].data \cup X

Sealed(p) == Covers(fs, p, Deposited)

Within(p) == Covers(fs, p, {})

\* All data is in one of the two databases, and whichever exists has it.
Passing(g, from, to, X) ==
    /\ "main" \in DOMAIN g[from] => Covers(g, from, X)
    /\ "main" \in DOMAIN g[to] => Covers(g, to, X)
    /\ "main" \in DOMAIN g[from] \/ "main" \in DOMAIN g[to]

\* What an initialize that starts now would find: the current database, or
\* else a vacuumed one, or else the deposited ones alone.
Found ==
    IF Has("base", "main") THEN written \subseteq Readable("base") \cup Deposited
    ELSE IF Has("vacuum", "main") THEN written \subseteq fs["vacuum"]["main"].data \cup Deposited
    ELSE written \subseteq Deposited

\* Each deposited file is still the current one.
Duplicated(w) ==
    /\ Has("base", "main")
    /\ \A k \in DOMAIN fs[w] : Has("base", k) /\ fs[w][k] = fs["base"][k]

\* Where the data is while an operation moves files.
Stages ==
    /\ "vacuum" \notin Jobs => DOMAIN fs["vacuum"] = {} /\ DOMAIN fs["vacuum/temp"] = {}
    /\ at \in {"vacuumClear", "vacuumMove"} => "vacuum" \in Jobs
    /\ at = "vacuumClear" => Sealed("vacuum") /\ ~Has("base", "main")
    /\ at = "vacuumMove" /\ moving = "link" => Passing(fs, "vacuum", "base", Deposited)
    /\ at = "vacuumMove" /\ moving = "unlink" => Sealed("base")
    /\ at \in {"vacuumExit", "vacuumGiveUp"} => Has("base", "main") \/ ~Has("vacuum", "main")
    /\ at = "vacuumForget" => Sealed("vacuum/temp")
    /\ at = "vacuumKeep" /\ moving = "link" => Passing(fs, "vacuum/temp", "vacuum", Deposited)
    /\ at = "vacuumKeep" /\ moving = "unlink" => Sealed("vacuum")
    /\ at \in {"vacuumKept", "vacuumRemove"} => Sealed("vacuum")
    /\ at \in {"renewClear", "renewMove", "restoreMove"} => written \subseteq Deposited
    /\ at = "depositMove" /\ moving # "unlink" => Duplicated(workshop)
    /\ at = "depositMove" /\ moving = "unlink" => written \subseteq Deposited
    /\ at \in DepositorLines /\ job = "retrieve" => Within("restore")
    /\ at = "restoreMove" /\ moving = "link" => Passing(fs, "restore", "base", {})
    /\ at = "restoreMove" /\ moving = "unlink" => Within("base")
    /\ at = "removeDeposited" => Within("base")

DataInv == Promised => Found /\ Stages

\* A move takes the data from one directory to the other.
LEMMA PassingStep ==
    ASSUME FilesType, NEW here, NEW from \in Places, NEW to \in Places, from # to,
           NEW next, NEW failed, NEW X, Moves(here, from, to, next, failed),
           here # next, here # failed, next # failed, "stat" \notin Failing,
           moving = "link" => Passing(fs, from, to, X),
           moving = "unlink" => Covers(fs, to, X)
    PROVE  /\ at' = here /\ moving' = "link" => Passing(fs', from, to, X)
           /\ at' = here /\ moving' = "unlink" => Covers(fs', to, X)
           /\ at' = next => Covers(fs', to, X)
<1>1. CASE moving = "link" /\ moving' = "link"
  <2>1. PICK k \in Unlinked(from, to) :
           \/ Has(to, k) /\ Removed(to, k)
           \/ ~Has(to, k) /\ Renames /\ Taken(from, to, k)
           \/ ~Has(to, k) /\ ~Renames /\ Added(to, k, fs[from][k])
    BY <1>1, Zenon DEF Moves
  <2>2. at' = here /\ k \in DOMAIN fs[from] /\ Passing(fs, from, to, X)
    BY <1>1, SMTT(30) DEF Moves, Unlinked
  <2>3. CASE Removed(to, k)
    BY <1>1, <2>2, <2>3, SMTT(30) DEF Passing, Covers, Removed, Others
  <2>4. CASE ~Has(to, k) /\ Taken(from, to, k)
    BY <1>1, <2>2, <2>4, SMTT(30) DEF Passing, Covers, Taken, Has
  <2>5. CASE ~Has(to, k) /\ Added(to, k, fs[from][k])
    BY <1>1, <2>2, <2>5, SMTT(30) DEF Passing, Covers, Added, Others, Has
  <2> QED BY <2>1, <2>3, <2>4, <2>5, ZenonT(30)
<1>2. CASE moving = "link" /\ moving' = "unlink"
  <2>1. at' = here /\ fs' = fs /\ Unlinked(from, to) = {} /\ Passing(fs, from, to, X)
    BY <1>2, SMTT(30) DEF Moves
  <2>2. "main" \in DOMAIN fs[from] => "main" \in DOMAIN fs[to]
    BY <2>1, SMTT(30) DEF Unlinked, Linked
  <2> QED BY <1>2, <2>1, <2>2, SMTT(30) DEF Passing
<1>3. CASE moving = "unlink" /\ moving' = "unlink"
  <2>1. at' = here /\ Covers(fs, to, X) /\ fs'[to] = fs[to]
    BY <1>3, SMTT(30) DEF Moves, Removed, Others
  <2> QED BY <1>3, <2>1, SMTT(30) DEF Covers
<1>4. CASE moving = "unlink" /\ moving' = "link"
  BY <1>4, ZenonT(30) DEF Moves
<1>5. CASE moving = "recover" \/ moving' = "recover"
  BY <1>5, SMTT(30) DEF Moves
<1> QED BY <1>1, <1>2, <1>3, <1>4, <1>5, ZenonT(30) DEF Moves

\* A directory that is left alone has what it had.
LEMMA PlaceKept ==
    ASSUME NEW q, fs'[q] = fs[q], written' = written
    PROVE  /\ Has(q, "main")' = Has(q, "main") /\ Readable(q)' = Readable(q)
           /\ Within(q) => Within(q)'
           /\ Deposited \subseteq Deposited' /\ Sealed(q) => Sealed(q)'
<1>1. Has(q, "main")' = Has(q, "main") /\ Readable(q)' = Readable(q)
  BY DEF Has, Readable
<1> QED BY <1>1 DEF Within, Sealed, Covers

LEMMA DepositedKept ==
    ASSUME \A w \in Workshops : fs'[w] = fs[w] PROVE Deposited' = Deposited
<1>1. \A w \in Workshops : Readable(w)' = Readable(w)
  BY Zenon DEF Readable, Has
<1> QED BY <1>1 DEF Deposited

\* Situations in which the data is found after a step.
LEMMA FoundAfter ==
    /\ written' \subseteq Deposited' => Found'
    /\ Sealed("base")' => Found'
    /\ Within("base")' => Found'
    /\ ~Has("base", "main")' /\ Sealed("vacuum")' => Found'
    /\ Passing(fs, "vacuum", "base", Deposited)' => Found'
<1>1. Has("base", "main")' => fs'["base"]["main"].data \subseteq Readable("base")'
  BY DEF Has, Readable
<1> QED BY <1>1 DEF Found, Sealed, Within, Covers, Passing, Has

LEMMA FoundKept ==
    ASSUME Found, fs'["base"] = fs["base"], written' = written, Deposited \subseteq Deposited',
           Has("base", "main") \/ fs'["vacuum"] = fs["vacuum"]
    PROVE  Found'
<1>1. Has("base", "main")' = Has("base", "main") /\ Readable("base")' = Readable("base")
  BY SMTT(30) DEF Has, Readable
<1> QED BY <1>1 DEF Found, Has

LEMMA SameFiles ==
    ASSUME fs' = fs, written' = written
    PROVE  /\ Deposited' = Deposited /\ Found' = Found
           /\ \A p : Has(p, "main")' = Has(p, "main") /\ Sealed(p)' = Sealed(p) /\ Within(p)' = Within(p)
           /\ \A p, q : /\ Passing(fs, p, q, Deposited)' = Passing(fs, p, q, Deposited)
                        /\ Passing(fs, p, q, {})' = Passing(fs, p, q, {})
           /\ \A w : Duplicated(w)' = Duplicated(w)
           /\ \A p : DOMAIN fs'[p] = DOMAIN fs[p]
<1>1. Deposited' = Deposited
  BY DEF Deposited, Readable, Has
<1> QED BY <1>1, SMTT(30) DEF Found, Has, Readable, Sealed, Within, Covers, Passing, Duplicated

FactoryIInv ==
    /\ ControlType /\ ControlInv /\ FilesType /\ SameInode /\ PendingInv /\ DataInv

\* What a step that leaves control and promises alone keeps.
LEMMA Steady ==
    ASSUME UNCHANGED rest
    PROVE  /\ Jobs' = Jobs /\ Failing' = Failing /\ Renames' = Renames /\ Promised' = Promised
           /\ setup' = setup /\ job' = job /\ workshop' = workshop
           /\ initialized' = initialized /\ written' = written
  BY SMTT(30) DEF rest, Jobs, Failing, Renames, Promised

\* Steps that leave the files alone.
LEMMA QuietData ==
    ASSUME FactoryIInv, Promised, fs' = fs, setup' = setup, written' = written,
           at' \in {"idle", "finish", "vacuumWork", "renewerWork", "createFile", "executeVacuum",
                    "assemble", "renewForget", "restore"}
    PROVE  Found' /\ Stages'
<1>1. Found /\ Stages /\ Jobs' = Jobs
  BY DEF FactoryIInv, DataInv, Jobs
<1> QED BY <1>1, SameFiles DEF Stages, DepositorLines

\* The steps of FactoryVacuum::work keep the data within reach.
LEMMA VacuumWorkData ==
    ASSUME FactoryIInv, Promised, VacuumWork PROVE Found' /\ Stages'
<1>0. Found /\ Stages /\ FilesType
  BY DEF FactoryIInv, DataInv
<1>p. /\ {"base", "vacuum", "vacuum/temp"} \subseteq Places
      /\ \A w \in Workshops : w \in Places /\ w \notin {"base", "vacuum", "vacuum/temp"}
  BY PlaceNames, SMTT(30)
<1>1. CASE at = "vacuumWork"
  <2>1. /\ fs' = fs /\ UNCHANGED rest
        /\ at' = IF Has("vacuum", "main") /\ ~Has("base", "main") THEN "vacuumClear" ELSE "vacuumExit"
    BY <1>1 DEF VacuumWork, Go, RemoveItems, MoveItems, LinkItem, LinkFails, StatFails, UnlinkItem, RecoverItem
  <2>2. /\ Jobs' = Jobs /\ written' = written
    BY <2>1, Steady, SMTT(30)
  <2>3. Has("vacuum", "main") /\ ~Has("base", "main") => "vacuum" \in Jobs /\ Sealed("vacuum")
    BY <1>0 DEF Stages, Found, Sealed, Covers, Has
  <2> QED BY <1>0, <2>1, <2>2, <2>3, SameFiles, SMTT(30) DEF Stages, DepositorLines
<1>2. CASE RemoveItems("vacuumClear", "base", "vacuumMove")
  <2>1. /\ at = "vacuumClear" /\ UNCHANGED <<moving, rest>>
        /\ \/ at' = "vacuumClear" /\ \E k \in DOMAIN fs["base"] : Removed("base", k)
           \/ at' = "vacuumMove" /\ DOMAIN fs["base"] = {} /\ fs' = fs
    BY <1>0, <1>2, <1>p, RemoveItemsFiles, Zenon
  <2>2. /\ Jobs' = Jobs /\ written' = written
        /\ Sealed("vacuum") /\ ~Has("base", "main") /\ "vacuum" \in Jobs
    BY <1>0, <2>1, Steady, SMTT(30) DEF Stages
  <2>3. CASE at' = "vacuumClear"
    <3>1. /\ fs'["vacuum"] = fs["vacuum"] /\ ~Has("base", "main")'
          /\ \A w \in Workshops : fs'[w] = fs[w]
      BY <1>p, <2>1, <2>2, <2>3, SMTT(30) DEF Removed, Others, Has
    <3>2. Sealed("vacuum")'
      <4>1. Deposited' = Deposited
        BY <3>1, DepositedKept, SMTT(30)
      <4> QED BY <2>2, <3>1, <4>1, PlaceKept
    <3> QED BY <2>2, <2>3, <3>1, <3>2, FoundAfter, SMTT(30) DEF Stages, DepositorLines
  <2>4. CASE at' = "vacuumMove"
    <3>1. moving' = "link"
      BY <2>1 DEF FactoryIInv, ControlInv, MoveLines
    <3>2. Passing(fs, "vacuum", "base", Deposited)
      BY <2>2 DEF Passing, Sealed, Covers, Has
    <3> QED BY <1>0, <2>1, <2>2, <2>4, <3>1, <3>2, SameFiles, SMTT(30) DEF Stages, DepositorLines
  <2> QED BY <2>1, <2>3, <2>4
<1>3. CASE MoveItems("vacuumMove", "vacuum", "base", "vacuumExit", "vacuumGiveUp")
  <2>1. /\ at = "vacuumMove" /\ UNCHANGED rest
        /\ Moves("vacuumMove", "vacuum", "base", "vacuumExit", "vacuumGiveUp")
    BY <1>0, <1>3, <1>p, MoveItemsFiles, SMTT(30)
  <2>2. /\ Jobs' = Jobs /\ written' = written /\ "vacuum" \in Jobs
        /\ "link" \notin Failing /\ "stat" \notin Failing /\ moving # "recover"
    BY <1>0, <2>1, Steady, SMTT(30) DEF Stages, Promised, FactoryIInv, ControlInv
  <2>3. \A w \in Workshops : fs'[w] = fs[w]
    BY <1>p, <2>1 DEF Moves, Removed, Added, Taken, Others
  <2>4. Deposited' = Deposited
    BY <2>3, DepositedKept, SMTT(30)
  <2>5. /\ at' = "vacuumMove" /\ moving' = "link" => Passing(fs, "vacuum", "base", Deposited)'
        /\ at' = "vacuumMove" /\ moving' = "unlink" => Sealed("base")'
        /\ at' = "vacuumExit" => Sealed("base")'
    <3>1. /\ at' = "vacuumMove" /\ moving' = "link" => Passing(fs', "vacuum", "base", Deposited)
          /\ at' = "vacuumMove" /\ moving' = "unlink" => Covers(fs', "base", Deposited)
          /\ at' = "vacuumExit" => Covers(fs', "base", Deposited)
      BY <1>0, <1>p, <2>1, <2>2, PassingStep, SMTT(30) DEF Stages, Sealed
    <3> QED BY <2>2, <2>4, <3>1, SMTT(30) DEF Passing, Covers, Sealed
  <2>6. \/ at' = "vacuumMove" /\ moving' \in {"link", "unlink"}
        \/ at' = "vacuumExit"
    BY <2>1, <2>2 DEF Moves
  <2>7. Sealed("base")' => Has("base", "main")'
    BY DEF Sealed, Covers, Has
  <2>8. Found'
    BY <2>5, <2>6, FoundAfter
  <2> QED BY <2>2, <2>5, <2>6, <2>7, <2>8 DEF Stages, DepositorLines
<1> QED BY <1>1, <1>2, <1>3 DEF VacuumWork

\* What FactoryVacuum::exit removes is not needed any more.
LEMMA VacuumExitData ==
    ASSUME FactoryIInv, Promised, VacuumExit PROVE Found' /\ Stages'
<1>0. Found /\ Stages /\ FilesType
  BY DEF FactoryIInv, DataInv
<1>p. /\ {"base", "vacuum", "vacuum/temp"} \subseteq Places /\ "vacuum" \in Directories
      /\ \A w \in Workshops : w \in Places /\ w \notin {"base", "vacuum", "vacuum/temp"}
      /\ Inside("vacuum") = {"vacuum", "vacuum/temp"}
  BY PlaceNames DEF Inside
<1>1. /\ at \in {"vacuumExit", "vacuumGiveUp"} /\ UNCHANGED rest
      /\ \/ at' = at /\ \E q \in {"vacuum", "vacuum/temp"} : \E k \in DOMAIN fs[q] : Removed(q, k)
         \/ at' \in {"finish", "renewerWork"} /\ fs' = fs
  <2>1. CASE RemoveDirectory("vacuumExit", "vacuum", IF initialized THEN "finish" ELSE "renewerWork")
    BY <1>0, <1>p, <2>1, RemoveDirectoryFiles, Zenon
  <2>2. CASE RemoveDirectory("vacuumGiveUp", "vacuum", "finish")
    BY <1>0, <1>p, <2>2, RemoveDirectoryFiles, Zenon
  <2> QED BY <2>1, <2>2 DEF VacuumExit
<1>2. /\ Jobs' = Jobs /\ written' = written /\ setup' = setup
  BY <1>1, Steady
<1>3. CASE fs' = fs /\ at' # at
  BY <1>1, <1>2, <1>3, QuietData, SMTT(30)
<1>4. CASE at' = at
  <2>1. PICK q \in {"vacuum", "vacuum/temp"} : \E k \in DOMAIN fs[q] : Removed(q, k)
    BY <1>1, <1>4
  <2>2. PICK k \in DOMAIN fs[q] : Removed(q, k)
    BY <2>1
  <2>3. /\ fs'["base"] = fs["base"] /\ \A w \in Workshops : fs'[w] = fs[w]
        /\ \A p \in Places : DOMAIN fs'[p] \subseteq DOMAIN fs[p]
    BY <1>p, <2>2, SMTT(30) DEF Removed, Others
  <2>4. Deposited' = Deposited /\ Has("base", "main")' = Has("base", "main")
    BY <1>2, <2>3, DepositedKept, PlaceKept
  <2>5. Has("vacuum", "main")' => Has("vacuum", "main")
    BY <1>p, <2>3, SMTT(30) DEF Has
  <2>6. Has("base", "main") \/ ~Has("vacuum", "main")
    BY <1>0, <1>1 DEF Stages
  <2>7. Found'
    <3>1. CASE Has("base", "main")
      BY <1>0, <1>2, <2>3, <2>4, <3>1, FoundKept, SMTT(30)
    <3>2. CASE ~Has("base", "main")
      BY <1>0, <1>2, <2>4, <2>6, <3>2, FoundAfter, SMTT(30) DEF Found
    <3> QED BY <3>1, <3>2
  <2>8. DOMAIN fs'["vacuum"] \subseteq DOMAIN fs["vacuum"]
        /\ DOMAIN fs'["vacuum/temp"] \subseteq DOMAIN fs["vacuum/temp"]
    BY <1>p, <2>3
  <2> QED BY <1>0, <1>1, <1>2, <1>4, <2>4, <2>5, <2>6, <2>7, <2>8, SMTT(30) DEF Stages, DepositorLines
<1> QED BY <1>1, <1>3, <1>4

\* FactoryRenewer::work runs when the data is deposited, or leaves the current database alone.
LEMMA RenewerData ==
    ASSUME FactoryIInv, Promised, RenewerWork PROVE Found' /\ Stages'
<1>0. Found /\ Stages /\ FilesType
  BY DEF FactoryIInv, DataInv
<1>p. /\ {"base", "vacuum", "vacuum/temp", "renew", "renew/temp"} \subseteq Places
      /\ "renew" \in Directories
      /\ \A w \in Workshops :
            w \in Places /\ w \notin {"base", "vacuum", "vacuum/temp", "renew", "renew/temp"}
      /\ Inside("renew") = {"renew", "renew/temp"}
  BY PlaceNames, SMTT(30) DEF Inside
<1>1. CASE at = "renewerWork"
  <2>1. /\ fs' = fs /\ UNCHANGED rest
        /\ at' = IF ~Has("renew", "main") THEN AfterRenewer
                 ELSE IF Has("base", "main") THEN "renewExit" ELSE "renewClear"
    BY <1>1 DEF RenewerWork, Go, RemoveItems, RemoveDirectory, MoveItems, LinkItem, LinkFails,
                StatFails, UnlinkItem, RecoverItem
  <2>2. /\ Jobs' = Jobs /\ written' = written
    BY <2>1, Steady, SMTT(30)
  <2>3. ~Has("base", "main") => written \subseteq Deposited
    BY <1>0, <1>1, SMTT(30) DEF Found, FactoryIInv, PendingInv, RenewerLines
  <2> QED BY <1>0, <2>1, <2>2, <2>3, SameFiles, SMTT(30) DEF Stages, DepositorLines, AfterRenewer
<1>2. CASE RenewerWork /\ at # "renewerWork"
  <2>1. /\ UNCHANGED rest
        /\ DOMAIN fs' = Places
        /\ \A q \in Places \ {"base", "renew", "renew/temp"} : fs'[q] = fs[q]
        /\ \/ at \in {"renewClear", "renewMove"} /\ at' \in {"renewClear", "renewMove", "renewExit", "finish"}
           \/ /\ at = "renewExit" /\ at' \in {"renewExit", "finish", "createFile"}
              /\ fs'["base"] = fs["base"]
    <3>1. CASE RemoveItems("renewClear", "base", "renewMove")
      BY <1>0, <1>p, <3>1, RemoveItemsFiles, ZenonT(30) DEF Removed, Others, FilesType
    <3>2. CASE MoveItems("renewMove", "renew", "base", "renewExit", "finish")
      <4>1. /\ at = "renewMove" /\ UNCHANGED rest
            /\ Moves("renewMove", "renew", "base", "renewExit", "finish")
        BY <1>0, <1>p, <3>2, MoveItemsFiles
      <4> QED BY <1>0, <1>p, <4>1 DEF Moves, Removed, Added, Taken, Others, FilesType
    <3>3. CASE RemoveDirectory("renewExit", "renew", AfterRenewer)
      BY <1>0, <1>p, <3>3, RemoveDirectoryFiles, ZenonT(30) DEF Removed, Others, FilesType, AfterRenewer
    <3> QED BY <1>2, <3>1, <3>2, <3>3 DEF RenewerWork
  <2>2. /\ Jobs' = Jobs /\ written' = written
    BY <2>1, Steady
  <2>3. Deposited' = Deposited
    BY <1>p, <2>1, DepositedKept
  <2>4. fs'["vacuum"] = fs["vacuum"] /\ fs'["vacuum/temp"] = fs["vacuum/temp"]
    BY <1>p, <2>1
  <2>5. Found'
    <3>1. CASE at \in {"renewClear", "renewMove"}
      BY <1>0, <2>2, <2>3, <3>1, FoundAfter, SMTT(30) DEF Stages
    <3>2. CASE at = "renewExit"
      BY <1>0, <2>1, <2>2, <2>3, <2>4, <3>2, FoundKept, SMTT(30)
    <3> QED BY <2>1, <3>1, <3>2
  <2> QED BY <1>0, <2>1, <2>2, <2>3, <2>4, <2>5, SMTT(30) DEF Stages, DepositorLines
<1> QED BY <1>1, <1>2

\* An empty database is created only when nothing else is left to find.
LEMMA CreateFileData ==
    ASSUME FactoryIInv, Promised, CreateFile PROVE Found' /\ Stages'
<1>0. Found /\ Stages /\ FilesType /\ SameInode
  BY DEF FactoryIInv, DataInv
<1>p. /\ {"base", "vacuum", "vacuum/temp"} \subseteq Places
      /\ \A w \in Workshops : w \in Places /\ w # "base"
  BY PlaceNames
<1>1. at' \in {"finish", "vacuumPrepare", "renewPrepare", "restorePrepare"}
      /\ Jobs' = Jobs /\ written' = written
  <2>1. job \in {"open", "vacuum", "deposit", "retrieve"}
    BY FactoryConstants DEF CreateFile, FactoryIInv, ControlType, ControlInv, Jobs
  <2> QED BY <2>1 DEF CreateFile, FirstLine, Jobs
<1>2. Others("base") /\ (Has("base", "main") => fs' = fs)
  BY <1>0, CreateFiles
<1>3. /\ \A w \in Workshops : fs'[w] = fs[w]
      /\ fs'["vacuum"] = fs["vacuum"] /\ fs'["vacuum/temp"] = fs["vacuum/temp"]
  BY <1>p, <1>2 DEF Others
<1>4. Deposited' = Deposited
  BY <1>3, DepositedKept
<1>5. Found'
  <2>1. CASE Has("base", "main")
    BY <1>0, <1>1, <1>2, <2>1, SameFiles
  <2>2. CASE ~Has("base", "main")
    <3>1. written \subseteq Deposited
      BY <1>0, <2>2 DEF Found, FactoryIInv, PendingInv, CreateFile
    <3> QED BY <1>1, <1>4, <3>1, FoundAfter
  <2> QED BY <2>1, <2>2, ZenonT(30)
<1> QED BY <1>0, <1>1, <1>3, <1>5, Zenon DEF Stages, DepositorLines

\* The vacuumed database has everything before the current one is removed.
LEMMA VacuumData ==
    ASSUME FactoryIInv, Promised, Vacuum PROVE Found' /\ Stages'
<1>0. Found /\ Stages /\ FilesType /\ SameInode /\ PendingInv
  BY DEF FactoryIInv, DataInv
<1>p. /\ {"base", "vacuum", "vacuum/temp"} \subseteq Places /\ "vacuum/temp" \in Directories
      /\ \A w \in Workshops : w \in Places /\ w \notin {"base", "vacuum", "vacuum/temp"}
      /\ Inside("vacuum/temp") = {"vacuum/temp"}
  BY PlaceNames DEF Inside
<1>j. at \in VacuumLines => "vacuum" \in Jobs
  BY DEF FactoryIInv, ControlInv, VacuumLines
<1>b. at \in VacuumLines \ {"vacuumRemove"} => Has("base", "main")
  BY <1>0 DEF PendingInv
<1> USE DEF VacuumLines
\* A step that touches neither the current nor the deposited databases.
<1>k. ASSUME at \in VacuumLines \ {"vacuumRemove"}, UNCHANGED rest,
             \A q \in Places \ {"vacuum", "vacuum/temp"} : fs'[q] = fs[q]
      PROVE  /\ Jobs' = Jobs /\ "vacuum" \in Jobs /\ written' = written
             /\ Deposited' = Deposited /\ Found' /\ Has("base", "main")'
  <2>1. Jobs' = Jobs /\ written' = written
    BY <1>k, Steady
  <2>2. fs'["base"] = fs["base"] /\ \A w \in Workshops : fs'[w] = fs[w]
    BY <1>k, <1>p
  <2>3. Deposited' = Deposited
    BY <2>2, DepositedKept
  <2>4. Found'
    BY <1>0, <1>b, <1>k, <2>1, <2>2, <2>3, FoundKept, SMTT(30)
  <2> QED BY <1>b, <1>j, <1>k, <2>1, <2>2, <2>3, <2>4, SMTT(30) DEF Has
<1>1. CASE RemoveDirectory("vacuumPrepare", "vacuum/temp", "executeVacuum")
  <2>1. /\ at = "vacuumPrepare" /\ UNCHANGED rest /\ at' \in {"vacuumPrepare", "executeVacuum"}
        /\ \A q \in Places \ {"vacuum", "vacuum/temp"} : fs'[q] = fs[q]
    BY <1>0, <1>1, <1>p, RemoveDirectoryFiles, SMTT(30) DEF Removed, Others
  <2> QED BY <1>k, <2>1, SMTT(30) DEF Stages, DepositorLines
<1>2. CASE Make("executeVacuum", "vacuum/temp", Readable("base"), {"main"}, "vacuumForget")
  <2>1. Readable("base") \in SUBSET Data
    BY <1>0, <1>p, ReadableData
  <2>2. /\ at = "executeVacuum" /\ at' = "vacuumForget" /\ UNCHANGED rest
        /\ \A q \in Places \ {"vacuum", "vacuum/temp"} : fs'[q] = fs[q]
        /\ DOMAIN fs'["vacuum/temp"] = {"main"}
        /\ fs'["vacuum/temp"]["main"].data = Readable("base")
    BY <1>0, <1>2, <1>p, <2>1, MakeFiles DEF Others
  <2>3. /\ Jobs' = Jobs /\ "vacuum" \in Jobs /\ written' = written
        /\ Deposited' = Deposited /\ Found'
    BY <1>k, <2>2
  <2>4. Sealed("vacuum/temp")'
    <3>1. written \subseteq Readable("base") \cup Deposited
      BY <1>0, <1>b, <2>2, SMTT(30) DEF Found
    <3> QED BY <2>2, <2>3, <3>1 DEF Sealed, Covers
  <2> QED BY <2>2, <2>3, <2>4 DEF Stages, DepositorLines
<1>3. CASE GiveUp("executeVacuum", "vacuumGiveUp")
  <2>1. at = "executeVacuum" /\ at' = "vacuumGiveUp" /\ fs' = fs /\ UNCHANGED rest
    BY <1>3, SMTT(30) DEF GiveUp, Go
  <2> QED BY <1>k, <2>1 DEF Stages, DepositorLines
<1>4. CASE RemoveItems("vacuumForget", "vacuum", "vacuumKeep")
  <2>1. /\ at = "vacuumForget" /\ UNCHANGED <<moving, rest>>
        /\ \A q \in Places \ {"vacuum"} : fs'[q] = fs[q]
        /\ \/ at' = "vacuumForget"
           \/ at' = "vacuumKeep" /\ DOMAIN fs'["vacuum"] = {}
    BY <1>0, <1>4, <1>p, RemoveItemsFiles, ZenonT(30) DEF Removed, Others
  <2>2. /\ Jobs' = Jobs /\ "vacuum" \in Jobs /\ written' = written
        /\ Deposited' = Deposited /\ Found'
    BY <1>k, <2>1, SMTT(30)
  <2>3. Sealed("vacuum/temp")'
    BY <1>0, <1>p, <2>1, <2>2, PlaceKept, SMTT(30) DEF Stages
  <2>4. moving' = "link"
    BY <2>1 DEF FactoryIInv, ControlInv, MoveLines
  <2>5. at' = "vacuumKeep" => Passing(fs, "vacuum/temp", "vacuum", Deposited)'
    BY <2>1, <2>3 DEF Passing, Sealed, Covers
  <2> QED BY <2>1, <2>2, <2>3, <2>4, <2>5 DEF Stages, DepositorLines
<1>5. CASE MoveItems("vacuumKeep", "vacuum/temp", "vacuum", "vacuumKept", "vacuumGiveUp")
  <2>1. /\ at = "vacuumKeep" /\ UNCHANGED rest
        /\ Moves("vacuumKeep", "vacuum/temp", "vacuum", "vacuumKept", "vacuumGiveUp")
    BY <1>0, <1>5, <1>p, MoveItemsFiles, SMTT(30)
  <2>2. \A q \in Places \ {"vacuum", "vacuum/temp"} : fs'[q] = fs[q]
    BY <1>p, <2>1, SMTT(30) DEF Moves, Removed, Added, Taken, Others
  <2>3. /\ Jobs' = Jobs /\ "vacuum" \in Jobs /\ written' = written
        /\ Deposited' = Deposited /\ Found'
    BY <1>k, <2>1, <2>2
  <2>4. "link" \notin Failing /\ "stat" \notin Failing /\ moving # "recover"
    BY <2>3, SMTT(30) DEF Promised, FactoryIInv, ControlInv
  <2>5. /\ at' = "vacuumKeep" /\ moving' = "link" => Passing(fs', "vacuum/temp", "vacuum", Deposited)
        /\ at' = "vacuumKeep" /\ moving' = "unlink" => Covers(fs', "vacuum", Deposited)
        /\ at' = "vacuumKept" => Covers(fs', "vacuum", Deposited)
    BY <1>0, <1>p, <2>1, <2>4, PassingStep, SMTT(30) DEF Stages, Sealed
  <2>6. /\ at' = "vacuumKeep" /\ moving' = "link" => Passing(fs, "vacuum/temp", "vacuum", Deposited)'
        /\ at' = "vacuumKeep" /\ moving' = "unlink" => Sealed("vacuum")'
        /\ at' = "vacuumKept" => Sealed("vacuum")'
    BY <2>3, <2>5, SMTT(30) DEF Passing, Covers, Sealed
  <2>7. \/ at' = "vacuumKeep" /\ moving' \in {"link", "unlink"}
        \/ at' = "vacuumKept"
    BY <2>1, <2>4, SMTT(30) DEF Moves
  <2> QED BY <2>3, <2>6, <2>7 DEF Stages, DepositorLines
<1>6. CASE RemoveDirectory("vacuumKept", "vacuum/temp", "vacuumRemove")
  <2>1. /\ at = "vacuumKept" /\ UNCHANGED rest /\ at' \in {"vacuumKept", "vacuumRemove"}
        /\ \A q \in Places \ {"vacuum/temp"} : fs'[q] = fs[q]
    BY <1>0, <1>6, <1>p, RemoveDirectoryFiles, Zenon DEF Removed, Others
  <2>2. /\ Jobs' = Jobs /\ "vacuum" \in Jobs /\ written' = written
        /\ Deposited' = Deposited /\ Found'
    BY <1>k, <2>1
  <2>3. Sealed("vacuum")'
    BY <1>0, <1>p, <2>1, <2>2, PlaceKept, Zenon DEF Stages
  <2> QED BY <2>1, <2>2, <2>3 DEF Stages, DepositorLines
<1>7. CASE RemoveItems("vacuumRemove", "base", "vacuumWork")
  <2>1. /\ at = "vacuumRemove" /\ UNCHANGED rest
        /\ \/ /\ at' = "vacuumRemove"
              /\ \E k \in DOMAIN fs["base"] : First("base", k, DOMAIN fs["base"]) /\ Removed("base", k)
           \/ at' = "vacuumWork" /\ fs' = fs
    BY <1>0, <1>7, <1>p, RemoveItemsFiles, Zenon
  <2>2. Jobs' = Jobs /\ "vacuum" \in Jobs /\ written' = written /\ setup' = setup
    BY <1>j, <2>1, Steady
  <2>3. CASE at' = "vacuumWork"
    BY <2>1, <2>2, <2>3, QuietData, SMTT(30)
  <2>4. CASE at' = "vacuumRemove"
    <3>1. PICK k \in DOMAIN fs["base"] : First("base", k, DOMAIN fs["base"]) /\ Removed("base", k)
      BY <2>1, <2>4
    <3>2. \A q \in Places \ {"base"} : fs'[q] = fs[q]
      BY <3>1 DEF Removed, Others
    <3>3. Deposited' = Deposited
      BY <1>p, <3>2, DepositedKept, SMTT(30)
    <3>4. Sealed("vacuum")'
      BY <1>0, <1>p, <2>1, <2>2, <3>2, <3>3, PlaceKept, SMTT(30) DEF Stages
    <3>5. ~Has("base", "main")'
      <4>1. CASE "main" \in DOMAIN fs["base"]
        <5>1. Paths[k] <= Paths["main"]
          BY <3>1, <4>1 DEF First, Precedes
        <5>2. k \in {"main", "wal", "material"}
          BY <1>0, <1>p, SMTT(30) DEF FilesType, Kinds
        <5>3. k = "main"
          BY <5>1, <5>2 DEF Paths
        <5> QED BY <3>1, <5>3, SMTT(30) DEF Removed, Has
      <4>2. CASE "main" \notin DOMAIN fs["base"]
        BY <3>1, <4>2 DEF Removed, Has
      <4> QED BY <4>1, <4>2
    <3>6. Found'
      BY <3>4, <3>5, FoundAfter, SMTT(30)
    <3> QED BY <2>2, <2>4, <3>4, <3>6, SMTT(30) DEF Stages, DepositorLines
  <2> QED BY <2>1, <2>3, <2>4
<1> QED BY <1>1, <1>2, <1>3, <1>4, <1>5, <1>6, <1>7 DEF Vacuum

\* Preparing a renewal touches no data.
LEMMA DepositData ==
    ASSUME FactoryIInv, Promised, Deposit PROVE Found' /\ Stages'
<1>0. Found /\ Stages /\ FilesType /\ SameInode
  BY DEF FactoryIInv, DataInv
<1>p. /\ {"base", "vacuum", "vacuum/temp", "renew", "renew/temp"} \subseteq Places
      /\ "renew/temp" \in Directories
      /\ \A w \in Workshops : w \in Places /\ w \notin {"renew", "renew/temp"}
      /\ Inside("renew/temp") = {"renew/temp"}
  BY PlaceNames, SMTT(30) DEF Inside
<1>1. /\ at \in DepositLines /\ UNCHANGED rest
      /\ at' \in DepositLines \cup {"depositorWork", "finish"}
      /\ \A q \in Places \ {"renew", "renew/temp"} : fs'[q] = fs[q]
  <2> USE DEF DepositLines
  <2>1. CASE RemoveDirectory("renewPrepare", "renew/temp", "assemble")
    BY <1>0, <1>p, <2>1, RemoveDirectoryFiles, ZenonT(30) DEF Removed, Others
  <2>2. ASSUME NEW kinds \in Assembled,
               Make("assemble", "renew/temp", {}, kinds, "renewForget")
        PROVE  /\ at = "assemble" /\ at' = "renewForget" /\ UNCHANGED rest
               /\ \A q \in Places \ {"renew", "renew/temp"} : fs'[q] = fs[q]
    BY <1>0, <1>p, <2>2 DEF Make, FilesType
  <2>3. CASE GiveUp("assemble", "finish")
    BY <2>3 DEF GiveUp, Go
  <2>4. CASE RemoveItems("renewForget", "renew", "renewKeep")
    BY <1>0, <1>p, <2>4, RemoveItemsFiles, ZenonT(30) DEF Removed, Others
  <2>5. CASE MoveItems("renewKeep", "renew/temp", "renew", "renewKept", "finish")
    <3>1. /\ at = "renewKeep" /\ UNCHANGED rest
          /\ Moves("renewKeep", "renew/temp", "renew", "renewKept", "finish")
      BY <1>0, <1>p, <2>5, MoveItemsFiles
    <3> QED BY <1>p, <3>1 DEF Moves, Removed, Added, Taken, Others
  <2>6. CASE RemoveDirectory("renewKept", "renew/temp", "depositorWork")
    BY <1>0, <1>p, <2>6, RemoveDirectoryFiles, Zenon DEF Removed, Others
  <2> QED BY <2>1, <2>2, <2>3, <2>4, <2>5, <2>6 DEF Deposit
<1>2. Jobs' = Jobs /\ written' = written /\ job' = job /\ job = "deposit"
  BY <1>1, Steady DEF FactoryIInv, ControlInv
<1>3. /\ fs'["base"] = fs["base"] /\ fs'["vacuum"] = fs["vacuum"]
      /\ fs'["vacuum/temp"] = fs["vacuum/temp"] /\ \A w \in Workshops : fs'[w] = fs[w]
  BY <1>1, <1>p
<1>4. Deposited' = Deposited
  BY <1>3, DepositedKept, SMTT(30)
<1>5. Found'
  BY <1>0, <1>2, <1>3, <1>4, FoundKept, SMTT(30)
<1> QED BY <1>0, <1>1, <1>2, <1>3, <1>5, SMTT(30) DEF Stages, DepositorLines, DepositLines

\* The current database and a deposited one while it is deposited.
LEMMA DuplicatedReads ==
    ASSUME NEW w, Duplicated(w)
    PROVE  /\ Readable(w) \subseteq Readable("base")
           /\ ~Renames /\ Unlinked("base", w) = {} => Readable("base") \subseteq Readable(w)
<1>1. Readable(w) \subseteq Readable("base")
  BY DEF Duplicated, Readable, Has
<1>2. ASSUME ~Renames, Unlinked("base", w) = {} PROVE Readable("base") \subseteq Readable(w)
  <2>1. \A k \in DOMAIN fs["base"] : k \in DOMAIN fs[w] /\ fs[w][k] = fs["base"][k]
    BY <1>2 DEF Unlinked, Linked, Duplicated
  <2> QED BY <2>1 DEF Readable, Has
<1> QED BY <1>1, <1>2

\* A deposit has every file of the current database before it removes one.
LEMMA DepositorData ==
    ASSUME FactoryIInv, Promised, DepositorWork PROVE Found' /\ Stages'
<1>0. Found /\ Stages /\ FilesType /\ SameInode /\ PendingInv
  BY DEF FactoryIInv, DataInv
<1>p. /\ {"base", "vacuum", "vacuum/temp", "restore"} \subseteq Places
      /\ \A w \in Workshops : w \in Places /\ w \notin {"base", "vacuum", "vacuum/temp", "restore"}
  BY PlaceNames, SMTT(30)
<1>1. CASE at = "depositorWork"
  <2>1. /\ at' = "depositMove" /\ fs' = fs /\ moving' = moving /\ written' = written
        /\ job' = job /\ Jobs' = Jobs /\ DOMAIN fs[workshop'] = {}
    BY <1>1 DEF DepositorWork, IsUnique, Jobs, MoveItems, LinkItem, LinkFails, StatFails,
                UnlinkItem, RecoverItem
  <2>2. moving' = "link"
    BY <1>1, <2>1, SMTT(30) DEF FactoryIInv, ControlInv, MoveLines
  <2>3. Duplicated(workshop)'
    <3>1. Has("base", "main")
      BY <1>0, <1>1 DEF PendingInv
    <3> QED BY <2>1, <3>1, Zenon DEF Duplicated, Has
  <2>4. job = "retrieve" => Within("restore")
    BY <1>0, <1>1, SMTT(30) DEF Stages, DepositorLines
  <2> QED BY <1>0, <2>1, <2>2, <2>3, <2>4, SameFiles, SMTT(30) DEF Stages
<1>2. CASE at # "depositorWork"
  <2> DEFINE w == workshop
             next == IF job = "deposit" THEN "renewerWork" ELSE "restoreMove"
  <2>1. /\ at = "depositMove" /\ UNCHANGED rest /\ w \in Workshops
        /\ Moves("depositMove", "base", w, next, "finish")
    BY <1>0, <1>2, <1>p, MoveItemsFiles, SMTT(30) DEF DepositorWork
  <2>2. /\ Jobs' = Jobs /\ written' = written /\ job' = job /\ workshop' = workshop /\ setup' = setup
        /\ "stat" \notin Failing
        /\ job \in {"deposit", "retrieve"} /\ job \in Jobs /\ ~Renames
    BY <2>1, Steady, SMTT(30) DEF Promised, FactoryIInv, ControlInv, DepositorLines
  <2>3. /\ fs'["vacuum"] = fs["vacuum"] /\ fs'["vacuum/temp"] = fs["vacuum/temp"]
        /\ fs'["restore"] = fs["restore"]
    BY <1>p, <2>1, SMTT(30) DEF Moves, Removed, Added, Taken, Others
  <2>4. job = "retrieve" => Within("restore")'
    BY <1>0, <2>1, <2>2, <2>3, PlaceKept, ZenonT(30) DEF Stages, DepositorLines
  <2>5. CASE moving = "link" /\ moving' = "link"
    <3>0. Duplicated(w)
      BY <1>0, <2>1, <2>5, SMTT(30) DEF Stages
    <3>1. PICK k \in Unlinked("base", w) :
             \/ Has(w, k) /\ Removed(w, k)
             \/ ~Has(w, k) /\ Added(w, k, fs["base"][k])
      BY <2>1, <2>2, <2>5, SMTT(30) DEF Moves
    <3>2. k \in DOMAIN fs["base"] /\ ~Has(w, k)
      BY <2>2, <3>0, <3>1, SMTT(30) DEF Unlinked, Linked, Duplicated, Has
    <3>3. Added(w, k, fs["base"][k]) /\ at' = "depositMove"
      BY <2>1, <2>5, <3>1, <3>2, SMTT(30) DEF Moves
    <3>4. fs'["base"] = fs["base"] /\ \A v \in Workshops \ {w} : fs'[v] = fs[v]
      BY <1>p, <2>1, <3>3, SMTT(30) DEF Added, Others
    <3>5. Duplicated(w)'
      BY <3>0, <3>2, <3>3, <3>4, <2>2 DEF Duplicated, Added, Has
    <3>6. \A v \in Workshops : Readable(v) \subseteq Readable(v)'
      <4> SUFFICES ASSUME NEW v \in Workshops PROVE Readable(v) \subseteq Readable(v)'
        OBVIOUS
      <4>1. CASE v = w
        BY <3>2, <3>3, <4>1 DEF Added, Readable, Has
      <4>2. CASE v # w
        BY <3>4, <4>2 DEF Readable, Has
      <4> QED BY <4>1, <4>2
    <3>7. Deposited \subseteq Deposited'
      BY <3>6, SMTT(30) DEF Deposited
    <3>8. Found'
      BY <1>0, <2>2, <2>3, <3>4, <3>7, FoundKept, SMTT(30)
    <3> QED BY <1>0, <2>2, <2>3, <2>4, <2>5, <3>3, <3>5, <3>8, ZenonT(30) DEF Stages
  <2>6. CASE moving = "link" /\ moving' = "unlink"
    <3>1. at' = "depositMove" /\ fs' = fs /\ Unlinked("base", w) = {} /\ Duplicated(w)
      BY <1>0, <2>1, <2>2, <2>6, ZenonT(30) DEF Moves, Stages
    <3>2. written \subseteq Deposited
      <4>1. Readable("base") \subseteq Deposited
        BY <2>1, <2>2, <3>1, DuplicatedReads, SMTT(30) DEF Deposited
      <4> QED BY <1>0, <3>1, <4>1 DEF Found, Duplicated
    <3> QED BY <1>0, <2>2, <2>4, <2>6, <3>1, <3>2, SameFiles, SMTT(30) DEF Stages
  <2>7. CASE moving = "link" /\ moving' = "recover"
    <3>1. at' = "depositMove" /\ fs' = fs /\ Duplicated(w)
      BY <1>0, <2>1, <2>7, Zenon DEF Moves, Stages
    <3> QED BY <1>0, <2>2, <2>4, <2>7, <3>1, SameFiles, SMTT(30) DEF Stages
  <2>8. CASE moving = "unlink"
    <3>0. written \subseteq Deposited
      BY <1>0, <2>1, <2>8, SMTT(30) DEF Stages
    <3>1. \A v \in Workshops : fs'[v] = fs[v]
      BY <1>p, <2>1, <2>8 DEF Moves, Removed, Others
    <3>2. written' \subseteq Deposited'
      BY <2>2, <3>0, <3>1, DepositedKept
    <3>3. Found'
      BY <3>2, FoundAfter, SMTT(30)
    <3>4. CASE at' = "depositMove"
      <4>1. moving' = "unlink"
        BY <2>1, <2>8, <3>4, SMTT(30) DEF Moves
      <4> QED BY <1>0, <2>2, <2>3, <2>4, <3>2, <3>3, <3>4, <4>1, SMTT(30) DEF Stages
    <3>5. CASE at' # "depositMove"
      <4>1. at' = next /\ moving' = "link" /\ DOMAIN fs'["base"] = {}
        BY <2>1, <2>8, <3>5, SMTT(30) DEF Moves
      <4>2. job = "retrieve" => Passing(fs, "restore", "base", {})'
        BY <2>4, <4>1 DEF Passing, Within, Covers
      <4> QED BY <1>0, <2>2, <2>3, <3>2, <3>3, <4>1, <4>2, ZenonT(30) DEF Stages, DepositorLines
    <3> QED BY <3>4, <3>5
  <2>9. CASE moving = "recover"
    <3>0. Duplicated(w)
      BY <1>0, <2>1, <2>9 DEF Stages
    <3>1. CASE at' = "finish"
      <4>1. fs' = fs
        BY <2>1, <2>9, <3>1, SMTT(30) DEF Moves
      <4> QED BY <2>2, <3>1, <4>1, QuietData, SMTT(30)
    <3>2. CASE at' # "finish"
      <4>1. PICK k \in Linked("base", w) : Removed(w, k)
        BY <2>1, <2>9, <3>2, SMTT(30) DEF Moves
      <4>2. at' = "depositMove" /\ moving' = "recover"
        BY <2>1, <2>9, <3>2, SMTT(30) DEF Moves
      <4>3. fs'["base"] = fs["base"] /\ \A v \in Workshops \ {w} : fs'[v] = fs[v]
        BY <1>p, <2>1, <4>1, SMTT(30) DEF Removed, Others
      <4>4. Duplicated(w)'
        BY <3>0, <4>1, <4>3, <2>2, SMTT(30) DEF Duplicated, Removed, Has
      <4>5. Readable("base")' = Readable("base") /\ Has("base", "main")'
        BY <3>0, <4>3 DEF Readable, Has, Duplicated
      <4>6. \A v \in Workshops \ {w} : Readable(v)' = Readable(v)
        BY <4>3, Zenon DEF Readable, Has
      <4>7. written \subseteq Readable("base") \cup Deposited
        BY <1>0, <3>0 DEF Found, Duplicated
      <4>8. written' \subseteq Readable("base")' \cup Deposited'
        <5> SUFFICES ASSUME NEW x \in written PROVE x \in Readable("base") \cup Deposited'
          BY <2>2, <4>5
        <5>1. CASE x \in Readable("base")
          BY <5>1
        <5>2. CASE x \in Deposited
          <6>1. PICK v \in Workshops : x \in Readable(v)
            BY <5>2 DEF Deposited
          <6>2. CASE v = w
            BY <3>0, <6>1, <6>2, DuplicatedReads
          <6>3. CASE v # w
            BY <4>6, <6>1, <6>3 DEF Deposited
          <6> QED BY <6>2, <6>3
        <5> QED BY <4>7, <5>1, <5>2
      <4>9. Found'
        BY <4>5, <4>8 DEF Found
      <4> QED BY <1>0, <2>2, <2>3, <2>4, <4>2, <4>4, <4>9, ZenonT(30) DEF Stages
    <3> QED BY <3>1, <3>2
  <2> QED BY <2>1, <2>5, <2>6, <2>7, <2>8, <2>9, SMTT(30) DEF Moves
<1> QED BY <1>1, <1>2

\* The restored database has everything before the current one is deposited.
LEMMA RetrieveData ==
    ASSUME FactoryIInv, Promised, Retrieve PROVE Found' /\ Stages'
<1>0. Found /\ Stages /\ FilesType /\ SameInode /\ PendingInv
  BY DEF FactoryIInv, DataInv
<1>p. /\ {"base", "vacuum", "vacuum/temp", "restore"} \subseteq Places /\ "restore" \in Directories
      /\ \A w \in Workshops : w \in Places /\ w \notin {"base", "vacuum", "vacuum/temp", "restore"}
      /\ Inside("restore") = {"restore"}
  BY PlaceNames DEF Inside
<1>b. at \in {"restorePrepare", "restore"} => Has("base", "main")
  BY <1>0 DEF PendingInv
\* A step that only touches the restored database.
<1>k. ASSUME UNCHANGED rest, \A q \in Places \ {"restore"} : fs'[q] = fs[q]
      PROVE  /\ Jobs' = Jobs /\ written' = written /\ job' = job /\ Found'
             /\ fs'["vacuum"] = fs["vacuum"] /\ fs'["vacuum/temp"] = fs["vacuum/temp"]
  <2>1. Jobs' = Jobs /\ written' = written /\ job' = job
    BY <1>k, Steady
  <2>2. /\ fs'["base"] = fs["base"] /\ \A w \in Workshops : fs'[w] = fs[w]
        /\ fs'["vacuum"] = fs["vacuum"] /\ fs'["vacuum/temp"] = fs["vacuum/temp"]
    BY <1>k, <1>p
  <2>3. Deposited' = Deposited
    BY <2>2, DepositedKept
  <2>4. Found'
    BY <1>0, <2>1, <2>2, <2>3, FoundKept, SMTT(30)
  <2> QED BY <2>1, <2>2, <2>4, ZenonT(30)
<1>1. CASE RemoveDirectory("restorePrepare", "restore", "restore")
  <2>1. /\ UNCHANGED rest /\ at' \in {"restorePrepare", "restore"}
        /\ \A q \in Places \ {"restore"} : fs'[q] = fs[q]
    BY <1>0, <1>1, <1>p, RemoveDirectoryFiles, SMTT(30) DEF Removed, Others
  <2> QED BY <1>0, <1>k, <2>1 DEF Stages, DepositorLines
<1>2. CASE Make("restore", "restore", Readable("base") \cup Deposited, {"main", "material"},
                "depositorWork")
  <2>1. Readable("base") \cup Deposited \in SUBSET Data
    <3>1. \A q \in Places : Readable(q) \in SUBSET Data
      BY <1>0, ReadableData
    <3>2. \A w \in Workshops : Readable(w) \subseteq Data
      BY <1>p, <3>1
    <3>3. Readable("base") \subseteq Data /\ Deposited \subseteq Data
      BY <1>p, <3>1, <3>2 DEF Deposited
    <3> QED BY <3>3
  <2>2. /\ at = "restore" /\ at' = "depositorWork" /\ UNCHANGED rest
        /\ \A q \in Places \ {"restore"} : fs'[q] = fs[q]
        /\ DOMAIN fs'["restore"] = {"main", "material"}
        /\ fs'["restore"]["main"].data = Readable("base") \cup Deposited
    <3> DEFINE data == Readable("base") \cup Deposited
               kinds == {"main", "material"}
    <3>1. "restore" \in Places /\ data \in SUBSET Data /\ kinds \in SUBSET {"main", "material"}
      BY <1>p, <2>1
    <3>2. Make("restore", "restore", data, kinds, "depositorWork")
      BY <1>2, SMTT(30)
    <3> HIDE DEF data, kinds
    <3>3. /\ at = "restore" /\ at' = "depositorWork" /\ UNCHANGED <<moving, rest>>
          /\ Others("restore") /\ DOMAIN fs'["restore"] = kinds
          /\ "main" \in kinds => fs'["restore"]["main"].data = data
      BY <1>0, <3>1, <3>2, MakeFiles, SMTT(30)
    <3> QED BY <3>3 DEF Others, data, kinds
  <2>3. Within("restore")'
    <3>1. written \subseteq Readable("base") \cup Deposited
      BY <1>0, <1>b, <2>2 DEF Found
    <3> QED BY <1>k, <2>2, <3>1 DEF Within, Covers
  <2> QED BY <1>0, <1>k, <2>2, <2>3 DEF Stages, DepositorLines
<1>3. CASE GiveUp("restore", "finish")
  <2>1. at' = "finish" /\ fs' = fs /\ UNCHANGED rest
    BY <1>3, SMTT(30) DEF GiveUp, Go
  <2> QED BY <2>1, Steady, QuietData
<1>4. CASE MoveItems("restoreMove", "restore", "base", "removeDeposited", "finish")
  <2>1. /\ at = "restoreMove" /\ UNCHANGED rest
        /\ Moves("restoreMove", "restore", "base", "removeDeposited", "finish")
    BY <1>0, <1>4, <1>p, MoveItemsFiles
  <2>2. Jobs' = Jobs /\ written' = written /\ "stat" \notin Failing
    BY <2>1, Steady, SMTT(30) DEF Promised
  <2>3. /\ fs'["vacuum"] = fs["vacuum"] /\ fs'["vacuum/temp"] = fs["vacuum/temp"]
        /\ \A w \in Workshops : fs'[w] = fs[w]
    BY <1>p, <2>1, SMTT(30) DEF Moves, Removed, Added, Taken, Others
  <2>4. written' \subseteq Deposited'
    BY <1>0, <2>1, <2>2, <2>3, DepositedKept, ZenonT(30) DEF Stages
  <2>5. Found'
    BY <2>4, FoundAfter
  <2>6. /\ at' = "restoreMove" /\ moving' = "link" => Passing(fs', "restore", "base", {})
        /\ at' = "restoreMove" /\ moving' = "unlink" => Covers(fs', "base", {})
        /\ at' = "removeDeposited" => Covers(fs', "base", {})
    BY <1>0, <1>p, <2>1, <2>2, PassingStep, SMTT(30) DEF Stages, Within
  <2>7. /\ at' = "restoreMove" /\ moving' = "link" => Passing(fs, "restore", "base", {})'
        /\ at' = "restoreMove" /\ moving' = "unlink" => Within("base")'
        /\ at' = "removeDeposited" => Within("base")'
    BY <2>2, <2>6 DEF Passing, Covers, Within
  <2>8. at' \in {"restoreMove", "removeDeposited", "finish"}
    BY <2>1 DEF Moves
  <2> QED BY <1>0, <2>2, <2>3, <2>4, <2>5, <2>7, <2>8, ZenonT(30) DEF Stages, DepositorLines
<1>5. CASE RemoveDeposited
  <2>1. at = "removeDeposited" /\ at' \in {"removeDeposited", "finish"} /\ UNCHANGED rest
    BY <1>5 DEF RemoveDeposited
  <2>2. Jobs' = Jobs /\ written' = written /\ setup' = setup
    BY <2>1, Steady
  <2>3. CASE fs' = fs
    <3>1. CASE at' = "finish"
      BY <2>2, <2>3, <3>1, QuietData, SMTT(30)
    <3>2. CASE at' = "removeDeposited"
      BY <1>0, <2>1, <2>2, <2>3, <3>2, SameFiles, SMTT(30) DEF Stages, DepositorLines
    <3> QED BY <2>1, <3>1, <3>2
  <2>4. CASE fs' # fs
    <3>1. PICK p \in Places \ {"base"} : \E k \in DOMAIN fs[p] : fs' = Without(p, k)
      BY <1>5, <2>4 DEF RemoveDeposited
    <3>2. PICK k \in DOMAIN fs[p] : fs' = Without(p, k)
      BY <3>1
    <3>3. Removed(p, k)
      BY <1>0, <3>2, RemoveEffect, SMTT(30)
    <3>4. fs'["base"] = fs["base"] /\ \A q \in Places : DOMAIN fs'[q] \subseteq DOMAIN fs[q]
      BY <1>p, <3>3, SMTT(30) DEF Removed, Others
    <3>5. Within("base")'
      BY <1>0, <2>1, <2>2, <3>4, PlaceKept, ZenonT(30) DEF Stages
    <3>6. Found'
      BY <3>5, FoundAfter, SMTT(30)
    <3>7. "vacuum" \notin Jobs => DOMAIN fs'["vacuum"] = {} /\ DOMAIN fs'["vacuum/temp"] = {}
      <4>1. "vacuum" \notin Jobs => DOMAIN fs["vacuum"] = {} /\ DOMAIN fs["vacuum/temp"] = {}
        BY <1>0 DEF Stages
      <4>2. /\ DOMAIN fs'["vacuum"] \subseteq DOMAIN fs["vacuum"]
            /\ DOMAIN fs'["vacuum/temp"] \subseteq DOMAIN fs["vacuum/temp"]
        BY <1>p, <3>4, SMTT(30)
      <4> QED BY <4>1, <4>2, ZenonT(30)
    <3> QED BY <2>1, <2>2, <3>5, <3>6, <3>7 DEF Stages, DepositorLines
  <2> QED BY <2>3, <2>4
<1> QED BY <1>1, <1>2, <1>3, <1>4, <1>5 DEF Retrieve

\* What is written is in the log, and what was deposited stays.
LEMMA WriteData ==
    ASSUME FactoryIInv, Promised, NEW d \in setup.data, Write(d) PROVE Found' /\ Stages'
<1>0. Found /\ Stages /\ FilesType /\ SameInode /\ PendingInv
  BY DEF FactoryIInv, DataInv
<1>p. /\ {"base", "vacuum", "vacuum/temp"} \subseteq Places
      /\ \A w \in Workshops : w \in Places /\ w \notin {"base", "vacuum", "vacuum/temp"}
  BY PlaceNames, SMTT(30)
<1>1. /\ at = "idle" /\ at' = "idle" /\ setup' = setup /\ written' = written \cup {d}
      /\ Has("base", "main") /\ Jobs' = Jobs
  BY <1>0 DEF Write, opened, PendingInv, Opening, Jobs
<1>2. d \in Data
  BY FactoryConstants, SMTT(30) DEF FactoryIInv, ControlType
<1>3. /\ FilesType' /\ \A p \in Places : \A k \in DOMAIN fs[p] :
            k \in DOMAIN fs'[p] /\ fs[p][k].data \subseteq fs'[p][k].data
      /\ "wal" \in DOMAIN fs'["base"] /\ d \in fs'["base"]["wal"].data
      /\ \A p \in Places \ {"base"} : DOMAIN fs'[p] = DOMAIN fs[p]
  <2>1. CASE Has("base", "wal")
    <3>1. fs' = Change(fs["base"]["wal"].id, fs["base"]["wal"].data \cup {d})
      BY <2>1 DEF Write
    <3> QED BY <1>0, <1>2, <1>p, <2>1, <3>1, WriteFiles, ZenonT(30) DEF Rewritten, Has
  <2>2. CASE ~Has("base", "wal")
    <3>1. fs' = Put("base", "wal", [id |-> NewInode, data |-> {d}])
      BY <2>2, SMTT(30) DEF Write
    <3>2. Added("base", "wal", [id |-> NewInode, data |-> {d}]) /\ FilesType'
      BY <1>0, <1>2, <2>2, <3>1, NewLogFiles, SMTT(30)
    <3> QED BY <1>p, <2>2, <3>2, SMTT(30) DEF Added, Others, Has
  <2> QED BY <2>1, <2>2, ZenonT(30)
<1>4. ASSUME NEW p \in Places PROVE Readable(p) \subseteq Readable(p)'
  BY <1>3 DEF Readable, Has
<1>5. Deposited \subseteq Deposited'
  BY <1>p, <1>4, SMTT(30) DEF Deposited
<1>6. Has("base", "main")' /\ d \in Readable("base")' /\ Readable("base") \subseteq Readable("base")'
  BY <1>1, <1>3, <1>4, <1>p, SMTT(30) DEF Has, Readable
<1>7. Found'
  <2>1. written \subseteq Readable("base") \cup Deposited
    BY <1>0, <1>1 DEF Found
  <2> QED BY <1>1, <1>5, <1>6, <2>1, SMTT(30) DEF Found
<1>8. DOMAIN fs'["vacuum"] = DOMAIN fs["vacuum"] /\ DOMAIN fs'["vacuum/temp"] = DOMAIN fs["vacuum/temp"]
  BY <1>3, <1>p, SMTT(30)
<1> QED BY <1>0, <1>1, <1>7, <1>8 DEF Stages, DepositorLines

\* A checkpoint may empty the log of a deposited database, if it is the current log too.
LEMMA CheckpointData ==
    ASSUME FactoryIInv, Promised, Checkpoint PROVE Found' /\ Stages'
<1>0. Found /\ Stages /\ FilesType /\ SameInode /\ PendingInv
  BY DEF FactoryIInv, DataInv
<1>p. /\ {"base", "vacuum", "vacuum/temp"} \subseteq Places
      /\ \A w \in Workshops : w \in Places /\ w \notin {"base", "vacuum", "vacuum/temp"}
  BY PlaceNames
<1>1. /\ at = "idle" /\ at' = "idle" /\ UNCHANGED rest
      /\ Has("base", "main") /\ Has("base", "wal")
  BY <1>0 DEF Checkpoint, opened, PendingInv, Opening
<1>2. Jobs' = Jobs /\ written' = written
  BY <1>1, Steady, SMTT(30)
<1>3. /\ Rewritten
      /\ \A p \in Places : \A k \in DOMAIN fs[p] :
            \/ fs[p][k].id = fs["base"]["main"].id /\ fs'[p][k].data = Readable("base")
            \/ fs[p][k].id = fs["base"]["wal"].id /\ fs'[p][k].data = {}
            \/ fs'[p][k].data = fs[p][k].data
      /\ fs'["base"]["main"].data = Readable("base")
  BY <1>0, <1>1, CheckpointFiles, SMTT(30)
<1>4. Has("base", "main")' /\ Readable("base") \subseteq Readable("base")'
  BY <1>1, <1>3, <1>p, ZenonT(30) DEF Rewritten, Has, Readable
<1>5. ASSUME NEW w \in Workshops, NEW x \in Readable(w)
      PROVE  x \in Readable("base") \cup Deposited'
  <2>1. PICK k \in DOMAIN fs[w] \ {"material"} : x \in fs[w][k].data /\ Has(w, "main")
    BY <1>5, SMTT(30) DEF Readable
  <2>2. Has(w, "main")' /\ k \in DOMAIN fs'[w] /\ w \in Places
    BY <1>3, <1>p, <2>1, ZenonT(30) DEF Rewritten, Has
  <2>3. fs'[w][k].data \subseteq Readable(w)'
    BY <2>1, <2>2, SMTT(30) DEF Readable
  <2>4. CASE fs'[w][k].data = fs[w][k].data
    BY <2>1, <2>3, <2>4, SMTT(30) DEF Deposited
  <2>5. ASSUME NEW j \in {"main", "wal"}, fs[w][k].id = fs["base"][j].id
        PROVE  x \in Readable("base")
    <3>1. j \in DOMAIN fs["base"] /\ "base" \in Places
      BY <1>1, <1>p, <2>5, SMTT(30) DEF Has
    <3>2. fs[w][k].data = fs["base"][j].data
      BY <1>0, <2>1, <2>2, <2>5, <3>1, SMTT(30) DEF SameInode
    <3> QED BY <1>1, <2>1, <3>1, <3>2, SMTT(30) DEF Readable
  <2> QED BY <1>3, <2>1, <2>2, <2>4, <2>5, ZenonT(30)
<1>6. Found'
  <2>1. written \subseteq Readable("base") \cup Deposited
    BY <1>0, <1>1 DEF Found
  <2>2. Deposited \subseteq Readable("base") \cup Deposited'
    BY <1>5, SMTT(30) DEF Deposited
  <2> QED BY <1>2, <1>4, <2>1, <2>2 DEF Found
<1>7. DOMAIN fs'["vacuum"] = DOMAIN fs["vacuum"] /\ DOMAIN fs'["vacuum/temp"] = DOMAIN fs["vacuum/temp"]
  BY <1>3, <1>p, SMTT(30) DEF Rewritten
<1> QED BY <1>0, <1>1, <1>2, <1>6, <1>7, ZenonT(30) DEF Stages, DepositorLines

\* One step keeps the data within reach of the next initialize.
LEMMA DataStep == ASSUME FactoryIInv, [FactoryNext]_factoryVars PROVE DataInv'
<1>1. setup' = setup
  BY ZenonT(30) DEF FactoryNext, factoryVars, rest, Start, VacuumWork, VacuumExit, RenewerWork, CreateFile,
         Vacuum, Deposit, DepositorWork, Retrieve, Finish, Crash, Checkpoint, Write, RemoveItems,
         RemoveDirectory, MoveItems, LinkItem, LinkFails, StatFails, UnlinkItem, RecoverItem, Make,
         GiveUp, Go, RemoveDeposited
<1>2. Promised' = Promised
  BY <1>1 DEF Promised, Failing, Jobs, Renames
<1>3. SUFFICES ASSUME Promised PROVE Found' /\ Stages'
  BY <1>2 DEF DataInv
<1>4. ASSUME NEW j, Start(j) PROVE Found' /\ Stages'
  BY <1>1, <1>3, <1>4, QuietData DEF Start
<1>5. CASE Finish
  BY <1>1, <1>3, <1>5, QuietData DEF Finish
<1>6. CASE Crash
  BY <1>1, <1>3, <1>6, QuietData, SMTT(30) DEF Crash
<1>7. CASE UNCHANGED factoryVars
  <2>1. fs' = fs /\ at' = at /\ moving' = moving /\ UNCHANGED rest
    BY <1>7 DEF factoryVars
  <2> QED BY <1>3, <2>1, Steady, SameFiles DEF FactoryIInv, DataInv, Stages
<1> QED BY <1>3, <1>4, <1>5, <1>6, <1>7, VacuumWorkData, VacuumExitData, RenewerData, CreateFileData,
           VacuumData, DepositData, DepositorData, RetrieveData, WriteData, CheckpointData, SMTT(30)
        DEF FactoryNext

----------------------------------------------------------------------------
(* Theorems.                                                                *)

\* The inductive invariant of the factory holds in every reachable state, for
\* any data, workshops and failures.
THEOREM FactoryInvariance == FactorySpec => []FactoryIInv
<1>1. FactoryInit => FactoryIInv
  <2> SUFFICES ASSUME FactoryInit PROVE FactoryIInv
    OBVIOUS
  <2>1. ControlType /\ ControlInv
    BY Zenon DEF FactoryInit, ControlType, ControlInv, VacuumWorkLines, RenewerLines, VacuumLines,
           DepositLines, DepositorLines, RetrieveLines, MoveLines
  <2>2. DOMAIN fs = Places /\ \A p \in Places : DOMAIN fs[p] = {}
    BY DEF FactoryInit
  <2>3. FilesType /\ SameInode
    BY <2>2 DEF FilesType, SameInode
  <2>4. PendingInv
    BY SMTT(30) DEF FactoryInit, PendingInv, Opening, VacuumLines, RenewerLines, DepositLines,
           DepositorLines, RetrieveLines
  <2>5. DataInv
    <3>1. written = {} /\ at = "idle"
      BY DEF FactoryInit
    <3>2. DOMAIN fs["vacuum"] = {} /\ DOMAIN fs["vacuum/temp"] = {}
      BY <2>2, PlaceNames
    <3> QED BY <3>1, <3>2 DEF DataInv, Found, Stages, DepositorLines
  <2> QED BY <2>1, <2>3, <2>4, <2>5 DEF FactoryIInv
<1>2. FactoryIInv /\ [FactoryNext]_factoryVars => FactoryIInv'
  <2> SUFFICES ASSUME FactoryIInv, [FactoryNext]_factoryVars PROVE FactoryIInv'
    OBVIOUS
  <2>1. DataInv'
    BY DataStep
  <2>2. CASE FactoryNext
    <3>1. ControlType' /\ ControlInv'
      BY <2>2, ControlStep DEF FactoryIInv
    <3>2. opened => Has("base", "main")
      BY DEF FactoryIInv, PendingInv, Opening, opened
    <3>3. FilesType' /\ SameInode'
      BY <2>2, <3>2, FilesStep DEF FactoryIInv
    <3>4. PendingInv'
      BY <2>2, PendingStep DEF FactoryIInv
    <3> QED BY <2>1, <3>1, <3>3, <3>4 DEF FactoryIInv
  <2>3. CASE UNCHANGED factoryVars
    <3>1. /\ fs' = fs /\ at' = at /\ moving' = moving /\ job' = job /\ setup' = setup
          /\ workshop' = workshop /\ initialized' = initialized /\ written' = written
      BY <2>3, SMTT(30) DEF factoryVars, rest
    <3>2. ControlType' /\ ControlInv'
      BY <3>1 DEF FactoryIInv, ControlType, ControlInv, Jobs, Failing
    <3>3. FilesType' /\ SameInode'
      BY <3>1 DEF FactoryIInv, FilesType, SameInode
    <3>4. PendingInv'
      BY <3>1 DEF FactoryIInv, PendingInv, Opening, Has
    <3> QED BY <2>1, <3>2, <3>3, <3>4 DEF FactoryIInv
  <2> QED BY <2>2, <2>3
<1> QED BY <1>1, <1>2, PTL DEF FactorySpec

\* The variables of the factory always have their types.
THEOREM FactoryTyped == FactorySpec => []FactoryTypeOK
<1>1. FactoryIInv => FactoryTypeOK
  BY DEF FactoryIInv, ControlType, FilesType, FactoryTypeOK, Kinds, Paths
<1> QED BY <1>1, FactoryInvariance, PTL

\* Whenever the database is open, no vacuum and no renewal that was left half
\* done is still to be carried out: FactoryVacuum::exit and FactoryRenewer::work
\* have cleared them, whatever crashed or failed before.
THEOREM NeverPending == FactorySpec => []NothingPending
<1>1. FactoryIInv => NothingPending
  BY SMTT(30) DEF FactoryIInv, PendingInv, Opening, opened, NothingPending
<1> QED BY <1>1, FactoryInvariance, PTL

\* Vacuum, deposit and retrieve lose nothing that was written, even when the
\* process is killed between any two file operations, again and again.
THEOREM DataKept == FactorySpec => []DataNeverLost
<1>1. FactoryIInv => DataNeverLost
  BY DEF FactoryIInv, PendingInv, Opening, opened, DataInv, Found, DataNeverLost, AllDataKept
<1> QED BY <1>1, FactoryInvariance, PTL
=============================================================================
