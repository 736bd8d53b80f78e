------------------------- MODULE CompressionProofs --------------------------
(***************************************************************************)
(* Proofs about Compression, for every set of users and every table they    *)
(* start from: the stepper writes types to the type column only, where the  *)
(* table is steady.                                                         *)
(*                                                                         *)
(* The argument: columns are then only added, at the end, so the columns a  *)
(* thread has read are the beginning of those it sees later, and the index  *)
(* that the info keeps is the one place a type column has in every schema:  *)
(* committed, in a transaction or at a savepoint.  A table that is created  *)
(* and rolled back is created again as it is defined, with its type column  *)
(* second.                                                                  *)
(***************************************************************************)
EXTENDS Compression, TLAPS

\* The names of columns: those the code gives, that of a column that is added, and those
\* tables have from the start.
Names == {"c", "ct", "x"} \cup
         UNION {{cols[i] : i \in DOMAIN cols} : cols \in UNION {s.tables : s \in TableSetups}}

\* What the proof needs to know of the types of the records.
Schema(s) == DOMAIN s = {"cols", "record"} /\ s.cols \in Seq(Names)

Info(k) ==
    /\ DOMAIN k = {"filted", "hints", "needCheck", "index", "acquired", "compressing",
                   "compressed", "hasRecord"}
    /\ k.index \in Nat

Place(p) ==
    /\ DOMAIN p = {"pc", "goal", "hint", "table", "info", "metas"}
    /\ p.metas \in Seq(Names)

CompressionTypeOK ==
    /\ setup \in TableSetups
    /\ Schema(disk) /\ Schema(work) /\ Schema(saved)
    /\ writer \in Users \cup {NoThread}
    /\ Info(known)
    /\ DOMAIN thread = Threads /\ \A t \in Threads : Place(thread[t])
    /\ raced \in BOOLEAN

\* p is the beginning of q.
Begin(p, q) == Len(p) <= Len(q) /\ \A i \in 1..Len(p) : q[i] = p[i]

\* There is one type column at most.
Single(cols) ==
    \A i, j \in 1..Len(cols) : cols[i] = "ct" /\ cols[j] = "ct" => i = j

\* An index is not known or that of the type column.
Right(cols, k) == \A i \in 1..Len(cols) : cols[i] = "ct" => k \in {0, i}

\* What a table has whose columns are those of its definition.
Small(cols) == cols \in {NoTable, <<"c">>, <<"c", "ct">>}

Alters(t) == thread[t].pc \in {"alter", "alterFix"}

DiskInv == Single(disk.cols) /\ Right(disk.cols, known.index)

\* A transaction only adds columns to those that are committed, a savepoint to
\* those before it, and what a thread read is the beginning of what it sees.
WorkInv ==
    writer # NoThread =>
        Single(work.cols) /\ Right(work.cols, known.index) /\ Begin(disk.cols, work.cols)

SavedInv ==
    (writer # NoThread /\ level = 2) =>
        Begin(disk.cols, saved.cols) /\ Begin(saved.cols, work.cols)

MetasInv ==
    \A t \in Threads : Alters(t) =>
        thread[t].metas # NoTable /\ Begin(thread[t].metas, View(t).cols)

\* While no table is committed, a transaction can only have created it as it is defined.
SmallInv ==
    disk.cols = NoTable =>
        /\ ~setup.alters
        /\ known.index \in {0, 2}
        /\ writer # NoThread => Small(work.cols)
        /\ (writer # NoThread /\ level = 2) => Small(saved.cols)

ColumnsInv ==
    (Steady /\ ~raced) => DiskInv /\ WorkInv /\ SavedInv /\ MetasInv /\ SmallInv

\* Nobody takes the type column to be there whose index is not known.
Knows(t) == thread[t].pc \in {"flag", "flagFix", "prepare", "prepareFix", "rows"}

IndexInv ==
    /\ ~known.needCheck => known.index # 0
    /\ \A t \in Threads : Knows(t) => known.index # 0
    /\ (Steady /\ ~raced /\ At(Stepper, "rows")) => Typed(disk)

CompressionIInv == CompressionTypeOK /\ ColumnsInv /\ IndexInv

-----------------------------------------------------------------------------
(* Types. *)

LEMMA DefinedTyped ==
    NoTable \in Seq(Names) /\ <<"c">> \in Seq(Names) /\ <<"c", "ct">> \in Seq(Names)
<1>1. "c" \in Names /\ "ct" \in Names BY DEF Names
<1>2. QED BY <1>1 DEF NoTable

\* A sequence is another one with an element appended.
LEMMA AppendEquals ==
    ASSUME NEW S, NEW s \in Seq(S), NEW q \in Seq(S), NEW b \in S,
           Len(q) = Len(s) + 1, q[Len(q)] = b, \A i \in 1..Len(s) : s[i] = q[i]
    PROVE  Append(s, b) = q
OBVIOUS

LEMMA AppendToOne ==
    ASSUME NEW S, NEW a \in S, NEW b \in S
    PROVE  Append(<<a>>, b) = <<a, b>> /\ Len(<<a>>) = 1
<1>1. <<a>> \in Seq(S) /\ Len(<<a>>) = 1 /\ <<a>>[1] = a OBVIOUS
<1>2. <<a, b>> \in Seq(S) /\ Len(<<a, b>>) = 2 /\ <<a, b>>[1] = a /\ <<a, b>>[2] = b OBVIOUS
<1>3. ASSUME NEW s \in Seq(S), Len(s) = 1, s[1] = a, NEW q \in Seq(S), Len(q) = 2, q[1] = a, q[2] = b
      PROVE  Append(s, b) = q
  <2>1. Len(q) = Len(s) + 1 /\ q[Len(q)] = b /\ \A i \in 1..Len(s) : s[i] = q[i] BY <1>3
  <2>2. QED BY <1>3, <2>1, AppendEquals, Zenon
<1>4. QED BY <1>1, <1>2, <1>3, Zenon

LEMMA IdleTyped == Place(Idle) /\ Idle.pc = "idle"
BY DefinedTyped DEF Idle, Place

LEMMA BlankTyped == Schema(Blank) /\ Blank.cols = NoTable
BY DefinedTyped DEF Blank, Schema

LEMMA ViewTyped ==
    ASSUME CompressionTypeOK, NEW t
    PROVE  Schema(View(t))
BY DEF CompressionTypeOK, View

\* A thread that moves leaves the others where they are.
Moves(t, p) ==
    /\ DOMAIN thread' = Threads /\ Place(thread'[t]) /\ thread'[t].pc = p
    /\ \A o \in Threads : o # t => thread'[o] = thread[o]

LEMMA SetsMoves ==
    ASSUME CompressionTypeOK, NEW t \in Threads, NEW new, Place(new), Sets(t, new)
    PROVE  Moves(t, new.pc) /\ thread'[t] = new
BY DEF CompressionTypeOK, Sets, Moves

LEMMA GotoMoves ==
    ASSUME CompressionTypeOK, NEW t \in Threads, NEW p, Goto(t, p)
    PROVE  Moves(t, p)
<1>1. Place([Idle EXCEPT !.pc = p]) /\ [Idle EXCEPT !.pc = p].pc = p
  BY IdleTyped DEF Place
<1>2. QED BY <1>1, SetsMoves, Zenon DEF Goto

LEMMA BeginsMoves ==
    ASSUME CompressionTypeOK, NEW t \in Threads, NEW g, NEW p, Begins(t, g, p)
    PROVE  Moves(t, p)
<1>1. Place([Idle EXCEPT !.pc = p, !.goal = g]) /\ [Idle EXCEPT !.pc = p, !.goal = g].pc = p
  BY IdleTyped DEF Place
<1>2. QED BY <1>1, SetsMoves, Zenon DEF Begins

\* Threads stay as they are, or one of them moves.
LEMMA MovesTyped ==
    ASSUME CompressionTypeOK,
           UNCHANGED thread \/ \E t \in Threads : \E p : Moves(t, p)
    PROVE  DOMAIN thread' = Threads /\ \A t \in Threads : Place(thread'[t])
BY DEF CompressionTypeOK, Moves

LEMMA CompressionInitTyped ==
    ASSUME CompressionInit
    PROVE  CompressionTypeOK
<1>1. Schema(disk)
  <2>1. setup \in TableSetups /\ disk.cols \in setup.tables /\ DOMAIN disk = {"cols", "record"}
    BY DEF CompressionInit
  <2>2. disk.cols \in Seq(STRING)
    BY <2>1, CompressionConstants
  <2>3. \A i \in DOMAIN disk.cols : disk.cols[i] \in Names
    BY <2>1 DEF Names
  <2>4. disk.cols \in Seq(Names)
    BY <2>2, <2>3
  <2>5. QED BY <2>1, <2>4 DEF Schema
<1>2. DOMAIN thread = Threads /\ \A t \in Threads : Place(thread[t])
  BY IdleTyped DEF CompressionInit
<1>3. Info(known)
  BY DEF CompressionInit, Info
<1>4. QED BY <1>1, <1>2, <1>3, BlankTyped, Zenon DEF CompressionInit, CompressionTypeOK

-----------------------------------------------------------------------------
(* Steps that leave the columns as they are. *)

\* The columns, the transaction and the index stay.
Quiet ==
    /\ UNCHANGED <<setup, raced, saved, writer, level>>
    /\ Schema(disk') /\ disk'.cols = disk.cols
    /\ Schema(work') /\ work'.cols = work.cols
    /\ Info(known') /\ known'.index = known.index

\* A thread goes on to a place where the columns it read do not matter, to one where
\* the index is known only if it is, and the stepper to its rows when there is a type column.
Goes(t, p) ==
    /\ Moves(t, p)
    /\ p \notin {"alter", "alterFix"}
    /\ p \in {"flag", "flagFix", "prepare", "prepareFix", "rows"} => Knows(t) \/ ~known.needCheck
    /\ (p = "rows" /\ t = Stepper) => Typed(View(t))

StaysChecked == ~known'.needCheck => ~known.needCheck \/ \E t \in Threads : Knows(t)

LEMMA StepperReadsDisk ==
    ASSUME CompressionTypeOK
    PROVE  View(Stepper) = disk /\ Stepper \in Threads
BY CompressionConstants DEF CompressionTypeOK, View, Threads

LEMMA QuietStep ==
    ASSUME CompressionIInv, Quiet, StaysChecked,
           UNCHANGED thread \/ \E t \in Threads : \E p : Goes(t, p)
    PROVE  CompressionIInv'
<1> USE DEF CompressionIInv
<1>1. CompressionTypeOK'
  <2>1. DOMAIN thread' = Threads /\ \A t \in Threads : Place(thread'[t])
    BY MovesTyped DEF Goes
  <2>2. QED BY <2>1 DEF CompressionTypeOK, Quiet
<1>2. \A t \in Threads : View(t)'.cols = View(t).cols
  BY DEF View, Quiet
<1>3. \A t \in Threads : Alters(t)' => Alters(t) /\ thread'[t] = thread[t]
  BY DEF Alters, Goes, Moves
<1>4. Steady' <=> Steady
  BY DEF Steady, Quiet
<1>5. ColumnsInv'
  <2> SUFFICES ASSUME Steady', ~raced' PROVE (DiskInv /\ WorkInv /\ SavedInv /\ MetasInv /\ SmallInv)'
    BY DEF ColumnsInv
  <2>1. DiskInv /\ WorkInv /\ SavedInv /\ MetasInv /\ SmallInv
    BY <1>4 DEF ColumnsInv, Quiet
  <2>2. DiskInv' /\ WorkInv' /\ SavedInv'
    BY <2>1 DEF DiskInv, WorkInv, SavedInv, Single, Right, Quiet
  <2>3. MetasInv'
    BY <1>2, <1>3, <2>1 DEF MetasInv
  <2>4. SmallInv'
    BY <2>1 DEF SmallInv, Small, Quiet
  <2>5. QED BY <2>2, <2>3, <2>4
<1>6. IndexInv'
  <2>1. ~known'.needCheck => known'.index # 0
    BY DEF IndexInv, StaysChecked, Quiet
  <2>2. ASSUME NEW t \in Threads, Knows(t)' PROVE known'.index # 0
    BY <2>2 DEF IndexInv, Knows, Goes, Moves, Quiet
  <2>3. ASSUME Steady', ~raced', At(Stepper, "rows")' PROVE Typed(disk)'
    BY <1>4, <2>3, StepperReadsDisk DEF IndexInv, At, Goes, Moves, Quiet, Typed
  <2>4. QED BY <2>1, <2>2, <2>3 DEF IndexInv
<1>7. QED BY <1>1, <1>5, <1>6

\* A step that changes neither schema nor members.
LEMMA MoveIsQuiet ==
    ASSUME CompressionTypeOK, UNCHANGED <<setup, schema, members, raced>>
    PROVE  Quiet /\ StaysChecked
BY DEF CompressionTypeOK, Quiet, StaysChecked, schema, members

\* A step that changes what is known, but not the index.
LEMMA KnowingIsQuiet ==
    ASSUME CompressionTypeOK, UNCHANGED <<setup, schema, raced>>, Info(known'),
           known'.index = known.index
    PROVE  Quiet
BY DEF CompressionTypeOK, Quiet, schema

\* The routines of initInfo.
LEMMA InitInfoQuiet ==
    ASSUME CompressionTypeOK, NEW t \in Threads,
           readHints(t) \/ tableExist(t) \/ tryCreateRecordTable(t) \/ initInfo(t) \/ defineColumns(t)
    PROVE  Quiet /\ StaysChecked /\ \E p : Goes(t, p)
<1>0. Place(thread[t]) /\ Schema(View(t)) /\ Info(known)
  BY ViewTyped DEF CompressionTypeOK
<1>1. CASE readHints(t)
  <2>1. LET new == [thread[t] EXCEPT !.pc = "exist", !.hint = known.hints]
        IN  Place(new) /\ new.pc = "exist"
    BY <1>0 DEF Place
  <2>2. Moves(t, "exist") BY <1>1, <2>1, SetsMoves, Zenon DEF readHints
  <2>3. QED BY <1>1, <2>2, MoveIsQuiet DEF readHints, Goes
<1>2. CASE tableExist(t)
  <2>1. LET new == [thread[t] EXCEPT !.pc = "record", !.table = Exists(t)]
        IN  Place(new) /\ new.pc = "record"
    BY <1>0 DEF Place
  <2>2. Moves(t, "record") BY <1>2, <2>1, SetsMoves, Zenon DEF tableExist
  <2>3. QED BY <1>2, <2>2, MoveIsQuiet DEF tableExist, Goes
<1>3. CASE tryCreateRecordTable(t)
  <2>1. LET new == [thread[t] EXCEPT !.pc = IF @ = "record" THEN "install" ELSE "filter",
                                     !.info = @ /\ known.filted]
        IN  Place(new) /\ new.pc \in {"install", "filter"}
    BY <1>0 DEF Place
  <2>2. \E p \in {"install", "filter"} : Moves(t, p)
    BY <1>3, <2>1, SetsMoves, Zenon DEF tryCreateRecordTable
  <2>3. LET new == [View(t) EXCEPT !.record = "empty"]
        IN  Schema(new) /\ new.cols = View(t).cols
    BY <1>0 DEF Schema
  <2>4. /\ Schema(disk') /\ disk'.cols = disk.cols
        /\ Schema(work') /\ work'.cols = work.cols
    BY <1>3, <2>3, Zenon DEF tryCreateRecordTable, Write, View, CompressionTypeOK
  <2>5. Info(known') /\ known'.index = known.index /\ known'.needCheck = known.needCheck
    BY <1>0, <1>3 DEF tryCreateRecordTable, Info
  <2>6. UNCHANGED <<setup, raced, saved, writer, level>>
    BY <1>3 DEF tryCreateRecordTable
  <2>7. QED BY <2>2, <2>4, <2>5, <2>6 DEF Goes, Quiet, StaysChecked
<1>4. CASE initInfo(t)
  <2>1. Info(known') /\ known'.index = known.index /\ (~known'.needCheck => ~known.needCheck)
    BY <1>0, <1>4, Zenon DEF initInfo, Info
  <2>2. LET new == [Idle EXCEPT !.pc = "recordAgain", !.info = TRUE]
        IN  Place(new) /\ new.pc = "recordAgain"
    BY IdleTyped DEF Place
  <2>3. \/ \E p \in {"check", "idle", "define"} : Goto(t, p)
        \/ Sets(t, [Idle EXCEPT !.pc = "recordAgain", !.info = TRUE])
    BY <1>4 DEF initInfo
  <2>4. \E p \in {"check", "idle", "define", "recordAgain"} : Moves(t, p)
    BY <2>2, <2>3, GotoMoves, SetsMoves, Zenon
  <2>5. QED BY <1>4, <2>1, <2>4, KnowingIsQuiet DEF initInfo, Goes, StaysChecked
<1>5. CASE defineColumns(t)
  <2>1. LET new == [thread[t] EXCEPT !.pc = "create", !.hint = known.hints]
        IN  Place(new) /\ new.pc = "create"
    BY <1>0 DEF Place
  <2>2. Moves(t, "create") BY <1>5, <2>1, SetsMoves, Zenon DEF defineColumns
  <2>3. QED BY <1>5, <2>2, MoveIsQuiet DEF defineColumns, Goes
<1>6. QED BY <1>1, <1>2, <1>3, <1>4, <1>5

\* A statement that waited for the lock for too long.
LEMMA TimesOutQuiet ==
    ASSUME CompressionTypeOK, NEW t \in Threads, LockTimesOut(t)
    PROVE  Quiet /\ StaysChecked /\ (UNCHANGED thread \/ \E p : Goes(t, p))
<1>1. /\ UNCHANGED <<setup, schema, raced>>
      /\ known' = known \/ known' = [known EXCEPT !.compressing = FALSE]
      /\ UNCHANGED thread \/ \E p \in {"idle", "failed"} : Goto(t, p)
  BY DEF LockTimesOut
<1>2. Info(known') /\ known'.index = known.index /\ known'.needCheck = known.needCheck
  BY <1>1 DEF CompressionTypeOK, Info
<1>3. Quiet /\ StaysChecked BY <1>1, <1>2, KnowingIsQuiet DEF StaysChecked
<1>4. QED BY <1>1, <1>3, GotoMoves DEF Goes

\* The routines of checkCompressingColumn that only look.
LEMMA CheckQuiet ==
    ASSUME CompressionTypeOK, NEW t \in Threads,
           \/ checkCompressingColumn(t) \/ setNeedCheckColumns(t) \/ prepare(t)
           \/ tryFixCompressingColumn(t) \/ Again(t)
    PROVE  Quiet /\ StaysChecked /\ \E p : Goes(t, p)
<1>0. Info(known)
  BY DEF CompressionTypeOK
<1>1. CASE checkCompressingColumn(t)
  <2>1. \E p : /\ Goto(t, p)
               /\ p \in {"meta", "metaFix"} \/ (p \in {"prepare", "prepareFix"} /\ ~known.needCheck)
    BY <1>1 DEF checkCompressingColumn
  <2>2. QED BY <1>1, <2>1, GotoMoves, MoveIsQuiet DEF checkCompressingColumn, Goes
<1>2. CASE setNeedCheckColumns(t)
  <2>1. \E p \in {"prepare", "prepareFix"} : Goto(t, p)
    BY <1>2 DEF setNeedCheckColumns
  <2>2. Knows(t)
    BY <1>2 DEF setNeedCheckColumns, Knows, At
  <2>3. Info(known') /\ known'.index = known.index
    BY <1>0, <1>2 DEF setNeedCheckColumns, Info
  <2>4. QED BY <1>2, <2>1, <2>2, <2>3, GotoMoves, KnowingIsQuiet
        DEF setNeedCheckColumns, Goes, StaysChecked
<1>3. CASE prepare(t)
  <2>1. \E p : /\ Goto(t, p)
               /\ p \in {"idle", "fix", "failed"} \/ (p = "rows" /\ Typed(View(t)))
    BY <1>3 DEF prepare
  <2>2. Knows(t)
    BY <1>3 DEF prepare, Knows, At
  <2>3. QED BY <1>3, <2>1, <2>2, GotoMoves, MoveIsQuiet DEF prepare, Goes
<1>4. CASE tryFixCompressingColumn(t)
  <2>1. \E p \in {"failed", "checkFix"} : Goto(t, p)
    BY <1>4 DEF tryFixCompressingColumn
  <2>2. Info(known') /\ known'.index = known.index /\ known'.needCheck = TRUE
    BY <1>0, <1>4 DEF tryFixCompressingColumn, Info
  <2>3. QED BY <1>4, <2>1, <2>2, GotoMoves, KnowingIsQuiet
        DEF tryFixCompressingColumn, Goes, StaysChecked
<1>5. CASE Again(t)
  <2>1. \E p \in {"idle", "check"} : Goto(t, p)
    BY <1>5 DEF Again
  <2>2. QED BY <1>5, <2>1, GotoMoves, MoveIsQuiet DEF Again, Goes
<1>6. QED BY <1>1, <1>2, <1>3, <1>4, <1>5

\* The steps of the stepper, except the routines it shares with the others.
LEMMA StepsQuiet ==
    ASSUME CompressionTypeOK, Steps
    PROVE  Quiet /\ StaysChecked /\ (UNCHANGED thread \/ \E t \in Threads : \E p : Goes(t, p))
<1>0. Info(known) /\ Schema(disk) /\ Place(thread[Stepper]) /\ Stepper \in Threads
  BY DEF CompressionTypeOK, Threads
<1>1. CASE tryCompressRows
  <2>1. Schema(WithoutRecord(disk)) /\ WithoutRecord(disk).cols = disk.cols
    BY <1>0 DEF Schema, WithoutRecord
  <2>2. Goto(Stepper, "check") \/ UNCHANGED thread
    BY <1>1 DEF tryCompressRows
  <2>3. Info(known') /\ known'.index = known.index /\ known'.needCheck = known.needCheck
    BY <1>0, <1>1 DEF tryCompressRows, Info
  <2>4. Schema(disk') /\ disk'.cols = disk.cols
    BY <1>0, <1>1, <2>1 DEF tryCompressRows
  <2>5. UNCHANGED <<setup, raced, saved, work, writer, level>>
    BY <1>1 DEF tryCompressRows
  <2>6. Quiet /\ StaysChecked
    BY <2>3, <2>4, <2>5 DEF CompressionTypeOK, Quiet, StaysChecked
  <2>7. QED BY <1>0, <2>2, <2>6, GotoMoves DEF Goes
<1>2. CASE getAllTables
  <2>1. \/ \E p \in {"finish", "recordAgain"} : Goto(Stepper, p)
        \/ Begins(Stepper, "acquire", "init")
    BY <1>2 DEF getAllTables
  <2>2. \E p \in {"finish", "recordAgain", "init"} : Moves(Stepper, p)
    BY <1>0, <2>1, GotoMoves, BeginsMoves
  <2>3. QED BY <1>0, <1>2, <2>2, MoveIsQuiet DEF getAllTables, Goes
<1>3. CASE filterComplessingTables
  <2>1. LET new == [thread[Stepper] EXCEPT !.pc = "acquired", !.info = @ /\ disk.record # "done"]
        IN  Place(new) /\ new.pc = "acquired"
    BY <1>0 DEF Place
  <2>2. Moves(Stepper, "idle") \/ Moves(Stepper, "acquired")
    BY <1>0, <1>3, <2>1, GotoMoves, SetsMoves, ZenonT(30) DEF filterComplessingTables
  <2>3. QED BY <1>0, <1>3, <2>2, MoveIsQuiet DEF filterComplessingTables, Goes
<1>4. CASE acquireTables \/ finishStep
  <2>1. Info(known') /\ known'.index = known.index /\ known'.needCheck = known.needCheck
    BY <1>0, <1>4, Zenon DEF acquireTables, finishStep, Info
  <2>2. Goto(Stepper, "idle") BY <1>4 DEF acquireTables, finishStep
  <2>3. QED BY <1>0, <1>4, <2>1, <2>2, GotoMoves, KnowingIsQuiet
        DEF acquireTables, finishStep, Goes, StaysChecked
<1>5. CASE compressRows
  <2>1. \E p \in {"idle", "update"} : Goto(Stepper, p)
    BY <1>5 DEF compressRows
  <2>2. known' = known BY <1>5 DEF compressRows
  <2>3. QED BY <1>0, <1>5, <2>1, <2>2, GotoMoves, KnowingIsQuiet
        DEF compressRows, Goes, StaysChecked
<1>6. CASE updateRecord
  <2>1. Schema(disk') /\ disk'.cols = disk.cols
    BY <1>0, <1>6 DEF updateRecord, Schema
  <2>2. Info(known') /\ known'.index = known.index /\ known'.needCheck = known.needCheck
    BY <1>0, <1>6 DEF updateRecord, Info
  <2>3. UNCHANGED <<setup, raced, saved, work, writer, level>>
    BY <1>6 DEF updateRecord
  <2>4. Goto(Stepper, "idle") BY <1>6 DEF updateRecord
  <2>5. Quiet /\ StaysChecked
    BY <2>1, <2>2, <2>3 DEF CompressionTypeOK, Quiet, StaysChecked
  <2>6. QED BY <1>0, <2>4, <2>5, GotoMoves DEF Goes
<1>7. QED BY <1>1, <1>2, <1>3, <1>4, <1>5, <1>6 DEF Steps

\* What a thread of the application begins, and the end of its transaction.
LEMMA UserQuiet ==
    ASSUME CompressionTypeOK, NEW u \in Users,
           UseTable(u) \/ CreateTable(u) \/ notifyTransactionCommitted(u)
    PROVE  Quiet /\ StaysChecked /\ \E p : Goes(u, p)
<1>0. Info(known) /\ u \in Threads
  BY DEF CompressionTypeOK, Threads
<1>1. CASE UseTable(u) \/ CreateTable(u)
  <2>1. \/ Goto(u, "check")
        \/ \E g \in {"use", "create"} : Begins(u, g, "init")
    BY <1>1 DEF UseTable, CreateTable
  <2>2. \E p \in {"check", "init"} : Moves(u, p)
    BY <1>0, <2>1, GotoMoves, BeginsMoves
  <2>3. QED BY <1>1, <2>2, MoveIsQuiet DEF UseTable, CreateTable, Goes
<1>2. CASE notifyTransactionCommitted(u)
  <2>1. Info(known') /\ known'.index = known.index /\ (~known'.needCheck => ~known.needCheck)
    BY <1>0, <1>2, Zenon DEF notifyTransactionCommitted, Info
  <2>2. Goto(u, "idle") BY <1>2 DEF notifyTransactionCommitted
  <2>3. QED BY <1>0, <1>2, <2>1, <2>2, GotoMoves, KnowingIsQuiet
        DEF notifyTransactionCommitted, Goes, StaysChecked
<1>3. QED BY <1>1, <1>2

-----------------------------------------------------------------------------
(* Columns that are added. *)

LEMMA BeginSelf ==
    ASSUME NEW p \in Seq(Names)
    PROVE  Begin(p, p)
BY DEF Begin

LEMMA BeginTransitive ==
    ASSUME NEW p \in Seq(Names), NEW q \in Seq(Names), NEW r \in Seq(Names),
           Begin(p, q), Begin(q, r)
    PROVE  Begin(p, r)
BY DEF Begin

LEMMA BeginAppend ==
    ASSUME NEW p \in Seq(Names), NEW q \in Seq(Names), NEW e \in Names, Begin(p, q)
    PROVE  Begin(p, Append(q, e))
BY DEF Begin

LEMMA BeginOfNothing ==
    ASSUME NEW p \in Seq(Names), Begin(p, NoTable)
    PROVE  p = NoTable
BY DEF Begin, NoTable

\* The type column stays among columns that are added to.
LEMMA BeginTyped ==
    ASSUME NEW p \in Seq(Names), NEW q \in Seq(Names), Begin(p, q), HasColumn(p, "ct")
    PROVE  HasColumn(q, "ct")
<1>1. PICK i \in 1..Len(p) : p[i] = "ct" BY DEF HasColumn
<1>2. i \in DOMAIN q /\ q[i] = "ct" BY <1>1 DEF Begin
<1>3. QED BY <1>2 DEF HasColumn

\* The index is right for the beginning of columns it is right for.
LEMMA BeginRight ==
    ASSUME NEW p \in Seq(Names), NEW q \in Seq(Names), Begin(p, q), Single(q)
    PROVE  Single(p) /\ \A k : Right(q, k) => Right(p, k)
BY DEF Begin, Single, Right

\* A column "x" does not matter.
LEMMA AppendOther ==
    ASSUME NEW p \in Seq(Names), NEW k, Single(p), Right(p, k)
    PROVE  Single(Append(p, "x")) /\ Right(Append(p, "x"), k)
<1>1. "x" \in Names BY DEF Names
<1>2. QED BY <1>1 DEF Single, Right

\* A type column that is appended is found where it is.
LEMMA AppendType ==
    ASSUME NEW p \in Seq(Names), ~HasColumn(p, "ct")
    PROVE  Single(Append(p, "ct")) /\ Right(Append(p, "ct"), Len(p) + 1)
<1>1. "ct" \in Names BY DEF Names
<1>2. \A i \in 1..Len(p) : p[i] # "ct" BY DEF HasColumn
<1>3. QED BY <1>1, <1>2 DEF Single, Right

\* The type column of columns that were read.
LEMMA PositionRight ==
    ASSUME NEW p \in Seq(Names), HasColumn(p, "ct"), Single(p)
    PROVE  Right(p, PositionOf(p)) /\ PositionOf(p) \in 1..Len(p)
<1>1. PositionOf(p) \in 1..Len(p) /\ p[PositionOf(p)] = "ct"
  BY DEF HasColumn, PositionOf
<1>2. QED BY <1>1 DEF Single, Right

\* The columns as the invariant has them.
LEMMA ColumnsAreSequences ==
    ASSUME CompressionTypeOK
    PROVE  /\ disk.cols \in Seq(Names) /\ work.cols \in Seq(Names) /\ saved.cols \in Seq(Names)
           /\ \A t \in Threads : thread[t].metas \in Seq(Names) /\ View(t).cols \in Seq(Names)
           /\ \A t \in Threads : t # NoThread
BY CompressionConstants DEF CompressionTypeOK, Schema, Place, View

-----------------------------------------------------------------------------
(* Steps of a transaction. *)

LEMMA IndexKept ==
    ASSUME CompressionIInv, UNCHANGED <<setup, known, raced>>,
           \/ UNCHANGED thread
           \/ \E t \in Threads : \E p \in {"idle", "committed", "rolledback"} : Moves(t, p),
           (Steady /\ ~raced /\ Typed(disk)) => Typed(disk)'
    PROVE  IndexInv'
<1>1. \A t \in Threads : Knows(t)' => Knows(t)
  BY DEF Knows, Moves
<1>2. At(Stepper, "rows")' => At(Stepper, "rows")
  BY DEF At, Moves, Threads
<1>3. Steady' <=> Steady
  BY DEF Steady
<1>4. QED BY <1>1, <1>2, <1>3 DEF CompressionIInv, IndexInv

LEMMA BeginStep ==
    ASSUME CompressionIInv, NEW u \in Users, beginTransaction(u) \/ beginNested(u)
    PROVE  CompressionIInv'
<1> USE DEF CompressionIInv
<1>1. CompressionTypeOK'
  BY DEF CompressionTypeOK, beginTransaction, beginNested, members
<1>2. IndexInv'
  BY IndexKept DEF beginTransaction, beginNested, members
<1>3. ColumnsInv'
  <2> SUFFICES ASSUME Steady', ~raced' PROVE (DiskInv /\ WorkInv /\ SavedInv /\ MetasInv /\ SmallInv)'
    BY DEF ColumnsInv
  <2>0. UNCHANGED <<setup, disk, known, thread, raced>>
    BY DEF beginTransaction, beginNested, members
  <2>1. DiskInv /\ WorkInv /\ SavedInv /\ MetasInv /\ SmallInv
    BY <2>0 DEF ColumnsInv, Steady
  <2>2. DiskInv'
    BY <2>0, <2>1 DEF DiskInv, Right
  <2>3. CASE beginTransaction(u)
    <3>1. writer = NoThread /\ writer' = u /\ level' = 1 /\ work' = disk
      BY <2>3 DEF beginTransaction
    <3>2. WorkInv' /\ SavedInv'
      BY <2>0, <2>1, <3>1, BeginSelf, ColumnsAreSequences DEF WorkInv, SavedInv, DiskInv, Right
    <3>3. \A t \in Threads : View(t)' = View(t)
      BY <2>0, <3>1, ColumnsAreSequences DEF View
    <3>4. MetasInv'
      BY <2>0, <2>1, <3>3 DEF MetasInv, Alters
    <3>5. SmallInv'
      BY <2>0, <2>1, <3>1 DEF SmallInv, Small
    <3>6. QED BY <2>2, <3>2, <3>4, <3>5
  <2>4. CASE beginNested(u)
    <3>1. writer = u /\ writer' = writer /\ level' = 2 /\ saved' = work /\ work' = work
      BY <2>4 DEF beginNested
    <3>2. writer # NoThread BY <3>1, ColumnsAreSequences DEF Threads
    <3>3. WorkInv' /\ SavedInv'
      BY <2>0, <2>1, <3>1, <3>2, BeginSelf, ColumnsAreSequences DEF WorkInv, SavedInv, Right
    <3>4. MetasInv'
      BY <2>0, <2>1, <3>1 DEF MetasInv, Alters, View
    <3>5. SmallInv'
      BY <2>0, <2>1, <3>1, <3>2 DEF SmallInv, Small
    <3>6. QED BY <2>2, <3>3, <3>4, <3>5
  <2>5. QED BY <2>3, <2>4
<1>4. QED BY <1>1, <1>2, <1>3

\* A commit makes the columns of the transaction those of the table.
LEMMA CommitStep ==
    ASSUME CompressionIInv, NEW u \in Users, commitTransaction(u)
    PROVE  CompressionIInv'
<1> USE DEF CompressionIInv
<1>0. /\ u \in Threads /\ writer = u /\ writer # NoThread /\ saved' = Blank
      /\ UNCHANGED <<setup, known, raced>>
  BY ColumnsAreSequences DEF Threads, commitTransaction, members
<1>1. \/ level = 2 /\ level' = 1 /\ UNCHANGED <<disk, work, writer, thread>>
      \/ /\ writer' = NoThread /\ disk' = work /\ work' = Blank
         /\ Moves(u, "committed")
  BY <1>0, GotoMoves DEF commitTransaction
<1>2. CompressionTypeOK'
  <2>1. DOMAIN thread' = Threads /\ \A t \in Threads : Place(thread'[t])
    BY <1>0, <1>1, MovesTyped
  <2>2. QED BY <1>0, <1>1, <2>1, BlankTyped DEF CompressionTypeOK
<1>3. (Steady /\ ~raced) => Begin(disk.cols, work.cols)
  BY <1>0 DEF ColumnsInv, WorkInv
<1>4. ColumnsInv'
  <2> SUFFICES ASSUME Steady', ~raced' PROVE (DiskInv /\ WorkInv /\ SavedInv /\ MetasInv /\ SmallInv)'
    BY DEF ColumnsInv
  <2>1. DiskInv /\ WorkInv /\ SavedInv /\ MetasInv /\ SmallInv
    BY <1>0 DEF ColumnsInv, Steady
  <2>2. CASE level = 2 /\ level' = 1 /\ UNCHANGED <<disk, work, writer, thread>>
    <3>1. DiskInv' /\ WorkInv' /\ SavedInv'
      BY <1>0, <2>1, <2>2 DEF DiskInv, WorkInv, SavedInv, Right
    <3>2. MetasInv'
      BY <2>1, <2>2 DEF MetasInv, Alters, View
    <3>3. SmallInv'
      BY <1>0, <2>1, <2>2 DEF SmallInv, Small
    <3>4. QED BY <3>1, <3>2, <3>3
  <2>3. CASE writer' = NoThread /\ disk' = work /\ work' = Blank /\ Moves(u, "committed")
    <3>1. DiskInv' /\ WorkInv' /\ SavedInv'
      BY <1>0, <2>1, <2>3 DEF DiskInv, WorkInv, SavedInv, Right
    <3>2. MetasInv'
      <4> SUFFICES ASSUME NEW t \in Threads, Alters(t)'
                   PROVE  (thread[t].metas # NoTable /\ Begin(thread[t].metas, View(t).cols))'
        BY DEF MetasInv
      <4>1. t # u /\ thread'[t] = thread[t] /\ Alters(t)
        BY <2>3 DEF Moves, Alters
      <4>2. View(t) = disk /\ View(t)' = work
        BY <1>0, <2>3, <4>1, ColumnsAreSequences DEF View
      <4>3. Begin(thread[t].metas, disk.cols) /\ thread[t].metas # NoTable
        BY <2>1, <4>1, <4>2 DEF MetasInv
      <4>4. Begin(thread[t].metas, work.cols)
        BY <1>3, <1>0, <2>1, <4>3, BeginTransitive, ColumnsAreSequences DEF WorkInv
      <4>5. QED BY <4>1, <4>2, <4>3, <4>4
    <3>3. SmallInv'
      <4>1. work.cols = NoTable => disk.cols = NoTable
        BY <1>0, <2>1, BeginOfNothing, ColumnsAreSequences DEF WorkInv
      <4>2. QED BY <1>0, <2>1, <2>3, <4>1 DEF SmallInv
    <3>4. QED BY <3>1, <3>2, <3>3
  <2>4. QED BY <1>1, <2>2, <2>3
<1>5. IndexInv'
  <2>1. (Steady /\ ~raced /\ Typed(disk)) => Typed(disk)'
    <3>1. ASSUME Begin(disk.cols, work.cols), Typed(disk) PROVE Typed(work)
      BY <3>1, BeginTyped, ColumnsAreSequences DEF Typed
    <3>2. QED BY <1>1, <1>3, <3>1 DEF Typed
  <2>2. QED BY <1>0, <1>1, <2>1, IndexKept
<1>6. QED BY <1>2, <1>4, <1>5

\* A rollback goes back to columns that are the beginning of those there were.
LEMMA RollbackStep ==
    ASSUME CompressionIInv, NEW u \in Users, rollbackTransaction(u)
    PROVE  CompressionIInv'
<1> USE DEF CompressionIInv
<1>0. /\ u \in Threads /\ writer = u /\ writer # NoThread /\ saved' = Blank
      /\ UNCHANGED <<setup, known, raced, disk>>
  BY ColumnsAreSequences DEF Threads, rollbackTransaction, members
<1>1. \/ level = 2 /\ level' = 1 /\ work' = saved /\ UNCHANGED writer
      \/ writer' = NoThread /\ work' = Blank
  BY DEF rollbackTransaction
<1>2. Moves(u, "rolledback")
  BY <1>0, GotoMoves DEF rollbackTransaction
<1>3. CompressionTypeOK'
  <2>1. DOMAIN thread' = Threads /\ \A t \in Threads : Place(thread'[t])
    BY <1>0, <1>2, MovesTyped
  <2>2. QED BY <1>0, <1>1, <2>1, BlankTyped DEF CompressionTypeOK
<1>4. ColumnsInv'
  <2> SUFFICES ASSUME Steady', ~raced' PROVE (DiskInv /\ WorkInv /\ SavedInv /\ MetasInv /\ SmallInv)'
    BY DEF ColumnsInv
  <2>1. DiskInv /\ WorkInv /\ SavedInv /\ MetasInv /\ SmallInv
    BY <1>0 DEF ColumnsInv, Steady
  <2>2. DiskInv'
    BY <1>0, <2>1 DEF DiskInv, Right
  <2>3. MetasInv'
    <3> SUFFICES ASSUME NEW t \in Threads, Alters(t)'
                 PROVE  (thread[t].metas # NoTable /\ Begin(thread[t].metas, View(t).cols))'
      BY DEF MetasInv
    <3>1. t # u /\ thread'[t] = thread[t] /\ Alters(t)
      BY <1>2 DEF Moves, Alters
    <3>2. View(t) = disk /\ View(t)' = disk
      BY <1>0, <1>1, <3>1, ColumnsAreSequences DEF View
    <3>3. QED BY <2>1, <3>1, <3>2 DEF MetasInv
  <2>4. CASE level = 2 /\ level' = 1 /\ work' = saved /\ UNCHANGED writer
    <3>1. Begin(disk.cols, saved.cols) /\ Begin(saved.cols, work.cols)
      BY <1>0, <2>1, <2>4 DEF SavedInv
    <3>2. Single(saved.cols) /\ Right(saved.cols, known.index)
      BY <1>0, <2>1, <3>1, BeginRight, ColumnsAreSequences DEF WorkInv
    <3>3. WorkInv' /\ SavedInv'
      BY <1>0, <2>4, <3>1, <3>2 DEF WorkInv, SavedInv, Right
    <3>4. SmallInv'
      BY <1>0, <2>1, <2>4 DEF SmallInv, Small
    <3>5. QED BY <2>2, <2>3, <3>3, <3>4
  <2>5. CASE writer' = NoThread
    BY <1>0, <2>1, <2>2, <2>3, <2>5 DEF WorkInv, SavedInv, SmallInv
  <2>6. QED BY <1>1, <2>4, <2>5
<1>5. IndexInv'
  BY <1>0, <1>2, IndexKept DEF Typed
<1>6. QED BY <1>3, <1>4, <1>5

-----------------------------------------------------------------------------
(* Steps that write columns. *)

\* A table is dropped only where that is allowed for.
LEMMA DropStep ==
    ASSUME CompressionIInv, NEW u \in Users, DropTable(u)
    PROVE  CompressionIInv'
<1> USE DEF CompressionIInv
<1>0. setup.drops /\ UNCHANGED <<setup, saved, writer, known, thread, raced>>
  BY DEF DropTable, members
<1>1. LET new == WithoutRecord([View(u) EXCEPT !.cols = NoTable]) IN Schema(new)
  BY ViewTyped, DefinedTyped DEF Schema, WithoutRecord
<1>2. CompressionTypeOK'
  BY <1>0, <1>1 DEF CompressionTypeOK, DropTable, Write
<1>3. ~Steady /\ ~Steady'
  BY <1>0 DEF Steady
<1>4. QED BY <1>0, <1>2, <1>3, IndexKept DEF ColumnsInv

\* What a thread that may write writes, when it adds to the columns it sees.
Extends(t, cols) ==
    /\ UNCHANGED <<setup, saved, writer, level>> /\ CanWrite(t)
    /\ cols \in Seq(Names) /\ Begin(View(t).cols, cols)
    /\ Schema(disk') /\ Schema(work')
    /\ IF writer = t THEN work'.cols = cols /\ UNCHANGED disk
       ELSE disk'.cols = cols /\ UNCHANGED work

LEMMA WriteExtends ==
    ASSUME CompressionTypeOK, NEW t \in Threads, NEW cols \in Seq(Names), CanWrite(t),
           Write(t, [View(t) EXCEPT !.cols = cols]), Begin(View(t).cols, cols),
           UNCHANGED <<setup, saved, writer, level>>
    PROVE  Extends(t, cols)
<1>1. LET new == [View(t) EXCEPT !.cols = cols] IN Schema(new) /\ new.cols = cols
  BY ViewTyped DEF Schema
<1>2. QED BY <1>1, ZenonT(30) DEF Extends, Write, CompressionTypeOK

\* Columns may be added when there is at most one type column among them afterwards,
\* whose index is known or not looked for yet.
LEMMA ExtendsColumns ==
    ASSUME CompressionIInv, NEW t \in Threads, NEW cols, Extends(t, cols),
           Steady, ~raced, Single(cols), Right(cols, known'.index),
           \A o \in Threads : Alters(o)' => Alters(o) /\ thread'[o] = thread[o],
           disk.cols = NoTable => known'.index \in {0, 2} /\ (writer = t => Small(cols))
    PROVE  (DiskInv /\ WorkInv /\ SavedInv /\ MetasInv /\ SmallInv)'
<1>1. DiskInv /\ WorkInv /\ SavedInv /\ MetasInv /\ SmallInv /\ CompressionTypeOK
  BY DEF CompressionIInv, ColumnsInv
<1>2. cols \in Seq(Names) /\ UNCHANGED <<setup, saved, writer, level>>
  BY DEF Extends
<1>3. CASE writer = t
  <2>1. work'.cols = cols /\ disk' = disk /\ Begin(work.cols, cols) /\ writer # NoThread
    BY <1>1, <1>3, ColumnsAreSequences DEF Extends, View
  <2>2. Begin(disk.cols, cols)
    BY <1>1, <1>2, <2>1, BeginTransitive, ColumnsAreSequences, SMTT(30) DEF WorkInv
  <2>3. DiskInv'
    BY <1>1, <1>2, <2>1, <2>2, BeginRight, ColumnsAreSequences, SMTT(30) DEF DiskInv
  <2>4. WorkInv'
    BY <1>2, <2>1, <2>2, SMTT(30) DEF WorkInv
  <2>5. SavedInv'
    BY <1>1, <1>2, <2>1, BeginTransitive, ColumnsAreSequences, SMTT(30) DEF SavedInv
  <2>6. MetasInv'
    <3> SUFFICES ASSUME NEW o \in Threads, Alters(o)'
                 PROVE  (thread[o].metas # NoTable /\ Begin(thread[o].metas, View(o).cols))'
      BY DEF MetasInv
    <3>1. Alters(o) /\ thread'[o] = thread[o]
      OBVIOUS
    <3>2. thread[o].metas # NoTable /\ Begin(thread[o].metas, View(o).cols)
      BY <1>1, <3>1 DEF MetasInv
    <3>3. CASE o = t
      <4>1. View(o).cols = work.cols /\ View(o)'.cols = cols
        BY <1>2, <1>3, <2>1, <3>3, SMTT(30) DEF View
      <4>2. Begin(thread[o].metas, cols)
        BY <1>1, <1>2, <2>1, <3>2, <4>1, BeginTransitive, ColumnsAreSequences, SMTT(30)
      <4>3. QED BY <3>1, <3>2, <4>1, <4>2
    <3>4. CASE o # t
      <4>1. View(o)' = View(o)
        BY <1>2, <1>3, <2>1, <3>4 DEF View
      <4>2. QED BY <3>1, <3>2, <4>1, SMTT(30)
    <3>5. QED BY <3>3, <3>4, SMTT(30)
  <2>7. SmallInv'
    BY <1>1, <1>2, <1>3, <2>1 DEF SmallInv, Small
  <2>8. QED BY <2>3, <2>4, <2>5, <2>6, <2>7
<1>4. CASE writer # t
  <2>1. disk'.cols = cols /\ work' = work /\ Begin(disk.cols, cols) /\ writer = NoThread
    BY <1>4, SMTT(30) DEF Extends, View, CanWrite
  <2>2. DiskInv' /\ WorkInv' /\ SavedInv'
    BY <1>2, <2>1, SMTT(30) DEF DiskInv, WorkInv, SavedInv
  <2>3. MetasInv'
    <3> SUFFICES ASSUME NEW o \in Threads, Alters(o)'
                 PROVE  (thread[o].metas # NoTable /\ Begin(thread[o].metas, View(o).cols))'
      BY DEF MetasInv
    <3>1. Alters(o) /\ thread'[o] = thread[o]
      OBVIOUS
    <3>2. View(o).cols = disk.cols /\ View(o)'.cols = cols
      BY <1>1, <1>2, <2>1, ColumnsAreSequences DEF View
    <3>3. thread[o].metas # NoTable /\ Begin(thread[o].metas, disk.cols)
      BY <1>1, <3>1, <3>2, SMTT(30) DEF MetasInv
    <3>4. Begin(thread[o].metas, cols)
      BY <1>1, <1>2, <2>1, <3>3, BeginTransitive, ColumnsAreSequences
    <3>5. QED BY <3>1, <3>2, <3>3, <3>4, SMTT(30)
  <2>4. SmallInv'
    <3>1. cols = NoTable => disk.cols = NoTable
      BY <1>1, <2>1, BeginOfNothing, ColumnsAreSequences
    <3>2. QED BY <1>1, <1>2, <2>1, <3>1, SMTT(30) DEF SmallInv
  <2>5. QED BY <2>2, <2>3, <2>4
<1>5. QED BY <1>3, <1>4

LEMMA ExtendsTyped ==
    ASSUME CompressionTypeOK, NEW t, NEW cols, Extends(t, cols)
    PROVE  Typed(disk) => Typed(disk)'
<1>1. CASE writer = t BY <1>1 DEF Extends, Typed
<1>2. CASE writer # t
  <2>1. Begin(disk.cols, cols) /\ cols \in Seq(Names) /\ disk'.cols = cols
    BY <1>2 DEF Extends, View
  <2>2. QED BY <2>1, BeginTyped, ColumnsAreSequences DEF Typed
<1>3. QED BY <1>1, <1>2

LEMMA ExtendsTypes ==
    ASSUME CompressionTypeOK, NEW t, NEW cols, Extends(t, cols), Info(known'), raced' \in BOOLEAN,
           UNCHANGED thread \/ \E o \in Threads : \E p : Moves(o, p)
    PROVE  CompressionTypeOK'
<1>1. DOMAIN thread' = Threads /\ \A o \in Threads : Place(thread'[o])
  BY MovesTyped
<1>2. QED BY <1>1 DEF CompressionTypeOK, Extends

LEMMA AddColumnStep ==
    ASSUME CompressionIInv, NEW u \in Users, AddColumn(u)
    PROVE  CompressionIInv'
<1> USE DEF CompressionIInv
<1>0. /\ u \in Threads /\ "x" \in Names /\ View(u).cols \in Seq(Names)
      /\ UNCHANGED <<setup, saved, writer, level, known, thread, raced>>
      /\ CanWrite(u) /\ setup.alters
      /\ Write(u, [View(u) EXCEPT !.cols = Append(@, "x")])
  BY ColumnsAreSequences, Zenon DEF Threads, Names, AddColumn, members
<1>1. PICK cols \in Seq(Names) : cols = Append(View(u).cols, "x")
  <2>1. Append(View(u).cols, "x") \in Seq(Names) BY <1>0
  <2>2. QED BY <2>1, Zenon
<1>2. Extends(u, cols)
  <2>1. Begin(View(u).cols, cols)
    BY <1>0, <1>1, BeginAppend, BeginSelf
  <2>2. [View(u) EXCEPT !.cols = Append(@, "x")] = [View(u) EXCEPT !.cols = cols]
    BY <1>1
  <2>3. QED BY <1>0, <2>1, <2>2, WriteExtends
<1>3. CompressionTypeOK'
  BY <1>0, <1>2, ExtendsTypes DEF CompressionTypeOK
<1>4. IndexInv'
  BY <1>0, <1>2, ExtendsTyped, IndexKept
<1>5. ColumnsInv'
  <2> SUFFICES ASSUME Steady', ~raced' PROVE (DiskInv /\ WorkInv /\ SavedInv /\ MetasInv /\ SmallInv)'
    BY DEF ColumnsInv
  <2>1. Steady /\ ~raced /\ DiskInv /\ WorkInv /\ SavedInv /\ MetasInv /\ SmallInv
    BY <1>0 DEF ColumnsInv, Steady
  <2>2. Single(View(u).cols) /\ Right(View(u).cols, known.index)
    BY <1>0, <2>1, ColumnsAreSequences DEF DiskInv, WorkInv, View
  <2>3. Single(cols) /\ Right(cols, known'.index)
    BY <1>0, <1>1, <2>2, AppendOther
  <2>4. disk.cols # NoTable
    BY <1>0, <2>1 DEF SmallInv
  <2>5. QED BY <1>0, <1>2, <2>1, <2>3, <2>4, ExtendsColumns DEF Alters
<1>6. QED BY <1>3, <1>4, <1>5

\* A table that is not there in the transaction is not there outside of it either, and
\* nothing but its definition has been in it.
LEMMA CreateStep ==
    ASSUME CompressionIInv, NEW t \in Threads, stepCreateTable(t)
    PROVE  CompressionIInv'
<1> USE DEF CompressionIInv
<1>0. /\ UNCHANGED <<setup, saved, writer, level, known, raced>> /\ CanWrite(t)
      /\ View(t).cols \in Seq(Names) /\ Moves(t, "idle") /\ Info(known)
  BY ColumnsAreSequences, GotoMoves DEF stepCreateTable, members, CompressionTypeOK
<1>1. CASE Exists(t)
  <2>1. UNCHANGED <<disk, work>> BY <1>1 DEF stepCreateTable
  <2>2. Quiet /\ StaysChecked
    BY <1>0, <2>1 DEF Quiet, StaysChecked, CompressionTypeOK
  <2>3. QED BY <1>0, <2>2, QuietStep DEF Goes
<1>2. CASE ~Exists(t)
  <2>1. PICK cols \in Seq(Names) :
             cols \in {<<"c">>, <<"c", "ct">>} /\ Write(t, [View(t) EXCEPT !.cols = cols])
    BY <1>2, DefinedTyped, Zenon DEF stepCreateTable
  <2>2. View(t).cols = NoTable BY <1>2 DEF Exists
  <2>3. Extends(t, cols)
    <3>1. Begin(View(t).cols, cols) BY <2>1, <2>2 DEF Begin, NoTable
    <3>2. QED BY <1>0, <2>1, <3>1, WriteExtends
  <2>4. CompressionTypeOK'
    BY <1>0, <2>3, ExtendsTypes DEF CompressionTypeOK
  <2>5. IndexInv'
    BY <1>0, <2>3, ExtendsTyped, IndexKept, SMTT(30)
  <2>6. ColumnsInv'
    <3> SUFFICES ASSUME Steady', ~raced'
                 PROVE  (DiskInv /\ WorkInv /\ SavedInv /\ MetasInv /\ SmallInv)'
      BY DEF ColumnsInv
    <3>1. Steady /\ ~raced /\ DiskInv /\ WorkInv /\ SavedInv /\ MetasInv /\ SmallInv
      BY <1>0 DEF ColumnsInv, Steady
    <3>2. disk.cols = NoTable
      BY <2>2, <3>1, BeginOfNothing, ColumnsAreSequences DEF WorkInv, View
    <3>3. known.index \in {0, 2}
      BY <3>1, <3>2 DEF SmallInv
    <3>4. Single(cols) /\ Right(cols, known'.index) /\ Small(cols)
      BY <1>0, <2>1, <3>3 DEF Single, Right, Small
    <3>5. \A o \in Threads : Alters(o)' => Alters(o) /\ thread'[o] = thread[o]
      BY <1>0 DEF Alters, Moves
    <3>6. QED BY <1>0, <2>3, <3>1, <3>3, <3>4, <3>5, ExtendsColumns
  <2>7. QED BY <2>4, <2>5, <2>6
<1>3. QED BY <1>1, <1>2

\* The columns that are read are those the thread sees.
LEMMA MetaStep ==
    ASSUME CompressionIInv, NEW t \in Threads, getTableMeta(t)
    PROVE  CompressionIInv'
<1> USE DEF CompressionIInv
<1>0. UNCHANGED <<setup, schema, members, raced>> /\ Quiet /\ StaysChecked
      /\ View(t).cols \in Seq(Names) /\ Place(thread[t])
  BY MoveIsQuiet, ColumnsAreSequences DEF getTableMeta, CompressionTypeOK
<1>1. CASE ~Exists(t)
  <2>1. Goes(t, "idle") BY <1>1, GotoMoves DEF getTableMeta, Goes
  <2>2. QED BY <1>0, <2>1, QuietStep
<1>2. CASE Exists(t)
  <2>1. LET new == [thread[t] EXCEPT !.pc = IF @ = "meta" THEN "alter" ELSE "alterFix",
                                     !.metas = View(t).cols]
        IN  Place(new) /\ new.pc \in {"alter", "alterFix"} /\ new.metas = View(t).cols
    BY <1>0 DEF Place
  <2>2. /\ \E p \in {"alter", "alterFix"} : Moves(t, p)
        /\ thread'[t].metas = View(t).cols
    BY <1>2, <2>1, SetsMoves, Zenon DEF getTableMeta
  <2>3. CompressionTypeOK'
    <3>1. DOMAIN thread' = Threads /\ \A o \in Threads : Place(thread'[o])
      BY <2>2, MovesTyped
    <3>2. QED BY <1>0, <3>1 DEF CompressionTypeOK, schema, members
  <2>4. \A o \in Threads : View(o)' = View(o)
    BY <1>0 DEF View, schema
  <2>5. Steady' <=> Steady
    BY <1>0 DEF Steady
  <2>6. ColumnsInv'
    <3> SUFFICES ASSUME Steady', ~raced'
                 PROVE  (DiskInv /\ WorkInv /\ SavedInv /\ MetasInv /\ SmallInv)'
      BY DEF ColumnsInv
    <3>1. DiskInv /\ WorkInv /\ SavedInv /\ MetasInv /\ SmallInv
      BY <1>0, <2>5, SMTT(30) DEF ColumnsInv
    <3>2. DiskInv' /\ WorkInv' /\ SavedInv' /\ SmallInv'
      BY <1>0, <3>1 DEF DiskInv, WorkInv, SavedInv, SmallInv, Small, schema, members
    <3>3. MetasInv'
      <4> SUFFICES ASSUME NEW o \in Threads, Alters(o)'
                   PROVE  (thread[o].metas # NoTable /\ Begin(thread[o].metas, View(o).cols))'
        BY DEF MetasInv
      <4>1. CASE o = t
        BY <1>0, <1>2, <2>2, <2>4, <4>1, BeginSelf, SMTT(30) DEF Exists
      <4>2. CASE o # t
        <5>1. thread'[o] = thread[o] /\ Alters(o) BY <2>2, <4>2 DEF Moves, Alters
        <5>2. QED BY <2>4, <3>1, <5>1 DEF MetasInv
      <4>3. QED BY <4>1, <4>2
    <3>4. QED BY <3>2, <3>3
  <2>7. IndexInv'
    <3>1. \A o \in Threads : Knows(o)' => Knows(o)
      BY <2>2 DEF Knows, Moves
    <3>2. At(Stepper, "rows")' => At(Stepper, "rows")
      BY <2>2 DEF At, Moves, Threads
    <3>3. QED BY <1>0, <2>5, <3>1, <3>2 DEF IndexInv, schema, members, Typed
  <2>8. QED BY <2>3, <2>6, <2>7
<1>3. QED BY <1>1, <1>2

\* The type column that is found or added has the index that is kept, unless other
\* columns were added since the thread read them.
LEMMA AddTypeStep ==
    ASSUME CompressionIInv, NEW t \in Threads, addColumn(t)
    PROVE  CompressionIInv'
<1> USE DEF CompressionIInv
<1> DEFINE metas == thread[t].metas
<1>0. /\ UNCHANGED <<setup, saved, writer, level>> /\ raced' = (raced \/ Changed(t))
      /\ Info(known) /\ Place(thread[t]) /\ Alters(t) /\ "ct" \in Names
      /\ metas \in Seq(Names) /\ View(t).cols \in Seq(Names)
  BY ColumnsAreSequences, Zenon DEF addColumn, Alters, At, CompressionTypeOK, Names
<1>1. LET new == [thread[t] EXCEPT !.pc = IF @ = "alter" THEN "flag" ELSE "flagFix"]
      IN  Place(new) /\ new.pc \in {"flag", "flagFix"}
  BY <1>0 DEF Place
<1>2. raced' \in BOOLEAN /\ (~raced' => ~raced /\ ~Changed(t))
  BY <1>0, Zenon DEF CompressionTypeOK, Changed
<1>3. Steady' <=> Steady
  BY <1>0, SMTT(30) DEF Steady
<1>4. (Steady /\ ~raced) =>
          /\ DiskInv /\ WorkInv /\ SavedInv /\ MetasInv /\ SmallInv
          /\ metas # NoTable /\ Begin(metas, View(t).cols)
          /\ Single(View(t).cols)
          /\ disk.cols = NoTable => View(t).cols \in {<<"c">>, <<"c", "ct">>} /\ writer = t
  <2> SUFFICES ASSUME Steady, ~raced
               PROVE  /\ DiskInv /\ WorkInv /\ SavedInv /\ MetasInv /\ SmallInv
                      /\ metas # NoTable /\ Begin(metas, View(t).cols)
                      /\ Single(View(t).cols)
                      /\ disk.cols = NoTable => View(t).cols \in {<<"c">>, <<"c", "ct">>} /\ writer = t
    OBVIOUS
  <2>1. DiskInv /\ WorkInv /\ SavedInv /\ MetasInv /\ SmallInv
    BY DEF ColumnsInv
  <2>2. metas # NoTable /\ Begin(metas, View(t).cols)
    BY <1>0, <2>1 DEF MetasInv
  <2>3. View(t).cols # NoTable
    BY <1>0, <2>2, BeginOfNothing
  <2>4. t # NoThread BY ColumnsAreSequences
  <2>5. Single(View(t).cols)
    BY <2>1, <2>4 DEF DiskInv, WorkInv, View
  <2>6. disk.cols = NoTable => View(t).cols \in {<<"c">>, <<"c", "ct">>} /\ writer = t
    BY <2>1, <2>3, <2>4 DEF SmallInv, Small, View
  <2>7. QED BY <2>1, <2>2, <2>5, <2>6
<1>5. CASE HasColumn(metas, "ct")
  <2>1. known' = [known EXCEPT !.index = PositionOf(metas)] /\ UNCHANGED <<disk, work>>
    BY <1>5 DEF addColumn
  <2>2. \E p \in {"flag", "flagFix"} : Moves(t, p)
    BY <1>1, <1>5, SetsMoves, Zenon DEF addColumn
  <2>3. PositionOf(metas) \in 1..Len(metas)
    BY <1>0, <1>5 DEF PositionOf, HasColumn
  <2>4. Info(known') /\ known'.index = PositionOf(metas) /\ known'.index # 0
        /\ known'.index \in Nat
    BY <1>0, <2>1, <2>3 DEF Info
  <2>5. CompressionTypeOK'
    <3>1. DOMAIN thread' = Threads /\ \A o \in Threads : Place(thread'[o])
      BY <2>2, MovesTyped
    <3>2. QED BY <1>0, <1>2, <2>1, <2>4, <3>1 DEF CompressionTypeOK
  <2>6. IndexInv'
    <3>1. At(Stepper, "rows")' => At(Stepper, "rows")
      BY <2>2 DEF At, Moves, Threads
    <3>2. QED BY <1>2, <1>3, <2>1, <2>4, <3>1 DEF IndexInv, Typed
  <2>7. ColumnsInv'
    <3> SUFFICES ASSUME Steady', ~raced'
                 PROVE  (DiskInv /\ WorkInv /\ SavedInv /\ MetasInv /\ SmallInv)'
      BY DEF ColumnsInv
    <3>1. /\ DiskInv /\ WorkInv /\ SavedInv /\ MetasInv /\ SmallInv
          /\ Begin(metas, View(t).cols) /\ Single(View(t).cols)
          /\ disk.cols = NoTable => View(t).cols \in {<<"c">>, <<"c", "ct">>}
      BY <1>2, <1>3, <1>4, SMTT(30)
    <3>2. /\ known'.index \in 1..Len(View(t).cols) /\ View(t).cols[known'.index] = "ct"
      BY <1>0, <1>5, <2>3, <2>4, <3>1 DEF Begin, PositionOf, HasColumn
    <3>3. Right(View(t).cols, known'.index)
      BY <3>1, <3>2 DEF Right, Single
    <3>4. Right(disk.cols, known'.index) /\ (writer # NoThread => Right(work.cols, known'.index))
      <4>1. CASE writer = t
        BY <3>1, <3>3, <4>1, BeginRight, ColumnsAreSequences, SMTT(30) DEF View, WorkInv
      <4>2. CASE writer # t
        <5>1. View(t) = disk BY <4>2, SMTT(30) DEF View
        <5>2. ASSUME writer # NoThread PROVE Right(work.cols, known'.index)
          <6>1. /\ known'.index \in 1..Len(work.cols) /\ work.cols[known'.index] = "ct"
            BY <3>1, <3>2, <5>1, <5>2, ColumnsAreSequences DEF WorkInv, Begin
          <6>2. QED BY <3>1, <5>2, <6>1 DEF WorkInv, Right, Single
        <5>3. QED BY <3>3, <5>1, <5>2
      <4>3. QED BY <4>1, <4>2
    <3>5. DiskInv' /\ WorkInv' /\ SavedInv'
      BY <1>0, <2>1, <3>1, <3>4 DEF DiskInv, WorkInv, SavedInv
    <3>6. MetasInv'
      <4>1. \A o \in Threads : Alters(o)' => Alters(o) /\ thread'[o] = thread[o]
        BY <2>2 DEF Alters, Moves
      <4>2. QED BY <1>0, <2>1, <3>1, <4>1 DEF MetasInv, View
    <3>7. SmallInv'
      <4>1. disk.cols = NoTable => known'.index = 2
        BY <3>1, <3>2
      <4>2. QED BY <1>0, <2>1, <3>1, <4>1 DEF SmallInv, Small
    <3>8. QED BY <3>5, <3>6, <3>7
  <2>8. QED BY <2>5, <2>6, <2>7
<1>6. CASE ~HasColumn(metas, "ct") /\ ~Exists(t)
  <2>1. UNCHANGED <<disk, work, known>> /\ Moves(t, "idle")
    BY <1>6, GotoMoves, SMTT(30) DEF addColumn
  <2>2. CompressionTypeOK'
    <3>1. DOMAIN thread' = Threads /\ \A o \in Threads : Place(thread'[o])
      BY <2>1, MovesTyped, SMTT(30)
    <3>2. QED BY <1>0, <1>2, <2>1, <3>1 DEF CompressionTypeOK
  <2>3. ~(Steady /\ ~raced)
    BY <1>0, <1>4, <1>6, BeginOfNothing DEF Exists
  <2>4. \A o \in Threads : Knows(o)' => Knows(o)
    BY <2>1 DEF Knows, Moves
  <2>5. QED BY <1>2, <1>3, <2>1, <2>2, <2>3, <2>4 DEF ColumnsInv, IndexInv
<1>7. CASE ~HasColumn(metas, "ct") /\ Exists(t)
  <2>1. /\ CanWrite(t) /\ known' = [known EXCEPT !.index = Len(metas) + 1]
        /\ IF Typed(View(t)) THEN UNCHANGED <<disk, work>>
           ELSE Write(t, [View(t) EXCEPT !.cols = Append(@, "ct")])
    BY <1>7 DEF addColumn
  <2>2. \E p \in {"flag", "flagFix"} : Moves(t, p)
    BY <1>1, <1>7, SetsMoves, Zenon DEF addColumn
  <2>3. Info(known') /\ known'.index = Len(metas) + 1 /\ known'.index # 0
    BY <1>0, <2>1 DEF Info
  <2>4. PICK cols \in Seq(Names) :
             cols = IF Typed(View(t)) THEN View(t).cols ELSE Append(View(t).cols, "ct")
    <3>1. Append(View(t).cols, "ct") \in Seq(Names) BY <1>0
    <3>2. QED BY <1>0, <3>1, Zenon
  <2>5. Extends(t, cols)
    <3>1. CASE Typed(View(t))
      BY <1>0, <2>1, <2>4, <3>1, BeginSelf DEF Extends, View, CompressionTypeOK
    <3>2. CASE ~Typed(View(t))
      <4>1. [View(t) EXCEPT !.cols = Append(@, "ct")] = [View(t) EXCEPT !.cols = cols]
        BY <2>4, <3>2
      <4>2. Begin(View(t).cols, cols)
        BY <1>0, <2>4, <3>2, BeginAppend, BeginSelf
      <4>3. QED BY <1>0, <2>1, <3>2, <4>1, <4>2, WriteExtends
    <3>3. QED BY <3>1, <3>2
  <2>6. CompressionTypeOK'
    BY <1>2, <2>2, <2>3, <2>5, ExtendsTypes
  <2>7. IndexInv'
    <3>1. At(Stepper, "rows")' => At(Stepper, "rows")
      BY <2>2 DEF At, Moves, Threads
    <3>2. Typed(disk) => Typed(disk)'
      BY <2>5, ExtendsTyped, SMTT(30)
    <3>3. QED BY <1>2, <1>3, <2>3, <3>1, <3>2 DEF IndexInv
  <2>8. ColumnsInv'
    <3> SUFFICES ASSUME Steady', ~raced'
                 PROVE  (DiskInv /\ WorkInv /\ SavedInv /\ MetasInv /\ SmallInv)'
      BY DEF ColumnsInv
    <3>1. /\ Steady /\ ~raced /\ metas # NoTable
          /\ disk.cols = NoTable => View(t).cols \in {<<"c">>, <<"c", "ct">>}
      BY <1>2, <1>3, <1>4
    <3>2. View(t).cols \in {metas, Append(metas, "ct")}
      BY <1>2, <1>7 DEF Changed
    <3>3. cols = Append(metas, "ct")
      <4>1. HasColumn(Append(metas, "ct"), "ct")
        <5>1. /\ Len(metas) + 1 \in DOMAIN Append(metas, "ct")
              /\ Append(metas, "ct")[Len(metas) + 1] = "ct"
          BY <1>0
        <5>2. QED BY <5>1, Zenon DEF HasColumn
      <4>2. QED BY <1>7, <2>4, <3>2, <4>1, Zenon DEF Typed
    <3>4. Single(cols) /\ Right(cols, known'.index)
      BY <1>0, <1>7, <2>3, <3>3, AppendType
    <3>5. disk.cols = NoTable => cols = <<"c", "ct">> /\ known'.index = 2
      <4> SUFFICES ASSUME disk.cols = NoTable PROVE cols = <<"c", "ct">> /\ known'.index = 2
        OBVIOUS
      <4>1. CASE View(t).cols = <<"c">>
        <5>1. metas = <<"c">>
          BY <1>0, <3>1, <3>2, <4>1 DEF NoTable
        <5>2. Append(<<"c">>, "ct") = <<"c", "ct">> /\ Len(<<"c">>) = 1
          <6>1. "c" \in Names BY DEF Names
          <6>2. QED BY <1>0, <6>1, AppendToOne, Zenon
        <5>3. QED BY <2>3, <3>3, <5>1, <5>2
      <4>2. CASE View(t).cols = <<"c", "ct">>
        <5>1. HasColumn(<<"c", "ct">>, "ct")
          <6>1. 2 \in DOMAIN <<"c", "ct">> /\ <<"c", "ct">>[2] = "ct" OBVIOUS
          <6>2. QED BY <6>1, Zenon DEF HasColumn
        <5>2. cols = <<"c", "ct">>
          BY <1>7, <3>2, <3>3, <4>2, <5>1, Zenon
        <5>3. Len(cols) = Len(metas) + 1 BY <1>0, <3>3
        <5>4. Len(<<"c", "ct">>) = 2 OBVIOUS
        <5>5. QED BY <2>3, <5>2, <5>3, <5>4
      <4>3. QED BY <3>1, <4>1, <4>2
    <3>6. \A o \in Threads : Alters(o)' => Alters(o) /\ thread'[o] = thread[o]
      BY <2>2 DEF Alters, Moves
    <3>7. disk.cols = NoTable => known'.index \in {0, 2} /\ Small(cols)
      BY <3>5 DEF Small
    <3>8. QED BY <2>5, <3>1, <3>4, <3>6, <3>7, ExtendsColumns, SMTT(30)
  <2>9. QED BY <2>6, <2>7, <2>8
<1>8. QED BY <1>5, <1>6, <1>7

-----------------------------------------------------------------------------
(* The theorem. *)

LEMMA CompressionInitInv ==
    ASSUME CompressionInit
    PROVE  CompressionIInv
<1>1. CompressionTypeOK BY CompressionInitTyped
<1>2. /\ setup \in TableSetups /\ disk.cols \in setup.tables /\ writer = NoThread
      /\ known.index = 0 /\ known.needCheck = TRUE /\ \A t \in Threads : thread[t] = Idle
  BY DEF CompressionInit
<1>3. IndexInv
  BY <1>2, IdleTyped DEF IndexInv, Knows, At, Threads
<1>4. ColumnsInv
  <2> SUFFICES ASSUME Steady PROVE DiskInv /\ WorkInv /\ SavedInv /\ MetasInv /\ SmallInv
    BY DEF ColumnsInv
  <2>1. DiskInv
    <3>1. \A i, j \in DOMAIN disk.cols : disk.cols[i] = disk.cols[j] => i = j
      BY <1>2, CompressionConstants
    <3>2. DOMAIN disk.cols = 1..Len(disk.cols)
      BY <1>1, ColumnsAreSequences
    <3>3. QED BY <1>2, <3>1, <3>2 DEF DiskInv, Single, Right
  <2>2. MetasInv
    BY <1>2, IdleTyped DEF MetasInv, Alters
  <2>3. SmallInv
    BY <1>2 DEF SmallInv, Steady
  <2>4. QED BY <1>2, <2>1, <2>2, <2>3 DEF WorkInv, SavedInv
<1>5. QED BY <1>1, <1>3, <1>4 DEF CompressionIInv

LEMMA CompressionStepInv ==
    ASSUME CompressionIInv, [CompressionNext]_compressionVars
    PROVE  CompressionIInv'
<1>1. CompressionTypeOK BY DEF CompressionIInv
<1>2. ASSUME NEW t \in Threads, Continue(t) \/ LockTimesOut(t) PROVE CompressionIInv'
  <2>1. CASE Continue(t)
    BY <1>1, <2>1, InitInfoQuiet, CheckQuiet, QuietStep, CreateStep, MetaStep, AddTypeStep
    DEF Continue
  <2>2. CASE LockTimesOut(t) BY <1>1, <2>2, TimesOutQuiet, QuietStep
  <2>3. QED BY <1>2, <2>1, <2>2
<1>3. CASE Steps
  BY <1>1, <1>3, StepsQuiet, QuietStep
<1>4. ASSUME NEW u \in Users,
             UseTable(u) \/ CreateTable(u) \/ notifyTransactionCommitted(u)
      PROVE  CompressionIInv'
  BY <1>1, <1>4, UserQuiet, QuietStep DEF Threads
<1>5. ASSUME NEW u \in Users,
             \/ beginTransaction(u) \/ beginNested(u) \/ commitTransaction(u)
             \/ rollbackTransaction(u) \/ DropTable(u) \/ AddColumn(u)
      PROVE  CompressionIInv'
  BY <1>5, BeginStep, CommitStep, RollbackStep, DropStep, AddColumnStep
<1>6. CASE UNCHANGED compressionVars
  <2>1. UNCHANGED <<setup, schema, members, thread, raced>>
    BY <1>6 DEF compressionVars
  <2>2. QED BY <1>1, <2>1, MoveIsQuiet, QuietStep
<1>7. QED BY <1>2, <1>3, <1>4, <1>5, <1>6 DEF CompressionNext, Ends

\* What threads know of the table stays right: the columns of a transaction extend
\* those that are committed, and the index is that of the type column wherever there is one
\* (checkCompressingColumn, notifyTransactionCommitted, CompressionTableInfo).
THEOREM CompressionInvariance == CompressionSpec => []CompressionIInv
<1>1. CompressionInit => CompressionIInv BY CompressionInitInv
<1>2. CompressionIInv /\ [CompressionNext]_compressionVars => CompressionIInv'
  BY CompressionStepInv
<1>3. QED BY <1>1, <1>2, PTL DEF CompressionSpec

\* The stepper writes the type of a row to the type column and to no other, for any
\* number of threads, transactions and savepoints (checkCompressingColumns, compressRow).
THEOREM TypeColumnIsFound == CompressionSpec => []TypeColumnFound
<1>1. CompressionIInv => TypeColumnFound
  <2> SUFFICES ASSUME CompressionIInv, At(Stepper, "rows"), Steady, ~raced
               PROVE  disk.cols[known.index] = "ct"
    BY DEF TypeColumnFound
  <2>1. Stepper \in Threads /\ known.index # 0
    BY DEF CompressionIInv, IndexInv, Knows, At, Threads
  <2>2. PICK i \in 1..Len(disk.cols) : disk.cols[i] = "ct"
    BY DEF CompressionIInv, IndexInv, Typed, HasColumn
  <2>3. known.index \in {0, i}
    BY <2>2 DEF CompressionIInv, ColumnsInv, DiskInv, Right
  <2>4. QED BY <2>1, <2>2, <2>3
<1>2. QED BY <1>1, CompressionInvariance, PTL
=============================================================================
