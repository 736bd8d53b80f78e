--------------------------- MODULE CompressedRows ---------------------------
(***************************************************************************)
(* The rows of one table whose columns are compressed: what the statements *)
(* of the application store (CompressingStatementDecorator), what they     *)
(* read back (DecompressFunction), what the stepper does to the rows that  *)
(* are already there (CompressHandleOperator) and the record by which it   *)
(* finds its place after a restart (CompressionRecord).                    *)
(*                                                                         *)
(* Beside the stored rows the module keeps "plain", the rows of a table    *)
(* without compression to which the application applies the same           *)
(* statements, as the tests of the repository do.                          *)
(*                                                                         *)
(* A value is its type and its bytes.  The bytes <<n>> are those the       *)
(* application wrote; <<n, d>> is the zstd frame made of them with the     *)
(* dictionary d, and with none when d = 0.                                 *)
(***************************************************************************)
EXTENDS Integers, Sequences, SequencesExt

CONSTANTS
    Shrinking,          \* the bytes that zstd makes shorter
    MatchDict,          \* m_matchDicts: match value -> dictionary
    CommonDict,         \* m_commonDictID, for the match values not in it
    Registered,         \* the dictionaries registered with CompressionCenter
    Setups,             \* the applications considered
    BatchCount,         \* CompressionBatchCount
    RecordCount,        \* CompressionUpdateRecordBatchCount
    RollbackCount       \* rows in a transaction of a rollback

VARIABLES
    use,                \* the application: an element of Setups
    config,             \* the compression filter of this table
    newData,            \* m_canCompressNewData
    stored,             \* id -> row of the table
    plain,              \* id -> row of the uncompressed twin
    stmt,               \* the prepared statement the application holds
    phase,              \* what this process knows of the table
    minRowid,           \* m_minCompressedRowid
    batch,              \* rowids read by compressRows
    counted,            \* m_compressedCount, up to RecordCount
    saving,             \* updateCompressionRecord is due
    record,             \* the row of the record table
    cursor              \* curMaxRowid of a rollback that is running, or -1

vars == <<use, config, newData, stored, plain, stmt, phase, minRowid, batch,
          counted, saving, record, cursor>>

data == <<stored, plain>>
stepper == <<phase, minRowid, batch, counted, saving, record, cursor>>

Ids == 1..use.maxId
Columns == 1..Len(config.kinds)
NoStatement == [form |-> "none", list |-> <<>>, binds |-> <<>>]
NoRecord == [kinds |-> <<>>, dict |-> 0, min |-> -1]
Nothing == <<-1>>
Infinite == use.maxId + 1

-----------------------------------------------------------------------------
(* Values, and CompressionConst.hpp. *)

Null == [type |-> "Null", bytes |-> <<>>]
Failure == [type |-> "Failure", bytes |-> <<>>]
Integer(n) == [type |-> "Integer", bytes |-> <<n>>]
IsContent(v) == v.type \in {"Text", "BLOB"}

IntValue(v) == IF v.type = "Integer" THEN v.bytes[1] ELSE 0

\* Value::blobValue: the digits of a number, bytes no content of the application has.
BlobValue(v) ==
    IF v.type = "Integer" THEN [type |-> "BLOB", bytes |-> <<-1 - v.bytes[1]>>] ELSE v

CompressedType == [None |-> 0, ZSTDDict |-> 1, ZSTDNormal |-> 2]
MergeCompressionType(c, type) == 2 * c + (IF type = "Text" THEN 0 ELSE 1)
GetCompressedType(n) == n \div 2
GetOriginType(n) == IF n % 2 = 0 THEN "Text" ELSE "BLOB"

-----------------------------------------------------------------------------
(* CompressionCenter and DecompressFunction. *)

DictOf(k, match) ==
    CASE config.kinds[k] = "Normal" -> 0
      [] config.kinds[k] = "Dict" -> config.dict
      [] OTHER -> IF match \in DOMAIN MatchDict THEN MatchDict[match] ELSE CommonDict

HasDict(k, match) == DictOf(k, match) \in Registered \cup {0}

compressContent(bytes, dict) ==
    IF bytes[1] \in Shrinking THEN <<bytes[1], dict>> ELSE bytes

\* The body and the type column of a content v that is compressed now.
Compressed(v, k, match) ==
    LET bytes == compressContent(v.bytes, DictOf(k, match))
        to == IF config.kinds[k] = "Normal" THEN CompressedType.ZSTDNormal
              ELSE CompressedType.ZSTDDict
    IN  IF bytes # v.bytes
        THEN [body |-> [type |-> "BLOB", bytes |-> bytes],
              type |-> Integer(MergeCompressionType(to, v.type))]
        ELSE [body |-> v,
              type |-> Integer(MergeCompressionType(CompressedType.None, v.type))]

\* A frame made with a dictionary is read with it, one made without is read without.
decompressContent(bytes, usingDict) ==
    IF Len(bytes) = 2 /\ (bytes[2] # 0 <=> usingDict) THEN <<bytes[1]>> ELSE <<>>

decompress(body, type) ==
    LET c == GetCompressedType(IntValue(type))
    IN  IF c \notin {CompressedType.ZSTDDict, CompressedType.ZSTDNormal} \/ body.type # "BLOB"
        THEN body
        ELSE [type |-> GetOriginType(IntValue(type)),
              bytes |-> decompressContent(body.bytes, c = CompressedType.ZSTDDict)]

\* What a SELECT of the application returns.
Read(row) == [k \in DOMAIN row |->
                 [body |-> decompress(row[k].body, row[k].type), match |-> row[k].match]]

-----------------------------------------------------------------------------
(* The bindings of a prepared statement.  Of each compressing column: the  *)
(* bindedValue, the parameters bound for the column and its type column,   *)
(* and whether compressing failed since the last reset().                  *)

Unbound == [bound |-> Null, body |-> Null, type |-> Null, ok |-> TRUE]

bindCompressed(b, k, v, match) ==
    IF newData /\ ~HasDict(k, match)
    THEN [b EXCEPT !.ok = FALSE]
    ELSE LET cell == IF newData THEN Compressed(v, k, match) ELSE [body |-> v, type |-> Null]
         IN  [b EXCEPT !.body = cell.body, !.type = cell.type]

bindContent(b, k, v) ==
    CASE ~IsContent(v) ->
            [b EXCEPT !.body = v, !.type = Integer(CompressedType.None)]
      [] IsContent(v) /\ config.kinds[k] = "Various" /\ b.bound = Null ->
            [b EXCEPT !.bound = v]
      [] OTHER -> bindCompressed(b, k, v, IntValue(b.bound))

bindValueInInfo(b, k, match) == bindCompressed(b, k, BlobValue(b.bound), match)

bindMatch(b, k, match) ==
    CASE config.kinds[k] # "Various" -> b
      [] config.kinds[k] = "Various" /\ b.bound = Null -> [b EXCEPT !.bound = Integer(match)]
      [] OTHER -> bindValueInInfo(b, k, match)

reset(b) == [b EXCEPT !.ok = TRUE]

\* An execution of a statement that lists the column and its match column:
\* reset(), then the parameters in the order the application lists them.
bindBoth(b, k, v, match) ==
    IF use.matchFirst THEN bindContent(bindMatch(reset(b), k, match), k, v)
    ELSE bindMatch(bindContent(reset(b), k, v), k, match)

-----------------------------------------------------------------------------
(* stepSelectAndUpdateUncompressRowStatement: the columns "list" of a row  *)
(* are selected, compressed and written back.                              *)

Selected(row, list) ==
    FlattenSeq([i \in 1..Len(list) |->
                  <<row[list[i]].body, row[list[i]].type>>
                  \o (IF config.kinds[list[i]] = "Various" THEN <<Integer(row[list[i]].match)>>
                      ELSE <<>>)])

\* The new cells of the first i columns, and the preOffset after them.
UpdatedCells(row, list) ==
    LET sel == Selected(row, list)
        step[i \in 0..Len(list)] ==
            IF i = 0 THEN [offset |-> 0, cells |-> <<>>]
            ELSE LET pre == step[i - 1]
                     k == list[i]
                     at == 2 * (i - 1) + pre.offset + 1
                     compresses == IsContent(sel[at]) /\ sel[at + 1] = Null
                     various == compresses /\ config.kinds[k] = "Various"
                     match == IF various THEN IntValue(sel[at + 2]) ELSE 0
                     cell == IF compresses
                             THEN IF HasDict(k, match) THEN Compressed(sel[at], k, match)
                                  ELSE [body |-> Null, type |-> Failure]
                             ELSE [body |-> sel[at], type |-> Integer(IntValue(sel[at + 1]))]
                 IN  [offset |-> pre.offset + (IF various THEN 1 ELSE 0),
                      cells |-> Append(pre.cells, cell)]
    IN  step[Len(list)].cells

\* compressContent failed: the statement fails and its transaction is rolled back.
UpdateFails(row, list) == \E i \in DOMAIN list : UpdatedCells(row, list)[i].type = Failure

stepSelectAndUpdateUncompressRow(row, list) ==
    [k \in DOMAIN row |->
        IF \E i \in DOMAIN list : list[i] = k
        THEN LET cell == UpdatedCells(row, list)[CHOOSE i \in DOMAIN list : list[i] = k]
             IN  [row[k] EXCEPT !.body = cell.body, !.type = cell.type]
        ELSE row[k]]

-----------------------------------------------------------------------------
(* The statements of the application.  The database is open: no rollback   *)
(* of the compression is running in close().                               *)

Open == cursor = -1
All == [i \in Columns |-> i]
Put(rows, id, row) == [i \in DOMAIN rows \cup {id} |-> IF i = id THEN row ELSE rows[i]]
Without(rows, ids) == [i \in DOMAIN rows \ ids |-> rows[i]]
InList(k, list) == \E i \in DOMAIN list : list[i] = k
NextId(ids) == IF ids = {} THEN 1 ELSE (CHOOSE i \in ids : \A j \in ids : j <= i) + 1

Contents == [Columns -> use.values]
MatchRows == [Columns -> use.matches]

\* A row the application writes as a whole, in the twin and before compression.
PlainRow(vs, ms) == [k \in Columns |-> [body |-> vs[k], match |-> ms[k]]]
UntypedRow(vs, ms) == [k \in Columns |-> [body |-> vs[k], type |-> Null, match |-> ms[k]]]

\* The bindings an execution starts from: those of a statement prepared for
\* it, or those left by the last execution of the statement that is held.
Held(form, list) ==
    {[k \in Columns |-> Unbound]}
    \cup (IF use.reuse /\ stmt.form = form /\ stmt.list = list THEN {stmt.binds} ELSE {})

Keep(form, list, binds) ==
    stmt' = IF use.reuse THEN [form |-> form, list |-> list, binds |-> binds] ELSE NoStatement

\* A table without an INTEGER PRIMARY KEY gets the rowid from SQLite; with one
\* the application may also replace a row.
CanInsert(id) == use.key = "primary" \/ id = NextId(DOMAIN stored)

\* INSERT whose values are parameters (directCompress).
Insert(id, vs, ms) ==
    /\ Open /\ "insert" \in use.forms /\ CanInsert(id)
    /\ \E held \in Held("insert", All) :
         LET b == [k \in Columns |-> bindBoth(held[k], k, vs[k], ms[k])]
         IN  /\ Keep("insert", All, b)
             /\ IF \A k \in Columns : b[k].ok
                THEN /\ stored' = Put(stored, id,
                            [k \in Columns |-> [body |-> b[k].body, type |-> b[k].type,
                                                match |-> ms[k]]])
                     /\ plain' = Put(plain, id, PlainRow(vs, ms))
                ELSE UNCHANGED data
    /\ UNCHANGED <<use, config, newData, stepper>>

\* UPDATE of contents and their match columns by parameters (directCompress).
Update(ids, list, vs, ms) ==
    /\ Open /\ "update" \in use.forms
    /\ \E held \in Held("update", list) :
         LET b == [k \in Columns |-> IF InList(k, list) THEN bindBoth(held[k], k, vs[k], ms[k])
                                     ELSE held[k]]
         IN  /\ Keep("update", list, b)
             /\ IF \A k \in Columns : b[k].ok
                THEN /\ stored' = [i \in DOMAIN stored |-> [k \in Columns |->
                            IF i \in ids /\ InList(k, list)
                            THEN [body |-> b[k].body, type |-> b[k].type, match |-> ms[k]]
                            ELSE stored[i][k]]]
                     /\ plain' = [i \in DOMAIN plain |-> [k \in Columns |->
                            IF i \in ids /\ InList(k, list) THEN PlainRow(vs, ms)[k]
                            ELSE plain[i][k]]]
                ELSE UNCHANGED data
    /\ UNCHANGED <<use, config, newData, stepper>>

\* The rows of an UPDATE that reads the match values of the rows (selectMatchType):
\* one after the other, each with the bindings the one before it left.
stepUpdate(ids, list, bound) ==
    LET order == SetToSortSeq(ids, <)
        step[n \in 0..Len(order)] ==
            IF n = 0 THEN [rows |-> stored, binds |-> bound]
            ELSE LET pre == step[n - 1]
                     row == stored[order[n]]
                     b == [k \in Columns |->
                             IF InList(k, list) /\ config.kinds[k] = "Various"
                                /\ pre.binds[k].bound # Null
                             THEN bindValueInInfo(pre.binds[k], k, row[k].match)
                             ELSE pre.binds[k]]
                 IN  [rows |-> [pre.rows EXCEPT ![order[n]] = [k \in Columns |->
                                  IF InList(k, list)
                                  THEN [row[k] EXCEPT !.body = b[k].body, !.type = b[k].type]
                                  ELSE row[k]]],
                      binds |-> b]
    IN  step[Len(order)]

TwinUpdate(ids, list, vs) ==
    plain' = [i \in DOMAIN plain |-> [k \in Columns |->
                 IF i \in ids /\ InList(k, list) THEN [plain[i][k] EXCEPT !.body = vs[k]]
                 ELSE plain[i][k]]]

\* UPDATE of contents by parameters without their match columns.
UpdateSelecting(ids, list, vs) ==
    /\ Open /\ "selecting" \in use.forms
    /\ \E held \in Held("selecting", list) :
         LET bound == [k \in Columns |-> IF InList(k, list) THEN bindContent(reset(held[k]), k, vs[k])
                                         ELSE held[k]]
             done == stepUpdate(ids, list, bound)
         IN  IF \A k \in Columns : bound[k].ok
             THEN /\ Keep("selecting", list, done.binds)
                  /\ stored' = done.rows
                  /\ TwinUpdate(ids, list, vs)
             ELSE /\ Keep("selecting", list, bound)
                  /\ UNCHANGED data
    /\ UNCHANGED <<use, config, newData, stepper>>

\* The statements that cannot be compressed by their parameters: the type columns
\* of what they write are NULL, and the row is selected and updated afterwards.

\* INSERT of a SELECT's rows: the row inserted last is compressed.
InsertSelect(ids, last, vs, ms) ==
    LET row == UntypedRow(vs, ms)
    IN  /\ Open /\ "insertSelect" \in use.forms
        /\ \A i \in ids : i \notin DOMAIN stored
        /\ use.key = "primary" \/ ids = {NextId(DOMAIN stored)}
        /\ ~UpdateFails(row, All)
        /\ stored' = [i \in DOMAIN stored \cup ids |->
                         CASE i = last -> stepSelectAndUpdateUncompressRow(row, All)
                           [] i \in ids \ {last} -> row
                           [] OTHER -> stored[i]]
        /\ plain' = [i \in DOMAIN plain \cup ids |->
                        IF i \in ids THEN PlainRow(vs, ms) ELSE plain[i]]
        /\ UNCHANGED <<use, config, newData, stmt, stepper>>

\* INSERT ... ON CONFLICT DO UPDATE that updates the row id: last_insert_rowid()
\* still names a row of an earlier INSERT, perhaps of another table.
Upsert(id, last, list, vs) ==
    LET rows == [stored EXCEPT ![id] = [k \in Columns |->
                    IF InList(k, list) THEN [@[k] EXCEPT !.body = vs[k], !.type = Null] ELSE @[k]]]
    IN  /\ Open /\ "upsert" \in use.forms
        /\ IF last \in DOMAIN rows
           THEN /\ ~UpdateFails(rows[last], All)
                /\ stored' = [rows EXCEPT ![last] = stepSelectAndUpdateUncompressRow(@, All)]
           ELSE stored' = rows
        /\ TwinUpdate({id}, list, vs)
        /\ UNCHANGED <<use, config, newData, stmt, stepper>>

\* UPDATE of contents by expressions.
UpdateExpression(ids, list, vs) ==
    LET rows == [i \in DOMAIN stored |-> [k \in Columns |->
                    IF i \in ids /\ InList(k, list)
                    THEN [stored[i][k] EXCEPT !.body = vs[k], !.type = Null]
                    ELSE stored[i][k]]]
    IN  /\ Open /\ "expression" \in use.forms
        /\ \A i \in ids : ~UpdateFails(rows[i], list)
        /\ stored' = [i \in DOMAIN rows |->
                         IF i \in ids THEN stepSelectAndUpdateUncompressRow(rows[i], list)
                         ELSE rows[i]]
        /\ TwinUpdate(ids, list, vs)
        /\ UNCHANGED <<use, config, newData, stmt, stepper>>

\* UPDATE of a match column alone: no compressing column is in the statement.
UpdateMatch(id, k, match) ==
    /\ Open /\ config.kinds[k] = "Various"
    /\ stored' = [stored EXCEPT ![id][k].match = match]
    /\ plain' = [plain EXCEPT ![id][k].match = match]
    /\ UNCHANGED <<use, config, newData, stmt, stepper>>

Delete(id) ==
    /\ Open
    /\ stored' = Without(stored, {id})
    /\ plain' = Without(plain, {id})
    /\ UNCHANGED <<use, config, newData, stmt, stepper>>

setCanCompressNewData ==
    /\ use.switches
    /\ newData' = ~newData
    /\ UNCHANGED <<use, config, data, stmt, stepper>>

-----------------------------------------------------------------------------
(* The stepper. *)

\* parseColumns drops the last character of the name of a column recorded with a
\* dictionary, so that only columns recorded without one are found again.
parseColumns(kinds) == {k \in DOMAIN kinds : kinds[k] = "Normal"}

RecordApplies ==
    /\ record # NoRecord
    /\ IF config.replace THEN record.kinds = config.kinds /\ record.dict = config.dict
       ELSE Columns \subseteq parseColumns(record.kinds)

AcquiredPhase == IF RecordApplies /\ record.min <= 0 THEN "compressed" ELSE "compressing"

AcquiredMin ==
    CASE ~RecordApplies -> minRowid
      [] RecordApplies /\ record.min <= 0 -> 0
      [] OTHER -> record.min

tryAcquireTables ==
    /\ Open /\ phase = "unknown"
    /\ phase' = AcquiredPhase
    /\ minRowid' = AcquiredMin
    /\ UNCHANGED <<use, config, newData, data, stmt, batch, counted, saving, record, cursor>>

\* The first n ids of the set, downwards.
Highest(ids, n) ==
    LET down == SetToSortSeq(ids, LAMBDA a, b : a > b)
    IN  SubSeq(down, 1, IF Len(down) < n THEN Len(down) ELSE n)

NeedsCompress(row) == config.replace \/ \E k \in Columns : row[k].type = Null

\* Mutant: the highest rowid is left out.
BugSelectRowids ==
    /\ Open /\ phase = "compressing" /\ batch = Nothing /\ ~saving
    /\ batch' = Highest({i \in DOMAIN stored : i < minRowid - 1 /\ NeedsCompress(stored[i])}, BatchCount)
    /\ UNCHANGED <<use, config, newData, data, stmt, phase, minRowid, counted, saving, record, cursor>>

\* compressRows: the rowids are read before the transaction that uses them.
SelectRowids ==
    /\ Open /\ phase = "compressing" /\ batch = Nothing /\ ~saving
    /\ batch' = Highest({i \in DOMAIN stored : i < minRowid /\ NeedsCompress(stored[i])}, BatchCount)
    /\ UNCHANGED <<use, config, newData, data, stmt, phase, minRowid, counted, saving, record, cursor>>

\* Mutant: a frame is compressed again as it is.
BugOriginal(cell) == cell.body

\* The content of a cell that compressRow compresses, and whether it does.
Original(cell) ==
    IF GetCompressedType(IntValue(cell.type)) = CompressedType.None THEN cell.body
    ELSE decompress(cell.body, cell.type)

Recompresses(cell) ==
    /\ IsContent(cell.body)
    /\ GetCompressedType(IntValue(cell.type)) = CompressedType.None \/ config.replace

compressRow(row) ==
    [k \in Columns |->
        LET cell == IF Recompresses(row[k]) THEN Compressed(Original(row[k]), k, row[k].match)
                    ELSE [body |-> row[k].body,
                          type |-> IF IsContent(row[k].body) THEN row[k].type
                                   ELSE Integer(CompressedType.None)]
        IN  [row[k] EXCEPT !.body = cell.body, !.type = cell.type]]

compressRowFails(row) == \E k \in Columns : Recompresses(row[k]) /\ ~HasDict(k, row[k].match)

\* doCompressRows: the rows are deleted and inserted again.  A table without an
\* INTEGER PRIMARY KEY gives them new rowids.
Present == SelectSeq(batch, LAMBDA i : i \in DOMAIN stored)

Reinserted(rows, new) ==
    LET rest == Without(rows, {Present[n] : n \in DOMAIN Present})
        id(n) == IF use.key = "primary" THEN Present[n] ELSE NextId(DOMAIN rest) + n - 1
    IN  [i \in DOMAIN rest \cup {id(n) : n \in DOMAIN Present} |->
            IF i \in DOMAIN rest THEN rest[i]
            ELSE new[Present[CHOOSE n \in DOMAIN Present : id(n) = i]]]

\* Mutant: the place in the table is not kept.
BugCompressRows ==
    /\ Open /\ batch # Nothing
    /\ \A n \in DOMAIN Present : ~compressRowFails(stored[Present[n]])
    /\ stored' = Reinserted(stored, [i \in DOMAIN stored |-> compressRow(stored[i])])
    /\ plain' = Reinserted(plain, plain)
    /\ batch' = Nothing
    /\ phase' = IF Len(batch) < BatchCount THEN "compressed" ELSE phase
    /\ UNCHANGED <<use, config, newData, stmt, minRowid, counted, saving, record, cursor>>

CompressRows ==
    /\ Open /\ batch # Nothing
    /\ \A n \in DOMAIN Present : ~compressRowFails(stored[Present[n]])
    /\ stored' = Reinserted(stored, [i \in DOMAIN stored |-> compressRow(stored[i])])
    /\ plain' = Reinserted(plain, plain)
    /\ batch' = Nothing
    /\ LET finish == Len(batch) < BatchCount
           count == counted + Len(batch)
       IN  /\ minRowid' = IF finish THEN 0 ELSE batch[Len(batch)]
           /\ phase' = IF finish THEN "compressed" ELSE phase
           /\ counted' = IF count < RecordCount THEN count ELSE RecordCount
           /\ saving' = (finish \/ count >= RecordCount)
    /\ UNCHANGED <<use, config, newData, stmt, record, cursor>>

\* The transaction is rolled back: another handle is busy, or a row cannot be compressed.
CompressRowsFails ==
    /\ Open /\ batch # Nothing
    /\ batch' = Nothing
    /\ UNCHANGED <<use, config, newData, data, stmt, phase, minRowid, counted, saving, record, cursor>>

\* Its result is ignored.
updateCompressionRecord ==
    /\ saving
    /\ saving' = FALSE
    /\ record' \in {record, [kinds |-> config.kinds, dict |-> config.dict, min |-> minRowid]}
    /\ UNCHANGED <<use, config, newData, data, stmt, phase, minRowid, batch, counted, cursor>>

-----------------------------------------------------------------------------
(* rollbackCompression, in close(): nothing else uses the database. *)

StartRollback ==
    /\ use.rolls /\ Open /\ batch = Nothing /\ ~saving
    /\ phase' = IF phase = "unknown" THEN AcquiredPhase ELSE phase
    /\ minRowid' = IF phase = "unknown" THEN AcquiredMin ELSE minRowid
    /\ cursor' = Infinite
    /\ stmt' = NoStatement
    /\ UNCHANGED <<use, config, newData, data, batch, counted, saving, record>>

batchRollbackCompression ==
    /\ cursor > 0
    /\ LET rolled == Highest({i \in DOMAIN stored : i < cursor
                                  /\ \E k \in Columns : stored[i][k].type # Null}, RollbackCount)
       IN  /\ stored' = [i \in DOMAIN stored |->
                            IF InList(i, rolled)
                            THEN [k \in Columns |->
                                    [stored[i][k] EXCEPT
                                       !.body = decompress(@, stored[i][k].type), !.type = Null]]
                            ELSE stored[i]]
           /\ cursor' = IF Len(rolled) < RollbackCount THEN 0 ELSE rolled[Len(rolled)]
    /\ UNCHANGED <<use, config, newData, plain, stmt, phase, minRowid, batch, counted, saving, record>>

\* A transaction, the checkpoint after it or the progress callback fails.
RollbackFails ==
    /\ ~Open
    /\ cursor' = -1
    /\ UNCHANGED <<use, config, newData, data, stmt, phase, minRowid, batch, counted, saving, record>>

EndRollback ==
    /\ cursor = 0
    /\ cursor' = -1
    /\ record' = NoRecord
    /\ phase' = "unknown"
    /\ minRowid' = Infinite
    /\ UNCHANGED <<use, config, newData, data, stmt, batch, counted, saving>>

-----------------------------------------------------------------------------
(* The process ends at any point and starts again, or addCompression sets  *)
(* another filter in close(): what was in memory is gone.                  *)

Restart ==
    /\ use.restarts
    /\ config' \in use.configs
    /\ newData' = TRUE
    /\ stmt' = NoStatement
    /\ phase' = "unknown"
    /\ minRowid' = Infinite
    /\ batch' = Nothing
    /\ counted' = 0
    /\ saving' = FALSE
    /\ cursor' = -1
    /\ UNCHANGED <<use, data, record>>

\* The application starts with rows written before compression was configured.
Init ==
    /\ use \in Setups
    /\ config \in use.configs
    /\ newData = TRUE
    /\ \E ids \in SUBSET Ids :
         /\ use.key = "rowid" => ids = 1..NextId(ids) - 1
         /\ plain \in [ids -> {PlainRow(vs, ms) : vs \in Contents, ms \in MatchRows}]
    /\ stored = [i \in DOMAIN plain |-> [k \in Columns |->
                    [body |-> plain[i][k].body, type |-> Null, match |-> plain[i][k].match]]]
    /\ stmt = NoStatement
    /\ phase = "unknown"
    /\ minRowid = Infinite
    /\ batch = Nothing
    /\ counted = 0
    /\ saving = FALSE
    /\ record = NoRecord
    /\ cursor = -1

Rows == DOMAIN stored

Statement ==
    \/ \E id \in Ids, vs \in Contents, ms \in MatchRows : Insert(id, vs, ms)
    \/ \E ids \in SUBSET Rows \ {{}}, list \in use.lists, vs \in Contents, ms \in MatchRows :
          Update(ids, list, vs, ms)
    \/ \E ids \in SUBSET Rows \ {{}}, list \in use.lists, vs \in Contents :
          UpdateSelecting(ids, list, vs) \/ UpdateExpression(ids, list, vs)
    \/ \E ids \in SUBSET Ids : \E last \in ids, vs \in Contents, ms \in MatchRows :
          InsertSelect(ids, last, vs, ms)
    \/ \E id \in Rows, last \in Ids, list \in use.lists, vs \in Contents : Upsert(id, last, list, vs)
    \/ \E id \in Rows, k \in Columns, match \in use.matches : UpdateMatch(id, k, match)
    \/ \E id \in Rows : Delete(id)

Next ==
    \/ Statement \/ setCanCompressNewData
    \/ tryAcquireTables \/ SelectRowids \/ CompressRows \/ CompressRowsFails
    \/ updateCompressionRecord
    \/ StartRollback \/ batchRollbackCompression \/ RollbackFails \/ EndRollback
    \/ Restart

Spec == Init /\ [][Next]_vars

\* stepCompression is called again and again, and it is not always interrupted:
\* the operation queue retries what did not finish.
Fairness ==
    /\ SF_vars(SelectRowids)
    /\ SF_vars(CompressRows)
    /\ WF_vars(updateCompressionRecord)
    /\ WF_vars(batchRollbackCompression \/ RollbackFails \/ EndRollback)

FairSpec == Spec /\ Fairness

-----------------------------------------------------------------------------
(* What is claimed. *)

KindsUsed == UNION {{c.kinds[k] : k \in DOMAIN c.kinds} : c \in use.configs}

AllMatched == \A m \in use.matches :
    (IF m \in DOMAIN MatchDict THEN MatchDict[m] ELSE CommonDict) \in Registered

\* The three uses of columns with several dictionaries that the code does not
\* support: executing a statement again when the content is bound before the match
\* value or without it, compressing two columns by a statement that is not
\* compressed by its parameters, and updating a row whose match value has no
\* dictionary.
Careful ==
    /\ use.reuse /\ "Various" \in KindsUsed => use.matchFirst /\ "selecting" \notin use.forms
    /\ use.forms \cap {"insertSelect", "upsert", "expression"} # {} =>
         \A c \in use.configs, k \in DOMAIN config.kinds :
            c.kinds[k] = "Various" => k = Len(config.kinds)
    /\ "selecting" \in use.forms => AllMatched

\* The application reads what it would read from a table without compression,
\* whatever the stepper, a rollback, a restart with another filter or another
\* statement does: CompressingStatementDecorator and DecompressFunction agree.  A
\* rollback that has come to its end leaves the contents themselves as they were
\* written, so that they can be read without WCDB (rollbackCompression).
ReadsAsWritten ==
    Careful =>
        /\ DOMAIN stored = DOMAIN plain
        /\ \A i \in DOMAIN stored : Read(stored[i]) = plain[i]
        /\ cursor = 0 =>
              \A i \in DOMAIN stored, k \in Columns :
                  stored[i][k].type = Null /\ stored[i][k].body = plain[i][k].body

\* The decorator is there so that statements need not know of compression: a table
\* with it and one without it that get the same statements hold the same rows.
SameAsUncompressed == \A i \in DOMAIN stored : Read(stored[i]) = plain[i]

\* When the stepper has finished a table, in this process or in an earlier one whose
\* record says so, no content is left that it has not looked at (compressRows,
\* filterComplessingTables).
FinishedIsTyped ==
    (/\ phase = "compressed"
     /\ ~use.switches /\ ~use.rolls /\ use.forms \cap {"insertSelect", "upsert"} = {})
    => \A i \in DOMAIN stored, k \in Columns : stored[i][k].type # Null

\* Compression of a table comes to an end although the application goes on writing,
\* and although the rows it compresses may get new rowids (compressRows).
CompressionFinishes ==
    (AllMatched /\ phase = "compressing") ~> (phase # "compressing")

=============================================================================
