--------------------------- MODULE MCCompression ----------------------------
(* Small instances of compression.  A behaviour is one of the rows of a     *)
(* table (CompressedRows) or of what threads know about it (Compression);   *)
(* the variables of the other rest.                                         *)
EXTENDS CompressedRows, Compression, TLC

CONSTANTS u1, u2

\* Which of the two a behaviour is of.
VARIABLE part

InRows == part = "rows"
InInfos == part = "infos"

One(set) == CHOOSE x \in set : TRUE

MCInit ==
    /\ Init /\ CompressionInit
    /\ \/ InRows /\ setup = One(TableSetups)
       \/ InInfos /\ use = One(Setups) /\ config = One(use.configs) /\ plain = <<>>

RowsNext == InRows /\ Next /\ UNCHANGED <<part, compressionVars>>
InfosNext == InInfos /\ CompressionNext /\ UNCHANGED <<part, vars>>

MCVars == <<part, vars, compressionVars>>

\* Fairness of the two modules, each in its part.
MCSpec ==
    /\ MCInit /\ [][RowsNext \/ InfosNext]_MCVars
    /\ SF_vars(InRows /\ SelectRowids) /\ SF_vars(InRows /\ CompressRows)
    /\ WF_vars(InRows /\ updateCompressionRecord)
    /\ WF_vars(InRows /\ (batchRollbackCompression \/ RollbackFails \/ EndRollback))
    /\ \A t \in Threads : WF_compressionVars(InInfos /\ Continue(t))
    /\ \A u \in Users : WF_compressionVars(InInfos /\ Ends(u))
    /\ WF_compressionVars(InInfos /\ Steps)

Long1 == [type |-> "Text", bytes |-> <<1>>]
Long2 == [type |-> "Text", bytes |-> <<2>>]
Short == [type |-> "Text", bytes |-> <<3>>]
Blob1 == [type |-> "BLOB", bytes |-> <<1>>]

MCMatchDict == [m \in {0, 1} |-> m + 1]

Filter(kinds, replace) == [kinds |-> kinds, dict |-> 1, replace |-> replace]

Base == [configs |-> {Filter(<<"Normal">>, FALSE)}, values |-> {Long1, Short}, matches |-> {0},
         lists |-> {<<1>>}, maxId |-> 2, key |-> "primary", matchFirst |-> FALSE, reuse |-> FALSE,
         forms |-> {"insert"}, switches |-> FALSE, rolls |-> FALSE, restarts |-> TRUE]

InfoBase ==
    [operations |-> (u1 :> 2 @@ u2 :> 1), transactions |-> {u1}, nested |-> FALSE, drops |-> FALSE,
     alters |-> FALSE, tables |-> {<<"c">>}, records |-> {"none"}, batches |-> 1,
     timesOut |-> FALSE]

\* Columns are added; the table is dropped, in a transaction or not; it is created;
\* a nested transaction is rolled back; waits for the lock time out.
MCInfoSetups == {
  [InfoBase EXCEPT !.alters = TRUE],
  [InfoBase EXCEPT !.drops = TRUE, !.tables = {<<"c", "ct">>}, !.records = {"done"},
                   !.transactions = {}],
  [InfoBase EXCEPT !.drops = TRUE, !.records = {"empty"}, !.operations = (u1 :> 3 @@ u2 :> 0)],
  [InfoBase EXCEPT !.tables = {<<>>}, !.transactions = {}],
  [InfoBase EXCEPT !.tables = {<<>>}, !.operations = (u1 :> 3 @@ u2 :> 0)],
  [InfoBase EXCEPT !.nested = TRUE, !.operations = (u1 :> 4 @@ u2 :> 0), !.batches = 2],
  [InfoBase EXCEPT !.timesOut = TRUE, !.drops = TRUE, !.records = {"none", "empty"}],
  [InfoBase EXCEPT !.timesOut = TRUE, !.alters = TRUE],
  [InfoBase EXCEPT !.timesOut = TRUE, !.tables = {<<>>}]}

\* See Compression: the compression comes to its end.
EverythingCompressed == InInfos => TableCompressed

MCSetups == {
  \* Every statement, and data that is not compressed at once.
  [Base EXCEPT !.values = {Long1, Short, Blob1, Null},
               !.forms = {"insert", "update", "insertSelect", "upsert", "expression"},
               !.switches = TRUE, !.restarts = FALSE],
  \* A filter that changes, and a rollback.
  [Base EXCEPT !.configs = {Filter(<<"Normal">>, FALSE), Filter(<<"Dict">>, TRUE)},
               !.maxId = 3, !.rolls = TRUE, !.values = {Long1}],
  \* Progress over restarts.
  [Base EXCEPT !.configs = {Filter(<<"Normal">>, FALSE), Filter(<<"Dict">>, TRUE)},
               !.values = {Long1, Null}, !.maxId = 3],
  \* Rows whose rowids change.
  [Base EXCEPT !.configs = {Filter(<<"Normal">>, FALSE), Filter(<<"Dict">>, TRUE)},
               !.key = "rowid", !.maxId = 3, !.values = {Long1}],
  \* Dictionaries by match value, one of them not registered.
  [Base EXCEPT !.configs = {Filter(<<"Various">>, FALSE)},
               !.values = {Long1, Null}, !.matches = {0, 2},
               !.forms = {"insert", "update", "expression"}],
  [Base EXCEPT !.configs = {Filter(<<"Various">>, FALSE)},
               !.values = {Long1, Null}, !.matches = {0, 1},
               !.forms = {"insert", "selecting", "upsert"}, !.restarts = FALSE],
  \* A statement executed again.
  [Base EXCEPT !.configs = {Filter(<<"Various">>, FALSE)}, !.values = {Long1, Null},
               !.matches = {0, 1},
               !.forms = {"insert", "update"}, !.reuse = TRUE, !.matchFirst = TRUE,
               !.restarts = FALSE],
  \* Two columns.
  [Base EXCEPT !.configs = {Filter(<<"Dict", "Various">>, FALSE)}, !.values = {Long1, Short, Null},
               !.matches = {0, 1}, !.lists = {<<1>>, <<1, 2>>}, !.maxId = 1,
               !.forms = {"insert", "selecting", "expression", "insertSelect"}] }

\* A statement executed again whose content is bound before its match value.
RebindingSetups == {
  [Base EXCEPT !.configs = {Filter(<<"Various">>, FALSE)}, !.values = {Long1, Long2},
               !.matches = {0, 1}, !.reuse = TRUE]}

RowsSpec == MCInit /\ InRows /\ [][RowsNext]_MCVars
=============================================================================
