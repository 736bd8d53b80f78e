----------------------------- MODULE PlainTable -----------------------------
(* What a table promises to those who read and write it: one row per id,    *)
(* changed by nobody but them.  It is what WCDB promises of the target      *)
(* table of a migration, which can be treated as if it already had all the  *)
(* data of the source table.                                                *)
CONSTANTS
    Ids, Values,
    Contents    \* what the table may begin with

VARIABLE rows   \* the rows: a function from the ids in use to their values

Put(f, id, v) == [i \in DOMAIN f \cup {id} |-> IF i = id THEN v ELSE f[i]]

Without(f, ids) == [i \in DOMAIN f \ ids |-> f[i]]

Init == rows \in Contents

Insert == \E id \in Ids \ DOMAIN rows, v \in Values : rows' = Put(rows, id, v)

\* INSERT OR REPLACE of an id in use, or UPDATE.
Change == \E id \in DOMAIN rows, v \in Values : rows' = Put(rows, id, v)

Rekey == \E id \in DOMAIN rows, new \in Ids \ DOMAIN rows :
            rows' = Put(Without(rows, {id}), new, rows[id])

Delete == \E ids \in SUBSET DOMAIN rows : rows' = Without(rows, ids)

Next == Insert \/ Change \/ Rekey \/ Delete

Spec == Init /\ [][Next]_rows
=============================================================================
