----------------------------- MODULE MCFactory -----------------------------
(* Small instances of the repair factory.                                   *)
EXTENDS Factory

CONSTANTS d1, d2, w1, w2

Use(jobs, renames, failing, data, workshops) ==
    [jobs |-> jobs, renames |-> renames, failing |-> failing, data |-> data,
     workshops |-> workshops]

\* Vacuums in both builds, the operations in pairs, and file systems that fail.
MCSetups ==
    {Use({"vacuum"}, renames, {}, {d1, d2}, {}) : renames \in BOOLEAN}
    \cup {Use({"vacuum", "deposit"}, FALSE, failing, {d1, d2}, {w1}) :
             failing \in {{}, {"stat", "link"}}}
    \cup {Use({"deposit", "retrieve"}, FALSE, {"link"}, {d1, d2}, {w1}),
          Use({"deposit", "retrieve"}, FALSE, {"stat"}, {d1}, {w1}),
          Use({"deposit", "retrieve"}, FALSE, {}, {d1}, {w1, w2})}

\* A deposit on Android or OHOS.
RenamingSetups == {Use({"deposit"}, TRUE, {}, {d1}, {w1})}

\* Inode numbers matter only by which files share them.
Links(id) == {q \in Places \X DOMAIN Paths : Has(q[1], q[2]) /\ fs[q[1]][q[2]].id = id}

Shared ==
    <<[p \in Places |-> [k \in DOMAIN fs[p] |-> <<fs[p][k].data, Links(fs[p][k].id)>>]],
      at, moving, rest>>
=============================================================================
