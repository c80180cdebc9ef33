---------------------------- MODULE MCWarehouse -----------------------------
(***************************************************************************)
(* Small instances of Warehouse: three spans on two days, one of them      *)
(* replayed with a corrected category; a fresh database, one that waits    *)
(* for 013, and one whose 001 was edited.                                  *)
(***************************************************************************)
EXTENDS Warehouse

Row(span, version, minute, category) ==
  [tenant |-> "acme", trace |-> "t1", span |-> span, version |-> version, minute |-> minute,
   service |-> "mcp", tool |-> IF span = "a" THEN "fetch" ELSE "find", method |-> "tools/call",
   category |-> category, error |-> category = "tool_error", eligible |-> TRUE,
   duration |-> IF span = "a" THEN 0 ELSE minute, helper |-> version = 2]

MCRows == [a1 |-> Row("a", 1, 1, "ok"), a2 |-> Row("a", 2, 1, "tool_error"), b1 |-> Row("b", 1, 3, "ok")]

File(version, statements) ==
  [version |-> version, checksum |-> "as written", statements |-> statements]

MCBaseFiles ==
  {File(1, RawSql), File(4, AssemblySql), File(12, RollupSql), File(13, <<>>)}

MCOverrideFiles == {File(13, PartitionSql)}

Applied(version) == [version |-> version, checksum |-> "as written"]

Left(twice, dead, redone) == [copies |-> twice, crashes |-> dead, jobs |-> redone]

\* A fresh database and two services; a release that brings 013 to a database in
\* use, while the operator recomputes; two recomputations at once; a service that
\* finds 001 edited.
MCInstallations ==
  {[ledger |-> {}, objects |-> {}, services |-> Runners, left |-> Left(0, 1, 0)],
   [ledger |-> {Applied(1), Applied(4), Applied(12)}, objects |-> Objects,
    services |-> {CHOOSE r \in Runners : TRUE}, left |-> Left(0, 0, 1)],
   [ledger |-> {Applied(1), Applied(4), Applied(12), Applied(13)}, objects |-> Objects,
    services |-> {}, left |-> Left(1, 1, 2)],
   [ledger |-> {[Applied(1) EXCEPT !.checksum = "as it was"]}, objects |-> {"raw"},
    services |-> Runners, left |-> Left(0, 0, 0)]}
=============================================================================
