---------------------------- MODULE MCPgCapture ----------------------------
(* Model values for PgCapture: four texts covering BEGIN, COMMIT,         *)
(* ROLLBACK TO SAVEPOINT in lower case with leading blanks, and a plain   *)
(* SELECT; one named statement; two parameter lists.                      *)
EXTENDS PgCapture

MCTexts ==
    { [pad |-> FALSE, lower |-> FALSE, words |-> <<"BEGIN">>],
      [pad |-> TRUE,  lower |-> FALSE, words |-> <<"COMMIT">>],
      [pad |-> TRUE,  lower |-> TRUE,  words |-> <<"ROLLBACK", "TO", "SAVEPOINT">>],
      [pad |-> FALSE, lower |-> FALSE, words |-> <<"SELECT">>] }

MCStmtNames == {"", "s1"}

MCArgLists == { <<"a">>, <<"b">> }
=============================================================================
