---------------------------- MODULE MCPgSession ----------------------------
(* Model values for PgSession.  MCTexts has BEGIN, a padded COMMIT, a     *)
(* lower-case ROLLBACK and a plain SELECT; MCSpTexts adds SAVEPOINT and   *)
(* ROLLBACK TO SAVEPOINT.                                                  *)
EXTENDS PgSession

MCTexts ==
    { [pad |-> FALSE, lower |-> FALSE, words |-> <<"BEGIN">>],
      [pad |-> TRUE,  lower |-> FALSE, words |-> <<"COMMIT">>],
      [pad |-> FALSE, lower |-> TRUE,  words |-> <<"ROLLBACK">>],
      [pad |-> FALSE, lower |-> FALSE, words |-> <<"SELECT">>] }

MCSpTexts ==
    { [pad |-> FALSE, lower |-> FALSE, words |-> <<"BEGIN">>],
      [pad |-> FALSE, lower |-> FALSE, words |-> <<"SAVEPOINT">>],
      [pad |-> FALSE, lower |-> TRUE,  words |-> <<"ROLLBACK", "TO", "SAVEPOINT">>],
      [pad |-> FALSE, lower |-> FALSE, words |-> <<"SELECT">>] }

MCStmtNames == {"", "s1"}

MCArgLists == { <<"a">> }
=============================================================================
