------------------------------ MODULE MCPgConn ------------------------------
(* Small instances of PgConn for TLC.                                     *)
EXTENDS PgConn

(* Two texts: a BEGIN and a plain SELECT; one statement name besides the  *)
(* unnamed one; one argument list.                                        *)
MCTexts ==
    { [pad |-> FALSE, lower |-> FALSE, words |-> <<"BEGIN">>],
      [pad |-> TRUE, lower |-> TRUE, words |-> <<"SELECT">>] }
MCStmtNames == {"", "s1"}
MCArgLists == {<<"a">>}
=============================================================================
