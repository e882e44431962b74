----------------------------- MODULE MCPgProxy -----------------------------
(* Two client connections for PgProxy.                                    *)
EXTENDS PgProxy

MCConns == {"c1", "c2"}
=============================================================================
