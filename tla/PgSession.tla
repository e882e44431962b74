------------------------------ MODULE PgSession ------------------------------
(***************************************************************************)
(* What the capture of src/proxy/postgres/conn.go reports, next to what   *)
(* the PostgreSQL session behind the proxy does with the same messages.   *)
(* The relay forwards the client's messages unchanged and in order        *)
(* (PgConn, Delivery), so the server handles exactly the sequence         *)
(* captureClientMsg sees; a step captures one message and lets the server *)
(* handle it.                                                              *)
(*                                                                         *)
(* The server follows the extended-query protocol: named statements and   *)
(* portals, the unnamed ones replaced by the next Parse / Bind and by a   *)
(* simple Query, an error in Parse / Bind / Execute discarding every      *)
(* message up to the next Sync, and the transaction status of a session   *)
(* (idle, in a block, in a failed block) with savepoints.                 *)
(***************************************************************************)
EXTENDS PgCapture

CONSTANT
    ClientMode  \* "driver": one statement per cycle, each cycle written
                \*   whole and ended by Sync, as pgx writes it;
                \* "free":   any message at any time

ASSUME SessionAssumption == ClientMode \in {"driver", "free"}

VARIABLES
    srvStmts,   \* prepared statements of the session: name -> text
    srvPortals, \* portals of the session: name -> [query, args]
    srvTx,      \* transaction status: "I" idle, "T" in a block, "E" failed block
    srvSp,      \* the open block has a savepoint
    srvSkip,    \* an error occurred: messages are discarded up to Sync
    srvRan,     \* history: for each captured message, what Execute ran
    drv         \* where the client is in its statement cycle

sessionVars == <<srvStmts, srvPortals, srvTx, srvSp, srvSkip, srvRan, drv>>

-----------------------------------------------------------------------------
(* How the server reads a text: the keywords, whatever case and padding.  *)
(* The arms exclude each other, so every text has one kind.               *)
StmtKind(t) ==
    LET w == t.words
        to == Len(w) > 1 /\ w[2] = "TO"
    IN IF w = <<>> THEN "plain"
       ELSE CASE w[1] = "BEGIN"              -> "begin"
              [] w[1] = "COMMIT"             -> "end"
              [] w[1] = "ROLLBACK" /\ to     -> "rollbackTo"
              [] w[1] = "ROLLBACK" /\ ~to    -> "end"
              [] w[1] = "SAVEPOINT"          -> "savepoint"
              [] OTHER                       -> "plain"

(* Statements a failed block still accepts.                               *)
IsExitStmt(t) == StmtKind(t) \in {"end", "rollbackTo"}

Outcome(tx, sp, ok) == [tx |-> tx, sp |-> sp, ok |-> ok]

(* An error inside a block fails the block.                               *)
Failure == Outcome(IF srvTx = "T" THEN "E" ELSE srvTx, srvSp, FALSE)

(* The outcomes of running text t in the current transaction status.  A   *)
(* plain statement may fail (a constraint, a missing table...).           *)
Results(t) ==
    LET k == StmtKind(t) IN
    CASE srvTx = "E" /\ k = "end"           -> {Outcome("I", FALSE, TRUE)}
      [] srvTx = "E" /\ k = "rollbackTo"    -> IF srvSp THEN {Outcome("T", TRUE, TRUE)}
                                               ELSE {Failure}
      [] srvTx = "E"                        -> {Failure}
      [] k = "begin"                        -> {Outcome("T", srvSp, TRUE)}
      [] k = "end"                          -> {Outcome("I", FALSE, TRUE)}
      [] k = "rollbackTo"                   -> IF srvTx = "T" /\ srvSp
                                               THEN {Outcome("T", TRUE, TRUE)}
                                               ELSE {Failure}
      [] k = "savepoint"                    -> IF srvTx = "T"
                                               THEN {Outcome("T", TRUE, TRUE)}
                                               ELSE {Failure}
      [] OTHER                              -> {Outcome(srvTx, srvSp, TRUE), Failure}

NotRun == [ran |-> FALSE, query |-> EmptyText, args |-> <<>>]
Ran(p) == [ran |-> TRUE, query |-> p.query, args |-> p.args]

NoPortals == [x \in {} |-> [query |-> EmptyText, args |-> <<>>]]

Drop(f, n) == [x \in DOMAIN f \ {n} |-> f[x]]

(* f with n set to v, as a Go map assignment f[n] = v does.               *)
Store(f, n, v) == [x \in DOMAIN f \cup {n} |-> IF x = n THEN v ELSE f[x]]

(* An error in an extended-query message.                                  *)
ServerError ==
    /\ srvTx' = Failure.tx
    /\ srvSkip' = TRUE
    /\ UNCHANGED <<srvStmts, srvPortals, srvSp>>

(* The server handles message m; k is its position in msgs.                *)
ServerHandle(m) ==
    /\ \/ /\ srvSkip /\ m.type # "Other"
          /\ UNCHANGED <<srvStmts, srvPortals, srvTx, srvSp, srvSkip>>
       \/ /\ m.type = "Other"
          /\ srvSkip' = FALSE
          /\ srvPortals' = IF srvTx = "I" THEN NoPortals ELSE srvPortals
          /\ UNCHANGED <<srvStmts, srvTx, srvSp>>
       \/ /\ ~srvSkip /\ m.type = "Query"
          /\ \E r \in Results(m.text) :
               /\ srvTx' = r.tx /\ srvSp' = r.sp
               /\ srvStmts' = Drop(srvStmts, Unnamed)
               /\ srvPortals' = IF r.tx = "I" THEN NoPortals
                                ELSE Drop(srvPortals, Unnamed)
          /\ UNCHANGED srvSkip
       \/ /\ ~srvSkip /\ m.type = "Parse"
          /\ IF (m.name # Unnamed /\ m.name \in DOMAIN srvStmts)
                \/ (srvTx = "E" /\ ~IsExitStmt(m.text))
             THEN ServerError
             ELSE /\ srvStmts' = Store(srvStmts, m.name, m.text)
                  /\ UNCHANGED <<srvPortals, srvTx, srvSp, srvSkip>>
       \/ /\ ~srvSkip /\ m.type = "Bind"
          /\ IF \/ m.stmt \notin DOMAIN srvStmts
                \/ m.portal # Unnamed /\ m.portal \in DOMAIN srvPortals
                \/ srvTx = "E" /\ ~IsExitStmt(srvStmts[m.stmt])
             THEN ServerError
             ELSE /\ srvPortals' = Store(srvPortals, m.portal,
                                      [query |-> srvStmts[m.stmt], args |-> m.args])
                  /\ UNCHANGED <<srvStmts, srvTx, srvSp, srvSkip>>
       \/ /\ ~srvSkip /\ m.type = "Execute"
          /\ IF m.portal \notin DOMAIN srvPortals
             THEN ServerError
             ELSE \E r \in Results(srvPortals[m.portal].query) :
                    /\ srvTx' = r.tx /\ srvSp' = r.sp /\ srvSkip' = ~r.ok
                    /\ UNCHANGED <<srvStmts, srvPortals>>
    /\ srvRan' = Append(srvRan,
                        IF m.type = "Execute" /\ ~srvSkip /\ m.portal \in DOMAIN srvPortals
                        THEN Ran(srvPortals[m.portal]) ELSE NotRun)

-----------------------------------------------------------------------------
(* The client.  A driver runs one statement per cycle: a simple Query; or *)
(* Parse, Bind, Execute, Sync on the unnamed statement or a fresh name;   *)
(* or Parse of a fresh name and Sync (prepare); or Bind of a prepared     *)
(* name, Execute, Sync.  Portals are unnamed.  A cycle is written whole,  *)
(* before the answers are read, so an error inside it does not stop it.  *)
(* drv is "ready" between cycles, then "parsed", "bound", "executed"; the *)
(* name of the statement being run is kept in drv.stmt.                    *)
UsedNames == {msgs[i].name : i \in {j \in 1..Len(msgs) : msgs[j].type = "Parse"}}

StartsCycle(m) ==
    \/ m.type = "Query"
    \/ m.type = "Parse" /\ (m.name = Unnamed \/ m.name \notin UsedNames)
    \/ /\ m.type = "Bind" /\ m.portal = Unnamed
       /\ m.stmt # Unnamed /\ m.stmt \in DOMAIN srvStmts

ClientMayWrite(m) ==
    \/ ClientMode = "free"
    \/ drv.at = "ready" /\ StartsCycle(m)
    \/ drv.at = "parsed" /\ m.type = "Other"
    \/ /\ drv.at = "parsed" /\ m.type = "Bind"
       /\ m.portal = Unnamed /\ m.stmt = drv.stmt
    \/ drv.at = "bound" /\ m.type = "Execute" /\ m.portal = Unnamed
    \/ drv.at = "executed" /\ m.type = "Other"

ClientStep(m) ==
    drv' = CASE m.type = "Parse"   -> [at |-> "parsed", stmt |-> m.name]
             [] m.type = "Bind"    -> [at |-> "bound", stmt |-> m.stmt]
             [] m.type = "Execute" -> [at |-> "executed", stmt |-> drv.stmt]
             [] OTHER              -> [at |-> "ready", stmt |-> Unnamed]

-----------------------------------------------------------------------------
SessionInit ==
    /\ Init
    /\ srvStmts = [x \in {} |-> EmptyText]
    /\ srvPortals = NoPortals
    /\ srvTx = "I" /\ srvSp = FALSE /\ srvSkip = FALSE
    /\ srvRan = <<>>
    /\ drv = [at |-> "ready", stmt |-> Unnamed]

SessionNext ==
    \/ \E m \in ClientMsgs :
         /\ Len(msgs) < MaxMsgs
         /\ ClientMayWrite(m)
         /\ CaptureClientMsg(m)
         /\ ServerHandle(m)
         /\ ClientStep(m)
    \/ Subscriber /\ UNCHANGED sessionVars

SessionSpec == SessionInit /\ [][SessionNext]_<<captureVars, sessionVars>>


-----------------------------------------------------------------------------
(* Type invariant.                                                         *)
SessionTypeOK ==
    /\ TypeOK
    /\ DOMAIN srvStmts \subseteq StmtNames
    /\ \A x \in DOMAIN srvStmts : srvStmts[x] \in Texts
    /\ DOMAIN srvPortals \subseteq Portals
    /\ \A x \in DOMAIN srvPortals :
         srvPortals[x] \in [query : Texts, args : ArgLists]
    /\ srvTx \in {"I", "T", "E"} /\ srvSp \in BOOLEAN /\ srvSkip \in BOOLEAN
    /\ Len(srvRan) = Len(msgs)
    /\ drv.at \in {"ready", "parsed", "bound", "executed"}

(* Transaction tracking against the server: the capture has a transaction *)
(* id (activeTxID set by detectTx in handleSimpleQuery and handleExecute) *)
(* exactly when the server's session is inside a transaction block, open  *)
(* or failed.  It fails when detectTx and the server read a text          *)
(* differently, or when the server refuses what the capture counted.      *)
TxStatusAgrees == (activeTxID # NoTx) <=> (srvTx # "I")

(* Execute events against the server: when the server ran the Execute    *)
(* an event of handleExecute stands for, the event carries the text of    *)
(* the statement the server ran it on and the parameters it was bound     *)
(* with.  It fails when lastParse, preparedStmts and lastBindStmt name    *)
(* another text than the portal the Execute names (a named Parse after    *)
(* the unnamed one, a Parse the server refused, a named portal).          *)
ExecuteMatchesServer ==
    \A i \in 1..Len(log) :
        log[i].ev.op = "Execute" /\ srvRan[log[i].at].ran =>
          srvRan[log[i].at] = [ran |-> TRUE, query |-> log[i].ev.query,
                               args |-> log[i].ev.args]

(* Every Execute event handleExecute emits stands for an Execute the      *)
(* server ran.  It fails when the server discarded the Execute up to the  *)
(* next Sync after an earlier error of the same cycle (a Parse refused    *)
(* in a failed transaction block).                                        *)
ExecuteEventsRan ==
    \A i \in 1..Len(log) : log[i].ev.op = "Execute" => srvRan[log[i].at].ran

=============================================================================
