---------------------------- MODULE PgDriverProofs ----------------------------
(***************************************************************************)
(* The capture against the PostgreSQL session, for a client that writes   *)
(* whole driver cycles (ClientMode = "driver", as pgx writes them) and    *)
(* never sends ROLLBACK TO SAVEPOINT.  The runs session_free and          *)
(* session_savepoint show that neither hypothesis can be dropped.          *)
(*                                                                         *)
(* Under them detectTx and the server agree on whether a transaction      *)
(* block is open (TxStatusAgrees), and every Execute event carries what   *)
(* the server ran (ExecuteMatchesServer).  Neither is inductive: the      *)
(* step that runs a statement needs to know, from the point the client is *)
(* at in its cycle, that the text handleExecute resolves is the text of   *)
(* the portal the server executes, and that a cycle the server discards   *)
(* after an error carries no COMMIT or ROLLBACK.                           *)
(***************************************************************************)
EXTENDS PgSessionProofs

(* The client of the theorems below: a driver that does not roll back to  *)
(* a savepoint.                                                           *)
DriverClient ==
    /\ ClientMode = "driver"
    /\ \A t \in Texts : StmtKind(t) # "rollbackTo"

(* Every event stands for a captured message.                              *)
LogAtMsgs == \A i \in 1..Len(log) : log[i].at \in 1..Len(msgs)

(* A named statement the server has prepared was parsed by the client,    *)
(* and handleParse stored the same text under its name.                   *)
NamedStmtsKnown ==
    \A s \in DOMAIN srvStmts \ {Unnamed} :
        /\ s \in UsedNames /\ s \in DOMAIN preparedStmts
        /\ preparedStmts[s] = srvStmts[s]

(* Where the client is in its cycle tells what the server holds.  Between *)
(* cycles nothing is discarded.  After a Parse, the server holds its text *)
(* under the name, or refused it in a failed block.  After a Bind, the    *)
(* unnamed portal holds the text handleExecute will resolve and the       *)
(* parameters handleBind kept, or the server refused the Parse or the     *)
(* Bind in a failed block, so the text is no COMMIT or ROLLBACK.           *)
CycleInv ==
    /\ drv.at = "ready" => ~srvSkip
    /\ drv.at = "parsed" =>
         /\ drv.stmt # Unnamed =>
              drv.stmt \in DOMAIN preparedStmts /\ preparedStmts[drv.stmt] = lastParse
         /\ IF srvSkip THEN srvTx = "E" /\ ~IsEnd(lastParse)
            ELSE drv.stmt \in DOMAIN srvStmts /\ srvStmts[drv.stmt] = lastParse
    /\ drv.at = "bound" =>
         IF srvSkip THEN srvTx = "E" /\ ~IsEnd(ExecuteQuery)
         ELSE /\ Unnamed \in DOMAIN srvPortals
              /\ srvPortals[Unnamed] = [query |-> ExecuteQuery, args |-> lastBindArgs]

(* The inductive invariant.                                                *)
DInv ==
    /\ TypeOK /\ ServerTypeOK
    /\ TxStatusAgrees
    /\ LogAtMsgs
    /\ ExecuteMatchesServer
    /\ NamedStmtsKnown
    /\ CycleInv

-----------------------------------------------------------------------------
(* What detectTx reads from a text is what the server reads: BEGIN opens, *)
(* COMMIT and ROLLBACK end, and the statements a failed block accepts are *)
(* the ends.                                                              *)
LEMMA TextKinds ==
    ASSUME NEW t \in Texts, StmtKind(t) # "rollbackTo"
    PROVE  /\ IsBegin(t) <=> StmtKind(t) = "begin"
           /\ IsEnd(t) <=> StmtKind(t) = "end"
           /\ IsExitStmt(t) <=> IsEnd(t)
<1>1. t \in [pad : BOOLEAN, lower : BOOLEAN, words : Seq(STRING)]
  BY TextAssumption
<1>2. IsBegin(t) <=> t.words # <<>> /\ t.words[1] = "BEGIN"
  BY <1>1 DEF IsBegin, HasPrefix, ToUpper, TrimSpace
<1>3. IsEnd(t) <=> /\ ~(t.words # <<>> /\ t.words[1] = "BEGIN")
                   /\ t.words # <<>>
                   /\ t.words[1] \in {"COMMIT", "ROLLBACK"}
  BY <1>1, <1>2 DEF IsEnd, HasPrefix, ToUpper, TrimSpace
<1>4. CASE t.words = <<>>
  <2>1. StmtKind(t) = "plain"
    BY <1>4 DEF StmtKind
  <2>2. QED BY <1>2, <1>3, <1>4, <2>1 DEF IsExitStmt
<1>5. CASE t.words # <<>> /\ t.words[1] = "BEGIN"
  <2>1. StmtKind(t) = "begin"
    BY <1>5 DEF StmtKind
  <2>2. QED BY <1>2, <1>3, <1>5, <2>1 DEF IsExitStmt
<1>6. CASE t.words # <<>> /\ t.words[1] = "COMMIT"
  <2>1. StmtKind(t) = "end"
    BY <1>6 DEF StmtKind
  <2>2. QED BY <1>2, <1>3, <1>6, <2>1 DEF IsExitStmt
<1>7. CASE t.words # <<>> /\ t.words[1] = "ROLLBACK"
  <2>1. StmtKind(t) = "end"
    BY <1>7 DEF StmtKind
  <2>2. QED BY <1>2, <1>3, <1>7, <2>1 DEF IsExitStmt
<1>8. CASE t.words # <<>> /\ t.words[1] \notin {"BEGIN", "COMMIT", "ROLLBACK"}
  <2>1. StmtKind(t) \in {"savepoint", "plain"}
    BY <1>8 DEF StmtKind
  <2>2. QED BY <1>2, <1>3, <1>8, <2>1 DEF IsExitStmt
<1>9. QED BY <1>4, <1>5, <1>6, <1>7, <1>8

(* Running a text moves detectTx and the server in step: after a BEGIN    *)
(* both are in a transaction (a failed block stays failed), after a       *)
(* COMMIT or ROLLBACK neither is, and any other statement leaves both     *)
(* where they were, an error in a block failing it.                       *)
LEMMA StatusStep ==
    ASSUME TypeOK, srvTx \in {"I", "T", "E"}, NEW t \in Texts,
           StmtKind(t) # "rollbackTo", TxStatusAgrees,
           DetectTx(t), NEW r \in Results(t), srvTx' = r.tx
    PROVE  TxStatusAgrees'
<1>1. StmtKind(t) \in {"begin", "end", "plain", "savepoint"}
  BY DEF StmtKind
<1>2. CASE StmtKind(t) = "begin"
  <2>1. IsBegin(t) /\ ~IsEnd(t)
    BY <1>2, TextKinds
  <2>2. activeTxID' # NoTx
    BY <2>1 DEF DetectTx, TypeOK, NoTx
  <2>3. r.tx # "I"
    BY <1>2 DEF Results, Failure, Outcome
  <2>4. QED BY <2>2, <2>3 DEF TxStatusAgrees
<1>3. CASE StmtKind(t) = "end"
  <2>1. ~IsBegin(t) /\ IsEnd(t)
    BY <1>3, TextKinds
  <2>2. activeTxID' = NoTx
    BY <2>1 DEF DetectTx
  <2>3. r.tx = "I"
    BY <1>3 DEF Results, Failure, Outcome
  <2>4. QED BY <2>2, <2>3 DEF TxStatusAgrees
<1>4. CASE StmtKind(t) \in {"plain", "savepoint"}
  <2>1. ~IsBegin(t) /\ ~IsEnd(t)
    BY <1>4, TextKinds
  <2>2. activeTxID' = activeTxID
    BY <2>1 DEF DetectTx
  <2>3. r.tx = "I" <=> srvTx = "I"
    BY <1>4 DEF Results, Failure, Outcome
  <2>4. QED BY <2>2, <2>3 DEF TxStatusAgrees
<1>5. QED BY <1>1, <1>2, <1>3, <1>4

(* Capturing a message forgets no parsed name, and a Parse adds its own.  *)
LEMMA UsedNamesAppend ==
    ASSUME msgs \in Seq(ClientMsgs), NEW m \in ClientMsgs, msgs' = Append(msgs, m)
    PROVE  /\ UsedNames \subseteq UsedNames'
           /\ m.type = "Parse" => m.name \in UsedNames'
<1>1. /\ Len(msgs') = Len(msgs) + 1 /\ msgs'[Len(msgs) + 1] = m
      /\ \A i \in 1..Len(msgs) : msgs'[i] = msgs[i]
  BY AppendProperties
<1>2. UsedNames \subseteq UsedNames'
  <2> SUFFICES ASSUME NEW x \in UsedNames PROVE x \in UsedNames'
    OBVIOUS
  <2>1. PICK i \in 1..Len(msgs) : msgs[i].type = "Parse" /\ x = msgs[i].name
    BY DEF UsedNames
  <2>2. i \in 1..Len(msgs') /\ msgs'[i].type = "Parse" /\ x = msgs'[i].name
    BY <1>1, <2>1
  <2>3. QED BY <2>2 DEF UsedNames
<1>3. m.type = "Parse" => m.name \in UsedNames'
  BY <1>1 DEF UsedNames
<1>4. QED BY <1>2, <1>3

(* A step that records what the server ran for the new message, and      *)
(* appends the handler's event or none, keeps every earlier event's       *)
(* record; the new event, when it is an Execute the server ran, carries   *)
(* what the server ran.                                                   *)
LEMMA RanStep ==
    ASSUME TypeOK, ServerTypeOK, LogAtMsgs, ExecuteMatchesServer,
           NEW m \in ClientMsgs, msgs' = Append(msgs, m),
           NEW x, srvRan' = Append(srvRan, x),
           \/ log' = log
           \/ \E e \in Events :
                /\ log' = Append(log, [ev |-> e, at |-> Len(msgs) + 1])
                /\ e.op = "Execute" /\ x.ran =>
                     x = [ran |-> TRUE, query |-> e.query, args |-> e.args]
    PROVE  LogAtMsgs' /\ ExecuteMatchesServer'
<1>1. /\ Len(msgs) \in Nat /\ Len(msgs') = Len(msgs) + 1 /\ Len(srvRan) = Len(msgs)
      /\ Len(srvRan') = Len(srvRan) + 1 /\ srvRan'[Len(srvRan) + 1] = x
      /\ \A k \in 1..Len(srvRan) : srvRan'[k] = srvRan[k]
  BY AppendProperties DEF TypeOK, ServerTypeOK
<1>2. CASE log' = log
  <2>1. LogAtMsgs'
    BY <1>1, <1>2 DEF LogAtMsgs
  <2>2. ASSUME NEW i \in 1..Len(log'), log'[i].ev.op = "Execute",
               srvRan'[log'[i].at].ran
        PROVE  srvRan'[log'[i].at] = [ran |-> TRUE, query |-> log'[i].ev.query,
                                      args |-> log'[i].ev.args]
    <3>1. log[i].at \in 1..Len(srvRan) /\ srvRan'[log[i].at] = srvRan[log[i].at]
      BY <1>1, <1>2, <2>2 DEF LogAtMsgs
    <3>2. QED BY <1>2, <2>2, <3>1 DEF ExecuteMatchesServer
  <2>3. QED BY <2>1, <2>2 DEF ExecuteMatchesServer
<1>3. CASE \E e \in Events :
             /\ log' = Append(log, [ev |-> e, at |-> Len(msgs) + 1])
             /\ e.op = "Execute" /\ x.ran =>
                  x = [ran |-> TRUE, query |-> e.query, args |-> e.args]
  <2>1. PICK e \in Events :
             /\ log' = Append(log, [ev |-> e, at |-> Len(msgs) + 1])
             /\ e.op = "Execute" /\ x.ran =>
                  x = [ran |-> TRUE, query |-> e.query, args |-> e.args]
    BY <1>3
  <2>2. [ev |-> e, at |-> Len(msgs) + 1] \in [ev : Events, at : Nat]
    BY <1>1
  <2>3. /\ Len(log) \in Nat /\ Len(log') = Len(log) + 1
        /\ log'[Len(log) + 1] = [ev |-> e, at |-> Len(msgs) + 1]
        /\ \A i \in 1..Len(log) : log'[i] = log[i]
    BY <2>1, <2>2, AppendProperties DEF TypeOK
  <2>4. LogAtMsgs'
    BY <1>1, <2>3 DEF LogAtMsgs
  <2>5. ASSUME NEW i \in 1..Len(log'), log'[i].ev.op = "Execute",
               srvRan'[log'[i].at].ran
        PROVE  srvRan'[log'[i].at] = [ran |-> TRUE, query |-> log'[i].ev.query,
                                      args |-> log'[i].ev.args]
    <3>1. CASE i \in 1..Len(log)
      <4>1. log'[i] = log[i] /\ log[i].at \in 1..Len(srvRan)
            /\ srvRan'[log[i].at] = srvRan[log[i].at]
        BY <1>1, <2>3, <3>1 DEF LogAtMsgs
      <4>2. QED BY <2>5, <3>1, <4>1 DEF ExecuteMatchesServer
    <3>2. CASE i = Len(log) + 1
      <4>1. log'[i].at = Len(srvRan) + 1 /\ log'[i].ev = e
        BY <1>1, <2>3, <3>2
      <4>2. srvRan'[log'[i].at] = x
        BY <1>1, <4>1
      <4>3. x.ran /\ e.op = "Execute"
        BY <2>5, <4>1, <4>2
      <4>4. x = [ran |-> TRUE, query |-> e.query, args |-> e.args]
        BY <2>1, <4>3
      <4>5. QED BY <4>1, <4>2, <4>4
    <3>3. i \in 1..Len(log) \/ i = Len(log) + 1
      BY <2>3
    <3>4. QED BY <3>1, <3>2, <3>3
  <2>6. QED BY <2>4, <2>5 DEF ExecuteMatchesServer
<1>4. QED BY <1>2, <1>3

-----------------------------------------------------------------------------
(* One lemma per message the driver may write, each from the point of the *)
(* cycle where it may write it.                                            *)

(* A simple Query between cycles: detectTx and the server run the same    *)
(* text.  The server drops its unnamed statement and keeps the named      *)
(* ones, which handleParse stored with the same texts.                    *)
LEMMA QueryStep ==
    ASSUME DriverClient, DInv, NEW m \in ClientMsgs, m.type = "Query",
           drv.at = "ready", CaptureClientMsg(m), ServerHandle(m), ClientStep(m),
           TypeOK', ServerTypeOK'
    PROVE  DInv'
<1>1. /\ msgs' = Append(msgs, m) /\ DetectTx(m.text) /\ UNCHANGED trackVars
      /\ log' = Append(log, [ev |-> NewEvent("Query", m.text, <<>>), at |-> Len(msgs) + 1])
  BY DEF CaptureClientMsg, HandleSimpleQuery, EmitEvent
<1>2. ~srvSkip
  BY DEF DInv, CycleInv
<1>3. PICK r \in Results(m.text) :
        /\ srvTx' = r.tx
        /\ srvStmts' = Drop(srvStmts, Unnamed)
        /\ srvSkip' = srvSkip
        /\ srvRan' = Append(srvRan, NotRun)
  BY <1>2 DEF ServerHandle
<1>4. m.text \in Texts /\ StmtKind(m.text) # "rollbackTo"
  BY ClientMsgFields DEF DriverClient
<1>5. TxStatusAgrees'
  BY <1>1, <1>3, <1>4, StatusStep DEF DInv, ServerTypeOK
<1>6. LogAtMsgs' /\ ExecuteMatchesServer'
  <2>1. NewEvent("Query", m.text, <<>>) \in Events
    BY <1>4 DEF NewEvent, Events, TypeOK, DInv
  <2>2. NewEvent("Query", m.text, <<>>).op = "Query"
    BY DEF NewEvent
  <2>3. QED BY <1>1, <1>3, <2>1, <2>2, RanStep DEF DInv
<1>7. NamedStmtsKnown'
  <2>1. UsedNames \subseteq UsedNames'
    BY <1>1, UsedNamesAppend DEF DInv, TypeOK
  <2>2. QED BY <1>1, <1>3, <2>1 DEF DInv, NamedStmtsKnown, Drop, trackVars
<1>8. CycleInv'
  BY <1>2, <1>3 DEF ClientStep, CycleInv
<1>9. QED BY <1>5, <1>6, <1>7, <1>8 DEF DInv

(* A Parse that starts a cycle, of the unnamed statement or a fresh name. *)
(* The server refuses it only in a failed block, for a text that is no    *)
(* COMMIT or ROLLBACK; otherwise it stores the text handleParse stores.   *)
LEMMA ParseStep ==
    ASSUME DriverClient, DInv, NEW m \in ClientMsgs, m.type = "Parse",
           drv.at = "ready", m.name = Unnamed \/ m.name \notin UsedNames,
           CaptureClientMsg(m), ServerHandle(m), ClientStep(m),
           TypeOK', ServerTypeOK'
    PROVE  DInv'
<1> DEFINE err == srvTx = "E" /\ ~IsEnd(m.text)
<1>1. /\ msgs' = Append(msgs, m) /\ HandleParse(m.name, m.text)
      /\ log' = log /\ activeTxID' = activeTxID
  BY DEF CaptureClientMsg, HandleParse
<1>2. ~srvSkip
  BY DEF DInv, CycleInv
<1>3. m.text \in Texts /\ StmtKind(m.text) # "rollbackTo" /\ m.name \in StmtNames
  BY ClientMsgFields DEF DriverClient
<1>4. ~(m.name # Unnamed /\ m.name \in DOMAIN srvStmts)
  BY DEF DInv, NamedStmtsKnown
<1>5. (m.name # Unnamed /\ m.name \in DOMAIN srvStmts) \/ (srvTx = "E" /\ ~IsExitStmt(m.text))
      <=> err
  BY <1>3, <1>4, TextKinds
<1>6. /\ srvRan' = Append(srvRan, NotRun)
      /\ IF err THEN ServerError
         ELSE /\ srvStmts' = Store(srvStmts, m.name, m.text)
              /\ UNCHANGED <<srvPortals, srvTx, srvSp, srvSkip>>
  BY <1>2, <1>5 DEF ServerHandle
<1>7. drv' = [at |-> "parsed", stmt |-> m.name]
  BY DEF ClientStep
<1>8. UsedNames \subseteq UsedNames' /\ m.name \in UsedNames'
  BY <1>1, UsedNamesAppend DEF DInv, TypeOK
<1>9. LogAtMsgs' /\ ExecuteMatchesServer'
  BY <1>1, <1>6, RanStep DEF DInv
<1>10. /\ lastParse' = m.text
       /\ m.name # Unnamed => m.name \in DOMAIN preparedStmts'
                               /\ preparedStmts'[m.name] = m.text
       /\ \A s \in DOMAIN preparedStmts \ {m.name} :
            s \in DOMAIN preparedStmts' /\ preparedStmts'[s] = preparedStmts[s]
  BY <1>1 DEF HandleParse
<1>11. \A s \in DOMAIN srvStmts \ {Unnamed} : s # m.name
  BY DEF DInv, NamedStmtsKnown
<1>12. CASE err
  <2>1. srvTx' = srvTx /\ srvSkip' /\ UNCHANGED srvStmts
    BY <1>6, <1>12 DEF ServerError, Failure, Outcome
  <2>2. TxStatusAgrees'
    BY <1>1, <2>1 DEF DInv, TxStatusAgrees
  <2>3. NamedStmtsKnown'
    BY <1>8, <1>10, <1>11, <2>1 DEF DInv, NamedStmtsKnown
  <2>4. CycleInv'
    BY <1>7, <1>10, <1>12, <2>1 DEF CycleInv
  <2>5. QED BY <1>9, <2>2, <2>3, <2>4 DEF DInv
<1>13. CASE ~err
  <2>1. /\ srvStmts' = Store(srvStmts, m.name, m.text)
        /\ UNCHANGED <<srvTx, srvSkip>>
    BY <1>6, <1>13
  <2>2. TxStatusAgrees'
    BY <1>1, <2>1 DEF DInv, TxStatusAgrees
  <2>3. /\ DOMAIN srvStmts' = DOMAIN srvStmts \cup {m.name}
        /\ srvStmts'[m.name] = m.text
        /\ \A s \in DOMAIN srvStmts \ {m.name} : srvStmts'[s] = srvStmts[s]
    BY <2>1 DEF Store
  <2>4. NamedStmtsKnown'
    BY <1>8, <1>10, <1>11, <2>3 DEF DInv, NamedStmtsKnown
  <2>5. CycleInv'
    BY <1>2, <1>7, <1>10, <2>1, <2>3 DEF CycleInv
  <2>6. QED BY <1>9, <2>2, <2>4, <2>5 DEF DInv
<1>14. QED BY <1>12, <1>13

(* A Bind of the unnamed portal: of a prepared name between cycles, or of *)
(* the statement just parsed.  The text handleExecute will resolve is the *)
(* one the server binds, and the server refuses the Bind only in a failed *)
(* block, for a text that is no COMMIT or ROLLBACK.                        *)
LEMMA BindStep ==
    ASSUME DriverClient, DInv, NEW m \in ClientMsgs, m.type = "Bind",
           m.portal = Unnamed,
           \/ drv.at = "ready" /\ m.stmt # Unnamed /\ m.stmt \in DOMAIN srvStmts
           \/ drv.at = "parsed" /\ m.stmt = drv.stmt,
           CaptureClientMsg(m), ServerHandle(m), ClientStep(m),
           TypeOK', ServerTypeOK'
    PROVE  DInv'
<1>1. /\ msgs' = Append(msgs, m) /\ lastBindStmt' = m.stmt /\ lastBindArgs' = m.args
      /\ UNCHANGED <<preparedStmts, lastParse, activeTxID, log>>
  BY DEF CaptureClientMsg, HandleBind
<1>2. ExecuteQuery' = IF m.stmt # Unnamed /\ m.stmt \in DOMAIN preparedStmts
                      THEN preparedStmts[m.stmt] ELSE lastParse
  BY <1>1 DEF ExecuteQuery
<1>3. drv.at = "parsed" => ExecuteQuery' = lastParse
  BY <1>2 DEF DInv, CycleInv
<1>4. ~srvSkip => m.stmt \in DOMAIN srvStmts /\ srvStmts[m.stmt] = ExecuteQuery'
  <2>1. CASE drv.at = "ready" /\ m.stmt # Unnamed /\ m.stmt \in DOMAIN srvStmts
    BY <1>2, <2>1 DEF DInv, NamedStmtsKnown
  <2>2. CASE drv.at = "parsed" /\ m.stmt = drv.stmt
    BY <1>3, <2>2 DEF DInv, CycleInv
  <2>3. QED BY <2>1, <2>2
<1>5. srvSkip => srvTx = "E" /\ ~IsEnd(ExecuteQuery')
  BY <1>3 DEF DInv, CycleInv
<1>6. srvRan' = Append(srvRan, NotRun)
  BY DEF ServerHandle
<1>7. drv'.at = "bound"
  BY DEF ClientStep
<1>8. LogAtMsgs' /\ ExecuteMatchesServer'
  BY <1>1, <1>6, RanStep DEF DInv
<1>9. UsedNames \subseteq UsedNames'
  BY <1>1, UsedNamesAppend DEF DInv, TypeOK
<1>10. CASE srvSkip
  <2>1. UNCHANGED <<srvStmts, srvPortals, srvTx, srvSkip>>
    BY <1>10 DEF ServerHandle
  <2>2. QED BY <1>1, <1>5, <1>7, <1>8, <1>9, <1>10, <2>1
            DEF DInv, TxStatusAgrees, NamedStmtsKnown, CycleInv
<1>11. CASE ~srvSkip
  <2> DEFINE q == srvStmts[m.stmt]
             err == srvTx = "E" /\ ~IsEnd(q)
  <2>1. q \in Texts /\ StmtKind(q) # "rollbackTo"
    BY <1>4, <1>11 DEF DInv, ServerTypeOK, DriverClient
  <2>2. (\/ m.stmt \notin DOMAIN srvStmts
         \/ m.portal # Unnamed /\ m.portal \in DOMAIN srvPortals
         \/ srvTx = "E" /\ ~IsExitStmt(q)) <=> err
    BY <1>4, <1>11, <2>1, TextKinds
  <2>3. IF err THEN ServerError
        ELSE /\ srvPortals' = Store(srvPortals, m.portal,
                                   [query |-> q, args |-> m.args])
             /\ UNCHANGED <<srvStmts, srvTx, srvSp, srvSkip>>
    BY <1>11, <2>2 DEF ServerHandle
  <2>4. CASE err
    <3>1. srvTx' = srvTx /\ srvSkip' /\ UNCHANGED srvStmts
      BY <2>3, <2>4 DEF ServerError, Failure, Outcome
    <3>2. QED BY <1>1, <1>4, <1>7, <1>8, <1>9, <1>11, <2>4, <3>1
              DEF DInv, TxStatusAgrees, NamedStmtsKnown, CycleInv
  <2>5. CASE ~err
    <3>1. /\ Unnamed \in DOMAIN srvPortals'
          /\ srvPortals'[Unnamed] = [query |-> q, args |-> m.args]
          /\ UNCHANGED <<srvStmts, srvTx, srvSkip>>
      BY <2>3, <2>5 DEF Store
    <3>2. QED BY <1>1, <1>4, <1>7, <1>8, <1>9, <1>11, <3>1
              DEF DInv, TxStatusAgrees, NamedStmtsKnown, CycleInv
  <2>6. QED BY <2>4, <2>5
<1>12. QED BY <1>10, <1>11

(* The Execute of a cycle.  When the server discards it, the block is     *)
(* failed and stays so, and detectTx opens or keeps a transaction; when   *)
(* the server runs the unnamed portal, it runs the text and parameters    *)
(* handleExecute reports, so the two again move in step.                  *)
LEMMA ExecuteStep ==
    ASSUME DriverClient, DInv, NEW m \in ClientMsgs, m.type = "Execute",
           m.portal = Unnamed, drv.at = "bound",
           CaptureClientMsg(m), ServerHandle(m), ClientStep(m),
           TypeOK', ServerTypeOK'
    PROVE  DInv'
<1> DEFINE e == NewEvent("Execute", ExecuteQuery, lastBindArgs)
<1>1. /\ msgs' = Append(msgs, m) /\ DetectTx(ExecuteQuery) /\ UNCHANGED trackVars
      /\ log' = Append(log, [ev |-> e, at |-> Len(msgs) + 1])
  BY DEF CaptureClientMsg, HandleExecute, EmitEvent
<1>2. e \in Events /\ e.op = "Execute" /\ e.query = ExecuteQuery /\ e.args = lastBindArgs
  BY DEF NewEvent, Events, ExecuteQuery, TypeOK, DInv
<1>3. drv'.at = "executed"
  BY DEF ClientStep
<1>4. UsedNames \subseteq UsedNames'
  BY <1>1, UsedNamesAppend DEF DInv, TypeOK
<1>5. CASE srvSkip
  <2>1. UNCHANGED <<srvStmts, srvTx>> /\ srvRan' = Append(srvRan, NotRun)
    BY <1>5 DEF ServerHandle
  <2>2. srvTx = "E" /\ ~IsEnd(ExecuteQuery) /\ activeTxID # NoTx
    BY <1>5 DEF DInv, CycleInv, TxStatusAgrees
  <2>3. activeTxID' # NoTx
    BY <1>1, <2>2 DEF DetectTx, NoTx, DInv, TypeOK
  <2>4. LogAtMsgs' /\ ExecuteMatchesServer'
    <3>1. \E ee \in Events :
            /\ log' = Append(log, [ev |-> ee, at |-> Len(msgs) + 1])
            /\ ee.op = "Execute" /\ NotRun.ran =>
                 NotRun = [ran |-> TRUE, query |-> ee.query, args |-> ee.args]
      BY <1>1, <1>2 DEF NotRun
    <3>2. QED BY <1>1, <2>1, <3>1, RanStep DEF DInv
  <2>5. TxStatusAgrees'
    BY <2>1, <2>2, <2>3 DEF TxStatusAgrees
  <2>6. NamedStmtsKnown'
    BY <1>1, <1>4, <2>1 DEF DInv, NamedStmtsKnown, trackVars
  <2>7. CycleInv'
    BY <1>3 DEF CycleInv
  <2>8. QED BY <2>4, <2>5, <2>6, <2>7 DEF DInv
<1>6. CASE ~srvSkip
  <2>1. Unnamed \in DOMAIN srvPortals
        /\ srvPortals[Unnamed] = [query |-> ExecuteQuery, args |-> lastBindArgs]
    BY <1>6 DEF DInv, CycleInv
  <2>2. ExecuteQuery \in Texts /\ StmtKind(ExecuteQuery) # "rollbackTo"
    BY <2>1 DEF DInv, ServerTypeOK, DriverClient
  <2>3. /\ \E r \in Results(ExecuteQuery) :
             srvTx' = r.tx /\ UNCHANGED srvStmts
        /\ srvRan' = Append(srvRan, Ran(srvPortals[Unnamed]))
    BY <1>6, <2>1 DEF ServerHandle
  <2>4. TxStatusAgrees'
    <3>1. PICK r \in Results(ExecuteQuery) : srvTx' = r.tx
      BY <2>3
    <3>2. QED BY <1>1, <2>2, <3>1, StatusStep DEF DInv, ServerTypeOK
  <2>5. Ran(srvPortals[Unnamed]) =
          [ran |-> TRUE, query |-> e.query, args |-> e.args]
    <3>1. srvPortals[Unnamed].query = e.query /\ srvPortals[Unnamed].args = e.args
      BY <1>2, <2>1
    <3>2. QED BY <3>1 DEF Ran
  <2>6. LogAtMsgs' /\ ExecuteMatchesServer'
    <3> DEFINE x == Ran(srvPortals[Unnamed])
    <3>1. \E ee \in Events :
            /\ log' = Append(log, [ev |-> ee, at |-> Len(msgs) + 1])
            /\ ee.op = "Execute" /\ x.ran =>
                 x = [ran |-> TRUE, query |-> ee.query, args |-> ee.args]
      BY <1>1, <1>2, <2>5
    <3>2. QED BY <1>1, <2>3, <3>1, RanStep DEF DInv
  <2>7. NamedStmtsKnown'
    BY <1>1, <1>4, <2>3 DEF DInv, NamedStmtsKnown, trackVars
  <2>8. CycleInv'
    BY <1>3 DEF CycleInv
  <2>9. QED BY <2>4, <2>6, <2>7, <2>8 DEF DInv
<1>7. QED BY <1>5, <1>6

(* The Sync that ends a cycle: the server stops discarding, detectTx and  *)
(* the server's transaction status are left alone.                        *)
LEMMA SyncStep ==
    ASSUME DInv, NEW m \in ClientMsgs, m.type = "Other",
           CaptureClientMsg(m), ServerHandle(m), ClientStep(m),
           TypeOK', ServerTypeOK'
    PROVE  DInv'
<1>1. /\ msgs' = Append(msgs, m) /\ UNCHANGED <<trackVars, activeTxID, log>>
  BY DEF CaptureClientMsg
<1>2. /\ srvSkip' = FALSE /\ UNCHANGED <<srvStmts, srvTx>>
      /\ srvRan' = Append(srvRan, NotRun)
  BY DEF ServerHandle
<1>3. drv'.at = "ready"
  BY DEF ClientStep
<1>4. UsedNames \subseteq UsedNames'
  BY <1>1, UsedNamesAppend DEF DInv, TypeOK
<1>5. LogAtMsgs' /\ ExecuteMatchesServer'
  BY <1>1, <1>2, RanStep DEF DInv
<1>6. QED BY <1>1, <1>2, <1>3, <1>4, <1>5
          DEF DInv, TxStatusAgrees, NamedStmtsKnown, CycleInv, trackVars

-----------------------------------------------------------------------------
(* For a driver client without ROLLBACK TO, DInv holds in every state of  *)
(* the session: the capture and the server agree at every point of every  *)
(* statement cycle, through refused Parses and Binds, failed Executes and *)
(* the Syncs that end them.                                                *)
THEOREM DriverInvariant == DriverClient => (SessionSpec => []DInv)
<1> SUFFICES ASSUME DriverClient PROVE SessionSpec => []DInv
  OBVIOUS
<1>1. SessionInit => DInv
  <2> SUFFICES ASSUME SessionInit PROVE DInv
    OBVIOUS
  <2>1. TypeOK /\ ServerTypeOK
    BY SessionInitType
  <2>2. log = <<>> /\ DOMAIN srvStmts = {}
    BY DEF SessionInit, Init
  <2>3. TxStatusAgrees /\ CycleInv
    BY DEF SessionInit, Init, TxStatusAgrees, NoTx, CycleInv
  <2>4. QED BY <2>1, <2>2, <2>3
            DEF DInv, LogAtMsgs, ExecuteMatchesServer, NamedStmtsKnown
<1>2. DInv /\ [SessionNext]_allVars => DInv'
  <2> SUFFICES ASSUME DInv, [SessionNext]_allVars PROVE DInv'
    OBVIOUS
  <2>1. TypeOK' /\ ServerTypeOK'
    BY SessionTypeStep DEF DInv
  <2>2. ASSUME NEW m \in ClientMsgs, ClientMayWrite(m), CaptureClientMsg(m),
               ServerHandle(m), ClientStep(m)
        PROVE  DInv'
    <3>1. \/ drv.at = "ready" /\ m.type = "Query"
          \/ /\ drv.at = "ready" /\ m.type = "Parse"
             /\ m.name = Unnamed \/ m.name \notin UsedNames
          \/ /\ m.type = "Bind" /\ m.portal = Unnamed
             /\ \/ drv.at = "ready" /\ m.stmt # Unnamed /\ m.stmt \in DOMAIN srvStmts
                \/ drv.at = "parsed" /\ m.stmt = drv.stmt
          \/ drv.at = "bound" /\ m.type = "Execute" /\ m.portal = Unnamed
          \/ m.type = "Other"
      BY <2>2 DEF ClientMayWrite, StartsCycle, DriverClient
    <3>2. QED BY <2>1, <2>2, <3>1, QueryStep, ParseStep, BindStep, ExecuteStep, SyncStep
  <2>3. ASSUME Subscriber, UNCHANGED sessionVars PROVE DInv'
    BY <2>1, <2>3 DEF Subscriber, sessionVars, trackVars, DInv, TxStatusAgrees,
                      LogAtMsgs, ExecuteMatchesServer, NamedStmtsKnown, UsedNames,
                      CycleInv, ExecuteQuery
  <2>4. ASSUME UNCHANGED allVars PROVE DInv'
    BY <2>4 DEF allVars, captureVars, sessionVars, trackVars, DInv, TypeOK,
                ServerTypeOK, TxStatusAgrees, LogAtMsgs, ExecuteMatchesServer,
                NamedStmtsKnown, UsedNames, CycleInv, ExecuteQuery
  <2>5. QED BY <2>2, <2>3, <2>4 DEF SessionNext
<1>3. QED BY <1>1, <1>2, PTL DEF SessionSpec, allVars

(* Transaction tracking against the server (run session_driver): for a    *)
(* driver client without ROLLBACK TO, the capture has a transaction id    *)
(* exactly when the server's session is in a transaction block, whatever  *)
(* the server refuses or fails.                                            *)
THEOREM DriverTxStatusAgrees == DriverClient => (SessionSpec => []TxStatusAgrees)
<1>1. DInv => TxStatusAgrees
  BY DEF DInv
<1>2. QED BY <1>1, DriverInvariant, PTL

(* Execute events against the server (run session_driver): for such a    *)
(* client, every Execute the server ran is reported by handleExecute with *)
(* the text and the parameters the server ran it with.                    *)
THEOREM DriverExecuteMatchesServer ==
    DriverClient => (SessionSpec => []ExecuteMatchesServer)
<1>1. DInv => ExecuteMatchesServer
  BY DEF DInv
<1>2. QED BY <1>1, DriverInvariant, PTL

====
