--------------------------- MODULE PgSessionProofs ---------------------------
(***************************************************************************)
(* Proofs about the capture next to the PostgreSQL session (PgSession).   *)
(* A session step captures one message exactly as PgCapture's Next does,  *)
(* so what PgCaptureProofs establishes for the capture alone holds beside *)
(* the server; the server's and the client's own state keep their types. *)
(***************************************************************************)
EXTENDS PgSession, PgCaptureProofs, TLAPS

allVars == <<captureVars, sessionVars>>

(* A session step is a step of the capture alone, or leaves it unchanged. *)
LEMMA SessionStepIsCaptureStep ==
    [SessionNext]_allVars => [Next]_captureVars
<1> SUFFICES ASSUME [SessionNext]_allVars PROVE [Next]_captureVars
  OBVIOUS
<1>1. CASE \E m \in ClientMsgs : /\ Len(msgs) < MaxMsgs /\ ClientMayWrite(m)
                                 /\ CaptureClientMsg(m) /\ ServerHandle(m)
                                 /\ ClientStep(m)
  BY <1>1 DEF Next
<1>2. CASE Subscriber /\ UNCHANGED sessionVars
  BY <1>2 DEF Next
<1>3. CASE UNCHANGED allVars
  BY <1>3 DEF allVars
<1>4. QED BY <1>1, <1>2, <1>3 DEF SessionNext

(* Every outcome of running a text has a transaction status, a savepoint  *)
(* flag and a success flag.                                               *)
LEMMA ResultsType ==
    ASSUME srvTx \in {"I", "T", "E"}, srvSp \in BOOLEAN, NEW t
    PROVE  \A r \in Results(t) :
             r.tx \in {"I", "T", "E"} /\ r.sp \in BOOLEAN /\ r.ok \in BOOLEAN
<1> DEFINE OK(r) == r.tx \in {"I", "T", "E"} /\ r.sp \in BOOLEAN /\ r.ok \in BOOLEAN
<1>1. Results(t) \subseteq {Outcome("I", FALSE, TRUE), Outcome("T", TRUE, TRUE),
                            Outcome("T", srvSp, TRUE), Outcome(srvTx, srvSp, TRUE), Failure}
  BY DEF Results
<1>2. /\ OK(Outcome("I", FALSE, TRUE)) /\ OK(Outcome("T", TRUE, TRUE))
      /\ OK(Outcome("T", srvSp, TRUE)) /\ OK(Outcome(srvTx, srvSp, TRUE))
  BY DEF Outcome
<1>3. OK(Failure)
  BY DEF Failure, Outcome
<1>4. QED BY <1>1, <1>2, <1>3

(* The server's and the client's state keep their types.                  *)
ServerTypeOK ==
    /\ DOMAIN srvStmts \subseteq StmtNames
    /\ \A x \in DOMAIN srvStmts : srvStmts[x] \in Texts
    /\ DOMAIN srvPortals \subseteq Portals
    /\ \A x \in DOMAIN srvPortals :
         srvPortals[x] \in [query : Texts, args : ArgLists]
    /\ srvTx \in {"I", "T", "E"} /\ srvSp \in BOOLEAN /\ srvSkip \in BOOLEAN
    /\ Len(srvRan) = Len(msgs) /\ srvRan \in Seq([ran : BOOLEAN, query : Texts \cup {EmptyText},
                                                  args : ArgLists \cup {<<>>}])
    /\ drv.at \in {"ready", "parsed", "bound", "executed"}

LEMMA ServerHandleType ==
    ASSUME ServerTypeOK, TypeOK, NEW m \in ClientMsgs, ServerHandle(m),
           msgs' = Append(msgs, m), ClientStep(m)
    PROVE  ServerTypeOK'
<1>0. /\ m.type = "Query" => m.text \in Texts
      /\ m.type = "Parse" => m.name \in StmtNames /\ m.text \in Texts
      /\ m.type = "Bind" => m.portal \in Portals /\ m.stmt \in StmtNames /\ m.args \in ArgLists
      /\ m.type = "Execute" => m.portal \in Portals
  BY DEF ClientMsgs, QueryMsg, ParseMsg, BindMsg, ExecuteMsg, OtherMsg
<1>1. /\ srvRan' \in Seq([ran : BOOLEAN, query : Texts \cup {EmptyText},
                          args : ArgLists \cup {<<>>}])
      /\ Len(srvRan') = Len(msgs')
  <2>1. (IF m.type = "Execute" /\ ~srvSkip /\ m.portal \in DOMAIN srvPortals
         THEN Ran(srvPortals[m.portal]) ELSE NotRun)
          \in [ran : BOOLEAN, query : Texts \cup {EmptyText}, args : ArgLists \cup {<<>>}]
    BY DEF ServerTypeOK, Ran, NotRun
  <2>2. QED BY <2>1, AppendProperties DEF ServerHandle, ServerTypeOK, TypeOK
<1>2. drv'.at \in {"ready", "parsed", "bound", "executed"}
  BY DEF ClientStep
<1>3. \A r \in Results(m.text) \cup
             (IF m.type = "Execute" /\ m.portal \in DOMAIN srvPortals
              THEN Results(srvPortals[m.portal].query) ELSE {}) :
        r.tx \in {"I", "T", "E"} /\ r.sp \in BOOLEAN /\ r.ok \in BOOLEAN
  BY ResultsType DEF ServerTypeOK
<1>4. Failure.tx \in {"I", "T", "E"}
  BY DEF Failure, Outcome, ServerTypeOK
<1>5. NoPortals = [x \in {} |-> [query |-> EmptyText, args |-> <<>>]]
  BY DEF NoPortals
<1>6. \A f, n : DOMAIN Drop(f, n) \subseteq DOMAIN f /\ \A x \in DOMAIN Drop(f, n) : Drop(f, n)[x] = f[x]
  BY DEF Drop
<1>7. CASE /\ srvSkip /\ m.type # "Other"
           /\ UNCHANGED <<srvStmts, srvPortals, srvTx, srvSp, srvSkip>>
  BY <1>1, <1>2, <1>7 DEF ServerTypeOK
<1>8. CASE /\ m.type = "Other"
           /\ srvSkip' = FALSE
           /\ srvPortals' = IF srvTx = "I" THEN NoPortals ELSE srvPortals
           /\ UNCHANGED <<srvStmts, srvTx, srvSp>>
  <2>1. DOMAIN srvPortals' \subseteq Portals
        /\ \A x \in DOMAIN srvPortals' : srvPortals'[x] \in [query : Texts, args : ArgLists]
    BY <1>5, <1>8 DEF ServerTypeOK
  <2>2. QED BY <1>1, <1>2, <1>8, <2>1 DEF ServerTypeOK
<1>9. CASE /\ ~srvSkip /\ m.type = "Query"
           /\ \E r \in Results(m.text) :
                /\ srvTx' = r.tx /\ srvSp' = r.sp
                /\ srvStmts' = Drop(srvStmts, Unnamed)
                /\ srvPortals' = IF r.tx = "I" THEN NoPortals ELSE Drop(srvPortals, Unnamed)
           /\ UNCHANGED srvSkip
  BY <1>1, <1>2, <1>3, <1>5, <1>6, <1>9 DEF ServerTypeOK
<1>10. CASE /\ ~srvSkip /\ m.type = "Parse"
            /\ IF (m.name # Unnamed /\ m.name \in DOMAIN srvStmts)
                  \/ (srvTx = "E" /\ ~IsExitStmt(m.text))
               THEN ServerError
               ELSE /\ srvStmts' = Store(srvStmts, m.name, m.text)
                    /\ UNCHANGED <<srvPortals, srvTx, srvSp, srvSkip>>
  <2>1. CASE (m.name # Unnamed /\ m.name \in DOMAIN srvStmts)
             \/ (srvTx = "E" /\ ~IsExitStmt(m.text))
    BY <1>1, <1>2, <1>4, <1>10, <2>1 DEF ServerTypeOK, ServerError
  <2>2. CASE ~((m.name # Unnamed /\ m.name \in DOMAIN srvStmts)
               \/ (srvTx = "E" /\ ~IsExitStmt(m.text)))
    BY <1>0, <1>1, <1>2, <1>10, <2>2 DEF ServerTypeOK, Store
  <2>3. QED BY <2>1, <2>2
<1>11. CASE /\ ~srvSkip /\ m.type = "Bind"
            /\ IF \/ m.stmt \notin DOMAIN srvStmts
                  \/ m.portal # Unnamed /\ m.portal \in DOMAIN srvPortals
                  \/ srvTx = "E" /\ ~IsExitStmt(srvStmts[m.stmt])
               THEN ServerError
               ELSE /\ srvPortals' = Store(srvPortals, m.portal,
                                            [query |-> srvStmts[m.stmt], args |-> m.args])
                    /\ UNCHANGED <<srvStmts, srvTx, srvSp, srvSkip>>
  <2> DEFINE err == \/ m.stmt \notin DOMAIN srvStmts
                    \/ m.portal # Unnamed /\ m.portal \in DOMAIN srvPortals
                    \/ srvTx = "E" /\ ~IsExitStmt(srvStmts[m.stmt])
  <2>1. CASE err
    BY <1>1, <1>2, <1>4, <1>11, <2>1 DEF ServerTypeOK, ServerError
  <2>2. CASE ~err
    BY <1>0, <1>1, <1>2, <1>11, <2>2 DEF ServerTypeOK, Store
  <2>3. QED BY <2>1, <2>2
<1>12. CASE /\ ~srvSkip /\ m.type = "Execute"
            /\ IF m.portal \notin DOMAIN srvPortals
               THEN ServerError
               ELSE \E r \in Results(srvPortals[m.portal].query) :
                      /\ srvTx' = r.tx /\ srvSp' = r.sp /\ srvSkip' = ~r.ok
                      /\ UNCHANGED <<srvStmts, srvPortals>>
  BY <1>1, <1>2, <1>3, <1>4, <1>12 DEF ServerTypeOK, ServerError
<1>13. QED BY <1>7, <1>8, <1>9, <1>10, <1>11, <1>12, Zenon DEF ServerHandle

(* Next to the server, the capture behaves as it does alone: every        *)
(* behaviour of the session is a behaviour of PgCapture's Spec, so the    *)
(* capture's proved invariants (event order, transaction correlation,     *)
(* Execute resolution) hold in the session as well.                       *)
THEOREM SessionImplementsCapture == SessionSpec => Spec
<1>1. SessionInit => Init
  BY DEF SessionInit
<1>2. [][SessionNext]_allVars => [][Next]_captureVars
  BY SessionStepIsCaptureStep, PTL
<1>3. QED BY <1>1, <1>2 DEF SessionSpec, Spec, allVars

(* The initial state of the session is well typed.                       *)
LEMMA SessionInitType ==
    SessionInit => TypeOK /\ ServerTypeOK
<1> SUFFICES ASSUME SessionInit PROVE TypeOK /\ ServerTypeOK
  OBVIOUS
<1>1. TypeOK
  BY CaptureAssumption DEF SessionInit, Init, TypeOK, EmptyText, NoTx
<1>2. srvRan = <<>> /\ msgs = <<>> /\ drv.at = "ready"
  BY DEF SessionInit, Init
<1>3. <<>> \in Seq([ran : BOOLEAN, query : Texts \cup {EmptyText},
                    args : ArgLists \cup {<<>>}])
  BY EmptySeq
<1>4. DOMAIN srvStmts = {} /\ DOMAIN srvPortals = {}
  BY DEF SessionInit, NoPortals
<1>5. ServerTypeOK
  BY <1>2, <1>3, <1>4 DEF SessionInit, ServerTypeOK
<1>6. QED BY <1>1, <1>5

(* A session step keeps the types of the capture, the server and the      *)
(* client.                                                                 *)
LEMMA SessionTypeStep ==
    ASSUME TypeOK, ServerTypeOK, [SessionNext]_allVars
    PROVE  TypeOK' /\ ServerTypeOK'
<1>1. TypeOK'
  BY SessionStepIsCaptureStep, TypeStep
<1>2. ASSUME NEW m \in ClientMsgs, CaptureClientMsg(m), ServerHandle(m), ClientStep(m)
      PROVE  ServerTypeOK'
  BY <1>2, ServerHandleType DEF CaptureClientMsg
<1>3. ASSUME Subscriber, UNCHANGED sessionVars PROVE ServerTypeOK'
  BY <1>3 DEF Subscriber, sessionVars, ServerTypeOK
<1>4. ASSUME UNCHANGED allVars PROVE ServerTypeOK'
  BY <1>4 DEF allVars, captureVars, sessionVars, ServerTypeOK
<1>5. ServerTypeOK'
  BY <1>2, <1>3, <1>4 DEF SessionNext
<1>6. QED BY <1>1, <1>5

(* The capture's state, the server's (statements, portals, transaction    *)
(* status, the discard flag, what each Execute ran) and the client's      *)
(* cycle keep their types in every behaviour of the session.              *)
THEOREM SessionTypeCorrect == SessionSpec => []SessionTypeOK
<1> DEFINE Inv == TypeOK /\ ServerTypeOK
<1>1. SessionInit => Inv
  BY SessionInitType
<1>2. Inv /\ [SessionNext]_allVars => Inv'
  BY SessionTypeStep
<1>3. Inv => SessionTypeOK
  BY DEF SessionTypeOK, ServerTypeOK
<1>4. QED BY <1>1, <1>2, <1>3, PTL DEF SessionSpec, allVars

=============================================================================
