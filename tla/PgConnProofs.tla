---------------------------- MODULE PgConnProofs ----------------------------
(***************************************************************************)
(* Proofs about one relayed connection (PgConn): the state of the relay,  *)
(* its two pumps, the capture and both peers keeps its type, and errCh    *)
(* receives at most two results -- one per pump -- so that no pump ever  *)
(* blocks on its send into the channel of capacity 2 that relay makes.    *)
(***************************************************************************)
EXTENDS PgConn, PgCaptureProofs, TLAPS

(* The pumps that have returned, each having sent its result on errCh.    *)
PumpsExited == (IF cpc = "exit" THEN 1 ELSE 0) + (IF upc = "exit" THEN 1 ELSE 0)

(* Before relayStartup has seen ReadyForQuery, neither pump has started.  *)
PumpsIdle == rpc \in {"startup", "auth"} => cpc = "idle" /\ upc = "idle"

(* ConnTypeOK is not inductive alone: errCount \in 0..2 holds because each *)
(* pump sends once, on its way to "exit", and never leaves "exit"; and    *)
(* both pumps start from "idle", with nothing sent yet.                   *)
ConnInv == ConnTypeOK /\ errCount = PumpsExited /\ PumpsIdle

(* A message the client pump reads and the capture takes is a frontend    *)
(* message: captureClientMsg has no case for StartupMessage or            *)
(* PasswordMessage.                                                       *)
LEMMA WireCaptured ==
    ASSUME NEW m \in WireMsgs, CaptureClientMsg(m)
    PROVE  m \in ClientMsgs
BY DEF WireMsgs, CaptureClientMsg, StartupMsg, PasswordMsg

(* The server answers a frontend message with backend messages.           *)
LEMMA RepliesType ==
    ASSUME NEW m
    PROVE  Replies(m) \in Seq(BackendMsgs)
<1>1. Replies(m) \in {<<"CC", "RFQ">>, <<"CC">>, <<"RFQ">>, <<"Other">>}
  BY DEF Replies
<1>2. {<<"CC", "RFQ">>, <<"CC">>, <<"RFQ">>, <<"Other">>} \subseteq Seq(BackendMsgs)
  BY DEF BackendMsgs
<1>3. QED BY <1>1, <1>2

(* A step that leaves the capture alone keeps its type.                   *)
LEMMA CaptureKeptType ==
    ASSUME TypeOK, UNCHANGED captureVars
    PROVE  TypeOK'
BY DEF TypeOK, captureVars, trackVars

LEMMA ConnInitInv == ConnInit => ConnInv
<1> SUFFICES ASSUME ConnInit PROVE ConnInv
  OBVIOUS
<1>1. TypeOK
  BY CaptureAssumption DEF ConnInit, Init, TypeOK, EmptyText, NoTx
<1>2. <<StartupMsg>> \in Seq(WireMsgs) /\ <<>> \in Seq(WireMsgs) /\ <<>> \in Seq(BackendMsgs)
  BY DEF WireMsgs
<1>3. StartupMsg \in WireMsgs /\ "Other" \in BackendMsgs
  BY DEF WireMsgs, BackendMsgs
<1>4. Len(<<StartupMsg>>) = 1 /\ Len(<<>>) = 0
  OBVIOUS
<1>5. {cliEOF, srvEOF, clientConnClosed, upstreamConnClosed, cancelled} \subseteq BOOLEAN
  BY DEF ConnInit
<1>6. errCount = PumpsExited /\ errCount \in 0..2
  BY DEF ConnInit, PumpsExited
<1>7. QED BY <1>1, <1>2, <1>3, <1>4, <1>5, <1>6 DEF ConnInit, ConnInv, ConnTypeOK, PumpsIdle

(* ConnInv in the next state, from one fact per variable.                 *)
LEMMA ConnInvPrimed ==
    ASSUME TypeOK',
           cliSent' \in Seq(WireMsgs), srvGot' \in Seq(WireMsgs),
           srvSent' \in Seq(BackendMsgs), cliGot' \in Seq(BackendMsgs),
           cliRead' \in 0..Len(cliSent'), srvRead' \in 0..Len(srvGot'),
           upRead' \in 0..Len(srvSent'),
           srvState' \in {"startup", "auth", "ready", "gone"},
           rpc' \in {"startup", "auth", "pumps", "join", "return", "done"},
           cpc' \in {"idle", "top", "recv", "write", "exit"},
           upc' \in {"idle", "top", "recv", "write", "exit"},
           cmsg' \in WireMsgs, umsg' \in BackendMsgs,
           errCount' = PumpsExited',
           cliEOF' \in BOOLEAN, srvEOF' \in BOOLEAN, clientConnClosed' \in BOOLEAN,
           upstreamConnClosed' \in BOOLEAN, cancelled' \in BOOLEAN,
           PumpsIdle'
    PROVE  ConnInv'
<1>1. errCount' \in 0..2
  BY DEF PumpsExited
<1>2. {cliEOF, srvEOF, clientConnClosed, upstreamConnClosed, cancelled}' \subseteq BOOLEAN
  OBVIOUS
<1>3. QED BY <1>1, <1>2 DEF ConnInv, ConnTypeOK

(* The facts of ConnInv, one by one.                                      *)
LEMMA ConnInvParts ==
    ASSUME ConnInv
    PROVE  /\ TypeOK
           /\ cliSent \in Seq(WireMsgs) /\ srvGot \in Seq(WireMsgs)
           /\ srvSent \in Seq(BackendMsgs) /\ cliGot \in Seq(BackendMsgs)
           /\ cliRead \in 0..Len(cliSent) /\ srvRead \in 0..Len(srvGot)
           /\ upRead \in 0..Len(srvSent)
           /\ srvState \in {"startup", "auth", "ready", "gone"}
           /\ rpc \in {"startup", "auth", "pumps", "join", "return", "done"}
           /\ cpc \in {"idle", "top", "recv", "write", "exit"}
           /\ upc \in {"idle", "top", "recv", "write", "exit"}
           /\ cmsg \in WireMsgs /\ umsg \in BackendMsgs
           /\ errCount = PumpsExited
           /\ cliEOF \in BOOLEAN /\ srvEOF \in BOOLEAN /\ clientConnClosed \in BOOLEAN
           /\ upstreamConnClosed \in BOOLEAN /\ cancelled \in BOOLEAN
           /\ PumpsIdle
BY DEF ConnInv, ConnTypeOK

(* A message the proxy reads from the client is a client message.        *)
LEMMA CliSentNext ==
    ASSUME ConnInv, CliReadable
    PROVE  /\ cliRead + 1 \in 1..Len(cliSent)
           /\ cliSent[cliRead + 1] \in WireMsgs
BY ConnInvParts DEF CliReadable

(* A message the proxy reads from the server is a backend message.        *)
LEMMA SrvSentNext ==
    ASSUME ConnInv, UpReadable
    PROVE  /\ upRead + 1 \in 1..Len(srvSent)
           /\ srvSent[upRead + 1] \in BackendMsgs
BY ConnInvParts DEF UpReadable

(* What WriteUp / WriteCli deliver keeps the stream's type.               *)
LEMMA WriteUpType ==
    ASSUME ConnInv, NEW m \in WireMsgs, WriteUp(m)
    PROVE  srvGot' \in Seq(WireMsgs) /\ Len(srvGot) <= Len(srvGot')
<1>1. srvGot \in Seq(WireMsgs)
  BY ConnInvParts
<1>2. QED BY <1>1, AppendProperties DEF WriteUp

LEMMA WriteCliType ==
    ASSUME ConnInv, NEW m \in BackendMsgs, WriteCli(m)
    PROVE  cliGot' \in Seq(BackendMsgs)
<1>1. cliGot \in Seq(BackendMsgs)
  BY ConnInvParts
<1>2. QED BY <1>1, AppendProperties DEF WriteCli

LEMMA RelayStartupInv ==
    ASSUME ConnInv, RelayStartup
    PROVE  ConnInv'
<1>0. TypeOK'
  BY ConnInvParts, CaptureKeptType DEF RelayStartup
<1>1. CASE /\ CliReadable
           /\ cliRead' = cliRead + 1
           /\ \E ok \in UpWriteOutcomes :
                /\ WriteUp(cliSent[cliRead + 1])
                /\ rpc' = IF ok THEN "auth" ELSE "return"
  <2>1. cliRead + 1 \in 1..Len(cliSent) /\ cliSent[cliRead + 1] \in WireMsgs
    BY <1>1, CliSentNext
  <2>2. srvGot' \in Seq(WireMsgs) /\ Len(srvGot) <= Len(srvGot')
    BY <1>1, <2>1, WriteUpType
  <2>3. rpc' \in {"auth", "return"}
    BY <1>1
  <2>4. QED BY <1>0, <2>1, <2>2, <2>3, ConnInvParts, ConnInvPrimed
          DEF RelayStartup, PumpsExited, PumpsIdle, wireVars, relayVars
<1>2. CASE CliReadFails /\ rpc' = "return" /\ UNCHANGED <<cliRead, srvGot>>
  BY <1>0, <1>2, ConnInvParts, ConnInvPrimed DEF RelayStartup, PumpsExited, PumpsIdle
<1>3. QED BY <1>1, <1>2 DEF RelayStartup

LEMMA RelayAuthInv ==
    ASSUME ConnInv, RelayAuth
    PROVE  ConnInv'
<1>0. TypeOK'
  BY ConnInvParts, CaptureKeptType DEF RelayAuth
<1>1. CASE /\ UpReadable
           /\ upRead' = upRead + 1
           /\ \E ok \in CliWriteOutcomes :
                /\ WriteCli(srvSent[upRead + 1])
                /\ \/ /\ ok /\ srvSent[upRead + 1] = "RFQ"
                      /\ rpc' = "pumps" /\ cpc' = "top" /\ upc' = "top"
                   \/ /\ ok /\ srvSent[upRead + 1] = "Error"
                      /\ rpc' = "return" /\ UNCHANGED <<cpc, upc>>
                   \/ /\ ok /\ srvSent[upRead + 1] \notin {"RFQ", "Error"}
                      /\ rpc' = "auth" /\ UNCHANGED <<cpc, upc>>
                   \/ /\ ~ok
                      /\ rpc' = "return" /\ UNCHANGED <<cpc, upc>>
  <2>1. upRead + 1 \in 1..Len(srvSent) /\ srvSent[upRead + 1] \in BackendMsgs
    BY <1>1, SrvSentNext
  <2>2. cliGot' \in Seq(BackendMsgs)
    BY <1>1, <2>1, WriteCliType
  <2>3. cpc = "idle" /\ upc = "idle" /\ errCount = 0
    BY ConnInvParts DEF RelayAuth, PumpsIdle, PumpsExited
  <2>4. QED BY <1>0, <1>1, <2>1, <2>2, <2>3, ConnInvParts, ConnInvPrimed
          DEF RelayAuth, PumpsExited, PumpsIdle, wireVars, relayVars
<1>2. CASE UpReadFails /\ rpc' = "return" /\ UNCHANGED <<upRead, cliGot, cpc, upc>>
  BY <1>0, <1>2, ConnInvParts, ConnInvPrimed DEF RelayAuth, PumpsExited, PumpsIdle
<1>3. QED BY <1>1, <1>2 DEF RelayAuth

LEMMA RelayFirstDoneInv ==
    ASSUME ConnInv, RelayFirstDone
    PROVE  ConnInv'
<1>0. TypeOK'
  BY ConnInvParts, CaptureKeptType DEF RelayFirstDone
<1>1. QED BY <1>0, ConnInvParts, ConnInvPrimed DEF RelayFirstDone, PumpsExited, PumpsIdle, wireVars, relayVars

LEMMA RelayJoinInv ==
    ASSUME ConnInv, RelayJoin
    PROVE  ConnInv'
<1>0. TypeOK'
  BY ConnInvParts, CaptureKeptType DEF RelayJoin
<1>1. QED BY <1>0, ConnInvParts, ConnInvPrimed DEF RelayJoin, PumpsExited, PumpsIdle, wireVars, relayVars

LEMMA HandleConnReturnInv ==
    ASSUME ConnInv, HandleConnReturn
    PROVE  ConnInv'
<1>0. TypeOK'
  BY ConnInvParts, CaptureKeptType DEF HandleConnReturn
<1>1. QED BY <1>0, ConnInvParts, ConnInvPrimed DEF HandleConnReturn, PumpsExited, PumpsIdle, wireVars, relayVars

LEMMA ClientPumpTopInv ==
    ASSUME ConnInv, ClientPumpTop
    PROVE  ConnInv'
<1>0. TypeOK'
  BY ConnInvParts, CaptureKeptType DEF ClientPumpTop
<1>1. QED BY <1>0, ConnInvParts, ConnInvPrimed DEF ClientPumpTop, PumpsExited, PumpsIdle, wireVars, relayVars, ClientPumpExit

LEMMA ClientPumpWriteInv ==
    ASSUME ConnInv, ClientPumpWrite
    PROVE  ConnInv'
<1>0. TypeOK'
  BY ConnInvParts, CaptureKeptType DEF ClientPumpWrite
<1>1. QED BY <1>0, ConnInvParts, ConnInvPrimed DEF ClientPumpWrite, PumpsExited, PumpsIdle, wireVars, relayVars, UpWriteOutcomes, WriteUp, ClientPumpExit

LEMMA UpPumpTopInv ==
    ASSUME ConnInv, UpPumpTop
    PROVE  ConnInv'
<1>0. TypeOK'
  BY ConnInvParts, CaptureKeptType DEF UpPumpTop
<1>1. QED BY <1>0, ConnInvParts, ConnInvPrimed DEF UpPumpTop, PumpsExited, PumpsIdle, wireVars, relayVars, UpPumpExit

LEMMA UpPumpRecvInv ==
    ASSUME ConnInv, UpPumpRecv
    PROVE  ConnInv'
<1>0. TypeOK'
  BY ConnInvParts, CaptureKeptType DEF UpPumpRecv
<1>1. QED BY <1>0, ConnInvParts, ConnInvPrimed DEF UpPumpRecv, PumpsExited, PumpsIdle, wireVars, relayVars, UpReadable, UpReadFails, UpPumpExit

LEMMA UpPumpWriteInv ==
    ASSUME ConnInv, UpPumpWrite
    PROVE  ConnInv'
<1>0. TypeOK'
  BY ConnInvParts, CaptureKeptType DEF UpPumpWrite
<1>1. QED BY <1>0, ConnInvParts, ConnInvPrimed DEF UpPumpWrite, PumpsExited, PumpsIdle, wireVars, relayVars, CliWriteOutcomes, WriteCli, UpPumpExit

LEMMA ClientAnswerAuthInv ==
    ASSUME ConnInv, ClientAnswerAuth
    PROVE  ConnInv'
<1>0. TypeOK'
  BY ConnInvParts, CaptureKeptType DEF ClientAnswerAuth
<1>1. QED BY <1>0, ConnInvParts, ConnInvPrimed DEF ClientAnswerAuth, PumpsExited, PumpsIdle, wireVars, relayVars, WireMsgs, PasswordMsg

LEMMA ClientHangUpInv ==
    ASSUME ConnInv, ClientHangUp
    PROVE  ConnInv'
<1>0. TypeOK'
  BY ConnInvParts, CaptureKeptType DEF ClientHangUp
<1>1. QED BY <1>0, ConnInvParts, ConnInvPrimed DEF ClientHangUp, PumpsExited, PumpsIdle, wireVars, relayVars

LEMMA ServerAuthTimeoutInv ==
    ASSUME ConnInv, ServerAuthTimeout
    PROVE  ConnInv'
<1>0. TypeOK'
  BY ConnInvParts, CaptureKeptType DEF ServerAuthTimeout
<1>1. QED BY <1>0, ConnInvParts, ConnInvPrimed DEF ServerAuthTimeout, PumpsExited, PumpsIdle, wireVars, relayVars

LEMMA ServerHangUpInv ==
    ASSUME ConnInv, ServerHangUp
    PROVE  ConnInv'
<1>0. TypeOK'
  BY ConnInvParts, CaptureKeptType DEF ServerHangUp
<1>1. QED BY <1>0, ConnInvParts, ConnInvPrimed DEF ServerHangUp, PumpsExited, PumpsIdle, wireVars, relayVars

LEMMA CancelInv ==
    ASSUME ConnInv, Cancel
    PROVE  ConnInv'
<1>0. TypeOK'
  BY ConnInvParts, CaptureKeptType DEF Cancel
<1>1. QED BY <1>0, ConnInvParts, ConnInvPrimed DEF Cancel, PumpsExited, PumpsIdle, wireVars, relayVars

(* relayClientToUpstream's Receive and captureClientMsg.                  *)
LEMMA ClientPumpRecvInv ==
    ASSUME ConnInv, ClientPumpRecv
    PROVE  ConnInv'
<1>0. rpc \notin {"startup", "auth"}
  BY ConnInvParts DEF ClientPumpRecv, PumpsIdle
<1>1. CASE /\ CliReadable
           /\ cliRead' = cliRead + 1
           /\ cmsg' = cliSent[cliRead + 1]
           /\ CaptureClientMsg(cliSent[cliRead + 1])
           /\ cpc' = "write"
           /\ UNCHANGED errCount
  <2>1. cliRead + 1 \in 1..Len(cliSent) /\ cliSent[cliRead + 1] \in WireMsgs
    BY <1>1, CliSentNext
  <2>2. cliSent[cliRead + 1] \in ClientMsgs
    BY <1>1, <2>1, WireCaptured
  <2>3. TypeOK'
    BY <1>1, <2>2, ConnInvParts, CaptureMsgType
  <2>4. QED BY <1>0, <1>1, <2>1, <2>3, ConnInvParts, ConnInvPrimed
          DEF ClientPumpRecv, PumpsExited, PumpsIdle
<1>2. CASE CliReadFails /\ ClientPumpExit /\ UNCHANGED <<captureVars, cliRead, cmsg>>
  <2>1. TypeOK'
    BY <1>2, ConnInvParts, CaptureKeptType
  <2>2. QED BY <1>0, <1>2, <2>1, ConnInvParts, ConnInvPrimed
          DEF ClientPumpRecv, ClientPumpExit, PumpsExited, PumpsIdle
<1>3. QED BY <1>1, <1>2 DEF ClientPumpRecv

(* The server answers a StartupMessage.                                   *)
LEMMA ServerStartupInv ==
    ASSUME ConnInv, ServerStartup
    PROVE  ConnInv'
<1>0. TypeOK'
  BY ConnInvParts, CaptureKeptType DEF ServerStartup
<1>1. srvSent \in Seq(BackendMsgs) /\ upRead \in 0..Len(srvSent)
  BY ConnInvParts
<1>2. /\ srvSent \o <<"AuthOk", "RFQ">> \in Seq(BackendMsgs)
      /\ Len(srvSent \o <<"AuthOk", "RFQ">>) = Len(srvSent) + 2
  <2>1. <<"AuthOk", "RFQ">> \in Seq(BackendMsgs)
    BY DEF BackendMsgs
  <2>2. QED BY <1>1, <2>1, ConcatProperties
<1>3. /\ Append(srvSent, "AuthReq") \in Seq(BackendMsgs)
      /\ Len(Append(srvSent, "AuthReq")) = Len(srvSent) + 1
      /\ Append(srvSent, "Error") \in Seq(BackendMsgs)
      /\ Len(Append(srvSent, "Error")) = Len(srvSent) + 1
  BY <1>1, AppendProperties DEF BackendMsgs
<1>4. srvSent' \in Seq(BackendMsgs) /\ upRead \in 0..Len(srvSent')
  <2>1. Len(srvSent) \in Nat
    BY <1>1, LenProperties
  <2>2. \/ srvSent' = srvSent \o <<"AuthOk", "RFQ">>
        \/ srvSent' = Append(srvSent, "AuthReq")
        \/ srvSent' = Append(srvSent, "Error")
    BY DEF ServerStartup
  <2>3. QED BY <1>1, <1>2, <1>3, <2>1, <2>2
<1>5. /\ srvState' \in {"startup", "auth", "ready", "gone"}
      /\ srvEOF' \in BOOLEAN
      /\ srvRead' \in 0..Len(srvGot')
  <2>1. srvGot \in Seq(WireMsgs) /\ srvRead \in 0..Len(srvGot) /\ Len(srvGot) \in Nat
    BY ConnInvParts, LenProperties
  <2>2. srvRead' = srvRead + 1 /\ srvRead < Len(srvGot) /\ srvGot' = srvGot
    BY DEF ServerStartup
  <2>3. \E mode \in AuthModes :
          \/ srvState' = "ready" /\ srvEOF' = srvEOF
          \/ srvState' = "auth" /\ srvEOF' = srvEOF
          \/ srvState' = "gone" /\ srvEOF' = TRUE
    BY DEF ServerStartup
  <2>4. srvEOF \in BOOLEAN
    BY ConnInvParts
  <2>5. srvState' \in {"startup", "auth", "ready", "gone"} /\ srvEOF' \in BOOLEAN
    BY <2>3, <2>4, Zenon
  <2>6. srvRead' \in 0..Len(srvGot')
    BY <2>1, <2>2
  <2>7. QED BY <2>5, <2>6
<1>6. QED BY <1>0, <1>4, <1>5, ConnInvParts, ConnInvPrimed
        DEF ServerStartup, PumpsExited, PumpsIdle, relayVars

(* The server answers a frontend message.                                 *)
LEMMA ServerServeInv ==
    ASSUME ConnInv, ServerServe
    PROVE  ConnInv'
<1>0. TypeOK'
  BY ConnInvParts, CaptureKeptType DEF ServerServe
<1>1. srvSent \in Seq(BackendMsgs) /\ upRead \in 0..Len(srvSent)
  BY ConnInvParts
<1>2. Replies(srvGot[srvRead + 1]) \in Seq(BackendMsgs)
  BY RepliesType
<1>3. srvSent' \in Seq(BackendMsgs) /\ Len(srvSent) <= Len(srvSent')
  BY <1>1, <1>2, ConcatProperties DEF ServerServe
<1>4. QED BY <1>0, <1>1, <1>3, ConnInvParts, ConnInvPrimed
        DEF ServerServe, PumpsExited, PumpsIdle, relayVars

(* The client writes a frontend message.                                  *)
LEMMA ClientSendInv ==
    ASSUME ConnInv, NEW m \in ClientMsgs, ClientSend(m)
    PROVE  ConnInv'
<1>0. TypeOK'
  BY ConnInvParts, CaptureKeptType DEF ClientSend
<1>1. cliSent' \in Seq(WireMsgs) /\ Len(cliSent) <= Len(cliSent')
  BY ConnInvParts, AppendProperties DEF ClientSend, WireMsgs
<1>2. QED BY <1>0, <1>1, ConnInvParts, ConnInvPrimed
        DEF ClientSend, PumpsExited, PumpsIdle, relayVars

(* The subscriber takes an event off the channel.                         *)
LEMMA SubscriberReadInv ==
    ASSUME ConnInv, SubscriberRead
    PROVE  ConnInv'
<1>0. TypeOK'
  BY ConnInvParts, TypeStep DEF SubscriberRead, Next
<1>1. QED BY <1>0, ConnInvParts, ConnInvPrimed
        DEF SubscriberRead, PumpsExited, PumpsIdle, wireVars, relayVars

LEMMA ConnStep == ConnInv /\ [ConnNext]_vars => ConnInv'
<1> SUFFICES ASSUME ConnInv, [ConnNext]_vars PROVE ConnInv'
  OBVIOUS
<1>1. CASE ProxyNext
  BY <1>1, RelayStartupInv, RelayAuthInv, RelayFirstDoneInv, RelayJoinInv,
     HandleConnReturnInv, ClientPumpTopInv, ClientPumpRecvInv, ClientPumpWriteInv,
     UpPumpTopInv, UpPumpRecvInv, UpPumpWriteInv DEF ProxyNext
<1>2. CASE ServerNext \/ ServerHangUp
  BY <1>2, ServerStartupInv, ServerAuthTimeoutInv, ServerServeInv, ServerHangUpInv
     DEF ServerNext
<1>3. CASE ClientAnswerAuth \/ (\E m \in ClientMsgs : ClientSend(m)) \/ ClientHangUp
  BY <1>3, ClientAnswerAuthInv, ClientSendInv, ClientHangUpInv
<1>4. CASE Cancel \/ SubscriberRead
  BY <1>4, CancelInv, SubscriberReadInv
<1>5. CASE UNCHANGED vars
  <2>1. TypeOK'
    BY <1>5, ConnInvParts, CaptureKeptType DEF vars
  <2>2. QED BY <1>5, <2>1, ConnInvParts, ConnInvPrimed
          DEF vars, wireVars, relayVars, PumpsExited, PumpsIdle
<1>6. QED BY <1>1, <1>2, <1>3, <1>4, <1>5 DEF ConnNext

(* The relayed connection keeps its type in every behaviour, for every    *)
(* set of texts, statement names, authentication modes, hang-ups and      *)
(* bound on the client's messages.  In particular errCh receives at most  *)
(* two results (errCount \in 0..2), one from each pump, so no pump ever   *)
(* blocks on its send into the channel of capacity 2 that relay makes,   *)
(* and relay's two receives from errCh are all the results there are.    *)
THEOREM ConnTypeCorrect == ConnSpec => []ConnTypeOK
<1>1. ConnInv => ConnTypeOK
  BY DEF ConnInv
<1>2. QED BY <1>1, ConnInitInv, ConnStep, PTL DEF ConnSpec

=============================================================================
