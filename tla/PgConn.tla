------------------------------- MODULE PgConn -------------------------------
(***************************************************************************)
(* One relayed connection, conn.relay in src/proxy/postgres/conn.go with  *)
(* the deferred closes of Proxy.handleConn: the startup relay, then the    *)
(* two pumps (relayClientToUpstream, relayUpstreamToClient) joined through *)
(* errCh, running against a client and a PostgreSQL server.  The          *)
(* client->upstream pump captures every message with PgCapture.          *)
(*                                                                         *)
(* Each TCP stream is the sequence of messages written into it and the    *)
(* number the reader has consumed.  A read blocks until a message is      *)
(* there, the peer closed its end (io.EOF), or the proxy closed its own   *)
(* socket (use of closed network connection).  A write to a socket the    *)
(* proxy closed fails; a write to a peer that closed may be buffered and  *)
(* lost, or fail with a reset.                                            *)
(***************************************************************************)
EXTENDS PgCapture

CONSTANTS
    AuthModes,  \* how the server answers a startup: "trust", "password", "reject"
    Hangups,    \* which peers may close the connection at any time:
                \*   a subset of {"client", "server"}
    MaxSent     \* bound on the number of messages the client writes

ASSUME ConnAssumption ==
    /\ AuthModes \subseteq {"trust", "password", "reject"} /\ AuthModes # {}
    /\ Hangups \subseteq {"client", "server"}
    /\ MaxSent \in Nat

(* The handshake messages of the client, next to ClientMsgs.             *)
StartupMsg  == [type |-> "Startup"]
PasswordMsg == [type |-> "Password"]

(* Backend messages: only ReadyForQuery and ErrorResponse steer the      *)
(* relay; CommandComplete is decoded and ignored.                        *)
BackendMsgs == {"AuthReq", "AuthOk", "RFQ", "Error", "CC", "Other"}

VARIABLES
    cliSent, cliRead,  \* client -> proxy: messages written, messages the proxy read
    cliEOF,            \* the client closed its end
    srvGot, srvRead,   \* proxy -> server: messages delivered, messages the server handled
    srvSent, upRead,   \* server -> proxy: messages written, messages the proxy read
    srvEOF,            \* the server closed its end
    cliGot,            \* proxy -> client: messages delivered
    srvState,          \* session state of the server
    clientConnClosed,  \* the proxy closed clientConn
    upstreamConnClosed,\* the proxy closed upstreamConn
    rpc,               \* control point of relay / relayStartup / handleConn
    cpc, cmsg,         \* control point of relayClientToUpstream, message it holds
    upc, umsg,         \* control point of relayUpstreamToClient, message it holds
    errCount,          \* results sent on errCh
    cancelled          \* ctx is done

wireVars == <<cliSent, cliRead, cliEOF, srvGot, srvRead, srvSent, upRead, srvEOF, cliGot, srvState>>
relayVars == <<clientConnClosed, upstreamConnClosed, rpc, cpc, cmsg, upc, umsg, errCount, cancelled>>
vars == <<captureVars, wireVars, relayVars>>

-----------------------------------------------------------------------------
(* encodeAndWrite to upstreamConn / clientConn: the outcomes it can have, *)
(* TRUE for a write that returned no error.                               *)
UpWriteOutcomes ==
    IF upstreamConnClosed THEN {FALSE} ELSE IF srvEOF THEN {TRUE, FALSE} ELSE {TRUE}
CliWriteOutcomes ==
    IF clientConnClosed THEN {FALSE} ELSE IF cliEOF THEN {TRUE, FALSE} ELSE {TRUE}

WriteUp(m) ==
    srvGot' = IF ~upstreamConnClosed /\ ~srvEOF THEN Append(srvGot, m) ELSE srvGot
WriteCli(m) ==
    cliGot' = IF ~clientConnClosed /\ ~cliEOF THEN Append(cliGot, m) ELSE cliGot

(* A Receive on clientConn / upstreamConn that ends in an error: the      *)
(* proxy closed the socket, or the peer closed and everything it wrote    *)
(* was read.  isClosedErr holds for both, so a pump returns nil.          *)
CliReadFails == clientConnClosed \/ (cliRead = Len(cliSent) /\ cliEOF)
UpReadFails == upstreamConnClosed \/ (upRead = Len(srvSent) /\ srvEOF)
CliReadable == ~clientConnClosed /\ cliRead < Len(cliSent)
UpReadable == ~upstreamConnClosed /\ upRead < Len(srvSent)

-----------------------------------------------------------------------------
(* relayStartup, first half: ReceiveStartupMessage from the client and    *)
(* forward it; an error ends relay.                                       *)
RelayStartup ==
    /\ rpc = "startup"
    /\ \/ /\ CliReadable
          /\ cliRead' = cliRead + 1
          /\ \E ok \in UpWriteOutcomes :
               /\ WriteUp(cliSent[cliRead + 1])
               /\ rpc' = IF ok THEN "auth" ELSE "return"
       \/ /\ CliReadFails
          /\ rpc' = "return"
          /\ UNCHANGED <<cliRead, srvGot>>
    /\ UNCHANGED <<captureVars, cliSent, cliEOF, srvRead, srvSent, upRead, srvEOF,
                   cliGot, srvState, clientConnClosed, upstreamConnClosed, cpc, cmsg,
                   upc, umsg, errCount, cancelled>>

(* relayStartup, the loop: one backend message from upstream, forwarded  *)
(* to the client; ReadyForQuery starts the two pumps, ErrorResponse or an *)
(* I/O error ends relay.                                                  *)
RelayAuth ==
    /\ rpc = "auth"
    /\ \/ /\ UpReadable
          /\ upRead' = upRead + 1
          /\ LET m == srvSent[upRead + 1] IN
             \E ok \in CliWriteOutcomes :
               /\ WriteCli(m)
               /\ \/ /\ ok /\ m = "RFQ"
                     /\ rpc' = "pumps" /\ cpc' = "top" /\ upc' = "top"
                  \/ /\ ok /\ m = "Error"
                     /\ rpc' = "return" /\ UNCHANGED <<cpc, upc>>
                  \/ /\ ok /\ m \notin {"RFQ", "Error"}
                     /\ rpc' = "auth" /\ UNCHANGED <<cpc, upc>>
                  \/ /\ ~ok
                     /\ rpc' = "return" /\ UNCHANGED <<cpc, upc>>
       \/ /\ UpReadFails
          /\ rpc' = "return"
          /\ UNCHANGED <<upRead, cliGot, cpc, upc>>
    /\ UNCHANGED <<captureVars, cliSent, cliRead, cliEOF, srvGot, srvRead, srvSent,
                   srvEOF, srvState, clientConnClosed, upstreamConnClosed, cmsg, umsg,
                   errCount, cancelled>>

(* Fault: relay closes only clientConn after the first pump returns.      *)
RelayFirstDoneClientOnly ==
    /\ rpc = "pumps" /\ errCount >= 1
    /\ clientConnClosed' = TRUE
    /\ rpc' = "join"
    /\ UNCHANGED <<captureVars, wireVars, upstreamConnClosed, cpc, cmsg, upc, umsg,
                   errCount, cancelled>>

(* relay: the first result on errCh closes both sockets, ...             *)
RelayFirstDone ==
    /\ rpc = "pumps" /\ errCount >= 1
    /\ clientConnClosed' = TRUE
    /\ upstreamConnClosed' = TRUE
    /\ rpc' = "join"
    /\ UNCHANGED <<captureVars, wireVars, cpc, cmsg, upc, umsg, errCount, cancelled>>

(* ... and relay returns once the second pump has returned too.          *)
RelayJoin ==
    /\ rpc = "join" /\ errCount = 2
    /\ rpc' = "return"
    /\ UNCHANGED <<captureVars, wireVars, clientConnClosed, upstreamConnClosed, cpc,
                   cmsg, upc, umsg, errCount, cancelled>>

(* handleConn: relay has returned; the deferred Close calls run.         *)
HandleConnReturn ==
    /\ rpc = "return"
    /\ clientConnClosed' = TRUE
    /\ upstreamConnClosed' = TRUE
    /\ rpc' = "done"
    /\ UNCHANGED <<captureVars, wireVars, cpc, cmsg, upc, umsg, errCount, cancelled>>

-----------------------------------------------------------------------------
(* A pump returning: its result goes on errCh.                           *)
ClientPumpExit ==
    /\ cpc' = "exit"
    /\ errCount' = errCount + 1

UpPumpExit ==
    /\ upc' = "exit"
    /\ errCount' = errCount + 1

(* Top of both pump loops: a cancelled ctx ends the pump.                *)
ClientPumpTop ==
    /\ cpc = "top"
    /\ \/ cancelled /\ ClientPumpExit
       \/ ~cancelled /\ cpc' = "recv" /\ UNCHANGED errCount
    /\ UNCHANGED <<captureVars, wireVars, clientConnClosed, upstreamConnClosed, rpc,
                   cmsg, upc, umsg, cancelled>>

UpPumpTop ==
    /\ upc = "top"
    /\ \/ cancelled /\ UpPumpExit
       \/ ~cancelled /\ upc' = "recv" /\ UNCHANGED errCount
    /\ UNCHANGED <<captureVars, wireVars, clientConnClosed, upstreamConnClosed, rpc,
                   cpc, cmsg, umsg, cancelled>>

(* Fault: a failed Receive is reported on errCh and the loop goes on     *)
(* (continue in place of return).                                         *)
ClientPumpRecvNoReturn ==
    /\ cpc = "recv"
    /\ \/ /\ CliReadable
          /\ cliRead' = cliRead + 1
          /\ cmsg' = cliSent[cliRead + 1]
          /\ CaptureClientMsg(cliSent[cliRead + 1])
          /\ cpc' = "write"
          /\ UNCHANGED errCount
       \/ /\ CliReadFails
          /\ errCount < 3
          /\ cpc' = "top" /\ errCount' = errCount + 1
          /\ UNCHANGED <<captureVars, cliRead, cmsg>>
    /\ UNCHANGED <<cliSent, cliEOF, srvGot, srvRead, srvSent, upRead, srvEOF, cliGot,
                   srvState, clientConnClosed, upstreamConnClosed, rpc, upc, umsg,
                   cancelled>>

(* Fault: the pump keeps the message of its previous iteration (a         *)
(* message variable declared outside the loop and not reassigned).        *)
ClientPumpRecvStale ==
    /\ cpc = "recv"
    /\ \/ /\ CliReadable
          /\ cliRead' = cliRead + 1
          /\ CaptureClientMsg(cliSent[cliRead + 1])
          /\ cpc' = "write"
          /\ UNCHANGED <<errCount, cmsg>>
       \/ /\ CliReadFails
          /\ ClientPumpExit
          /\ UNCHANGED <<captureVars, cliRead, cmsg>>
    /\ UNCHANGED <<cliSent, cliEOF, srvGot, srvRead, srvSent, upRead, srvEOF, cliGot,
                   srvState, clientConnClosed, upstreamConnClosed, rpc, upc, umsg,
                   cancelled>>

(* Fault: a message the capture has no case for is not forwarded (a      *)
(* continue in the default arm of the capture switch).                    *)
ClientPumpRecvSkipOther ==
    /\ cpc = "recv"
    /\ \/ /\ CliReadable
          /\ cliRead' = cliRead + 1
          /\ cmsg' = cliSent[cliRead + 1]
          /\ CaptureClientMsg(cliSent[cliRead + 1])
          /\ cpc' = IF cliSent[cliRead + 1] = OtherMsg THEN "top" ELSE "write"
          /\ UNCHANGED errCount
       \/ /\ CliReadFails
          /\ ClientPumpExit
          /\ UNCHANGED <<captureVars, cliRead, cmsg>>
    /\ UNCHANGED <<cliSent, cliEOF, srvGot, srvRead, srvSent, upRead, srvEOF, cliGot,
                   srvState, clientConnClosed, upstreamConnClosed, rpc, upc, umsg,
                   cancelled>>

(* relayClientToUpstream: client.Receive, then captureClientMsg.         *)
ClientPumpRecv ==
    /\ cpc = "recv"
    /\ \/ /\ CliReadable
          /\ cliRead' = cliRead + 1
          /\ cmsg' = cliSent[cliRead + 1]
          /\ CaptureClientMsg(cliSent[cliRead + 1])
          /\ cpc' = "write"
          /\ UNCHANGED errCount
       \/ /\ CliReadFails
          /\ ClientPumpExit
          /\ UNCHANGED <<captureVars, cliRead, cmsg>>
    /\ UNCHANGED <<cliSent, cliEOF, srvGot, srvRead, srvSent, upRead, srvEOF, cliGot,
                   srvState, clientConnClosed, upstreamConnClosed, rpc, upc, umsg,
                   cancelled>>

(* relayClientToUpstream: encodeAndWrite to upstreamConn.                *)
ClientPumpWrite ==
    /\ cpc = "write"
    /\ \E ok \in UpWriteOutcomes :
         /\ WriteUp(cmsg)
         /\ \/ ok /\ cpc' = "top" /\ UNCHANGED errCount
            \/ ~ok /\ ClientPumpExit
    /\ UNCHANGED <<captureVars, cliSent, cliRead, cliEOF, srvRead, srvSent, upRead,
                   srvEOF, cliGot, srvState, clientConnClosed, upstreamConnClosed, rpc,
                   cmsg, upc, umsg, cancelled>>

(* relayUpstreamToClient: upstream.Receive; captureUpstreamMsg only       *)
(* decodes the CommandComplete tag (parseRowsAffected) and keeps nothing. *)
UpPumpRecv ==
    /\ upc = "recv"
    /\ \/ /\ UpReadable
          /\ upRead' = upRead + 1
          /\ umsg' = srvSent[upRead + 1]
          /\ upc' = "write"
          /\ UNCHANGED errCount
       \/ /\ UpReadFails
          /\ UpPumpExit
          /\ UNCHANGED <<upRead, umsg>>
    /\ UNCHANGED <<captureVars, cliSent, cliRead, cliEOF, srvGot, srvRead, srvSent,
                   srvEOF, cliGot, srvState, clientConnClosed, upstreamConnClosed, rpc,
                   cpc, cmsg, cancelled>>

(* relayUpstreamToClient: encodeAndWrite to clientConn.                  *)
UpPumpWrite ==
    /\ upc = "write"
    /\ \E ok \in CliWriteOutcomes :
         /\ WriteCli(umsg)
         /\ \/ ok /\ upc' = "top" /\ UNCHANGED errCount
            \/ ~ok /\ UpPumpExit
    /\ UNCHANGED <<captureVars, cliSent, cliRead, cliEOF, srvGot, srvRead, srvSent,
                   upRead, srvEOF, srvState, clientConnClosed, upstreamConnClosed, rpc,
                   cpc, cmsg, umsg, cancelled>>

-----------------------------------------------------------------------------
(***************************************************************************)
(* The environment.  The client wrote its StartupMessage on connect,      *)
(* answers an authentication request with its password, and after        *)
(* ReadyForQuery may write any frontend message, pipelined.  The server   *)
(* answers a startup by trust, by a password request or by rejecting it,  *)
(* drops an unauthenticated session after authentication_timeout, and     *)
(* answers each frontend message in order.  Either peer may hang up when  *)
(* Hangups allows it.  ctx is cancelled by Proxy.Close.                   *)
(***************************************************************************)
ClientOpen == ~cliEOF /\ ~clientConnClosed

ClientAnswerAuth ==
    /\ ClientOpen
    /\ "AuthReq" \in Range(cliGot)
    /\ PasswordMsg \notin Range(cliSent)
    /\ Len(cliSent) < MaxSent
    /\ cliSent' = Append(cliSent, PasswordMsg)
    /\ UNCHANGED <<captureVars, cliRead, cliEOF, srvGot, srvRead, srvSent, upRead,
                   srvEOF, cliGot, srvState, relayVars>>

ClientSend(m) ==
    /\ ClientOpen
    /\ "RFQ" \in Range(cliGot)
    /\ Len(cliSent) < MaxSent
    /\ cliSent' = Append(cliSent, m)
    /\ UNCHANGED <<captureVars, cliRead, cliEOF, srvGot, srvRead, srvSent, upRead,
                   srvEOF, cliGot, srvState, relayVars>>

ClientHangUp ==
    /\ "client" \in Hangups
    /\ ~cliEOF
    /\ cliEOF' = TRUE
    /\ UNCHANGED <<captureVars, cliSent, cliRead, srvGot, srvRead, srvSent, upRead,
                   srvEOF, cliGot, srvState, relayVars>>

(* What the server writes back for a frontend message.                   *)
Replies(m) ==
    CASE m.type = "Query"   -> <<"CC", "RFQ">>
      [] m.type = "Execute" -> <<"CC">>
      [] m.type = "Other"   -> <<"RFQ">>
      [] OTHER              -> <<"Other">>

ServerOpen == srvState # "gone" /\ ~upstreamConnClosed

ServerStartup ==
    /\ ServerOpen /\ srvState = "startup"
    /\ srvRead < Len(srvGot)
    /\ srvRead' = srvRead + 1
    /\ \E mode \in AuthModes :
         \/ mode = "trust" /\ srvSent' = srvSent \o <<"AuthOk", "RFQ">>
            /\ srvState' = "ready" /\ UNCHANGED srvEOF
         \/ mode = "password" /\ srvSent' = Append(srvSent, "AuthReq")
            /\ srvState' = "auth" /\ UNCHANGED srvEOF
         \/ mode = "reject" /\ srvSent' = Append(srvSent, "Error")
            /\ srvState' = "gone" /\ srvEOF' = TRUE
    /\ UNCHANGED <<captureVars, cliSent, cliRead, cliEOF, srvGot, upRead, cliGot,
                   relayVars>>

(* A server asking for a password would go on to AuthenticationOk and    *)
(* ReadyForQuery once the PasswordMessage arrives; no behaviour of the    *)
(* relay delivers it (PasswordDelivered), so that step is left out.       *)
ServerAuthTimeout ==
    /\ ServerOpen /\ srvState = "auth"
    /\ srvState' = "gone" /\ srvEOF' = TRUE
    /\ UNCHANGED <<captureVars, cliSent, cliRead, cliEOF, srvGot, srvRead, srvSent,
                   upRead, cliGot, relayVars>>

ServerServe ==
    /\ ServerOpen /\ srvState = "ready"
    /\ srvRead < Len(srvGot)
    /\ srvRead' = srvRead + 1
    /\ srvSent' = srvSent \o Replies(srvGot[srvRead + 1])
    /\ UNCHANGED <<captureVars, cliSent, cliRead, cliEOF, srvGot, upRead, srvEOF,
                   cliGot, srvState, relayVars>>

ServerHangUp ==
    /\ "server" \in Hangups
    /\ ServerOpen
    /\ srvState' = "gone" /\ srvEOF' = TRUE
    /\ UNCHANGED <<captureVars, cliSent, cliRead, cliEOF, srvGot, srvRead, srvSent,
                   upRead, cliGot, relayVars>>

Cancel ==
    /\ ~cancelled
    /\ cancelled' = TRUE
    /\ UNCHANGED <<captureVars, wireVars, clientConnClosed, upstreamConnClosed, rpc,
                   cpc, cmsg, upc, umsg, errCount>>

SubscriberRead ==
    /\ Subscriber
    /\ UNCHANGED <<wireVars, relayVars>>

-----------------------------------------------------------------------------
ConnInit ==
    /\ Init
    /\ cliSent = <<StartupMsg>> /\ cliRead = 0 /\ cliEOF = FALSE
    /\ srvGot = <<>> /\ srvRead = 0 /\ srvSent = <<>> /\ upRead = 0
    /\ srvEOF = FALSE /\ cliGot = <<>> /\ srvState = "startup"
    /\ clientConnClosed = FALSE /\ upstreamConnClosed = FALSE
    /\ rpc = "startup" /\ cpc = "idle" /\ upc = "idle"
    /\ cmsg = StartupMsg /\ umsg = "Other"
    /\ errCount = 0 /\ cancelled = FALSE

(* The steps of the proxy's three goroutines.                             *)
ProxyNext ==
    \/ RelayStartup \/ RelayAuth \/ RelayFirstDone \/ RelayJoin \/ HandleConnReturn
    \/ ClientPumpTop \/ ClientPumpRecv \/ ClientPumpWrite
    \/ UpPumpTop \/ UpPumpRecv \/ UpPumpWrite

ServerNext ==
    ServerStartup \/ ServerAuthTimeout \/ ServerServe

ConnNext ==
    \/ ProxyNext
    \/ ServerNext \/ ServerHangUp
    \/ ClientAnswerAuth \/ \E m \in ClientMsgs : ClientSend(m)
    \/ ClientHangUp \/ Cancel \/ SubscriberRead

(* The proxy's goroutines are scheduled by the Go runtime, and each keeps *)
(* running while it is not blocked: weak fairness on each of them.  The   *)
(* server keeps serving (and PostgreSQL enforces authentication_timeout); *)
(* a driver answers an authentication request.  Nothing forces the        *)
(* client to send, either peer to hang up, Close to be called, or the     *)
(* subscriber to read.                                                   *)
ConnFairness ==
    /\ WF_vars(RelayStartup) /\ WF_vars(RelayAuth) /\ WF_vars(RelayFirstDone)
    /\ WF_vars(RelayJoin) /\ WF_vars(HandleConnReturn)
    /\ WF_vars(ClientPumpTop) /\ WF_vars(ClientPumpRecv) /\ WF_vars(ClientPumpWrite)
    /\ WF_vars(UpPumpTop) /\ WF_vars(UpPumpRecv) /\ WF_vars(UpPumpWrite)
    /\ WF_vars(ServerNext) /\ WF_vars(ClientAnswerAuth)

ConnSpec == ConnInit /\ [][ConnNext]_vars /\ ConnFairness

-----------------------------------------------------------------------------
WireMsgs == ClientMsgs \cup {StartupMsg, PasswordMsg}

(* Type invariant of the relay and its environment.                      *)
ConnTypeOK ==
    /\ TypeOK
    /\ cliSent \in Seq(WireMsgs) /\ srvGot \in Seq(WireMsgs)
    /\ srvSent \in Seq(BackendMsgs) /\ cliGot \in Seq(BackendMsgs)
    /\ cliRead \in 0..Len(cliSent) /\ srvRead \in 0..Len(srvGot)
    /\ upRead \in 0..Len(srvSent)
    /\ srvState \in {"startup", "auth", "ready", "gone"}
    /\ rpc \in {"startup", "auth", "pumps", "join", "return", "done"}
    /\ cpc \in {"idle", "top", "recv", "write", "exit"}
    /\ upc \in {"idle", "top", "recv", "write", "exit"}
    /\ cmsg \in WireMsgs /\ umsg \in BackendMsgs
    /\ errCount \in 0..2
    /\ {cliEOF, srvEOF, clientConnClosed, upstreamConnClosed, cancelled} \subseteq BOOLEAN

(* The proxy has closed its upstream socket, or the server has closed its *)
(* end: a write to upstream may then be lost or fail.                      *)
UpstreamLost == upstreamConnClosed \/ srvEOF

(* Transparency (spec property 2, C2, C3): the server receives a prefix   *)
(* of what the proxy read from the client -- in the order written, each   *)
(* message once and none invented -- and the client a prefix of what the *)
(* proxy read from the server; and the capture has taken exactly the      *)
(* client messages the pump read after the startup message, in order.     *)
(* It depends on relayStartup and the two pumps each forwarding the       *)
(* message they just received and nothing else.                           *)
RelayInOrder ==
    /\ msgs = SubSeq(cliSent, 2, cliRead)
    /\ IsPrefix(srvGot, SubSeq(cliSent, 1, cliRead))
    /\ IsPrefix(cliGot, SubSeq(srvSent, 1, upRead))

(* captureClientMsg runs before encodeAndWrite (conn.go:140), so an event *)
(* can describe a message the server has not received.  The capture runs *)
(* ahead of the server by exactly the message the client pump holds, and *)
(* by more only after the upstream connection was lost: every message the *)
(* proxy read from a client is delivered unless the write is in progress  *)
(* or upstream is gone.                                                   *)
CaptureAhead ==
    ~UpstreamLost => Len(srvGot) + (IF cpc = "write" THEN 1 ELSE 0) = cliRead

(* Termination (spec 4.3): once the client or the server has closed its  *)
(* end, relay returns and handleConn has closed both sockets.  It needs   *)
(* the first pump to return, relay to close BOTH sockets so that the     *)
(* other pump's blocked Receive fails, and the join on errCh.            *)
RelayEnds ==
    (cliEOF \/ srvEOF) ~> (rpc = "done" /\ clientConnClosed /\ upstreamConnClosed)

(* No stall (spec 8.6): every message the client writes reaches the      *)
(* server, and every message the server writes reaches the client, unless *)
(* a peer hangs up or ctx is cancelled -- even when the subscriber never  *)
(* reads the event channel, because emitEvent drops instead of waiting.   *)
Delivery ==
    \A k \in 1..MaxSent :
        /\ Len(cliSent) >= k ~> (Len(srvGot) >= k \/ cliEOF \/ srvEOF \/ cancelled)
        /\ Len(srvSent) >= k ~> (Len(cliGot) >= k \/ cliEOF \/ srvEOF \/ cancelled)

(* Startup relay (spec C2: the authentication exchange is copied         *)
(* verbatim): a password the client writes in answer to the server's     *)
(* authentication request reaches the server.                            *)
PasswordDelivered ==
    PasswordMsg \in Range(cliSent) ~> PasswordMsg \in Range(srvGot)

(* Cancellation (spec 5): once ctx is cancelled every relay ends with its *)
(* sockets closed, so that the acceptor's join returns.                  *)
ShutdownEndsRelay ==
    cancelled ~> (rpc = "done")

=============================================================================
