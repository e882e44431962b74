---------------------------- MODULE PgRelayProofs ---------------------------
(***************************************************************************)
(* Proofs that the relay of PgConn is transparent: relayStartup and the    *)
(* two pumps forward what they read, in order, each message once, and the  *)
(* capture sees the client's messages in the order the server gets them,  *)
(* ahead of the server by at most the message the client pump holds       *)
(* (RelayInOrder, CaptureAhead).                                          *)
(***************************************************************************)
EXTENDS PgConnProofs

(* The message a pump holds between its Receive and its write.            *)
HeldUp  == IF cpc = "write" THEN 1 ELSE 0
HeldCli == IF upc = "write" THEN 1 ELSE 0

(* t agrees with s on the first n positions.                              *)
AgreeUpTo(s, t, n) == \A k \in 1..n : s[k] = t[k]

(* The client -> server direction.  Both pumps forward the message they   *)
(* hold: cmsg is the last message the pump read.  Every message the proxy *)
(* read is on the server's stream, held, or was lost with upstream.       *)
(* The pumps start after relayStartup has read the startup message.      *)
UpWire ==
    /\ Len(msgs) = IF cliRead = 0 THEN 0 ELSE cliRead - 1
    /\ \A k \in 1..Len(msgs) : msgs[k] = cliSent[k + 1]
    /\ Len(srvGot) + HeldUp <= cliRead
    /\ AgreeUpTo(srvGot, cliSent, Len(srvGot))
    /\ cpc = "write" => cmsg = cliSent[cliRead]
    /\ rpc = "startup" => cliRead = 0
    /\ (rpc = "auth" \/ cpc # "idle") => cliRead >= 1
    /\ CaptureAhead

(* The proxy has closed its client socket, or the client its end.        *)
ClientLost == clientConnClosed \/ cliEOF

(* The server -> client direction, likewise.                              *)
CliWire ==
    /\ ~ClientLost => Len(cliGot) + HeldCli = upRead
    /\ Len(cliGot) + HeldCli <= upRead
    /\ AgreeUpTo(cliGot, srvSent, Len(cliGot))
    /\ upc = "write" => umsg = srvSent[upRead]

(* RelayInOrder and CaptureAhead are not inductive: a step of a pump      *)
(* forwards the message it holds, so the invariant must say which one it  *)
(* holds, and that the server's stream is a prefix of the client's up to  *)
(* that message.                                                          *)
RelayInv == ConnInv /\ UpWire /\ CliWire

-----------------------------------------------------------------------------
(* A sequence that agrees with t on its whole length, and is no longer    *)
(* than n <= Len(t), is a prefix of t's first n elements.                 *)
LEMMA PrefixOfFirst ==
    ASSUME NEW S, NEW s \in Seq(S), NEW t \in Seq(S), NEW n \in 0..Len(t),
           Len(s) <= n, AgreeUpTo(s, t, Len(s))
    PROVE  IsPrefix(s, SubSeq(t, 1, n))
<1> DEFINE u == SubSeq(t, 1, n)
<1>1. u \in Seq(S) /\ Len(u) = n /\ \A i \in 1..n : u[i] = t[i]
  BY SubSeqProperties
<1>2. SubSeq(s, 1, Len(s)) \in Seq(S) /\ Len(SubSeq(s, 1, Len(s))) = Len(s)
      /\ \A i \in 1..Len(s) : SubSeq(s, 1, Len(s))[i] = s[i]
  BY SubSeqProperties
<1>3. SubSeq(u, 1, Len(s)) \in Seq(S) /\ Len(SubSeq(u, 1, Len(s))) = Len(s)
      /\ \A i \in 1..Len(s) : SubSeq(u, 1, Len(s))[i] = u[i]
  BY <1>1, SubSeqProperties
<1>4. SubSeq(s, 1, Len(s)) = SubSeq(u, 1, Len(s))
  BY <1>1, <1>2, <1>3, SeqEqual DEF AgreeUpTo
<1>5. QED BY <1>1, <1>4 DEF IsPrefix

(* A sequence whose k-th element is t's (k+1)-th, for k < n, is t's      *)
(* elements 2..n.                                                         *)
LEMMA TailOfFirst ==
    ASSUME NEW S, NEW s \in Seq(S), NEW t \in Seq(S), NEW n \in 0..Len(t),
           Len(s) = IF n = 0 THEN 0 ELSE n - 1,
           \A k \in 1..Len(s) : s[k] = t[k + 1]
    PROVE  s = SubSeq(t, 2, n)
<1>1. CASE n = 0
  <2>1. SubSeq(t, 2, n) = <<>>
    BY <1>1, SubSeqEmpty
  <2>2. s = <<>>
    BY <1>1, EmptySeq
  <2>3. QED BY <2>1, <2>2
<1>2. CASE n # 0
  <2>1. SubSeq(t, 2, n) \in Seq(S) /\ Len(SubSeq(t, 2, n)) = n - 1
        /\ \A i \in 1..n - 1 : SubSeq(t, 2, n)[i] = t[i + 1]
    BY <1>2, SubSeqProperties
  <2>2. QED BY <1>2, <2>1, SeqEqual
<1>3. QED BY <1>1, <1>2

(* The relay invariant gives both properties.                             *)
LEMMA RelayInvProperties ==
    ASSUME RelayInv
    PROVE  RelayInOrder /\ CaptureAhead
<1>1. /\ cliSent \in Seq(WireMsgs) /\ srvGot \in Seq(WireMsgs) /\ msgs \in Seq(ClientMsgs)
      /\ srvSent \in Seq(BackendMsgs) /\ cliGot \in Seq(BackendMsgs)
      /\ cliRead \in 0..Len(cliSent) /\ upRead \in 0..Len(srvSent)
  BY ConnInvParts DEF RelayInv, TypeOK
<1>2. msgs \in Seq(WireMsgs)
  BY <1>1 DEF WireMsgs
<1>3. msgs = SubSeq(cliSent, 2, cliRead)
  BY <1>1, <1>2, TailOfFirst DEF RelayInv, UpWire
<1>4. IsPrefix(srvGot, SubSeq(cliSent, 1, cliRead))
  <2>1. Len(srvGot) <= cliRead /\ AgreeUpTo(srvGot, cliSent, Len(srvGot))
    BY <1>1 DEF RelayInv, UpWire, HeldUp
  <2>2. QED BY <1>1, <2>1, PrefixOfFirst
<1>5. IsPrefix(cliGot, SubSeq(srvSent, 1, upRead))
  <2>1. Len(cliGot) <= upRead /\ AgreeUpTo(cliGot, srvSent, Len(cliGot))
    BY <1>1 DEF RelayInv, CliWire, HeldCli
  <2>2. QED BY <1>1, <2>1, PrefixOfFirst
<1>6. QED BY <1>3, <1>4, <1>5 DEF RelayInv, UpWire, RelayInOrder

-----------------------------------------------------------------------------
(* The facts about the streams and counters the step proofs use.         *)
LEMMA RelayTypes ==
    ASSUME ConnInv
    PROVE  /\ cliSent \in Seq(WireMsgs) /\ srvGot \in Seq(WireMsgs)
           /\ srvSent \in Seq(BackendMsgs) /\ cliGot \in Seq(BackendMsgs)
           /\ msgs \in Seq(ClientMsgs)
           /\ cliRead \in 0..Len(cliSent) /\ upRead \in 0..Len(srvSent)
           /\ Len(cliSent) \in Nat /\ Len(srvSent) \in Nat
           /\ Len(srvGot) \in Nat /\ Len(cliGot) \in Nat /\ Len(msgs) \in Nat
BY ConnInvParts, LenProperties DEF TypeOK

LEMMA RelayInitInv == ConnInit => RelayInv
<1> SUFFICES ASSUME ConnInit PROVE RelayInv
  OBVIOUS
<1>1. ConnInv
  BY ConnInitInv
<1>2. msgs = <<>> /\ srvGot = <<>> /\ cliGot = <<>> /\ cliRead = 0 /\ upRead = 0
      /\ cpc = "idle" /\ upc = "idle" /\ rpc = "startup"
  BY DEF ConnInit, Init
<1>3. QED BY <1>1, <1>2 DEF RelayInv, UpWire, CliWire, HeldUp, HeldCli, AgreeUpTo, CaptureAhead

(* A step that leaves both relays' reads, writes and held messages alone, *)
(* lets the peers write more, and only closes connections, keeps the      *)
(* relay invariant.                                                       *)
LEMMA FrameStep ==
    ASSUME RelayInv, ConnInv',
           UNCHANGED <<cliRead, msgs, srvGot, cpc, cmsg, upRead, cliGot, upc, umsg>>,
           rpc' \in {rpc, "join", "return", "done"},
           UpstreamLost => UpstreamLost', ClientLost => ClientLost',
           Len(cliSent) <= Len(cliSent'), AgreeUpTo(cliSent, cliSent', Len(cliSent)),
           Len(srvSent) <= Len(srvSent'), AgreeUpTo(srvSent, srvSent', Len(srvSent))
    PROVE  UpWire' /\ CliWire'
<1>1. /\ cliRead \in 0..Len(cliSent) /\ upRead \in 0..Len(srvSent)
      /\ Len(srvGot) \in Nat /\ Len(cliGot) \in Nat /\ Len(msgs) \in Nat
  BY RelayTypes DEF RelayInv
<1>2. \A k \in 1..cliRead : cliSent'[k] = cliSent[k]
  BY <1>1 DEF AgreeUpTo
<1>3. \A k \in 1..upRead : srvSent'[k] = srvSent[k]
  BY <1>1 DEF AgreeUpTo
<1>4. UpWire'
  <2>1. \A k \in 1..Len(msgs) : msgs[k] = cliSent'[k + 1]
    BY <1>1, <1>2 DEF RelayInv, UpWire
  <2>2. AgreeUpTo(srvGot, cliSent', Len(srvGot))
    BY <1>1, <1>2 DEF RelayInv, UpWire, AgreeUpTo, HeldUp
  <2>3. cpc = "write" => cmsg = cliSent'[cliRead]
    BY <1>1, <1>2 DEF RelayInv, UpWire
  <2>4. (rpc' = "startup" => cliRead = 0) /\ ((rpc' = "auth" \/ cpc # "idle") => cliRead >= 1)
    BY DEF RelayInv, UpWire
  <2>5. CaptureAhead'
    BY DEF RelayInv, UpWire, CaptureAhead, HeldUp
  <2>6. QED BY <2>1, <2>2, <2>3, <2>4, <2>5 DEF RelayInv, UpWire, HeldUp
<1>5. CliWire'
  <2>1. AgreeUpTo(cliGot, srvSent', Len(cliGot))
    BY <1>1, <1>3 DEF RelayInv, CliWire, AgreeUpTo, HeldCli
  <2>2. upc = "write" => umsg = srvSent'[upRead]
    BY <1>1, <1>3 DEF RelayInv, CliWire, HeldCli
  <2>3. HeldCli' = HeldCli
    BY DEF HeldCli
  <2>4. ~ClientLost' => Len(cliGot') + HeldCli' = upRead'
    BY <2>3 DEF RelayInv, CliWire
  <2>5. Len(cliGot') + HeldCli' <= upRead'
    BY <2>3 DEF RelayInv, CliWire
  <2>6. QED BY <2>1, <2>2, <2>4, <2>5 DEF CliWire
<1>6. QED BY <1>4, <1>5

(* Appending to a stream, or concatenating to it, keeps what it held.    *)
LEMMA ExtendsAppend ==
    ASSUME NEW S, NEW s \in Seq(S), NEW e \in S
    PROVE  Len(s) <= Len(Append(s, e)) /\ AgreeUpTo(s, Append(s, e), Len(s))
BY AppendProperties DEF AgreeUpTo

LEMMA ExtendsConcat ==
    ASSUME NEW S, NEW s \in Seq(S), NEW r \in Seq(S)
    PROVE  Len(s) <= Len(s \o r) /\ AgreeUpTo(s, s \o r, Len(s))
<1>1. Len(r) \in Nat
  BY LenProperties
<1>2. QED BY <1>1, ConcatProperties DEF AgreeUpTo

LEMMA ExtendsSelf ==
    ASSUME NEW s
    PROVE  AgreeUpTo(s, s, Len(s))
BY DEF AgreeUpTo

(* The steps of the relay that only close sockets or end it, and the      *)
(* client, server, ctx and subscriber steps that write to neither relay.  *)
LEMMA EnvStep ==
    ASSUME RelayInv, ConnInv',
           \/ RelayFirstDone \/ RelayJoin \/ HandleConnReturn
           \/ ClientHangUp \/ ServerAuthTimeout \/ ServerHangUp \/ Cancel
           \/ SubscriberRead \/ UNCHANGED vars
    PROVE  UpWire' /\ CliWire'
<1>1. UNCHANGED <<cliSent, srvSent>>
  BY DEF RelayFirstDone, RelayJoin, HandleConnReturn, ClientHangUp, ServerAuthTimeout,
         ServerHangUp, Cancel, SubscriberRead, vars, wireVars
<1>2. /\ UNCHANGED <<cliRead, msgs, srvGot, cpc, cmsg, upRead, cliGot, upc, umsg>>
      /\ rpc' \in {rpc, "join", "return", "done"}
      /\ UpstreamLost => UpstreamLost'
      /\ ClientLost => ClientLost'
  BY DEF RelayFirstDone, RelayJoin, HandleConnReturn, ClientHangUp, ServerAuthTimeout,
         ServerHangUp, Cancel, SubscriberRead, Subscriber, vars, wireVars, relayVars,
         captureVars, UpstreamLost, ClientLost
<1>3. QED BY <1>1, <1>2, ExtendsSelf, FrameStep

(* The client writes a message; the server answers.                       *)
LEMMA PeerWriteStep ==
    ASSUME RelayInv, ConnInv',
           \/ ClientAnswerAuth \/ \E m \in ClientMsgs : ClientSend(m)
           \/ ServerStartup \/ ServerServe
    PROVE  UpWire' /\ CliWire'
<1>1. cliSent \in Seq(WireMsgs) /\ srvSent \in Seq(BackendMsgs)
  BY RelayTypes DEF RelayInv
<1>2. Len(cliSent) <= Len(cliSent') /\ AgreeUpTo(cliSent, cliSent', Len(cliSent))
  <2>1. CASE ClientAnswerAuth
    BY <1>1, <2>1, ExtendsAppend DEF ClientAnswerAuth, WireMsgs, PasswordMsg
  <2>2. CASE \E m \in ClientMsgs : ClientSend(m)
    BY <1>1, <2>2, ExtendsAppend DEF ClientSend, WireMsgs
  <2>3. CASE ServerStartup \/ ServerServe
    BY <2>3, ExtendsSelf DEF ServerStartup, ServerServe
  <2>4. QED BY <2>1, <2>2, <2>3
<1>3. Len(srvSent) <= Len(srvSent') /\ AgreeUpTo(srvSent, srvSent', Len(srvSent))
  <2>1. CASE ClientAnswerAuth \/ \E m \in ClientMsgs : ClientSend(m)
    BY <2>1, ExtendsSelf DEF ClientAnswerAuth, ClientSend
  <2>2. CASE ServerStartup
    <3>1. <<"AuthOk", "RFQ">> \in Seq(BackendMsgs) /\ "AuthReq" \in BackendMsgs
          /\ "Error" \in BackendMsgs
      BY DEF BackendMsgs
    <3>2. \/ srvSent' = srvSent \o <<"AuthOk", "RFQ">>
          \/ srvSent' = Append(srvSent, "AuthReq")
          \/ srvSent' = Append(srvSent, "Error")
      BY <2>2 DEF ServerStartup
    <3>3. QED BY <1>1, <3>1, <3>2, ExtendsAppend, ExtendsConcat
  <2>3. CASE ServerServe
    BY <1>1, <2>3, RepliesType, ExtendsConcat DEF ServerServe
  <2>4. QED BY <2>1, <2>2, <2>3
<1>4. /\ UNCHANGED <<cliRead, msgs, srvGot, cpc, cmsg, upRead, cliGot, upc, umsg, rpc>>
      /\ UpstreamLost => UpstreamLost'
      /\ ClientLost => ClientLost'
  BY DEF ClientAnswerAuth, ClientSend, ServerStartup, ServerServe, relayVars,
         captureVars, UpstreamLost, ClientLost
<1>5. QED BY <1>2, <1>3, <1>4, FrameStep

(* What a step of one relay direction leaves to the other.                *)
LEMMA CliWireKept ==
    ASSUME RelayInv, UNCHANGED <<srvSent, upRead, cliGot, upc, umsg>>,
           ClientLost => ClientLost'
    PROVE  CliWire'
BY DEF RelayInv, CliWire, HeldCli, AgreeUpTo

LEMMA UpWireKept ==
    ASSUME RelayInv, UNCHANGED <<cliSent, cliRead, msgs, srvGot, cpc, cmsg>>,
           UpstreamLost => UpstreamLost',
           rpc' \in {rpc, "pumps", "return"}
    PROVE  UpWire'
<1>1. rpc' = "startup" => rpc = "startup"
  OBVIOUS
<1>2. (rpc' = "auth" \/ cpc' # "idle") => cliRead' >= 1
  <2>1. CASE rpc' = "auth"
    BY <2>1 DEF RelayInv, UpWire
  <2>2. CASE cpc' # "idle"
    BY <2>2 DEF RelayInv, UpWire
  <2>3. QED BY <2>1, <2>2
<1>3. QED BY <1>1, <1>2 DEF RelayInv, UpWire, HeldUp, AgreeUpTo, CaptureAhead

(* relayStartup reads the startup message and forwards it.                *)
LEMMA RelayStartupStep ==
    ASSUME RelayInv, ConnInv', RelayStartup
    PROVE  UpWire' /\ CliWire'
<1>1. CASE /\ CliReadable
           /\ cliRead' = cliRead + 1
           /\ \E ok \in UpWriteOutcomes :
                /\ WriteUp(cliSent[cliRead + 1])
                /\ rpc' = IF ok THEN "auth" ELSE "return"
  <2>1. /\ cliRead = 0 /\ Len(srvGot) = 0 /\ Len(msgs) = 0 /\ cpc = "idle"
        /\ cliSent \in Seq(WireMsgs) /\ srvGot \in Seq(WireMsgs) /\ Len(cliSent) >= 1
    BY <1>1, RelayTypes, ConnInvParts DEF RelayStartup, RelayInv, UpWire, PumpsIdle,
       HeldUp, CliReadable
  <2>2. cliSent[1] \in WireMsgs
    BY <2>1
  <2>3. UNCHANGED <<cliSent, msgs, cpc, cmsg, upstreamConnClosed, srvEOF>>
    BY DEF RelayStartup, captureVars
  <2>4. rpc' \in {"auth", "return"}
    BY <1>1
  <2>5. srvGot' = IF ~UpstreamLost THEN Append(srvGot, cliSent[1]) ELSE srvGot
    BY <1>1, <2>1 DEF WriteUp, UpstreamLost
  <2>6. srvGot = <<>>
    BY <2>1, EmptySeq
  <2>7. Len(srvGot') <= 1 /\ AgreeUpTo(srvGot', cliSent, Len(srvGot'))
        /\ (~UpstreamLost' => Len(srvGot') = 1)
    BY <2>2, <2>3, <2>5, <2>6, AppendProperties DEF AgreeUpTo, UpstreamLost
  <2>8. UpWire'
    BY <1>1, <2>1, <2>3, <2>4, <2>7 DEF UpWire, HeldUp, CaptureAhead
  <2>9. CliWire'
    BY <2>3, CliWireKept DEF RelayStartup, ClientLost
  <2>10. QED BY <2>8, <2>9
<1>2. CASE CliReadFails /\ rpc' = "return" /\ UNCHANGED <<cliRead, srvGot>>
  <2>1. /\ UNCHANGED <<cliRead, msgs, srvGot, cpc, cmsg, upRead, cliGot, upc, umsg>>
        /\ UpstreamLost => UpstreamLost'
        /\ ClientLost => ClientLost'
        /\ UNCHANGED <<cliSent, srvSent>>
    BY <1>2 DEF RelayStartup, captureVars, UpstreamLost, ClientLost
  <2>2. QED BY <1>2, <2>1, ExtendsSelf, FrameStep
<1>3. QED BY <1>1, <1>2 DEF RelayStartup

(* relayStartup forwards one backend message to the client; on           *)
(* ReadyForQuery it starts the pumps.                                     *)
LEMMA RelayAuthStep ==
    ASSUME RelayInv, ConnInv', RelayAuth
    PROVE  UpWire' /\ CliWire'
<1>1. CASE /\ UpReadable
           /\ upRead' = upRead + 1
           /\ \E ok \in CliWriteOutcomes :
                /\ WriteCli(srvSent[upRead + 1])
                /\ \/ /\ ok /\ srvSent[upRead + 1] = "RFQ"
                      /\ rpc' = "pumps" /\ cpc' = "top" /\ upc' = "top"
                   \/ /\ ok /\ srvSent[upRead + 1] = "Error"
                      /\ rpc' = "return" /\ UNCHANGED <<cpc, upc>>
                   \/ /\ ok /\ srvSent[upRead + 1] \notin {"RFQ", "Error"}
                      /\ rpc' = "auth" /\ UNCHANGED <<cpc, upc>>
                   \/ /\ ~ok
                      /\ rpc' = "return" /\ UNCHANGED <<cpc, upc>>
  <2>1. /\ rpc = "auth" /\ cpc = "idle" /\ upc = "idle" /\ cliRead >= 1
        /\ srvSent \in Seq(BackendMsgs) /\ cliGot \in Seq(BackendMsgs)
        /\ upRead + 1 \in 1..Len(srvSent) /\ Len(cliGot) \in Nat
        /\ upRead \in 0..Len(srvSent)
    BY <1>1, RelayTypes, ConnInvParts DEF RelayAuth, RelayInv, UpWire, PumpsIdle,
       UpReadable
  <2>2. srvSent[upRead + 1] \in BackendMsgs
    BY <2>1
  <2>3. /\ UNCHANGED <<srvSent, cliSent, cliRead, msgs, srvGot, cmsg, umsg>>
        /\ UNCHANGED <<clientConnClosed, cliEOF, upstreamConnClosed, srvEOF>>
    BY DEF RelayAuth, captureVars
  <2>4. /\ rpc' \in {"pumps", "return", "auth"}
        /\ cpc' \in {"idle", "top"} /\ upc' \in {"idle", "top"}
    BY <1>1, <2>1
  <2>5. cliGot' = IF ~ClientLost THEN Append(cliGot, srvSent[upRead + 1]) ELSE cliGot
    BY <1>1 DEF WriteCli, ClientLost
  <2>6. /\ Len(cliGot) <= upRead /\ AgreeUpTo(cliGot, srvSent, Len(cliGot))
        /\ (~ClientLost => Len(cliGot) = upRead)
    BY <2>1 DEF RelayInv, CliWire, HeldCli
  <2>7. CliWire'
    <3>1. HeldCli' = 0 /\ ~(upc' = "write") /\ upRead \in Nat
      BY <2>1, <2>4 DEF HeldCli
    <3>2. ClientLost' = ClientLost /\ upRead' = upRead + 1
      BY <1>1, <2>3 DEF ClientLost
    <3>3. CASE ~ClientLost
      <4>1. Len(cliGot') = upRead + 1 /\ cliGot'[upRead + 1] = srvSent[upRead + 1]
            /\ \A k \in 1..Len(cliGot) : cliGot'[k] = cliGot[k]
        BY <2>1, <2>2, <2>5, <2>6, <3>3, AppendProperties
      <4>2. AgreeUpTo(cliGot', srvSent', Len(cliGot'))
        BY <2>3, <2>6, <3>1, <3>3, <4>1 DEF AgreeUpTo
      <4>3. QED BY <2>3, <3>1, <3>2, <4>1, <4>2 DEF CliWire
    <3>4. CASE ClientLost
      <4>1. cliGot' = cliGot
        BY <2>5, <3>4
      <4>2. AgreeUpTo(cliGot', srvSent', Len(cliGot'))
        BY <2>3, <2>6, <4>1 DEF AgreeUpTo
      <4>3. QED BY <2>3, <2>6, <3>1, <3>2, <3>4, <4>1, <4>2 DEF CliWire
    <3>5. QED BY <3>3, <3>4
  <2>8. UpWire'
    BY <2>1, <2>3, <2>4 DEF RelayInv, UpWire, HeldUp, AgreeUpTo, CaptureAhead, UpstreamLost
  <2>9. QED BY <2>7, <2>8
<1>2. CASE UpReadFails /\ rpc' = "return" /\ UNCHANGED <<upRead, cliGot, cpc, upc>>
  <2>1. /\ UNCHANGED <<cliRead, msgs, srvGot, cpc, cmsg, upRead, cliGot, upc, umsg>>
        /\ UpstreamLost => UpstreamLost'
        /\ ClientLost => ClientLost'
        /\ UNCHANGED <<cliSent, srvSent>>
    BY <1>2 DEF RelayAuth, captureVars, UpstreamLost, ClientLost
  <2>2. QED BY <1>2, <2>1, ExtendsSelf, FrameStep
<1>3. QED BY <1>1, <1>2 DEF RelayAuth

(* The top of a pump loop moves no message.                               *)
LEMMA PumpTopStep ==
    ASSUME RelayInv, ConnInv', ClientPumpTop \/ UpPumpTop
    PROVE  UpWire' /\ CliWire'
<1>1. CASE ClientPumpTop
  <2>1. cpc' \in {"recv", "exit"} /\ cpc = "top"
    BY <1>1 DEF ClientPumpTop, ClientPumpExit
  <2>2. UNCHANGED <<cliSent, cliRead, msgs, srvGot, cmsg, rpc, upstreamConnClosed, srvEOF>>
    BY <1>1 DEF ClientPumpTop, captureVars, wireVars
  <2>3. UpWire'
    BY <2>1, <2>2 DEF RelayInv, UpWire, HeldUp, AgreeUpTo, CaptureAhead, UpstreamLost
  <2>4. CliWire'
    BY <1>1, CliWireKept DEF ClientPumpTop, wireVars, ClientLost
  <2>5. QED BY <2>3, <2>4
<1>2. CASE UpPumpTop
  <2>1. upc' \in {"recv", "exit"} /\ upc = "top"
    BY <1>2 DEF UpPumpTop, UpPumpExit
  <2>2. UNCHANGED <<srvSent, upRead, cliGot, umsg, clientConnClosed, cliEOF>>
    BY <1>2 DEF UpPumpTop, wireVars
  <2>3. CliWire'
    BY <2>1, <2>2 DEF RelayInv, CliWire, HeldCli, AgreeUpTo, ClientLost
  <2>4. UpWire'
    BY <1>2, UpWireKept DEF UpPumpTop, captureVars, wireVars, UpstreamLost
  <2>5. QED BY <2>3, <2>4
<1>3. QED BY <1>1, <1>2

(* relayClientToUpstream receives a message and captures it; the capture *)
(* history grows by the message the pump now holds.                       *)
LEMMA ClientPumpRecvStep ==
    ASSUME RelayInv, ConnInv', ClientPumpRecv
    PROVE  UpWire' /\ CliWire'
<1>0. /\ cpc = "recv" /\ cliRead >= 1 /\ rpc \notin {"startup", "auth"}
      /\ UNCHANGED <<cliSent, srvGot, rpc, upstreamConnClosed, srvEOF>>
  BY ConnInvParts DEF RelayInv, UpWire, ClientPumpRecv, PumpsIdle
<1>1. CliWire'
  BY CliWireKept DEF ClientPumpRecv, ClientLost
<1>2. CASE /\ CliReadable
           /\ cliRead' = cliRead + 1
           /\ cmsg' = cliSent[cliRead + 1]
           /\ CaptureClientMsg(cliSent[cliRead + 1])
           /\ cpc' = "write"
           /\ UNCHANGED errCount
  <2>1. /\ cliRead + 1 \in 1..Len(cliSent) /\ cliSent[cliRead + 1] \in WireMsgs
        /\ msgs \in Seq(ClientMsgs) /\ cliRead \in Nat /\ Len(srvGot) \in Nat
    BY <1>2, CliSentNext, RelayTypes DEF RelayInv
  <2>2. cliSent[cliRead + 1] \in ClientMsgs
    BY <1>2, <2>1, WireCaptured
  <2>3. msgs' = Append(msgs, cliSent[cliRead + 1])
    BY <1>2 DEF CaptureClientMsg
  <2>4. Len(msgs) = cliRead - 1 /\ \A k \in 1..Len(msgs) : msgs[k] = cliSent[k + 1]
    BY <1>0 DEF RelayInv, UpWire
  <2>5. /\ Len(msgs') = cliRead' - 1
        /\ \A k \in 1..Len(msgs') : msgs'[k] = cliSent'[k + 1]
    BY <1>0, <1>2, <2>1, <2>2, <2>3, <2>4, AppendProperties
  <2>6. /\ Len(srvGot) + HeldUp' <= cliRead'
        /\ (~UpstreamLost => Len(srvGot) + HeldUp' = cliRead')
    BY <1>0, <1>2, <2>1 DEF RelayInv, UpWire, HeldUp, CaptureAhead
  <2>7. QED BY <1>0, <1>1, <1>2, <2>5, <2>6 DEF RelayInv, UpWire, AgreeUpTo, CaptureAhead,
               UpstreamLost
<1>3. CASE CliReadFails /\ ClientPumpExit /\ UNCHANGED <<captureVars, cliRead, cmsg>>
  <2>1. cpc' = "exit"
    BY <1>3 DEF ClientPumpExit
  <2>2. QED BY <1>0, <1>1, <1>3, <2>1 DEF RelayInv, UpWire, HeldUp, AgreeUpTo, CaptureAhead,
               UpstreamLost, captureVars
<1>4. QED BY <1>1, <1>2, <1>3 DEF ClientPumpRecv

(* relayClientToUpstream writes the message it holds to upstream.          *)
LEMMA ClientPumpWriteStep ==
    ASSUME RelayInv, ConnInv', ClientPumpWrite
    PROVE  UpWire' /\ CliWire'
<1>0. /\ cpc = "write" /\ cpc' \in {"top", "exit"} /\ cliRead >= 1
      /\ rpc \notin {"startup", "auth"}
      /\ UNCHANGED <<cliSent, cliRead, msgs, cmsg, rpc, upstreamConnClosed, srvEOF>>
      /\ srvGot' = IF ~UpstreamLost THEN Append(srvGot, cmsg) ELSE srvGot
  BY ConnInvParts DEF RelayInv, UpWire, ClientPumpWrite, ClientPumpExit, PumpsIdle,
     captureVars, WriteUp, UpstreamLost
<1>1. CliWire'
  BY CliWireKept DEF ClientPumpWrite, ClientLost
<1>2. /\ srvGot \in Seq(WireMsgs) /\ cmsg \in WireMsgs /\ Len(srvGot) \in Nat
      /\ cliRead \in Nat
      /\ Len(srvGot) + 1 <= cliRead /\ AgreeUpTo(srvGot, cliSent, Len(srvGot))
      /\ cmsg = cliSent[cliRead]
      /\ (~UpstreamLost => Len(srvGot) + 1 = cliRead)
  BY <1>0, RelayTypes, ConnInvParts DEF RelayInv, UpWire, HeldUp, CaptureAhead
<1>3. UpstreamLost' = UpstreamLost /\ HeldUp' = 0
  BY <1>0 DEF UpstreamLost, HeldUp
<1>4. CASE ~UpstreamLost
  <2>1. /\ Len(srvGot') = cliRead
        /\ AgreeUpTo(srvGot', cliSent, Len(srvGot'))
    BY <1>0, <1>2, <1>4, AppendProperties DEF AgreeUpTo
  <2>2. QED BY <1>0, <1>1, <1>3, <1>4, <2>1 DEF RelayInv, UpWire, CaptureAhead
<1>5. CASE UpstreamLost
  <2>1. srvGot' = srvGot
    BY <1>0, <1>5
  <2>2. AgreeUpTo(srvGot', cliSent', Len(srvGot'))
    BY <1>0, <1>2, <2>1
  <2>3. Len(srvGot') + HeldUp' <= cliRead'
    BY <1>0, <1>2, <1>3, <2>1
  <2>4. CaptureAhead'
    BY <1>3, <1>5 DEF CaptureAhead
  <2>5. QED BY <1>0, <1>1, <2>2, <2>3, <2>4 DEF RelayInv, UpWire
<1>6. QED BY <1>1, <1>4, <1>5

(* relayUpstreamToClient receives a backend message and holds it.          *)
LEMMA UpPumpRecvStep ==
    ASSUME RelayInv, ConnInv', UpPumpRecv
    PROVE  UpWire' /\ CliWire'
<1>0. /\ upc = "recv" /\ UNCHANGED <<srvSent, cliGot, clientConnClosed, cliEOF>>
      /\ upRead \in 0..Len(srvSent) /\ Len(cliGot) \in Nat
      /\ Len(cliGot) + 0 <= upRead
      /\ (~ClientLost => Len(cliGot) + 0 = upRead)
      /\ ClientLost' = ClientLost
  BY RelayTypes DEF RelayInv, CliWire, HeldCli, UpPumpRecv, ClientLost
<1>1. UpWire'
  BY UpWireKept DEF UpPumpRecv, captureVars, UpstreamLost
<1>2. CASE /\ UpReadable
           /\ upRead' = upRead + 1
           /\ umsg' = srvSent[upRead + 1]
           /\ upc' = "write"
           /\ UNCHANGED errCount
  <2>1. HeldCli' = 1
    BY <1>2 DEF HeldCli
  <2>2. /\ Len(cliGot') + HeldCli' <= upRead'
        /\ (~ClientLost' => Len(cliGot') + HeldCli' = upRead')
        /\ (upc' = "write" => umsg' = srvSent'[upRead'])
    BY <1>0, <1>2, <2>1
  <2>3. QED BY <1>0, <1>1, <2>2 DEF RelayInv, CliWire, AgreeUpTo
<1>3. CASE UpReadFails /\ UpPumpExit /\ UNCHANGED <<upRead, umsg>>
  <2>1. HeldCli' = 0 /\ upc' = "exit"
    BY <1>3 DEF HeldCli, UpPumpExit
  <2>2. /\ Len(cliGot') + HeldCli' <= upRead'
        /\ (~ClientLost' => Len(cliGot') + HeldCli' = upRead')
    BY <1>0, <1>3, <2>1
  <2>3. QED BY <1>0, <1>1, <2>1, <2>2 DEF RelayInv, CliWire, AgreeUpTo
<1>4. QED BY <1>2, <1>3 DEF UpPumpRecv

(* relayUpstreamToClient writes the message it holds to the client.       *)
LEMMA UpPumpWriteStep ==
    ASSUME RelayInv, ConnInv', UpPumpWrite
    PROVE  UpWire' /\ CliWire'
<1>0. /\ upc = "write" /\ upc' \in {"top", "exit"}
      /\ UNCHANGED <<srvSent, upRead, umsg, clientConnClosed, cliEOF>>
      /\ cliGot' = IF ~ClientLost THEN Append(cliGot, umsg) ELSE cliGot
  BY DEF UpPumpWrite, UpPumpExit, WriteCli, ClientLost
<1>1. UpWire'
  BY UpWireKept DEF UpPumpWrite, captureVars, UpstreamLost
<1>2. /\ cliGot \in Seq(BackendMsgs) /\ umsg \in BackendMsgs /\ Len(cliGot) \in Nat
      /\ upRead \in Nat
      /\ Len(cliGot) + 1 <= upRead /\ AgreeUpTo(cliGot, srvSent, Len(cliGot))
      /\ umsg = srvSent[upRead]
      /\ (~ClientLost => Len(cliGot) + 1 = upRead)
  BY <1>0, RelayTypes, ConnInvParts DEF RelayInv, CliWire, HeldCli
<1>3. ClientLost' = ClientLost /\ HeldCli' = 0 /\ ~(upc' = "write")
  BY <1>0 DEF ClientLost, HeldCli
<1>4. CASE ~ClientLost
  <2>1. /\ Len(cliGot') = upRead
        /\ AgreeUpTo(cliGot', srvSent', Len(cliGot'))
    BY <1>0, <1>2, <1>4, AppendProperties DEF AgreeUpTo
  <2>2. QED BY <1>0, <1>1, <1>3, <1>4, <2>1 DEF CliWire
<1>5. CASE ClientLost
  <2>1. cliGot' = cliGot
    BY <1>0, <1>5
  <2>2. AgreeUpTo(cliGot', srvSent', Len(cliGot'))
    BY <1>0, <1>2, <2>1
  <2>3. Len(cliGot') + HeldCli' <= upRead'
    BY <1>0, <1>2, <1>3, <2>1
  <2>4. ~ClientLost' => Len(cliGot') + HeldCli' = upRead'
    BY <1>3, <1>5
  <2>5. QED BY <1>1, <1>3, <2>2, <2>3, <2>4 DEF CliWire
<1>6. QED BY <1>4, <1>5

(* Every step keeps the relay invariant.                                  *)
LEMMA RelayStep == RelayInv /\ [ConnNext]_vars => RelayInv'
<1> SUFFICES ASSUME RelayInv, [ConnNext]_vars PROVE RelayInv'
  OBVIOUS
<1>1. ConnInv'
  BY ConnStep DEF RelayInv
<1>2. UpWire' /\ CliWire'
  <2>1. CASE ProxyNext
    BY <1>1, <2>1, RelayStartupStep, RelayAuthStep, EnvStep, PumpTopStep,
       ClientPumpRecvStep, ClientPumpWriteStep, UpPumpRecvStep, UpPumpWriteStep
       DEF ProxyNext
  <2>2. CASE ServerNext \/ ServerHangUp
    BY <1>1, <2>2, PeerWriteStep, EnvStep DEF ServerNext
  <2>3. CASE ClientAnswerAuth \/ (\E m \in ClientMsgs : ClientSend(m)) \/ ClientHangUp
    BY <1>1, <2>3, PeerWriteStep, EnvStep
  <2>4. CASE Cancel \/ SubscriberRead \/ UNCHANGED vars
    BY <1>1, <2>4, EnvStep
  <2>5. QED BY <2>1, <2>2, <2>3, <2>4 DEF ConnNext
<1>3. QED BY <1>1, <1>2 DEF RelayInv

(* Transparency, for every set of texts, statement names, authentication *)
(* modes, hang-ups and bound on the client's messages: the server gets    *)
(* the client's messages in order, each once, and the client the         *)
(* server's; relayStartup and the pumps never reorder, repeat, drop from  *)
(* the middle or invent a message, and captureClientMsg sees exactly the  *)
(* messages after the startup message that the proxy read, in order.       *)
THEOREM RelayTransparent == ConnSpec => []RelayInOrder
<1>1. RelayInv => RelayInOrder
  BY RelayInvProperties
<1>2. QED BY <1>1, RelayInitInv, RelayStep, PTL DEF ConnSpec

(* The capture runs ahead of the server by at most the message the client *)
(* pump holds (conn.go:140 captures before encodeAndWrite), and by more   *)
(* only after the upstream connection was lost: an event describes a     *)
(* message the server never receives only when the write was cut off.    *)
THEOREM CaptureAheadBound == ConnSpec => []CaptureAhead
<1>1. RelayInv => CaptureAhead
  BY RelayInvProperties
<1>2. QED BY <1>1, RelayInitInv, RelayStep, PTL DEF ConnSpec

=============================================================================
