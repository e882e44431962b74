--------------------------- MODULE PgCaptureProofs ---------------------------
(***************************************************************************)
(* Proofs about the capture state of one connection (PgCapture): type     *)
(* correctness, and that the events on the channel are always a           *)
(* subsequence, in order, of the events the handlers built.               *)
(***************************************************************************)
EXTENDS PgCapture, SequenceTheorems, TLAPS

(* Every client message the model can capture has the fields its handler  *)
(* reads, of the right kind.                                              *)
LEMMA ClientMsgFields ==
    ASSUME NEW m \in ClientMsgs
    PROVE  /\ m.type = "Query" => m.text \in Texts
           /\ m.type = "Parse" => m.name \in StmtNames /\ m.text \in Texts
           /\ m.type = "Bind" => m.stmt \in StmtNames /\ m.args \in ArgLists
           /\ m.type \in {"Query", "Parse", "Bind", "Execute", "Other"}
BY DEF ClientMsgs, QueryMsg, ParseMsg, BindMsg, ExecuteMsg, OtherMsg

(* detectTx keeps the transaction id and the UUID count natural numbers.  *)
LEMMA DetectTxType ==
    ASSUME NEW q, activeTxID \in Nat, txSeq \in Nat, DetectTx(q)
    PROVE  activeTxID' \in Nat /\ txSeq' \in Nat
BY DEF DetectTx, NoTx

(* emitEvent appends a well-typed event to the log, and to the channel    *)
(* only while the channel has room.                                       *)
LEMMA EmitEventType ==
    ASSUME NEW ev \in Events, TypeOK, EmitEvent(ev)
    PROVE  /\ events' \in Seq(Events) /\ Len(events') <= Cap
           /\ log' \in Seq([ev : Events, at : Nat])
<1>1. [ev |-> ev, at |-> Len(msgs) + 1] \in [ev : Events, at : Nat]
  BY DEF TypeOK
<1>2. log' \in Seq([ev : Events, at : Nat])
  BY <1>1, AppendProperties DEF EmitEvent, TypeOK
<1>3. CASE Len(events) < Cap /\ events' = Append(events, ev)
  BY <1>2, <1>3, CaptureAssumption DEF TypeOK
<1>4. CASE Len(events) >= Cap /\ UNCHANGED events
  BY <1>2, <1>4 DEF TypeOK
<1>5. QED BY <1>2, <1>3, <1>4 DEF EmitEvent

(* Capturing one client message preserves TypeOK.                        *)
LEMMA CaptureMsgType ==
    ASSUME TypeOK, NEW m \in ClientMsgs, CaptureClientMsg(m)
    PROVE  TypeOK'
<1>0. msgs' \in Seq(ClientMsgs)
  BY AppendProperties DEF CaptureClientMsg, TypeOK
<1>1. CASE m.type = "Query" /\ HandleSimpleQuery(m.text)
  <2>1. activeTxID' \in Nat /\ txSeq' \in Nat
    BY <1>1, DetectTxType DEF HandleSimpleQuery, TypeOK
  <2>2. NewEvent("Query", m.text, <<>>) \in Events
    BY <1>1, <2>1, ClientMsgFields DEF NewEvent, Events, TypeOK
  <2>3. /\ events' \in Seq(Events) /\ Len(events') <= Cap
        /\ log' \in Seq([ev : Events, at : Nat])
    BY <1>1, <2>2, EmitEventType DEF HandleSimpleQuery
  <2>4. QED BY <1>0, <1>1, <2>1, <2>3 DEF HandleSimpleQuery, TypeOK, trackVars
<1>2. CASE m.type = "Parse" /\ HandleParse(m.name, m.text)
  <2>1. m.name \in StmtNames /\ m.text \in Texts
    BY <1>2, ClientMsgFields
  <2>2. /\ DOMAIN preparedStmts' \subseteq StmtNames \ {Unnamed}
        /\ \A x \in DOMAIN preparedStmts' : preparedStmts'[x] \in Texts
    BY <1>2, <2>1 DEF HandleParse, TypeOK
  <2>3. QED BY <1>0, <1>2, <2>1, <2>2 DEF HandleParse, TypeOK
<1>3. CASE m.type = "Bind" /\ HandleBind(m.stmt, m.args)
  BY <1>0, <1>3, ClientMsgFields DEF HandleBind, TypeOK
<1>4. CASE m.type = "Execute" /\ HandleExecute
  <2>1. activeTxID' \in Nat /\ txSeq' \in Nat
    BY <1>4, DetectTxType DEF HandleExecute, TypeOK
  <2>2. ExecuteQuery \in Texts \cup {EmptyText}
    BY DEF ExecuteQuery, TypeOK
  <2>3. NewEvent("Execute", ExecuteQuery, lastBindArgs) \in Events
    BY <2>1, <2>2 DEF NewEvent, Events, TypeOK
  <2>4. /\ events' \in Seq(Events) /\ Len(events') <= Cap
        /\ log' \in Seq([ev : Events, at : Nat])
    BY <1>4, <2>3, EmitEventType DEF HandleExecute
  <2>5. QED BY <1>0, <1>4, <2>1, <2>4 DEF HandleExecute, TypeOK, trackVars
<1>5. CASE m.type = "Other" /\ UNCHANGED <<trackVars, activeTxID, nextID, events, txSeq, log>>
  BY <1>0, <1>5 DEF TypeOK, trackVars
<1>6. QED BY <1>1, <1>2, <1>3, <1>4, <1>5 DEF CaptureClientMsg

(* Every step of the connection, and every stutter, preserves TypeOK.     *)
LEMMA TypeStep == TypeOK /\ [Next]_captureVars => TypeOK'
<1> SUFFICES ASSUME TypeOK, [Next]_captureVars PROVE TypeOK'
  OBVIOUS
<1>1. ASSUME NEW m \in ClientMsgs, CaptureClientMsg(m) PROVE TypeOK'
  BY <1>1, CaptureMsgType
<1>2. CASE Subscriber
  <2>1. Tail(events) \in Seq(Events) /\ Len(Tail(events)) <= Cap
    <3>1. events \in Seq(Events) /\ events # << >> /\ Len(events) <= Cap
      BY <1>2 DEF Subscriber, TypeOK
    <3>2. Tail(events) \in Seq(Events) /\ Len(Tail(events)) = Len(events) - 1
      BY <3>1, HeadTailProperties
    <3>3. Len(events) \in Nat
      BY <3>1, LenProperties
    <3>4. Len(Tail(events)) <= Cap
      BY <3>1, <3>2, <3>3, CaptureAssumption
    <3>5. QED BY <3>2, <3>4
  <2>2. QED BY <1>2, <2>1 DEF Subscriber, TypeOK, trackVars
<1>3. CASE UNCHANGED captureVars
  BY <1>3 DEF TypeOK, captureVars, trackVars
<1>4. QED BY <1>1, <1>2, <1>3 DEF Next

(* Type correctness of the capture state.                                 *)
THEOREM TypeCorrect == Spec => []TypeOK
<1>1. Init => TypeOK
  BY CaptureAssumption DEF Init, TypeOK, EmptyText, NoTx
<1>2. QED BY <1>1, TypeStep, PTL DEF Spec

-----------------------------------------------------------------------------
(* EventsInEmissionOrder is not inductive by itself: it needs the counter *)
(* behind generateID to equal the number of events built, and every event *)
(* on the channel to name one of them.                                    *)
OrderInv ==
    /\ TypeOK
    /\ nextID = Len(log)
    /\ \A i \in 1..Len(events) : events[i].id \in 1..Len(log)
    /\ EventsInEmissionOrder

(* Building and emitting the event with the next id preserves OrderInv's  *)
(* ordering conjuncts, whether the channel takes it or drops it.          *)
LEMMA EmitEventOrder ==
    ASSUME OrderInv, NEW ev \in Events, ev.id = nextID + 1,
           EmitEvent(ev), nextID' = nextID + 1
    PROVE  /\ nextID' = Len(log')
           /\ \A i \in 1..Len(events') : events'[i].id \in 1..Len(log')
           /\ EventsInEmissionOrder'
<1> USE DEF OrderInv, TypeOK
<1>1. /\ log' \in Seq([ev : Events, at : Nat])
      /\ Len(log') = Len(log) + 1
      /\ \A i \in 1..Len(log) : log'[i] = log[i]
      /\ log'[Len(log) + 1].ev = ev
  BY DEF EmitEvent
<1>2. nextID' = Len(log')
  BY <1>1
<1>3. \A i \in 1..Len(log') : log'[i].ev.id = i
  <2> SUFFICES ASSUME NEW i \in 1..Len(log') PROVE log'[i].ev.id = i
    OBVIOUS
  <2>1. CASE i \in 1..Len(log)
    BY <1>1, <2>1 DEF EventsInEmissionOrder
  <2>2. CASE i = Len(log) + 1
    BY <1>1, <2>2
  <2>3. QED BY <1>1, <2>1, <2>2
<1>4. CASE Len(events) < Cap /\ events' = Append(events, ev)
  <2>1. \A i \in 1..Len(events') : events'[i].id \in 1..Len(log')
    BY <1>1, <1>4
  <2>2. \A i \in 1..Len(events') : events'[i] = log'[events'[i].id].ev
    BY <1>1, <1>4 DEF EventsInEmissionOrder
  <2>3. \A i, j \in 1..Len(events') : i < j => events'[i].id < events'[j].id
    BY <1>1, <1>4 DEF EventsInEmissionOrder
  <2>4. QED BY <1>2, <1>3, <2>1, <2>2, <2>3 DEF EventsInEmissionOrder
<1>5. CASE Len(events) >= Cap /\ UNCHANGED events
  <2>1. \A i \in 1..Len(events') : events'[i].id \in 1..Len(log')
    BY <1>1, <1>5
  <2>2. \A i \in 1..Len(events') : events'[i] = log'[events'[i].id].ev
    BY <1>1, <1>5 DEF EventsInEmissionOrder
  <2>3. \A i, j \in 1..Len(events') : i < j => events'[i].id < events'[j].id
    BY <1>5 DEF EventsInEmissionOrder
  <2>4. QED BY <1>2, <1>3, <2>1, <2>2, <2>3 DEF EventsInEmissionOrder
<1>6. QED BY <1>4, <1>5 DEF EmitEvent

(* Event ordering (spec 8.3) holds in every reachable state: the channel  *)
(* holds a subsequence, in order, of the events built, and the n-th event *)
(* built has id n.                                                        *)
THEOREM EventOrderInvariant == Spec => []EventsInEmissionOrder
<1>1. Init => OrderInv
  BY CaptureAssumption DEF Init, OrderInv, TypeOK, EventsInEmissionOrder, EmptyText, NoTx
<1>2. OrderInv /\ [Next]_captureVars => OrderInv'
  <2> SUFFICES ASSUME OrderInv, [Next]_captureVars PROVE OrderInv'
    OBVIOUS
  <2>0. TypeOK'
    BY TypeStep DEF OrderInv
  <2>1. ASSUME NEW m \in ClientMsgs, CaptureClientMsg(m) PROVE OrderInv'
    <3>1. CASE m.type = "Query" /\ HandleSimpleQuery(m.text)
      <4>1. NewEvent("Query", m.text, <<>>) \in Events
        BY <3>1, ClientMsgFields, DetectTxType DEF HandleSimpleQuery, NewEvent, Events, OrderInv, TypeOK
      <4>2. QED BY <2>0, <3>1, <4>1, EmitEventOrder DEF HandleSimpleQuery, NewEvent, OrderInv
    <3>2. CASE m.type = "Execute" /\ HandleExecute
      <4>1. NewEvent("Execute", ExecuteQuery, lastBindArgs) \in Events
        BY <3>2, DetectTxType DEF HandleExecute, ExecuteQuery, NewEvent, Events, OrderInv, TypeOK
      <4>2. QED BY <2>0, <3>2, <4>1, EmitEventOrder DEF HandleExecute, NewEvent, OrderInv
    <3>3. CASE m.type \in {"Parse", "Bind", "Other"}
      <4>1. UNCHANGED <<nextID, events, log>>
        BY <2>1, <3>3 DEF CaptureClientMsg, HandleParse, HandleBind
      <4>2. QED BY <2>0, <4>1 DEF OrderInv, EventsInEmissionOrder
    <3>4. QED BY <2>1, <3>1, <3>2, <3>3, ClientMsgFields DEF CaptureClientMsg
  <2>2. CASE Subscriber
    <3>1. /\ events \in Seq(Events) /\ events # << >>
          /\ events' = Tail(events)
          /\ UNCHANGED <<nextID, log>>
      BY <2>2 DEF Subscriber, OrderInv, TypeOK
    <3>2. /\ Len(events') = Len(events) - 1
          /\ \A i \in 1..Len(events') : events'[i] = events[i + 1]
      BY <3>1, HeadTailProperties
    <3>3. QED BY <2>0, <3>1, <3>2 DEF OrderInv, EventsInEmissionOrder
  <2>3. CASE UNCHANGED captureVars
    BY <2>0, <2>3 DEF OrderInv, EventsInEmissionOrder, captureVars
  <2>4. QED BY <2>1, <2>2, <2>3 DEF Next
<1>3. QED BY <1>1, <1>2, PTL DEF Spec, OrderInv

-----------------------------------------------------------------------------
(* The ids of a sequence of events, as StreamIds reads them off the       *)
(* channel, follow an Append and a Tail of the channel.                   *)
LEMMA IdsAppend ==
    ASSUME NEW s \in Seq(Events), NEW e \in Events
    PROVE  [i \in 1..Len(Append(s, e)) |-> Append(s, e)[i].id]
             = Append([i \in 1..Len(s) |-> s[i].id], e.id)
BY AppendProperties

LEMMA IdsTail ==
    ASSUME NEW s \in Seq(Events), s # << >>
    PROVE  [i \in 1..Len(Tail(s)) |-> Tail(s)[i].id]
             = Tail([i \in 1..Len(s) |-> s[i].id])
<1>1. Len(Tail(s)) = Len(s) - 1 /\ \A i \in 1..Len(Tail(s)) : Tail(s)[i] = s[i + 1]
  BY HeadTailProperties
<1>2. Len(s) \in Nat \ {0}
  BY EmptySeq, LenProperties
<1> DEFINE ids == [i \in 1..Len(s) |-> s[i].id]
<1>3. \A i \in 1..Len(s) : s[i].id \in Nat
  <2> SUFFICES ASSUME NEW i \in 1..Len(s) PROVE s[i].id \in Nat
    OBVIOUS
  <2>1. s[i] \in Events
    BY ElementOfSeq
  <2>2. QED BY <2>1 DEF Events
<1>7. ids \in Seq(Nat) /\ Len(ids) = Len(s)
  BY <1>2, <1>3
<1>8. ids # << >>
  BY <1>2, <1>7, EmptySeq
<1>4. Len(Tail(ids)) = Len(ids) - 1 /\ \A i \in 1..Len(Tail(ids)) : Tail(ids)[i] = ids[i + 1]
  BY <1>7, <1>8, HeadTailProperties
<1>5. Tail(ids) \in Seq(Nat)
  BY <1>7, <1>8, HeadTailProperties
<1>6. QED BY <1>1, <1>2, <1>7, <1>4, <1>5

(* emitEvent of the event generateID numbered is a Produce of the stream: *)
(* the channel takes it while it has room and drops it only when full.    *)
LEMMA EmitEventProduces ==
    ASSUME TypeOK, NEW ev \in Events, ev.id = nextID + 1,
           EmitEvent(ev), nextID' = nextID + 1
    PROVE  Stream!Produce
<1>1. Len(StreamIds) = Len(events)
  BY DEF StreamIds, TypeOK
<1>2. CASE Len(events) < Cap /\ events' = Append(events, ev)
  <2>1. StreamIds' = Append(StreamIds, nextID + 1)
    BY <1>2, IdsAppend DEF StreamIds, TypeOK
  <2>2. QED BY <1>1, <1>2, <2>1 DEF Stream!Produce
<1>3. CASE Len(events) >= Cap /\ UNCHANGED events
  BY <1>1, <1>3 DEF Stream!Produce, StreamIds
<1>4. QED BY <1>2, <1>3 DEF EmitEvent

(* The capture of a connection implements EventStream under the mapping   *)
(* n <- nextID, chan <- StreamIds: handleSimpleQuery and handleExecute    *)
(* produce, Parse, Bind and every other message stutter, the subscriber   *)
(* consumes.                                                              *)
THEOREM CaptureRefinesStream == Spec => ImplementsEventStream
<1>1. Init => Stream!Init
  BY DEF Init, Stream!Init, StreamIds
<1>2. TypeOK /\ [Next]_captureVars => [Stream!Next]_<<nextID, StreamIds>>
  <2> SUFFICES ASSUME TypeOK, [Next]_captureVars
               PROVE  [Stream!Next]_<<nextID, StreamIds>>
    OBVIOUS
  <2>1. ASSUME NEW m \in ClientMsgs, CaptureClientMsg(m)
        PROVE  [Stream!Next]_<<nextID, StreamIds>>
    <3>1. CASE m.type = "Query" /\ HandleSimpleQuery(m.text)
      <4>1. NewEvent("Query", m.text, <<>>) \in Events
        BY <3>1, ClientMsgFields, DetectTxType DEF HandleSimpleQuery, NewEvent, Events, TypeOK
      <4>2. Stream!Produce
        BY <3>1, <4>1, EmitEventProduces DEF HandleSimpleQuery, NewEvent
      <4>3. QED BY <4>2 DEF Stream!Next
    <3>2. CASE m.type = "Execute" /\ HandleExecute
      <4>1. NewEvent("Execute", ExecuteQuery, lastBindArgs) \in Events
        BY <3>2, DetectTxType DEF HandleExecute, ExecuteQuery, NewEvent, Events, TypeOK
      <4>2. Stream!Produce
        BY <3>2, <4>1, EmitEventProduces DEF HandleExecute, NewEvent
      <4>3. QED BY <4>2 DEF Stream!Next
    <3>3. CASE m.type \in {"Parse", "Bind", "Other"}
      <4>1. UNCHANGED <<nextID, events>>
        BY <2>1, <3>3 DEF CaptureClientMsg, HandleParse, HandleBind
      <4>2. QED BY <4>1 DEF StreamIds
    <3>4. QED BY <2>1, <3>1, <3>2, <3>3, ClientMsgFields DEF CaptureClientMsg
  <2>2. CASE Subscriber
    <3>1. events \in Seq(Events) /\ events # << >> /\ events' = Tail(events)
      BY <2>2 DEF Subscriber, TypeOK
    <3>2. StreamIds' = Tail(StreamIds)
      BY <3>1, IdsTail DEF StreamIds
    <3>3. StreamIds # << >>
      BY <3>1, EmptySeq, LenProperties DEF StreamIds
    <3>4. QED BY <2>2, <3>2, <3>3 DEF Subscriber, Stream!Next, Stream!Consume
  <2>3. CASE UNCHANGED captureVars
    BY <2>3 DEF captureVars, StreamIds
  <2>4. QED BY <2>1, <2>2, <2>3 DEF Next
<1>3. QED BY <1>1, <1>2, TypeCorrect, PTL DEF Spec, ImplementsEventStream, Stream!Spec


-----------------------------------------------------------------------------
(* Transaction correlation.  An event opens or closes a transaction when  *)
(* its text does.                                                         *)
IsTxMark(r) == IsBegin(r.ev.query) \/ IsEnd(r.ev.query)

(* TxCorrelation is not inductive by itself.  detectTx reads and writes   *)
(* activeTxID, so the id must be what the log says it is: no id when the  *)
(* latest marking event is none or a COMMIT / ROLLBACK, the id of that    *)
(* BEGIN otherwise.  A fresh BEGIN must differ from every id already in   *)
(* the log, so every id is at most the number of UUIDs generated, and a   *)
(* BEGIN carries one.  LastTxMark(i) names a marking event at or before i.*)
TxInv ==
    /\ TypeOK
    /\ \A i \in 0..Len(log) :
         LastTxMark(i) # 0 => LastTxMark(i) \in 1..i /\ IsTxMark(log[LastTxMark(i)])
    /\ LET k == LastTxMark(Len(log))
       IN activeTxID = IF k = 0 \/ IsEnd(log[k].ev.query) THEN NoTx ELSE log[k].ev.tx
    /\ activeTxID <= txSeq
    /\ \A i \in 1..Len(log) : log[i].ev.tx <= txSeq
    /\ \A i \in 1..Len(log) : IsBegin(log[i].ev.query) => log[i].ev.tx # NoTx
    /\ TxCorrelation

(* Appending an event to the log leaves the latest marking event at or    *)
(* before every earlier position where it was.                            *)
LEMMA MarkAppendOld ==
    ASSUME log \in Seq([ev : Events, at : Nat]), NEW r,
           log' = Append(log, r), NEW i \in 0..Len(log)
    PROVE  LastTxMark(i)' = LastTxMark(i)
<1>1. {k \in 1..i : IsTxMark(log'[k])} = {k \in 1..i : IsTxMark(log[k])}
  BY AppendProperties
<1>2. QED BY <1>1 DEF LastTxMark, SelectLastInSubSeq, IsTxMark

(* At the appended position, the latest marking event is the new one     *)
(* when it marks, and the latest one before it otherwise.                 *)
LEMMA MarkAppendNew ==
    ASSUME log \in Seq([ev : Events, at : Nat]), NEW r,
           log' = Append(log, r), NEW n, n = Len(log)
    PROVE  LastTxMark(n + 1)' = IF IsTxMark(r) THEN n + 1 ELSE LastTxMark(n)
<1> DEFINE S == {k \in 1..n : IsTxMark(log[k])}
           S1 == {k \in 1..n + 1 : IsTxMark(log'[k])}
<1>1. n \in Nat /\ log'[n + 1] = r /\ \A k \in 1..n : log'[k] = log[k]
  BY AppendProperties
<1>2. LastTxMark(n + 1)' = IF S1 # {} THEN Max(S1) ELSE 0
  BY DEF LastTxMark, SelectLastInSubSeq, IsTxMark, S, S1
<1>3. LastTxMark(n) = IF S # {} THEN Max(S) ELSE 0
  BY DEF LastTxMark, SelectLastInSubSeq, IsTxMark, S, S1
<1>4. CASE IsTxMark(r)
  <2>1. S1 = S \cup {n + 1}
    BY <1>1, <1>4
  <2>2. \A x \in S1 : (\A y \in S1 : x >= y) <=> x = n + 1
    BY <1>1, <2>1
  <2>3. Max(S1) = n + 1
    BY <2>1, <2>2 DEF Max
  <2>4. QED BY <1>2, <1>4, <2>1, <2>3
<1>5. CASE ~IsTxMark(r)
  <2>1. S1 = S
    BY <1>1, <1>5
  <2>2. QED BY <1>2, <1>3, <1>5, <2>1
<1>6. QED BY <1>4, <1>5

(* A handler step that runs detectTx on text q and emits an event on q    *)
(* with the id detectTx leaves preserves TxInv.                           *)
LEMMA TxEmit ==
    ASSUME TxInv, TypeOK', NEW q, NEW e, e.query = q, e.tx = activeTxID',
           DetectTx(q), log' = Append(log, [ev |-> e, at |-> Len(msgs) + 1])
    PROVE  TxInv'
<1>0. PICK n \in Nat : n = Len(log)
  BY DEF TxInv, TypeOK
<1> DEFINE k == LastTxMark(n)
           kn == LastTxMark(n + 1)'
           r == [ev |-> e, at |-> Len(msgs) + 1]
<1>a. log \in Seq([ev : Events, at : Nat]) /\ txSeq \in Nat /\ activeTxID \in Nat
  BY DEF TxInv, TypeOK
<1>b. \A i \in 0..n : LastTxMark(i) # 0 => LastTxMark(i) \in 1..i /\ IsTxMark(log[LastTxMark(i)])
  BY <1>0 DEF TxInv
<1>c. activeTxID = IF k = 0 \/ IsEnd(log[k].ev.query) THEN NoTx ELSE log[k].ev.tx
  BY <1>0 DEF TxInv
<1>d. activeTxID <= txSeq /\ \A i \in 1..n : log[i].ev.tx <= txSeq
  BY <1>0 DEF TxInv
<1>e. \A i \in 1..n : IsBegin(log[i].ev.query) => log[i].ev.tx # NoTx
  BY <1>0 DEF TxInv
<1>1. /\ Len(log') = n + 1
      /\ \A j \in 1..n : log'[j] = log[j]
      /\ log'[n + 1] = r
  BY <1>0, <1>a, AppendProperties
<1>2. \A i \in 0..n : LastTxMark(i)' = LastTxMark(i)
  BY <1>0, <1>a, MarkAppendOld
<1>3. kn = IF IsTxMark(r) THEN n + 1 ELSE k
  BY <1>0, <1>a, MarkAppendNew
<1>4. \A j \in 1..n : log[j].ev.tx \in Nat
  <2>1. \A j \in 1..n : log[j] \in [ev : Events, at : Nat]
    BY <1>0, <1>a, ElementOfSeq
  <2>2. QED BY <2>1 DEF Events
<1>5. IsTxMark(r) <=> IsBegin(q) \/ IsEnd(q)
  BY DEF IsTxMark
<1>6. k # 0 => k \in 1..n /\ IsTxMark(log[k])
  BY <1>b
<1>7. \A i \in 1..n :
        ~IsEnd(log[i].ev.query) =>
          IF LastTxMark(i) = 0 \/ IsEnd(log[LastTxMark(i)].ev.query)
          THEN log[i].ev.tx = NoTx
          ELSE log[i].ev.tx = log[LastTxMark(i)].ev.tx /\ log[i].ev.tx # NoTx
  BY <1>0 DEF TxInv, TxCorrelation
(* The marking-event conjunct, for positions before the new event and at  *)
(* it.                                                                    *)
<1>8. \A i \in 0..n + 1 :
        LastTxMark(i)' # 0 => LastTxMark(i)' \in 1..i /\ IsTxMark(log'[LastTxMark(i)'])
  <2> SUFFICES ASSUME NEW i \in 0..n + 1, LastTxMark(i)' # 0
               PROVE  LastTxMark(i)' \in 1..i /\ IsTxMark(log'[LastTxMark(i)'])
    OBVIOUS
  <2>1. CASE i \in 0..n
    <3>1. LastTxMark(i) \in 1..i /\ IsTxMark(log[LastTxMark(i)])
      BY <1>b, <1>2, <2>1
    <3>2. QED BY <1>1, <1>2, <2>1, <3>1
  <2>2. CASE i = n + 1
    <3>1. CASE IsTxMark(r)
      BY <1>1, <1>3, <2>2, <3>1
    <3>2. CASE ~IsTxMark(r)
      BY <1>1, <1>3, <1>6, <2>2, <3>2
    <3>3. QED BY <3>1, <3>2
  <2>3. QED BY <1>0, <2>1, <2>2
(* Earlier events keep their correlation: their latest marking event is  *)
(* unchanged and lies before the new event.                               *)
<1>9. \A i \in 1..n :
        ~IsEnd(log'[i].ev.query) =>
          IF LastTxMark(i)' = 0 \/ IsEnd(log'[LastTxMark(i)'].ev.query)
          THEN log'[i].ev.tx = NoTx
          ELSE log'[i].ev.tx = log'[LastTxMark(i)'].ev.tx /\ log'[i].ev.tx # NoTx
  <2> SUFFICES ASSUME NEW i \in 1..n, ~IsEnd(log'[i].ev.query)
               PROVE  IF LastTxMark(i)' = 0 \/ IsEnd(log'[LastTxMark(i)'].ev.query)
                      THEN log'[i].ev.tx = NoTx
                      ELSE log'[i].ev.tx = log'[LastTxMark(i)'].ev.tx /\ log'[i].ev.tx # NoTx
    OBVIOUS
  <2>1. LastTxMark(i)' = LastTxMark(i) /\ (LastTxMark(i) # 0 => LastTxMark(i) \in 1..n)
    BY <1>b, <1>2
  <2>2. QED BY <1>1, <1>7, <2>1
(* The three outcomes of detectTx.                                        *)
<1>10. /\ kn = 0 \/ IsEnd(log'[kn].ev.query) => activeTxID' = NoTx
       /\ ~(kn = 0 \/ IsEnd(log'[kn].ev.query)) => activeTxID' = log'[kn].ev.tx /\ activeTxID' # NoTx
       /\ activeTxID' <= txSeq' /\ txSeq <= txSeq' /\ txSeq' \in Nat
       /\ IsBegin(q) => activeTxID' # NoTx /\ activeTxID' > txSeq
  <2>1. CASE IsBegin(q) /\ txSeq' = txSeq + 1 /\ activeTxID' = txSeq + 1
    <3>1. ~IsEnd(q)
      BY <2>1 DEF IsEnd
    <3>2. kn = n + 1
      BY <1>3, <1>5, <2>1
    <3>3. QED BY <1>0, <1>1, <1>a, <2>1, <3>1, <3>2 DEF NoTx, r
  <2>2. CASE IsEnd(q) /\ activeTxID' = NoTx /\ UNCHANGED txSeq
    <3>1. ~IsBegin(q)
      BY <2>2 DEF IsEnd
    <3>2. kn = n + 1
      BY <1>3, <1>5, <2>2
    <3>3. QED BY <1>0, <1>1, <1>a, <1>d, <2>2, <3>1, <3>2 DEF NoTx, r
  <2>3. CASE ~IsBegin(q) /\ ~IsEnd(q) /\ UNCHANGED <<activeTxID, txSeq>>
    <3>1. kn = k
      BY <1>3, <1>5, <2>3
    <3>2. k # 0 /\ ~IsEnd(log[k].ev.query) => log[k].ev.tx # NoTx
      BY <1>6, <1>e DEF IsTxMark
    <3>3. k # 0 => log'[k] = log[k]
      BY <1>1, <1>6
    <3>4. kn = 0 \/ IsEnd(log'[kn].ev.query) => activeTxID' = NoTx
      BY <1>c, <2>3, <3>1, <3>3
    <3>5. ~(kn = 0 \/ IsEnd(log'[kn].ev.query)) => activeTxID' = log'[kn].ev.tx /\ activeTxID' # NoTx
      BY <1>c, <2>3, <3>1, <3>2, <3>3
    <3>6. activeTxID' <= txSeq' /\ txSeq <= txSeq' /\ txSeq' \in Nat
      BY <1>a, <1>d, <2>3
    <3>7. QED BY <2>3, <3>4, <3>5, <3>6
  <2>4. QED BY <2>1, <2>2, <2>3 DEF DetectTx
(* The new event.                                                         *)
<1>n. log'[n + 1].ev.tx = activeTxID' /\ log'[n + 1].ev.query = q
  BY <1>1 DEF r
<1>11. ~IsEnd(log'[n + 1].ev.query) =>
         IF kn = 0 \/ IsEnd(log'[kn].ev.query)
         THEN log'[n + 1].ev.tx = NoTx
         ELSE log'[n + 1].ev.tx = log'[kn].ev.tx /\ log'[n + 1].ev.tx # NoTx
  BY <1>n, <1>10
<1>12. \A i \in 1..n + 1 : log'[i].ev.tx <= txSeq'
  BY <1>1, <1>a, <1>d, <1>4, <1>10 DEF r
<1>13. \A i \in 1..n + 1 : IsBegin(log'[i].ev.query) => log'[i].ev.tx # NoTx
  BY <1>1, <1>e, <1>10 DEF r
<1>14. \A i, j \in 1..n + 1 :
         i # j /\ IsBegin(log'[i].ev.query) /\ IsBegin(log'[j].ev.query)
           => log'[i].ev.tx # log'[j].ev.tx
  <2>1. \A i, j \in 1..n :
          i # j /\ IsBegin(log[i].ev.query) /\ IsBegin(log[j].ev.query)
            => log[i].ev.tx # log[j].ev.tx
    BY <1>0 DEF TxInv, TxCorrelation
  <2>2. QED BY <1>0, <1>1, <1>a, <1>d, <1>4, <1>10, <2>1 DEF r
<1>15. TxCorrelation'
  <2>1. \A i \in 1..n + 1 :
          ~IsEnd(log'[i].ev.query) =>
            IF LastTxMark(i)' = 0 \/ IsEnd(log'[LastTxMark(i)'].ev.query)
            THEN log'[i].ev.tx = NoTx
            ELSE log'[i].ev.tx = log'[LastTxMark(i)'].ev.tx /\ log'[i].ev.tx # NoTx
    <3> SUFFICES ASSUME NEW i \in 1..n + 1, ~IsEnd(log'[i].ev.query)
                 PROVE  IF LastTxMark(i)' = 0 \/ IsEnd(log'[LastTxMark(i)'].ev.query)
                        THEN log'[i].ev.tx = NoTx
                        ELSE log'[i].ev.tx = log'[LastTxMark(i)'].ev.tx /\ log'[i].ev.tx # NoTx
      OBVIOUS
    <3>1. CASE i \in 1..n
      BY <1>9, <3>1
    <3>2. CASE i = n + 1
      <4>1. LastTxMark(i)' = kn
        BY <3>2
      <4>2. QED BY <1>11, <3>2, <4>1
    <3>3. i \in 1..n \/ i = n + 1
      BY <1>0
    <3>4. QED BY <3>1, <3>2, <3>3
  <2>2. QED BY <1>1, <1>14, <2>1 DEF TxCorrelation
<1>16. QED BY <1>1, <1>8, <1>10, <1>12, <1>13, <1>15 DEF TxInv

(* A step that leaves the log, the transaction id and the UUID count      *)
(* alone preserves TxInv.                                                 *)
LEMMA TxKept ==
    ASSUME TxInv, TypeOK', UNCHANGED <<log, activeTxID, txSeq>>
    PROVE  TxInv'
<1>1. ASSUME NEW i \in Nat PROVE LastTxMark(i)' = LastTxMark(i)
  <2>1. {k \in 1..i : IsTxMark(log'[k])} = {k \in 1..i : IsTxMark(log[k])}
    OBVIOUS
  <2>2. QED BY <2>1 DEF LastTxMark, SelectLastInSubSeq, IsTxMark
<1>2. Len(log) \in Nat
  BY DEF TxInv, TypeOK
<1>3. \A i \in 0..Len(log) : LastTxMark(i)' = LastTxMark(i)
  BY <1>1, <1>2
<1>4. LastTxMark(Len(log))' = LastTxMark(Len(log))
  BY <1>1, <1>2
<1>5. QED BY <1>3, <1>4 DEF TxInv, TxCorrelation

(* Transaction correlation (spec 8.4) holds in every reachable state, for *)
(* every set of texts and every bound: detectTx, run by handleSimpleQuery *)
(* and handleExecute on the text of the event they emit, gives an event   *)
(* the id of the BEGIN still open before it and no id when none is, and   *)
(* every BEGIN a fresh id.                                                *)
THEOREM TxCorrelationInvariant == Spec => []TxCorrelation
<1>1. Init => TxInv
  <2> SUFFICES ASSUME Init PROVE TxInv
    OBVIOUS
  <2>1. LastTxMark(0) = 0
    BY DEF LastTxMark, SelectLastInSubSeq
  <2>2. TypeOK
    BY CaptureAssumption DEF Init, TypeOK, EmptyText, NoTx
  <2>3. QED BY <2>1, <2>2 DEF Init, TxInv, TxCorrelation, NoTx
<1>2. TxInv /\ [Next]_captureVars => TxInv'
  <2> SUFFICES ASSUME TxInv, [Next]_captureVars PROVE TxInv'
    OBVIOUS
  <2>0. TypeOK'
    BY TypeStep DEF TxInv
  <2>1. ASSUME NEW m \in ClientMsgs, CaptureClientMsg(m) PROVE TxInv'
    <3>1. CASE m.type = "Query" /\ HandleSimpleQuery(m.text)
      <4> DEFINE e == NewEvent("Query", m.text, <<>>)
      <4>1. e.query = m.text /\ e.tx = activeTxID'
        BY DEF NewEvent
      <4>2. DetectTx(m.text) /\ log' = Append(log, [ev |-> e, at |-> Len(msgs) + 1])
        BY <3>1 DEF HandleSimpleQuery, EmitEvent
      <4>3. QED BY <2>0, <4>1, <4>2, TxEmit
    <3>2. CASE m.type = "Execute" /\ HandleExecute
      <4> DEFINE e == NewEvent("Execute", ExecuteQuery, lastBindArgs)
      <4>1. e.query = ExecuteQuery /\ e.tx = activeTxID'
        BY DEF NewEvent
      <4>2. DetectTx(ExecuteQuery) /\ log' = Append(log, [ev |-> e, at |-> Len(msgs) + 1])
        BY <3>2 DEF HandleExecute, EmitEvent
      <4>3. QED BY <2>0, <4>1, <4>2, TxEmit
    <3>3. CASE m.type \in {"Parse", "Bind", "Other"}
      <4>1. UNCHANGED <<log, activeTxID, txSeq>>
        BY <2>1, <3>3 DEF CaptureClientMsg, HandleParse, HandleBind
      <4>2. QED BY <2>0, <4>1, TxKept
    <3>4. QED BY <2>1, <3>1, <3>2, <3>3, ClientMsgFields DEF CaptureClientMsg
  <2>2. CASE Subscriber
    BY <2>0, <2>2, TxKept DEF Subscriber
  <2>3. CASE UNCHANGED captureVars
    BY <2>0, <2>3, TxKept DEF captureVars
  <2>4. QED BY <2>1, <2>2, <2>3 DEF Next
<1>3. QED BY <1>1, <1>2, PTL DEF Spec, TxInv

-----------------------------------------------------------------------------
(* Prepared-statement resolution.  The tests ResolvedText and             *)
(* ResolvedArgs apply to a message, as sets of messages.                  *)
BindMsgs == {m \in ClientMsgs : m.type = "Bind"}
ParseMsgs == {m \in ClientMsgs : m.type = "Parse"}
ParseOf(x) == {m \in ClientMsgs : m.type = "Parse" /\ m.name = x}
Tests == {BindMsgs, ParseMsgs} \cup {ParseOf(x) : x \in StmtNames}

(* The position of the latest message of T among the first i captured.   *)
LastOf(T, i) == SelectLastInSubSeq(msgs, 1, i, LAMBDA m : m \in T)

(* LastOf(T, i) names a message of T at or before i.                      *)
InSet(T) ==
    \A i \in 0..Len(msgs) : LastOf(T, i) # 0 => LastOf(T, i) \in 1..i /\ msgs[LastOf(T, i)] \in T

(* ResolvedText and ResolvedArgs, with their tests read as sets.         *)
RText(k) ==
    LET b == LastOf(BindMsgs, k - 1)
        s == IF b = 0 THEN Unnamed ELSE msgs[b].stmt
        np == LastOf(ParseOf(s), k - 1)
        p == LastOf(ParseMsgs, k - 1)
    IN IF s # Unnamed /\ np # 0 THEN msgs[np].text
       ELSE IF p # 0 THEN msgs[p].text ELSE EmptyText

RArgs(k) ==
    LET b == LastOf(BindMsgs, k - 1)
    IN IF b = 0 THEN <<>> ELSE msgs[b].args

(* The tracker fields handleExecute reads are what the messages captured *)
(* so far designate: the latest Parse text, the latest Bind's statement   *)
(* and parameters, and for each name the text of its latest Parse.        *)
TrackerMatches ==
    LET n == Len(msgs)
        b == LastOf(BindMsgs, n)
        p == LastOf(ParseMsgs, n)
    IN /\ lastParse = IF p = 0 THEN EmptyText ELSE msgs[p].text
       /\ lastBindStmt = IF b = 0 THEN Unnamed ELSE msgs[b].stmt
       /\ lastBindArgs = IF b = 0 THEN <<>> ELSE msgs[b].args
       /\ \A x \in StmtNames \ {Unnamed} :
            /\ x \in DOMAIN preparedStmts <=> LastOf(ParseOf(x), n) # 0
            /\ x \in DOMAIN preparedStmts =>
                 preparedStmts[x] = msgs[LastOf(ParseOf(x), n)].text

(* Every event stands for a captured message, and an Execute event        *)
(* carries RText and RArgs of its message.                                *)
EventsResolved ==
    \A i \in 1..Len(log) :
        /\ log[i].at \in 1..Len(msgs)
        /\ log[i].ev.op = "Execute" =>
             /\ log[i].ev.query = RText(log[i].at)
             /\ log[i].ev.args = RArgs(log[i].at)

(* ExecuteResolution is not inductive by itself: the tracker fields that  *)
(* handleExecute reads must be what the messages captured so far          *)
(* designate.                                                             *)
ResInv ==
    /\ TypeOK
    /\ \A T \in Tests : InSet(T)
    /\ TrackerMatches
    /\ EventsResolved

(* Capturing a message leaves the latest message of T among the first i  *)
(* where it was, for every i up to the old length.                        *)
LEMMA LastOfAppendOld ==
    ASSUME msgs \in Seq(ClientMsgs), NEW m, msgs' = Append(msgs, m),
           NEW T, NEW i \in 0..Len(msgs)
    PROVE  LastOf(T, i)' = LastOf(T, i)
<1>1. {k \in 1..i : msgs'[k] \in T} = {k \in 1..i : msgs[k] \in T}
  BY AppendProperties
<1>2. QED BY <1>1 DEF LastOf, SelectLastInSubSeq

(* Among all the messages captured, the latest of T is the new message    *)
(* when it belongs to T, and the latest before it otherwise.              *)
LEMMA LastOfAppendNew ==
    ASSUME msgs \in Seq(ClientMsgs), NEW m, msgs' = Append(msgs, m),
           NEW T, NEW n, n = Len(msgs)
    PROVE  LastOf(T, n + 1)' = IF m \in T THEN n + 1 ELSE LastOf(T, n)
<1> DEFINE S == {k \in 1..n : msgs[k] \in T}
           S1 == {k \in 1..n + 1 : msgs'[k] \in T}
<1>1. n \in Nat /\ msgs'[n + 1] = m /\ \A k \in 1..n : msgs'[k] = msgs[k]
  BY AppendProperties
<1>2. LastOf(T, n + 1)' = IF S1 # {} THEN Max(S1) ELSE 0
  BY DEF LastOf, SelectLastInSubSeq
<1>3. LastOf(T, n) = IF S # {} THEN Max(S) ELSE 0
  BY DEF LastOf, SelectLastInSubSeq
<1>4. CASE m \in T
  <2>1. S1 = S \cup {n + 1}
    BY <1>1, <1>4
  <2>2. \A x \in S1 : (\A y \in S1 : x >= y) <=> x = n + 1
    BY <1>1, <2>1
  <2>3. Max(S1) = n + 1
    BY <2>1, <2>2 DEF Max
  <2>4. QED BY <1>2, <1>4, <2>1, <2>3
<1>5. CASE m \notin T
  <2>1. S1 = S
    BY <1>1, <1>5
  <2>2. QED BY <1>2, <1>3, <1>5, <2>1
<1>6. QED BY <1>4, <1>5

(* Capturing a message keeps LastOf(T, _) naming messages of T.           *)
LEMMA InSetAppend ==
    ASSUME msgs \in Seq(ClientMsgs), NEW m, msgs' = Append(msgs, m),
           NEW T, InSet(T)
    PROVE  InSet(T)'
<1>0. PICK n \in Nat : n = Len(msgs)
  OBVIOUS
<1>1. Len(msgs') = n + 1 /\ msgs'[n + 1] = m /\ \A k \in 1..n : msgs'[k] = msgs[k]
  BY <1>0, AppendProperties
<1>2. SUFFICES ASSUME NEW i \in 0..n + 1, LastOf(T, i)' # 0
               PROVE  LastOf(T, i)' \in 1..i /\ msgs'[LastOf(T, i)'] \in T
  BY <1>1 DEF InSet
<1>3. CASE i \in 0..n
  <2>1. LastOf(T, i)' = LastOf(T, i)
    BY <1>0, <1>3, LastOfAppendOld
  <2>2. LastOf(T, i) \in 1..i /\ msgs[LastOf(T, i)] \in T
    BY <1>0, <1>2, <1>3, <2>1 DEF InSet
  <2>3. QED BY <1>0, <1>1, <1>3, <2>1, <2>2
<1>4. CASE i = n + 1
  <2>1. LastOf(T, n + 1)' = IF m \in T THEN n + 1 ELSE LastOf(T, n)
    BY <1>0, LastOfAppendNew
  <2>2. CASE m \in T
    BY <1>1, <1>4, <2>1, <2>2
  <2>3. CASE m \notin T
    <3>1. LastOf(T, n) \in 1..n /\ msgs[LastOf(T, n)] \in T
      BY <1>0, <1>2, <1>4, <2>1, <2>3 DEF InSet
    <3>2. QED BY <1>0, <1>1, <1>4, <2>1, <2>3, <3>1
  <2>4. QED BY <2>2, <2>3
<1>5. QED BY <1>0, <1>3, <1>4

(* ResolvedText and ResolvedArgs, at any position up to the next message, *)
(* are RText and RArgs.                                                   *)
LEMMA ResolvedByLastOf ==
    ASSUME msgs \in Seq(ClientMsgs), NEW k \in 1..Len(msgs) + 1
    PROVE  ResolvedText(k) = RText(k) /\ ResolvedArgs(k) = RArgs(k)
<1>1. \A j \in 1..k - 1 : msgs[j] \in ClientMsgs
  BY ElementOfSeq
<1>2. {j \in 1..k - 1 : msgs[j].type = "Bind"} = {j \in 1..k - 1 : msgs[j] \in BindMsgs}
  BY <1>1 DEF BindMsgs
<1>3. {j \in 1..k - 1 : msgs[j].type = "Parse"} = {j \in 1..k - 1 : msgs[j] \in ParseMsgs}
  BY <1>1 DEF ParseMsgs
<1>4. \A x : {j \in 1..k - 1 : msgs[j].type = "Parse" /\ msgs[j].name = x}
               = {j \in 1..k - 1 : msgs[j] \in ParseOf(x)}
  BY <1>1 DEF ParseOf
<1>5. BindBefore(k) = LastOf(BindMsgs, k - 1)
  BY <1>2 DEF BindBefore, LastOf, SelectLastInSubSeq
<1>6. ParseBefore(k) = LastOf(ParseMsgs, k - 1)
  BY <1>3 DEF ParseBefore, LastOf, SelectLastInSubSeq
<1>7. \A x : ParseOfBefore(x, k) = LastOf(ParseOf(x), k - 1)
  BY <1>4 DEF ParseOfBefore, LastOf, SelectLastInSubSeq
<1>8. ResolvedArgs(k) = RArgs(k)
  BY <1>5 DEF ResolvedArgs, RArgs
<1>9. ResolvedText(k) = RText(k)
  BY <1>5, <1>6, <1>7 DEF ResolvedText, RText
<1>10. QED BY <1>8, <1>9

(* Capturing a message leaves RText and RArgs alone at every position up  *)
(* to the new one: they read only the messages before it.                 *)
LEMMA RPrefix ==
    ASSUME msgs \in Seq(ClientMsgs), NEW m, msgs' = Append(msgs, m),
           \A T \in Tests : InSet(T), NEW k \in 1..Len(msgs) + 1
    PROVE  RText(k)' = RText(k) /\ RArgs(k)' = RArgs(k)
<1>0. PICK j \in Nat : j = k - 1 /\ j <= Len(msgs)
  OBVIOUS
<1>1. \A x \in 1..j : msgs'[x] = msgs[x]
  BY <1>0, AppendProperties
<1>2. \A T \in Tests : LastOf(T, j)' = LastOf(T, j)
  BY <1>0, LastOfAppendOld
<1>3. \A T \in Tests : LastOf(T, j) # 0 => LastOf(T, j) \in 1..j /\ msgs[LastOf(T, j)] \in T
  BY <1>0 DEF InSet
<1> DEFINE b == LastOf(BindMsgs, j)
           s == IF b = 0 THEN Unnamed ELSE msgs[b].stmt
<1>4. b' = b /\ (b # 0 => b \in 1..j /\ msgs[b] \in BindMsgs)
  BY <1>2, <1>3 DEF Tests
<1>5. s' = s /\ s \in StmtNames
  <2>1. b # 0 => msgs[b].stmt \in StmtNames
    BY <1>4, ClientMsgFields DEF BindMsgs
  <2>2. QED BY <1>1, <1>4, <2>1, CaptureAssumption
<1>6. ParseOf(s) \in Tests /\ ParseMsgs \in Tests /\ BindMsgs \in Tests
  BY <1>5 DEF Tests
<1>7. LastOf(ParseOf(s), j)' = LastOf(ParseOf(s), j)
  <2>1. PICK x \in StmtNames : x = s
    BY <1>5
  <2>2. LastOf(ParseOf(x), j)' = LastOf(ParseOf(x), j)
    BY <1>0, LastOfAppendOld
  <2>3. QED BY <1>5, <2>1, <2>2
<1>8. QED BY <1>0, <1>1, <1>2, <1>3, <1>4, <1>5, <1>6, <1>7 DEF RText, RArgs

(* What handleExecute reads is RText and RArgs of the next message.       *)
LEMMA TrackerResolves ==
    ASSUME TypeOK, TrackerMatches
    PROVE  ExecuteQuery = RText(Len(msgs) + 1) /\ lastBindArgs = RArgs(Len(msgs) + 1)
<1>0. PICK n \in Nat : n = Len(msgs)
  BY DEF TypeOK
<1>1. n + 1 - 1 = n
  BY <1>0
<1> DEFINE b == LastOf(BindMsgs, n)
           s == IF b = 0 THEN Unnamed ELSE msgs[b].stmt
<1>2. lastBindStmt = s /\ lastBindArgs = IF b = 0 THEN <<>> ELSE msgs[b].args
  BY <1>0 DEF TrackerMatches
<1>3. lastBindArgs = RArgs(n + 1)
  BY <1>1, <1>2 DEF RArgs
<1>4. ASSUME s # Unnamed /\ s \in DOMAIN preparedStmts PROVE ExecuteQuery = RText(n + 1)
  <2>1. s \in StmtNames \ {Unnamed}
    BY <1>2, <1>4 DEF TypeOK
  <2>2. LastOf(ParseOf(s), n) # 0 /\ preparedStmts[s] = msgs[LastOf(ParseOf(s), n)].text
    BY <1>0, <1>4, <2>1 DEF TrackerMatches
  <2>3. QED BY <1>1, <1>2, <1>4, <2>2 DEF ExecuteQuery, RText
<1>5. ASSUME ~(s # Unnamed /\ s \in DOMAIN preparedStmts) PROVE ExecuteQuery = RText(n + 1)
  <2>1. s # Unnamed => LastOf(ParseOf(s), n) = 0
    <3>1. s \in StmtNames
      BY <1>2 DEF TypeOK
    <3>2. QED BY <1>0, <1>5, <3>1 DEF TrackerMatches
  <2>2. lastParse = IF LastOf(ParseMsgs, n) = 0 THEN EmptyText ELSE msgs[LastOf(ParseMsgs, n)].text
    BY <1>0 DEF TrackerMatches
  <2>3. QED BY <1>1, <1>2, <1>5, <2>1, <2>2 DEF ExecuteQuery, RText
<1>6. QED BY <1>0, <1>3, <1>4, <1>5

(* Capturing a message keeps every event already in the log resolved.    *)
LEMMA EventsKept ==
    ASSUME TypeOK, \A T \in Tests : InSet(T), EventsResolved,
           NEW m, msgs' = Append(msgs, m),
           \A i \in 1..Len(log) : log'[i] = log[i]
    PROVE  \A i \in 1..Len(log) :
             /\ log'[i].at \in 1..Len(msgs')
             /\ log'[i].ev.op = "Execute" =>
                  /\ log'[i].ev.query = RText(log[i].at)'
                  /\ log'[i].ev.args = RArgs(log[i].at)'
<1> SUFFICES ASSUME NEW i \in 1..Len(log)
             PROVE  /\ log'[i].at \in 1..Len(msgs')
                    /\ log'[i].ev.op = "Execute" =>
                         /\ log'[i].ev.query = RText(log[i].at)'
                         /\ log'[i].ev.args = RArgs(log[i].at)'
  OBVIOUS
<1>1. Len(msgs') = Len(msgs) + 1 /\ Len(msgs) \in Nat
  BY AppendProperties DEF TypeOK
<1>2. PICK k \in 1..Len(msgs) : k = log[i].at
  BY DEF EventsResolved
<1>3. RText(k)' = RText(k) /\ RArgs(k)' = RArgs(k)
  BY <1>1, <1>2, RPrefix DEF TypeOK
<1>4. QED BY <1>1, <1>2, <1>3 DEF EventsResolved

(* Facts every capture step shares: the new message is last, the earlier  *)
(* ones stay, and the latest message of each test moves to the new one    *)
(* exactly when it passes the test.                                       *)
LEMMA CaptureShape ==
    ASSUME TypeOK, \A T \in Tests : InSet(T), NEW m, msgs' = Append(msgs, m),
           NEW n \in Nat, n = Len(msgs)
    PROVE  /\ Len(msgs') = n + 1 /\ msgs'[n + 1] = m
           /\ \A T : LastOf(T, n + 1)' = IF m \in T THEN n + 1 ELSE LastOf(T, n)
           /\ \A T \in Tests : LastOf(T, n) # 0 =>
                 /\ LastOf(T, n) \in 1..n
                 /\ msgs'[LastOf(T, n)] = msgs[LastOf(T, n)]
<1>1. Len(msgs') = n + 1 /\ msgs'[n + 1] = m /\ \A j \in 1..n : msgs'[j] = msgs[j]
  BY AppendProperties DEF TypeOK
<1>2. \A T : LastOf(T, n + 1)' = IF m \in T THEN n + 1 ELSE LastOf(T, n)
  BY LastOfAppendNew DEF TypeOK
<1>3. \A T \in Tests : LastOf(T, n) # 0 => LastOf(T, n) \in 1..n
  BY DEF InSet
<1>4. QED BY <1>1, <1>2, <1>3

(* TrackerMatches after a capture step, spelt out at the new length.      *)
LEMMA TrackerPrimed ==
    ASSUME NEW n \in Nat, Len(msgs') = n + 1,
           lastParse' = IF LastOf(ParseMsgs, n + 1)' = 0 THEN EmptyText
                        ELSE msgs'[LastOf(ParseMsgs, n + 1)'].text,
           lastBindStmt' = IF LastOf(BindMsgs, n + 1)' = 0 THEN Unnamed
                           ELSE msgs'[LastOf(BindMsgs, n + 1)'].stmt,
           lastBindArgs' = IF LastOf(BindMsgs, n + 1)' = 0 THEN <<>>
                           ELSE msgs'[LastOf(BindMsgs, n + 1)'].args,
           \A x \in StmtNames \ {Unnamed} :
             /\ x \in DOMAIN preparedStmts' <=> LastOf(ParseOf(x), n + 1)' # 0
             /\ x \in DOMAIN preparedStmts' =>
                  preparedStmts'[x] = msgs'[LastOf(ParseOf(x), n + 1)'].text
    PROVE  TrackerMatches'
BY DEF TrackerMatches

(* A message that is neither a Parse nor a Bind, captured while the       *)
(* tracker fields stay, keeps TrackerMatches.                             *)
LEMMA TrackerKept ==
    ASSUME TypeOK, \A T \in Tests : InSet(T), TrackerMatches,
           NEW m, msgs' = Append(msgs, m), m \notin BindMsgs, m \notin ParseMsgs,
           UNCHANGED trackVars
    PROVE  TrackerMatches'
<1>0. PICK n \in Nat : n = Len(msgs)
  BY DEF TypeOK
<1>1. /\ Len(msgs') = n + 1
      /\ \A T : LastOf(T, n + 1)' = IF m \in T THEN n + 1 ELSE LastOf(T, n)
      /\ \A T \in Tests : LastOf(T, n) # 0 => msgs'[LastOf(T, n)] = msgs[LastOf(T, n)]
  BY <1>0, CaptureShape
<1>2. \A x \in StmtNames : m \notin ParseOf(x) /\ ParseOf(x) \in Tests
  BY DEF ParseOf, ParseMsgs, Tests
<1>3. BindMsgs \in Tests /\ ParseMsgs \in Tests
  BY DEF Tests
<1>4. \A T \in Tests : LastOf(T, n + 1)' = LastOf(T, n)
  BY <1>1, <1>2, <1>3 DEF Tests
<1>5. /\ LastOf(ParseMsgs, n) = LastOf(ParseMsgs, n + 1)'
      /\ LastOf(BindMsgs, n) = LastOf(BindMsgs, n + 1)'
      /\ \A x \in StmtNames : LastOf(ParseOf(x), n) = LastOf(ParseOf(x), n + 1)'
  BY <1>2, <1>3, <1>4
<1>6. /\ lastParse = IF LastOf(ParseMsgs, n) = 0 THEN EmptyText ELSE msgs[LastOf(ParseMsgs, n)].text
      /\ lastBindStmt = IF LastOf(BindMsgs, n) = 0 THEN Unnamed ELSE msgs[LastOf(BindMsgs, n)].stmt
      /\ lastBindArgs = IF LastOf(BindMsgs, n) = 0 THEN <<>> ELSE msgs[LastOf(BindMsgs, n)].args
      /\ \A x \in StmtNames \ {Unnamed} :
           /\ x \in DOMAIN preparedStmts <=> LastOf(ParseOf(x), n) # 0
           /\ x \in DOMAIN preparedStmts =>
                preparedStmts[x] = msgs[LastOf(ParseOf(x), n)].text
  BY <1>0 DEF TrackerMatches
<1>7. lastParse' = IF LastOf(ParseMsgs, n + 1)' = 0 THEN EmptyText
                   ELSE msgs'[LastOf(ParseMsgs, n + 1)'].text
  BY <1>1, <1>3, <1>5, <1>6 DEF trackVars
<1>8. /\ lastBindStmt' = IF LastOf(BindMsgs, n + 1)' = 0 THEN Unnamed
                         ELSE msgs'[LastOf(BindMsgs, n + 1)'].stmt
      /\ lastBindArgs' = IF LastOf(BindMsgs, n + 1)' = 0 THEN <<>>
                         ELSE msgs'[LastOf(BindMsgs, n + 1)'].args
  BY <1>1, <1>3, <1>5, <1>6 DEF trackVars
<1>9. \A x \in StmtNames \ {Unnamed} :
        /\ x \in DOMAIN preparedStmts' <=> LastOf(ParseOf(x), n + 1)' # 0
        /\ x \in DOMAIN preparedStmts' =>
             preparedStmts'[x] = msgs'[LastOf(ParseOf(x), n + 1)'].text
  BY <1>1, <1>2, <1>5, <1>6 DEF trackVars
<1>10. QED BY <1>0, <1>1, <1>7, <1>8, <1>9, TrackerPrimed

(* handleParse keeps TrackerMatches: lastParse takes the new text, and a  *)
(* named statement its latest text.                                       *)
LEMMA TrackerParse ==
    ASSUME TypeOK, \A T \in Tests : InSet(T), TrackerMatches,
           NEW nm \in StmtNames, NEW t \in Texts,
           msgs' = Append(msgs, ParseMsg(nm, t)), HandleParse(nm, t)
    PROVE  TrackerMatches'
<1> DEFINE m == ParseMsg(nm, t)
<1>0. PICK n \in Nat : n = Len(msgs)
  BY DEF TypeOK
<1>1. /\ Len(msgs') = n + 1 /\ msgs'[n + 1] = m
      /\ \A T : LastOf(T, n + 1)' = IF m \in T THEN n + 1 ELSE LastOf(T, n)
      /\ \A T \in Tests : LastOf(T, n) # 0 => msgs'[LastOf(T, n)] = msgs[LastOf(T, n)]
  BY <1>0, CaptureShape
<1>2. /\ m \in ParseMsgs /\ m \notin BindMsgs
      /\ \A x \in StmtNames : m \in ParseOf(x) <=> x = nm
  BY DEF ParseMsg, ParseMsgs, BindMsgs, ParseOf, ClientMsgs
<1>3. \A x \in StmtNames : ParseOf(x) \in Tests
  BY DEF Tests
<1>4. BindMsgs \in Tests /\ ParseMsgs \in Tests
  BY DEF Tests
<1>5. lastParse' = msgs'[n + 1].text
  BY <1>1 DEF HandleParse, ParseMsg
<1>6. ASSUME NEW x \in StmtNames \ {Unnamed}
      PROVE  /\ x \in DOMAIN preparedStmts' <=> LastOf(ParseOf(x), n + 1)' # 0
             /\ x \in DOMAIN preparedStmts' =>
                  preparedStmts'[x] = msgs'[LastOf(ParseOf(x), n + 1)'].text
  <2>1. CASE x = nm
    <3>1. nm # Unnamed /\ LastOf(ParseOf(x), n + 1)' = n + 1
      BY <1>0, <1>1, <1>2, <2>1
    <3>2. x \in DOMAIN preparedStmts' /\ preparedStmts'[x] = t
      BY <2>1, <3>1 DEF HandleParse
    <3>3. QED BY <1>1, <3>1, <3>2 DEF ParseMsg
  <2>2. CASE x # nm
    <3>1. LastOf(ParseOf(x), n + 1)' = LastOf(ParseOf(x), n)
      BY <1>1, <1>2, <2>2
    <3>2. /\ x \in DOMAIN preparedStmts' <=> x \in DOMAIN preparedStmts
          /\ x \in DOMAIN preparedStmts => preparedStmts'[x] = preparedStmts[x]
      BY <2>2 DEF HandleParse
    <3>3. QED BY <1>0, <1>1, <1>3, <3>1, <3>2 DEF TrackerMatches
  <2>3. QED BY <2>1, <2>2
<1>7. /\ LastOf(BindMsgs, n) = LastOf(BindMsgs, n + 1)'
      /\ lastBindStmt = IF LastOf(BindMsgs, n) = 0 THEN Unnamed ELSE msgs[LastOf(BindMsgs, n)].stmt
      /\ lastBindArgs = IF LastOf(BindMsgs, n) = 0 THEN <<>> ELSE msgs[LastOf(BindMsgs, n)].args
  BY <1>0, <1>1, <1>2 DEF TrackerMatches
<1>8. LastOf(ParseMsgs, n + 1)' = n + 1
  BY <1>1, <1>2
<1>9. /\ lastBindStmt' = IF LastOf(BindMsgs, n + 1)' = 0 THEN Unnamed
                         ELSE msgs'[LastOf(BindMsgs, n + 1)'].stmt
      /\ lastBindArgs' = IF LastOf(BindMsgs, n + 1)' = 0 THEN <<>>
                         ELSE msgs'[LastOf(BindMsgs, n + 1)'].args
  <2>1. UNCHANGED <<lastBindStmt, lastBindArgs>>
    BY DEF HandleParse
  <2>2. LastOf(BindMsgs, n) # 0 => msgs'[LastOf(BindMsgs, n)] = msgs[LastOf(BindMsgs, n)]
    BY <1>1, <1>4
  <2>3. QED BY <1>7, <2>1, <2>2
<1>10. lastParse' = IF LastOf(ParseMsgs, n + 1)' = 0 THEN EmptyText
                    ELSE msgs'[LastOf(ParseMsgs, n + 1)'].text
  BY <1>0, <1>5, <1>8
<1>11. QED BY <1>0, <1>1, <1>6, <1>9, <1>10, TrackerPrimed

(* handleBind keeps TrackerMatches: the statement name and parameters are *)
(* those of the new Bind.                                                 *)
LEMMA TrackerBind ==
    ASSUME TypeOK, \A T \in Tests : InSet(T), TrackerMatches,
           NEW m \in ClientMsgs, m.type = "Bind",
           msgs' = Append(msgs, m), HandleBind(m.stmt, m.args)
    PROVE  TrackerMatches'
<1>0. PICK n \in Nat : n = Len(msgs)
  BY DEF TypeOK
<1>1. /\ Len(msgs') = n + 1 /\ msgs'[n + 1] = m
      /\ \A T : LastOf(T, n + 1)' = IF m \in T THEN n + 1 ELSE LastOf(T, n)
      /\ \A T \in Tests : LastOf(T, n) # 0 => msgs'[LastOf(T, n)] = msgs[LastOf(T, n)]
  BY <1>0, CaptureShape
<1>2. m \in BindMsgs /\ m \notin ParseMsgs /\ \A x \in StmtNames : m \notin ParseOf(x)
  BY DEF BindMsgs, ParseMsgs, ParseOf
<1>3. \A x \in StmtNames : ParseOf(x) \in Tests
  BY DEF Tests
<1>4. ParseMsgs \in Tests
  BY DEF Tests
<1>5. LastOf(BindMsgs, n + 1)' = n + 1
  BY <1>1, <1>2
<1>6. /\ LastOf(ParseMsgs, n) = LastOf(ParseMsgs, n + 1)'
      /\ \A x \in StmtNames : LastOf(ParseOf(x), n) = LastOf(ParseOf(x), n + 1)'
  BY <1>1, <1>2
<1>7. /\ lastParse = IF LastOf(ParseMsgs, n) = 0 THEN EmptyText ELSE msgs[LastOf(ParseMsgs, n)].text
      /\ \A x \in StmtNames \ {Unnamed} :
           /\ x \in DOMAIN preparedStmts <=> LastOf(ParseOf(x), n) # 0
           /\ x \in DOMAIN preparedStmts =>
                preparedStmts[x] = msgs[LastOf(ParseOf(x), n)].text
  BY <1>0 DEF TrackerMatches
<1>8. /\ lastBindStmt' = IF LastOf(BindMsgs, n + 1)' = 0 THEN Unnamed
                         ELSE msgs'[LastOf(BindMsgs, n + 1)'].stmt
      /\ lastBindArgs' = IF LastOf(BindMsgs, n + 1)' = 0 THEN <<>>
                         ELSE msgs'[LastOf(BindMsgs, n + 1)'].args
  BY <1>1, <1>5 DEF HandleBind
<1>9. lastParse' = IF LastOf(ParseMsgs, n + 1)' = 0 THEN EmptyText
                   ELSE msgs'[LastOf(ParseMsgs, n + 1)'].text
  BY <1>1, <1>4, <1>6, <1>7 DEF HandleBind
<1>10. \A x \in StmtNames \ {Unnamed} :
         /\ x \in DOMAIN preparedStmts' <=> LastOf(ParseOf(x), n + 1)' # 0
         /\ x \in DOMAIN preparedStmts' =>
              preparedStmts'[x] = msgs'[LastOf(ParseOf(x), n + 1)'].text
  BY <1>1, <1>3, <1>6, <1>7 DEF HandleBind
<1>11. QED BY <1>0, <1>1, <1>8, <1>9, <1>10, TrackerPrimed

(* A capture step that emits an event (handleSimpleQuery, handleExecute)  *)
(* keeps EventsResolved: an Execute event carries what the tracker held,  *)
(* which is RText and RArgs of its own message.                           *)
LEMMA EventsNew ==
    ASSUME ResInv, NEW m, msgs' = Append(msgs, m), NEW r,
           log' = Append(log, r), r.at = Len(msgs) + 1,
           r.ev.op = "Execute" => r.ev.query = ExecuteQuery /\ r.ev.args = lastBindArgs
    PROVE  EventsResolved'
<1>0. PICK n \in Nat : n = Len(msgs)
  BY DEF ResInv, TypeOK
<1>1. /\ Len(log') = Len(log) + 1 /\ Len(log) \in Nat
      /\ log'[Len(log) + 1] = r /\ \A i \in 1..Len(log) : log'[i] = log[i]
  BY AppendProperties DEF ResInv, TypeOK
<1>2. \A i \in 1..Len(log) :
        /\ log'[i].at \in 1..Len(msgs')
        /\ log'[i].ev.op = "Execute" =>
             /\ log'[i].ev.query = RText(log[i].at)'
             /\ log'[i].ev.args = RArgs(log[i].at)'
  BY <1>1, EventsKept DEF ResInv
<1>3. Len(msgs') = n + 1
  BY <1>0, AppendProperties DEF ResInv, TypeOK
<1>4. RText(n + 1)' = RText(n + 1) /\ RArgs(n + 1)' = RArgs(n + 1)
  BY <1>0, RPrefix DEF ResInv, TypeOK
<1>5. ExecuteQuery = RText(n + 1) /\ lastBindArgs = RArgs(n + 1)
  BY <1>0, TrackerResolves DEF ResInv
<1>6. /\ r.at \in 1..Len(msgs')
      /\ r.ev.op = "Execute" => r.ev.query = RText(r.at)' /\ r.ev.args = RArgs(r.at)'
  BY <1>0, <1>3, <1>4, <1>5
<1>7. QED BY <1>1, <1>2, <1>6 DEF EventsResolved

(* A capture step that emits nothing keeps EventsResolved.                *)
LEMMA EventsSame ==
    ASSUME ResInv, NEW m, msgs' = Append(msgs, m), UNCHANGED log
    PROVE  EventsResolved'
<1>1. \A i \in 1..Len(log) :
        /\ log'[i].at \in 1..Len(msgs')
        /\ log'[i].ev.op = "Execute" =>
             /\ log'[i].ev.query = RText(log[i].at)'
             /\ log'[i].ev.args = RArgs(log[i].at)'
  BY EventsKept DEF ResInv
<1>2. QED BY <1>1 DEF EventsResolved

(* A step that leaves the messages, the log and the tracker alone keeps   *)
(* ResInv.                                                                *)
LEMMA ResKept ==
    ASSUME ResInv, TypeOK', UNCHANGED <<trackVars, msgs, log>>
    PROVE  ResInv'
<1>a. msgs' = msgs
  OBVIOUS
<1>0. \A T, i : LastOf(T, i)' = LastOf(T, i)
  <2> SUFFICES ASSUME NEW T, NEW i PROVE LastOf(T, i)' = LastOf(T, i)
    OBVIOUS
  <2>1. {k \in 1..i : msgs'[k] \in T} = {k \in 1..i : msgs[k] \in T}
    BY <1>a
  <2>2. QED BY <2>1 DEF LastOf, SelectLastInSubSeq
<1>1. \A T \in Tests : InSet(T)'
  <2>1. SUFFICES ASSUME NEW T \in Tests PROVE InSet(T)'
    OBVIOUS
  <2>2. InSet(T)
    BY DEF ResInv
  <2>4. QED BY <1>0, <1>a, <2>2 DEF InSet
<1>2. TrackerMatches'
  BY <1>0 DEF ResInv, TrackerMatches, trackVars
<1>3. \A k : RText(k)' = RText(k) /\ RArgs(k)' = RArgs(k)
  BY <1>0 DEF RText, RArgs
<1>4. EventsResolved'
  BY <1>3 DEF ResInv, EventsResolved
<1>5. QED BY <1>1, <1>2, <1>4 DEF ResInv

(* Prepared-statement resolution (spec 8.5) holds in every reachable      *)
(* state, for every set of texts, names and parameter lists: the fields   *)
(* handleParse and handleBind record are always what the messages so far  *)
(* designate, so every Execute event carries the statement text and the   *)
(* parameters the client's Parse and Bind messages designate.             *)
THEOREM ExecuteResolutionInvariant == Spec => []ExecuteResolution
<1>1. Init => ResInv
  <2> SUFFICES ASSUME Init PROVE ResInv
    OBVIOUS
  <2>1. TypeOK
    BY CaptureAssumption DEF Init, TypeOK, EmptyText, NoTx
  <2>2. \A T, i : i \in 0..Len(msgs) => LastOf(T, i) = 0
    BY DEF Init, LastOf, SelectLastInSubSeq
  <2>3. \A T \in Tests : InSet(T)
    BY <2>2 DEF InSet
  <2>4. TrackerMatches
    BY <2>2 DEF Init, TrackerMatches
  <2>5. EventsResolved
    BY DEF Init, EventsResolved
  <2>6. QED BY <2>1, <2>3, <2>4, <2>5 DEF ResInv
<1>2. ResInv /\ [Next]_captureVars => ResInv'
  <2> SUFFICES ASSUME ResInv, [Next]_captureVars PROVE ResInv'
    OBVIOUS
  <2>0. TypeOK'
    BY TypeStep DEF ResInv
  <2>1. ASSUME NEW m \in ClientMsgs, CaptureClientMsg(m) PROVE ResInv'
    <3>1. msgs' = Append(msgs, m)
      BY <2>1 DEF CaptureClientMsg
    <3>2. \A T \in Tests : InSet(T)'
      BY <3>1, InSetAppend DEF ResInv, TypeOK
    <3>3. m \in BindMsgs <=> m.type = "Bind"
      BY DEF BindMsgs
    <3>4. m \in ParseMsgs <=> m.type = "Parse"
      BY DEF ParseMsgs
    <3>5. CASE m.type = "Query" /\ HandleSimpleQuery(m.text)
      <4>1. TrackerMatches'
        BY <3>1, <3>3, <3>4, <3>5, TrackerKept DEF ResInv, HandleSimpleQuery
      <4>2. EventsResolved'
        BY <3>1, <3>5, EventsNew DEF HandleSimpleQuery, EmitEvent, NewEvent
      <4>3. QED BY <2>0, <3>2, <4>1, <4>2 DEF ResInv
    <3>6. CASE m.type = "Execute" /\ HandleExecute
      <4>1. TrackerMatches'
        BY <3>1, <3>3, <3>4, <3>6, TrackerKept DEF ResInv, HandleExecute
      <4>2. EventsResolved'
        BY <3>1, <3>6, EventsNew DEF HandleExecute, EmitEvent, NewEvent
      <4>3. QED BY <2>0, <3>2, <4>1, <4>2 DEF ResInv
    <3>7. CASE m.type = "Parse" /\ HandleParse(m.name, m.text)
      <4>1. m = ParseMsg(m.name, m.text) /\ m.name \in StmtNames /\ m.text \in Texts
        BY <3>7 DEF ClientMsgs, ParseMsg, QueryMsg, BindMsg, ExecuteMsg, OtherMsg
      <4>2. TrackerMatches'
        BY <3>1, <3>7, <4>1, TrackerParse DEF ResInv
      <4>3. EventsResolved'
        BY <3>1, <3>7, EventsSame DEF HandleParse
      <4>4. QED BY <2>0, <3>2, <4>2, <4>3 DEF ResInv
    <3>8. CASE m.type = "Bind" /\ HandleBind(m.stmt, m.args)
      <4>1. TrackerMatches'
        BY <3>1, <3>8, TrackerBind DEF ResInv
      <4>2. EventsResolved'
        BY <3>1, <3>8, EventsSame DEF HandleBind
      <4>3. QED BY <2>0, <3>2, <4>1, <4>2 DEF ResInv
    <3>9. CASE m.type = "Other" /\ UNCHANGED <<trackVars, activeTxID, nextID, events, txSeq, log>>
      <4>1. TrackerMatches'
        BY <3>1, <3>3, <3>4, <3>9, TrackerKept DEF ResInv
      <4>2. EventsResolved'
        BY <3>1, <3>9, EventsSame
      <4>3. QED BY <2>0, <3>2, <4>1, <4>2 DEF ResInv
    <3>10. QED BY <2>1, <3>5, <3>6, <3>7, <3>8, <3>9 DEF CaptureClientMsg
  <2>2. CASE Subscriber
    BY <2>0, <2>2, ResKept DEF Subscriber
  <2>3. CASE UNCHANGED captureVars
    BY <2>0, <2>3, ResKept DEF captureVars
  <2>4. QED BY <2>1, <2>2, <2>3 DEF Next
<1>3. ResInv => ExecuteResolution
  <2> SUFFICES ASSUME ResInv, NEW i \in 1..Len(log), log[i].ev.op = "Execute"
               PROVE  /\ log[i].ev.query = ResolvedText(log[i].at)
                      /\ log[i].ev.args = ResolvedArgs(log[i].at)
    BY DEF ExecuteResolution
  <2>1. log[i].at \in 1..Len(msgs) + 1 /\ msgs \in Seq(ClientMsgs)
    BY DEF ResInv, EventsResolved, TypeOK
  <2>2. QED BY <2>1, ResolvedByLastOf DEF ResInv, EventsResolved
<1>4. QED BY <1>1, <1>2, <1>3, PTL DEF Spec

=============================================================================
