----------------------------- MODULE PgCapture -----------------------------
(***************************************************************************)
(* The capture half of one relayed PostgreSQL connection                  *)
(* (src/proxy/postgres/conn.go): the client->upstream pump hands every    *)
(* decoded frontend message to captureClientMsg, which tracks the         *)
(* extended-query state (Parse / Bind / Execute), detects transactions by *)
(* the text of the query and emits an Event onto the shared, bounded      *)
(* events channel with a non-blocking send.                               *)
(*                                                                         *)
(* SQL text is abstracted to a record: the keywords it starts with        *)
(* (words), whether it carries leading white space (pad) and whether it   *)
(* is written in lower case (lower).  strings.TrimSpace and               *)
(* strings.ToUpper act on those two fields; strings.HasPrefix compares    *)
(* the first keyword.                                                     *)
(***************************************************************************)
EXTENDS Naturals, Sequences, SequencesExt

CONSTANTS
    Texts,      \* SQL texts a client may send in Query and Parse
    StmtNames,  \* prepared-statement names a client may use
    Unnamed,    \* the empty name "" of the unnamed statement
    ArgLists,   \* parameter lists a Bind may carry
    Portals,    \* portal names a Bind and an Execute may carry ("" unnamed)
    Cap,        \* capacity of the events channel (make(chan proxy.Event, 256))
    MaxMsgs     \* bound on the number of client messages the model captures

ASSUME CaptureAssumption ==
    /\ Unnamed \in StmtNames /\ Unnamed \in Portals
    /\ Cap \in Nat \ {0}
    /\ MaxMsgs \in Nat

(* A text is the record described above: two flags and its keywords.      *)
ASSUME TextAssumption ==
    Texts \subseteq [pad : BOOLEAN, lower : BOOLEAN, words : Seq(STRING)]

(* The empty string "" as a text: the initial value of lastParse.          *)
EmptyText == [pad |-> FALSE, lower |-> FALSE, words |-> <<>>]

(* No transaction: activeTxID = "".  A uuid.New().String() is modelled as  *)
(* a fresh positive number (collisions of random v4 UUIDs are ignored).    *)
NoTx == 0

(* The frontend messages captureClientMsg distinguishes; every other       *)
(* message (Sync, Describe, Close, Flush, Terminate...) is "Other".        *)
(* Bind and Execute carry the portal they name, which the handlers        *)
(* ignore.                                                                *)
QueryMsg(t)   == [type |-> "Query", text |-> t]
ParseMsg(n, t) == [type |-> "Parse", name |-> n, text |-> t]
BindMsg(p, s, a) == [type |-> "Bind", portal |-> p, stmt |-> s, args |-> a]
ExecuteMsg(p) == [type |-> "Execute", portal |-> p]
OtherMsg      == [type |-> "Other"]

ClientMsgs ==
    {QueryMsg(t) : t \in Texts} \cup
    {ParseMsg(n, t) : n \in StmtNames, t \in Texts} \cup
    {BindMsg(p, s, a) : p \in Portals, s \in StmtNames, a \in ArgLists} \cup
    {ExecuteMsg(p) : p \in Portals} \cup {OtherMsg}

VARIABLES
    preparedStmts,  \* map[string]string: statement name -> query
    lastParse,      \* query of the most recent Parse
    lastBindArgs,   \* args of the most recent Bind
    lastBindStmt,   \* statement name of the most recent Bind
    activeTxID,     \* current synthetic transaction id, NoTx when none
    nextID,         \* uint64 counter behind generateID
    events,         \* contents of the buffered events channel
    txSeq,          \* number of UUIDs generated so far (source of freshness)
    msgs,           \* history: the client messages captured so far
    log             \* history: every event built, sent or dropped, with
                    \*   the index in msgs of the message that caused it

trackVars == <<preparedStmts, lastParse, lastBindArgs, lastBindStmt>>
captureVars == <<trackVars, activeTxID, nextID, events, txSeq, msgs, log>>

-----------------------------------------------------------------------------
(* strings.TrimSpace, strings.ToUpper and strings.HasPrefix on texts.      *)
TrimSpace(q) == [q EXCEPT !.pad = FALSE]
ToUpper(q) == [q EXCEPT !.lower = FALSE]
HasPrefix(q, kw) == ~q.pad /\ ~q.lower /\ q.words # <<>> /\ q.words[1] = kw

IsBegin(q) == HasPrefix(ToUpper(TrimSpace(q)), "BEGIN")
IsEnd(q) ==
    LET u == ToUpper(TrimSpace(q))
    IN ~IsBegin(q) /\ (HasPrefix(u, "COMMIT") \/ HasPrefix(u, "ROLLBACK"))

(* Fault: a BEGIN inside an active transaction keeps the current id.     *)
DetectTxKeepNested(q) ==
    \/ /\ IsBegin(q) /\ activeTxID = NoTx
       /\ txSeq' = txSeq + 1
       /\ activeTxID' = txSeq + 1
    \/ /\ IsBegin(q) /\ activeTxID # NoTx
       /\ UNCHANGED <<activeTxID, txSeq>>
    \/ /\ IsEnd(q)
       /\ activeTxID' = NoTx
       /\ UNCHANGED txSeq
    \/ /\ ~IsBegin(q) /\ ~IsEnd(q)
       /\ UNCHANGED <<activeTxID, txSeq>>

(* Fault: detectTx matches the prefixes without strings.TrimSpace.      *)
DetectTxNoTrim(q) ==
    LET u == ToUpper(q)
        begin == HasPrefix(u, "BEGIN")
        end == ~begin /\ (HasPrefix(u, "COMMIT") \/ HasPrefix(u, "ROLLBACK"))
    IN \/ begin /\ txSeq' = txSeq + 1 /\ activeTxID' = txSeq + 1
       \/ end /\ activeTxID' = NoTx /\ UNCHANGED txSeq
       \/ ~begin /\ ~end /\ UNCHANGED <<activeTxID, txSeq>>

(* detectTx: a BEGIN text starts a fresh transaction id, a COMMIT or a     *)
(* ROLLBACK text clears it, any other text leaves it.                     *)
DetectTx(q) ==
    \/ /\ IsBegin(q)
       /\ txSeq' = txSeq + 1
       /\ activeTxID' = txSeq + 1
    \/ /\ IsEnd(q)
       /\ activeTxID' = NoTx
       /\ UNCHANGED txSeq
    \/ /\ ~IsBegin(q) /\ ~IsEnd(q)
       /\ UNCHANGED <<activeTxID, txSeq>>

(* Fault: a blocking send on the event channel (no default branch).      *)
EmitEventBlocking(ev) ==
    /\ log' = Append(log, [ev |-> ev, at |-> Len(msgs) + 1])
    /\ Len(events) < Cap
    /\ events' = Append(events, ev)

(* Fault: an off-by-one test of the room left drops an event while the   *)
(* channel still has a free slot.                                        *)
EmitEventDropEarly(ev) ==
    /\ log' = Append(log, [ev |-> ev, at |-> Len(msgs) + 1])
    /\ \/ /\ Len(events) < Cap - 1
          /\ events' = Append(events, ev)
       \/ /\ Len(events) >= Cap - 1
          /\ UNCHANGED events

(* emitEvent: select with a default branch, so a full channel drops the    *)
(* event instead of blocking the pump.                                    *)
EmitEvent(ev) ==
    /\ log' = Append(log, [ev |-> ev, at |-> Len(msgs) + 1])
    /\ \/ /\ Len(events) < Cap
          /\ events' = Append(events, ev)
       \/ /\ Len(events) >= Cap
          /\ UNCHANGED events

(* The event a handler builds; generateID supplies nextID + 1.            *)
NewEvent(op, q, args) ==
    [id |-> nextID + 1, op |-> op, query |-> q, args |-> args, tx |-> activeTxID']

(* Fault: handleExecute always reports the latest Parse text.            *)
ExecuteQueryLastParseOnly == lastParse

(* The statement text handleExecute resolves.                             *)
ExecuteQuery ==
    IF lastBindStmt # Unnamed /\ lastBindStmt \in DOMAIN preparedStmts
    THEN preparedStmts[lastBindStmt]
    ELSE lastParse

-----------------------------------------------------------------------------
HandleSimpleQuery(q) ==
    /\ DetectTx(q)
    /\ nextID' = nextID + 1
    /\ EmitEvent(NewEvent("Query", q, <<>>))
    /\ UNCHANGED trackVars

(* Fault: the n != "" guard dropped, so the unnamed statement is stored.  *)
HandleParseStoreUnnamed(n, q) ==
    /\ lastParse' = q
    /\ preparedStmts' = [x \in DOMAIN preparedStmts \cup {n} |->
                           IF x = n THEN q ELSE preparedStmts[x]]
    /\ UNCHANGED <<lastBindArgs, lastBindStmt, activeTxID, nextID, events, txSeq, log>>

(* Fault: a named Parse does not update lastParse.                        *)
HandleParseNamedOnly(n, q) ==
    /\ lastParse' = IF n = Unnamed THEN q ELSE lastParse
    /\ preparedStmts' =
         IF n # Unnamed
         THEN [x \in DOMAIN preparedStmts \cup {n} |->
                 IF x = n THEN q ELSE preparedStmts[x]]
         ELSE preparedStmts
    /\ UNCHANGED <<lastBindArgs, lastBindStmt, activeTxID, nextID, events, txSeq, log>>

HandleParse(n, q) ==
    /\ lastParse' = q
    /\ preparedStmts' =
         IF n # Unnamed
         THEN [x \in DOMAIN preparedStmts \cup {n} |->
                 IF x = n THEN q ELSE preparedStmts[x]]
         ELSE preparedStmts
    /\ UNCHANGED <<lastBindArgs, lastBindStmt, activeTxID, nextID, events, txSeq, log>>

(* Fault: handleBind records the parameters only for the unnamed         *)
(* statement.                                                            *)
HandleBindUnnamedArgs(s, a) ==
    /\ lastBindStmt' = s
    /\ lastBindArgs' = IF s = Unnamed THEN a ELSE lastBindArgs
    /\ UNCHANGED <<preparedStmts, lastParse, activeTxID, nextID, events, txSeq, log>>

HandleBind(s, a) ==
    /\ lastBindStmt' = s
    /\ lastBindArgs' = a
    /\ UNCHANGED <<preparedStmts, lastParse, activeTxID, nextID, events, txSeq, log>>

(* Fault: handleExecute builds its event without calling generateID.     *)
HandleExecuteNoID ==
    /\ DetectTx(ExecuteQuery)
    /\ UNCHANGED nextID
    /\ EmitEvent(NewEvent("Execute", ExecuteQuery, lastBindArgs))
    /\ UNCHANGED trackVars

HandleExecute ==
    /\ DetectTx(ExecuteQuery)
    /\ nextID' = nextID + 1
    /\ EmitEvent(NewEvent("Execute", ExecuteQuery, lastBindArgs))
    /\ UNCHANGED trackVars

(* captureClientMsg: one decoded client message, recorded in msgs.         *)
CaptureClientMsg(m) ==
    /\ msgs' = Append(msgs, m)
    /\ \/ m.type = "Query" /\ HandleSimpleQuery(m.text)
       \/ m.type = "Parse" /\ HandleParse(m.name, m.text)
       \/ m.type = "Bind" /\ HandleBind(m.stmt, m.args)
       \/ m.type = "Execute" /\ HandleExecute
       \/ m.type = "Other" /\ UNCHANGED <<trackVars, activeTxID, nextID, events, txSeq, log>>

(* The subscriber (the broker, outside this repository) takes the oldest  *)
(* event off the channel.                                                 *)
Subscriber ==
    /\ events # <<>>
    /\ events' = Tail(events)
    /\ UNCHANGED <<trackVars, activeTxID, nextID, txSeq, msgs, log>>

-----------------------------------------------------------------------------
(* newConn: empty prepared-statement map, every other field zero.          *)
Init ==
    /\ preparedStmts = [x \in {} |-> EmptyText]
    /\ lastParse = EmptyText
    /\ lastBindArgs = <<>>
    /\ lastBindStmt = Unnamed
    /\ activeTxID = NoTx
    /\ nextID = 0
    /\ events = <<>>
    /\ txSeq = 0
    /\ msgs = <<>>
    /\ log = <<>>

Next ==
    \/ \E m \in ClientMsgs : Len(msgs) < MaxMsgs /\ CaptureClientMsg(m)
    \/ Subscriber

Spec == Init /\ [][Next]_captureVars

-----------------------------------------------------------------------------
(* Type invariant.                                                         *)
Events == [id : Nat, op : {"Query", "Execute"}, query : Texts \cup {EmptyText},
           args : ArgLists \cup {<<>>}, tx : Nat]

TypeOK ==
    /\ DOMAIN preparedStmts \subseteq StmtNames \ {Unnamed}
    /\ \A x \in DOMAIN preparedStmts : preparedStmts[x] \in Texts
    /\ lastParse \in Texts \cup {EmptyText}
    /\ lastBindArgs \in ArgLists \cup {<<>>}
    /\ lastBindStmt \in StmtNames
    /\ activeTxID \in Nat /\ nextID \in Nat /\ txSeq \in Nat
    /\ events \in Seq(Events) /\ Len(events) <= Cap
    /\ msgs \in Seq(ClientMsgs)
    /\ log \in Seq([ev : Events, at : Nat])

(* Index of the last event in log[1..i] that opens or closes a            *)
(* transaction, 0 when there is none.                                     *)
LastTxMark(i) ==
    SelectLastInSubSeq(log, 1, i, LAMBDA r : IsBegin(r.ev.query) \/ IsEnd(r.ev.query))

(* Event ordering (spec 8.3): the n-th event the connection builds has id *)
(* n, and what the subscriber finds on the channel is a subsequence of    *)
(* them in that order, whatever the channel dropped while it was full.    *)
EventsInEmissionOrder ==
    /\ \A i \in 1..Len(log) : log[i].ev.id = i
    /\ \A i \in 1..Len(events) : events[i] = log[events[i].id].ev
    /\ \A i, j \in 1..Len(events) : i < j => events[i].id < events[j].id

(* Transaction correlation (spec 8.4, its first two clauses), as detectTx *)
(* and the handlers produce it: an event that is not itself a COMMIT or   *)
(* ROLLBACK carries the id of the latest BEGIN before it when no COMMIT   *)
(* or ROLLBACK came in between, and carries no id otherwise; two BEGINs   *)
(* never share an id, so a nested BEGIN starts a new one.                 *)
TxCorrelation ==
    /\ \A i \in 1..Len(log) :
         ~IsEnd(log[i].ev.query) =>
           LET k == LastTxMark(i)
           IN IF k = 0 \/ IsEnd(log[k].ev.query)
              THEN log[i].ev.tx = NoTx
              ELSE log[i].ev.tx = log[k].ev.tx /\ log[i].ev.tx # NoTx
    /\ \A i, j \in 1..Len(log) :
         i # j /\ IsBegin(log[i].ev.query) /\ IsBegin(log[j].ev.query)
           => log[i].ev.tx # log[j].ev.tx

(* The terminating COMMIT or ROLLBACK event carries the expiring          *)
(* transaction id (spec 4.5 and 8.4; TestTransactionDetection expects the *)
(* Commit event's TxID to equal the Begin event's).                       *)
EndCarriesTx ==
    \A i \in 1..Len(log) :
        IsEnd(log[i].ev.query) =>
          LET k == LastTxMark(i - 1)
          IN k # 0 /\ IsBegin(log[k].ev.query) => log[i].ev.tx = log[k].ev.tx

(* What spec 8.5 says an Execute event carries, read off the messages     *)
(* before position k: the text of the latest Parse of the statement the   *)
(* latest Bind names when it is named and was parsed, the latest Parse    *)
(* text otherwise, and the latest Bind's parameters.                      *)
BindBefore(k) == SelectLastInSubSeq(msgs, 1, k - 1, LAMBDA m : m.type = "Bind")
ParseBefore(k) == SelectLastInSubSeq(msgs, 1, k - 1, LAMBDA m : m.type = "Parse")
ParseOfBefore(s, k) ==
    SelectLastInSubSeq(msgs, 1, k - 1, LAMBDA m : m.type = "Parse" /\ m.name = s)

ResolvedText(k) ==
    LET b == BindBefore(k)
        s == IF b = 0 THEN Unnamed ELSE msgs[b].stmt
        np == ParseOfBefore(s, k)
        p == ParseBefore(k)
    IN IF s # Unnamed /\ np # 0 THEN msgs[np].text
       ELSE IF p # 0 THEN msgs[p].text ELSE EmptyText

ResolvedArgs(k) ==
    LET b == BindBefore(k)
    IN IF b = 0 THEN <<>> ELSE msgs[b].args

(* Prepared-statement resolution (spec 8.5): every Execute event carries  *)
(* the statement text and the arguments that the client's earlier Parse   *)
(* and Bind messages designate.                                           *)
ExecuteResolution ==
    \A i \in 1..Len(log) :
        log[i].ev.op = "Execute" =>
          /\ log[i].ev.query = ResolvedText(log[i].at)
          /\ log[i].ev.args = ResolvedArgs(log[i].at)


-----------------------------------------------------------------------------
(* The event stream of the connection, seen as EventStream: the count of  *)
(* events built is the counter behind generateID, and the channel holds   *)
(* the ids of the events on it.                                           *)
StreamIds == [i \in 1..Len(events) |-> events[i].id]

Stream == INSTANCE EventStream WITH n <- nextID, chan <- StreamIds

(* The capture implements the event stream (spec 4.6 and 8.3): every      *)
(* handler step that emits builds the next event, which the channel loses *)
(* only when full, every other client message leaves the stream alone,    *)
(* and the subscriber takes the oldest event.                             *)
ImplementsEventStream == Stream!Spec

=============================================================================
