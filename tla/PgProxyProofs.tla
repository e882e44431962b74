---------------------------- MODULE PgProxyProofs ----------------------------
(***************************************************************************)
(* Proofs about the acceptor (PgProxy): the WaitGroup counter always      *)
(* equals the number of running handlers, for any finite set of client    *)
(* connections.                                                            *)
(***************************************************************************)
EXTENDS PgProxy, FiniteSetTheorems, TLAPS

(* WaitGroupCount is not inductive alone: wg.Go must find the connection  *)
(* Accept returned still waiting, so that starting it adds a handler.     *)
CountInv ==
    /\ ProxyTypeOK
    /\ WaitGroupCount
    /\ serve = "spawn" => cs[acc] = "accepted"

(* The set of running handlers is finite.                                 *)
LEMMA HandlersFinite ==
    ASSUME ProxyTypeOK
    PROVE  IsFiniteSet(Handlers) /\ IsFiniteSet(Handlers')
BY ProxyAssumption, FS_Subset DEF Handlers

(* A step that starts handler c adds one to the count of handlers.        *)
LEMMA HandlerAdded ==
    ASSUME ProxyTypeOK, NEW c \in Conns, cs[c] \notin {"dial", "relay"},
           cs' = [cs EXCEPT ![c] = "dial"]
    PROVE  Cardinality(Handlers') = Cardinality(Handlers) + 1
<1>1. Handlers' = Handlers \cup {c}
  BY DEF Handlers, ProxyTypeOK
<1>2. c \notin Handlers
  BY DEF Handlers
<1>3. QED BY <1>1, <1>2, HandlersFinite, FS_AddElement

(* A step that ends handler c removes one from the count of handlers.     *)
LEMMA HandlerRemoved ==
    ASSUME ProxyTypeOK, NEW c \in Conns, cs[c] \in {"dial", "relay"},
           cs' = [cs EXCEPT ![c] = "done"]
    PROVE  Cardinality(Handlers') = Cardinality(Handlers) - 1
<1>1. Handlers' = Handlers \ {c}
  BY DEF Handlers, ProxyTypeOK
<1>2. c \in Handlers
  BY DEF Handlers
<1>3. QED BY <1>1, <1>2, HandlersFinite, FS_RemoveElement

(* A step that moves c between two states that are not running keeps the  *)
(* set of handlers.                                                       *)
LEMMA HandlersKept ==
    ASSUME ProxyTypeOK, NEW c \in Conns, NEW v,
           cs[c] \in {"new", "backlog", "accepted"},
           v \in {"backlog", "accepted"},
           cs' = [cs EXCEPT ![c] = v]
    PROVE  Handlers' = Handlers
BY DEF Handlers, ProxyTypeOK

(* No handler runs and the counter is zero when the proxy starts.        *)
LEMMA CountInit == ProxyInit => CountInv
<1> SUFFICES ASSUME ProxyInit PROVE CountInv
  OBVIOUS
<1>1. Handlers = {}
  BY DEF ProxyInit, Handlers
<1>2. QED BY <1>1, FS_EmptySet DEF ProxyInit, CountInv, ProxyTypeOK, WaitGroupCount, Live

LEMMA CountStep == CountInv /\ [ProxyNext]_vars => CountInv'
<1> SUFFICES ASSUME CountInv, [ProxyNext]_vars PROVE CountInv'
  OBVIOUS
<1> USE DEF CountInv, ProxyTypeOK, WaitGroupCount, Live
<1>0. Cardinality(Handlers) \in Nat
  BY HandlersFinite, FS_CardinalityType
<1>1. CASE Listen \/ AssignListener \/ StartCtxWatch \/ CtxWatch
          \/ CallClose \/ CloseListener \/ CloseWait \/ Cancel
  BY <1>1 DEF Listen, AssignListener, StartCtxWatch, CtxWatch, CallClose,
              CloseListener, CloseWait, Cancel, Handlers
<1>2. CASE Accept
  <2>1. CASE \E c \in Conns :
               /\ lis = "open" /\ cs[c] = "backlog"
               /\ cs' = [cs EXCEPT ![c] = "accepted"]
               /\ acc' = c
               /\ serve' = "spawn"
    <3>1. PICK c \in Conns : /\ cs[c] = "backlog"
                             /\ cs' = [cs EXCEPT ![c] = "accepted"]
                             /\ acc' = c /\ serve' = "spawn"
      BY <2>1
    <3>2. Handlers' = Handlers
      BY <3>1, HandlersKept
    <3>3. QED BY <1>2, <3>1, <3>2 DEF Accept
  <2>2. CASE lis = "closed" /\ serve' = "returned" /\ UNCHANGED <<acc, cs>>
    BY <1>2, <2>2 DEF Accept, Handlers
  <2>3. QED BY <1>2, <2>1, <2>2 DEF Accept
<1>3. CASE Spawn
  <2>1. Cardinality(Handlers') = Cardinality(Handlers) + 1
    BY <1>3, HandlerAdded DEF Spawn
  <2>2. QED BY <1>0, <1>3, <2>1 DEF Spawn
<1>4. ASSUME NEW c \in Conns, Dial(c) PROVE CountInv'
  <2>1. CASE ~cancelled /\ cs' = [cs EXCEPT ![c] = "relay"] /\ UNCHANGED wg
    <3>1. Handlers' = Handlers
      BY <1>4, <2>1 DEF Dial, Handlers
    <3>2. QED BY <1>4, <2>1, <3>1 DEF Dial
  <2>2. CASE cs' = [cs EXCEPT ![c] = "done"] /\ wg' = wg - 1
    <3>1. Cardinality(Handlers') = Cardinality(Handlers) - 1
      BY <1>4, <2>2, HandlerRemoved DEF Dial
    <3>2. Cardinality(Handlers) # 0
      BY <1>4, HandlersFinite, FS_EmptySet DEF Dial, Handlers
    <3>3. QED BY <1>0, <1>4, <2>2, <3>1, <3>2 DEF Dial
  <2>3. QED BY <1>4, <2>1, <2>2 DEF Dial
<1>5. ASSUME NEW c \in Conns, RelayEnd(c) PROVE CountInv'
  <2>1. Cardinality(Handlers') = Cardinality(Handlers) - 1
    BY <1>5, HandlerRemoved DEF RelayEnd
  <2>2. Cardinality(Handlers) # 0
    BY <1>5, HandlersFinite, FS_EmptySet DEF RelayEnd, Handlers
  <2>3. QED BY <1>0, <1>5, <2>1, <2>2 DEF RelayEnd
<1>6. ASSUME NEW c \in Conns, Connect(c) PROVE CountInv'
  <2>1. Handlers' = Handlers
    BY <1>6, HandlersKept DEF Connect
  <2>2. QED BY <1>6, <2>1 DEF Connect
<1>7. CASE UNCHANGED vars
  BY <1>7 DEF vars, Handlers
<1>8. QED BY <1>1, <1>2, <1>3, <1>4, <1>5, <1>6, <1>7 DEF ProxyNext

(* The WaitGroup counter equals the number of handleConn goroutines       *)
(* running, for every finite set of connections: wg.Go and each return of *)
(* handleConn move it together with the handlers, so Close's Wait         *)
(* returns only when none runs, and the counter never goes negative (a    *)
(* negative counter panics in sync.WaitGroup).                            *)
THEOREM WaitGroupInvariant == ProxySpec => [](ProxyTypeOK /\ WaitGroupCount)
BY CountInit, CountStep, PTL DEF ProxySpec, CountInv

(* The type invariant on its own: every variable of the acceptor keeps    *)
(* its type in every behaviour, for every finite set of connections.      *)
COROLLARY ProxyTypeCorrect == ProxySpec => []ProxyTypeOK
BY WaitGroupInvariant, PTL

(* A step in which Close leaves p.wg.Wait() finds no handler running:    *)
(* Wait needs the counter at zero, and the counter is the number of      *)
(* handlers (CountInv).                                                   *)
LEMMA WaitStep ==
    CountInv /\ [ProxyNext]_vars =>
        (closer = "wait" /\ closer' = "returned" =>
            \A c \in Conns : cs[c] \notin {"dial", "relay"})
<1> SUFFICES ASSUME CountInv, [ProxyNext]_vars, closer = "wait", closer' = "returned"
             PROVE  \A c \in Conns : cs[c] \notin {"dial", "relay"}
  OBVIOUS
<1>1. wg = 0
  BY DEF ProxyNext, vars, Listen, AssignListener, StartCtxWatch, Accept, Spawn,
         CtxWatch, Dial, RelayEnd, Connect, CallClose, CloseListener, CloseWait, Cancel
<1>2. Handlers = {}
  BY <1>1, HandlersFinite, FS_EmptySet DEF CountInv, WaitGroupCount
<1>3. QED BY <1>2 DEF Handlers

(* Close's p.wg.Wait() returns only when no handleConn goroutine runs,    *)
(* for every finite set of connections and whenever Close is called.     *)
THEOREM WaitMeansNoHandlerHolds == ProxySpec => WaitMeansNoHandler
BY CountInit, CountStep, WaitStep, PTL DEF ProxySpec, WaitMeansNoHandler

=============================================================================
