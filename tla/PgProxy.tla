------------------------------ MODULE PgProxy ------------------------------
(***************************************************************************)
(* The acceptor of the PostgreSQL proxy (Proxy in src/unnamed/part_002):  *)
(* ListenAndServe with its accept loop and the goroutine that closes the  *)
(* listener when ctx is cancelled, one handleConn goroutine per accepted  *)
(* connection started with wg.Go, and Close, which closes p.listener and  *)
(* waits on the WaitGroup.  Close runs in its own goroutine, concurrently *)
(* with ListenAndServe.                                                    *)
(*                                                                         *)
(* A handler dials upstream and then relays until a peer leaves; what the *)
(* relay does in between is PgConn's.  Cancellation does not end a relay  *)
(* (PgConn, run conn_cancel), so a relay ends when its client or server   *)
(* leaves.                                                                 *)
(***************************************************************************)
EXTENDS Naturals, FiniteSets

CONSTANTS
    Conns,          \* client connections that may arrive
    CloseAfterCancel \* Close is called only after cancel(), as the tests do

ASSUME ProxyAssumption == IsFiniteSet(Conns) /\ CloseAfterCancel \in BOOLEAN

VARIABLES
    serve,      \* where the ListenAndServe goroutine is
    acc,        \* the connection Accept returned, awaiting wg.Go
    lis,        \* the net.Listener: "none", "open", "closed"
    field,      \* p.listener # nil
    ctxg,       \* the ctx goroutine of lines 48-51
    cancelled,  \* ctx is done
    closer,     \* where the goroutine calling Close is
    wg,         \* the WaitGroup counter
    cs          \* state of each client connection

vars == <<serve, acc, lis, field, ctxg, cancelled, closer, wg, cs>>

Live == {"accepted", "dial", "relay"}

-----------------------------------------------------------------------------
(* ListenAndServe                                                          *)
Listen ==
    /\ serve = "listen"
    /\ \/ lis' = "open" /\ serve' = "assign"
       \/ serve' = "returned" /\ UNCHANGED lis
    /\ UNCHANGED <<acc, field, ctxg, cancelled, closer, wg, cs>>

AssignListener ==
    /\ serve = "assign"
    /\ field' = TRUE
    /\ serve' = "go"
    /\ UNCHANGED <<acc, lis, ctxg, cancelled, closer, wg, cs>>

StartCtxWatch ==
    /\ serve = "go"
    /\ ctxg' = "waiting"
    /\ serve' = "accept"
    /\ UNCHANGED <<acc, lis, field, cancelled, closer, wg, cs>>

(* Fault: Accept errors are retried instead of ending the loop.           *)
AcceptRetry ==
    /\ serve = "accept"
    /\ \E c \in Conns :
         /\ lis = "open" /\ cs[c] = "backlog"
         /\ cs' = [cs EXCEPT ![c] = "accepted"]
         /\ acc' = c
         /\ serve' = "spawn"
    /\ UNCHANGED <<lis, field, ctxg, cancelled, closer, wg>>

(* lis.Accept blocks until a client is queued; on a closed listener it    *)
(* fails and ListenAndServe returns.                                      *)
Accept ==
    /\ serve = "accept"
    /\ \/ \E c \in Conns :
            /\ lis = "open" /\ cs[c] = "backlog"
            /\ cs' = [cs EXCEPT ![c] = "accepted"]
            /\ acc' = c
            /\ serve' = "spawn"
       \/ lis = "closed" /\ serve' = "returned" /\ UNCHANGED <<acc, cs>>
    /\ UNCHANGED <<lis, field, ctxg, cancelled, closer, wg>>

(* Fault: the handler goroutine is started without wg.Add.                *)
SpawnNoAdd ==
    /\ serve = "spawn"
    /\ cs' = [cs EXCEPT ![acc] = "dial"]
    /\ serve' = "accept"
    /\ UNCHANGED <<acc, lis, field, ctxg, cancelled, closer, wg>>

(* p.wg.Go: count the handler and start it.                                *)
Spawn ==
    /\ serve = "spawn"
    /\ wg' = wg + 1
    /\ cs' = [cs EXCEPT ![acc] = "dial"]
    /\ serve' = "accept"
    /\ UNCHANGED <<acc, lis, field, ctxg, cancelled, closer>>

(* The ctx goroutine: <-ctx.Done(), then lis.Close().                     *)
CtxWatch ==
    /\ ctxg = "waiting" /\ cancelled
    /\ ctxg' = "done"
    /\ lis' = "closed"
    /\ UNCHANGED <<serve, acc, field, cancelled, closer, wg, cs>>

-----------------------------------------------------------------------------
(* handleConn                                                              *)

(* Fault: handleConn keeps a deferred wg.Done of its own besides the one  *)
(* wg.Go calls.                                                          *)
DialDoneTwice(c) ==
    /\ cs[c] = "dial"
    /\ \/ ~cancelled /\ cs' = [cs EXCEPT ![c] = "relay"] /\ UNCHANGED wg
       \/ cs' = [cs EXCEPT ![c] = "done"] /\ wg' = wg - 2
    /\ UNCHANGED <<serve, acc, lis, field, ctxg, cancelled, closer>>

(* Fault: a failed dial returns without wg.Done.                          *)
DialNoDone(c) ==
    /\ cs[c] = "dial"
    /\ \/ ~cancelled /\ cs' = [cs EXCEPT ![c] = "relay"] /\ UNCHANGED wg
       \/ cs' = [cs EXCEPT ![c] = "done"] /\ UNCHANGED wg
    /\ UNCHANGED <<serve, acc, lis, field, ctxg, cancelled, closer>>

(* DialContext succeeds while ctx is live and upstream answers; when it   *)
(* fails the handler returns, its defer closes the client and wg.Go's     *)
(* wrapper calls wg.Done.                                                 *)
Dial(c) ==
    /\ cs[c] = "dial"
    /\ \/ ~cancelled /\ cs' = [cs EXCEPT ![c] = "relay"] /\ UNCHANGED wg
       \/ cs' = [cs EXCEPT ![c] = "done"] /\ wg' = wg - 1
    /\ UNCHANGED <<serve, acc, lis, field, ctxg, cancelled, closer>>

(* The relay returns once a peer leaves; the defers close both sockets.   *)
RelayEnd(c) ==
    /\ cs[c] = "relay"
    /\ cs' = [cs EXCEPT ![c] = "done"]
    /\ wg' = wg - 1
    /\ UNCHANGED <<serve, acc, lis, field, ctxg, cancelled, closer>>

-----------------------------------------------------------------------------
(* Close                                                                   *)
CallClose ==
    /\ closer = "idle"
    /\ CloseAfterCancel => cancelled
    /\ closer' = "check"
    /\ UNCHANGED <<serve, acc, lis, field, ctxg, cancelled, wg, cs>>

(* Lines 70-74: a nil p.listener skips the close; closing a listener that *)
(* is already closed fails, and Close returns that error at once.         *)
CloseListener ==
    /\ closer = "check"
    /\ \/ ~field /\ closer' = "wait" /\ UNCHANGED lis
       \/ field /\ lis = "open" /\ lis' = "closed" /\ closer' = "wait"
       \/ field /\ lis = "closed" /\ closer' = "returned" /\ UNCHANGED lis
    /\ UNCHANGED <<serve, acc, field, ctxg, cancelled, wg, cs>>

(* p.wg.Wait()                                                             *)
CloseWait ==
    /\ closer = "wait" /\ wg = 0
    /\ closer' = "returned"
    /\ UNCHANGED <<serve, acc, lis, field, ctxg, cancelled, wg, cs>>

-----------------------------------------------------------------------------
(* The environment: a client connects while the listener is open; the     *)
(* caller cancels ctx.                                                    *)
Connect(c) ==
    /\ lis = "open" /\ cs[c] = "new"
    /\ cs' = [cs EXCEPT ![c] = "backlog"]
    /\ UNCHANGED <<serve, acc, lis, field, ctxg, cancelled, closer, wg>>

Cancel ==
    /\ ~cancelled
    /\ cancelled' = TRUE
    /\ UNCHANGED <<serve, acc, lis, field, ctxg, closer, wg, cs>>

ProxyInit ==
    /\ serve = "listen" /\ acc \in Conns
    /\ lis = "none" /\ field = FALSE
    /\ ctxg = "none" /\ cancelled = FALSE
    /\ closer = "idle" /\ wg = 0
    /\ cs = [c \in Conns |-> "new"]

ProxyNext ==
    \/ Listen \/ AssignListener \/ StartCtxWatch \/ Accept \/ Spawn \/ CtxWatch
    \/ \E c \in Conns : Dial(c) \/ RelayEnd(c) \/ Connect(c)
    \/ CallClose \/ CloseListener \/ CloseWait \/ Cancel

(* Every goroutine of the proxy that can run eventually runs; clients and *)
(* servers eventually leave a relay.                                      *)
ProxyFairness ==
    /\ WF_vars(Listen) /\ WF_vars(AssignListener) /\ WF_vars(StartCtxWatch)
    /\ WF_vars(Accept) /\ WF_vars(Spawn) /\ WF_vars(CtxWatch)
    /\ \A c \in Conns : WF_vars(Dial(c)) /\ WF_vars(RelayEnd(c))
    /\ WF_vars(CloseListener) /\ WF_vars(CloseWait)

ProxySpec == ProxyInit /\ [][ProxyNext]_vars /\ ProxyFairness


-----------------------------------------------------------------------------
(* Type invariant.                                                         *)
ProxyTypeOK ==
    /\ serve \in {"listen", "assign", "go", "accept", "spawn", "returned"}
    /\ acc \in Conns
    /\ lis \in {"none", "open", "closed"} /\ field \in BOOLEAN
    /\ ctxg \in {"none", "waiting", "done"} /\ cancelled \in BOOLEAN
    /\ closer \in {"idle", "check", "wait", "returned"}
    /\ wg \in Nat
    /\ cs \in [Conns -> {"new", "backlog", "done"} \cup Live]

(* The WaitGroup counts the running handlers: wg.Go adds one for each     *)
(* connection it starts and every way handleConn returns (failed dial,    *)
(* relay ended) gives it back, so Wait sees zero exactly when no handler  *)
(* runs.                                                                  *)
Handlers == {c \in Conns : cs[c] \in {"dial", "relay"}}

WaitGroupCount == wg = Cardinality(Handlers)

(* Shutdown of the accept loop: once ctx is cancelled, ListenAndServe     *)
(* returns, through the ctx goroutine closing the listener and Accept     *)
(* failing on it, whatever connections are queued or being handed to      *)
(* wg.Go at that time.                                                    *)
ServeReturns == cancelled ~> serve = "returned"

(* Close does not hang: once called, it returns, after the listener is    *)
(* closed and every handler counted in the WaitGroup has finished,        *)
(* including the failed dials that return early from handleConn.         *)
CloseReturns == closer = "check" ~> closer = "returned"

(* Close shuts the acceptor down (spec 4.7 and 5): once Close has         *)
(* returned, the listener is not open, and no connection is being handled *)
(* or waiting for wg.Go, so no handler runs after it.                     *)
CloseShutsDown ==
    closer = "returned" =>
        /\ lis # "open"
        /\ \A c \in Conns : cs[c] \notin Live

(* Close's p.wg.Wait() returns only when no handleConn goroutine runs:   *)
(* the step in which Close leaves its wait finds every connection past   *)
(* its handler or not yet handed to one.                                 *)
WaitMeansNoHandler ==
    [][closer = "wait" /\ closer' = "returned" =>
         \A c \in Conns : cs[c] \notin {"dial", "relay"}]_vars

====
