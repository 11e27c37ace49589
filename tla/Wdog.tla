-------------------------------- MODULE Wdog --------------------------------
(***************************************************************************)
(* The watchdog of a function's pod (wdog/main.go, runner.go) and the      *)
(* proxy of its node (wdog/proxy.go).  The watchdog starts a runner, the   *)
(* process that executes the function, and talks to it over a queue; the   *)
(* gate calls the watchdog, or the proxy, which borrows the queue over a   *)
(* Unix socket and gives it back by closing the connection.  After an      *)
(* error, a timeout and a borrowing the runner is killed and started anew  *)
(* with a new queue: a generation.                                         *)
(***************************************************************************)
EXTENDS Integers, Sequences, FiniteSets

CONSTANTS
    WdCalls,       \* requests of the gate, each made once
    NoCall,        \* no request, nobody
    WdMaxGen,      \* bound on runners started
    WdMaxConn,     \* bound on connections of the proxy
    WdMaxTimeouts, \* bound on calls that take too long
    WdMaxCrashes   \* bound on crashes of the watchdog and of the proxy

ASSUME WdAssumption ==
    /\ NoCall \notin WdCalls
    /\ WdMaxGen \in Nat \ {0}
    /\ WdMaxConn \in Nat

WdGens == 1 .. WdMaxGen
WdConns == 1 .. WdMaxConn

VARIABLES
    gen,      \* the watchdog's runner: its newest generation
    q,        \* queue and runner of each generation
    wready,   \* runner.ready at the watchdog
    wlock,    \* runner.lock at the watchdog: the request that holds it
    cresp,    \* the connection the responder serves, 0 when it waits for one
    conn,     \* connections of the proxy: the proxy's Runner for each
    pmap,     \* prox_runners of the pod: a connection, 0 for none
    plock,    \* prox_lock: the request that holds it
    wdc,      \* requests: label, connection used, answer
    given,    \* ghost: calls a runner took from its queue
    returned, \* ghost: calls a runner returned from
    wdtimeouts, wdcrashes

wdVars == <<gen, q, wready, wlock, cresp, conn, pmap, plock, wdc, given, returned, wdtimeouts, wdcrashes>>

\* up: the runner lives; in, out: what is in the queue; run: what it executes
NewQ == [up |-> TRUE, in |-> <<>>, run |-> NoCall, out |-> <<>>]
DeadQ == [up |-> FALSE, in |-> <<>>, run |-> NoCall, out |-> <<>>]
\* st: new, dialed (in the responder's backlog), got (holds the queue), shut (by
\* the proxy); wd: the watchdog's end is open; lock: runner.lock at the proxy
NewConn == [st |-> "new", gen |-> 0, wd |-> FALSE, lock |-> NoCall]
WdIdle == [pc |-> "idle", via |-> 0, ans |-> NoCall]
WdLabels == {"idle", "dlock", "load", "plock", "dial", "read", "clock", "send", "recv", "restart", "done", "failed"}

WdTypeOK ==
    /\ gen \in WdGens /\ wready \in BOOLEAN
    /\ wlock \in WdCalls \cup {NoCall} /\ plock \in WdCalls \cup {NoCall}
    /\ cresp \in 0 .. WdMaxConn /\ pmap \in 0 .. WdMaxConn
    /\ \A k \in WdConns : conn[k].st \in {"new", "dialed", "got", "shut"} /\ conn[k].gen \in 0 .. WdMaxGen
    /\ \A c \in WdCalls : wdc[c].pc \in WdLabels /\ wdc[c].via \in 0 .. WdMaxConn
    /\ \A g \in WdGens : g > gen => q[g] = DeadQ
    \* what the proxy finds under the key is a queue it holds, and no other entry
    \* is in use
    /\ pmap # 0 => conn[pmap].st = "got"
    /\ \A k \in WdConns : conn[k].st = "got" /\ k # pmap => \E c \in WdCalls : wdc[c].pc = "read"

WdInit ==
    /\ gen = 1 /\ q = [g \in WdGens |-> IF g = 1 THEN NewQ ELSE DeadQ]
    /\ wready = TRUE /\ wlock = NoCall /\ cresp = 0
    /\ conn = [k \in WdConns |-> NewConn] /\ pmap = 0 /\ plock = NoCall
    /\ wdc = [c \in WdCalls |-> WdIdle]
    /\ given = {} /\ returned = {} /\ wdtimeouts = 0 /\ wdcrashes = 0

-----------------------------------------------------------------------------
WdGoto(c, l) == wdc' = [wdc EXCEPT ![c].pc = l]
WdFail(c) == WdGoto(c, "failed")
Ghosts == <<given, returned>>
Bounds == <<wdtimeouts, wdcrashes, Ghosts>>

\* restartLocal: kill, wait, close the queue; a new queue and a new runner.  The
\* runner that a failed start leaves without a process is not modelled.
NewRunner ==
    /\ gen < WdMaxGen /\ gen' = gen + 1
    /\ q' = [q EXCEPT ![gen] = DeadQ, ![gen + 1] = NewQ]

\* The runner: takes a message, and returns from it or exits
RunnerTake(g) ==
    /\ q[g].up /\ q[g].run = NoCall /\ q[g].in # <<>>
    /\ q' = [q EXCEPT ![g].run = Head(q[g].in), ![g].in = Tail(@)]
    /\ given' = given \cup {Head(q[g].in)}
    /\ UNCHANGED <<gen, wready, wlock, cresp, conn, pmap, plock, wdc, returned, wdtimeouts, wdcrashes>>

RunnerReturn(g) ==
    /\ q[g].run # NoCall
    /\ q' = [q EXCEPT ![g].run = NoCall, ![g].out = Append(@, q[g].run)]
    /\ returned' = returned \cup {q[g].run}
    /\ UNCHANGED <<gen, wready, wlock, cresp, conn, pmap, plock, wdc, given, wdtimeouts, wdcrashes>>

RunnerExit(g) ==
    /\ q[g].run # NoCall /\ q' = [q EXCEPT ![g].run = NoCall, ![g].up = FALSE]
    /\ UNCHANGED <<gen, wready, wlock, cresp, conn, pmap, plock, wdc, Bounds>>

-----------------------------------------------------------------------------
(* handleRun and doRun, at the watchdog (via = 0) and at the proxy.        *)

\* The queue the caller talks to
Q(c) == IF wdc[c].via = 0 THEN gen ELSE conn[wdc[c].via].gen

\* The lock is free, and is taken by whoever holds it until it is done
LockFree(c) == IF wdc[c].via = 0 THEN wlock = NoCall ELSE conn[wdc[c].via].lock = NoCall
SetLock(c, v) ==
    IF wdc[c].via = 0 THEN wlock' = v /\ UNCHANGED conn
    ELSE conn' = [conn EXCEPT ![wdc[c].via].lock = v] /\ UNCHANGED wlock
Ready(c) == IF wdc[c].via = 0 THEN wready ELSE conn[wdc[c].via].st = "got"

WdArrive(c) ==
    /\ wdc[c].pc = "idle"
    /\ \E l \in {"dlock", "load"} : WdGoto(c, l)
    /\ UNCHANGED <<gen, q, wready, wlock, cresp, conn, pmap, plock, Bounds>>

\* runner.lock.Lock; without a ready runner the request fails
WdLock(c) ==
    /\ wdc[c].pc \in {"dlock", "clock"} /\ LockFree(c)
    /\ IF Ready(c) THEN SetLock(c, c) /\ WdGoto(c, "send")
       ELSE WdFail(c) /\ UNCHANGED <<wlock, conn>>
    /\ UNCHANGED <<gen, q, wready, cresp, pmap, plock, Bounds>>

\* q.SendBytes: fails when the runner is gone
WdSend(c) ==
    /\ wdc[c].pc = "send"
    /\ IF q[Q(c)].up THEN q' = [q EXCEPT ![Q(c)].in = Append(@, c)] /\ WdGoto(c, "recv")
       ELSE WdGoto(c, "restart") /\ UNCHANGED q
    /\ UNCHANGED <<gen, wready, wlock, cresp, conn, pmap, plock, Bounds>>

\* q.Recv: the next message of the queue.  A result with an error of the function
\* is passed on, and the runner restarted.
WdRecv(c) ==
    LET g == Q(c)
    IN  /\ wdc[c].pc = "recv" /\ q[g].out # <<>>
        /\ q' = [q EXCEPT ![g].out = Tail(@)]
        /\ \/ wdc' = [wdc EXCEPT ![c].pc = "done", ![c].ans = Head(q[g].out)] /\ SetLock(c, NoCall)
           \/ WdGoto(c, "restart") /\ UNCHANGED <<wlock, conn>>
        /\ UNCHANGED <<gen, wready, cresp, pmap, plock, Bounds>>

\* q.Recv: EOF of a runner that exited
WdEof(c) ==
    /\ wdc[c].pc = "recv" /\ q[Q(c)].out = <<>> /\ ~q[Q(c)].up
    /\ WdGoto(c, "restart")
    /\ UNCHANGED <<gen, q, wready, wlock, cresp, conn, pmap, plock, Bounds>>

\* q.Recv: TIMEOUT of the receive timeout
WdTimeout(c) ==
    /\ wdc[c].pc = "recv" /\ q[Q(c)].out = <<>>
    /\ wdtimeouts < WdMaxTimeouts /\ wdtimeouts' = wdtimeouts + 1
    /\ WdGoto(c, "restart")
    /\ UNCHANGED <<gen, q, wready, wlock, cresp, conn, pmap, plock, wdcrashes, Ghosts>>

\* runner.restart at the watchdog, and the unlock
RestartLocal(c) ==
    /\ wdc[c].pc = "restart" /\ wdc[c].via = 0
    /\ NewRunner /\ WdFail(c) /\ wlock' = NoCall
    /\ UNCHANGED <<wready, cresp, conn, pmap, plock, Bounds>>

Shut(k) == [conn EXCEPT ![k].st = "shut", ![k].lock = NoCall]

RestartProxy_KeepsEntry(c) ==
    /\ wdc[c].pc = "restart" /\ wdc[c].via # 0
    /\ conn' = Shut(wdc[c].via) /\ WdFail(c)
    /\ UNCHANGED <<gen, q, wready, wlock, cresp, pmap, plock, Bounds>>

\* restartProxy: the queue and the connection are closed, the entry dropped
RestartProxy(c) ==
    /\ wdc[c].pc = "restart" /\ wdc[c].via # 0
    /\ conn' = Shut(wdc[c].via) /\ pmap' = 0 /\ WdFail(c)
    /\ UNCHANGED <<gen, q, wready, wlock, cresp, plock, Bounds>>

-----------------------------------------------------------------------------
(* handleProxy.                                                            *)

\* prox_runners.Load, first without and then with prox_lock
ProxyLoad(c) ==
    /\ wdc[c].pc = "load"
    /\ wdc' = [wdc EXCEPT ![c].pc = IF pmap # 0 THEN "clock" ELSE "plock", ![c].via = pmap]
    /\ UNCHANGED <<gen, q, wready, wlock, cresp, conn, pmap, plock, Bounds>>

ProxyLock(c) ==
    /\ wdc[c].pc = "plock" /\ plock = NoCall
    /\ IF pmap # 0 THEN wdc' = [wdc EXCEPT ![c].pc = "clock", ![c].via = pmap] /\ UNCHANGED plock
       ELSE WdGoto(c, "dial") /\ plock' = c
    /\ UNCHANGED <<gen, q, wready, wlock, cresp, conn, pmap, Bounds>>

\* makeProxyRunner: the connection waits until the responder accepts it
ProxyDial(c) ==
    /\ wdc[c].pc = "dial"
    /\ \E k \in WdConns :
          /\ conn[k].st = "new" /\ \A j \in 1 .. k - 1 : conn[j].st # "new"
          /\ conn' = [conn EXCEPT ![k].st = "dialed", ![k].wd = TRUE]
          /\ wdc' = [wdc EXCEPT ![c].pc = "read", ![c].via = k]
    /\ UNCHANGED <<gen, q, wready, wlock, cresp, pmap, plock, Bounds>>

\* ReadMsgUnix: the descriptors, or the end of the connection
ProxyRead(c) ==
    LET k == wdc[c].via
    IN  /\ wdc[c].pc = "read" /\ plock' = NoCall
        /\ \/ conn[k].st = "got" /\ pmap' = k /\ WdGoto(c, "clock") /\ UNCHANGED conn
           \/ /\ conn[k].st = "dialed" /\ ~conn[k].wd
              /\ conn' = Shut(k) /\ WdFail(c) /\ UNCHANGED pmap
        /\ UNCHANGED <<gen, q, wready, wlock, cresp, Bounds>>

\* The goroutine that watches for the watchdog's end of the connection
ProxyWatch(k) ==
    /\ conn[k].st = "got" /\ pmap = k /\ ~conn[k].wd /\ conn[k].lock = NoCall
    /\ conn' = Shut(k) /\ pmap' = 0
    /\ UNCHANGED <<gen, q, wready, wlock, cresp, plock, wdc, Bounds>>

-----------------------------------------------------------------------------
(* startCResponder.                                                        *)

CrAccept_KeepsReady(k) ==
    /\ cresp = 0 /\ conn[k].st = "dialed" /\ conn[k].wd /\ wlock = NoCall
    /\ conn' = [conn EXCEPT ![k].st = "got", ![k].gen = gen]
    /\ cresp' = k
    /\ UNCHANGED <<gen, q, wready, wlock, pmap, plock, wdc, Bounds>>

\* accept, and under the lock: the descriptors are sent, the runner is lent
CrAccept(k) ==
    /\ cresp = 0 /\ conn[k].st = "dialed" /\ conn[k].wd /\ wlock = NoCall
    /\ conn' = [conn EXCEPT ![k].st = "got", ![k].gen = gen]
    /\ wready' = FALSE /\ cresp' = k
    /\ UNCHANGED <<gen, q, wlock, pmap, plock, wdc, Bounds>>

\* the proxy disconnected: the runner is taken back and started anew
CrBack(k) ==
    /\ cresp = k /\ conn[k].st = "shut" /\ wlock = NoCall
    /\ NewRunner /\ wready' = TRUE /\ cresp' = 0
    /\ conn' = [conn EXCEPT ![k].wd = FALSE]
    /\ UNCHANGED <<wlock, pmap, plock, wdc, Bounds>>

-----------------------------------------------------------------------------
(* Crashes.                                                                *)

Direct(c) == wdc[c].via = 0 /\ wdc[c].pc \in {"dlock", "send", "recv", "restart"}
Proxied(c) == wdc[c].pc \in {"load", "plock", "dial", "read", "clock"} \/ (wdc[c].via # 0 /\ wdc[c].pc \in {"send", "recv", "restart"})
FailAll(P(_)) == wdc' = [c \in WdCalls |-> IF P(c) THEN [wdc[c] EXCEPT !.pc = "failed"] ELSE wdc[c]]

\* The container dies with its runner and Kubernetes starts it again; requests it
\* was serving fail at the gate, its connections end.
WdogCrash ==
    /\ wdcrashes < WdMaxCrashes /\ wdcrashes' = wdcrashes + 1
    /\ NewRunner /\ wready' = TRUE /\ wlock' = NoCall /\ cresp' = 0
    /\ conn' = [k \in WdConns |-> [conn[k] EXCEPT !.wd = FALSE]]
    /\ FailAll(Direct)
    /\ UNCHANGED <<pmap, plock, wdtimeouts, Ghosts>>

ProxyCrash ==
    /\ wdcrashes < WdMaxCrashes /\ wdcrashes' = wdcrashes + 1
    /\ conn' = [k \in WdConns |-> IF conn[k].st = "new" THEN conn[k] ELSE Shut(k)[k]]
    /\ pmap' = 0 /\ plock' = NoCall
    /\ FailAll(Proxied)
    /\ UNCHANGED <<gen, q, wready, wlock, cresp, wdtimeouts, Ghosts>>

\* a connection that ended in the backlog: the responder cannot write to it
CrSkip(k) ==
    /\ cresp = 0 /\ conn[k].st = "shut" /\ conn[k].wd
    /\ conn' = [conn EXCEPT ![k].wd = FALSE]
    /\ UNCHANGED <<gen, q, wready, wlock, cresp, pmap, plock, wdc, Bounds>>

-----------------------------------------------------------------------------
WdCallStep(c) ==
    \/ WdArrive(c) \/ WdLock(c) \/ WdSend(c) \/ WdRecv(c) \/ WdEof(c) \/ WdTimeout(c)
    \/ RestartLocal(c) \/ RestartProxy(c)
    \/ ProxyLoad(c) \/ ProxyLock(c) \/ ProxyDial(c) \/ ProxyRead(c)
WdNext ==
    \/ \E c \in WdCalls : WdCallStep(c)
    \/ \E g \in WdGens : RunnerTake(g) \/ RunnerReturn(g) \/ RunnerExit(g)
    \/ \E k \in WdConns : ProxyWatch(k) \/ CrAccept(k) \/ CrBack(k) \/ CrSkip(k)
    \/ WdogCrash \/ ProxyCrash

WdSpec == WdInit /\ [][WdNext]_wdVars

\* Goroutines run, a receive ends with an answer or with its timeout, the
\* responder and the watching goroutines wait for what ends.  Nothing is asked of
\* the function: it may never return.
WdServe(c) == wdc[c].pc # "idle" /\ WdCallStep(c)
WdRespond == \E k \in WdConns : CrAccept(k) \/ CrBack(k) \/ CrSkip(k)
WdFair ==
    /\ \A c \in WdCalls : WF_wdVars(WdServe(c))
    /\ WF_wdVars(WdRespond) /\ WF_wdVars(\E k \in WdConns : ProxyWatch(k))
WdLive == WdSpec /\ WdFair

-----------------------------------------------------------------------------
(* Properties.                                                             *)

\* Every call is answered, with a result or an error: nobody waits for ever for
\* the lock, for a queue that was lent, or for a connection.
CallAnswered ==
    \A c \in WdCalls : wdc[c].pc # "idle" ~> wdc[c].pc \in {"done", "failed"}

Outcome(c) ==
    CASE wdc[c].pc = "idle" -> "idle"
      [] wdc[c].pc = "done" -> IF wdc[c].ans = c THEN "done" ELSE "wrong"
      [] wdc[c].pc = "failed" -> "failed"
      [] OTHER -> "waiting"

Promise == INSTANCE OneAtATime WITH
    OaCalls <- WdCalls,
    oast <- [c \in WdCalls |-> Outcome(c)],
    oarun <- {q[g].run : g \in WdGens} \ {NoCall},
    oastarted <- given, oaran <- returned

\* The watchdog and the proxy together keep the promise of OneAtATime, whoever
\* lends the runner to whom: one call at a time, a call that nobody waits for
\* any more included, each at most once, and the result to its caller.
KeepsPromise == Promise!OaSpec
=============================================================================
