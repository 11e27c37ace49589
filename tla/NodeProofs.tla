----------------------------- MODULE NodeProofs -----------------------------
(***************************************************************************)
(* What runs beside the gate, for every value of the constants: each part  *)
(* first, and at the end the specification that composes them.             *)
(***************************************************************************)
EXTENDS MCNode, BytesProofs

-----------------------------------------------------------------------------
(* The watchdog and the proxy implement OneAtATime, for every number of    *)
(* calls, runners, connections, timeouts and crashes.  The argument: only  *)
(* the newest runner lives, whoever talks to it holds the one lock that    *)
(* gives access to it (the watchdog's while the queue is not lent, that of *)
(* the one connection it is lent to otherwise), and whoever gets this lock *)
(* finds the queue empty, because a queue that may hold something late is  *)
(* only given up with its runner.                                          *)

InUse == {"send", "recv", "restart"}
Sent  == {"recv", "restart", "done", "failed"}
\* what a queue holds in one direction: one message at most
OneMsg == {<<>>} \cup {<<c>> : c \in WdCalls}

QRec == [up : BOOLEAN, in : OneMsg, run : WdCalls \cup {NoCall}, out : OneMsg]
ConnRec == [st : {"new", "dialed", "got", "shut"}, gen : 0 .. WdMaxGen, wd : BOOLEAN,
            lock : WdCalls \cup {NoCall}]
CallRec == [pc : WdLabels, via : 0 .. WdMaxConn, ans : WdCalls \cup {NoCall}]

\* the types, with the length of the queues
WdTypes ==
    /\ gen \in WdGens /\ wready \in BOOLEAN
    /\ wlock \in WdCalls \cup {NoCall} /\ plock \in WdCalls \cup {NoCall}
    /\ cresp \in 0 .. WdMaxConn /\ pmap \in 0 .. WdMaxConn
    /\ q \in [WdGens -> QRec] /\ conn \in [WdConns -> ConnRec] /\ wdc \in [WdCalls -> CallRec]
    /\ given \subseteq WdCalls /\ returned \subseteq WdCalls

\* Which lock a request works under (doRun): the watchdog's, with the runner at
\* hand, or that of a connection that holds a queue.
HeldBy(c) ==
    /\ wdc[c].pc \in {"idle", "dlock", "load", "plock", "dial"} => wdc[c].via = 0
    /\ wdc[c].pc \in {"read", "clock"} => wdc[c].via # 0
    /\ wdc[c].pc \in InUse =>
          IF wdc[c].via = 0 THEN wlock = c /\ wready
          ELSE conn[wdc[c].via].lock = c /\ conn[wdc[c].via].st = "got"
LocksHeld == \A c \in WdCalls : HeldBy(c)

\* The runner is lent to one connection at a time (startCResponder), and a
\* connection never holds the queue of a later runner.
LentOnce ==
    /\ wready <=> cresp = 0
    /\ \A k \in WdConns :
          /\ conn[k].gen <= gen
          /\ conn[k].st = "got" => conn[k].gen # 0
          /\ conn[k].st \in {"new", "dialed"} => conn[k].gen = 0
          /\ conn[k].gen = gen => cresp = k

Empty(z) == z.in = <<>> /\ z.run = NoCall /\ z.out = <<>>
\* somebody may lock the newest runner and talk to it
Offered == wready \/ \E k \in WdConns : conn[k].st = "got" /\ conn[k].gen = gen
\* c talks to the newest runner
Talks(c) == wdc[c].pc \in InUse /\ Q(c) = gen

\* The newest runner has one message at most, which is of a call that was sent:
\* in its queue before it was given to the function, out of it after.
OneMessage ==
    /\ \A g \in WdGens : g # gen => q[g] = DeadQ
    /\ q[gen].in = <<>> \/ (q[gen].run = NoCall /\ q[gen].out = <<>>)
    /\ q[gen].run = NoCall \/ q[gen].out = <<>>
    /\ \A c \in WdCalls :
          /\ q[gen].in = <<c>> => c \notin given /\ wdc[c].pc \in Sent
          /\ q[gen].run = c => c \in given
          /\ q[gen].out = <<c>> => c \in returned
          /\ c \in given => wdc[c].pc \in Sent

\* Whoever talks to the newest runner finds no message but its own, and none
\* before it sends it; a runner that is offered and not in use has none at all.
OwnMessage ==
    /\ \A c \in WdCalls : Talks(c) =>
          /\ q[gen].in \in {<<>>, <<c>>}
          /\ q[gen].run \in {NoCall, c}
          /\ q[gen].out \in {<<>>, <<c>>}
          /\ wdc[c].pc = "send" => Empty(q[gen])
    /\ Offered /\ (\A c \in WdCalls : ~Talks(c)) => Empty(q[gen])

WdInv == WdTypes /\ LocksHeld /\ LentOnce /\ OneMessage /\ OwnMessage
-----------------------------------------------------------------------------
\* What the operators on sequences do to the queues of one message.
LEMMA OneMsgFacts ==
    /\ <<>> \in OneMsg
    /\ \A c \in WdCalls :
          /\ <<c>> \in OneMsg /\ <<c>> # <<>>
          /\ Head(<<c>>) = c /\ Tail(<<c>>) = <<>> /\ Append(<<>>, c) = <<c>>
          /\ \A d \in WdCalls : <<c>> = <<d>> => c = d
    /\ \A m \in OneMsg : m = <<>> \/ \E c \in WdCalls : m = <<c>>
  BY DEF OneMsg

\* A connection that is named is one of the connections.
LEMMA ViaIsConn ==
    ASSUME NEW k \in 0 .. WdMaxConn, k # 0
    PROVE  k \in WdConns
  BY WdAssumption DEF WdConns

\* The queue a request talks to exists; one that is not the newest runner's is dead.
LEMMA UserFacts ==
    ASSUME WdInv, NEW c \in WdCalls, wdc[c].pc \in InUse
    PROVE  /\ Q(c) \in WdGens
           /\ Q(c) # gen => q[Q(c)] = DeadQ
           /\ wdc[c].via = 0 \/ wdc[c].via \in WdConns
<1>1. gen \in WdGens /\ conn \in [WdConns -> ConnRec] /\ wdc \in [WdCalls -> CallRec]
  BY DEF WdInv, WdTypes
<1>2. wdc[c].via = 0 \/ wdc[c].via \in WdConns
  BY <1>1, ViaIsConn, WdAssumption DEF CallRec
<1>3. CASE wdc[c].via = 0
  BY <1>1, <1>3 DEF Q
<1>4. CASE wdc[c].via \in WdConns
  <2>1. conn[wdc[c].via].st = "got" /\ wdc[c].via # 0
    BY <1>4, WdAssumption DEF WdInv, LocksHeld, HeldBy, WdConns
  <2>2. conn[wdc[c].via].gen \in WdGens
    BY <1>1, <1>4, <2>1, WdAssumption DEF WdInv, LentOnce, ConnRec, WdGens
  <2> QED
    BY <1>4, <2>1, <2>2 DEF Q, WdInv, OneMessage
<1> QED
  BY <1>2, <1>3, <1>4 DEF WdInv, OneMessage

\* One request at most talks to the newest runner.
LEMMA OneTalker ==
    ASSUME WdInv, NEW c \in WdCalls, NEW d \in WdCalls, Talks(c), Talks(d)
    PROVE  c = d
<1>1. /\ wdc[c].via = 0 \/ wdc[c].via \in WdConns
      /\ wdc[d].via = 0 \/ wdc[d].via \in WdConns
  BY UserFacts DEF Talks
<1>2. \A e \in {c, d} : wdc[e].via # 0 => cresp = wdc[e].via /\ cresp # 0
  BY <1>1 DEF Talks, Q, WdInv, LentOnce
<1> QED
  BY <1>2 DEF Talks, WdInv, LocksHeld, HeldBy, LentOnce

\* Whoever gets the lock of a ready runner is alone with it and finds it empty.
LEMMA LockFindsEmpty ==
    ASSUME WdInv, NEW c \in WdCalls, wdc[c].pc \in {"dlock", "clock"}, LockFree(c), Ready(c),
           Q(c) = gen
    PROVE  (\A d \in WdCalls : ~Talks(d)) /\ Empty(q[gen])
<1>1. wdc[c].via = 0 \/ wdc[c].via \in WdConns
  BY ViaIsConn, WdAssumption DEF CallRec, WdInv, WdTypes
<1>2. wdc[c].via # 0 => cresp = wdc[c].via /\ ~wready
  BY <1>1 DEF Q, WdInv, LentOnce
<1>3. ASSUME NEW d \in WdCalls, Talks(d) PROVE FALSE
  <2>1. wdc[d].via = 0 \/ wdc[d].via \in WdConns
    BY <1>3, UserFacts DEF Talks
  <2>2. wdc[d].via # 0 => cresp = wdc[d].via
    BY <1>3, <2>1 DEF Talks, Q, WdInv, LentOnce
  <2>3. wdc[d].via = wdc[c].via
    BY <1>2, <1>3, <2>2 DEF Talks, WdInv, LocksHeld, HeldBy, LentOnce, Ready
  <2> QED
    BY <1>3, <2>3, WdAssumption DEF Talks, WdInv, LocksHeld, HeldBy, LockFree
<1>4. Offered
  BY <1>1 DEF Offered, Ready, Q
<1> QED
  BY <1>3, <1>4 DEF WdInv, OwnMessage

\* Queues of one message keep their type.
LEMMA QueueTypes ==
    ASSUME WdInv, WdNext
    PROVE  q' \in [WdGens -> QRec] /\ gen' \in WdGens
<1>1. q \in [WdGens -> QRec] /\ gen \in WdGens
  BY DEF WdInv, WdTypes
<1>2. NewQ \in QRec /\ DeadQ \in QRec
  BY OneMsgFacts DEF NewQ, DeadQ, QRec
<1>3. ASSUME NewRunner PROVE q' \in [WdGens -> QRec] /\ gen' \in WdGens
  <2>1. gen + 1 \in WdGens
    BY <1>1, <1>3, WdAssumption DEF NewRunner, WdGens
  <2> QED
    BY <1>1, <1>2, <1>3, <2>1 DEF NewRunner
<1>4. ASSUME NEW c \in WdCalls, WdSend(c) PROVE q' \in [WdGens -> QRec] /\ gen' \in WdGens
  <2>0. wdc[c].pc = "send" /\ wdc[c].pc \in InUse
    BY <1>4 DEF WdSend, InUse
  <2>1. Q(c) \in WdGens /\ (q[Q(c)].up => q[Q(c)].in = <<>>)
    <3>1. Q(c) = gen => q[Q(c)].in = <<>>
      BY <2>0 DEF WdInv, OwnMessage, Talks, Empty
    <3>2. Q(c) # gen => q[Q(c)].up = FALSE
      BY <2>0, UserFacts DEF DeadQ
    <3> QED
      BY <2>0, <3>1, <3>2, UserFacts
  <2>2. q[Q(c)].up => Append(q[Q(c)].in, c) \in OneMsg
    BY <2>1, OneMsgFacts
  <2> QED
    BY <1>1, <1>4, <2>1, <2>2, ZenonT(40) DEF WdSend, QRec
<1>5. ASSUME NEW c \in WdCalls, WdRecv(c) PROVE q' \in [WdGens -> QRec] /\ gen' \in WdGens
  <2>0. wdc[c].pc \in InUse /\ q[Q(c)].out # <<>>
    BY <1>5 DEF WdRecv, InUse
  <2>1. Q(c) \in WdGens
    BY <2>0, UserFacts
  <2>2. Tail(q[Q(c)].out) \in OneMsg
    <3>1. q[Q(c)].out \in OneMsg
      BY <1>1, <2>1 DEF QRec
    <3> QED
      BY <2>0, <3>1, OneMsgFacts
  <2> QED
    BY <1>1, <1>5, <2>1, <2>2 DEF WdRecv, QRec
<1>6. ASSUME NEW g \in WdGens, RunnerTake(g) PROVE q' \in [WdGens -> QRec] /\ gen' \in WdGens
  <2>1. Head(q[g].in) \in WdCalls /\ Tail(q[g].in) \in OneMsg
    BY <1>1, <1>6, OneMsgFacts DEF RunnerTake, QRec
  <2> QED
    BY <1>1, <1>6, <2>1 DEF RunnerTake, QRec
<1>7. ASSUME NEW g \in WdGens, RunnerReturn(g) PROVE q' \in [WdGens -> QRec] /\ gen' \in WdGens
  <2>1. q[g].out = <<>>
    BY <1>7 DEF RunnerReturn, WdInv, OneMessage, DeadQ
  <2>2. Append(q[g].out, q[g].run) \in OneMsg
    BY <1>1, <1>7, <2>1, OneMsgFacts DEF RunnerReturn, QRec
  <2> QED
    BY <1>1, <1>7, <2>2 DEF RunnerReturn, QRec
<1>8. ASSUME NEW g \in WdGens, RunnerExit(g) PROVE q' \in [WdGens -> QRec] /\ gen' \in WdGens
  BY <1>1, <1>8 DEF RunnerExit, QRec
<1>9. CASE UNCHANGED <<q, gen>>
  BY <1>1, <1>9
<1> QED
  BY <1>3, <1>4, <1>5, <1>6, <1>7, <1>8, <1>9 DEF WdNext, WdCallStep, WdArrive, WdLock, WdEof,
     WdTimeout, RestartLocal, RestartProxy, ProxyLoad, ProxyLock, ProxyDial, ProxyRead,
     ProxyWatch, CrAccept, CrBack, CrSkip, WdogCrash, ProxyCrash

\* The proxy's connections keep their type.
LEMMA ConnTypes ==
    ASSUME WdInv, WdNext
    PROVE  conn' \in [WdConns -> ConnRec]
<1>1. conn \in [WdConns -> ConnRec] /\ wdc \in [WdCalls -> CallRec] /\ gen \in WdGens
  BY DEF WdInv, WdTypes
<1>2. gen \in 0 .. WdMaxGen
  BY <1>1, WdAssumption DEF WdGens
<1>3. \A c \in WdCalls : wdc[c].via = 0 \/ wdc[c].via \in WdConns
  BY <1>1, ViaIsConn DEF CallRec
<1>4. \A k \in WdConns : [conn[k] EXCEPT !.st = "shut", !.lock = NoCall] \in ConnRec
  BY <1>1 DEF ConnRec
<1>5. ASSUME NEW k \in WdConns PROVE Shut(k) \in [WdConns -> ConnRec]
  BY <1>1, <1>4 DEF Shut
<1>6. ASSUME NEW c \in WdCalls, WdLock(c) \/ WdRecv(c) PROVE conn' \in [WdConns -> ConnRec]
  BY <1>1, <1>3, <1>6, SMTT(30) DEF WdLock, WdRecv, SetLock, ConnRec
<1>7. ASSUME NEW c \in WdCalls, RestartProxy(c) \/ ProxyRead(c)
      PROVE  conn' \in [WdConns -> ConnRec]
  <2>1. wdc[c].via \in WdConns
    BY <1>3, <1>7 DEF RestartProxy, ProxyRead, WdInv, LocksHeld, HeldBy
  <2> QED
    BY <1>1, <1>5, <1>7, <2>1 DEF RestartProxy, ProxyRead
<1>8. ASSUME NEW c \in WdCalls, ProxyDial(c) PROVE conn' \in [WdConns -> ConnRec]
  <2>1. PICK k \in WdConns : conn' = [conn EXCEPT ![k].st = "dialed", ![k].wd = TRUE]
    BY <1>8 DEF ProxyDial
  <2> QED
    BY <1>1, <2>1, ZenonT(40) DEF ConnRec
<1>9. ASSUME NEW k \in WdConns, CrAccept(k) PROVE conn' \in [WdConns -> ConnRec]
  BY <1>1, <1>2, <1>9, ZenonT(40) DEF CrAccept, ConnRec
<1>10. ASSUME NEW k \in WdConns, CrBack(k) \/ CrSkip(k) PROVE conn' \in [WdConns -> ConnRec]
  BY <1>1, <1>10, ZenonT(40) DEF CrBack, CrSkip, ConnRec
<1>11. ASSUME NEW k \in WdConns, ProxyWatch(k) PROVE conn' \in [WdConns -> ConnRec]
  BY <1>5, <1>11 DEF ProxyWatch
<1>12. CASE WdogCrash
  BY <1>1, <1>12 DEF WdogCrash, ConnRec
<1>13. CASE ProxyCrash
  BY <1>1, <1>5, <1>13 DEF ProxyCrash
<1>14. CASE UNCHANGED conn
  BY <1>1, <1>14
<1> QED
  BY <1>6, <1>7, <1>8, <1>9, <1>10, <1>11, <1>12, <1>13, <1>14 DEF WdNext, WdCallStep,
     WdArrive, WdSend, WdEof, WdTimeout, RestartLocal, ProxyLoad, ProxyLock,
     RunnerTake, RunnerReturn, RunnerExit

\* The requests keep their type.
LEMMA CallTypes ==
    ASSUME WdInv, WdNext
    PROVE  wdc' \in [WdCalls -> CallRec]
<1>1. wdc \in [WdCalls -> CallRec] /\ pmap \in 0 .. WdMaxConn /\ q \in [WdGens -> QRec]
  BY DEF WdInv, WdTypes
<1>2. \A k \in WdConns : k \in 0 .. WdMaxConn
  BY WdAssumption DEF WdConns
<1> USE <1>1 DEF WdGoto, WdFail, CallRec, WdLabels
<1>3. ASSUME NEW c \in WdCalls,
             \/ WdArrive(c) \/ WdLock(c) \/ WdSend(c) \/ WdEof(c) \/ WdTimeout(c)
             \/ RestartLocal(c) \/ RestartProxy(c) \/ ProxyRead(c)
      PROVE  wdc' \in [WdCalls -> CallRec]
  <2>1. PICK l \in WdLabels : wdc' = [wdc EXCEPT ![c].pc = l]
    BY <1>3 DEF WdArrive, WdLock, WdSend, WdEof, WdTimeout, RestartLocal, RestartProxy, ProxyRead
  <2> QED
    BY <2>1
<1>4. ASSUME NEW c \in WdCalls, ProxyLoad(c) \/ ProxyLock(c) \/ ProxyDial(c)
      PROVE  wdc' \in [WdCalls -> CallRec]
  <2>1. PICK l \in WdLabels, k \in 0 .. WdMaxConn :
          wdc' = [wdc EXCEPT ![c].pc = l, ![c].via = k] \/ wdc' = [wdc EXCEPT ![c].pc = l]
    BY <1>2, <1>4 DEF ProxyLoad, ProxyLock, ProxyDial
  <2> QED
    BY <2>1
<1>5. ASSUME NEW c \in WdCalls, WdRecv(c) PROVE wdc' \in [WdCalls -> CallRec]
  <2>1. q[Q(c)].out # <<>> => Head(q[Q(c)].out) \in WdCalls
    <3>1. wdc[c].pc \in InUse
      BY <1>5 DEF WdRecv, InUse
    <3>2. q[Q(c)].out \in OneMsg
      BY <3>1, UserFacts DEF QRec
    <3> QED
      BY <3>2, OneMsgFacts
  <2> QED
    BY <1>5, <2>1, SMTT(30) DEF WdRecv
<1>6. CASE WdogCrash \/ ProxyCrash
  BY <1>6 DEF WdogCrash, ProxyCrash, FailAll
<1>7. CASE UNCHANGED wdc
  BY <1>7
<1> QED
  BY <1>3, <1>4, <1>5, <1>6, <1>7 DEF WdNext, WdCallStep, RunnerTake, RunnerReturn, RunnerExit,
     ProxyWatch, CrAccept, CrBack, CrSkip

\* WdTypes is kept.
LEMMA TypesStep ==
    ASSUME WdInv, WdNext
    PROVE  WdTypes'
<1>1. /\ wready \in BOOLEAN /\ wlock \in WdCalls \cup {NoCall} /\ plock \in WdCalls \cup {NoCall}
      /\ cresp \in 0 .. WdMaxConn /\ pmap \in 0 .. WdMaxConn
      /\ given \subseteq WdCalls /\ returned \subseteq WdCalls
      /\ q \in [WdGens -> QRec] /\ wdc \in [WdCalls -> CallRec]
  BY DEF WdInv, WdTypes
<1>2. wready' \in BOOLEAN /\ wlock' \in WdCalls \cup {NoCall} /\ plock' \in WdCalls \cup {NoCall}
  BY <1>1, ZenonT(40) DEF WdNext, WdCallStep, WdArrive, WdLock, SetLock, WdSend, WdRecv, WdEof, WdTimeout,
     RestartLocal, RestartProxy, ProxyLoad, ProxyLock, ProxyDial, ProxyRead, RunnerTake,
     RunnerReturn, RunnerExit, ProxyWatch, CrAccept, CrBack, CrSkip, WdogCrash, ProxyCrash
<1>3. cresp' \in 0 .. WdMaxConn /\ pmap' \in 0 .. WdMaxConn
  <2>1. /\ \A k \in WdConns : k \in 0 .. WdMaxConn
        /\ \A c \in WdCalls : wdc[c].via \in 0 .. WdMaxConn
        /\ 0 \in 0 .. WdMaxConn
    BY <1>1, WdAssumption DEF WdConns, CallRec
  <2> QED
    BY <1>1, <2>1 DEF WdNext, WdCallStep, WdArrive, WdLock, WdSend, WdRecv, WdEof, WdTimeout,
       RestartLocal, RestartProxy, ProxyLoad, ProxyLock, ProxyDial, ProxyRead, RunnerTake,
       RunnerReturn, RunnerExit, ProxyWatch, CrAccept, CrBack, CrSkip, WdogCrash, ProxyCrash
<1>4. given' \subseteq WdCalls /\ returned' \subseteq WdCalls
  <2>1. ASSUME NEW g \in WdGens, RunnerTake(g)
        PROVE  given' \subseteq WdCalls /\ returned' = returned
    <3>1. Head(q[g].in) \in WdCalls
      BY <1>1, <2>1, OneMsgFacts DEF RunnerTake, QRec
    <3> QED
      BY <1>1, <2>1, <3>1 DEF RunnerTake
  <2>2. ASSUME NEW g \in WdGens, RunnerReturn(g) PROVE returned' \subseteq WdCalls /\ given' = given
    BY <1>1, <2>2 DEF RunnerReturn, QRec
  <2>3. CASE UNCHANGED <<given, returned>>
    BY <1>1, <2>3
  <2> QED
    BY <1>1, <2>1, <2>2, <2>3 DEF WdNext, WdCallStep, WdArrive, WdLock, WdSend, WdRecv, WdEof,
       WdTimeout, RestartLocal, RestartProxy, ProxyLoad, ProxyLock, ProxyDial, ProxyRead,
       RunnerExit, ProxyWatch, CrAccept, CrBack, CrSkip, WdogCrash, ProxyCrash, Bounds, Ghosts
<1> QED
  BY <1>2, <1>3, <1>4, QueueTypes, ConnTypes, CallTypes DEF WdTypes

-----------------------------------------------------------------------------
\* A request works under the lock it took.
LEMMA LocksStep ==
    ASSUME WdInv, WdNext
    PROVE  LocksHeld'
<1>0. /\ conn \in [WdConns -> ConnRec] /\ wdc \in [WdCalls -> CallRec] /\ gen \in WdGens
      /\ conn' \in [WdConns -> ConnRec] /\ wdc' \in [WdCalls -> CallRec]
      /\ \A c \in WdCalls : wdc[c].via = 0 \/ wdc[c].via \in WdConns
      /\ 0 \notin WdConns /\ WdConns \subseteq Int /\ NoCall \notin WdCalls
  BY TypesStep, ViaIsConn, WdAssumption DEF WdInv, WdTypes, CallRec, WdConns
<1> USE <1>0 DEF WdInv, WdGoto, Bounds, Ghosts, InUse, LocksHeld, HeldBy, ConnRec, CallRec
<1>1. ASSUME NEW c \in WdCalls, WdArrive(c) PROVE LocksHeld'
  BY <1>1 DEF WdArrive
<1>2. ASSUME NEW c \in WdCalls, WdLock(c) PROVE LocksHeld'
  <2> SUFFICES ASSUME NEW d \in WdCalls PROVE HeldBy(d)'
    OBVIOUS
  <2>1. CASE d = c
    BY <1>2, <2>1 DEF WdLock, LockFree, Ready, SetLock, WdFail
  <2>2. CASE d # c
    BY <1>2, <2>2 DEF WdLock, LockFree, Ready, SetLock, WdFail
  <2> QED
    BY <2>1, <2>2
<1>3. ASSUME NEW c \in WdCalls, WdSend(c) PROVE LocksHeld'
  <2> SUFFICES ASSUME NEW d \in WdCalls PROVE HeldBy(d)'
    OBVIOUS
  <2>1. CASE d = c
    <3>1. /\ wdc'[c].via = wdc[c].via /\ wdc'[c].pc \in InUse /\ wdc[c].pc = "send"
          /\ wlock' = wlock /\ wready' = wready /\ conn' = conn
      BY <1>3 DEF WdSend
    <3>2. QED
      BY <2>1, <3>1
  <2>2. CASE d # c
    BY <1>3, <2>2 DEF WdSend, Q
  <2> QED
    BY <2>1, <2>2
<1>4. ASSUME NEW c \in WdCalls, WdRecv(c) PROVE LocksHeld'
  <2> SUFFICES ASSUME NEW d \in WdCalls PROVE HeldBy(d)'
    OBVIOUS
  <2>1. CASE d = c
    <3>1. /\ wdc[c].pc = "recv"
          /\ \/ wdc'[c].pc = "done"
             \/ /\ wdc'[c].pc = "restart" /\ wdc'[c].via = wdc[c].via
                /\ UNCHANGED <<wlock, conn, wready>>
      BY <1>4 DEF WdRecv
    <3> QED
      BY <2>1, <3>1
  <2>2. CASE d # c
    BY <1>4, <2>2 DEF WdRecv, SetLock
  <2> QED
    BY <2>1, <2>2
<1>5. ASSUME NEW c \in WdCalls, WdEof(c) PROVE LocksHeld'
  BY <1>5 DEF WdEof, Q
<1>6. ASSUME NEW c \in WdCalls, WdTimeout(c) PROVE LocksHeld'
  BY <1>6 DEF WdTimeout, Q
<1>7. ASSUME NEW c \in WdCalls, RestartLocal(c) PROVE LocksHeld'
  BY <1>7 DEF RestartLocal, NewRunner, WdFail
<1>8. ASSUME NEW c \in WdCalls, RestartProxy(c) PROVE LocksHeld'
  <2> SUFFICES ASSUME NEW d \in WdCalls PROVE HeldBy(d)'
    OBVIOUS
  <2>1. CASE d = c
    BY <1>8, <2>1 DEF RestartProxy, Shut, WdFail
  <2>2. CASE d # c
    <3>1. /\ wdc'[d] = wdc[d] /\ wlock' = wlock /\ wready' = wready
          /\ wdc[c].pc = "restart" /\ wdc[c].via # 0 /\ conn' = Shut(wdc[c].via)
      BY <1>8, <2>2 DEF RestartProxy, WdFail
    <3>2. \A k \in WdConns : k # wdc[c].via => conn'[k] = conn[k]
      BY <3>1 DEF Shut
    <3>3. conn[wdc[c].via].lock = c
      BY <3>1
    <3>4. wdc[d].pc \in InUse /\ wdc[d].via # 0 => wdc[d].via # wdc[c].via
      BY <2>2, <3>3
    <3> QED
      BY <3>1, <3>2, <3>4
  <2> QED
    BY <2>1, <2>2
<1>9. ASSUME NEW c \in WdCalls, ProxyLoad(c) PROVE LocksHeld'
  BY <1>9 DEF ProxyLoad
<1>10. ASSUME NEW c \in WdCalls, ProxyLock(c) PROVE LocksHeld'
  <2> SUFFICES ASSUME NEW d \in WdCalls PROVE HeldBy(d)'
    OBVIOUS
  <2>1. CASE d = c
    BY <1>10, <2>1 DEF ProxyLock
  <2>2. CASE d # c
    BY <1>10, <2>2 DEF ProxyLock
  <2> QED
    BY <2>1, <2>2
<1>11. ASSUME NEW c \in WdCalls, ProxyDial(c) PROVE LocksHeld'
  BY <1>11 DEF ProxyDial
<1>12. ASSUME NEW c \in WdCalls, ProxyRead(c) PROVE LocksHeld'
  <2> SUFFICES ASSUME NEW d \in WdCalls PROVE HeldBy(d)'
    OBVIOUS
  <2>1. CASE d = c
    BY <1>12, <2>1 DEF ProxyRead, Shut, WdFail
  <2>2. CASE d # c
    BY <1>12, <2>2, SMTT(30) DEF ProxyRead, Shut, WdFail
  <2> QED
    BY <2>1, <2>2
<1>13. ASSUME NEW g \in WdGens, RunnerTake(g) PROVE LocksHeld'
  BY <1>13 DEF RunnerTake
<1>14. ASSUME NEW g \in WdGens, RunnerReturn(g) PROVE LocksHeld'
  BY <1>14 DEF RunnerReturn
<1>15. ASSUME NEW g \in WdGens, RunnerExit(g) PROVE LocksHeld'
  BY <1>15 DEF RunnerExit
<1>16. ASSUME NEW k \in WdConns, ProxyWatch(k) PROVE LocksHeld'
  BY <1>16 DEF ProxyWatch, Shut
<1>17. ASSUME NEW k \in WdConns, CrAccept(k) PROVE LocksHeld'
  BY <1>17 DEF CrAccept, LentOnce
<1>18. ASSUME NEW k \in WdConns, CrBack(k) PROVE LocksHeld'
  BY <1>18 DEF CrBack, NewRunner, LentOnce
<1>19. ASSUME NEW k \in WdConns, CrSkip(k) PROVE LocksHeld'
  BY <1>19 DEF CrSkip
<1>20. CASE WdogCrash
  BY <1>20 DEF WdogCrash, NewRunner, FailAll, Direct, InUse
<1>21. CASE ProxyCrash
  <2> SUFFICES ASSUME NEW d \in WdCalls PROVE HeldBy(d)'
    OBVIOUS
  <2>1. /\ wdc'[d].via = wdc[d].via /\ wlock' = wlock /\ wready' = wready
        /\ wdc'[d].pc = IF Proxied(d) THEN "failed" ELSE wdc[d].pc
    BY <1>21 DEF ProxyCrash, FailAll
  <2> QED
    BY <2>1 DEF Proxied
<1> HIDE DEF WdInv, WdGoto, Bounds, Ghosts, InUse, LocksHeld, HeldBy, ConnRec, CallRec
<1> QED
  BY <1>1, <1>2, <1>3, <1>4, <1>5, <1>6, <1>7, <1>8, <1>9, <1>10, <1>11, <1>12, <1>13, <1>14, <1>15,
     <1>16, <1>17, <1>18, <1>19, <1>20, <1>21 DEF WdNext, WdCallStep

\* The runner is lent to one connection, of the newest runner.
LEMMA LentStep ==
    ASSUME WdInv, WdNext
    PROVE  LentOnce'
<1>0. /\ conn \in [WdConns -> ConnRec] /\ wdc \in [WdCalls -> CallRec] /\ gen \in WdGens
      /\ conn' \in [WdConns -> ConnRec] /\ wdc' \in [WdCalls -> CallRec]
      /\ \A c \in WdCalls : wdc[c].via = 0 \/ wdc[c].via \in WdConns
      /\ 0 \notin WdConns /\ WdConns \subseteq Int /\ NoCall \notin WdCalls
  BY TypesStep, ViaIsConn, WdAssumption DEF WdInv, WdTypes, CallRec, WdConns
<1> USE <1>0 DEF WdInv, WdGoto, Bounds, Ghosts, InUse, LentOnce, ConnRec, WdGens
<1>1. ASSUME NEW c \in WdCalls, WdArrive(c) PROVE LentOnce'
  BY <1>1 DEF WdArrive
<1>2. ASSUME NEW c \in WdCalls, WdLock(c) PROVE LentOnce'
  BY <1>2 DEF WdLock, LockFree, Ready, SetLock, WdFail
<1>3. ASSUME NEW c \in WdCalls, WdSend(c) PROVE LentOnce'
  BY <1>3 DEF WdSend, Q
<1>4. ASSUME NEW c \in WdCalls, WdRecv(c) PROVE LentOnce'
  <2>1. /\ UNCHANGED <<gen, wready, cresp>>
        /\ conn' = conn \/ conn' = [conn EXCEPT ![wdc[c].via].lock = NoCall]
    BY <1>4 DEF WdRecv, SetLock
  <2>2. \A k \in WdConns : conn'[k].st = conn[k].st /\ conn'[k].gen = conn[k].gen
    BY <2>1
  <2> QED
    BY <2>1, <2>2
<1>5. ASSUME NEW c \in WdCalls, WdEof(c) PROVE LentOnce'
  BY <1>5 DEF WdEof, Q
<1>6. ASSUME NEW c \in WdCalls, WdTimeout(c) PROVE LentOnce'
  BY <1>6 DEF WdTimeout, Q
<1>7. ASSUME NEW c \in WdCalls, RestartLocal(c) PROVE LentOnce'
  BY <1>7 DEF RestartLocal, NewRunner, WdFail
<1>8. ASSUME NEW c \in WdCalls, RestartProxy(c) PROVE LentOnce'
  BY <1>8 DEF RestartProxy, Shut, WdFail
<1>9. ASSUME NEW c \in WdCalls, ProxyLoad(c) PROVE LentOnce'
  BY <1>9 DEF ProxyLoad
<1>10. ASSUME NEW c \in WdCalls, ProxyLock(c) PROVE LentOnce'
  BY <1>10 DEF ProxyLock
<1>11. ASSUME NEW c \in WdCalls, ProxyDial(c) PROVE LentOnce'
  BY <1>11 DEF ProxyDial
<1>12. ASSUME NEW c \in WdCalls, ProxyRead(c) PROVE LentOnce'
  BY <1>12 DEF ProxyRead, Shut, WdFail
<1>13. ASSUME NEW g \in WdGens, RunnerTake(g) PROVE LentOnce'
  BY <1>13 DEF RunnerTake
<1>14. ASSUME NEW g \in WdGens, RunnerReturn(g) PROVE LentOnce'
  BY <1>14 DEF RunnerReturn
<1>15. ASSUME NEW g \in WdGens, RunnerExit(g) PROVE LentOnce'
  BY <1>15 DEF RunnerExit
<1>16. ASSUME NEW k \in WdConns, ProxyWatch(k) PROVE LentOnce'
  BY <1>16 DEF ProxyWatch, Shut
<1>17. ASSUME NEW k \in WdConns, CrAccept(k) PROVE LentOnce'
  BY <1>17 DEF CrAccept, LentOnce
<1>18. ASSUME NEW k \in WdConns, CrBack(k) PROVE LentOnce'
  BY <1>18 DEF CrBack, NewRunner
<1>19. ASSUME NEW k \in WdConns, CrSkip(k) PROVE LentOnce'
  BY <1>19 DEF CrSkip
<1>20. CASE WdogCrash
  BY <1>20 DEF WdogCrash, NewRunner, FailAll, Direct
<1>21. CASE ProxyCrash
  <2>1. UNCHANGED <<gen, wready, cresp>>
    BY <1>21 DEF ProxyCrash
  <2>2. ASSUME NEW k \in WdConns
        PROVE  (conn'[k].st = conn[k].st \/ conn'[k].st = "shut") /\ conn'[k].gen = conn[k].gen
    <3>1. conn'[k] = IF conn[k].st = "new" THEN conn[k] ELSE Shut(k)[k]
      BY <1>21 DEF ProxyCrash
    <3>2. Shut(k)[k].gen = conn[k].gen /\ Shut(k)[k].st = "shut"
      BY DEF Shut
    <3> QED
      BY <3>1, <3>2
  <2> QED
    BY <2>1, <2>2
<1> QED
  BY <1>1, <1>2, <1>3, <1>4, <1>5, <1>6, <1>7, <1>8, <1>9, <1>10, <1>11, <1>12, <1>13, <1>14, <1>15,
     <1>16, <1>17, <1>18, <1>19, <1>20, <1>21, SMTT(30) DEF WdNext, WdCallStep

-----------------------------------------------------------------------------
\* Steps that leave the queues alone.
CalmStep ==
    \/ \E c \in WdCalls : \/ WdArrive(c) \/ WdLock(c) \/ WdEof(c) \/ WdTimeout(c) \/ RestartProxy(c)
                          \/ ProxyLoad(c) \/ ProxyLock(c) \/ ProxyDial(c) \/ ProxyRead(c)
    \/ \E k \in WdConns : ProxyWatch(k) \/ CrAccept(k) \/ CrSkip(k)
    \/ ProxyCrash

\* A request that was sent is not sent again.
LEMMA SentStays ==
    ASSUME WdInv, WdNext, NEW c \in WdCalls, wdc[c].pc \in Sent
    PROVE  wdc'[c].pc \in Sent
<1> USE DEF WdInv, WdTypes, CallRec, Sent, WdGoto, WdFail
<1>1. ASSUME NEW d \in WdCalls, WdCallStep(d) PROVE wdc'[c].pc \in Sent
  <2>1. CASE d # c
    BY <1>1, <2>1 DEF WdCallStep, WdArrive, WdLock, WdSend, WdRecv, WdEof, WdTimeout,
       RestartLocal, RestartProxy, ProxyLoad, ProxyLock, ProxyDial, ProxyRead
  <2>2. CASE d = c
    <3>1. ~(WdArrive(c) \/ WdLock(c) \/ WdSend(c) \/ ProxyLoad(c) \/ ProxyLock(c) \/ ProxyDial(c) \/ ProxyRead(c))
      BY DEF WdArrive, WdLock, WdSend, ProxyLoad, ProxyLock, ProxyDial, ProxyRead
    <3>2. ASSUME WdRecv(c) \/ WdEof(c) \/ WdTimeout(c) PROVE wdc'[c].pc \in Sent
      BY <3>2 DEF WdRecv, WdEof, WdTimeout
    <3>3. ASSUME RestartLocal(c) \/ RestartProxy(c) PROVE wdc'[c].pc \in Sent
      BY <3>3 DEF RestartLocal, RestartProxy
    <3> QED
      BY <1>1, <2>2, <3>1, <3>2, <3>3 DEF WdCallStep
  <2> QED
    BY <2>1, <2>2
<1>2. CASE WdogCrash \/ ProxyCrash
  BY <1>2 DEF WdogCrash, ProxyCrash, FailAll
<1>3. CASE UNCHANGED wdc
  BY <1>3
<1> QED
  BY <1>1, <1>2, <1>3 DEF WdNext, RunnerTake, RunnerReturn, RunnerExit, ProxyWatch, CrAccept,
     CrBack, CrSkip

\* A new runner has an empty queue, and the old ones are dead (restartLocal).
LEMMA NewRunnerEmpty ==
    ASSUME WdInv, NewRunner
    PROVE  /\ gen' = gen + 1 /\ gen' \in WdGens
           /\ q'[gen'] = NewQ
           /\ \A g \in WdGens : g # gen' => q'[g] = DeadQ
<1>1. q \in [WdGens -> QRec] /\ gen \in WdGens /\ gen + 1 \in WdGens /\ gen # gen + 1
  BY WdAssumption DEF WdInv, WdTypes, NewRunner, WdGens
<1> QED
  BY <1>1 DEF NewRunner, WdInv, OneMessage

\* OneMessage is kept.
LEMMA OneMessageStep ==
    ASSUME WdInv, WdNext
    PROVE  OneMessage'
<1>1. /\ q \in [WdGens -> QRec] /\ gen \in WdGens /\ NoCall \notin WdCalls
      /\ \A c \in WdCalls : wdc[c].pc \in Sent => wdc'[c].pc \in Sent
  BY SentStays, WdAssumption DEF WdInv, WdTypes
<1>2. CASE CalmStep
  <2>1. UNCHANGED <<q, gen, given, returned>>
    BY <1>2 DEF CalmStep, WdArrive, WdLock, WdEof, WdTimeout, RestartProxy, ProxyLoad, ProxyLock,
       ProxyDial, ProxyRead, ProxyWatch, CrAccept, CrSkip, ProxyCrash, Bounds, Ghosts
  <2> QED
    BY <1>1, <2>1 DEF WdInv, OneMessage
<1>3. ASSUME NewRunner, UNCHANGED <<given, returned>> PROVE OneMessage'
  BY <1>1, <1>3, NewRunnerEmpty, OneMsgFacts DEF WdInv, OneMessage, NewQ
<1>4. ASSUME NEW c \in WdCalls, WdSend(c) PROVE OneMessage'
  <2>1. /\ wdc[c].pc = "send" /\ wdc[c].pc \in InUse /\ c \notin given
        /\ UNCHANGED <<gen, given, returned>>
    BY <1>4 DEF WdSend, InUse, WdInv, OneMessage, Sent, Bounds, Ghosts
  <2>2. CASE q' = q
    BY <1>1, <2>1, <2>2 DEF WdInv, OneMessage
  <2>3. CASE q' # q
    <3>1. Q(c) = gen
      BY <1>4, <2>1, <2>3, UserFacts DEF WdSend, DeadQ
    <3>2. Empty(q[gen]) /\ Append(q[gen].in, c) = <<c>>
      BY <2>1, <3>1, OneMsgFacts DEF WdInv, OwnMessage, Talks, Empty
    <3>3. q' = [q EXCEPT ![gen].in = <<c>>] /\ wdc'[c].pc \in Sent
      BY <1>4, <2>3, <3>1, <3>2 DEF WdSend, WdGoto, Sent, WdInv, WdTypes, CallRec
    <3>4. /\ q'[gen].in = <<c>> /\ q'[gen].run = NoCall /\ q'[gen].out = <<>>
          /\ \A g \in WdGens : g # gen => q'[g] = DeadQ
      BY <1>1, <3>2, <3>3 DEF Empty, QRec, WdInv, OneMessage
    <3> QED
      BY <1>1, <2>1, <3>3, <3>4, OneMsgFacts DEF WdInv, OneMessage
  <2> QED
    BY <2>2, <2>3
<1>5. ASSUME NEW c \in WdCalls, WdRecv(c) PROVE OneMessage'
  <2>1. wdc[c].pc \in InUse /\ q[Q(c)].out # <<>> /\ UNCHANGED <<gen, given, returned>>
    BY <1>5 DEF WdRecv, InUse, Bounds, Ghosts
  <2>2. Q(c) = gen
    BY <2>1, UserFacts DEF DeadQ
  <2>3. Tail(q[gen].out) = <<>>
    <3>1. q[gen].out \in OneMsg /\ q[gen].out # <<>>
      BY <1>1, <2>1, <2>2 DEF QRec
    <3> QED
      BY <3>1, OneMsgFacts
  <2>4. q' = [q EXCEPT ![gen].out = <<>>]
    BY <1>5, <2>2, <2>3 DEF WdRecv
  <2>5. /\ q'[gen].in = q[gen].in /\ q'[gen].run = q[gen].run /\ q'[gen].out = <<>>
        /\ \A g \in WdGens : g # gen => q'[g] = DeadQ
    BY <1>1, <2>4 DEF QRec, WdInv, OneMessage
  <2> QED
    BY <1>1, <2>1, <2>5, OneMsgFacts DEF WdInv, OneMessage
<1>6. ASSUME NEW g \in WdGens, RunnerTake(g) PROVE OneMessage'
  <2>1. g = gen
    BY <1>6 DEF RunnerTake, DeadQ, WdInv, OneMessage
  <2>2. PICK c \in WdCalls : q[gen].in = <<c>>
    BY <1>1, <1>6, <2>1, OneMsgFacts DEF RunnerTake, QRec
  <2>3. /\ q' = [q EXCEPT ![gen].run = c, ![gen].in = <<>>] /\ given' = given \cup {c}
        /\ UNCHANGED <<gen, wdc, returned>>
    BY <1>6, <2>1, <2>2, OneMsgFacts DEF RunnerTake
  <2>4. /\ q'[gen].in = <<>> /\ q'[gen].run = c /\ q'[gen].out = q[gen].out
        /\ \A h \in WdGens : h # gen => q'[h] = DeadQ
    BY <1>1, <2>3 DEF QRec, WdInv, OneMessage
  <2>5. q[gen].out = <<>> /\ wdc[c].pc \in Sent
    BY <2>2, OneMsgFacts DEF WdInv, OneMessage
  <2> QED
    BY <2>3, <2>4, <2>5, OneMsgFacts DEF WdInv, OneMessage
<1>7. ASSUME NEW g \in WdGens, RunnerReturn(g) PROVE OneMessage'
  <2>1. g = gen
    BY <1>7 DEF RunnerReturn, DeadQ, WdInv, OneMessage
  <2>2. PICK c \in WdCalls : q[gen].run = c
    BY <1>1, <1>7, <2>1 DEF RunnerReturn, QRec
  <2>3. q[gen].in = <<>> /\ q[gen].out = <<>> /\ c \in given
    BY <1>1, <2>2 DEF WdInv, OneMessage
  <2>4. /\ q' = [q EXCEPT ![gen].run = NoCall, ![gen].out = <<c>>]
        /\ returned' = returned \cup {c} /\ UNCHANGED <<gen, wdc, given>>
    BY <1>7, <2>1, <2>2, <2>3, OneMsgFacts DEF RunnerReturn
  <2>5. /\ q'[gen].in = <<>> /\ q'[gen].run = NoCall /\ q'[gen].out = <<c>>
        /\ \A h \in WdGens : h # gen => q'[h] = DeadQ
    BY <1>1, <2>3, <2>4 DEF QRec, WdInv, OneMessage
  <2> QED
    BY <1>1, <2>4, <2>5, OneMsgFacts DEF WdInv, OneMessage
<1>8. ASSUME NEW g \in WdGens, RunnerExit(g) PROVE OneMessage'
  <2>1. g = gen
    BY <1>8 DEF RunnerExit, DeadQ, WdInv, OneMessage
  <2>2. /\ q' = [q EXCEPT ![gen].run = NoCall, ![gen].up = FALSE]
        /\ UNCHANGED <<gen, wdc, given, returned>>
    BY <1>8, <2>1 DEF RunnerExit, Bounds, Ghosts
  <2>3. /\ q'[gen].in = q[gen].in /\ q'[gen].run = NoCall /\ q'[gen].out = q[gen].out
        /\ \A h \in WdGens : h # gen => q'[h] = DeadQ
    BY <1>1, <2>2 DEF QRec, WdInv, OneMessage
  <2> QED
    BY <1>1, <2>2, <2>3 DEF WdInv, OneMessage
<1> QED
  BY <1>2, <1>3, <1>4, <1>5, <1>6, <1>7, <1>8 DEF WdNext, WdCallStep, CalmStep, RestartLocal,
     CrBack, WdogCrash, Bounds, Ghosts

\* OwnMessage holds of a new runner: its queue is empty.
LEMMA OwnOfNew ==
    ASSUME WdInv, NewRunner
    PROVE  OwnMessage'
  BY NewRunnerEmpty DEF OwnMessage, NewQ, Empty

\* The steps of requests that leave the queues alone.
LEMMA OwnCalls ==
    ASSUME WdInv, NEW c \in WdCalls,
           \/ WdArrive(c) \/ WdLock(c) \/ WdEof(c) \/ WdTimeout(c) \/ RestartProxy(c)
           \/ ProxyLoad(c) \/ ProxyLock(c) \/ ProxyDial(c) \/ ProxyRead(c),
           WdTypes'
    PROVE  OwnMessage'
<1>1. /\ conn \in [WdConns -> ConnRec] /\ wdc \in [WdCalls -> CallRec] /\ gen \in WdGens
      /\ conn' \in [WdConns -> ConnRec] /\ wdc' \in [WdCalls -> CallRec]
      /\ \A d \in WdCalls : wdc[d].via = 0 \/ wdc[d].via \in WdConns
      /\ 0 \notin WdConns
  BY ViaIsConn, WdAssumption DEF WdInv, WdTypes, CallRec, WdConns
<1>2. CASE WdArrive(c) \/ ProxyLoad(c) \/ ProxyLock(c)
  <2>1. UNCHANGED <<q, gen, conn, wready>>
    BY <1>2 DEF WdArrive, ProxyLoad, ProxyLock
  <2>2. wdc[c].pc \notin InUse /\ wdc'[c].pc \notin InUse
    BY <1>1, <1>2 DEF WdArrive, ProxyLoad, ProxyLock, WdGoto, InUse, CallRec
  <2>3. \A d \in WdCalls : d # c => wdc'[d] = wdc[d]
    BY <1>1, <1>2 DEF WdArrive, ProxyLoad, ProxyLock, WdGoto
  <2>4. \A d \in WdCalls : Talks(d)' <=> Talks(d)
    BY <2>1, <2>2, <2>3 DEF Talks, Q
  <2> QED
    BY <2>1, <2>2, <2>3, <2>4 DEF Offered, Talks, OwnMessage, WdInv
<1>3. CASE WdEof(c) \/ WdTimeout(c)
  <2>1. UNCHANGED <<q, gen, conn, wready>>
    BY <1>3 DEF WdEof, WdTimeout
  <2>2. wdc[c].pc \in InUse /\ wdc'[c].pc = "restart" /\ wdc'[c].via = wdc[c].via
    BY <1>1, <1>3 DEF WdEof, WdTimeout, WdGoto, InUse, CallRec
  <2>3. \A d \in WdCalls : d # c => wdc'[d] = wdc[d]
    BY <1>1, <1>3 DEF WdEof, WdTimeout, WdGoto
  <2>4. \A d \in WdCalls : Talks(d)' <=> Talks(d)
    BY <2>1, <2>2, <2>3 DEF Talks, Q, InUse
  <2>5. \A d \in WdCalls : wdc'[d].pc = "send" => wdc[d].pc = "send"
    BY <2>2, <2>3
  <2> QED
    BY <2>1, <2>4, <2>5 DEF Offered, OwnMessage, WdInv, Empty
<1>4. CASE ProxyDial(c)
  <2>1. PICK k \in WdConns : /\ conn[k].st = "new"
                             /\ conn' = [conn EXCEPT ![k].st = "dialed", ![k].wd = TRUE]
                             /\ wdc' = [wdc EXCEPT ![c].pc = "read", ![c].via = k]
    BY <1>4 DEF ProxyDial
  <2>2. UNCHANGED <<q, gen, wready>> /\ wdc[c].pc = "dial"
    BY <1>4 DEF ProxyDial
  <2>3. \A j \in WdConns : /\ conn'[j].gen = conn[j].gen
                           /\ conn'[j].st = "got" <=> conn[j].st = "got"
    BY <1>1, <2>1
  <2>4. \A d \in WdCalls : d # c => wdc'[d] = wdc[d]
    BY <1>1, <2>1
  <2>5. wdc'[c].pc = "read"
    BY <1>1, <2>1
  <2>6. \A d \in WdCalls : Talks(d)' <=> Talks(d)
    BY <1>1, <2>2, <2>3, <2>4, <2>5 DEF Talks, Q, InUse
  <2>7. Offered' <=> Offered
    BY <2>2, <2>3 DEF Offered
  <2> QED
    BY <2>2, <2>4, <2>5, <2>6, <2>7 DEF OwnMessage, WdInv
<1>5. CASE ProxyRead(c)
  <2>1. /\ UNCHANGED <<q, gen, wready>> /\ wdc[c].pc = "read" /\ wdc[c].via \in WdConns
        /\ wdc' = [wdc EXCEPT ![c].pc = "clock"] \/ wdc' = [wdc EXCEPT ![c].pc = "failed"]
        /\ \/ conn' = conn
           \/ conn' = Shut(wdc[c].via) /\ conn[wdc[c].via].st = "dialed"
    BY <1>1, <1>5 DEF ProxyRead, WdGoto, WdFail, WdInv, LocksHeld, HeldBy
  <2>2. \A j \in WdConns : /\ conn'[j].gen = conn[j].gen
                           /\ conn'[j].st = "got" <=> conn[j].st = "got"
    <3>1. CASE conn' = conn
      BY <3>1
    <3>2. CASE conn' = Shut(wdc[c].via) /\ conn[wdc[c].via].st = "dialed"
      BY <1>1, <2>1, <3>2 DEF Shut
    <3> QED
      BY <2>1, <3>1, <3>2
  <2>3. (\A d \in WdCalls : d # c => wdc'[d] = wdc[d]) /\ wdc'[c].pc \in {"clock", "failed"}
    <3>1. PICK l \in {"clock", "failed"} : wdc' = [wdc EXCEPT ![c].pc = l]
      BY <2>1
    <3> QED
      BY <1>1, <3>1
  <2>4. wdc'[c].pc \in {"clock", "failed"}
    BY <2>3
  <2>5. \A d \in WdCalls : Talks(d)' <=> Talks(d)
    BY <1>1, <2>1, <2>2, <2>3, <2>4 DEF Talks, Q, InUse
  <2>6. Offered' <=> Offered
    BY <2>1, <2>2 DEF Offered
  <2> QED
    BY <2>1, <2>3, <2>4, <2>5, <2>6 DEF OwnMessage, WdInv
<1>6. CASE RestartProxy(c)
  <2>1. /\ UNCHANGED <<q, gen, wready>> /\ wdc[c].pc = "restart" /\ wdc[c].via \in WdConns
        /\ wdc' = [wdc EXCEPT ![c].pc = "failed"] /\ conn' = Shut(wdc[c].via)
    BY <1>1, <1>6 DEF RestartProxy, WdFail, WdGoto
  <2>2. \A j \in WdConns : /\ conn'[j].gen = conn[j].gen
                           /\ conn'[j].st = IF j = wdc[c].via THEN "shut" ELSE conn[j].st
    BY <1>1, <2>1 DEF Shut
  <2>3. \A d \in WdCalls : d # c => wdc'[d] = wdc[d]
    BY <1>1, <2>1
  <2>4. wdc'[c].pc = "failed"
    BY <1>1, <2>1
  <2>5. \A d \in WdCalls : Talks(d)' <=> Talks(d) /\ d # c
    BY <1>1, <2>1, <2>2, <2>3, <2>4 DEF Talks, Q, InUse
  <2>6. Talks(c) => ~Offered'
    <3> SUFFICES ASSUME Talks(c) PROVE ~Offered'
      OBVIOUS
    <3>1. cresp = wdc[c].via /\ ~wready
      BY <1>1, <2>1 DEF Talks, Q, WdInv, LentOnce
    <3> QED
      BY <2>1, <2>2, <3>1 DEF Offered, WdInv, LentOnce
  <2>7. Offered' => Offered
    BY <2>1, <2>2 DEF Offered
  <2> QED
    BY <2>1, <2>3, <2>4, <2>5, <2>6, <2>7 DEF OwnMessage, WdInv
<1>7. CASE WdLock(c)
  <2>1. UNCHANGED <<q, gen, wready>> /\ wdc[c].pc \in {"dlock", "clock"} /\ LockFree(c)
    BY <1>7 DEF WdLock
  <2>2. \A j \in WdConns : conn'[j].gen = conn[j].gen /\ conn'[j].st = conn[j].st
    <3>1. CASE conn' = conn
      BY <3>1
    <3>2. CASE conn' = [conn EXCEPT ![wdc[c].via].lock = c]
      BY <1>1, <3>2
    <3> QED
      BY <1>7, <3>1, <3>2 DEF WdLock, SetLock
  <2>3. Offered' <=> Offered
    BY <2>1, <2>2 DEF Offered
  <2>4. PICK l \in {"send", "failed"} : wdc' = [wdc EXCEPT ![c].pc = l] /\ (l = "send" => Ready(c))
    BY <1>7 DEF WdLock, WdGoto, WdFail
  <2>5. /\ wdc'[c].pc = l
        /\ \A d \in WdCalls : wdc'[d].via = wdc[d].via /\ (d # c => wdc'[d].pc = wdc[d].pc)
    BY <1>1, <2>4
  <2>6. \A d \in WdCalls : Q(d)' = Q(d)
    BY <1>1, <2>1, <2>2, <2>5 DEF Q
  <2>7. CASE Ready(c) /\ Q(c) = gen
    BY <2>1, <2>7, LockFindsEmpty DEF OwnMessage, Empty
  <2>8. CASE ~Ready(c)
    <3>1. wdc'[c].pc = "failed"
      BY <2>5, <2>8, <2>4
    <3>2. \A d \in WdCalls : Talks(d)' <=> Talks(d)
      BY <2>1, <2>5, <2>6, <3>1 DEF Talks, InUse
    <3> QED
      BY <2>1, <2>3, <2>5, <3>1, <3>2 DEF OwnMessage, WdInv, Empty
  <2>9. CASE Q(c) # gen
    <3>1. \A d \in WdCalls : Talks(d)' <=> Talks(d)
      BY <2>1, <2>5, <2>6, <2>9 DEF Talks, InUse
    <3> QED
      BY <2>1, <2>3, <2>5, <2>9, <3>1 DEF OwnMessage, WdInv, Empty, Talks
  <2> QED
    BY <2>7, <2>8, <2>9
<1> QED
  BY <1>2, <1>3, <1>4, <1>5, <1>6, <1>7

\* The steps of the responder and of the goroutines that watch connections.
LEMMA OwnConns ==
    ASSUME WdInv, NEW k \in WdConns, ProxyWatch(k) \/ CrAccept(k) \/ CrSkip(k)
    PROVE  OwnMessage'
<1>1. /\ conn \in [WdConns -> ConnRec] /\ wdc \in [WdCalls -> CallRec] /\ gen \in WdGens
      /\ \A d \in WdCalls : wdc[d].pc \in InUse => wdc[d].via = 0 \/ wdc[d].via \in WdConns
      /\ 0 \notin WdConns
  BY UserFacts, WdAssumption DEF WdInv, WdTypes, WdConns
<1>2. CASE ProxyWatch(k) \/ CrSkip(k)
  <2>1. UNCHANGED <<q, gen, wready, wdc>>
    BY <1>2 DEF ProxyWatch, CrSkip
  <2>2. \A j \in WdConns : /\ conn'[j].gen = conn[j].gen
                           /\ conn'[j].st = "got" => conn[j].st = "got"
    <3>1. CASE ProxyWatch(k)
      BY <1>1, <3>1 DEF ProxyWatch, Shut
    <3>2. CASE CrSkip(k)
      BY <1>1, <3>2 DEF CrSkip
    <3> QED
      BY <1>2, <3>1, <3>2
  <2>3. \A d \in WdCalls : Talks(d)' <=> Talks(d)
    BY <1>1, <2>1, <2>2 DEF Talks, Q
  <2>4. Offered' => Offered
    BY <2>1, <2>2 DEF Offered
  <2> QED
    BY <2>1, <2>3, <2>4 DEF OwnMessage, WdInv
<1>3. CASE CrAccept(k)
  <2>1. /\ UNCHANGED <<q, gen, wdc>> /\ cresp = 0 /\ conn[k].st = "dialed" /\ wlock = NoCall
        /\ conn' = [conn EXCEPT ![k].st = "got", ![k].gen = gen]
    BY <1>3 DEF CrAccept
  <2>2. \A d \in WdCalls : ~Talks(d)
    <3> SUFFICES ASSUME NEW d \in WdCalls, Talks(d) PROVE FALSE
      OBVIOUS
    <3>1. wdc[d].via = 0
      BY <1>1, <2>1 DEF Talks, Q, WdInv, LentOnce
    <3> QED
      BY <2>1, <3>1, WdAssumption DEF Talks, WdInv, LocksHeld, HeldBy
  <2>3. \A d \in WdCalls : wdc[d].pc \in InUse => wdc[d].via # k
    BY <1>1, <2>1 DEF WdInv, LocksHeld, HeldBy
  <2>4. \A j \in WdConns : j # k => conn'[j] = conn[j]
    BY <1>1, <2>1
  <2>5. \A d \in WdCalls : ~Talks(d)'
    BY <1>1, <2>1, <2>2, <2>3, <2>4 DEF Talks, Q
  <2>6. Empty(q[gen])
    BY <2>1, <2>2 DEF WdInv, OwnMessage, LentOnce, Offered
  <2> QED
    BY <2>1, <2>5, <2>6 DEF OwnMessage, Empty
<1> QED
  BY <1>2, <1>3

\* The proxy dies: the queue it was lent is not offered to anybody.
LEMMA OwnProxyCrash ==
    ASSUME WdInv, ProxyCrash
    PROVE  OwnMessage'
<1>1. /\ conn \in [WdConns -> ConnRec] /\ wdc \in [WdCalls -> CallRec] /\ gen \in WdGens
      /\ \A d \in WdCalls : wdc[d].pc \in InUse => wdc[d].via = 0 \/ wdc[d].via \in WdConns
      /\ 0 \notin WdConns
  BY UserFacts, WdAssumption DEF WdInv, WdTypes, WdConns
<1>2. /\ UNCHANGED <<q, gen, wready>>
      /\ \A d \in WdCalls : /\ wdc'[d].via = wdc[d].via
                            /\ wdc'[d].pc = IF Proxied(d) THEN "failed" ELSE wdc[d].pc
  BY <1>1 DEF ProxyCrash, FailAll
<1>3. ASSUME NEW j \in WdConns PROVE conn'[j].gen = conn[j].gen /\ conn'[j].st # "got"
  <2>1. conn'[j] = IF conn[j].st = "new" THEN conn[j] ELSE Shut(j)[j]
    BY DEF ProxyCrash
  <2>2. Shut(j)[j].gen = conn[j].gen /\ Shut(j)[j].st = "shut"
    BY <1>1 DEF Shut, ConnRec
  <2> QED
    BY <2>1, <2>2
<1>4. \A d \in WdCalls : Talks(d)' <=> Talks(d) /\ wdc[d].via = 0
  BY <1>1, <1>2, <1>3 DEF Talks, Q, Proxied, InUse
<1>5. Offered' => Offered /\ \A d \in WdCalls : Talks(d) => wdc[d].via = 0
  BY <1>1, <1>2, <1>3 DEF Offered, Talks, Q, WdInv, LentOnce
<1>6. \A d \in WdCalls : wdc'[d].pc = "send" => wdc[d].pc = "send"
  BY <1>2
<1> QED
  BY <1>2, <1>4, <1>5, <1>6 DEF OwnMessage, WdInv, Empty

\* The steps that put a message into the queue or take one out.
LEMMA OwnQueue ==
    ASSUME WdInv, WdNext,
           \/ \E c \in WdCalls : WdSend(c) \/ WdRecv(c)
           \/ \E g \in WdGens : RunnerTake(g) \/ RunnerReturn(g) \/ RunnerExit(g)
    PROVE  OwnMessage'
<1>1. /\ q \in [WdGens -> QRec] /\ wdc \in [WdCalls -> CallRec] /\ conn \in [WdConns -> ConnRec]
      /\ gen \in WdGens /\ NoCall \notin WdCalls
  BY WdAssumption DEF WdInv, WdTypes
<1>2. ASSUME NEW c \in WdCalls, WdSend(c) PROVE OwnMessage'
  <2>1. /\ wdc[c].pc = "send" /\ wdc[c].pc \in InUse /\ UNCHANGED <<gen, conn, wready>>
        /\ wdc' = [wdc EXCEPT ![c].pc = "recv"] \/ wdc' = [wdc EXCEPT ![c].pc = "restart"]
    BY <1>2 DEF WdSend, WdGoto, InUse
  <2>2. PICK l \in {"recv", "restart"} : wdc' = [wdc EXCEPT ![c].pc = l]
    BY <2>1
  <2>3. \A d \in WdCalls : /\ wdc'[d].via = wdc[d].via
                           /\ wdc'[d].pc = IF d = c THEN l ELSE wdc[d].pc
    BY <1>1, <2>2
  <2>4. \A d \in WdCalls : Talks(d)' <=> Talks(d)
    BY <2>1, <2>3 DEF Talks, Q, InUse
  <2>5. Offered' <=> Offered
    BY <2>1 DEF Offered
  <2>6. CASE q' = q
    BY <2>1, <2>3, <2>4, <2>5, <2>6 DEF OwnMessage, WdInv, Empty
  <2>7. CASE q' # q
    <3>1. Q(c) = gen /\ Talks(c)
      BY <1>2, <2>1, <2>7, UserFacts DEF WdSend, DeadQ, Talks
    <3>2. Empty(q[gen]) /\ Append(q[gen].in, c) = <<c>>
      BY <2>1, <3>1, OneMsgFacts DEF WdInv, OwnMessage, Empty
    <3>3. q'[gen].in = <<c>> /\ q'[gen].run = NoCall /\ q'[gen].out = <<>>
      BY <1>1, <1>2, <2>7, <3>1, <3>2 DEF WdSend, Empty, QRec
    <3>4. \A d \in WdCalls : Talks(d)' => d = c
      BY <2>4, <3>1, OneTalker
    <3> QED
      BY <2>1, <2>3, <2>4, <3>1, <3>3, <3>4 DEF OwnMessage
  <2> QED
    BY <2>6, <2>7
<1>3. ASSUME NEW c \in WdCalls, WdRecv(c) PROVE OwnMessage'
  <2>1. wdc[c].pc = "recv" /\ wdc[c].pc \in InUse /\ q[Q(c)].out # <<>> /\ UNCHANGED <<gen, wready>>
    BY <1>3 DEF WdRecv, InUse
  <2>2. Q(c) = gen /\ Talks(c)
    BY <2>1, UserFacts DEF DeadQ, Talks
  <2>3. q[gen].out = <<c>>
    BY <2>1, <2>2 DEF WdInv, OwnMessage
  <2>4. /\ q'[gen].in = q[gen].in /\ q'[gen].run = q[gen].run /\ q'[gen].out = <<>>
        /\ q[gen].in = <<>> /\ q[gen].run = NoCall
    BY <1>1, <1>3, <2>2, <2>3, OneMsgFacts DEF WdRecv, QRec, WdInv, OneMessage
  <2>5. Empty(q'[gen])
    BY <2>4 DEF Empty
  <2>6. \/ wdc' = [wdc EXCEPT ![c].pc = "restart"]
        \/ \E a \in WdCalls : wdc' = [wdc EXCEPT ![c].pc = "done", ![c].ans = a]
    BY <1>3, <2>2, <2>3, OneMsgFacts DEF WdRecv, WdGoto
  <2>7. \A d \in WdCalls : wdc'[d].pc = "send" => wdc[d].pc = "send"
    <3>1. CASE wdc' = [wdc EXCEPT ![c].pc = "restart"]
      BY <1>1, <3>1
    <3>2. ASSUME NEW a \in WdCalls, wdc' = [wdc EXCEPT ![c].pc = "done", ![c].ans = a]
          PROVE  \A d \in WdCalls : wdc'[d].pc = "send" => wdc[d].pc = "send"
      BY <1>1, <3>2
    <3> QED
      BY <2>6, <3>1, <3>2
  <2> QED
    BY <2>1, <2>5 DEF OwnMessage, Empty
<1>4. ASSUME NEW g \in WdGens, RunnerTake(g) PROVE OwnMessage'
  <2>1. g = gen
    BY <1>4 DEF RunnerTake, DeadQ, WdInv, OneMessage
  <2>2. PICK c \in WdCalls : q[gen].in = <<c>>
    BY <1>1, <1>4, <2>1, OneMsgFacts DEF RunnerTake, QRec
  <2>3. /\ q' = [q EXCEPT ![gen].run = c, ![gen].in = <<>>]
        /\ UNCHANGED <<gen, wdc, conn, wready>>
    BY <1>4, <2>1, <2>2, OneMsgFacts DEF RunnerTake
  <2>4. q'[gen].in = <<>> /\ q'[gen].run = c /\ q'[gen].out = q[gen].out
    BY <1>1, <2>3 DEF QRec
  <2>5. (\A d \in WdCalls : Talks(d)' <=> Talks(d)) /\ (Offered' <=> Offered)
    BY <2>3 DEF Talks, Q, Offered
  <2>6. ~Empty(q[gen]) /\ \A d \in WdCalls : Talks(d) => d = c
    BY <2>2, OneMsgFacts DEF Empty, WdInv, OwnMessage
  <2> QED
    BY <2>3, <2>4, <2>5, <2>6 DEF WdInv, OwnMessage
<1>5. ASSUME NEW g \in WdGens, RunnerReturn(g) PROVE OwnMessage'
  <2>1. g = gen
    BY <1>5 DEF RunnerReturn, DeadQ, WdInv, OneMessage
  <2>2. PICK c \in WdCalls : q[gen].run = c
    BY <1>1, <1>5, <2>1 DEF RunnerReturn, QRec
  <2>3. q[gen].out = <<>> /\ q[gen].in = <<>>
    BY <1>1, <2>2 DEF WdInv, OneMessage
  <2>4. /\ q' = [q EXCEPT ![gen].run = NoCall, ![gen].out = <<c>>]
        /\ UNCHANGED <<gen, wdc, conn, wready>>
    BY <1>5, <2>1, <2>2, <2>3, OneMsgFacts DEF RunnerReturn
  <2>5. q'[gen].in = <<>> /\ q'[gen].run = NoCall /\ q'[gen].out = <<c>>
    BY <1>1, <2>3, <2>4 DEF QRec
  <2>6. (\A d \in WdCalls : Talks(d)' <=> Talks(d)) /\ (Offered' <=> Offered)
    BY <2>4 DEF Talks, Q, Offered
  <2>7. ~Empty(q[gen]) /\ \A d \in WdCalls : Talks(d) => d = c
    BY <1>1, <2>2 DEF Empty, WdInv, OwnMessage
  <2> QED
    BY <2>4, <2>5, <2>6, <2>7 DEF WdInv, OwnMessage
<1>6. ASSUME NEW g \in WdGens, RunnerExit(g) PROVE OwnMessage'
  <2>1. g = gen
    BY <1>6 DEF RunnerExit, DeadQ, WdInv, OneMessage
  <2>2. /\ q' = [q EXCEPT ![gen].run = NoCall, ![gen].up = FALSE]
        /\ UNCHANGED <<gen, wdc, conn, wready>>
    BY <1>6, <2>1 DEF RunnerExit
  <2>3. q'[gen].in = q[gen].in /\ q'[gen].run = NoCall /\ q'[gen].out = q[gen].out
    BY <1>1, <2>2 DEF QRec
  <2>4. (\A d \in WdCalls : Talks(d)' <=> Talks(d)) /\ (Offered' <=> Offered)
    BY <2>2 DEF Talks, Q, Offered
  <2>5. /\ \A d \in WdCalls : Talks(d) =>
              /\ q'[gen].in \in {<<>>, <<d>>} /\ q'[gen].run \in {NoCall, d}
              /\ q'[gen].out \in {<<>>, <<d>>} /\ (wdc[d].pc = "send" => Empty(q'[gen]))
        /\ Offered /\ (\A d \in WdCalls : ~Talks(d)) => Empty(q'[gen])
    BY <2>3 DEF WdInv, OwnMessage, Empty
  <2>6. UNCHANGED <<gen, wdc>>
    BY <2>2
  <2> QED
    BY <2>4, <2>5, <2>6 DEF OwnMessage
<1> QED
  BY <1>2, <1>3, <1>4, <1>5, <1>6

\* OwnMessage is kept.
LEMMA OwnStep ==
    ASSUME WdInv, WdNext, WdTypes'
    PROVE  OwnMessage'
  BY OwnOfNew, OwnCalls, OwnConns, OwnProxyCrash, OwnQueue DEF WdNext, WdCallStep, RestartLocal,
     CrBack, WdogCrash

\* The inductive invariant holds of every state.
LEMMA WdInvHolds == WdSpec => []WdInv
<1>1. WdInit => WdInv
  <2> SUFFICES ASSUME WdInit PROVE WdInv
    OBVIOUS
  <2>1. NewQ \in QRec /\ DeadQ \in QRec /\ NewConn \in ConnRec /\ WdIdle \in CallRec
    BY WdAssumption, OneMsgFacts DEF NewQ, DeadQ, NewConn, WdIdle, QRec, ConnRec, CallRec, WdLabels
  <2>2. 1 \in WdGens /\ 0 # gen
    BY WdAssumption DEF WdGens, WdInit
  <2>3. WdTypes
    BY <2>1, <2>2, WdAssumption DEF WdInit, WdTypes
  <2>4. LocksHeld
    BY DEF WdInit, WdIdle, LocksHeld, HeldBy, InUse
  <2>5. LentOnce
    BY <2>2 DEF WdInit, NewConn, LentOnce
  <2>6. OneMessage
    BY <2>2, OneMsgFacts, WdAssumption DEF WdInit, NewQ, OneMessage
  <2>7. OwnMessage
    BY <2>2 DEF WdInit, NewQ, WdIdle, OwnMessage, Empty, Talks, InUse
  <2> QED
    BY <2>3, <2>4, <2>5, <2>6, <2>7 DEF WdInv
<1>2. WdInv /\ [WdNext]_wdVars => WdInv'
  <2> SUFFICES ASSUME WdInv, [WdNext]_wdVars PROVE WdInv'
    OBVIOUS
  <2>1. CASE WdNext
    BY <2>1, TypesStep, LocksStep, LentStep, OneMessageStep, OwnStep DEF WdInv
  <2>2. CASE UNCHANGED wdVars
    BY <2>2 DEF wdVars, WdInv, WdTypes, LocksHeld, HeldBy, LentOnce, OneMessage, OwnMessage,
       Talks, Q, Offered, Empty
  <2> QED
    BY <2>1, <2>2
<1> QED
  BY <1>1, <1>2, PTL DEF WdSpec

-----------------------------------------------------------------------------
(* The refinement: what the callers and the function see of a state.       *)

Out == [c \in WdCalls |-> Outcome(c)]
Running == {q[g].run : g \in WdGens} \ {NoCall}
Waits(c) == wdc[c].pc \notin {"idle", "done", "failed"}

\* What a call's label says of it.
LEMMA OutcomeOf ==
    ASSUME NEW c \in WdCalls
    PROVE  /\ Waits(c) => Outcome(c) = "waiting"
           /\ wdc[c].pc = "idle" => Outcome(c) = "idle"
           /\ wdc[c].pc = "failed" => Outcome(c) = "failed"
           /\ wdc[c].pc = "done" /\ wdc[c].ans = c => Outcome(c) = "done"
           /\ wdc[c].pc # "idle" => Outcome(c) # "idle"
  BY DEF Waits, Outcome

\* The function is run by the newest runner only.
LEMMA RunOfNewest ==
    ASSUME WdInv
    PROVE  Running = {q[gen].run} \ {NoCall}
<1>1. \A g \in WdGens : g # gen => q[g].run = NoCall
  BY DEF WdInv, OneMessage, DeadQ
<1>2. gen \in WdGens
  BY DEF WdInv, WdTypes
<1> QED
  BY <1>1, <1>2 DEF Running

\* With a new runner nothing runs.
LEMMA NewRunnerRuns ==
    ASSUME WdInv, WdInv', NewRunner
    PROVE  Running' = {}
<1>1. q'[gen'].run = NoCall
  BY NewRunnerEmpty DEF NewQ, Empty
<1>2. \A g \in WdGens : g # gen' => q'[g].run = NoCall
  BY DEF WdInv, OneMessage, DeadQ
<1> QED
  BY <1>1, <1>2 DEF Running

\* A step of one request: it arrives, fails, goes on, or is answered with the
\* result of its own run.  Only the restart of the runner touches what runs.
LEMMA RequestSteps ==
    ASSUME WdInv, WdInv', NEW c \in WdCalls, WdCallStep(c)
    PROVE  /\ \A d \in WdCalls : d # c => wdc'[d] = wdc[d]
           /\ UNCHANGED <<given, returned>>
           /\ \/ wdc[c].pc = "idle" /\ Waits(c)' /\ Running' = Running
              \/ Waits(c) /\ Waits(c)' /\ Running' = Running
              \/ Waits(c) /\ wdc'[c].pc = "failed" /\ Running' \in {Running, {}}
              \/ /\ Waits(c) /\ wdc'[c].pc = "done" /\ wdc'[c].ans = c
                 /\ c \in returned /\ Running' = Running
<1>1. /\ q \in [WdGens -> QRec] /\ wdc \in [WdCalls -> CallRec]
      /\ gen \in WdGens /\ NoCall \notin WdCalls
  BY WdAssumption DEF WdInv, WdTypes
<1>2. CASE \/ WdArrive(c) \/ WdEof(c) \/ WdTimeout(c) \/ ProxyLoad(c) \/ ProxyLock(c)
  <2>1. UNCHANGED <<q, given, returned>> /\ \A d \in WdCalls : d # c => wdc'[d] = wdc[d]
    BY <1>1, <1>2 DEF WdArrive, WdEof, WdTimeout, ProxyLoad, ProxyLock, WdGoto, Bounds, Ghosts
  <2>2. Waits(c)' /\ (wdc[c].pc = "idle" \/ Waits(c))
    BY <1>1, <1>2 DEF WdArrive, WdEof, WdTimeout, ProxyLoad, ProxyLock, WdGoto, Waits, CallRec
  <2> QED
    BY <2>1, <2>2 DEF Running
<1>3. CASE WdLock(c)
  <2>1. UNCHANGED <<q, given, returned>> /\ Waits(c)
    BY <1>3 DEF WdLock, Waits, Bounds, Ghosts
  <2>2. PICK l \in {"send", "failed"} : wdc' = [wdc EXCEPT ![c].pc = l]
    BY <1>3 DEF WdLock, WdGoto, WdFail
  <2>3. wdc'[c].pc = l /\ \A d \in WdCalls : d # c => wdc'[d] = wdc[d]
    BY <1>1, <2>2
  <2> QED
    BY <2>1, <2>3 DEF Running, Waits
<1>4. CASE WdSend(c)
  <2>1. UNCHANGED <<given, returned>> /\ Waits(c)
    BY <1>4 DEF WdSend, Waits, Bounds, Ghosts
  <2>2. PICK l \in {"recv", "restart"} : wdc' = [wdc EXCEPT ![c].pc = l]
    BY <1>4 DEF WdSend, WdGoto
  <2>3. wdc'[c].pc = l /\ \A d \in WdCalls : d # c => wdc'[d] = wdc[d]
    BY <1>1, <2>2
  <2>4. \A g \in WdGens : q'[g].run = q[g].run
    <3>1. CASE q' = q
      BY <3>1
    <3>2. CASE q' = [q EXCEPT ![Q(c)].in = Append(@, c)]
      BY <1>1, <3>2 DEF QRec
    <3> QED
      BY <1>4, <3>1, <3>2 DEF WdSend
  <2> QED
    BY <2>1, <2>3, <2>4 DEF Running, Waits
<1>5. CASE WdRecv(c)
  <2>1. wdc[c].pc = "recv" /\ wdc[c].pc \in InUse /\ q[Q(c)].out # <<>>
    BY <1>5 DEF WdRecv, InUse
  <2>2. Q(c) = gen /\ Talks(c)
    BY <2>1, UserFacts DEF DeadQ, Talks
  <2>3. q[gen].out = <<c>> /\ c \in returned
    BY <2>1, <2>2 DEF WdInv, OwnMessage, OneMessage
  <2>4. \/ wdc' = [wdc EXCEPT ![c].pc = "restart"]
        \/ wdc' = [wdc EXCEPT ![c].pc = "done", ![c].ans = c]
    BY <1>5, <2>2, <2>3, OneMsgFacts DEF WdRecv, WdGoto
  <2>5. \A g \in WdGens : q'[g].run = q[g].run
    BY <1>1, <1>5 DEF WdRecv, QRec
  <2>6. UNCHANGED <<given, returned>>
    BY <1>5 DEF WdRecv, Bounds, Ghosts
  <2>7. CASE wdc' = [wdc EXCEPT ![c].pc = "restart"]
    <3>1. wdc'[c].pc = "restart" /\ \A d \in WdCalls : d # c => wdc'[d] = wdc[d]
      BY <1>1, <2>7
    <3> QED
      BY <2>1, <2>5, <2>6, <3>1 DEF Running, Waits
  <2>8. CASE wdc' = [wdc EXCEPT ![c].pc = "done", ![c].ans = c]
    <3>1. /\ wdc'[c].pc = "done" /\ wdc'[c].ans = c
          /\ \A d \in WdCalls : d # c => wdc'[d] = wdc[d]
      BY <1>1, <2>8 DEF CallRec
    <3> QED
      BY <2>1, <2>3, <2>5, <2>6, <3>1 DEF Running, Waits
  <2> QED
    BY <2>4, <2>7, <2>8
<1>6. CASE RestartLocal(c)
  <2>1. /\ UNCHANGED <<given, returned>> /\ Waits(c) /\ NewRunner
        /\ wdc' = [wdc EXCEPT ![c].pc = "failed"]
    BY <1>6 DEF RestartLocal, WdFail, WdGoto, Waits, Bounds, Ghosts
  <2>2. wdc'[c].pc = "failed" /\ \A d \in WdCalls : d # c => wdc'[d] = wdc[d]
    BY <1>1, <2>1
  <2>3. Running' = {}
    BY <2>1, NewRunnerRuns
  <2> QED
    BY <2>1, <2>2, <2>3
<1>7. CASE RestartProxy(c)
  <2>1. UNCHANGED <<q, given, returned>> /\ Waits(c) /\ wdc' = [wdc EXCEPT ![c].pc = "failed"]
    BY <1>7 DEF RestartProxy, WdFail, WdGoto, Waits, Bounds, Ghosts
  <2>2. wdc'[c].pc = "failed" /\ \A d \in WdCalls : d # c => wdc'[d] = wdc[d]
    BY <1>1, <2>1
  <2> QED
    BY <2>1, <2>2 DEF Running
<1>8. CASE ProxyDial(c)
  <2>1. UNCHANGED <<q, given, returned>> /\ Waits(c)
    BY <1>8 DEF ProxyDial, Waits, Bounds, Ghosts
  <2>2. PICK k \in WdConns : wdc' = [wdc EXCEPT ![c].pc = "read", ![c].via = k]
    BY <1>8 DEF ProxyDial
  <2>3. wdc'[c].pc = "read" /\ \A d \in WdCalls : d # c => wdc'[d] = wdc[d]
    BY <1>1, <2>2
  <2> QED
    BY <2>1, <2>3 DEF Running, Waits
<1>9. CASE ProxyRead(c)
  <2>1. UNCHANGED <<q, given, returned>> /\ Waits(c)
    BY <1>9 DEF ProxyRead, Waits, Bounds, Ghosts
  <2>2. PICK l \in {"clock", "failed"} : wdc' = [wdc EXCEPT ![c].pc = l]
    BY <1>9 DEF ProxyRead, WdGoto, WdFail
  <2>3. wdc'[c].pc = l /\ \A d \in WdCalls : d # c => wdc'[d] = wdc[d]
    BY <1>1, <2>2
  <2> QED
    BY <2>1, <2>3 DEF Running, Waits
<1> QED
  BY <1>2, <1>3, <1>4, <1>5, <1>6, <1>7, <1>8, <1>9 DEF WdCallStep

\* A step of a request is a step of the promise, or none.
LEMMA RequestKeeps ==
    ASSUME WdInv, WdInv', NEW c \in WdCalls, WdCallStep(c)
    PROVE  Promise!OaNext \/ UNCHANGED Promise!oaVars
<1>1. \A d \in WdCalls : d # c => Outcome(d)' = Outcome(d)
  BY RequestSteps DEF Outcome
<1>2. UNCHANGED <<given, returned>>
  BY RequestSteps
<1>3. CASE wdc[c].pc = "idle" /\ Waits(c)' /\ Running' = Running
  <2>1. Outcome(c) = "idle" /\ Outcome(c)' = "waiting"
    BY <1>3, OutcomeOf DEF Waits, Outcome
  <2>2. Out[c] = "idle" /\ Out' = [Out EXCEPT ![c] = "waiting"]
    BY <1>1, <2>1 DEF Out
  <2>3. Promise!OaArrive(c)
    BY <1>2, <1>3, <2>2 DEF Promise!OaArrive, Out, Running
  <2> QED
    BY <2>3 DEF Promise!OaNext
<1>4. CASE Waits(c) /\ Waits(c)' /\ Running' = Running
  <2>1. Outcome(c) = "waiting" /\ Outcome(c)' = "waiting"
    BY <1>4 DEF Waits, Outcome
  <2>2. Out' = Out
    BY <1>1, <2>1 DEF Out
  <2> QED
    BY <1>2, <1>4, <2>2 DEF Promise!oaVars, Out, Running
<1>5. CASE Waits(c) /\ wdc'[c].pc = "failed" /\ Running' \in {Running, {}}
  <2>1. Outcome(c) = "waiting" /\ Outcome(c)' = "failed"
    BY <1>5 DEF Waits, Outcome
  <2>2. Out[c] = "waiting" /\ Out' = [d \in WdCalls |-> IF d \in {c} THEN "failed" ELSE Out[d]]
    BY <1>1, <2>1 DEF Out
  <2>3. PICK cut \in BOOLEAN : Running' = IF cut THEN {} ELSE Running
    BY <1>5
  <2>4. Promise!OaFail({c}, cut)
    BY <1>2, <2>2, <2>3 DEF Promise!OaFail, Out, Running
  <2> QED
    BY <2>4 DEF Promise!OaNext
<1>6. CASE /\ Waits(c) /\ wdc'[c].pc = "done" /\ wdc'[c].ans = c
           /\ c \in returned /\ Running' = Running
  <2>1. Outcome(c) = "waiting" /\ Outcome(c)' = "done"
    BY <1>6 DEF Waits, Outcome
  <2>2. Out[c] = "waiting" /\ Out' = [Out EXCEPT ![c] = "done"]
    BY <1>1, <2>1 DEF Out
  <2>3. Promise!OaDone(c)
    BY <1>2, <1>6, <2>2 DEF Promise!OaDone, Out, Running
  <2> QED
    BY <2>3 DEF Promise!OaNext
<1> QED
  BY <1>3, <1>4, <1>5, <1>6, RequestSteps

\* A step of the function is a step of the promise.
LEMMA FunctionKeeps ==
    ASSUME WdInv, WdInv', NEW g \in WdGens, RunnerTake(g) \/ RunnerReturn(g) \/ RunnerExit(g)
    PROVE  Promise!OaNext
<1>1. /\ q \in [WdGens -> QRec] /\ wdc \in [WdCalls -> CallRec]
      /\ gen \in WdGens /\ NoCall \notin WdCalls
  BY WdAssumption DEF WdInv, WdTypes
<1>2. g = gen
  BY DEF RunnerTake, RunnerReturn, RunnerExit, DeadQ, WdInv, OneMessage
<1>3. Out' = Out /\ gen' = gen
  BY DEF RunnerTake, RunnerReturn, RunnerExit, Out, Outcome
<1>4. Running = {q[gen].run} \ {NoCall}
  BY RunOfNewest
<1>5. Running' = {q'[gen].run} \ {NoCall}
  <2>1. \A j \in WdGens : j # gen' => q'[j].run = NoCall
    BY DEF WdInv, OneMessage, DeadQ
  <2> QED
    BY <1>1, <1>3, <2>1 DEF Running
<1>6. CASE RunnerTake(g)
  <2>1. PICK c \in WdCalls : q[gen].in = <<c>>
    BY <1>1, <1>2, <1>6, OneMsgFacts DEF RunnerTake, QRec
  <2>2. /\ q' = [q EXCEPT ![gen].run = c, ![gen].in = <<>>]
        /\ given' = given \cup {c} /\ returned' = returned /\ q[gen].run = NoCall
    BY <1>2, <1>6, <2>1, OneMsgFacts DEF RunnerTake
  <2>3. q'[gen].run = c
    BY <1>1, <2>2 DEF QRec
  <2>4. Running = {} /\ Running' = {c}
    BY <1>1, <1>4, <1>5, <2>2, <2>3
  <2>5. c \notin given /\ wdc[c].pc \in Sent
    BY <2>1 DEF WdInv, OneMessage
  <2>6. Out[c] # "idle"
    BY <2>5, OutcomeOf DEF Sent, Out
  <2>7. Promise!OaStart(c)
    BY <1>3, <2>2, <2>4, <2>5, <2>6 DEF Promise!OaStart, Out, Running
  <2> QED
    BY <2>7 DEF Promise!OaNext
<1>7. CASE RunnerReturn(g)
  <2>1. PICK c \in WdCalls : q[gen].run = c
    BY <1>1, <1>2, <1>7 DEF RunnerReturn, QRec
  <2>2. Running = {c}
    BY <1>1, <1>4, <2>1
  <2>3. Running' = {}
    BY <1>1, <1>2, <1>5, <1>7 DEF RunnerReturn, QRec
  <2>4. returned' = returned \cup Running /\ given' = given
    BY <1>2, <1>7, <2>1, <2>2 DEF RunnerReturn
  <2>5. Promise!OaReturn
    BY <1>3, <2>2, <2>3, <2>4 DEF Promise!OaReturn, Out, Running
  <2> QED
    BY <2>5 DEF Promise!OaNext
<1>8. CASE RunnerExit(g)
  <2>1. Running # {} /\ UNCHANGED <<given, returned>>
    BY <1>1, <1>2, <1>4, <1>8 DEF RunnerExit, Bounds, Ghosts
  <2>2. Running' = {}
    BY <1>1, <1>2, <1>5, <1>8 DEF RunnerExit, QRec
  <2>3. Promise!OaCut
    BY <1>3, <2>1, <2>2 DEF Promise!OaCut, Out, Running
  <2> QED
    BY <2>3 DEF Promise!OaNext
<1> QED
  BY <1>6, <1>7, <1>8

\* A step of the proxy's goroutines and of the responder: the runner taken back
\* is cut off, if the function still ran a call nobody waits for.
LEMMA ConnKeeps ==
    ASSUME WdInv, WdInv', NEW k \in WdConns,
           ProxyWatch(k) \/ CrAccept(k) \/ CrBack(k) \/ CrSkip(k)
    PROVE  Promise!OaNext \/ UNCHANGED Promise!oaVars
<1>1. Out' = Out /\ UNCHANGED <<given, returned>>
  BY DEF ProxyWatch, CrAccept, CrBack, CrSkip, Out, Outcome, Bounds, Ghosts
<1>2. Running' = Running \/ Running' = {}
  <2>1. CASE CrBack(k)
    BY <2>1, NewRunnerRuns DEF CrBack
  <2>2. CASE ProxyWatch(k) \/ CrAccept(k) \/ CrSkip(k)
    BY <2>2 DEF ProxyWatch, CrAccept, CrSkip, Running
  <2> QED
    BY <2>1, <2>2
<1>3. CASE Running' = Running
  BY <1>1, <1>3 DEF Promise!oaVars, Out, Running
<1>4. CASE Running' # Running
  <2>1. Promise!OaCut
    BY <1>1, <1>2, <1>4 DEF Promise!OaCut, Out, Running
  <2> QED
    BY <2>1 DEF Promise!OaNext
<1> QED
  BY <1>3, <1>4

\* A crash fails the calls that were being served, all together; that of the
\* watchdog's container cuts off the function too.
LEMMA CrashKeeps ==
    ASSUME WdInv, WdInv', WdogCrash \/ ProxyCrash
    PROVE  Promise!OaNext \/ UNCHANGED Promise!oaVars
<1>1. wdc \in [WdCalls -> CallRec] /\ UNCHANGED <<given, returned>>
  BY DEF WdInv, WdTypes, WdogCrash, ProxyCrash, Ghosts
<1>2. PICK C \in SUBSET WdCalls : /\ \A c \in C : Waits(c) /\ wdc'[c].pc = "failed"
                                  /\ \A c \in WdCalls \ C : wdc'[c] = wdc[c]
  <2>1. CASE WdogCrash
    <3>1. \A c \in {d \in WdCalls : Direct(d)} : Waits(c) /\ wdc'[c].pc = "failed"
      BY <1>1, <2>1 DEF WdogCrash, FailAll, Direct, Waits
    <3>2. \A c \in WdCalls \ {d \in WdCalls : Direct(d)} : wdc'[c] = wdc[c]
      BY <2>1 DEF WdogCrash, FailAll
    <3> QED
      BY <3>1, <3>2
  <2>2. CASE ProxyCrash
    <3>1. \A c \in {d \in WdCalls : Proxied(d)} : Waits(c) /\ wdc'[c].pc = "failed"
      BY <1>1, <2>2 DEF ProxyCrash, FailAll, Proxied, Waits
    <3>2. \A c \in WdCalls \ {d \in WdCalls : Proxied(d)} : wdc'[c] = wdc[c]
      BY <2>2 DEF ProxyCrash, FailAll
    <3> QED
      BY <3>1, <3>2
  <2> QED
    BY <2>1, <2>2
<1>3. PICK cut \in BOOLEAN : Running' = IF cut THEN {} ELSE Running
  <2>1. WdogCrash => Running' = {}
    BY NewRunnerRuns DEF WdogCrash
  <2>2. ProxyCrash => Running' = Running
    BY DEF ProxyCrash, Running
  <2> QED
    BY <2>1, <2>2
<1>4. \A c \in WdCalls : IF c \in C THEN Outcome(c) = "waiting" /\ Outcome(c)' = "failed"
                         ELSE Outcome(c)' = Outcome(c)
  BY <1>2 DEF Waits, Outcome
<1>5. /\ Out' = [c \in WdCalls |-> IF c \in C THEN "failed" ELSE Out[c]]
      /\ \A c \in C : Out[c] = "waiting"
  BY <1>4 DEF Out
<1>6. CASE C # {}
  <2>1. Promise!OaFail(C, cut)
    BY <1>1, <1>3, <1>5, <1>6 DEF Promise!OaFail, Out, Running
  <2> QED
    BY <2>1 DEF Promise!OaNext
<1>7. CASE C = {} /\ Running' = Running
  <2>1. Out' = Out
    BY <1>5, <1>7 DEF Out
  <2> QED
    BY <1>1, <1>7, <2>1 DEF Promise!oaVars, Out, Running
<1>8. CASE C = {} /\ Running' # Running
  <2>1. Out' = Out
    BY <1>5, <1>8 DEF Out
  <2>2. Promise!OaCut
    BY <1>1, <1>3, <1>8, <2>1 DEF Promise!OaCut, Out, Running
  <2> QED
    BY <2>2 DEF Promise!OaNext
<1> QED
  BY <1>6, <1>7, <1>8

\* The watchdog and the proxy of the node keep the promise of OneAtATime: the
\* function runs one call at a time and each once at most, and a call that is
\* answered gets the result of its own run, through timeouts, restarts of the
\* runner, its lending and return, and crashes of either process.
THEOREM NodeKeepsPromise == WdSpec => KeepsPromise
<1>1. WdInit => Promise!OaInit
  <2> SUFFICES ASSUME WdInit PROVE Promise!OaInit
    OBVIOUS
  <2>1. Out = [c \in WdCalls |-> "idle"]
    BY DEF WdInit, WdIdle, Out, Outcome
  <2>2. Running = {}
    BY DEF WdInit, NewQ, DeadQ, Running
  <2> QED
    BY <2>1, <2>2 DEF WdInit, Promise!OaInit, Out, Running
<1>2. WdInv /\ WdInv' /\ [WdNext]_wdVars => [Promise!OaNext]_(Promise!oaVars)
  <2> SUFFICES ASSUME WdInv, WdInv', [WdNext]_wdVars
               PROVE  Promise!OaNext \/ UNCHANGED Promise!oaVars
    OBVIOUS
  <2>1. CASE WdNext
    BY <2>1, RequestKeeps, FunctionKeeps, ConnKeeps, CrashKeeps DEF WdNext
  <2>2. CASE UNCHANGED wdVars
    BY <2>2 DEF wdVars, Promise!oaVars, Outcome
  <2> QED
    BY <2>1, <2>2
<1> QED
  BY <1>1, <1>2, WdInvHolds, PTL DEF WdSpec, KeepsPromise, Promise!OaSpec

-----------------------------------------------------------------------------
(* A waiter of the XWait package: an event that was sent since it prepared *)
(* is what it wakes up for.                                                *)

\* A waiter that an event was sent to since it last looked has its flag.
XwInv ==
    /\ XwTypeOK
    /\ xwleft \in [XwWaiters -> BOOLEAN] /\ seen \in [XwWaiters -> BOOLEAN]
    /\ \A w \in XwWaiters : seen[w] => evt[w]

LEMMA XwInitInv ==
    ASSUME XwInit
    PROVE  XwInv
BY DEF XwInit, XwInv, XwTypeOK, XwLabels

LEMMA XwNextInv ==
    ASSUME XwInv, [XwNext]_xwVars
    PROVE  XwInv'
<1> USE DEF XwInv, XwTypeOK, XwLabels, XwGoto
<1>1. CASE UNCHANGED xwVars
  BY <1>1 DEF xwVars
<1>2. CASE XwEvent
  BY <1>2 DEF XwEvent
<1>3. ASSUME NEW w \in XwWaiters, XwPrepare(w) PROVE XwInv'
  BY <1>3 DEF XwPrepare
<1>4. ASSUME NEW w \in XwWaiters, XwCheck(w) PROVE XwInv'
  <2>1. PICK l \in {"done", "check", "arm"} : xw' = [xw EXCEPT ![w] = l]
    BY <1>4 DEF XwCheck
  <2>2. /\ evt' \in [XwWaiters -> BOOLEAN] /\ seen' \in [XwWaiters -> BOOLEAN]
        /\ \A v \in XwWaiters : seen'[v] => evt'[v]
    <3>1. CASE UNCHANGED <<evt, seen>>
      BY <3>1
    <3>2. CASE evt' = [evt EXCEPT ![w] = FALSE] /\ seen' = [seen EXCEPT ![w] = FALSE]
      BY <3>2
    <3> QED
      BY <1>4, <3>1, <3>2 DEF XwCheck
  <2>3. xw[w] = "check" /\ UNCHANGED <<listed, xwtimer, xwleft, slept, xwevents>>
    BY <1>4 DEF XwCheck
  <2> QED
    BY <2>1, <2>2, <2>3
<1>5. ASSUME NEW w \in XwWaiters, XwArm(w) PROVE XwInv'
  BY <1>5 DEF XwArm
<1>6. ASSUME NEW w \in XwWaiters, XwSleep(w) PROVE XwInv'
  BY <1>6 DEF XwSleep
<1>7. ASSUME NEW w \in XwWaiters, XwExpire(w) PROVE XwInv'
  BY <1>7 DEF XwExpire
<1>8. ASSUME NEW w \in XwWaiters, XwReturn(w) PROVE XwInv'
  <2>1. PICK l \in {"check", "timeout"} : xw' = [xw EXCEPT ![w] = l]
    BY <1>8 DEF XwReturn
  <2>2. /\ evt' \in [XwWaiters -> BOOLEAN] /\ seen' \in [XwWaiters -> BOOLEAN]
        /\ \A v \in XwWaiters : seen'[v] => evt'[v]
    <3>1. CASE UNCHANGED <<evt, seen>>
      BY <3>1
    <3>2. CASE evt' = [evt EXCEPT ![w] = FALSE] /\ seen' = [seen EXCEPT ![w] = FALSE]
      BY <3>2
    <3> QED
      BY <1>8, <3>1, <3>2 DEF XwReturn
  <2>3. xw[w] = "woken" /\ xwtimer' = [xwtimer EXCEPT ![w] = "none"] /\ UNCHANGED <<listed, slept, xwevents>>
    BY <1>8 DEF XwReturn
  <2>4. xwleft' \in [XwWaiters -> BOOLEAN]
    <3>1. xwleft' = xwleft \/ \E b \in BOOLEAN : xwleft' = [xwleft EXCEPT ![w] = b]
      <4>1. CASE evt[w]
        <5>1. PICK more \in BOOLEAN : xwleft' = [xwleft EXCEPT ![w] = @ /\ more /\ xwtimer[w] # "fired"]
          BY <1>8, <4>1 DEF XwReturn
        <5>2. (xwleft[w] /\ more /\ xwtimer[w] # "fired") \in BOOLEAN
          OBVIOUS
        <5> QED
          BY <5>1, <5>2
      <4>2. CASE ~evt[w]
        BY <1>8, <4>2 DEF XwReturn
      <4> QED
        BY <4>1, <4>2
    <3> QED
      BY <3>1
  <2> QED
    BY <2>1, <2>2, <2>3, <2>4
<1>9. ASSUME NEW w \in XwWaiters, XwDone(w) PROVE XwInv'
  BY <1>9 DEF XwDone
<1> QED
  BY <1>1, <1>2, <1>3, <1>4, <1>5, <1>6, <1>7, <1>8, <1>9 DEF XwNext, XwStep

LEMMA XwSpecInv == XwSpec => []XwInv
BY XwInitInv, XwNextInv, PTL DEF XwSpec

\* The types of a waiter (xwait.go).
THEOREM WaitTypes == XwSpec => []XwTypeOK
<1>1. XwInv => XwTypeOK
  BY DEF XwInv
<1> QED
  BY <1>1, XwSpecInv, PTL

\* A waiter that an event was sent to since it last looked is not told that the time
\* is over (Prepare, Event and Wait of xwait.go).
THEOREM EventsNotLost == XwSpec => XwNoEventLost
<1>1. ASSUME XwInv, [XwNext]_xwVars
      PROVE  [\A w \in XwWaiters : xw[w] = "woken" /\ xw'[w] = "timeout" => ~seen[w]]_xwVars
  <2>1. SUFFICES ASSUME NEW w \in XwWaiters, xw[w] = "woken", xw'[w] = "timeout", XwNext PROVE ~seen[w]
    BY <1>1
  <2>2. CASE XwEvent
    BY <2>1, <2>2 DEF XwEvent
  <2>3. ASSUME NEW v \in XwWaiters, XwPrepare(v) \/ XwStep(v) PROVE XwReturn(w) /\ ~evt[w]
    BY <1>1, <2>1, <2>3 DEF XwPrepare, XwStep, XwCheck, XwArm, XwSleep, XwExpire, XwReturn, XwDone, XwGoto,
                            XwInv, XwTypeOK
  <2> QED
    BY <1>1, <2>1, <2>2, <2>3 DEF XwNext, XwInv
<1> QED
  BY <1>1, XwSpecInv, PTL DEF XwSpec, XwNoEventLost

-----------------------------------------------------------------------------
(* The quota of a database.  The size that is due when the requests let    *)
(* through are done is counted: a connection counts its request before it  *)
(* asks, so between two checks no more pass than the threshold and those   *)
(* that wait, and a check that failed adds as many once more.              *)

\* connections whose request was let through and is not done
Asking == {k \in DqConns : dqc[k] = "ask"}
Forwarding == {k \in DqConns : dqc[k] = "fwd"}
\* the size when all of them are done
DqDue == dqsize + Cardinality(Asking) + Cardinality(Forwarding)
DqMany == Cardinality(DqConns)
\* requests that can pass until every connection waits for the checker
Room == (DqMany - Cardinality(Asking)) * DqThresh - dqcount
FullRoom == DqMany * DqThresh
\* what a failed check costs
Round == FullRoom + DqThresh
Base == DqLimit + DqMany + Round * dqfaults

CheckRec == [pc : {"idle", "stat", "set"}, was : BOOLEAN, over : BOOLEAN]
DqTypes ==
    /\ dqsize \in 0 .. DqMaxSize /\ dqcount \in 0 .. DqThresh - 1 /\ dqlocked \in BOOLEAN
    /\ dqc \in [DqConns -> {"idle", "ask", "fwd"}] /\ dqscan \in {"sleep", "ask"}
    /\ dqcheck \in CheckRec
    /\ dqfaults \in 0 .. DqMaxFaults

\* A check that a connection asked for lets that connection go on for one more
\* threshold.
Asked == dqcheck.pc # "idle" /\ ~dqcheck.was
\* The request that comes to the threshold waits, so that all wait with a count of 0.
AllWait == Cardinality(Asking) = DqMany => dqcount = 0
Overrun ==
    /\ dqcheck.pc = "stat" => ~dqcheck.over
    /\ dqlocked => DqDue <= Base + Round
    /\ ~dqlocked => DqDue + Room <= Base + FullRoom + (IF Asked THEN DqThresh ELSE 0)
    /\ dqcheck.pc = "set" /\ ~dqcheck.over =>
         IF dqlocked THEN DqDue <= Base ELSE DqDue + Room <= Base + FullRoom

DqInv == DqTypes /\ AllWait /\ Overrun
-----------------------------------------------------------------------------
\* The numbers are numbers, and what the products amount to
LEMMA DqNumbers ==
    ASSUME DqTypes
    PROVE  /\ IsFiniteSet(Asking) /\ IsFiniteSet(Forwarding)
           /\ Cardinality(Asking) \in Nat /\ Cardinality(Forwarding) \in Nat /\ DqMany \in Nat
           /\ Cardinality(Asking) + Cardinality(Forwarding) <= DqMany
           /\ DqDue \in Nat /\ FullRoom \in Nat /\ Round \in Nat /\ Base \in Nat
           /\ Room \in Int /\ Room <= FullRoom
           /\ DqThresh \in Nat /\ DqThresh >= 1 /\ DqLimit \in Nat /\ dqsize \in Nat
           /\ dqcount \in Nat /\ dqcount <= DqThresh - 1
           /\ Base >= DqLimit + DqMany /\ Round >= DqThresh
<1>1. /\ IsFiniteSet(Asking) /\ IsFiniteSet(Forwarding)
      /\ Cardinality(Asking) \in Nat /\ Cardinality(Forwarding) \in Nat /\ DqMany \in Nat
  BY DqAssumption, FS_Subset, FS_CardinalityType DEF Asking, Forwarding, DqMany
<1>2. Cardinality(Asking) + Cardinality(Forwarding) <= DqMany
  <2>1. Cardinality(Asking \cup Forwarding) <= DqMany
    BY DqAssumption, FS_Subset DEF Asking, Forwarding, DqMany
  <2>2. Cardinality(Asking \cap Forwarding) = 0
    <3>1. Asking \cap Forwarding = {}
      BY DEF Asking, Forwarding
    <3> QED
      BY <3>1, FS_EmptySet
  <2>3. Cardinality(Asking \cup Forwarding) =
          Cardinality(Asking) + Cardinality(Forwarding) - Cardinality(Asking \cap Forwarding)
    BY <1>1, FS_Union
  <2> QED
    BY <1>1, <2>1, <2>2, <2>3
<1>3. DqThresh \in Nat /\ DqThresh >= 1 /\ DqLimit \in Nat /\ dqsize \in Nat
      /\ dqcount \in Nat /\ dqcount <= DqThresh - 1 /\ dqfaults \in Nat
  BY DqAssumption DEF DqTypes
<1>4. FullRoom \in Nat /\ Round \in Nat /\ Round >= DqThresh
  BY <1>1, <1>3 DEF FullRoom, Round
<1>5. Round * dqfaults \in Nat
  BY <1>3, <1>4
<1>6. Base \in Nat /\ Base >= DqLimit + DqMany
  BY <1>1, <1>3, <1>5 DEF Base
<1>7. Room \in Int /\ Room <= FullRoom
  <2> DEFINE A == Cardinality(Asking)
             N == DqMany
             T == DqThresh
  <2>1. A \in Nat /\ N \in Nat /\ T \in Nat
    BY <1>1, <1>3
  <2> HIDE DEF A, N, T
  <2>2. (N - A) * T = N * T - A * T /\ A * T \in Nat /\ N * T \in Nat
    BY <2>1
  <2> QED
    BY <2>2, <1>3 DEF Room, FullRoom, A, N, T
<1>8. DqDue \in Nat
  BY <1>1, <1>3 DEF DqDue
<1> QED
  BY <1>1, <1>2, <1>3, <1>4, <1>6, <1>7, <1>8

\* Every connection that does not wait has a request to count.
LEMMA RoomLeft ==
    ASSUME DqInv
    PROVE  Room >= 0
<1> DEFINE A == Cardinality(Asking)
           N == DqMany
           T == DqThresh
<1>1. A \in Nat /\ N \in Nat /\ T \in Nat /\ A <= N /\ dqcount \in Nat /\ dqcount <= T - 1
  BY DqNumbers DEF DqInv
<1>2. A = N => dqcount = 0
  BY DEF DqInv, AllWait
<1> HIDE DEF A, N, T
<1>3. CASE A = N
  <2>1. (N - A) * T = 0
    BY <1>1, <1>3
  <2> QED
    BY <1>2, <1>3, <2>1 DEF Room, A, N, T
<1>4. CASE A < N
  <2>1. (N - A) * T >= T
    <3>1. PICK m \in Nat : N - A = m + 1
      BY <1>1, <1>4
    <3>2. (m + 1) * T = m * T + T /\ m * T \in Nat
      BY <1>1
    <3> QED
      BY <1>1, <3>1, <3>2
  <2> QED
    BY <1>1, <2>1 DEF Room, A, N, T
<1> QED
  BY <1>1, <1>3, <1>4

\* The size never runs away from the quota by more than the queued checks allow.
LEMMA OverrunBounds ==
    ASSUME DqInv
    PROVE  QuotaOverrunBounded
<1>1. DqDue <= Base + Round
  <2>1. Round = FullRoom + DqThresh
    BY DEF Round
  <2> QED
    BY <2>1, DqNumbers, RoomLeft DEF DqInv, Overrun, DqTypes
<1>2. Base + Round = DqOverrun
  <2> DEFINE N == DqMany
             T == DqThresh
             f == dqfaults
  <2>1. N \in Nat /\ T \in Nat /\ f \in Nat /\ DqLimit \in Nat
    BY DqNumbers DEF DqInv, DqTypes
  <2> HIDE DEF N, T, f
  <2>2. (N * T + T) * f + (N * T + T) = (N + 1) * T * (1 + f)
    <3>1. (N + 1) * T = N * T + T /\ N * T \in Nat
      BY <2>1
    <3>2. \A r \in Nat : r * f + r = r * (1 + f)
      BY <2>1
    <3> QED
      BY <2>1, <3>1, <3>2
  <2>3. Base + Round = DqLimit + N + (N * T + T) * f + (N * T + T)
    BY DEF Base, Round, FullRoom, N, T, f
  <2>4. (N * T + T) * f \in Nat /\ N * T + T \in Nat
    BY <2>1
  <2> QED
    BY <2>1, <2>2, <2>3, <2>4 DEF DqOverrun, DqMany, N, T, f
<1>3. dqsize <= DqDue
  BY DqNumbers DEF DqDue, DqInv
<1> QED
  BY <1>1, <1>2, <1>3, DqNumbers DEF QuotaOverrunBounded, DqInv

LEMMA DqRequestStep ==
    ASSUME DqInv, NEW k \in DqConns, DqRequest(k)
    PROVE  DqInv'
<1> DEFINE wraps == dqcount' = 0
<1>1. /\ dqc[k] = "idle" /\ ~dqlocked /\ dqcount' = (dqcount + 1) % DqThresh
      /\ dqc' = [dqc EXCEPT ![k] = IF dqcount' = 0 THEN "ask" ELSE "fwd"]
      /\ UNCHANGED <<dqsize, dqlocked, dqscan, dqcheck, dqfaults>>
  BY DEF DqRequest
<1>2. dqc \in [DqConns -> {"idle", "ask", "fwd"}]
  BY DEF DqInv, DqTypes
<1>3. /\ dqcount' = IF dqcount = DqThresh - 1 THEN 0 ELSE dqcount + 1
      /\ dqcount' \in 0 .. DqThresh - 1
  <2>1. dqcount' = (dqcount + 1) % DqThresh /\ dqcount \in Nat /\ dqcount <= DqThresh - 1
    BY <1>1, DqNumbers DEF DqInv
  <2> QED
    BY <2>1, DqAssumption
<1>4. k \notin Asking /\ k \notin Forwarding
  BY <1>1 DEF Asking, Forwarding
<1>5. DqTypes'
  BY <1>1, <1>2, <1>3 DEF DqInv, DqTypes
<1>6. CASE dqcount' = 0
  <2>1. Asking' = Asking \cup {k} /\ Forwarding' = Forwarding
    BY <1>1, <1>2, <1>6 DEF Asking, Forwarding
  <2>2. Cardinality(Asking') = Cardinality(Asking) + 1
    BY <1>4, <2>1, DqNumbers, FS_AddElement DEF DqInv
  <2>3. Cardinality(Asking)' = Cardinality(Asking) + 1 /\ Cardinality(Forwarding)' = Cardinality(Forwarding)
    BY <2>1, <2>2
  <2>4. DqDue' = DqDue + 1
    BY <1>1, <2>3, DqNumbers DEF DqDue, DqInv
  <2>5. dqcount = DqThresh - 1
    BY <1>3, <1>6, DqNumbers DEF DqInv
  <2>6. Room' = Room - 1
    <3> DEFINE A == Cardinality(Asking)
               N == DqMany
               T == DqThresh
    <3>1. A \in Nat /\ N \in Nat /\ T \in Nat
      BY DqNumbers DEF DqInv
    <3> HIDE DEF A, N, T
    <3>2. (N - (A + 1)) * T = (N - A) * T - T /\ (N - A) * T \in Int
      BY <3>1
    <3>3. Room' = (N - (A + 1)) * T - 0
      BY <1>6, <2>3 DEF Room, A, N, T, DqMany
    <3>4. Room = (N - A) * T - (T - 1)
      BY <2>5 DEF Room, A, N, T
    <3> QED
      BY <3>1, <3>2, <3>3, <3>4
  <2> QED
    BY <1>1, <1>5, <1>6, <2>4, <2>6, DqNumbers DEF DqInv, AllWait, Overrun, Asked, Base, Round, FullRoom, DqMany
<1>7. CASE dqcount' # 0
  <2>1. Forwarding' = Forwarding \cup {k} /\ Asking' = Asking
    BY <1>1, <1>2, <1>7 DEF Asking, Forwarding
  <2>2. Cardinality(Forwarding') = Cardinality(Forwarding) + 1
    BY <1>4, <2>1, DqNumbers, FS_AddElement DEF DqInv
  <2>3. Cardinality(Forwarding)' = Cardinality(Forwarding) + 1 /\ Cardinality(Asking)' = Cardinality(Asking)
    BY <2>1, <2>2
  <2>4. DqDue' = DqDue + 1
    BY <1>1, <2>3, DqNumbers DEF DqDue, DqInv
  <2>5. dqcount' = dqcount + 1
    BY <1>3, <1>7
  <2>6. Room' = Room - 1
    <3> DEFINE all == (DqMany - Cardinality(Asking)) * DqThresh
    <3>1. all \in Int
      BY DqNumbers DEF DqInv
    <3>2. Room' = all - (dqcount + 1) /\ Room = all - dqcount
      BY <2>3, <2>5 DEF Room, DqMany
    <3> QED
      BY <3>1, <3>2, DqNumbers DEF DqInv
  <2>7. AllWait'
    <3>1. Cardinality(Asking) # DqMany
      <4>1. DqConns # Asking
        BY <1>4
      <4>2. Asking \in SUBSET DqConns
        BY DEF Asking
      <4> QED
        BY <4>1, <4>2, DqAssumption, FS_Subset DEF DqMany
    <3> QED
      BY <2>3, <3>1 DEF AllWait, DqMany
  <2> QED
    BY <1>1, <1>5, <2>4, <2>6, <2>7, DqNumbers DEF DqInv, Overrun, Asked, Base, Round, FullRoom, DqMany
<1> QED
  BY <1>6, <1>7

LEMMA DqAskStep ==
    ASSUME DqInv, NEW k \in DqConns, DqAsk(k)
    PROVE  DqInv'
<1>1. /\ dqc[k] = "ask" /\ dqcheck.pc = "idle" /\ dqcheck' = [NoCheck EXCEPT !.pc = "stat"]
      /\ dqc' = [dqc EXCEPT ![k] = "fwd"] /\ UNCHANGED <<dqsize, dqcount, dqlocked, dqscan, dqfaults>>
  BY DEF DqAsk
<1>2. dqc \in [DqConns -> {"idle", "ask", "fwd"}]
  BY DEF DqInv, DqTypes
<1>3. k \in Asking /\ k \notin Forwarding
  BY <1>1 DEF Asking, Forwarding
<1>4. Asking' = Asking \ {k} /\ Forwarding' = Forwarding \cup {k}
  BY <1>1, <1>2 DEF Asking, Forwarding
<1>5. /\ Cardinality(Asking)' = Cardinality(Asking) - 1
      /\ Cardinality(Forwarding)' = Cardinality(Forwarding) + 1
  <2>1. Cardinality(Asking \ {k}) = Cardinality(Asking) - 1
    BY <1>3, DqNumbers, FS_RemoveElement DEF DqInv
  <2>2. Cardinality(Forwarding \cup {k}) = Cardinality(Forwarding) + 1
    BY <1>3, DqNumbers, FS_AddElement DEF DqInv
  <2> QED
    BY <1>4, <2>1, <2>2
<1>6. DqDue' = DqDue
  BY <1>1, <1>5, DqNumbers DEF DqDue, DqInv
<1>7. Room' = Room + DqThresh
  <2> DEFINE A == Cardinality(Asking)
             N == DqMany
             T == DqThresh
  <2>1. A \in Nat /\ N \in Nat /\ T \in Nat /\ dqcount \in Nat
    BY DqNumbers DEF DqInv
  <2> HIDE DEF A, N, T
  <2>2. (N - (A - 1)) * T = (N - A) * T + T /\ (N - A) * T \in Int
    BY <2>1
  <2>3. Room' = (N - (A - 1)) * T - dqcount /\ Room = (N - A) * T - dqcount
    BY <1>1, <1>5 DEF Room, A, N, T, DqMany
  <2> QED
    BY <2>1, <2>2, <2>3 DEF T
<1>8. DqTypes'
  <2>1. dqcheck' \in CheckRec
    BY <1>1 DEF NoCheck, CheckRec
  <2> QED
    BY <1>1, <1>2, <2>1 DEF DqInv, DqTypes
<1>9. AllWait'
  BY <1>5, DqNumbers DEF AllWait, DqInv, DqMany
<1>10. dqcheck' = [pc |-> "stat", was |-> FALSE, over |-> FALSE]
  BY <1>1 DEF NoCheck
<1> QED
  BY <1>1, <1>6, <1>7, <1>8, <1>9, <1>10, DqNumbers DEF DqInv, Overrun, Asked, Base, Round, FullRoom, DqMany

LEMMA DqGrowStep ==
    ASSUME DqInv, NEW k \in DqConns, DqGrow(k)
    PROVE  DqInv'
<1>1. /\ dqc[k] = "fwd" /\ dqsize < DqMaxSize /\ dqsize' = dqsize + 1 /\ dqc' = [dqc EXCEPT ![k] = "idle"]
      /\ UNCHANGED <<dqcount, dqlocked, dqscan, dqcheck, dqfaults>>
  BY DEF DqGrow
<1>2. dqc \in [DqConns -> {"idle", "ask", "fwd"}]
  BY DEF DqInv, DqTypes
<1>3. k \in Forwarding
  BY <1>1 DEF Forwarding
<1>4. Asking' = Asking /\ Forwarding' = Forwarding \ {k}
  BY <1>1, <1>2 DEF Asking, Forwarding
<1>5. Cardinality(Forwarding)' = Cardinality(Forwarding) - 1 /\ Cardinality(Asking)' = Cardinality(Asking)
  <2>1. Cardinality(Forwarding \ {k}) = Cardinality(Forwarding) - 1
    BY <1>3, DqNumbers, FS_RemoveElement DEF DqInv
  <2> QED
    BY <1>4, <2>1
<1>6. DqDue' = DqDue /\ Room' = Room
  BY <1>1, <1>5, DqNumbers DEF DqDue, Room, DqInv, DqMany
<1>7. DqTypes'
  BY <1>1, <1>2, DqAssumption DEF DqInv, DqTypes
<1> QED
  BY <1>1, <1>5, <1>6, <1>7 DEF DqInv, AllWait, Overrun, Asked, Base, Round, FullRoom, DqMany

\* The connections stand still.
LEMMA ConnsRest ==
    ASSUME DqInv, UNCHANGED <<dqc, dqcount, dqsize>>
    PROVE  DqDue' = DqDue /\ Room' = Room /\ AllWait' /\ FullRoom' = FullRoom /\ Round' = Round
<1>1. Cardinality(Asking)' = Cardinality(Asking) /\ Cardinality(Forwarding)' = Cardinality(Forwarding)
  BY DEF Asking, Forwarding
<1> QED
  BY <1>1 DEF DqDue, Room, AllWait, FullRoom, Round, DqMany, DqInv

LEMMA DqShrinkStep ==
    ASSUME DqInv, DqShrink
    PROVE  DqInv'
<1>1. /\ dqsize > 0 /\ dqsize' = dqsize - 1
      /\ UNCHANGED <<dqcount, dqlocked, dqc, dqscan, dqcheck, dqfaults>>
  BY DEF DqShrink
<1>2. Cardinality(Asking)' = Cardinality(Asking) /\ Cardinality(Forwarding)' = Cardinality(Forwarding)
  BY <1>1 DEF Asking, Forwarding
<1>3. DqDue' = DqDue - 1 /\ Room' = Room
  BY <1>1, <1>2, DqNumbers DEF DqDue, Room, DqInv, DqMany
<1>4. DqTypes'
  BY <1>1, DqAssumption DEF DqInv, DqTypes
<1> QED
  BY <1>1, <1>2, <1>3, <1>4, DqNumbers DEF DqInv, AllWait, Overrun, Asked, Base, Round, FullRoom, DqMany

LEMMA DqScanStep ==
    ASSUME DqInv, DqScan \/ DqScanAsk
    PROVE  DqInv'
<1>1. UNCHANGED <<dqc, dqcount, dqsize, dqlocked, dqfaults>> /\ dqscan' \in {"sleep", "ask"}
  BY DEF DqScan, DqScanAsk
<1>2. \/ dqcheck' = dqcheck
      \/ dqcheck.pc = "idle" /\ dqcheck' = [pc |-> "stat", was |-> TRUE, over |-> FALSE]
  BY DEF DqScan, DqScanAsk, NoCheck
<1>4. [pc |-> "stat", was |-> TRUE, over |-> FALSE] \in CheckRec
  BY DEF CheckRec
<1>3. DqTypes'
  BY <1>1, <1>2, <1>4 DEF DqInv, DqTypes
<1> QED
  BY <1>1, <1>2, <1>3, ConnsRest DEF DqInv, Overrun, Asked, Base, DqMany

LEMMA DqStatStep ==
    ASSUME DqInv, DqStat
    PROVE  DqInv'
<1>1. dqcheck.pc = "stat" /\ ~dqcheck.over /\ UNCHANGED <<dqsize, dqcount, dqlocked, dqc, dqscan>>
  BY DEF DqStat, DqInv, Overrun
<1>2. dqcheck \in CheckRec /\ dqfaults \in 0 .. DqMaxFaults
  BY DEF DqInv, DqTypes
<1>3. DqDue' = DqDue /\ Room' = Room /\ AllWait' /\ FullRoom' = FullRoom /\ Round' = Round
  BY <1>1, ConnsRest
<1>4. CASE dqcheck' = [dqcheck EXCEPT !.pc = "set", !.over = dqsize > DqLimit] /\ UNCHANGED dqfaults
  <2>1. /\ dqcheck'.pc = "set" /\ dqcheck'.was = dqcheck.was /\ dqcheck' \in CheckRec
        /\ ~dqcheck'.over => dqsize <= DqLimit
    <3>1. CASE dqsize > DqLimit
      <4>1. dqcheck' = [dqcheck EXCEPT !.pc = "set", !.over = TRUE]
        BY <1>4, <3>1
      <4> QED
        BY <1>2, <4>1 DEF CheckRec
    <3>2. CASE ~(dqsize > DqLimit)
      <4>1. dqcheck' = [dqcheck EXCEPT !.pc = "set", !.over = FALSE]
        <5>1. (dqsize > DqLimit) = FALSE
          BY <3>2
        <5> QED
          BY <1>4, <5>1
      <4>2. dqsize <= DqLimit
        BY <3>2, DqNumbers DEF DqInv
      <4> QED
        BY <1>2, <4>1, <4>2 DEF CheckRec
    <3> QED
      BY <3>1, <3>2
  <2>2. Base' = Base
    BY <1>3, <1>4 DEF Base, DqMany
  <2>3. DqTypes'
    BY <1>1, <1>2, <1>4, <2>1 DEF DqInv, DqTypes
  <2>4. Asked' = Asked
    BY <1>1, <2>1 DEF Asked
  <2>5. ~dqcheck'.over => DqDue <= Base
    BY <2>1, DqNumbers DEF DqInv, DqDue
  <2>6. Overrun'
    BY <1>1, <1>3, <2>1, <2>2, <2>4, <2>5, DqNumbers DEF DqInv, Overrun
  <2> QED
    BY <1>3, <2>3, <2>6 DEF DqInv
<1>5. CASE /\ dqfaults < DqMaxFaults /\ dqfaults' = dqfaults + 1
           /\ dqcheck' \in {NoCheck, [dqcheck EXCEPT !.pc = "set"]}
  <2>1. \/ dqcheck' = NoCheck
        \/ /\ dqcheck'.pc = "set" /\ dqcheck'.was = dqcheck.was /\ ~dqcheck'.over
           /\ dqcheck' \in CheckRec
    BY <1>1, <1>2, <1>5 DEF CheckRec
  <2>0. NoCheck \in CheckRec
    BY DEF NoCheck, CheckRec
  <2>2. Base' = Base + Round
    <3>1. Round \in Nat /\ DqLimit \in Nat /\ DqMany \in Nat /\ dqfaults \in Nat
      BY <1>2, DqNumbers, DqAssumption DEF DqInv
    <3>2. Round * (dqfaults + 1) = Round * dqfaults + Round /\ Round * dqfaults \in Nat
      BY <3>1
    <3>3. Base' = DqLimit + DqMany + Round * (dqfaults + 1)
      BY <1>3, <1>5 DEF Base, DqMany
    <3> QED
      BY <3>1, <3>2, <3>3 DEF Base
  <2>3. DqTypes'
    <3>1. dqfaults' \in 0 .. DqMaxFaults
      BY <1>2, <1>5, DqAssumption
    <3> QED
      BY <1>1, <2>0, <2>1, <3>1 DEF DqInv, DqTypes
  <2>4. Overrun'
    <3>1. NoCheck.pc = "idle" /\ ~NoCheck.over
      BY DEF NoCheck
    <3>2. IF dqlocked THEN DqDue <= Base + Round ELSE DqDue + Room <= Base + FullRoom + DqThresh
      BY DqNumbers DEF DqInv, Overrun
    <3>3. IF dqlocked THEN DqDue' <= Base' ELSE DqDue' + Room' <= Base' + FullRoom'
      BY <1>1, <1>3, <2>2, <3>2, DqNumbers DEF DqInv
    <3>4. Base + Round \in Nat /\ Round \in Nat /\ FullRoom \in Nat /\ DqThresh \in Nat /\ DqDue \in Nat
      BY DqNumbers DEF DqInv
    <3>5. dqcheck'.pc # "stat" /\ (Asked' \in BOOLEAN)
      BY <2>1, <3>1 DEF Asked
    <3>6. CASE dqlocked
      <4>2. dqlocked' = dqlocked
        BY <1>1
      <4>3. DqDue' <= Base'
        BY <3>3, <3>6
      <4>4. dqlocked'
        BY <3>6, <4>2
      <4>5. DqDue' <= Base' + Round'
        <5>1. DqDue <= Base + Round /\ DqDue <= Base + Round + Round
          BY <1>3, <2>2, <3>4, <4>3
        <5> QED
          BY <1>3, <2>2, <5>1
      <4> QED
        BY <3>5, <4>3, <4>4, <4>5 DEF Overrun
    <3>7. CASE ~dqlocked
      <4>1. DqDue' + Room' <= Base' + FullRoom'
        BY <3>3, <3>7
      <4>0. ~dqlocked'
        BY <1>1, <3>7
      <4>2. Room \in Int
        BY DqNumbers DEF DqInv
      <4>3. DqDue' + Room' <= Base' + FullRoom' + DqThresh
        <5>1. DqDue + Room <= Base + Round + FullRoom + DqThresh
          BY <1>3, <2>2, <3>4, <4>1, <4>2
        <5> QED
          BY <1>3, <2>2, <5>1
      <4>4. DqDue' + Room' <= Base' + FullRoom' + (IF Asked' THEN DqThresh ELSE 0)
        <5>1. CASE Asked'
          BY <4>3, <5>1
        <5>2. CASE ~Asked'
          <6>1. DqDue' + Room' <= Base' + FullRoom' + 0
            <7>1. DqDue + Room <= Base + Round + FullRoom + 0
              BY <1>3, <2>2, <3>4, <4>1, <4>2
            <7> QED
              BY <1>3, <2>2, <7>1
          <6> QED
            BY <5>2, <6>1
        <5> QED
          BY <5>1, <5>2
      <4> QED
        BY <3>5, <4>0, <4>1, <4>4 DEF Overrun
    <3> QED
      BY <3>6, <3>7
  <2> QED
    BY <1>3, <2>3, <2>4 DEF DqInv
<1> QED
  BY <1>4, <1>5 DEF DqStat

\* A database that is not found starts over, unlocked and with a count of 0.
LEMMA DqGoneStep ==
    ASSUME DqInv, DqGone
    PROVE  DqInv'
<1>1. /\ dqcheck.pc = "stat" /\ dqcheck' = NoCheck /\ dqfaults < DqMaxFaults /\ dqfaults' = dqfaults + 1
      /\ dqcount' = 0 /\ dqlocked' = FALSE /\ UNCHANGED <<dqsize, dqc, dqscan>>
  BY DEF DqGone
<1>2. NoCheck \in CheckRec /\ NoCheck.pc = "idle"
  BY DEF NoCheck, CheckRec
<1>3. DqTypes
  BY DEF DqInv
<1>4. /\ Cardinality(Asking) \in Nat /\ DqMany \in Nat /\ Cardinality(Asking) <= DqMany
      /\ DqDue \in Nat /\ FullRoom \in Nat /\ Round \in Nat /\ Base \in Nat /\ Room \in Int
      /\ DqThresh \in Nat /\ DqThresh >= 1 /\ dqcount \in Nat /\ dqcount <= DqThresh - 1
  BY <1>3, DqNumbers
<1>5. /\ Cardinality(Asking)' = Cardinality(Asking) /\ Cardinality(Forwarding)' = Cardinality(Forwarding)
      /\ DqDue' = DqDue /\ FullRoom' = FullRoom /\ Round' = Round /\ AllWait'
  BY <1>1 DEF Asking, Forwarding, DqDue, FullRoom, Round, DqMany, AllWait
<1>6. Base' = Base + Round
  <2>1. Round \in Nat /\ DqLimit \in Nat /\ DqMany \in Nat /\ dqfaults \in Nat
    BY <1>3, <1>4, DqNumbers DEF DqTypes
  <2>2. Round * (dqfaults + 1) = Round * dqfaults + Round /\ Round * dqfaults \in Nat
    BY <2>1
  <2>3. Base' = DqLimit + DqMany + Round * (dqfaults + 1)
    BY <1>1, <1>5 DEF Base, DqMany
  <2> QED
    BY <2>1, <2>2, <2>3 DEF Base
<1>7. DqTypes'
  <2>1. dqfaults' \in 0 .. DqMaxFaults /\ 0 \in 0 .. DqThresh - 1
    BY <1>1, <1>3, <1>4, DqAssumption DEF DqTypes
  <2> QED
    BY <1>1, <1>2, <1>3, <2>1 DEF DqTypes
<1>8. DqDue + Room' <= Base + Round + FullRoom
  <2> DEFINE left == (DqMany - Cardinality(Asking)) * DqThresh
  <2>1. left \in Int /\ Room = left - dqcount /\ Room' = left
    <3>1. left' = left
      BY <1>5 DEF DqMany
    <3> QED
      BY <1>1, <1>4, <3>1 DEF Room
  <2>2. Room' <= Room + Round
    BY <1>4, <2>1 DEF Round
  <2>3. Room' <= FullRoom
    <3>1. (DqMany - Cardinality(Asking)) * DqThresh <= DqMany * DqThresh
      BY <1>4
    <3> QED
      BY <2>1, <3>1 DEF FullRoom
  <2> HIDE DEF left
  <2>4. CASE dqlocked
    <3>1. DqDue <= Base + Round
      BY <2>4 DEF DqInv, Overrun
    <3> QED
      BY <1>4, <2>1, <2>3, <3>1
  <2>5. CASE ~dqlocked
    <3>1. DqDue + Room <= Base + FullRoom + DqThresh
      BY <1>4, <2>5 DEF DqInv, Overrun
    <3>2. CASE dqcount = 0
      <4>1. Room' = Room
        BY <1>4, <2>1, <3>2
      <4>2. DqThresh <= Round
        BY <1>4 DEF Round
      <4> QED
        BY <1>4, <3>1, <4>1, <4>2
    <3>3. CASE dqcount # 0
      <4>1. DqMany >= 1
        <5>1. Cardinality(Asking) # DqMany
          BY <3>3 DEF DqInv, AllWait
        <5> QED
          BY <1>4, <5>1
      <4>2. DqThresh <= FullRoom
        <5>1. DqMany * DqThresh >= 1 * DqThresh
          BY <1>4, <4>1
        <5> QED
          BY <1>4, <5>1 DEF FullRoom
      <4>3. Round = FullRoom + DqThresh /\ Room' = Room + dqcount
        BY <1>4, <2>1 DEF Round
      <4> QED
        BY <1>4, <3>1, <4>2, <4>3
    <3> QED
      BY <3>2, <3>3
  <2> QED
    BY <2>4, <2>5
<1>9. Overrun'
  <2>1. DqDue' + Room' <= Base' + FullRoom' + 0
    <3>1. Base + Round + FullRoom \in Nat
      BY <1>4
    <3> QED
      BY <1>5, <1>6, <1>8, <3>1
  <2>2. ~Asked' /\ ~dqlocked' /\ dqcheck'.pc = "idle"
    BY <1>1, <1>2 DEF Asked
  <2> QED
    BY <2>1, <2>2 DEF Overrun
<1> QED
  BY <1>5, <1>7, <1>9 DEF DqInv

LEMMA DqSetStep ==
    ASSUME DqInv, DqSet
    PROVE  DqInv'
<1>1. /\ dqcheck.pc = "set" /\ dqcheck' = NoCheck
      /\ dqlocked' = IF dqcheck.over = dqcheck.was THEN dqlocked ELSE dqcheck.over
      /\ UNCHANGED <<dqsize, dqcount, dqc, dqscan, dqfaults>>
  BY DEF DqSet
<1>2. dqcheck \in CheckRec /\ dqlocked \in BOOLEAN
  BY DEF DqInv, DqTypes
<1>3. DqDue' = DqDue /\ Room' = Room /\ AllWait' /\ FullRoom' = FullRoom /\ Round' = Round
  BY <1>1, ConnsRest
<1>4. Base' = Base
  BY <1>1, <1>3 DEF Base, DqMany
<1>5. NoCheck.pc = "idle"
  BY DEF NoCheck
<1>6. DqTypes'
  <2>1. NoCheck \in CheckRec
    BY DEF NoCheck, CheckRec
  <2>2. dqlocked' \in BOOLEAN
    BY <1>1, <1>2 DEF CheckRec
  <2> QED
    BY <1>1, <2>1, <2>2 DEF DqInv, DqTypes
<1>7. Round = FullRoom + DqThresh
  BY DEF Round
<1>8. CASE dqcheck.over = dqcheck.was
  BY <1>1, <1>2, <1>3, <1>4, <1>5, <1>6, <1>8, DqNumbers DEF DqInv, Overrun, Asked
<1>9. CASE dqcheck.over /\ ~dqcheck.was
  <2>1. dqlocked' /\ dqcheck'.pc = "idle"
    BY <1>1, <1>5, <1>9
  <2>2. DqDue <= Base + Round
    <3>1. CASE dqlocked
      BY <3>1 DEF DqInv, Overrun
    <3>2. CASE ~dqlocked
      <4>1. DqDue + Room <= Base + FullRoom + DqThresh
        BY <3>2, DqNumbers DEF DqInv, Overrun
      <4> QED
        BY <1>7, <4>1, DqNumbers, RoomLeft DEF DqInv
    <3> QED
      BY <3>1, <3>2
  <2> QED
    BY <1>3, <1>4, <1>6, <2>1, <2>2 DEF DqInv, Overrun
<1>10. CASE ~dqcheck.over /\ dqcheck.was
  <2>1. ~dqlocked' /\ dqcheck'.pc = "idle" /\ ~Asked'
    BY <1>1, <1>5, <1>10 DEF Asked
  <2>2. DqDue + Room <= Base + FullRoom
    <3>1. IF dqlocked THEN DqDue <= Base ELSE DqDue + Room <= Base + FullRoom
      BY <1>1, <1>10 DEF DqInv, Overrun
    <3> QED
      BY <3>1, DqNumbers DEF DqInv
  <2> QED
    BY <1>3, <1>4, <1>6, <2>1, <2>2, DqNumbers DEF DqInv, Overrun
<1> QED
  BY <1>2, <1>8, <1>9, <1>10 DEF CheckRec

LEMMA QuotaInit == DqInit => DqInv
<1> SUFFICES ASSUME DqInit PROVE DqInv
  OBVIOUS
<1>1. Asking = {} /\ Forwarding = {}
  BY DEF DqInit, Asking, Forwarding
<1>2. Cardinality(Asking) = 0 /\ Cardinality(Forwarding) = 0
  BY <1>1, FS_EmptySet
<1>3. DqTypes
  <2>1. NoCheck \in CheckRec
    BY DEF NoCheck, CheckRec
  <2>2. dqcount \in 0 .. DqThresh - 1 /\ dqfaults \in 0 .. DqMaxFaults /\ dqsize \in 0 .. DqMaxSize
    BY DqAssumption DEF DqInit
  <2> QED
    BY <2>1, <2>2 DEF DqInit, DqTypes
<1>4. DqDue = 0 /\ AllWait
  BY <1>2 DEF DqInit, DqDue, AllWait
<1>5. Overrun
  BY <1>3, <1>4, DqNumbers DEF DqInit, Overrun, NoCheck, Asked
<1> QED
  BY <1>3, <1>4, <1>5 DEF DqInv

LEMMA QuotaInvHolds == DqSpec => []DqInv
<1>1. DqInv /\ [DqNext]_dqVars => DqInv'
  <2> SUFFICES ASSUME DqInv, [DqNext]_dqVars PROVE DqInv'
    OBVIOUS
  <2>1. CASE UNCHANGED dqVars
    BY <2>1, ConnsRest DEF dqVars, DqInv, DqTypes, Overrun, Asked, Base, DqMany
  <2> QED
    BY <2>1, DqRequestStep, DqAskStep, DqGrowStep, DqShrinkStep, DqScanStep, DqStatStep, DqGoneStep, DqSetStep
       DEF DqNext, DqChecker
<1> QED
  BY <1>1, QuotaInit, PTL DEF DqSpec

\* The types of the quota's model (mgo/quota.go).
THEOREM QuotaTypes == DqSpec => []DqTypeOK
<1>1. DqInv => DqTypeOK
  BY DEF DqInv, DqTypes, DqTypeOK, CheckRec
<1> QED
  BY <1>1, QuotaInvHolds, PTL

\* The database outgrows its quota by no more than what the connections can do until
\* each waits for the checker, once more for each check that failed (mgo/quota.go).
THEOREM QuotaIsKept == DqSpec => []QuotaOverrunBounded
<1>1. DqInv => QuotaOverrunBounded
  BY OverrunBounds
<1> QED
  BY <1>1, QuotaInvHolds, PTL

-----------------------------------------------------------------------------
(* The rates of a database.  Every entry has one limiter and one timer at  *)
(* most, a connection sleeps in an entry whose limiter has not ended, and  *)
(* the entry in the cache is the newest one.                               *)

EntryRec == [rate : BOOLEAN, lim : {"none", "wait", "sleep", "end"}, tmr : {"none", "armed", "stop", "done"}]
DrConnRec == [pc : {"idle", "read", "store", "send"}, e : 0 .. DrMaxEntries, rate : BOOLEAN]
DrTypes ==
    /\ drrate \in BOOLEAN /\ drcache \in 0 .. DrMaxEntries
    /\ drent \in [DrEntry -> EntryRec] /\ drc \in [DrConns -> DrConnRec]
    /\ drpassed \in 0 .. DrMaxPass /\ drslept \in Nat

\* entries whose goroutine sleeps, and those that the timer took out of the cache
Sleeping == {e \in DrEntry : drent[e].lim = "sleep"}
Expired == {e \in Made : drent[e].rate /\ drent[e].tmr \in {"stop", "done"}}

\* An entry is not made, or has a rate, a goroutine and a timer, or has neither of them.
Served(n) == n.rate /\ n.lim \in {"wait", "sleep"} /\ n.tmr \in {"armed", "stop"}
Ended(n) == n.lim = "end" /\ n.tmr = "done"
EntryFits(e) ==
    /\ drent[e] = Unmade \/ Served(drent[e]) \/ Ended(drent[e])
    /\ drent[e].tmr = "armed" => e = drcache
\* Entries are made in their order; the timer of the cached one has not run.
CacheFits ==
    /\ \A e \in DrEntry : e \in Made <=> e <= Cardinality(Made)
    /\ drcache # 0 => drcache \in Made /\ (drent[drcache].rate => drent[drcache].tmr = "armed")
SendersFit == \A k \in DrConns : drc[k].pc = "send" => drc[k].e \in DrEntry

DrInv ==
    /\ DrTypes /\ (\A e \in DrEntry : EntryFits(e)) /\ CacheFits /\ SendersFit
    /\ drpassed = drslept + Cardinality(Sleeping)

-----------------------------------------------------------------------------
LEMMA DrFinite ==
    /\ IsFiniteSet(DrEntry) /\ IsFiniteSet(Sleeping) /\ IsFiniteSet(Made) /\ IsFiniteSet(Expired)
    /\ Cardinality(Sleeping) \in Nat /\ Cardinality(Made) \in Nat /\ Cardinality(Expired) \in Nat
<1>1. IsFiniteSet(1 .. DrMaxEntries)
  BY DrAssumption, FS_Interval
<1>2. Sleeping \subseteq DrEntry /\ Made \subseteq DrEntry /\ Expired \subseteq DrEntry
  BY DEF Sleeping, Made, Expired
<1>3. IsFiniteSet(DrEntry)
  BY <1>1 DEF DrEntry
<1>4. IsFiniteSet(Sleeping) /\ IsFiniteSet(Made) /\ IsFiniteSet(Expired)
  BY <1>2, <1>3, FS_Subset
<1> QED
  BY <1>3, <1>4, FS_CardinalityType

LEMMA DrInitInv ==
    ASSUME DrInit
    PROVE  DrInv
<1>1. Unmade \in EntryRec /\ Idle \in DrConnRec /\ Unmade.lim = "none" /\ Unmade.tmr = "none" /\ Idle.pc = "idle"
  BY DrAssumption DEF Unmade, Idle, EntryRec, DrConnRec
<1>2. DrTypes
  <2>1. 0 \in 0 .. DrMaxEntries /\ 0 \in 0 .. DrMaxPass /\ 0 \in Nat
    BY DrAssumption
  <2>2. drent \in [DrEntry -> EntryRec] /\ drc \in [DrConns -> DrConnRec]
    BY <1>1 DEF DrInit
  <2> QED
    BY <2>1, <2>2 DEF DrInit, DrTypes
<1>3. Sleeping = {} /\ Made = {}
  BY <1>1 DEF Sleeping, Made, DrInit
<1>4. Cardinality(Sleeping) = 0 /\ Cardinality(Made) = 0
  BY <1>3, FS_EmptySet
<1>5. CacheFits
  <2>1. \A e \in DrEntry : e \in Nat /\ e >= 1
    BY DEF DrEntry
  <2>2. \A e \in DrEntry : e \notin Made /\ ~(e <= Cardinality(Made))
    BY <1>3, <1>4, <2>1
  <2> QED
    BY <2>2 DEF DrInit, CacheFits
<1>6. \A e \in DrEntry : EntryFits(e)
  BY <1>1 DEF DrInit, EntryFits
<1>7. SendersFit
  BY <1>1 DEF DrInit, SendersFit
<1> QED
  BY <1>2, <1>4, <1>5, <1>6, <1>7 DEF DrInv, DrInit

-----------------------------------------------------------------------------
\* What a connection does with the entry it has is one of its labels.
LEMMA WithFits ==
    ASSUME DrTypes, SendersFit, NEW k \in DrConns, NEW e \in DrEntry, With(k, e)
    PROVE  drc' \in [DrConns -> DrConnRec] /\ SendersFit'
<1> DEFINE r == IF drent'[e].rate THEN [Idle EXCEPT !.pc = "send", !.e = e] ELSE Idle
<1>1. r \in DrConnRec /\ (r.pc = "send" => r.e = e)
  <2>1. Idle \in DrConnRec /\ Idle.pc = "idle"
    BY DrAssumption DEF Idle, DrConnRec
  <2>2. e \in 0 .. DrMaxEntries
    BY DrAssumption DEF DrEntry
  <2>3. [Idle EXCEPT !.pc = "send", !.e = e] \in DrConnRec /\ [Idle EXCEPT !.pc = "send", !.e = e].e = e
    BY <2>2 DEF Idle, DrConnRec
  <2> QED
    BY <2>1, <2>3
<1>2. drc' = [drc EXCEPT ![k] = r]
  BY DEF With
<1> HIDE DEF r
<1>3. drc' \in [DrConns -> DrConnRec]
  BY <1>1, <1>2 DEF DrTypes
<1>4. \A j \in DrConns : drc'[j] = IF j = k THEN r ELSE drc[j]
  BY <1>2 DEF DrTypes
<1> QED
  BY <1>1, <1>3, <1>4 DEF SendersFit

\* A step that leaves the entries alone
LEMMA EntriesRest ==
    ASSUME DrInv, UNCHANGED <<drcache, drent, drpassed, drslept>>,
           drrate' \in BOOLEAN, drc' \in [DrConns -> DrConnRec], SendersFit'
    PROVE  DrInv'
<1>1. Sleeping' = Sleeping /\ Made' = Made
  BY DEF Sleeping, Made
<1>2. DrTypes' /\ CacheFits' /\ (\A e \in DrEntry : EntryFits(e)')
  BY <1>1 DEF DrInv, DrTypes, CacheFits, EntryFits
<1> QED
  BY <1>1, <1>2 DEF DrInv

LEMMA DrSetRateStep ==
    ASSUME DrInv, DrSetRate
    PROVE  DrInv'
BY EntriesRest DEF DrSetRate, DrInv, DrTypes, SendersFit

LEMMA DrLoadStep ==
    ASSUME DrInv, NEW k \in DrConns, DrLoad(k)
    PROVE  DrInv'
<1>1. UNCHANGED <<drrate, drcache, drent, drpassed, drslept>> /\ drc[k].pc = "idle"
  BY DEF DrLoad
<1>2. drc' \in [DrConns -> DrConnRec] /\ SendersFit'
  <2>1. CASE drcache # 0
    <3>1. drcache \in DrEntry
      BY <2>1 DEF DrInv, CacheFits, Made
    <3> QED
      BY <2>1, <3>1, WithFits DEF DrLoad, DrInv
  <2>2. CASE drcache = 0
    <3>1. drc' = [drc EXCEPT ![k].pc = "read"]
      BY <2>2 DEF DrLoad
    <3>2. drc[k] \in DrConnRec
      BY DEF DrInv, DrTypes
    <3>3. [drc[k] EXCEPT !.pc = "read"] \in DrConnRec /\ [drc[k] EXCEPT !.pc = "read"].pc = "read"
      BY <3>2 DEF DrConnRec
    <3>4. \A j \in DrConns : drc'[j] = IF j = k THEN [drc[k] EXCEPT !.pc = "read"] ELSE drc[j]
      BY <3>1 DEF DrInv, DrTypes
    <3>5. drc' \in [DrConns -> DrConnRec]
      BY <3>1, <3>3 DEF DrInv, DrTypes
    <3> QED
      BY <3>3, <3>4, <3>5 DEF DrInv, SendersFit
  <2> QED
    BY <2>1, <2>2
<1> QED
  BY <1>1, <1>2, EntriesRest DEF DrInv, DrTypes

LEMMA DrReadStep ==
    ASSUME DrInv, NEW k \in DrConns, DrRead(k)
    PROVE  DrInv'
<1>1. UNCHANGED <<drrate, drcache, drent, drpassed, drslept>>
  BY DEF DrRead
<1>2. PICK r \in DrConnRec : drc' = [drc EXCEPT ![k] = r] /\ r.pc # "send"
  <2>1. [Idle EXCEPT !.pc = "store", !.rate = drrate] \in DrConnRec /\ Idle \in DrConnRec
    <3>1. 0 \in 0 .. DrMaxEntries /\ drrate \in BOOLEAN
      BY DrAssumption DEF DrInv, DrTypes
    <3> QED
      BY <3>1 DEF Idle, DrConnRec
  <2>2. [Idle EXCEPT !.pc = "store", !.rate = drrate].pc = "store" /\ Idle.pc = "idle"
    BY DEF Idle
  <2> QED
    BY <2>1, <2>2 DEF DrRead
<1>3. drc' \in [DrConns -> DrConnRec]
  BY <1>2 DEF DrInv, DrTypes
<1>4. \A j \in DrConns : drc'[j] = IF j = k THEN r ELSE drc[j]
  BY <1>2 DEF DrInv, DrTypes
<1>5. SendersFit'
  BY <1>2, <1>4 DEF DrInv, SendersFit
<1> QED
  BY <1>1, <1>3, <1>5, EntriesRest DEF DrInv, DrTypes

LEMMA DrStoreStep ==
    ASSUME DrInv, NEW k \in DrConns, DrStore(k)
    PROVE  DrInv'
<1>1. UNCHANGED <<drrate, drpassed, drslept>>
  BY DEF DrStore
<1>2. CASE drcache # 0 /\ UNCHANGED <<drcache, drent>> /\ With(k, drcache)
  <2>1. drcache \in DrEntry
    BY <1>2 DEF DrInv, CacheFits, Made
  <2>2. drc' \in [DrConns -> DrConnRec] /\ SendersFit'
    BY <1>2, <2>1, WithFits DEF DrInv
  <2> QED
    BY <1>1, <1>2, <2>2, EntriesRest DEF DrInv, DrTypes
<1>3. CASE \E e \in DrEntry :
             /\ drcache = 0 /\ e = Cardinality(Made) + 1
             /\ drcache' = e /\ NewEntry(e, drc[k].rate) /\ With(k, e)
  <2>1. PICK e \in DrEntry :
             /\ drcache = 0 /\ e = Cardinality(Made) + 1
             /\ drcache' = e /\ NewEntry(e, drc[k].rate) /\ With(k, e)
    BY <1>3
  <2> DEFINE n == [rate |-> drc[k].rate, lim |-> IF drc[k].rate THEN "wait" ELSE "end",
                   tmr |-> IF drc[k].rate THEN "armed" ELSE "done"]
  <2>2. drc[k].rate \in BOOLEAN
    BY DEF DrInv, DrTypes, DrConnRec
  <2>3. /\ n \in EntryRec /\ n.lim # "sleep" /\ n.tmr # "none" /\ (Served(n) \/ Ended(n))
        /\ (n.rate => n.tmr = "armed")
    <3>1. CASE drc[k].rate
      BY <2>2, <3>1 DEF EntryRec, Served
    <3>2. CASE ~drc[k].rate
      BY <2>2, <3>2 DEF EntryRec, Ended
    <3> QED
      BY <3>1, <3>2
  <2>4. drent' = [drent EXCEPT ![e] = n]
    BY <2>1 DEF NewEntry
  <2> HIDE DEF n
  <2>5. drent' \in [DrEntry -> EntryRec] /\ \A d \in DrEntry : drent'[d] = IF d = e THEN n ELSE drent[d]
    BY <2>3, <2>4 DEF DrInv, DrTypes
  <2>6. drc' \in [DrConns -> DrConnRec] /\ SendersFit'
    BY <2>1, WithFits DEF DrInv
  <2>7. e \notin Made
    <3>1. ~(e <= Cardinality(Made))
      BY <2>1, DrFinite
    <3> QED
      BY <3>1 DEF DrInv, CacheFits
  <2>8. drent[e].lim # "sleep"
    <3>1. drent[e].tmr = "none"
      BY <2>7 DEF Made
    <3>2. EntryFits(e)
      BY DEF DrInv
    <3> QED
      BY <3>1, <3>2 DEF EntryFits, Served, Ended, Unmade
  <2>9. Sleeping' = Sleeping
    BY <2>3, <2>5, <2>8 DEF Sleeping
  <2>10. Made' = Made \cup {e}
    BY <2>3, <2>5 DEF Made
  <2>11. Cardinality(Made') = Cardinality(Made) + 1
    BY <2>7, <2>10, DrFinite, FS_AddElement
  <2>12. CacheFits'
    <3>1. \A d \in DrEntry : d \in Made' <=> d <= Cardinality(Made')
      <4>1. TAKE d \in DrEntry
      <4>2. d \in Nat /\ Cardinality(Made) \in Nat /\ (d \in Made <=> d <= Cardinality(Made))
        BY DrFinite DEF DrInv, CacheFits, DrEntry
      <4>3. d \in Made' <=> d \in Made \/ d = e
        BY <2>10
      <4> QED
        BY <2>1, <2>11, <4>2, <4>3
    <3>2. drcache' \in Made' /\ (drent'[drcache'].rate => drent'[drcache'].tmr = "armed")
      BY <2>1, <2>3, <2>5, <2>10
    <3> QED
      BY <3>1, <3>2 DEF CacheFits
  <2>13. \A d \in DrEntry : EntryFits(d)'
    <3>1. TAKE d \in DrEntry
    <3>2. EntryFits(d) /\ d # 0
      BY DEF DrInv, DrEntry
    <3> QED
      BY <2>1, <2>3, <2>5, <3>2 DEF EntryFits
  <2>14. DrTypes'
    BY <1>1, <2>1, <2>5, <2>6 DEF DrInv, DrTypes, DrEntry
  <2> QED
    BY <1>1, <2>6, <2>9, <2>12, <2>13, <2>14 DEF DrInv
<1> QED
  BY <1>2, <1>3 DEF DrStore

-----------------------------------------------------------------------------
\* A step that changes one entry that is made, and leaves it so
LEMMA EntryStep ==
    ASSUME DrInv, NEW e \in DrEntry, NEW n \in EntryRec,
           drent' = [drent EXCEPT ![e] = n], drent[e].tmr # "none", n.tmr # "none"
    PROVE  /\ drent' \in [DrEntry -> EntryRec]
           /\ \A d \in DrEntry : drent'[d] = IF d = e THEN n ELSE drent[d]
           /\ Made' = Made /\ Cardinality(Made') = Cardinality(Made)
           /\ \A d \in DrEntry : d \in Made' <=> d <= Cardinality(Made')
<1>1. /\ drent' \in [DrEntry -> EntryRec]
      /\ \A d \in DrEntry : drent'[d] = IF d = e THEN n ELSE drent[d]
  BY DEF DrInv, DrTypes
<1>2. Made' = Made
  BY <1>1 DEF Made
<1> QED
  BY <1>1, <1>2 DEF DrInv, CacheFits

\* A goroutine that reads its channel is one of an entry with a rate.
LEMMA ServedEntry ==
    ASSUME DrInv, NEW e \in DrEntry, drent[e].lim \in {"wait", "sleep"} \/ drent[e].tmr \in {"armed", "stop"}
    PROVE  Served(drent[e]) /\ drent[e] \in EntryRec
BY DEF DrInv, DrTypes, EntryFits, Unmade, Ended

LEMMA DrPassStep ==
    ASSUME DrInv, NEW k \in DrConns, DrPass(k)
    PROVE  DrInv'
<1> DEFINE e == drc[k].e
           n == [drent[e] EXCEPT !.lim = "sleep"]
<1>1. e \in DrEntry
  BY DEF DrInv, SendersFit, DrPass
<1>2. Served(drent[e]) /\ drent[e] \in EntryRec /\ drent[e].lim = "wait"
  BY <1>1, ServedEntry DEF DrPass
<1>3. n \in EntryRec /\ n.lim = "sleep" /\ n.rate = drent[e].rate /\ n.tmr = drent[e].tmr /\ Served(n)
  BY <1>2 DEF EntryRec, Served
<1>4. drent' = [drent EXCEPT ![e] = n] /\ UNCHANGED <<drrate, drcache, drslept>>
  BY DEF DrPass
<1>5. drc' = [drc EXCEPT ![k] = Idle] /\ drpassed < DrMaxPass /\ drpassed' = drpassed + 1
  BY DEF DrPass
<1> HIDE DEF n, e
<1>6. /\ drent' \in [DrEntry -> EntryRec]
      /\ \A d \in DrEntry : drent'[d] = IF d = e THEN n ELSE drent[d]
      /\ Made' = Made /\ \A d \in DrEntry : d \in Made' <=> d <= Cardinality(Made')
  BY <1>1, <1>2, <1>3, <1>4, EntryStep DEF Served
<1>7. Sleeping' = Sleeping \cup {e} /\ e \notin Sleeping
  BY <1>1, <1>2, <1>3, <1>6 DEF Sleeping
<1>8. Cardinality(Sleeping') = Cardinality(Sleeping) + 1
  BY <1>7, DrFinite, FS_AddElement
<1>9. CacheFits'
  <2>1. drcache' # 0 => drcache' \in Made' /\ (drent'[drcache'].rate => drent'[drcache'].tmr = "armed")
    BY <1>3, <1>4, <1>6 DEF DrInv, CacheFits, Made
  <2> QED
    BY <1>6, <2>1 DEF CacheFits
<1>10. \A d \in DrEntry : EntryFits(d)'
  BY <1>3, <1>4, <1>6 DEF DrInv, EntryFits
<1>11. drc' \in [DrConns -> DrConnRec] /\ SendersFit'
  <2>1. Idle \in DrConnRec /\ Idle.pc = "idle"
    BY DrAssumption DEF Idle, DrConnRec
  <2>2. \A j \in DrConns : drc'[j] = IF j = k THEN Idle ELSE drc[j]
    BY <1>5 DEF DrInv, DrTypes
  <2> QED
    BY <1>5, <2>1, <2>2 DEF DrInv, DrTypes, SendersFit
<1>12. DrTypes'
  BY <1>4, <1>5, <1>6, <1>11, DrAssumption DEF DrInv, DrTypes
<1>13. drpassed' = drslept' + Cardinality(Sleeping')
  BY <1>4, <1>5, <1>8, DrFinite DEF DrInv, DrTypes
<1> QED
  BY <1>9, <1>10, <1>11, <1>12, <1>13 DEF DrInv

LEMMA DrWakeStep ==
    ASSUME DrInv, NEW e \in DrEntry, DrWake(e)
    PROVE  DrInv'
<1> DEFINE n == [drent[e] EXCEPT !.lim = "wait"]
<1>2. Served(drent[e]) /\ drent[e] \in EntryRec /\ drent[e].lim = "sleep"
  BY ServedEntry DEF DrWake
<1>3. n \in EntryRec /\ n.lim = "wait" /\ n.rate = drent[e].rate /\ n.tmr = drent[e].tmr /\ Served(n)
  BY <1>2 DEF EntryRec, Served
<1>4. drent' = [drent EXCEPT ![e] = n] /\ UNCHANGED <<drrate, drcache, drc, drpassed>> /\ drslept' = drslept + 1
  BY DEF DrWake
<1> HIDE DEF n
<1>6. /\ drent' \in [DrEntry -> EntryRec]
      /\ \A d \in DrEntry : drent'[d] = IF d = e THEN n ELSE drent[d]
      /\ Made' = Made /\ \A d \in DrEntry : d \in Made' <=> d <= Cardinality(Made')
  BY <1>2, <1>3, <1>4, EntryStep DEF Served
<1>7. Sleeping' = Sleeping \ {e} /\ e \in Sleeping
  BY <1>2, <1>3, <1>6 DEF Sleeping
<1>8. Cardinality(Sleeping') = Cardinality(Sleeping) - 1
  BY <1>7, DrFinite, FS_RemoveElement
<1>9. CacheFits'
  <2>1. drcache' # 0 => drcache' \in Made' /\ (drent'[drcache'].rate => drent'[drcache'].tmr = "armed")
    BY <1>3, <1>4, <1>6 DEF DrInv, CacheFits, Made
  <2> QED
    BY <1>6, <2>1 DEF CacheFits
<1>10. \A d \in DrEntry : EntryFits(d)'
  BY <1>3, <1>4, <1>6 DEF DrInv, EntryFits
<1>11. SendersFit'
  BY <1>4 DEF DrInv, SendersFit
<1>12. DrTypes'
  BY <1>4, <1>6 DEF DrInv, DrTypes
<1>13. drpassed' = drslept' + Cardinality(Sleeping')
  BY <1>4, <1>8, DrFinite DEF DrInv, DrTypes
<1> QED
  BY <1>9, <1>10, <1>11, <1>12, <1>13 DEF DrInv

LEMMA DrExpireStep ==
    ASSUME DrInv, NEW e \in DrEntry, DrExpire(e)
    PROVE  DrInv'
<1> DEFINE n == [drent[e] EXCEPT !.tmr = "stop"]
<1>2. Served(drent[e]) /\ drent[e] \in EntryRec /\ e = drcache
  BY ServedEntry DEF DrExpire, DrInv, EntryFits
<1>3. n \in EntryRec /\ n.lim = drent[e].lim /\ n.tmr = "stop" /\ Served(n)
  BY <1>2 DEF EntryRec, Served
<1>4. drent' = [drent EXCEPT ![e] = n] /\ UNCHANGED <<drrate, drc, drpassed, drslept>> /\ drcache' = 0
  BY DEF DrExpire
<1> HIDE DEF n
<1>6. /\ drent' \in [DrEntry -> EntryRec]
      /\ \A d \in DrEntry : drent'[d] = IF d = e THEN n ELSE drent[d]
      /\ Made' = Made /\ \A d \in DrEntry : d \in Made' <=> d <= Cardinality(Made')
  BY <1>2, <1>3, <1>4, EntryStep DEF Served
<1>7. Sleeping' = Sleeping
  BY <1>3, <1>6 DEF Sleeping
<1>9. CacheFits'
  BY <1>4, <1>6 DEF CacheFits
<1>10. \A d \in DrEntry : EntryFits(d)'
  BY <1>2, <1>3, <1>4, <1>6 DEF DrInv, EntryFits
<1>11. SendersFit'
  BY <1>4 DEF DrInv, SendersFit
<1>12. DrTypes'
  BY <1>4, <1>6, DrAssumption DEF DrInv, DrTypes
<1> QED
  BY <1>4, <1>7, <1>9, <1>10, <1>11, <1>12 DEF DrInv

LEMMA DrStopStep ==
    ASSUME DrInv, NEW e \in DrEntry, DrStop(e)
    PROVE  DrInv'
<1> DEFINE n == [drent[e] EXCEPT !.tmr = "done", !.lim = "end"]
<1>2. Served(drent[e]) /\ drent[e] \in EntryRec /\ drent[e].lim = "wait" /\ drent[e].tmr = "stop"
  BY ServedEntry DEF DrStop
<1>3. n \in EntryRec /\ n.lim = "end" /\ n.rate = drent[e].rate /\ n.tmr = "done" /\ Ended(n)
  BY <1>2 DEF EntryRec, Ended
<1>4. drent' = [drent EXCEPT ![e] = n] /\ UNCHANGED <<drrate, drcache, drc, drpassed, drslept>>
  <2>1. drent' = [drent EXCEPT ![e].tmr = "done", ![e].lim = "end"]
    BY DEF DrStop
  <2> QED
    BY <2>1 DEF DrStop, DrInv, DrTypes
<1> HIDE DEF n
<1>6. /\ drent' \in [DrEntry -> EntryRec]
      /\ \A d \in DrEntry : drent'[d] = IF d = e THEN n ELSE drent[d]
      /\ Made' = Made /\ \A d \in DrEntry : d \in Made' <=> d <= Cardinality(Made')
  BY <1>2, <1>3, <1>4, EntryStep
<1>7. Sleeping' = Sleeping
  BY <1>2, <1>3, <1>6 DEF Sleeping
<1>8. drcache # e
  BY <1>2 DEF DrInv, CacheFits, Served, DrEntry
<1>9. CacheFits'
  <2>1. drcache' # 0 => drcache' \in Made' /\ (drent'[drcache'].rate => drent'[drcache'].tmr = "armed")
    BY <1>4, <1>6, <1>8 DEF DrInv, CacheFits, Made
  <2> QED
    BY <1>6, <2>1 DEF CacheFits
<1>10. \A d \in DrEntry : EntryFits(d)'
  BY <1>3, <1>4, <1>6 DEF DrInv, EntryFits
<1>11. SendersFit'
  BY <1>4 DEF DrInv, SendersFit
<1>12. DrTypes'
  BY <1>4, <1>6 DEF DrInv, DrTypes
<1> QED
  BY <1>4, <1>7, <1>9, <1>10, <1>11, <1>12 DEF DrInv

LEMMA DrInvStep ==
    ASSUME DrInv, [DrNext]_drVars
    PROVE  DrInv'
<1>1. CASE UNCHANGED drVars
  BY <1>1, EntriesRest DEF drVars, DrInv, DrTypes, SendersFit
<1> QED
  BY <1>1, DrSetRateStep, DrLoadStep, DrReadStep, DrStoreStep, DrPassStep, DrWakeStep, DrExpireStep, DrStopStep
     DEF DrNext

LEMMA DrSpecInv == DrSpec => []DrInv
BY DrInitInv, DrInvStep, PTL DEF DrSpec

-----------------------------------------------------------------------------
LEMMA RatesInv ==
    ASSUME DrInv
    PROVE  DrTypeOK /\ RatePaced /\ CachedIsServed
<1>1. drslept <= drpassed
  BY DrFinite DEF DrInv, DrTypes
<1>2. DrTypeOK
  BY <1>1, DrAssumption DEF DrInv, DrTypes, DrTypeOK, EntryRec, DrConnRec
<1>3. CachedIsServed
  <2>1. SUFFICES ASSUME drcache # 0, drent[drcache].rate PROVE drent[drcache].lim \in {"wait", "sleep"}
    BY DEF CachedIsServed
  <2>2. drcache \in DrEntry /\ drent[drcache].tmr = "armed"
    BY <2>1 DEF DrInv, CacheFits, Made
  <2> QED
    BY <2>2, ServedEntry DEF Served
<1>4. RatePaced
  <2>1. Sleeping \subseteq Expired \cup {drcache}
    <3>1. SUFFICES ASSUME NEW e \in Sleeping PROVE e \in Expired \cup {drcache}
      OBVIOUS
    <3>2. e \in DrEntry /\ drent[e].lim = "sleep"
      BY DEF Sleeping
    <3>3. Served(drent[e])
      BY <3>2, ServedEntry
    <3>4. drent[e].tmr = "armed" => e = drcache
      BY <3>2 DEF DrInv, EntryFits
    <3> QED
      BY <3>2, <3>3, <3>4 DEF Served, Expired, Made
  <2>2. IsFiniteSet(Expired \cup {drcache}) /\ Cardinality(Expired \cup {drcache}) <= Cardinality(Expired) + 1
    <3>1. IsFiniteSet(Expired \cup {drcache})
      BY DrFinite, FS_AddElement
    <3>2. CASE drcache \in Expired
      <4>1. Expired \cup {drcache} = Expired
        BY <3>2
      <4> QED
        BY <4>1, DrFinite
    <3>3. CASE drcache \notin Expired
      <4>1. Cardinality(Expired \cup {drcache}) = Cardinality(Expired) + 1
        BY <3>3, DrFinite, FS_AddElement
      <4> QED
        BY <3>1, <4>1, DrFinite
    <3> QED
      BY <3>1, <3>2, <3>3
  <2>3. Cardinality(Sleeping) <= Cardinality(Expired \cup {drcache}) /\ Cardinality(Expired \cup {drcache}) \in Nat
    BY <2>1, <2>2, FS_Subset, FS_CardinalityType
  <2>4. drpassed <= 1 + drslept + Cardinality(Expired)
    BY <2>2, <2>3, DrFinite DEF DrInv, DrTypes
  <2> QED
    BY <2>4 DEF RatePaced, Expired
<1> QED
  BY <1>2, <1>3, <1>4

\* The types of the rates' model (mgo/ratelimit.go).
THEOREM RatesTypes == DrSpec => []DrTypeOK
BY DrSpecInv, RatesInv, PTL

\* The database is never asked faster than its rate, and the entry connections find in
\* the cache has a goroutine that reads its channel (mgo/ratelimit.go).
THEOREM RatesKept == DrSpec => [](RatePaced /\ CachedIsServed)
BY DrSpecInv, RatesInv, PTL

-----------------------------------------------------------------------------
(* Users and plans of admd.  What a handler has read of the tenant it adds *)
(* or removes is what the two databases still hold, but for what a second  *)
(* handler changed meanwhile; every record that is left is then the blame  *)
(* of a failed call, a crash or such a handler.                            *)

UsLabels == {"idle", "a_lim", "a_proj", "a_user", "a_role", "a_undo", "d_proj", "d_lim", "d_user",
             "d_find", "d_last", "l_info", "l_set", "p_set"}
UsRec == [pc : UsLabels, id : 0 .. UsMaxOps, proj : 0 .. UsMaxOps, lim : Limits \cup {NoLimits}]
InfoRec == [proj : 0 .. UsMaxOps, role : BOOLEAN, on : BOOLEAN, creds : BOOLEAN]
UsGhostRec == [blame : BOOLEAN, late : BOOLEAN, planned : BOOLEAN]
UsTypes ==
    /\ uslim \in Limits \cup {NoLimits} /\ usplan \in Limits \cup {NoLimits}
    /\ usproj \in 0 .. usops /\ ususer \in 0 .. usops /\ usgate \in BOOLEAN
    /\ usinfo \in InfoRec /\ usw \in [UsWorkers -> UsRec] /\ usghost \in UsGhostRec
    /\ usops \in 0 .. UsMaxOps /\ usfaults \in 0 .. UsMaxFaults

\* handlers that have the project of the name in their hands: it was made and its
\* user was not, or the user is deleted and the project is not
Holds(r) == r.pc \in {"a_user", "d_find", "d_last"}
\* adds that stored limits, and those of them that will make a user or undo it
Planned(r) == r.lim # NoLimits /\ r.pc \in {"a_proj", "a_user"}
Working(r) == r.lim # NoLimits /\ r.pc \in {"a_proj", "a_user", "a_undo"}
Deleting(r) == r.pc \in {"d_proj", "d_lim", "d_user"}

\* A project that is there belongs to the user or to one handler only.
ProjectsFit ==
    /\ \A v, w \in UsWorkers : Holds(usw[v]) /\ Holds(usw[w]) => v = w
    /\ \A w \in UsWorkers : Holds(usw[w]) => usproj # 0 /\ ususer = 0
    /\ \A w \in UsWorkers : usw[w].pc \in {"a_user", "d_last"} => usw[w].proj = usproj
    /\ ususer # 0 => usproj = ususer /\ usinfo.proj = ususer
    /\ usfaults = 0 /\ usproj # 0 => ususer # 0 \/ \E w \in UsWorkers : Holds(usw[w])

HandlerFits(r) ==
    /\ r.pc # "idle" => usops # 0
    /\ r.pc \in {"a_lim", "l_info", "l_set", "p_set"} => r.lim # NoLimits
    /\ r.pc = "l_set" => r.id # 0
    /\ Deleting(r) => r.id # 0 /\ r.id < usops
\* A user's number never comes again: a delete on its way is not of a later user.
HandlersFit ==
    /\ \A w \in UsWorkers : HandlerFits(usw[w])
    /\ \A v, w \in UsWorkers : Deleting(usw[v]) /\ usw[w].pc = "a_user" => usw[w].proj # usw[v].id

LimitsFit ==
    /\ usghost.planned \/ (\E w \in UsWorkers : Planned(usw[w])) => usghost.blame \/ uslim # NoLimits
    /\ usfaults = 0 /\ ~usghost.late /\ uslim # NoLimits =>
         \/ \E w \in UsWorkers : Working(usw[w])
         \/ ususer # 0 /\ \A w \in UsWorkers : usw[w].pc = "d_user" => usw[w].id # ususer

UsInv == UsTypes /\ ProjectsFit /\ HandlersFit /\ LimitsFit
-----------------------------------------------------------------------------
\* Where a handler is after a step of one of them
LEMMA UsNow ==
    ASSUME UsTypes, NEW w \in UsWorkers, NEW r, usw' = [usw EXCEPT ![w] = r]
    PROVE  /\ \A v \in UsWorkers : usw'[v] = IF v = w THEN r ELSE usw[v]
           /\ r \in UsRec => usw' \in [UsWorkers -> UsRec]
BY DEF UsTypes

LEMMA UsRecords ==
    ASSUME UsTypes
    PROVE  /\ AtRest \in UsRec /\ AtRest.pc = "idle" /\ AtRest.id = 0 /\ AtRest.proj = 0 /\ AtRest.lim = NoLimits
           /\ NoInfo \in InfoRec /\ NoInfo.proj = 0
           /\ \A w \in UsWorkers : usw[w] \in UsRec
           /\ usops \in Nat /\ usfaults \in Nat /\ NoLimits \notin Limits
BY UsAssumption DEF UsTypes, AtRest, NoInfo, UsRec, UsLabels, InfoRec, Limits

\* The parts of the invariant that a handler's step may disturb, one by one
LEMMA UsTypesStep ==
    ASSUME UsTypes, NEW w \in UsWorkers, NEW r \in UsRec, usw' = [usw EXCEPT ![w] = r],
           uslim' \in Limits \cup {NoLimits}, usplan' \in Limits \cup {NoLimits},
           usproj' \in 0 .. usops', ususer' \in 0 .. usops', usgate' \in BOOLEAN, usinfo' \in InfoRec,
           usghost' \in UsGhostRec, usops' \in 0 .. UsMaxOps, usfaults' \in 0 .. UsMaxFaults
    PROVE  UsTypes'
BY DEF UsTypes

LEMMA ProjectsRest ==
    ASSUME UsTypes, ProjectsFit, NEW w \in UsWorkers, NEW r \in UsRec, usw' = [usw EXCEPT ![w] = r],
           ~Holds(usw[w]), ~Holds(r),
           usproj' = usproj, ususer' = ususer, usinfo'.proj = usinfo.proj, usfaults' = 0 => usfaults = 0
    PROVE  ProjectsFit'
<1>1. \A v \in UsWorkers : usw'[v] = IF v = w THEN r ELSE usw[v]
  BY DEF UsTypes
<1>2. \A v \in UsWorkers : Holds(usw[v])' <=> Holds(usw[v])
  BY <1>1 DEF Holds
<1>3. \A v \in UsWorkers : Holds(usw[v])' => usw'[v] = usw[v]
  BY <1>1 DEF Holds
<1>4. \A v \in UsWorkers : usw'[v].pc \in {"a_user", "d_last"} => usw'[v] = usw[v]
  BY <1>1 DEF Holds
<1> QED
  BY <1>2, <1>3, <1>4 DEF ProjectsFit

LEMMA HandlersRest ==
    ASSUME UsTypes, HandlersFit, NEW w \in UsWorkers, NEW r \in UsRec, usw' = [usw EXCEPT ![w] = r],
           usops' \in Nat, usops' >= usops, HandlerFits(r)', r.pc # "a_user",
           Deleting(r) => \/ Deleting(usw[w]) /\ r.id = usw[w].id
                          \/ \A v \in UsWorkers : usw[v].pc # "a_user"
    PROVE  HandlersFit'
<1>1. \A v \in UsWorkers : usw'[v] = IF v = w THEN r ELSE usw[v]
  BY DEF UsTypes
<1>2. usops \in Nat /\ \A v \in UsWorkers : usw[v].id \in Nat
  BY DEF UsTypes, UsRec
<1>3. \A v \in UsWorkers : HandlerFits(usw[v])'
  BY <1>1, <1>2 DEF HandlersFit, HandlerFits
<1>4. \A u, v \in UsWorkers : Deleting(usw'[u]) /\ usw'[v].pc = "a_user" => usw'[v].proj # usw'[u].id
  BY <1>1 DEF HandlersFit, Deleting
<1> QED
  BY <1>3, <1>4 DEF HandlersFit, Deleting

LEMMA LimitsRest ==
    ASSUME UsTypes, LimitsFit, NEW w \in UsWorkers, NEW r \in UsRec, usw' = [usw EXCEPT ![w] = r],
           uslim' = uslim, ususer' = ususer, usghost' = usghost, usfaults' = 0 => usfaults = 0,
           Planned(r) => Planned(usw[w]), Working(usw[w]) /\ usfaults' = 0 => Working(r), r.pc # "d_user"
    PROVE  LimitsFit'
<1>1. \A v \in UsWorkers : usw'[v] = IF v = w THEN r ELSE usw[v]
  BY DEF UsTypes
<1>2. \A v \in UsWorkers : Planned(usw[v])' => Planned(usw[v])
  BY <1>1 DEF Planned
<1>3. \A v \in UsWorkers : Working(usw[v]) /\ usfaults' = 0 => Working(usw[v])'
  BY <1>1 DEF Working
<1>4. \A v \in UsWorkers : usw'[v].pc = "d_user" => usw'[v] = usw[v]
  BY <1>1
<1> QED
  BY <1>2, <1>3, <1>4 DEF LimitsFit

\* Most steps change neither project, user nor limits.
LEMMA UsElsewhere ==
    ASSUME UsInv, NEW w \in UsWorkers, NEW r \in UsRec, usw' = [usw EXCEPT ![w] = r],
           uslim' = uslim, usproj' = usproj, ususer' = ususer, usghost' = usghost,
           usinfo' \in InfoRec, usinfo'.proj = usinfo.proj,
           usplan' \in Limits \cup {NoLimits}, usgate' \in BOOLEAN,
           usops' \in usops .. UsMaxOps, usfaults' \in usfaults .. UsMaxFaults,
           ~Holds(usw[w]), ~Holds(r), HandlerFits(r)',
           Planned(r) => Planned(usw[w]), Working(usw[w]) /\ usfaults' = 0 => Working(r), r.pc # "d_user",
           Deleting(r) => \/ Deleting(usw[w]) /\ r.id = usw[w].id
                          \/ \A v \in UsWorkers : usw[v].pc # "a_user"
    PROVE  UsInv'
<1>1. usops \in Nat /\ usfaults \in Nat /\ UsMaxOps \in Nat /\ UsMaxFaults \in Nat
  BY UsAssumption DEF UsInv, UsTypes
<1>2. usops' \in Nat /\ usops' >= usops /\ (usfaults' = 0 => usfaults = 0)
      /\ usops' \in 0 .. UsMaxOps /\ usfaults' \in 0 .. UsMaxFaults
  BY <1>1
<1>3. usproj' \in 0 .. usops' /\ ususer' \in 0 .. usops'
  BY <1>1, <1>2 DEF UsInv, UsTypes
<1>4. UsTypes'
  BY <1>2, <1>3, UsTypesStep DEF UsInv, UsTypes
<1>5. ProjectsFit'
  BY <1>2, ProjectsRest DEF UsInv
<1>6. HandlersFit'
  <2>1. r.pc # "a_user"
    BY DEF Holds
  <2> QED
    BY <1>2, <2>1, HandlersRest DEF UsInv
<1>7. LimitsFit'
  BY <1>2, LimitsRest DEF UsInv
<1> QED
  BY <1>4, <1>5, <1>6, <1>7 DEF UsInv

LEMMA UsFault ==
    ASSUME UsTypes, Fault
    PROVE  usfaults' \in usfaults .. UsMaxFaults /\ usfaults' # 0 /\ usfaults' \in 0 .. UsMaxFaults
BY UsAssumption DEF UsTypes, Fault

LEMMA UsStarts ==
    ASSUME UsTypes, NEW w \in UsWorkers, NEW r, Starts(w, r)
    PROVE  /\ usops' = usops + 1 /\ usops' \in usops .. UsMaxOps /\ usops' # 0 /\ usops' \in Nat /\ usops \in Nat
           /\ usw' = [usw EXCEPT ![w] = r] /\ usw[w].pc = "idle"
           /\ ~Holds(usw[w]) /\ ~Planned(usw[w]) /\ ~Working(usw[w])
BY UsAssumption DEF UsTypes, Starts, Holds, Planned, Working

\* What a handler goes on with
LEMMA UsGoes ==
    ASSUME UsTypes, NEW w \in UsWorkers, NEW c \in UsLabels, Goes(w, c)
    PROVE  \E r \in UsRec : /\ usw' = [usw EXCEPT ![w] = r]
                            /\ r.pc = c /\ r.id = usw[w].id /\ r.proj = usw[w].proj /\ r.lim = usw[w].lim
<1>1. usw[w] \in UsRec
  BY DEF UsTypes
<1> DEFINE r == [usw[w] EXCEPT !.pc = c]
<1>2. r \in UsRec /\ r.pc = c /\ r.id = usw[w].id /\ r.proj = usw[w].proj /\ r.lim = usw[w].lim
  BY <1>1 DEF UsRec
<1>3. usw' = [usw EXCEPT ![w] = r]
  BY DEF Goes
<1> QED
  BY <1>2, <1>3

LEMMA UsEnds ==
    ASSUME UsTypes, NEW w \in UsWorkers, Ends(w)
    PROVE  \E r \in UsRec : usw' = [usw EXCEPT ![w] = r] /\ r = AtRest /\ r.pc = "idle"
BY UsRecords DEF Ends

\* A holder whose call fails leaves the project to nobody.
LEMMA HolderLeaves ==
    ASSUME UsInv, NEW w \in UsWorkers, NEW r \in UsRec, usw' = [usw EXCEPT ![w] = r], Holds(usw[w]),
           UNCHANGED <<uslim, usproj, ususer, usinfo, usgate, usplan, usops, usghost>>,
           usfaults' \in 0 .. UsMaxFaults, usfaults' # 0, r.pc \in {"idle", "a_undo"}
    PROVE  UsInv'
<1>1. \A v \in UsWorkers : usw'[v] = IF v = w THEN r ELSE usw[v]
  BY DEF UsInv, UsTypes
<1>2. UsTypes'
  BY UsTypesStep DEF UsInv, UsTypes
<1>3. ProjectsFit'
  <2>1. \A v \in UsWorkers : ~Holds(usw[v])'
    BY <1>1 DEF UsInv, ProjectsFit, Holds
  <2>2. \A v \in UsWorkers : usw'[v].pc \notin {"a_user", "d_last"}
    BY <2>1 DEF Holds
  <2> QED
    BY <2>1, <2>2 DEF UsInv, ProjectsFit
<1>4. HandlersFit'
  <2>1. usops # 0 /\ usops \in Nat
    BY UsRecords DEF UsInv, HandlersFit, HandlerFits, Holds
  <2>2. HandlerFits(r)' /\ r.pc # "a_user" /\ ~Deleting(r) /\ usops' \in Nat /\ usops' >= usops
    BY <2>1 DEF HandlerFits, Deleting
  <2> QED
    BY <2>2, HandlersRest DEF UsInv
<1>5. LimitsFit'
  BY LimitsRest DEF UsInv, Planned
<1> QED
  BY <1>2, <1>3, <1>4, <1>5 DEF UsInv

-----------------------------------------------------------------------------
LEMMA AddStartStep ==
    ASSUME UsInv, NEW w \in UsWorkers, AddStart(w)
    PROVE  UsInv'
<1>1. UNCHANGED <<uslim, usproj, ususer, usinfo, usgate, usplan, usfaults, usghost>>
  BY DEF AddStart
<1>2. PICK l \in {usplan, NoLimits} :
        Starts(w, [AtRest EXCEPT !.pc = IF l = NoLimits THEN "a_proj" ELSE "a_lim", !.lim = l])
  BY DEF AddStart
<1>3. PICK r : /\ r = [AtRest EXCEPT !.pc = IF l = NoLimits THEN "a_proj" ELSE "a_lim", !.lim = l]
               /\ Starts(w, r)
  BY <1>2
<1>4. l \in Limits \cup {NoLimits}
  BY DEF UsInv, UsTypes
<1>5. r \in UsRec /\ r.lim = l /\ r.pc = IF l = NoLimits THEN "a_proj" ELSE "a_lim"
  <2>1. PICK c \in UsLabels : c = IF l = NoLimits THEN "a_proj" ELSE "a_lim"
    BY DEF UsLabels
  <2>2. r = [AtRest EXCEPT !.pc = c, !.lim = l]
    BY <1>3, <2>1
  <2>3. AtRest \in UsRec
    BY UsRecords DEF UsInv
  <2>4. r \in UsRec /\ r.lim = l /\ r.pc = c
    BY <1>4, <2>2, <2>3 DEF UsRec
  <2> QED
    BY <2>1, <2>4
<1>6. /\ usops' \in usops .. UsMaxOps /\ usops' # 0
      /\ usw' = [usw EXCEPT ![w] = r] /\ ~Holds(usw[w]) /\ ~Planned(usw[w]) /\ ~Working(usw[w])
  BY <1>3, UsStarts DEF UsInv
<1>7. ~Holds(r) /\ HandlerFits(r)' /\ ~Planned(r) /\ ~Deleting(r) /\ r.pc # "d_user"
  BY <1>5, <1>6 DEF Holds, HandlerFits, Planned, Deleting
<1>8. usfaults' \in usfaults .. UsMaxFaults
  BY <1>1, UsAssumption DEF UsInv, UsTypes
<1> QED
  BY <1>1, <1>5, <1>6, <1>7, <1>8, UsElsewhere DEF UsInv, UsTypes

LEMMA AddLimitsStep ==
    ASSUME UsInv, NEW w \in UsWorkers, AddLimits(w)
    PROVE  UsInv'
<1>0. /\ usw[w].pc = "a_lim" /\ ~Holds(usw[w]) /\ ~Planned(usw[w]) /\ ~Working(usw[w])
      /\ UNCHANGED <<usproj, ususer, usinfo, usgate, usplan, usops>>
  BY DEF AddLimits, Holds, Planned, Working
<1>1. CASE /\ uslim' = usw[w].lim /\ Goes(w, "a_proj") /\ Fine
           /\ usghost' = [usghost EXCEPT !.blame = FALSE]
  <2>1. PICK r \in UsRec : /\ usw' = [usw EXCEPT ![w] = r]
                           /\ r.pc = "a_proj" /\ r.id = usw[w].id /\ r.proj = usw[w].proj /\ r.lim = usw[w].lim
    BY <1>1, UsGoes DEF UsInv, UsLabels
  <2>2. usfaults' = usfaults /\ r.lim # NoLimits /\ usops # 0 /\ usops \in Nat
    BY <1>0, <1>1, <2>1, UsRecords DEF Fine, UsInv, HandlersFit, HandlerFits
  <2>3. usghost' \in UsGhostRec /\ usghost'.late = usghost.late /\ usghost'.blame = FALSE
    BY <1>1 DEF UsInv, UsTypes, UsGhostRec
  <2>4. r.lim \in Limits \cup {NoLimits}
    BY DEF UsRec
  <2>5. UsTypes'
    BY <1>0, <1>1, <2>1, <2>2, <2>3, <2>4, UsTypesStep DEF UsInv, UsTypes
  <2>6. ProjectsFit'
    BY <1>0, <2>1, <2>2, ProjectsRest DEF UsInv, Holds
  <2>7. HandlersFit'
    <3>1. HandlerFits(r)' /\ r.pc # "a_user" /\ ~Deleting(r) /\ usops' \in Nat /\ usops' >= usops
      BY <1>0, <2>1, <2>2 DEF HandlerFits, Deleting
    <3> QED
      BY <2>1, <3>1, HandlersRest DEF UsInv
  <2>8. LimitsFit'
    <3>1. uslim' # NoLimits
      BY <1>1, <2>1, <2>2
    <3>2. usw'[w] = r
      BY <2>1 DEF UsInv, UsTypes
    <3>3. Working(usw[w])'
      BY <2>1, <2>2, <3>2 DEF Working
    <3> QED
      BY <3>1, <3>3 DEF LimitsFit
  <2> QED
    BY <2>5, <2>6, <2>7, <2>8 DEF UsInv
<1>2. CASE Fault /\ Ends(w) /\ UNCHANGED <<uslim, usghost>>
  <2>1. PICK r \in UsRec : usw' = [usw EXCEPT ![w] = r] /\ r = AtRest /\ r.pc = "idle"
    BY <1>2, UsEnds DEF UsInv
  <2>2. ~Holds(r) /\ HandlerFits(r)' /\ ~Planned(r) /\ ~Deleting(r) /\ r.pc # "d_user"
    BY <2>1 DEF Holds, HandlerFits, Planned, Deleting
  <2>3. usfaults' \in usfaults .. UsMaxFaults /\ usfaults' # 0 /\ usops' \in usops .. UsMaxOps
    BY <1>0, <1>2, UsFault DEF UsInv, UsTypes
  <2> QED
    BY <1>0, <1>2, <2>1, <2>2, <2>3, UsElsewhere DEF UsInv, UsTypes
<1> QED
  BY <1>1, <1>2 DEF AddLimits

LEMMA AddProjectStep ==
    ASSUME UsInv, NEW w \in UsWorkers, AddProject(w)
    PROVE  UsInv'
<1>0. /\ usw[w].pc = "a_proj" /\ ~Holds(usw[w]) /\ usops # 0 /\ usops \in Nat
      /\ UNCHANGED <<uslim, ususer, usinfo, usgate, usplan, usops, usghost>>
  BY UsRecords DEF AddProject, Holds, UsInv, HandlersFit, HandlerFits
<1>1. CASE /\ usproj = 0 /\ usproj' = usops /\ Fine
           /\ usw' = [usw EXCEPT ![w].pc = "a_user", ![w].proj = usops]
  <2>1. PICK r : r = [usw[w] EXCEPT !.pc = "a_user", !.proj = usops]
    OBVIOUS
  <2>2. usw[w] \in UsRec /\ usops \in 0 .. UsMaxOps
    BY DEF UsInv, UsTypes
  <2>3. /\ r \in UsRec /\ r.pc = "a_user" /\ r.lim = usw[w].lim /\ r.proj = usops
        /\ usw' = [usw EXCEPT ![w] = r]
    BY <1>1, <2>1, <2>2 DEF UsRec, UsLabels, UsInv, UsTypes
  <2>4. usfaults' = usfaults
    BY <1>1 DEF Fine
  <2>5. \A v \in UsWorkers : usw'[v] = IF v = w THEN r ELSE usw[v]
    BY <2>3 DEF UsInv, UsTypes
  <2>6. UsTypes'
    BY <1>0, <1>1, <2>3, <2>4, UsTypesStep DEF UsInv, UsTypes
  <2>7. ProjectsFit'
    <3>1. ususer = 0 /\ \A v \in UsWorkers : ~Holds(usw[v])
      BY <1>1 DEF UsInv, ProjectsFit
    <3>2. \A v \in UsWorkers : Holds(usw[v])' <=> v = w
      BY <2>3, <2>5, <3>1 DEF Holds
    <3>3. usproj' # 0 /\ ususer' = 0 /\ usw'[w].proj = usproj'
      BY <1>0, <1>1, <2>3, <2>5, <3>1
    <3>4. \A v \in UsWorkers : usw'[v].pc \in {"a_user", "d_last"} => v = w
      BY <3>2 DEF Holds
    <3> QED
      BY <3>2, <3>3, <3>4 DEF ProjectsFit
  <2>8. HandlersFit'
    <3>1. \A v \in UsWorkers : HandlerFits(usw[v])'
      BY <1>0, <2>3, <2>5 DEF UsInv, HandlersFit, HandlerFits, Deleting
    <3>2. \A u \in UsWorkers : Deleting(usw[u])' => usw'[u] = usw[u] /\ usw[u].id < usops
      BY <2>3, <2>5 DEF UsInv, HandlersFit, HandlerFits, Deleting
    <3>3. \A u \in UsWorkers : usw[u].id \in Nat
      BY DEF UsInv, UsTypes, UsRec
    <3>4. \A u, v \in UsWorkers : Deleting(usw[u])' /\ usw'[v].pc = "a_user" => usw'[v].proj # usw'[u].id
      <4>1. SUFFICES ASSUME NEW u \in UsWorkers, NEW v \in UsWorkers, Deleting(usw[u])', usw'[v].pc = "a_user"
                     PROVE  usw'[v].proj # usw'[u].id
        OBVIOUS
      <4>2. CASE v = w
        BY <1>0, <2>3, <2>5, <3>2, <3>3, <4>1, <4>2
      <4>3. CASE v # w
        <5>1. usw'[v] = usw[v] /\ usw'[u] = usw[u] /\ Deleting(usw[u])
          BY <2>5, <3>2, <4>1, <4>3 DEF Deleting
        <5> QED
          BY <4>1, <5>1 DEF UsInv, HandlersFit
      <4> QED
        BY <4>2, <4>3
    <3> QED
      BY <3>1, <3>4 DEF HandlersFit
  <2>9. LimitsFit'
    BY <1>0, <2>3, <2>4, LimitsRest DEF UsInv, Planned, Working
  <2> QED
    BY <2>6, <2>7, <2>8, <2>9 DEF UsInv
<1>2. CASE UNCHANGED usproj /\ (Fine \/ Fault) /\ Goes(w, "a_undo")
  <2>1. PICK r \in UsRec : /\ usw' = [usw EXCEPT ![w] = r]
                           /\ r.pc = "a_undo" /\ r.id = usw[w].id /\ r.proj = usw[w].proj /\ r.lim = usw[w].lim
    BY <1>2, UsGoes DEF UsInv, UsLabels
  <2>2. /\ ~Holds(r) /\ HandlerFits(r)' /\ ~Planned(r) /\ ~Deleting(r) /\ r.pc # "d_user"
        /\ Working(usw[w]) => Working(r)
    BY <1>0, <2>1 DEF Holds, HandlerFits, Planned, Deleting, Working
  <2>3. usfaults' \in usfaults .. UsMaxFaults /\ usops' \in usops .. UsMaxOps
    BY <1>0, <1>2, UsFault DEF UsInv, UsTypes, Fine
  <2> QED
    BY <1>0, <1>2, <2>1, <2>2, <2>3, UsElsewhere DEF UsInv, UsTypes
<1> QED
  BY <1>1, <1>2 DEF AddProject

LEMMA AddUserStep ==
    ASSUME UsInv, NEW w \in UsWorkers, AddUser(w)
    PROVE  UsInv'
<1>0. /\ usw[w].pc = "a_user" /\ Holds(usw[w]) /\ usops # 0 /\ usops \in Nat
      /\ UNCHANGED <<uslim, usproj, usgate, usplan, usops>>
  BY UsRecords DEF AddUser, Holds, UsInv, HandlersFit, HandlerFits
<1>1. ususer = 0 /\ usproj # 0 /\ usw[w].proj = usproj /\ \A v \in UsWorkers : Holds(usw[v]) => v = w
  BY <1>0 DEF UsInv, ProjectsFit
<1>2. CASE /\ ususer' = usw[w].proj /\ Fine /\ Goes(w, "a_role")
           /\ usinfo' = [NoInfo EXCEPT !.proj = usw[w].proj]
           /\ usghost' = [usghost EXCEPT !.planned = usw[w].lim # NoLimits]
  <2>1. PICK r \in UsRec : /\ usw' = [usw EXCEPT ![w] = r]
                           /\ r.pc = "a_role" /\ r.id = usw[w].id /\ r.proj = usw[w].proj /\ r.lim = usw[w].lim
    BY <1>2, UsGoes DEF UsInv, UsLabels
  <2>2. usw[w] \in UsRec
    BY DEF UsInv, UsTypes
  <2>3. usfaults' = usfaults /\ ~Holds(r)
    BY <1>2, <2>1 DEF Fine, Holds
  <2>4. \A v \in UsWorkers : usw'[v] = IF v = w THEN r ELSE usw[v]
    BY <2>1 DEF UsInv, UsTypes
  <2>5. usinfo' \in InfoRec /\ usinfo'.proj = usproj
    BY <1>1, <1>2, <2>2 DEF InfoRec, NoInfo, UsRec
  <2>6. /\ usghost' \in UsGhostRec /\ usghost'.late = usghost.late /\ usghost'.blame = usghost.blame
        /\ usghost'.planned => usw[w].lim # NoLimits
    <3>1. CASE usw[w].lim # NoLimits
      <4>1. (usw[w].lim # NoLimits) = TRUE
        BY <3>1
      <4> QED
        BY <1>2, <3>1, <4>1 DEF UsInv, UsTypes, UsGhostRec
    <3>2. CASE usw[w].lim = NoLimits
      <4>1. (usw[w].lim # NoLimits) = FALSE
        BY <3>2
      <4>2. usghost' = [usghost EXCEPT !.planned = FALSE]
        BY <1>2, <4>1
      <4> QED
        BY <4>2 DEF UsInv, UsTypes, UsGhostRec
    <3> QED
      BY <3>1, <3>2
  <2>7. UsTypes'
    BY <1>0, <1>1, <1>2, <2>1, <2>3, <2>5, <2>6, UsTypesStep DEF UsInv, UsTypes
  <2>8. ProjectsFit'
    <3>1. \A v \in UsWorkers : ~Holds(usw[v])'
      BY <1>1, <2>3, <2>4 DEF Holds
    <3>2. \A v \in UsWorkers : usw'[v].pc \notin {"a_user", "d_last"}
      BY <3>1 DEF Holds
    <3> QED
      BY <1>0, <1>1, <1>2, <2>5, <3>1, <3>2 DEF ProjectsFit
  <2>9. HandlersFit'
    <3>1. HandlerFits(r)' /\ r.pc # "a_user" /\ ~Deleting(r) /\ usops' \in Nat /\ usops' >= usops
      BY <1>0, <2>1 DEF HandlerFits, Deleting
    <3> QED
      BY <2>1, <3>1, HandlersRest DEF UsInv
  <2>10. LimitsFit'
    <3>1. usghost'.planned \/ (\E v \in UsWorkers : Planned(usw[v])') => usghost'.blame \/ uslim' # NoLimits
      <4>1. \A v \in UsWorkers : Planned(usw[v])' => Planned(usw[v])
        BY <2>1, <2>4 DEF Planned
      <4>2. usghost'.planned => Planned(usw[w])
        BY <1>0, <2>6 DEF Planned
      <4> QED
        BY <1>0, <2>6, <4>1, <4>2 DEF UsInv, LimitsFit
    <3>2. ususer' # 0 /\ \A v \in UsWorkers : usw'[v].pc = "d_user" => usw'[v].id # ususer'
      BY <1>0, <1>1, <1>2, <2>1, <2>4 DEF UsInv, HandlersFit, Deleting
    <3> QED
      BY <3>1, <3>2 DEF LimitsFit
  <2> QED
    BY <2>7, <2>8, <2>9, <2>10 DEF UsInv
<1>3. CASE Fault /\ Goes(w, "a_undo") /\ UNCHANGED <<ususer, usinfo, usghost>>
  <2>1. PICK r \in UsRec : /\ usw' = [usw EXCEPT ![w] = r]
                           /\ r.pc = "a_undo" /\ r.id = usw[w].id /\ r.proj = usw[w].proj /\ r.lim = usw[w].lim
    BY <1>3, UsGoes DEF UsInv, UsLabels
  <2> QED
    BY <1>0, <1>1, <1>3, <2>1, HolderLeaves, UsFault DEF UsInv, UsTypes, HandlerFits, Holds, Deleting, Planned
<1> QED
  BY <1>1, <1>2, <1>3 DEF AddUser

LEMMA AddRoleStep ==
    ASSUME UsInv, NEW w \in UsWorkers, AddRole(w)
    PROVE  UsInv'
<1>0. /\ usw[w].pc = "a_role" /\ ~Holds(usw[w]) /\ ~Working(usw[w]) /\ usops # 0
      /\ UNCHANGED <<uslim, usproj, ususer, usgate, usplan, usops, usghost>>
  BY DEF AddRole, Holds, Working, UsInv, HandlersFit, HandlerFits
<1>1. usinfo' \in InfoRec /\ usinfo'.proj = usinfo.proj
  <2>1. usinfo \in InfoRec
    BY DEF UsInv, UsTypes
  <2> QED
    BY <2>1 DEF AddRole, InfoRec
<1>2. PICK r \in UsRec : usw' = [usw EXCEPT ![w] = r] /\ r.pc \in {"idle", "a_undo"}
  BY UsGoes, UsEnds DEF AddRole, UsInv, UsLabels
<1>3. ~Holds(r) /\ HandlerFits(r)' /\ ~Planned(r) /\ ~Deleting(r) /\ r.pc # "d_user"
  BY <1>0, <1>2 DEF Holds, HandlerFits, Planned, Deleting
<1>4. usfaults' \in usfaults .. UsMaxFaults /\ usops' \in usops .. UsMaxOps
  BY <1>0, UsFault DEF AddRole, Fine, UsInv, UsTypes
<1> QED
  BY <1>0, <1>1, <1>2, <1>3, <1>4, UsElsewhere DEF UsInv, UsTypes

\* The limits are deleted: by an add that failed, or by a delete on its way.
LEMMA LimitsGo ==
    ASSUME UsInv, NEW w \in UsWorkers, NEW r \in UsRec, usw' = [usw EXCEPT ![w] = r], ~Holds(usw[w]), ~Holds(r),
           uslim' = NoLimits, usghost' = [usghost EXCEPT !.blame = TRUE], HandlerFits(r),
           UNCHANGED <<usproj, ususer, usinfo, usgate, usplan, usops, usfaults>>,
           Deleting(r) => Deleting(usw[w]) /\ r.id = usw[w].id
    PROVE  UsInv'
<1>1. usghost' \in UsGhostRec /\ usghost'.blame
  BY DEF UsInv, UsTypes, UsGhostRec
<1>2. UsTypes'
  BY <1>1, UsTypesStep DEF UsInv, UsTypes
<1>3. ProjectsFit'
  BY ProjectsRest DEF UsInv
<1>4. HandlersFit'
  <2>1. HandlerFits(r)' /\ usops' \in Nat /\ usops' >= usops
    BY UsRecords DEF HandlerFits, UsInv
  <2>2. r.pc # "a_user"
    BY DEF Holds
  <2> QED
    BY <2>1, <2>2, HandlersRest DEF UsInv
<1>5. LimitsFit'
  BY <1>1 DEF LimitsFit
<1> QED
  BY <1>2, <1>3, <1>4, <1>5 DEF UsInv

LEMMA AddUndoStep ==
    ASSUME UsInv, NEW w \in UsWorkers, AddUndo(w)
    PROVE  UsInv'
<1>0. /\ usw[w].pc = "a_undo" /\ ~Holds(usw[w])
      /\ UNCHANGED <<usproj, ususer, usinfo, usgate, usplan, usops>>
  BY DEF AddUndo, Holds
<1>1. PICK r \in UsRec : usw' = [usw EXCEPT ![w] = r] /\ r = AtRest /\ r.pc = "idle"
  BY UsEnds DEF AddUndo, UsInv
<1>2. ~Holds(r) /\ HandlerFits(r) /\ HandlerFits(r)' /\ ~Planned(r) /\ ~Deleting(r) /\ r.pc # "d_user"
  BY <1>1 DEF Holds, HandlerFits, Planned, Deleting
<1>3. CASE uslim' = NoLimits /\ Fine /\ usghost' = [usghost EXCEPT !.blame = TRUE]
  BY <1>0, <1>1, <1>2, <1>3, LimitsGo DEF Fine
<1>4. CASE Fault /\ UNCHANGED <<uslim, usghost>>
  <2>1. usfaults' \in usfaults .. UsMaxFaults /\ usfaults' # 0 /\ usops' \in usops .. UsMaxOps
    BY <1>0, <1>4, UsFault DEF UsInv, UsTypes
  <2> QED
    BY <1>0, <1>1, <1>2, <1>4, <2>1, UsElsewhere DEF UsInv, UsTypes
<1> QED
  BY <1>3, <1>4 DEF AddUndo

-----------------------------------------------------------------------------
LEMMA DelStartStep ==
    ASSUME UsInv, NEW w \in UsWorkers, DelStart(w)
    PROVE  UsInv'
<1>1. ususer # 0 /\ UNCHANGED <<uslim, usproj, ususer, usinfo, usgate, usplan, usfaults, usghost>>
  BY DEF DelStart
<1>2. PICK r : r = [AtRest EXCEPT !.pc = "d_proj", !.id = ususer] /\ Starts(w, r)
  BY DEF DelStart
<1>3. r \in UsRec /\ r.pc = "d_proj" /\ r.id = ususer
  <2>1. AtRest \in UsRec /\ ususer \in 0 .. UsMaxOps
    BY UsRecords, UsAssumption DEF UsInv, UsTypes
  <2> QED
    BY <1>2, <2>1 DEF UsRec, UsLabels
<1>4. /\ usops' = usops + 1 /\ usops' \in usops .. UsMaxOps /\ usops' # 0 /\ usops \in Nat
      /\ usw' = [usw EXCEPT ![w] = r] /\ ~Holds(usw[w]) /\ ~Working(usw[w])
  BY <1>2, UsStarts DEF UsInv
<1>5. ~Holds(r) /\ ~Planned(r) /\ r.pc # "d_user"
  BY <1>3 DEF Holds, Planned
<1>6. HandlerFits(r)'
  <2>1. ususer \in 0 .. usops
    BY DEF UsInv, UsTypes
  <2> QED
    BY <1>1, <1>3, <1>4, <2>1 DEF HandlerFits, Deleting
<1>7. \A v \in UsWorkers : usw[v].pc # "a_user"
  BY <1>1 DEF UsInv, ProjectsFit, Holds
<1>8. usfaults' \in usfaults .. UsMaxFaults
  BY <1>1, UsAssumption DEF UsInv, UsTypes
<1> QED
  BY <1>1, <1>3, <1>4, <1>5, <1>6, <1>7, <1>8, UsElsewhere DEF UsInv, UsTypes

LEMMA DelProjectsStep ==
    ASSUME UsInv, NEW w \in UsWorkers, DelProjects(w)
    PROVE  UsInv'
<1>0. /\ usw[w].pc = "d_proj" /\ ~Holds(usw[w]) /\ ~Working(usw[w]) /\ Deleting(usw[w]) /\ HandlerFits(usw[w])
      /\ UNCHANGED <<uslim, usproj, ususer, usinfo, usplan, usops, usghost>>
  BY DEF DelProjects, Holds, Working, Deleting, UsInv, HandlersFit
<1>1. PICK r \in UsRec : /\ usw' = [usw EXCEPT ![w] = r]
                         /\ r.pc = "idle" \/ (r.pc = "d_lim" /\ r.id = usw[w].id)
  <2>1. CASE Goes(w, "d_lim")
    <3>1. "d_lim" \in UsLabels
      BY DEF UsLabels
    <3> QED
      BY <2>1, <3>1, UsGoes DEF UsInv
  <2>2. CASE Ends(w)
    BY <2>2, UsEnds DEF UsInv
  <2> QED
    BY <2>1, <2>2 DEF DelProjects
<1>2. /\ ~Holds(r) /\ HandlerFits(r)' /\ ~Planned(r) /\ r.pc # "d_user"
      /\ Deleting(r) => r.id = usw[w].id
  BY <1>0, <1>1 DEF Holds, HandlerFits, Planned, Deleting
<1>3. /\ usfaults' \in usfaults .. UsMaxFaults /\ usops' \in usops .. UsMaxOps /\ usgate' \in BOOLEAN
  <2>1. (Fine \/ Fault) /\ (usgate' = FALSE \/ usgate' = usgate)
    BY DEF DelProjects, ProjectDel
  <2>2. usgate' \in BOOLEAN
    BY <2>1 DEF UsInv, UsTypes
  <2>3. usops' \in usops .. UsMaxOps
    BY <1>0 DEF UsInv, UsTypes
  <2> QED
    BY <2>1, <2>2, <2>3, UsFault DEF Fine, UsInv, UsTypes
<1> QED
  BY <1>0, <1>1, <1>2, <1>3, UsElsewhere DEF UsInv, UsTypes

LEMMA DelLimitsStep ==
    ASSUME UsInv, NEW w \in UsWorkers, DelLimits(w)
    PROVE  UsInv'
<1>0. /\ usw[w].pc = "d_lim" /\ ~Holds(usw[w]) /\ ~Working(usw[w]) /\ Deleting(usw[w]) /\ HandlerFits(usw[w])
      /\ UNCHANGED <<usproj, ususer, usinfo, usgate, usplan, usops>>
  BY DEF DelLimits, Holds, Working, Deleting, UsInv, HandlersFit
<1>1. CASE uslim' = NoLimits /\ Fine /\ Goes(w, "d_user") /\ usghost' = [usghost EXCEPT !.blame = TRUE]
  <2>1. PICK r \in UsRec : /\ usw' = [usw EXCEPT ![w] = r]
                           /\ r.pc = "d_user" /\ r.id = usw[w].id /\ r.proj = usw[w].proj /\ r.lim = usw[w].lim
    BY <1>1, UsGoes DEF UsInv, UsLabels
  <2>2. ~Holds(r) /\ HandlerFits(r)
    BY <1>0, <2>1 DEF Holds, HandlerFits, Deleting
  <2> QED
    BY <1>0, <1>1, <2>1, <2>2, LimitsGo DEF Fine
<1>2. CASE Fault /\ Ends(w) /\ UNCHANGED <<uslim, usghost>>
  <2>1. PICK r \in UsRec : usw' = [usw EXCEPT ![w] = r] /\ r = AtRest /\ r.pc = "idle"
    BY <1>2, UsEnds DEF UsInv
  <2>2. ~Holds(r) /\ HandlerFits(r)' /\ ~Planned(r) /\ ~Deleting(r) /\ r.pc # "d_user"
    BY <2>1 DEF Holds, HandlerFits, Planned, Deleting
  <2>3. usfaults' \in usfaults .. UsMaxFaults /\ usops' \in usops .. UsMaxOps
    BY <1>0, <1>2, UsFault DEF UsInv, UsTypes
  <2> QED
    BY <1>0, <1>2, <2>1, <2>2, <2>3, UsElsewhere DEF UsInv, UsTypes
<1> QED
  BY <1>1, <1>2 DEF DelLimits

LEMMA DelUserStep ==
    ASSUME UsInv, NEW w \in UsWorkers, DelUser(w)
    PROVE  UsInv'
<1>0. /\ usw[w].pc = "d_user" /\ ~Holds(usw[w]) /\ ~Working(usw[w]) /\ ~Planned(usw[w]) /\ Deleting(usw[w])
      /\ usw[w].id # 0 /\ usops # 0 /\ usops \in Nat
      /\ UNCHANGED <<uslim, usproj, usgate, usplan, usops, usghost>>
  BY UsRecords DEF DelUser, Holds, Working, Planned, Deleting, UsInv, HandlersFit, HandlerFits
<1>1. CASE ususer = usw[w].id /\ ususer' = 0 /\ usinfo' = NoInfo /\ Fine /\ Goes(w, "d_find")
  <2>1. PICK r \in UsRec : /\ usw' = [usw EXCEPT ![w] = r]
                           /\ r.pc = "d_find" /\ r.id = usw[w].id /\ r.proj = usw[w].proj /\ r.lim = usw[w].lim
    BY <1>1, UsGoes DEF UsInv, UsLabels
  <2>2. \A v \in UsWorkers : usw'[v] = IF v = w THEN r ELSE usw[v]
    BY <2>1 DEF UsInv, UsTypes
  <2>3. UsTypes'
    BY <1>0, <1>1, <2>1, UsRecords, UsTypesStep DEF Fine, UsInv, UsTypes
  <2>4. ususer # 0 /\ usproj # 0 /\ \A v \in UsWorkers : ~Holds(usw[v])
    BY <1>0, <1>1 DEF UsInv, ProjectsFit
  <2>5. ProjectsFit'
    <3>1. \A v \in UsWorkers : Holds(usw[v])' <=> v = w
      BY <2>1, <2>2, <2>4 DEF Holds
    <3>2. \A v \in UsWorkers : usw'[v].pc \notin {"a_user", "d_last"}
      BY <2>1, <2>2, <2>4 DEF Holds
    <3> QED
      BY <1>0, <1>1, <2>4, <3>1, <3>2 DEF ProjectsFit
  <2>6. HandlersFit'
    <3>1. HandlerFits(r)' /\ r.pc # "a_user" /\ ~Deleting(r) /\ usops' \in Nat /\ usops' >= usops
      BY <1>0, <2>1 DEF HandlerFits, Deleting
    <3> QED
      BY <2>1, <3>1, HandlersRest DEF UsInv
  <2>7. LimitsFit'
    <3>1. \A v \in UsWorkers : (Planned(usw[v])' => Planned(usw[v])) /\ (Working(usw[v]) => Working(usw[v])')
      BY <1>0, <2>1, <2>2 DEF Planned, Working
    <3> QED
      BY <1>0, <1>1, <3>1 DEF Fine, UsInv, LimitsFit
  <2> QED
    BY <2>3, <2>5, <2>6, <2>7 DEF UsInv
<1>2. CASE (Fine \/ Fault) /\ Ends(w) /\ UNCHANGED <<ususer, usinfo>>
  <2>1. PICK r \in UsRec : usw' = [usw EXCEPT ![w] = r] /\ r = AtRest /\ r.pc = "idle"
    BY <1>2, UsEnds DEF UsInv
  <2>2. ~Holds(r) /\ HandlerFits(r)' /\ ~Planned(r) /\ ~Deleting(r) /\ r.pc # "d_user"
    BY <2>1 DEF Holds, HandlerFits, Planned, Deleting
  <2>3. usfaults' \in usfaults .. UsMaxFaults /\ usops' \in usops .. UsMaxOps
    BY <1>0, <1>2, UsFault DEF Fine, UsInv, UsTypes
  <2> QED
    BY <1>0, <1>2, <2>1, <2>2, <2>3, UsElsewhere DEF UsInv, UsTypes
<1> QED
  BY <1>1, <1>2 DEF DelUser

LEMMA DelFindStep ==
    ASSUME UsInv, NEW w \in UsWorkers, DelFind(w)
    PROVE  UsInv'
<1>0. /\ usw[w].pc = "d_find" /\ Holds(usw[w]) /\ usops # 0 /\ usops \in Nat /\ usproj # 0 /\ ususer = 0
      /\ UNCHANGED <<uslim, usproj, ususer, usinfo, usgate, usplan, usops, usghost>>
  BY UsRecords DEF DelFind, Holds, UsInv, HandlersFit, HandlerFits, ProjectsFit
<1>1. CASE Fine /\ usw' = [usw EXCEPT ![w].pc = "d_last", ![w].proj = usproj]
  <2>1. PICK r : r = [usw[w] EXCEPT !.pc = "d_last", !.proj = usproj]
    OBVIOUS
  <2>2. usw[w] \in UsRec /\ usproj \in 0 .. UsMaxOps
    BY UsAssumption DEF UsInv, UsTypes
  <2>3. r \in UsRec /\ r.pc = "d_last" /\ r.proj = usproj /\ usw' = [usw EXCEPT ![w] = r]
    BY <1>1, <2>1, <2>2 DEF UsRec, UsLabels, UsInv, UsTypes
  <2>4. \A v \in UsWorkers : usw'[v] = IF v = w THEN r ELSE usw[v]
    BY <2>3 DEF UsInv, UsTypes
  <2>5. UsTypes'
    BY <1>0, <1>1, <2>3, UsTypesStep DEF Fine, UsInv, UsTypes
  <2>6. ProjectsFit'
    <3>1. \A v \in UsWorkers : Holds(usw[v])' <=> v = w
      BY <1>0, <2>3, <2>4 DEF UsInv, ProjectsFit, Holds
    <3>2. \A v \in UsWorkers : usw'[v].pc \in {"a_user", "d_last"} => usw'[v].proj = usproj
      BY <2>3, <2>4, <3>1 DEF Holds
    <3> QED
      BY <1>0, <3>1, <3>2 DEF ProjectsFit
  <2>7. HandlersFit'
    <3>1. HandlerFits(r)' /\ r.pc # "a_user" /\ ~Deleting(r) /\ usops' \in Nat /\ usops' >= usops
      BY <1>0, <2>3 DEF HandlerFits, Deleting
    <3> QED
      BY <2>3, <3>1, HandlersRest DEF UsInv
  <2>8. LimitsFit'
    BY <1>0, <1>1, <2>3, LimitsRest DEF Fine, UsInv, Planned, Working
  <2> QED
    BY <2>5, <2>6, <2>7, <2>8 DEF UsInv
<1>2. CASE Fault /\ Ends(w)
  <2>1. PICK r \in UsRec : usw' = [usw EXCEPT ![w] = r] /\ r = AtRest /\ r.pc = "idle"
    BY <1>2, UsEnds DEF UsInv
  <2> QED
    BY <1>0, <1>2, <2>1, HolderLeaves, UsFault DEF UsInv
<1> QED
  BY <1>0, <1>1, <1>2 DEF DelFind

LEMMA DelProjectStep ==
    ASSUME UsInv, NEW w \in UsWorkers, DelProject(w)
    PROVE  UsInv'
<1>0. /\ usw[w].pc = "d_last" /\ Holds(usw[w]) /\ usops # 0 /\ usops \in Nat
      /\ UNCHANGED <<uslim, ususer, usinfo, usgate, usplan, usops, usghost>>
  BY UsRecords DEF DelProject, Holds, UsInv, HandlersFit, HandlerFits
<1>1. usw[w].proj = usproj /\ ususer = 0 /\ \A v \in UsWorkers : Holds(usw[v]) => v = w
  BY <1>0 DEF UsInv, ProjectsFit
<1>2. PICK r \in UsRec : usw' = [usw EXCEPT ![w] = r] /\ r = AtRest /\ r.pc = "idle"
  BY UsEnds DEF UsInv, DelProject
<1>3. CASE usproj' = 0 /\ Fine
  <2>1. \A v \in UsWorkers : usw'[v] = IF v = w THEN r ELSE usw[v]
    BY <1>2 DEF UsInv, UsTypes
  <2>2. UsTypes'
    BY <1>0, <1>2, <1>3, UsTypesStep DEF Fine, UsInv, UsTypes
  <2>3. ProjectsFit'
    <3>1. \A v \in UsWorkers : ~Holds(usw[v])'
      BY <1>1, <1>2, <2>1 DEF Holds
    <3>2. \A v \in UsWorkers : usw'[v].pc \notin {"a_user", "d_last"}
      BY <3>1 DEF Holds
    <3> QED
      BY <1>0, <1>1, <1>3, <3>1, <3>2 DEF ProjectsFit
  <2>4. HandlersFit'
    <3>1. HandlerFits(r)' /\ r.pc # "a_user" /\ ~Deleting(r) /\ usops' \in Nat /\ usops' >= usops
      BY <1>0, <1>2 DEF HandlerFits, Deleting
    <3> QED
      BY <1>2, <3>1, HandlersRest DEF UsInv
  <2>5. LimitsFit'
    BY <1>0, <1>2, <1>3, LimitsRest DEF Fine, UsInv, Planned, Working
  <2> QED
    BY <2>2, <2>3, <2>4, <2>5 DEF UsInv
<1>4. CASE Fault /\ UNCHANGED usproj
  BY <1>0, <1>2, <1>4, HolderLeaves, UsFault DEF UsInv
<1> QED
  BY <1>1, <1>3, <1>4 DEF DelProject

-----------------------------------------------------------------------------
LEMMA PatchFits ==
    ASSUME NEW into \in Limits \cup {NoLimits}, NEW from \in Params
    PROVE  Patch(into, from) \in Limits
<1>1. from \in Limits
  BY DEF Params, Limits
<1>2. CASE into = NoLimits
  BY <1>1, <1>2 DEF Patch
<1>3. CASE into # NoLimits
  <2>1. into \in Limits
    BY <1>3
  <2>2. [into EXCEPT !.rate = from.rate, !.burst = from.burst] \in Limits
    BY <1>1, <2>1 DEF Limits
  <2> QED
    BY <1>3, <2>1, <2>2 DEF Patch
<1> QED
  BY <1>2, <1>3

LEMMA LimStartStep ==
    ASSUME UsInv, NEW w \in UsWorkers, LimStart(w)
    PROVE  UsInv'
<1>1. UNCHANGED <<uslim, usproj, ususer, usinfo, usgate, usplan, usfaults, usghost>>
  BY DEF LimStart
<1>2. PICK from \in Params, into \in {usplan, NoLimits} :
        Starts(w, [AtRest EXCEPT !.pc = "l_info", !.lim = Patch(into, from)])
  BY DEF LimStart
<1>3. PICK r : r = [AtRest EXCEPT !.pc = "l_info", !.lim = Patch(into, from)] /\ Starts(w, r)
  BY <1>2
<1>4. r \in UsRec /\ r.pc = "l_info" /\ r.lim # NoLimits
  <2>1. Patch(into, from) \in Limits /\ AtRest \in UsRec /\ NoLimits \notin Limits
    BY PatchFits, UsRecords DEF UsInv, UsTypes
  <2> QED
    BY <1>3, <2>1 DEF UsRec, UsLabels
<1>5. /\ usops' \in usops .. UsMaxOps /\ usops' # 0
      /\ usw' = [usw EXCEPT ![w] = r] /\ ~Holds(usw[w]) /\ ~Working(usw[w])
  BY <1>3, UsStarts DEF UsInv
<1>6. ~Holds(r) /\ HandlerFits(r)' /\ ~Planned(r) /\ ~Deleting(r) /\ r.pc # "d_user"
  BY <1>4, <1>5 DEF Holds, HandlerFits, Planned, Deleting
<1>7. usfaults' \in usfaults .. UsMaxFaults
  BY <1>1, UsAssumption DEF UsInv, UsTypes
<1> QED
  BY <1>1, <1>4, <1>5, <1>6, <1>7, UsElsewhere DEF UsInv, UsTypes

LEMMA LimInfoStep ==
    ASSUME UsInv, NEW w \in UsWorkers, LimInfo(w)
    PROVE  UsInv'
<1>0. /\ usw[w].pc = "l_info" /\ ~Holds(usw[w]) /\ ~Working(usw[w]) /\ usops # 0 /\ usw[w].lim # NoLimits
      /\ UNCHANGED <<uslim, usproj, ususer, usinfo, usgate, usplan, usops, usghost>>
  BY DEF LimInfo, Holds, Working, UsInv, HandlersFit, HandlerFits
<1>1. PICK r \in UsRec : /\ usw' = [usw EXCEPT ![w] = r]
                         /\ r.pc = "idle" \/ (r.pc = "l_set" /\ r.id # 0 /\ r.lim # NoLimits)
  <2>1. CASE ususer # 0 /\ usw' = [usw EXCEPT ![w].pc = "l_set", ![w].id = ususer]
    <3> DEFINE rq == [usw[w] EXCEPT !.pc = "l_set", !.id = ususer]
    <3>1. usw[w] \in UsRec /\ ususer \in 0 .. UsMaxOps
      BY UsAssumption DEF UsInv, UsTypes
    <3>2. rq \in UsRec /\ rq.pc = "l_set" /\ rq.id # 0 /\ rq.lim # NoLimits
      BY <1>0, <2>1, <3>1 DEF UsRec, UsLabels
    <3>3. usw' = [usw EXCEPT ![w] = rq]
      BY <2>1 DEF UsInv, UsTypes
    <3> QED
      BY <3>2, <3>3
  <2>2. CASE Ends(w)
    BY <2>2, UsEnds DEF UsInv
  <2> QED
    BY <2>1, <2>2 DEF LimInfo
<1>2. ~Holds(r) /\ HandlerFits(r)' /\ ~Planned(r) /\ ~Deleting(r) /\ r.pc # "d_user"
  BY <1>0, <1>1 DEF Holds, HandlerFits, Planned, Deleting
<1>3. usfaults' \in usfaults .. UsMaxFaults /\ usops' \in usops .. UsMaxOps
  BY <1>0, UsFault DEF LimInfo, Fine, UsInv, UsTypes
<1> QED
  BY <1>0, <1>1, <1>2, <1>3, UsElsewhere DEF UsInv, UsTypes

LEMMA LimSetStep ==
    ASSUME UsInv, NEW w \in UsWorkers, LimSet(w)
    PROVE  UsInv'
<1>0. /\ usw[w].pc = "l_set" /\ ~Holds(usw[w]) /\ ~Working(usw[w]) /\ usw[w].lim # NoLimits /\ usw[w].id # 0
      /\ UNCHANGED <<usproj, ususer, usinfo, usgate, usplan, usops>>
  BY DEF LimSet, Holds, Working, UsInv, HandlersFit, HandlerFits
<1>1. PICK r \in UsRec : usw' = [usw EXCEPT ![w] = r] /\ r = AtRest /\ r.pc = "idle"
  BY UsEnds DEF LimSet, UsInv
<1>2. ~Holds(r) /\ HandlerFits(r)' /\ ~Planned(r) /\ ~Deleting(r) /\ r.pc # "d_user" /\ r.pc # "a_user"
  BY <1>1 DEF Holds, HandlerFits, Planned, Deleting
<1>3. CASE /\ uslim' = usw[w].lim /\ Fine
           /\ usghost' = [usghost EXCEPT !.late = @ \/ ususer # usw[w].id \/ Leaving]
  <2> DEFINE late == usghost.late \/ ususer # usw[w].id \/ Leaving
  <2>1. usghost' = [usghost EXCEPT !.late = late] /\ late \in BOOLEAN
    BY <1>3 DEF UsInv, UsTypes, UsGhostRec, Leaving
  <2> HIDE DEF late
  <2>2. usghost' \in UsGhostRec /\ usghost'.late = late
    BY <2>1 DEF UsInv, UsTypes, UsGhostRec
  <2>3. usw[w] \in UsRec /\ usops \in Nat
    BY UsRecords DEF UsInv, UsTypes
  <2>4. UsTypes'
    BY <1>0, <1>1, <1>3, <2>2, <2>3, UsTypesStep DEF Fine, UsInv, UsTypes, UsRec
  <2>5. ProjectsFit'
    BY <1>0, <1>1, <1>2, <1>3, ProjectsRest DEF Fine, UsInv
  <2>6. HandlersFit'
    <3>1. usops' \in Nat /\ usops' >= usops
      BY <1>0, <2>3
    <3> QED
      BY <1>1, <1>2, <3>1, HandlersRest DEF UsInv
  <2>7. LimitsFit'
    <3>1. uslim' # NoLimits
      BY <1>0, <1>3
    <3>2. \A v \in UsWorkers : usw'[v] = IF v = w THEN r ELSE usw[v]
      BY <1>1 DEF UsInv, UsTypes
    <3>3. ~usghost'.late => ususer = usw[w].id /\ ~Leaving
      BY <2>2 DEF late
    <3>4. ~usghost'.late => ususer' # 0 /\ \A v \in UsWorkers : usw'[v].pc # "d_user"
      BY <1>0, <1>2, <3>2, <3>3 DEF Leaving
    <3> QED
      BY <3>1, <3>4 DEF LimitsFit
  <2> QED
    BY <2>4, <2>5, <2>6, <2>7 DEF UsInv
<1>4. CASE Fault /\ UNCHANGED <<uslim, usghost>>
  <2>1. usfaults' \in usfaults .. UsMaxFaults /\ usfaults' # 0 /\ usops' \in usops .. UsMaxOps
    BY <1>0, <1>4, UsFault DEF UsInv, UsTypes
  <2> QED
    BY <1>0, <1>1, <1>2, <1>4, <2>1, UsElsewhere DEF UsInv, UsTypes
<1> QED
  BY <1>3, <1>4 DEF LimSet

-----------------------------------------------------------------------------
\* Requests that take one step
LEMMA UsOneStep ==
    ASSUME UsInv, NEW w \in UsWorkers, Starts(w, AtRest),
           UNCHANGED <<uslim, usproj, ususer, usfaults, usghost>>,
           usinfo' \in InfoRec, usinfo'.proj = usinfo.proj, usgate' \in BOOLEAN, usplan' \in Limits \cup {NoLimits}
    PROVE  UsInv'
<1>1. PICK r : r = AtRest
  OBVIOUS
<1>2. r \in UsRec /\ r.pc = "idle"
  BY <1>1, UsRecords DEF UsInv
<1>3. /\ usops' \in usops .. UsMaxOps /\ usw' = [usw EXCEPT ![w] = r] /\ ~Holds(usw[w]) /\ ~Working(usw[w])
  BY <1>1, UsStarts DEF UsInv
<1>4. ~Holds(r) /\ HandlerFits(r)' /\ ~Planned(r) /\ ~Deleting(r) /\ r.pc # "d_user"
  BY <1>2 DEF Holds, HandlerFits, Planned, Deleting
<1>5. usfaults' \in usfaults .. UsMaxFaults
  BY UsAssumption DEF UsInv, UsTypes
<1> QED
  BY <1>2, <1>3, <1>4, <1>5, UsElsewhere

LEMMA PlanStep ==
    ASSUME UsInv, NEW w \in UsWorkers, PlanAdd(w) \/ PlanDel(w)
    PROVE  UsInv'
<1>1. usplan' \in Limits \cup {NoLimits}
  BY DEF PlanAdd, PlanDel, Params, Limits
<1> QED
  BY <1>1, UsOneStep DEF PlanAdd, PlanDel, UsInv, UsTypes

LEMMA PlanGetStep ==
    ASSUME UsInv, NEW w \in UsWorkers, PlanGet(w)
    PROVE  UsInv'
<1>1. UNCHANGED <<uslim, usproj, ususer, usinfo, usgate, usplan, usfaults, usghost>>
  BY DEF PlanGet
<1>2. PICK from \in Params : Starts(w, [AtRest EXCEPT !.pc = "p_set", !.lim = Patch(usplan, from)])
  BY DEF PlanGet
<1>3. PICK r : r = [AtRest EXCEPT !.pc = "p_set", !.lim = Patch(usplan, from)] /\ Starts(w, r)
  BY <1>2
<1>4. r \in UsRec /\ r.pc = "p_set" /\ r.lim # NoLimits
  <2>1. Patch(usplan, from) \in Limits /\ AtRest \in UsRec /\ NoLimits \notin Limits
    BY PatchFits, UsRecords DEF UsInv, UsTypes
  <2> QED
    BY <1>3, <2>1 DEF UsRec, UsLabels
<1>5. /\ usops' \in usops .. UsMaxOps /\ usops' # 0
      /\ usw' = [usw EXCEPT ![w] = r] /\ ~Holds(usw[w]) /\ ~Working(usw[w])
  BY <1>3, UsStarts DEF UsInv
<1>6. ~Holds(r) /\ HandlerFits(r)' /\ ~Planned(r) /\ ~Deleting(r) /\ r.pc # "d_user"
  BY <1>4, <1>5 DEF Holds, HandlerFits, Planned, Deleting
<1>7. usfaults' \in usfaults .. UsMaxFaults
  BY <1>1, UsAssumption DEF UsInv, UsTypes
<1> QED
  BY <1>1, <1>4, <1>5, <1>6, <1>7, UsElsewhere DEF UsInv, UsTypes

LEMMA PlanSetStep ==
    ASSUME UsInv, NEW w \in UsWorkers, PlanSet(w)
    PROVE  UsInv'
<1>0. /\ usw[w].pc = "p_set" /\ ~Holds(usw[w]) /\ ~Working(usw[w])
      /\ UNCHANGED <<uslim, usproj, ususer, usinfo, usgate, usops, usfaults, usghost>>
  BY DEF PlanSet, Holds, Working
<1>1. PICK r \in UsRec : usw' = [usw EXCEPT ![w] = r] /\ r = AtRest /\ r.pc = "idle"
  BY UsEnds DEF PlanSet, UsInv
<1>2. ~Holds(r) /\ HandlerFits(r)' /\ ~Planned(r) /\ ~Deleting(r) /\ r.pc # "d_user"
  BY <1>1 DEF Holds, HandlerFits, Planned, Deleting
<1>3. usplan' \in Limits \cup {NoLimits}
  <2>1. usw[w] \in UsRec
    BY DEF UsInv, UsTypes
  <2> QED
    BY <2>1 DEF PlanSet, UsRec
<1>4. usfaults' \in usfaults .. UsMaxFaults /\ usops' \in usops .. UsMaxOps
  BY <1>0, UsAssumption DEF UsInv, UsTypes
<1> QED
  BY <1>0, <1>1, <1>2, <1>3, <1>4, UsElsewhere DEF UsInv, UsTypes

LEMMA UserStep ==
    ASSUME UsInv, NEW w \in UsWorkers, UserEnable(w) \/ CredAdd(w) \/ CredDel(w)
    PROVE  UsInv'
<1>1. usinfo \in InfoRec
  BY DEF UsInv, UsTypes
<1>2. /\ Starts(w, AtRest) /\ UNCHANGED <<uslim, usproj, ususer, usgate, usplan, usfaults, usghost>>
      /\ \/ usinfo' = [usinfo EXCEPT !.on = ~usinfo.on]
         \/ \E b \in BOOLEAN : usinfo' = [usinfo EXCEPT !.creds = b]
  BY DEF UserEnable, CredAdd, CredDel, UserCreds
<1>3. usinfo' \in InfoRec /\ usinfo'.proj = usinfo.proj
  BY <1>1, <1>2 DEF InfoRec
<1> QED
  BY <1>2, <1>3, UsOneStep DEF UsInv, UsTypes

\* The daemon dies: a fault, and no handler is left.
LEMMA UsCrashStep ==
    ASSUME UsInv, UsCrash
    PROVE  UsInv'
<1>1. /\ usw' = [v \in UsWorkers |-> AtRest] /\ usfaults' # 0 /\ usfaults' \in 0 .. UsMaxFaults
      /\ UNCHANGED <<uslim, usproj, ususer, usinfo, usgate, usplan, usops, usghost>>
  BY UsFault DEF UsCrash, UsInv
<1>2. \A v \in UsWorkers : usw'[v].pc = "idle" /\ usw'[v] \in UsRec
  BY <1>1, UsRecords DEF UsInv
<1>3. UsTypes'
  BY <1>1, <1>2, UsRecords DEF UsInv, UsTypes
<1>4. \A v \in UsWorkers : ~Holds(usw[v])' /\ ~Planned(usw[v])' /\ ~Deleting(usw[v])' /\ HandlerFits(usw[v])'
  BY <1>2 DEF Holds, Planned, Deleting, HandlerFits
<1>5. ProjectsFit'
  BY <1>1, <1>2, <1>4 DEF UsInv, ProjectsFit
<1>6. HandlersFit'
  BY <1>4 DEF HandlersFit
<1>7. LimitsFit'
  BY <1>1, <1>4 DEF UsInv, LimitsFit
<1> QED
  BY <1>3, <1>5, <1>6, <1>7 DEF UsInv

LEMMA UsRest ==
    ASSUME UsInv, UNCHANGED <<uslim, usproj, ususer, usinfo, usplan, usw, usops, usfaults, usghost>>, usgate' \in BOOLEAN
    PROVE  UsInv'
<1>1. UsTypes'
  BY DEF UsInv, UsTypes
<1>2. ProjectsFit' /\ HandlersFit' /\ LimitsFit'
  BY DEF UsInv, ProjectsFit, HandlersFit, LimitsFit, HandlerFits
<1> QED
  BY <1>1, <1>2 DEF UsInv

LEMMA UsInvStep ==
    ASSUME UsInv, [UsNext]_usVars
    PROVE  UsInv'
<1>1. CASE UNCHANGED usVars
  BY <1>1, UsRest DEF usVars, UsInv, UsTypes
<1>2. CASE UserWorks
  BY <1>2, UsRest DEF UserWorks
<1>3. CASE UsCrash
  BY <1>3, UsCrashStep
<1>4. ASSUME NEW w \in UsWorkers, UsAdd(w) PROVE UsInv'
  BY <1>4, AddStartStep, AddLimitsStep, AddProjectStep, AddUserStep, AddRoleStep, AddUndoStep DEF UsAdd
<1>5. ASSUME NEW w \in UsWorkers, UsDel(w) PROVE UsInv'
  BY <1>5, DelStartStep, DelProjectsStep, DelLimitsStep, DelUserStep, DelFindStep, DelProjectStep DEF UsDel
<1>6. ASSUME NEW w \in UsWorkers,
             \/ LimStart(w) \/ LimInfo(w) \/ LimSet(w) \/ PlanAdd(w) \/ PlanDel(w) \/ PlanGet(w) \/ PlanSet(w)
             \/ UserEnable(w) \/ CredAdd(w) \/ CredDel(w)
      PROVE  UsInv'
  BY <1>6, LimStartStep, LimInfoStep, LimSetStep, PlanStep, PlanGetStep, PlanSetStep, UserStep
<1> QED
  BY <1>1, <1>2, <1>3, <1>4, <1>5, <1>6 DEF UsNext

LEMMA UsInitInv ==
    ASSUME UsInit
    PROVE  UsInv
<1>1. UsTypes
  <2>1. 0 \in 0 .. 0 /\ 0 \in 0 .. UsMaxOps /\ 0 \in 0 .. UsMaxFaults
    BY UsAssumption
  <2>2. NoInfo \in InfoRec /\ AtRest \in UsRec /\ NoGhost \in UsGhostRec
    BY <2>1 DEF NoInfo, InfoRec, AtRest, UsRec, UsLabels, NoGhost, UsGhostRec
  <2> QED
    BY <2>1, <2>2 DEF UsInit, UsTypes
<1>2. \A v \in UsWorkers : usw[v].pc = "idle"
  BY DEF UsInit, AtRest
<1>3. ProjectsFit /\ HandlersFit /\ LimitsFit
  BY <1>2 DEF UsInit, NoGhost, ProjectsFit, HandlersFit, HandlerFits, LimitsFit, Holds, Deleting, Planned
<1> QED
  BY <1>1, <1>3 DEF UsInv

LEMMA UsSpecInv == UsSpec => []UsInv
BY UsInitInv, UsInvStep, PTL DEF UsSpec

-----------------------------------------------------------------------------
LEMMA UsersInv ==
    ASSUME UsInv
    PROVE  UsTypeOK /\ UsersSound
<1>1. UsTypeOK
  <2>1. usproj \in 0 .. UsMaxOps /\ ususer \in 0 .. UsMaxOps
    BY UsAssumption DEF UsInv, UsTypes
  <2> QED
    BY <2>1 DEF UsInv, UsTypes, UsTypeOK, UsRec, UsLabels, InfoRec
<1>2. UserHasProject /\ LimitsLostOnlyByRace
  BY DEF UsInv, ProjectsFit, LimitsFit, UserHasProject, LimitsLostOnlyByRace
<1>3. NoStrayLimits
  <2>1. UsQuiet => \A v \in UsWorkers : ~Working(usw[v])
    BY DEF UsQuiet, Working
  <2> QED
    BY <2>1, UsRecords DEF UsInv, LimitsFit, NoStrayLimits
<1>4. NameFreeAgain
  <2>1. UsQuiet => \A v \in UsWorkers : ~Holds(usw[v])
    BY DEF UsQuiet, Holds
  <2> QED
    BY <2>1 DEF UsInv, ProjectsFit, NameFreeAgain
<1> QED
  BY <1>1, <1>2, <1>3, <1>4 DEF UsersSound

\* The types of the model of users (admd/main.go, admd/ks.go).
THEOREM UsersTypes == UsSpec => []UsTypeOK
BY UsSpecInv, UsersInv, PTL

\* Limits, project and user stay together over adds and deletes that overlap, fail
\* half-way or are cut off: what is left is of a call that failed, of a crash or of
\* handlers that overlapped (handleAddUser, handleDelUser).
THEOREM UsersAreSound == UsSpec => []UsersSound
BY UsSpecInv, UsersInv, PTL

\* No step but that which adds a plan brings one back that was deleted
\* (handlePlanUpdate).
THEOREM PlansStay == UsSpec => DeletedPlanStays
<1>1. ASSUME [UsNext]_usVars
      PROVE  [usplan = NoLimits /\ usplan' # NoLimits => \E w \in UsWorkers : PlanAdd(w)]_usVars
  <2>1. CASE UNCHANGED usVars
    BY <2>1 DEF usVars
  <2>2. CASE UserWorks \/ UsCrash
    BY <2>2 DEF UserWorks, UsCrash
  <2>3. ASSUME NEW w \in UsWorkers, UsAdd(w) \/ UsDel(w) PROVE usplan' = usplan
    BY <2>3 DEF UsAdd, AddStart, AddLimits, AddProject, AddUser, AddRole, AddUndo,
                UsDel, DelStart, DelProjects, DelLimits, DelUser, DelFind, DelProject
  <2>4. ASSUME NEW w \in UsWorkers,
               \/ LimStart(w) \/ LimInfo(w) \/ LimSet(w) \/ PlanDel(w) \/ PlanGet(w) \/ PlanSet(w)
               \/ UserEnable(w) \/ CredAdd(w) \/ CredDel(w)
        PROVE  usplan' \in {usplan, NoLimits} \/ usplan # NoLimits
    BY <2>4 DEF LimStart, LimInfo, LimSet, PlanDel, PlanGet, PlanSet, UserEnable, CredAdd, CredDel, UserCreds
  <2> QED
    BY <1>1, <2>1, <2>2, <2>3, <2>4 DEF UsNext
<1> QED
  BY <1>1, PTL DEF UsSpec, DeletedPlanStays

-----------------------------------------------------------------------------
(* The usage of a user's objects.  The two counters hold what was granted, *)
(* what a refused download still has to take back, and what failures left; *)
(* a snapshot is between the two, and without a failed insert the archive  *)
(* is ordered by what was granted when each was read.                      *)

\* The bytes a door has to take back: those of downloads that were refused
OwedOf(f, d) ==
    {p \in SuConns \X (1 .. SuMaxSize) :
        f[p[1]].pc = "refuse" /\ f[p[1]].door = d /\ p[2] <= f[p[1]].size}
Owes(d) == Cardinality(OwedOf(sud, d))
\* at most, at any time
MostOwed == Cardinality(SuConns) * SuMaxSize
\* counted, granted to nobody and never to be taken back: what failures left
Leaked == SuSum - sughost.granted - Owes("api") - Owes("web")

SudRec == [pc : {"idle", "refuse", "send"}, door : Doors, size : 0 .. SuMaxSize]
ScrRec == [pc : {"idle", "last", "due", "insert", "update", "clean"}, st : Snapshot, of : Snapshot,
           repair : BOOLEAN]

SuTypes ==
    /\ suout \in [Doors -> Int] /\ suoff \in Nat /\ suarch \in Seq(Snapshot)
    /\ sud \in [SuConns -> SudRec] /\ suscr \in ScrRec /\ sufaults \in 0 .. SuMaxFaults
    /\ sughost \in [granted : Nat, mark : Nat, noinsert : BOOLEAN]

\* What is owed is in the counter it was put in, and nothing was granted that is
\* not counted.
Counted ==
    /\ \A d \in Doors : suout[d] >= Owes(d)
    /\ SuSum <= SuMaxBytes /\ Leaked >= 0

\* A snapshot exceeds what was granted by what had leaked, and was owed, then.
Fits(s) == s.granted <= sughost.granted /\ s.sum - s.granted <= Leaked + MostOwed
SnapshotsFit ==
    /\ \A i \in 1 .. Len(suarch) : Fits(suarch[i])
    /\ suscr.pc # "idle" => Fits(suscr.st)
    /\ suscr.pc \in {"update", "clean"} => Fits(suscr.of)
    /\ sughost.mark <= sughost.granted /\ suoff - sughost.mark <= Leaked + MostOwed

\* Without a failed insert the archive ends with the newest snapshot that was applied
\* or is to be, and the one that was read is not older.
Latest == suarch[Len(suarch)]
InOrder == ~sughost.noinsert =>
    /\ IF suarch = << >> THEN sughost.mark = 0 /\ suoff = 0
       ELSE sughost.mark <= Latest.granted
    /\ /\ suscr.pc \in {"last", "due", "insert"} \/ (suscr.pc \in {"update", "clean"} /\ suscr.repair)
       /\ suarch # << >>
       => Latest.granted <= suscr.st.granted
    /\ suscr.pc \in {"update", "clean"} =>
          suarch # << >> /\ Latest.granted = suscr.of.granted /\ Latest.sum = suscr.of.sum

SuInv ==
    /\ SuTypes /\ Counted /\ SnapshotsFit /\ InOrder
    /\ OffsetIsArchived /\ PeriodIsLimited
-----------------------------------------------------------------------------
LEMMA OwedFinite ==
    ASSUME NEW f, NEW d
    PROVE  IsFiniteSet(OwedOf(f, d)) /\ Cardinality(OwedOf(f, d)) \in Nat
<1>0. IsFiniteSet(1 .. SuMaxSize)
  BY SuAssumption, FS_Interval
<1>1. IsFiniteSet(SuConns \X (1 .. SuMaxSize))
  BY <1>0, SuAssumption, FS_Product
<1>2. OwedOf(f, d) \in SUBSET (SuConns \X (1 .. SuMaxSize))
  BY DEF OwedOf
<1> QED
  BY <1>1, <1>2, FS_Subset, FS_CardinalityType

\* No connection owes at two doors.
LEMMA OwedAtMost ==
    ASSUME NEW f
    PROVE  /\ Cardinality(OwedOf(f, "api")) + Cardinality(OwedOf(f, "web")) <= MostOwed
           /\ MostOwed \in Nat
<1> DEFINE All == SuConns \X (1 .. SuMaxSize)
           A == OwedOf(f, "api")
           W == OwedOf(f, "web")
<1>1. IsFiniteSet(1 .. SuMaxSize) /\ Cardinality(1 .. SuMaxSize) = SuMaxSize
  BY SuAssumption, FS_Interval
<1>2. IsFiniteSet(All) /\ Cardinality(All) = Cardinality(SuConns) * Cardinality(1 .. SuMaxSize)
  BY <1>1, SuAssumption, FS_Product
<1>3. Cardinality(All) = MostOwed /\ MostOwed \in Nat
  BY <1>1, <1>2, FS_CardinalityType DEF MostOwed
<1>4. A \cap W = {}
  BY DEF OwedOf
<1>5. Cardinality(A \cup W) = Cardinality(A) + Cardinality(W)
  <2>1. Cardinality(A \cup W) = Cardinality(A) + Cardinality(W) - Cardinality(A \cap W)
    BY OwedFinite, FS_Union
  <2>2. Cardinality(A \cap W) = 0
    BY <1>4, FS_EmptySet
  <2> HIDE DEF A, W
  <2>3. Cardinality(A) \in Nat /\ Cardinality(W) \in Nat
    BY OwedFinite DEF A, W
  <2> QED
    BY <2>1, <2>2, <2>3
<1>6. A \cup W \in SUBSET All
  BY DEF OwedOf
<1>7. Cardinality(A \cup W) <= Cardinality(All)
  BY <1>2, <1>6, FS_Subset
<1> QED
  BY <1>3, <1>5, <1>7

\* A connection that comes to owe n, or owed n and does no more.
LEMMA OwedMoves ==
    ASSUME NEW f \in [SuConns -> SudRec], NEW g \in [SuConns -> SudRec], NEW c \in SuConns,
           \A b \in SuConns : b # c => g[b] = f[b],
           f[c].pc # "refuse", g[c].pc = "refuse", NEW d \in Doors
    PROVE  Cardinality(OwedOf(g, d)) =
             Cardinality(OwedOf(f, d)) + (IF g[c].door = d THEN g[c].size ELSE 0)
<1> DEFINE n == g[c].size
           Stake == {c} \X (1 .. n)
<1>1. n \in 0 .. SuMaxSize /\ n \in Nat
  BY SuAssumption DEF SudRec
<1>2. CASE g[c].door = d
  <2>1. OwedOf(g, d) = OwedOf(f, d) \cup Stake
    <3>1. ASSUME NEW p \in OwedOf(g, d) PROVE p \in OwedOf(f, d) \cup Stake
      <4>1. p \in SuConns \X (1 .. SuMaxSize) /\ p = <<p[1], p[2]>>
        BY <3>1 DEF OwedOf
      <4>2. CASE p[1] = c
        BY <3>1, <4>1, <4>2, <1>1 DEF OwedOf
      <4>3. CASE p[1] # c
        BY <3>1, <4>1, <4>3 DEF OwedOf
      <4> QED
        BY <4>2, <4>3
    <3>2. ASSUME NEW p \in OwedOf(f, d) PROVE p \in OwedOf(g, d)
      BY <3>2 DEF OwedOf
    <3>3. ASSUME NEW p \in Stake PROVE p \in OwedOf(g, d)
      BY <3>3, <1>1, <1>2, SuAssumption DEF OwedOf
    <3> QED
      BY <3>1, <3>2, <3>3
  <2>2. OwedOf(f, d) \cap Stake = {}
    BY DEF OwedOf
  <2>3. IsFiniteSet(Stake) /\ Cardinality(Stake) = n
    <3>1. IsFiniteSet({c}) /\ Cardinality({c}) = 1
      BY FS_Singleton
    <3>2. IsFiniteSet(1 .. n) /\ Cardinality(1 .. n) = n
      BY <1>1, FS_Interval, SMTT(30)
    <3>3. IsFiniteSet(Stake) /\ Cardinality(Stake) = Cardinality({c}) * Cardinality(1 .. n)
      BY <3>1, <3>2, FS_Product
    <3> QED
      BY <1>1, <3>1, <3>2, <3>3
  <2>4. Cardinality(OwedOf(f, d) \cup Stake) =
          Cardinality(OwedOf(f, d)) + Cardinality(Stake) - Cardinality(OwedOf(f, d) \cap Stake)
    BY <2>3, OwedFinite, FS_Union
  <2>5. Cardinality(OwedOf(f, d) \cap Stake) = 0
    BY <2>2, FS_EmptySet
  <2>6. Cardinality(OwedOf(f, d)) \in Nat
    BY OwedFinite
  <2>7. Cardinality(OwedOf(g, d)) = Cardinality(OwedOf(f, d)) + n - 0
    BY <2>1, <2>3, <2>4, <2>5
  <2> QED
    BY <1>1, <1>2, <2>6, <2>7
<1>3. CASE g[c].door # d
  <2>1. OwedOf(g, d) = OwedOf(f, d)
    BY <1>3 DEF OwedOf
  <2>2. Cardinality(OwedOf(f, d)) \in Nat
    BY OwedFinite
  <2> QED
    BY <1>3, <2>1, <2>2
<1> QED
  BY <1>2, <1>3

\* What is owed does not change when nobody comes to owe or owes no more.
LEMMA OwedStays ==
    ASSUME NEW f \in [SuConns -> SudRec], NEW g \in [SuConns -> SudRec],
           \A c \in SuConns : g[c] = f[c] \/ (f[c].pc # "refuse" /\ g[c].pc # "refuse"), NEW d
    PROVE  OwedOf(g, d) = OwedOf(f, d)
  BY DEF OwedOf

\* The inductive step, action by action, in two lemmas: the downloads ...
LEMMA Numbers ==
    ASSUME SuInv
    PROVE  /\ suout["api"] \in Nat /\ suout["web"] \in Nat /\ SuSum \in Nat
           /\ sughost.granted \in Nat /\ sughost.mark \in Nat /\ sughost.noinsert \in BOOLEAN
           /\ suoff \in Nat /\ MostOwed \in Nat
           /\ Owes("api") \in Nat /\ Owes("web") \in Nat /\ Leaked \in Nat
           /\ Owes("api") + Owes("web") <= MostOwed
           /\ suout["api"] >= Owes("api") /\ suout["web"] >= Owes("web")
<1>1. Owes("api") \in Nat /\ Owes("web") \in Nat
  BY OwedFinite DEF Owes
<1>2. suout["api"] \in Int /\ suout["web"] \in Int
  BY DEF SuInv, SuTypes, Doors
<1>3. suout["api"] >= Owes("api") /\ suout["web"] >= Owes("web") /\ Leaked >= 0
  BY DEF SuInv, Counted, Doors
<1>4. sughost.granted \in Nat /\ sughost.mark \in Nat /\ sughost.noinsert \in BOOLEAN /\ suoff \in Nat
  BY DEF SuInv, SuTypes
<1>5. Owes("api") + Owes("web") <= MostOwed /\ MostOwed \in Nat
  BY OwedAtMost DEF Owes
<1>6. suout["api"] \in Nat /\ suout["web"] \in Nat /\ SuSum \in Nat
  BY <1>1, <1>2, <1>3 DEF SuSum
<1>7. Leaked \in Int
  BY <1>1, <1>4, <1>6 DEF Leaked
<1> QED
  BY <1>1, <1>3, <1>4, <1>5, <1>6, <1>7

\* Downloads leave the scraper's things alone: what fitted fits.
LEMMA FitsOn ==
    ASSUME SuInv, UNCHANGED <<suoff, suarch, suscr>>,
           sughost'.mark = sughost.mark, sughost'.noinsert = sughost.noinsert,
           sughost'.granted \in Nat, sughost'.granted >= sughost.granted,
           Leaked' \in Int, Leaked' >= Leaked
    PROVE  SnapshotsFit' /\ InOrder' /\ OffsetIsArchived'
<1>1. MostOwed' = MostOwed
  BY DEF MostOwed
<1>2. \A s \in Snapshot : Fits(s) => Fits(s)'
  BY <1>1, Numbers DEF Fits, Snapshot
<1>3. /\ \A i \in 1 .. Len(suarch) : suarch[i] \in Snapshot
      /\ suscr.st \in Snapshot /\ suscr.of \in Snapshot
  BY ElementOfSeq DEF SuInv, SuTypes, ScrRec
<1>4. SnapshotsFit'
  <2>1. \A i \in 1 .. Len(suarch) : Fits(suarch[i])'
    BY <1>2, <1>3 DEF SuInv, SnapshotsFit, Fits
  <2>2. suscr.pc # "idle" => Fits(suscr.st)'
    BY <1>2, <1>3 DEF SuInv, SnapshotsFit, Fits
  <2>3. suscr.pc \in {"update", "clean"} => Fits(suscr.of)'
    BY <1>2, <1>3 DEF SuInv, SnapshotsFit, Fits
  <2>4. sughost'.mark <= sughost'.granted /\ suoff' - sughost'.mark <= Leaked' + MostOwed'
    <3>1. /\ sughost.mark <= sughost.granted /\ suoff - sughost.mark <= Leaked + MostOwed
          /\ sughost.mark \in Nat /\ sughost.granted \in Nat /\ suoff \in Nat /\ Leaked \in Int /\ MostOwed \in Int
      BY Numbers DEF SuInv, SnapshotsFit
    <3> QED
      BY <1>1, <3>1
  <2> QED
    BY <2>1, <2>2, <2>3, <2>4 DEF SnapshotsFit
<1>5. InOrder'
  BY DEF SuInv, InOrder, Latest
<1> QED
  BY <1>4, <1>5 DEF SuInv, OffsetIsArchived

LEMMA SuAcctStep ==
    ASSUME SuInv, NEW c \in SuConns, SuAcct(c)
    PROVE  SuInv'
<1>1. PICK d \in Doors, n \in 1 .. SuMaxSize :
        /\ SuSum + n <= SuMaxBytes /\ suout' = [suout EXCEPT ![d] = @ + n]
        /\ LET over == SuLimit # 0 /\ suout'["api"] + suout'["web"] + n > SuLimit + suoff IN
             /\ sud' = [sud EXCEPT ![c] = [pc |-> IF over THEN "refuse" ELSE "send", door |-> d, size |-> n]]
             /\ sughost' = IF over THEN sughost ELSE [sughost EXCEPT !.granted = @ + n]
  BY DEF SuAcct
<1>2. n \in Nat /\ n >= 1 /\ n \in 0 .. SuMaxSize
  BY SuAssumption
<1>3. sud[c].pc = "idle" /\ UNCHANGED <<suoff, suarch, suscr, sufaults>>
  BY DEF SuAcct
<1> DEFINE over == SuLimit # 0 /\ suout'["api"] + suout'["web"] + n > SuLimit + suoff
<1>4. /\ sud' = [sud EXCEPT ![c] = [pc |-> IF over THEN "refuse" ELSE "send", door |-> d, size |-> n]]
      /\ sughost' = IF over THEN sughost ELSE [sughost EXCEPT !.granted = @ + n]
  BY <1>1
<1>5. suout \in [Doors -> Int] /\ sud \in [SuConns -> SudRec]
      /\ sughost \in [granted : Nat, mark : Nat, noinsert : BOOLEAN]
  BY DEF SuInv, SuTypes
<1>6. sud' \in [SuConns -> SudRec] /\ suout' \in [Doors -> Int]
      /\ sughost' \in [granted : Nat, mark : Nat, noinsert : BOOLEAN]
  BY <1>1, <1>2, <1>4, <1>5 DEF SudRec
<1>7. /\ suout'["api"] = suout["api"] + (IF d = "api" THEN n ELSE 0)
      /\ suout'["web"] = suout["web"] + (IF d = "web" THEN n ELSE 0)
      /\ SuSum' = SuSum + n
  BY <1>1, <1>2, <1>5, Numbers DEF Doors, SuSum
<1>8. SuTypes'
  BY <1>3, <1>6 DEF SuInv, SuTypes
<1>9. /\ sughost'.mark = sughost.mark /\ sughost'.noinsert = sughost.noinsert
      /\ sughost'.granted = sughost.granted + (IF over THEN 0 ELSE n)
  BY <1>2, <1>4, <1>5
<1>10. /\ Owes("api")' = Owes("api") + (IF over /\ d = "api" THEN n ELSE 0)
       /\ Owes("web")' = Owes("web") + (IF over /\ d = "web" THEN n ELSE 0)
  <2>1. CASE over
    <3>1. \A e \in Doors : Cardinality(OwedOf(sud', e)) =
             Cardinality(OwedOf(sud, e)) + (IF sud'[c].door = e THEN sud'[c].size ELSE 0)
      <4>1. sud'[c].pc = "refuse" /\ (\A b \in SuConns : b # c => sud'[b] = sud[b])
        BY <2>1, <1>4, <1>5
      <4> QED
        BY <4>1, <1>3, <1>5, <1>6, OwedMoves
    <3>2. sud'[c].door = d /\ sud'[c].size = n
      BY <1>4, <1>5
    <3> QED
      BY <2>1, <3>1, <3>2 DEF Owes, Doors
  <2>2. CASE ~over
    <3>1. \A b \in SuConns : sud'[b] = sud[b] \/ (sud[b].pc # "refuse" /\ sud'[b].pc # "refuse")
      BY <2>2, <1>3, <1>4, <1>5
    <3>2. OwedOf(sud', "api") = OwedOf(sud, "api") /\ OwedOf(sud', "web") = OwedOf(sud, "web")
      BY <3>1, <1>5, <1>6, OwedStays
    <3> QED
      BY <2>2, <3>2, Numbers DEF Owes
  <2> QED
    BY <2>1, <2>2
<1> HIDE DEF over
<1>11. Leaked' = Leaked
  BY <1>2, <1>7, <1>9, <1>10, Numbers DEF Leaked, Doors
<1>12. Counted'
  <2>1. SuSum' <= SuMaxBytes
    BY <1>1, <1>7
  <2>2. suout'["api"] >= Owes("api")' /\ suout'["web"] >= Owes("web")'
    BY <1>2, <1>7, <1>10, Numbers
  <2> QED
    BY <2>1, <2>2, <1>11, Numbers DEF Counted, Doors
<1>13. SnapshotsFit' /\ InOrder' /\ OffsetIsArchived'
  BY <1>2, <1>3, <1>9, <1>11, Numbers, FitsOn
<1>14. PeriodIsLimited'
  <2> SUFFICES ASSUME SuLimit # 0, ~sughost'.noinsert
               PROVE  sughost'.granted - sughost'.mark <= SuLimit - 1 + MostOwed
    BY DEF PeriodIsLimited, MostOwed
  <2>1. sughost.granted - sughost.mark <= SuLimit - 1 + MostOwed
    BY <1>9 DEF SuInv, PeriodIsLimited, MostOwed
  <2>2. CASE over
    BY <2>1, <2>2, <1>9, Numbers
  <2>3. CASE ~over
    <3>1. SuSum + n + n <= SuLimit + suoff
      BY <2>3, <1>2, <1>7, Numbers, SuAssumption DEF over, SuSum
    <3>2. SuSum >= sughost.granted + Leaked
      BY Numbers DEF Leaked
    <3>3. suoff - sughost.mark <= Leaked + MostOwed
      BY DEF SuInv, SnapshotsFit
    <3> QED
      BY <2>3, <3>1, <3>2, <3>3, <1>2, <1>9, Numbers, SuAssumption
  <2> QED
    BY <2>2, <2>3
<1> QED
  BY <1>8, <1>12, <1>13, <1>14 DEF SuInv

LEMMA SuUnacctStep ==
    ASSUME SuInv, NEW c \in SuConns, SuUnacct(c)
    PROVE  SuInv'
<1> DEFINE d == sud[c].door
           n == sud[c].size
<1>1. suout \in [Doors -> Int] /\ sud \in [SuConns -> SudRec] /\ sufaults \in 0 .. SuMaxFaults
  BY DEF SuInv, SuTypes
<1>2. d \in Doors /\ n \in 0 .. SuMaxSize /\ n \in Nat
  BY <1>1, SuAssumption DEF SudRec
<1>3. /\ sud[c].pc = "refuse" /\ sud' = [sud EXCEPT ![c] = SuResting]
      /\ UNCHANGED <<suoff, suarch, suscr, sughost>>
  BY DEF SuUnacct
<1>4. sud' \in [SuConns -> SudRec]
  BY <1>1, <1>3, SuAssumption DEF SuResting, SudRec, Doors
<1>5. suout' \in [Doors -> Int] /\ sufaults' \in 0 .. SuMaxFaults
  BY <1>1, <1>2, SuAssumption DEF SuUnacct, SuFault
<1>6. SuTypes'
  BY <1>3, <1>4, <1>5 DEF SuInv, SuTypes
<1>7. \A e \in Doors : Owes(e) = Owes(e)' + (IF d = e THEN n ELSE 0)
  <2>1. sud'[c].pc # "refuse" /\ (\A b \in SuConns : b # c => sud[b] = sud'[b])
    BY <1>1, <1>3 DEF SuResting
  <2>2. \A e \in Doors : Cardinality(OwedOf(sud, e)) =
          Cardinality(OwedOf(sud', e)) + (IF sud[c].door = e THEN sud[c].size ELSE 0)
    <3> HIDE DEF d, n
    <3>1. sud[c].pc = "refuse"
      BY <1>3
    <3> QED
      BY <2>1, <3>1, <1>1, <1>4, OwedMoves
  <2> QED
    BY <2>2 DEF Owes
<1>8. \A e \in Doors : suout'[e] = suout[e] \/ suout'[e] = suout[e] - (IF d = e THEN n ELSE 0)
  BY <1>1, <1>2 DEF SuUnacct
<1>9. \A e \in Doors : Owes(e)' \in Nat
  BY OwedFinite DEF Owes
<1> HIDE DEF d, n
<1>10. "api" \in Doors /\ "web" \in Doors
  BY DEF Doors
<1>11. (suout' = suout \/ suout' = [suout EXCEPT ![d] = @ - n])
  BY DEF SuUnacct, d, n
<1>12. SuSum' = SuSum \/ SuSum' = SuSum - n
  BY <1>1, <1>2, <1>11 DEF SuSum, Doors
<1>13. Leaked' \in Int /\ Leaked' >= Leaked
  BY <1>2, <1>3, <1>7, <1>9, <1>10, <1>12, Numbers DEF Leaked, Doors
<1>14. Counted'
  <2>1. SuSum' <= SuMaxBytes
    BY <1>2, <1>12, Numbers, SuAssumption DEF SuInv, Counted
  <2>2. \A e \in Doors : suout'[e] >= Owes(e)'
    BY <1>1, <1>2, <1>7, <1>8, <1>9 DEF SuInv, Counted
  <2> QED
    BY <2>1, <2>2, <1>13, Numbers DEF Counted
<1>15. SnapshotsFit' /\ InOrder' /\ OffsetIsArchived'
  BY <1>3, <1>13, Numbers, FitsOn
<1>16. PeriodIsLimited'
  BY <1>3 DEF SuInv, PeriodIsLimited
<1> QED
  BY <1>6, <1>14, <1>15, <1>16 DEF SuInv

LEMMA SuSentStep ==
    ASSUME SuInv, NEW c \in SuConns, SuSent(c)
    PROVE  SuInv'
<1>1. sud \in [SuConns -> SudRec]
  BY DEF SuInv, SuTypes
<1>2. /\ sud[c].pc = "send" /\ sud' = [sud EXCEPT ![c] = SuResting]
      /\ UNCHANGED <<suout, suoff, suarch, suscr, sufaults, sughost>>
  BY DEF SuSent
<1>3. sud' \in [SuConns -> SudRec]
  BY <1>1, <1>2, SuAssumption DEF SuResting, SudRec, Doors
<1>4. SuTypes'
  BY <1>2, <1>3 DEF SuInv, SuTypes
<1>5. \A d \in Doors : Owes(d)' = Owes(d)
  <2>1. \A b \in SuConns : sud'[b] = sud[b] \/ (sud[b].pc # "refuse" /\ sud'[b].pc # "refuse")
    BY <1>1, <1>2 DEF SuResting
  <2>2. \A d \in Doors : OwedOf(sud', d) = OwedOf(sud, d)
    BY <2>1, <1>1, <1>3, OwedStays
  <2> QED
    BY <2>2 DEF Owes
<1>6. Leaked' = Leaked /\ SuSum' = SuSum
  BY <1>2, <1>5 DEF Leaked, SuSum, Doors
<1>7. Counted'
  BY <1>2, <1>5, <1>6 DEF SuInv, Counted
<1>8. SnapshotsFit' /\ InOrder' /\ OffsetIsArchived'
  BY <1>2, <1>6, Numbers, FitsOn
<1> QED
  BY <1>2, <1>4, <1>7, <1>8 DEF SuInv, PeriodIsLimited

\* The scraper counts and grants nothing.
LEMMA ScraperLeaves ==
    ASSUME SuInv, UNCHANGED <<suout, sud>>, sughost'.granted = sughost.granted
    PROVE  Counted' /\ Leaked' = Leaked /\ MostOwed' = MostOwed /\ SuSum' = SuSum
<1>1. Owes("api")' = Owes("api") /\ Owes("web")' = Owes("web") /\ (\A d \in Doors : Owes(d)' = Owes(d))
  BY DEF Owes
<1>2. SuSum' = SuSum
  BY DEF SuSum
<1>3. Leaked' = Leaked
  BY <1>1, <1>2 DEF Leaked
<1> QED
  BY <1>1, <1>2, <1>3 DEF SuInv, Counted, MostOwed

\* What the last snapshot of the archive is
LEMMA LatestFits ==
    ASSUME SuInv, suarch # << >>
    PROVE  /\ Len(suarch) \in 1 .. Len(suarch) /\ Len(suarch) \in Nat
           /\ Latest \in Snapshot /\ Fits(Latest)
<1>1. suarch \in Seq(Snapshot)
  BY DEF SuInv, SuTypes
<1>2. Len(suarch) \in Nat /\ Len(suarch) # 0
  BY <1>1, EmptySeq, LenProperties
<1>3. Len(suarch) \in 1 .. Len(suarch)
  BY <1>2
<1> QED
  BY <1>1, <1>2, <1>3, ElementOfSeq DEF Latest, SuInv, SnapshotsFit

LEMMA SuScrapeStep ==
    ASSUME SuInv, SuScrape
    PROVE  SuInv'
<1> DEFINE new == [sum |-> SuSum, granted |-> sughost.granted, dirty |-> TRUE]
<1>1. /\ suscr.pc = "idle" /\ suscr' = [suscr EXCEPT !.pc = "last", !.st = new]
      /\ UNCHANGED <<suout, suoff, suarch, sud, sufaults, sughost>>
  BY DEF SuScrape
<1>2. new \in Snapshot
  BY Numbers DEF Snapshot
<1>3. suscr \in ScrRec
  BY DEF SuInv, SuTypes
<1>4. suscr' \in ScrRec /\ suscr'.pc = "last" /\ suscr'.st = new
  BY <1>1, <1>2, <1>3 DEF ScrRec
<1>5. Counted' /\ Leaked' = Leaked /\ MostOwed' = MostOwed
  BY <1>1, ScraperLeaves
<1>6. SuTypes'
  BY <1>1, <1>4 DEF SuInv, SuTypes
<1>7. SnapshotsFit'
  <2>1. new.granted <= sughost.granted /\ new.sum - new.granted <= Leaked + MostOwed
    BY Numbers DEF Leaked
  <2> QED
    BY <1>1, <1>4, <1>5, <2>1 DEF SuInv, SnapshotsFit, Fits
<1>8. InOrder'
  <2>1. suarch # << >> => Latest.granted <= new.granted
    BY LatestFits DEF Fits
  <2> QED
    BY <1>1, <1>4, <2>1 DEF SuInv, InOrder, Latest
<1> QED
  BY <1>1, <1>5, <1>6, <1>7, <1>8 DEF SuInv, OffsetIsArchived, PeriodIsLimited

LEMMA SuLastStep ==
    ASSUME SuInv, SuLast
    PROVE  SuInv'
<1>1. /\ suscr.pc = "last" /\ UNCHANGED <<suout, suoff, suarch, sud, sufaults, sughost>>
      /\ suscr' = IF suarch # << >> /\ Latest.dirty
                  THEN [suscr EXCEPT !.pc = "update", !.of = Latest, !.repair = TRUE]
                  ELSE [suscr EXCEPT !.pc = "due"]
  BY DEF SuLast, Latest
<1>2. suscr \in ScrRec
  BY DEF SuInv, SuTypes
<1>3. Counted' /\ Leaked' = Leaked /\ MostOwed' = MostOwed
  BY <1>1, ScraperLeaves
<1>4. CASE suarch # << >> /\ Latest.dirty
  <2>1. /\ suscr' \in ScrRec /\ suscr'.pc = "update" /\ suscr'.st = suscr.st
        /\ suscr'.of = Latest /\ suscr'.repair
    BY <1>1, <1>2, <1>4, LatestFits DEF ScrRec
  <2>2. SuTypes'
    BY <1>1, <2>1 DEF SuInv, SuTypes
  <2>3. SnapshotsFit'
    BY <1>1, <1>3, <1>4, <2>1, LatestFits DEF SuInv, SnapshotsFit, Fits
  <2>4. InOrder'
    BY <1>1, <1>4, <2>1 DEF SuInv, InOrder, Latest
  <2> QED
    BY <1>1, <1>3, <2>2, <2>3, <2>4 DEF SuInv, OffsetIsArchived, PeriodIsLimited
<1>5. CASE ~(suarch # << >> /\ Latest.dirty)
  <2>1. /\ suscr' \in ScrRec /\ suscr'.pc = "due" /\ suscr'.st = suscr.st
    BY <1>1, <1>2, <1>5 DEF ScrRec
  <2>2. SuTypes'
    BY <1>1, <2>1 DEF SuInv, SuTypes
  <2>3. SnapshotsFit'
    BY <1>1, <1>3, <2>1 DEF SuInv, SnapshotsFit, Fits
  <2>4. InOrder'
    BY <1>1, <2>1 DEF SuInv, InOrder, Latest
  <2> QED
    BY <1>1, <1>3, <2>2, <2>3, <2>4 DEF SuInv, OffsetIsArchived, PeriodIsLimited
<1> QED
  BY <1>4, <1>5

\* The scraper goes home, or back to its pass, or dies.
LEMMA ScraperRests ==
    ASSUME SuInv, UNCHANGED <<suout, suoff, suarch, sud, sughost>>, sufaults' \in 0 .. SuMaxFaults,
           \/ suscr' = SuOver
           \/ suscr.pc # "idle" /\ suscr'.pc \in {"due", "insert"} /\ suscr' \in ScrRec
              /\ suscr'.st = suscr.st
              /\ (suscr.pc \in {"last", "due", "insert"} \/ (suscr.pc \in {"update", "clean"} /\ suscr.repair))
    PROVE  SuInv'
<1>1. SuOver \in ScrRec /\ SuOver.pc = "idle"
  BY DEF SuOver, ScrRec, NoSnapshot, Snapshot
<1>2. Counted' /\ Leaked' = Leaked /\ MostOwed' = MostOwed
  BY ScraperLeaves
<1>3. SuTypes'
  BY <1>1 DEF SuInv, SuTypes
<1>4. SnapshotsFit'
  BY <1>1, <1>2 DEF SuInv, SnapshotsFit, Fits
<1>5. InOrder'
  BY <1>1 DEF SuInv, InOrder, Latest
<1> QED
  BY <1>2, <1>3, <1>4, <1>5 DEF SuInv, OffsetIsArchived, PeriodIsLimited

LEMMA BackRests ==
    ASSUME SuInv, suscr.pc \in {"update", "clean"}
    PROVE  \/ SuBack = SuOver
           \/ suscr.repair /\ SuBack.pc = "due" /\ SuBack \in ScrRec /\ SuBack.st = suscr.st
  BY DEF SuInv, SuTypes, SuBack, ScrRec, NoSnapshot, Snapshot

LEMMA SuInsertStep ==
    ASSUME SuInv, SuInsert
    PROVE  SuInv'
<1>1. /\ suscr.pc = "insert" /\ UNCHANGED <<suout, suoff, sud>>
      /\ suscr' = [suscr EXCEPT !.pc = "update", !.of = suscr.st, !.repair = FALSE]
      /\ \/ suarch' = Append(suarch, suscr.st) /\ UNCHANGED <<sufaults, sughost>>
         \/ SuFault /\ sughost' = [sughost EXCEPT !.noinsert = TRUE] /\ UNCHANGED suarch
  BY DEF SuInsert
<1>2. suscr \in ScrRec /\ suarch \in Seq(Snapshot) /\ suscr.st \in Snapshot
      /\ sughost \in [granted : Nat, mark : Nat, noinsert : BOOLEAN]
      /\ sufaults \in 0 .. SuMaxFaults
  BY DEF SuInv, SuTypes, ScrRec
<1>3. /\ suscr' \in ScrRec /\ suscr'.pc = "update" /\ suscr'.st = suscr.st
      /\ suscr'.of = suscr.st /\ ~suscr'.repair
  BY <1>1, <1>2 DEF ScrRec
<1>4. sughost'.granted = sughost.granted /\ sughost'.mark = sughost.mark
      /\ sughost' \in [granted : Nat, mark : Nat, noinsert : BOOLEAN]
  BY <1>1, <1>2
<1>5. Counted' /\ Leaked' = Leaked /\ MostOwed' = MostOwed
  BY <1>1, <1>4, ScraperLeaves
<1>6. \A s : Fits(s) => Fits(s)'
  BY <1>4, <1>5 DEF Fits
<1>7. CASE suarch' = Append(suarch, suscr.st) /\ UNCHANGED <<sufaults, sughost>>
  <2>1. /\ suarch' \in Seq(Snapshot) /\ Len(suarch') = Len(suarch) + 1 /\ Len(suarch) \in Nat
        /\ \A i \in 1 .. Len(suarch) : suarch'[i] = suarch[i]
        /\ suarch'[Len(suarch) + 1] = suscr.st
    BY <1>2, <1>7, AppendProperties, LenProperties
  <2>2. suarch' # << >>
    BY <2>1, EmptySeq
  <2>3. SuTypes'
    BY <1>1, <1>3, <1>7, <2>1 DEF SuInv, SuTypes
  <2>4. SnapshotsFit'
    <3>1. Fits(suscr.st)'
      BY <1>1, <1>6 DEF SuInv, SnapshotsFit, Fits
    <3>2. (\A i \in 1 .. Len(suarch) : Fits(suarch[i]))'
      <4> SUFFICES ASSUME NEW i \in 1 .. Len(suarch') PROVE Fits(suarch[i])'
        OBVIOUS
      <4>1. CASE i = Len(suarch) + 1
        <5>1. suarch'[i] = suscr.st /\ suscr'.st = suscr.st
          BY <1>3, <2>1, <4>1
        <5> QED
          BY <3>1, <5>1 DEF Fits
      <4>2. CASE i # Len(suarch) + 1
        <5>1. i \in 1 .. Len(suarch) /\ suarch'[i] = suarch[i]
          BY <2>1, <4>2
        <5>2. Fits(suarch[i])
          BY <5>1 DEF SuInv, SnapshotsFit
        <5> QED
          BY <5>1, <5>2, <1>4, <1>5 DEF Fits
      <4> QED
        BY <4>1, <4>2
    <3> QED
      BY <1>1, <1>3, <1>4, <1>5, <3>1, <3>2 DEF SuInv, SnapshotsFit, Fits
  <2>5. Latest' = suscr.st
    BY <2>1 DEF Latest
  <2>6. InOrder'
    <3>1. ~sughost.noinsert => sughost.mark <= suscr.st.granted
      <4>1. CASE suarch = << >>
        BY <4>1, <1>2, Numbers DEF SuInv, InOrder, Snapshot
      <4>2. CASE suarch # << >>
        <5>1. ~sughost.noinsert => sughost.mark <= Latest.granted /\ Latest.granted <= suscr.st.granted
          BY <1>1, <4>2 DEF SuInv, InOrder
        <5> QED
          <6>1. Latest.granted \in Nat /\ suscr.st.granted \in Nat /\ sughost.mark \in Nat
            BY <4>2, <1>2, Numbers, LatestFits DEF Snapshot
          <6> QED
            BY <5>1, <6>1
      <4> QED
        BY <4>1, <4>2
    <3> QED
      BY <1>3, <1>7, <2>2, <2>5, <3>1 DEF InOrder
  <2>7. OffsetIsArchived'
    <3>1. DOMAIN suarch = 1 .. Len(suarch) /\ DOMAIN suarch' = 1 .. Len(suarch')
      BY <1>2, <2>1, LenProperties
    <3>2. CASE \E i \in DOMAIN suarch : suarch[i].sum = suoff
      <4>1. PICK i \in 1 .. Len(suarch) : suarch[i].sum = suoff
        BY <3>1, <3>2
      <4>2. i \in DOMAIN suarch' /\ suarch'[i].sum = suoff'
        BY <1>1, <2>1, <3>1, <4>1
      <4> QED
        BY <4>2 DEF OffsetIsArchived
    <3> QED
      BY <1>1, <1>7, <3>2 DEF SuInv, OffsetIsArchived
  <2> QED
    BY <1>1, <1>5, <1>7, <2>3, <2>4, <2>6, <2>7 DEF SuInv, PeriodIsLimited
<1>8. CASE SuFault /\ sughost' = [sughost EXCEPT !.noinsert = TRUE] /\ UNCHANGED suarch
  <2>1. sufaults' \in 0 .. SuMaxFaults
    BY <1>2, <1>8, SuAssumption DEF SuFault
  <2>2. SuTypes'
    BY <1>1, <1>3, <1>4, <1>8, <2>1 DEF SuInv, SuTypes
  <2>3. SnapshotsFit'
    BY <1>1, <1>3, <1>4, <1>5, <1>8 DEF SuInv, SnapshotsFit, Fits
  <2>4. sughost'.noinsert
    BY <1>2, <1>8
  <2> QED
    BY <1>5, <2>2, <2>3, <2>4 DEF SuInv, InOrder, OffsetIsArchived, PeriodIsLimited
<1> QED
  BY <1>1, <1>7, <1>8

LEMMA SuUpdateStep ==
    ASSUME SuInv, SuUpdate
    PROVE  SuInv' /\ (~sughost.noinsert => sughost'.mark >= sughost.mark)
<1>1. suscr.pc = "update" /\ UNCHANGED <<suout, suarch, sud>>
  BY DEF SuUpdate
<1>2. suscr \in ScrRec /\ suscr.of \in Snapshot /\ sufaults \in 0 .. SuMaxFaults
      /\ sughost \in [granted : Nat, mark : Nat, noinsert : BOOLEAN]
  BY DEF SuInv, SuTypes, ScrRec
<1>3. CASE /\ suoff' = suscr.of.sum /\ sughost' = [sughost EXCEPT !.mark = suscr.of.granted]
           /\ suscr' = [suscr EXCEPT !.pc = "clean"] /\ UNCHANGED sufaults
  <2>1. /\ suscr' \in ScrRec /\ suscr'.pc = "clean" /\ suscr'.st = suscr.st /\ suscr'.of = suscr.of
        /\ suscr'.repair = suscr.repair
    BY <1>2, <1>3 DEF ScrRec
  <2>2. /\ sughost'.granted = sughost.granted /\ sughost'.mark = suscr.of.granted
        /\ sughost'.noinsert = sughost.noinsert
        /\ sughost' \in [granted : Nat, mark : Nat, noinsert : BOOLEAN]
    BY <1>2, <1>3 DEF Snapshot
  <2>3. Counted' /\ Leaked' = Leaked /\ MostOwed' = MostOwed
    BY <1>1, <2>2, ScraperLeaves
  <2>4. SuTypes'
    BY <1>1, <1>2, <1>3, <2>1, <2>2 DEF SuInv, SuTypes, Snapshot
  <2>5. SnapshotsFit'
    BY <1>1, <1>3, <2>1, <2>2, <2>3 DEF SuInv, SnapshotsFit, Fits
  <2>6. ~sughost.noinsert =>
           suarch # << >> /\ Latest.granted = suscr.of.granted /\ Latest.sum = suscr.of.sum
           /\ sughost.mark <= Latest.granted
    BY <1>1 DEF SuInv, InOrder
  <2>7. InOrder'
    <3>1. Latest' = Latest /\ (suarch' = << >>) = (suarch = << >>)
      BY <1>1 DEF Latest
    <3>2. Latest.granted <= Latest.granted \/ suarch = << >>
      BY LatestFits DEF Snapshot
    <3> QED
      BY <1>1, <2>1, <2>2, <2>6, <3>1, <3>2 DEF SuInv, InOrder
  <2>8. ~sughost.noinsert => sughost'.mark >= sughost.mark
    BY <2>2, <2>6, LatestFits, Numbers DEF Snapshot
  <2>9. OffsetIsArchived'
    <3>1. CASE ~sughost.noinsert
      <4>1. Len(suarch) \in DOMAIN suarch /\ suarch[Len(suarch)].sum = suoff'
        BY <1>3, <2>6, <3>1, LatestFits, LenProperties DEF Latest, SuInv, SuTypes
      <4> QED
        BY <1>1, <4>1 DEF OffsetIsArchived
    <3> QED
      BY <2>2, <3>1 DEF OffsetIsArchived
  <2>10. PeriodIsLimited'
    <3> SUFFICES ASSUME SuLimit # 0, ~sughost'.noinsert
                 PROVE  sughost'.granted - sughost'.mark <= SuLimit - 1 + MostOwed
      BY DEF PeriodIsLimited, MostOwed
    <3>1. sughost.granted - sughost.mark <= SuLimit - 1 + MostOwed
      BY <2>2 DEF SuInv, PeriodIsLimited, MostOwed
    <3> QED
      BY <2>2, <2>8, <3>1, Numbers, SuAssumption
  <2> QED
    BY <2>3, <2>4, <2>5, <2>7, <2>8, <2>9, <2>10 DEF SuInv
<1>4. CASE SuFault /\ suscr' = SuBack /\ UNCHANGED <<suoff, sughost>>
  <2>1. sufaults' \in 0 .. SuMaxFaults
    BY <1>2, <1>4, SuAssumption DEF SuFault
  <2> QED
    BY <1>1, <1>4, <2>1, BackRests, ScraperRests, Numbers
<1> QED
  BY <1>3, <1>4 DEF SuUpdate

LEMMA SuCleanStep ==
    ASSUME SuInv, SuClean
    PROVE  SuInv'
<1>1. suscr.pc = "clean" /\ suscr' = SuBack /\ UNCHANGED <<suout, suoff, sud, sughost>>
  BY DEF SuClean
<1>2. suscr \in ScrRec /\ suarch \in Seq(Snapshot) /\ sufaults \in 0 .. SuMaxFaults
  BY DEF SuInv, SuTypes
<1>3. CASE /\ suarch' = [i \in DOMAIN suarch |-> IF suarch[i] = suscr.of THEN [suarch[i] EXCEPT !.dirty = FALSE]
                                                 ELSE suarch[i]]
           /\ UNCHANGED sufaults
  <2>1. DOMAIN suarch = 1 .. Len(suarch) /\ Len(suarch) \in Nat
        /\ \A i \in 1 .. Len(suarch) : suarch[i] \in Snapshot
    BY <1>2, LenProperties, ElementOfSeq
  <2>2. \A i \in 1 .. Len(suarch) :
           suarch'[i] \in Snapshot /\ suarch'[i].sum = suarch[i].sum /\ suarch'[i].granted = suarch[i].granted
    BY <1>3, <2>1 DEF Snapshot
  <2>3. suarch' \in Seq(Snapshot) /\ Len(suarch') = Len(suarch)
    <3>1. suarch' = [i \in 1 .. Len(suarch) |-> suarch'[i]]
      BY <1>3, <2>1
    <3>2. [i \in 1 .. Len(suarch) |-> suarch'[i]] \in Seq(Snapshot)
      BY <2>1, <2>2, IsASeq
    <3> QED
      BY <2>1, <3>1, <3>2, LenProperties
  <2>4. (suarch' = << >>) = (suarch = << >>)
    BY <1>2, <2>3, EmptySeq, LenProperties
  <2>5. suarch # << >> => Latest'.sum = Latest.sum /\ Latest'.granted = Latest.granted
    BY <2>2, <2>3, LatestFits DEF Latest
  <2>6. \/ suscr' = SuOver
        \/ suscr.repair /\ suscr'.pc = "due" /\ suscr' \in ScrRec /\ suscr'.st = suscr.st
    BY <1>1, BackRests
  <2>7. SuOver \in ScrRec /\ SuOver.pc = "idle"
    BY DEF SuOver, ScrRec, NoSnapshot, Snapshot
  <2>8. Counted' /\ Leaked' = Leaked /\ MostOwed' = MostOwed
    BY <1>1, ScraperLeaves
  <2>9. SuTypes'
    BY <1>1, <1>3, <2>3, <2>6, <2>7 DEF SuInv, SuTypes
  <2>10. SnapshotsFit'
    <3>1. (\A i \in 1 .. Len(suarch) : Fits(suarch[i]))'
      <4> SUFFICES ASSUME NEW i \in 1 .. Len(suarch') PROVE Fits(suarch[i])'
        OBVIOUS
      <4>1. i \in 1 .. Len(suarch) /\ Fits(suarch[i])
        BY <2>3 DEF SuInv, SnapshotsFit
      <4>2. suarch'[i].sum = suarch[i].sum /\ suarch'[i].granted = suarch[i].granted
        BY <2>2, <4>1
      <4> QED
        BY <1>1, <2>8, <4>1, <4>2 DEF Fits
    <3>2. suscr'.pc # "idle" => Fits(suscr.st)'
      BY <1>1, <2>6, <2>7, <2>8 DEF SuInv, SnapshotsFit, Fits
    <3>3. suscr'.pc \notin {"update", "clean"}
      BY <2>6, <2>7
    <3>4. (sughost.mark <= sughost.granted /\ suoff - sughost.mark <= Leaked + MostOwed)'
      BY <1>1, <2>8 DEF SuInv, SnapshotsFit
    <3> QED
      BY <3>1, <3>2, <3>3, <3>4 DEF SnapshotsFit
  <2>11. InOrder'
    BY <1>1, <2>4, <2>5, <2>6, <2>7 DEF SuInv, InOrder
  <2>12. OffsetIsArchived'
    <3>1. CASE \E i \in DOMAIN suarch : suarch[i].sum = suoff
      <4>1. PICK i \in 1 .. Len(suarch) : suarch[i].sum = suoff
        BY <2>1, <3>1
      <4>2. i \in DOMAIN suarch' /\ suarch'[i].sum = suoff'
        BY <1>1, <1>3, <2>1, <2>2, <4>1
      <4> QED
        BY <4>2 DEF OffsetIsArchived
    <3> QED
      BY <1>1, <3>1 DEF SuInv, OffsetIsArchived
  <2> QED
    BY <1>1, <2>8, <2>9, <2>10, <2>11, <2>12 DEF SuInv, PeriodIsLimited
<1>4. CASE SuFault /\ UNCHANGED suarch
  <2>1. sufaults' \in 0 .. SuMaxFaults
    BY <1>2, <1>4, SuAssumption DEF SuFault
  <2> QED
    BY <1>1, <1>4, <2>1, BackRests, ScraperRests
<1> QED
  BY <1>3, <1>4 DEF SuClean

\* ... and all of them.  Only SuUpdate moves the mark.
LEMMA UsageStep ==
    ASSUME SuInv, [SuNext]_suVars
    PROVE  SuInv' /\ (~sughost.noinsert => sughost'.mark >= sughost.mark)
<1>0. sughost.mark \in Nat /\ suscr \in ScrRec /\ sufaults \in 0 .. SuMaxFaults
      /\ sughost \in [granted : Nat, mark : Nat, noinsert : BOOLEAN]
  BY DEF SuInv, SuTypes
<1>1. ASSUME NEW c \in SuConns, SuAcct(c) PROVE SuInv' /\ sughost'.mark = sughost.mark
  <2>1. PICK n \in 1 .. SuMaxSize : sughost' = sughost \/ sughost' = [sughost EXCEPT !.granted = @ + n]
    BY <1>1 DEF SuAcct
  <2>2. sughost'.mark = sughost.mark
    BY <1>0, <2>1
  <2> QED
    BY <1>1, <2>2, SuAcctStep
<1>2. ASSUME NEW c \in SuConns, SuUnacct(c) PROVE SuInv' /\ sughost'.mark = sughost.mark
  BY <1>2, SuUnacctStep DEF SuUnacct
<1>3. ASSUME NEW c \in SuConns, SuSent(c) PROVE SuInv' /\ sughost'.mark = sughost.mark
  BY <1>3, SuSentStep DEF SuSent
<1>4. CASE SuScrape
  BY <1>0, <1>4, SuScrapeStep DEF SuScrape
<1>5. CASE SuLast
  BY <1>0, <1>5, SuLastStep DEF SuLast
<1>6. CASE SuDue
  <2>1. \/ suscr' = SuOver
        \/ suscr' \in ScrRec /\ suscr'.pc = "insert" /\ suscr'.st = suscr.st
    BY <1>0, <1>6 DEF SuDue, ScrRec
  <2> QED
    BY <1>0, <1>6, <2>1, ScraperRests DEF SuDue
<1>7. CASE SuInsert
  BY <1>0, <1>7, SuInsertStep DEF SuInsert
<1>8. CASE SuUpdate
  BY <1>8, SuUpdateStep
<1>9. CASE SuClean
  BY <1>0, <1>9, SuCleanStep DEF SuClean
<1>10. CASE SuCrash
  <2>1. sufaults' \in 0 .. SuMaxFaults
    BY <1>0, <1>10, SuAssumption DEF SuCrash, SuFault
  <2> QED
    BY <1>0, <1>10, <2>1, ScraperRests DEF SuCrash
<1>11. CASE UNCHANGED suVars
  <2>1. Counted' /\ Leaked' = Leaked /\ MostOwed' = MostOwed
    BY <1>11, ScraperLeaves DEF suVars
  <2> QED
    BY <1>0, <1>11, <2>1 DEF suVars, SuInv, SuTypes, SnapshotsFit, Fits, InOrder, Latest, OffsetIsArchived,
       PeriodIsLimited
<1> QED
  BY <1>0, <1>1, <1>2, <1>3, <1>4, <1>5, <1>6, <1>7, <1>8, <1>9, <1>10, <1>11 DEF SuNext

LEMMA UsageInit == SuInit => SuInv
<1> SUFFICES ASSUME SuInit PROVE SuInv
  OBVIOUS
<1>1. \A d \in Doors : OwedOf(sud, d) = {}
  BY DEF SuInit, OwedOf, SuResting
<1>2. \A d \in Doors : Owes(d) = 0
  BY <1>1, FS_EmptySet DEF Owes
<1>3. SuSum = 0 /\ Leaked = 0
  BY <1>2 DEF SuInit, SuSum, Leaked, Doors
<1>4. MostOwed \in Nat
  BY OwedAtMost
<1>5. SuTypes
  BY SuAssumption, EmptySeq DEF SuInit, SuTypes, SuResting, SuOver, NoSnapshot, Snapshot, SudRec, ScrRec, Doors
<1>6. Counted
  BY <1>2, <1>3, SuAssumption DEF SuInit, Counted
<1>7. SnapshotsFit /\ InOrder
  <2>1. Len(suarch) = 0
    BY EmptySeq DEF SuInit
  <2> QED
    BY <1>3, <1>4, <2>1 DEF SuInit, SnapshotsFit, InOrder, SuOver
<1>8. PeriodIsLimited
  BY <1>4, SuAssumption DEF SuInit, PeriodIsLimited, MostOwed
<1> QED
  BY <1>5, <1>6, <1>7, <1>8 DEF SuInv, OffsetIsArchived, SuInit

LEMMA UsageInvHolds == SuSpec => []SuInv
  BY UsageInit, UsageStep, PTL DEF SuSpec

\* The types of the usage model (acct.go, scrapers/s3/main.go).
THEOREM UsageTypes == SuSpec => []SuTypeOK
<1>1. SuInv => SuTypeOK
  <2> SUFFICES ASSUME SuInv PROVE SuTypeOK
    OBVIOUS
  <2>1. \A d \in Doors : suout[d] \in 0 .. SuMaxBytes + SuMaxSize * Cardinality(SuConns)
    <3>1. SuSum <= SuMaxBytes /\ suout["api"] <= SuSum /\ suout["web"] <= SuSum
      BY Numbers DEF SuInv, Counted, SuSum
    <3>2. SuMaxSize * Cardinality(SuConns) \in Nat
      BY SuAssumption, FS_CardinalityType
    <3> QED
      BY <3>1, <3>2, Numbers, SuAssumption DEF Doors
  <2>2. \A i \in DOMAIN suarch : suarch[i] \in Snapshot
    BY ElementOfSeq, LenProperties DEF SuInv, SuTypes
  <2> QED
    BY <2>1, <2>2 DEF SuInv, SuTypes, SuTypeOK, SudRec, ScrRec
<1> QED
  BY <1>1, UsageInvHolds, PTL

\* What is limited is what is billed: the offset the limit counts from is the sum of
\* an archived snapshot, and the bytes granted since then are within the limit and
\* the sizes of the downloads that were undecided when it was read (acctDownload,
\* doArchPass).
THEOREM UsageIsSound == SuSpec => []UsageSound
<1>1. SuInv => UsageSound
  BY DEF SuInv, UsageSound
<1> QED
  BY <1>1, UsageInvHolds, PTL

\* A snapshot is never applied after a newer one, unless an insert into the archive
\* failed (getLastStats, updateStatsAfterArch).
THEOREM NewestStays == SuSpec => NewestSnapshotStays
<1>1. SuInv /\ [SuNext]_suVars => [~sughost.noinsert => sughost'.mark >= sughost.mark]_suVars
  BY UsageStep
<1> QED
  BY <1>1, UsageInvHolds, PTL DEF SuSpec, NewestSnapshotStays

-----------------------------------------------------------------------------
(* Access keys of the object store.  A key is there from when it was made  *)
(* until it is revoked, under a number nobody else has; its identity is    *)
(* made before it and goes before it, and has the one policy the key was   *)
(* given out for, so what a request found is what its handler asks.        *)

SkLabels == {"idle", "g_list", "g_match", "g_iam", "g_key", "g_unkey", "g_unacc",
             "d_iam", "d_key", "c_iam", "c_key", "r_iam", "r_act", "did"}
SkGens == {"g_list", "g_match", "g_iam", "g_key", "g_unkey", "g_unacc"}
SkDels == {"d_iam", "d_key", "c_iam", "c_key"}
SkReqs == {"r_iam", "r_act", "did"}
SkNumber == 0 .. SkMaxOps
SkKeyRec == [acc : SkNumber, iam : SkNumber, endless : BOOLEAN, expired : BOOLEAN]
SkIamRec == [acc : SkNumber, pol : SkPolicies \cup {SkNoPolicy}]
SkwRec == [pc : SkLabels, pol : SkPolicies \cup {SkNoPolicy}, endless : BOOLEAN, acc : SkNumber,
           iam : SkNumber, key : SkNumber, keys : SUBSET SkIds, bkt : SkBuckets \cup {SkAny},
           act : SkDeeds \cup {"none"}, bad : BOOLEAN]
SkGhostRec == [asked : [SkIds -> SUBSET SkPolicies], revoked : SUBSET SkIds,
               hurt : SUBSET SkIds, left : SUBSET SkIds]
SkTypes ==
    /\ skacc \in SkNumber /\ skweb \subseteq SkBuckets /\ skops \in SkNumber /\ skfaults \in 0 .. SkMaxFaults
    /\ skiam \in [SkIds -> SkIamRec] /\ skkey \in [SkIds -> SkKeyRec]
    /\ skw \in [SkWorkers -> SkwRec] /\ skghost \in SkGhostRec

\* keys that were ever made
SkMade == {k \in SkIds : skghost.asked[k] # {}}

\* A key is there from when it was made until it is revoked, under its own number,
\* and in the account unless its account was lost.
KeysFit ==
    /\ \A k \in SkIds : skkey[k].acc # 0 <=> k \in SkMade \ skghost.revoked
    /\ \A k \in SkMade : k <= skops
    /\ skghost.revoked \subseteq SkMade
    /\ \A k \in SkKeys : skkey[k].iam = k /\ (k \notin skghost.hurt => skkey[k].acc = skacc)
    /\ \A k \in SkIds : skkey[k].acc = 0 => skkey[k].iam = 0

\* The identity of a key has the policy the key was given out for, and goes first.
IamsFit ==
    /\ \A i \in SkIams : /\ skghost.asked[i] \subseteq {skiam[i].pol} /\ skiam[i].pol \in SkPolicies
                         /\ i <= skops
    /\ \A k \in SkMade : k \notin skghost.revoked \cup skghost.hurt \cup SkGoing => k \in SkIams

\* A generation has a number nobody else has, a removal and a request a key that was
\* made.
WorkerFits(r) ==
    /\ ~r.bad
    /\ r.keys \subseteq SkMade
    /\ r.key # 0 => r.key \in SkMade
    /\ r.pc \in SkGens => /\ r.iam \in (1 .. skops) \ SkMade /\ r.key = 0 /\ r.acc # 0 /\ r.pol \in SkPolicies
    /\ r.pc \in {"g_list", "g_match", "g_iam"} => r.iam \notin SkIams
    /\ r.pc = "g_key" => r.iam \in SkIams /\ skiam[r.iam].pol = r.pol
    /\ r.pc = "g_unacc" /\ r.iam \in SkIams => r.iam \in skghost.left
    /\ r.pc \in SkDels => r.key # 0
    /\ r.pc \in {"c_iam", "c_key"} => skkey[r.key].expired \/ r.key \in skghost.revoked
    /\ r.pc \in {"d_key", "c_key"} /\ r.key \in SkIams => r.key \in skghost.left
    /\ r.pc \in {"r_iam", "r_act"} => r.key # 0 /\ r.iam = r.key
    /\ r.pc \in {"r_act", "did"} /\ r.key # 0 =>
          /\ skghost.asked[r.key] \subseteq {r.pol} /\ r.pol \in SkPolicies
          /\ r.key \in SkIams => skiam[r.key].pol = r.pol
    /\ r.pc = "did" /\ r.key # 0 => r.act \in SkDeeds /\ (SkBucketReq(r.pol, r.act, r.bkt) \/ SkObjectReq(r.pol, r.act, r.bkt))
WorkersFit ==
    /\ \A w \in SkWorkers : WorkerFits(skw[w])
    /\ \A v, w \in SkWorkers : skw[v].pc \in SkGens /\ skw[w].pc \in SkGens /\ skw[v].iam = skw[w].iam => v = w

SkInv == SkTypes /\ KeysFit /\ IamsFit /\ WorkersFit /\ NoStrayIam
-----------------------------------------------------------------------------
LEMMA KeyNumbers ==
    ASSUME SkTypes
    PROVE  /\ SkMaxOps \in Nat /\ SkMaxFaults \in Nat /\ skops \in 0 .. SkMaxOps
           /\ \A i \in SkIds : i \in Nat /\ i # 0 /\ i \in SkNumber
           /\ SkResting \in SkwRec /\ SkNoKey \in SkKeyRec /\ SkNoIam \in SkIamRec
           /\ SkMade \subseteq SkIds /\ SkKeys \subseteq SkIds /\ SkIams \subseteq SkIds
           /\ skiam \in [SkIds -> SkIamRec] /\ skkey \in [SkIds -> SkKeyRec] /\ skw \in [SkWorkers -> SkwRec]
           /\ \A i \in SkIds : skiam[i] \in SkIamRec /\ skkey[i] \in SkKeyRec
<1>1. SkMaxOps \in Nat /\ SkMaxFaults \in Nat
  BY SkAssumption
<1>2. skops \in 0 .. SkMaxOps /\ \A i \in SkIds : i \in Nat /\ i # 0 /\ i \in SkNumber
  BY <1>1 DEF SkTypes, SkNumber, SkIds
<1>3. SkResting \in SkwRec
  BY <1>1 DEF SkResting, SkwRec, SkLabels, SkNumber
<1>4. SkNoKey \in SkKeyRec /\ SkNoIam \in SkIamRec
  BY <1>1 DEF SkNoKey, SkKeyRec, SkNoIam, SkIamRec, SkNumber
<1>5. SkMade \subseteq SkIds /\ SkKeys \subseteq SkIds /\ SkIams \subseteq SkIds
  BY DEF SkMade, SkKeys, SkIams
<1>6. skiam \in [SkIds -> SkIamRec] /\ skkey \in [SkIds -> SkKeyRec] /\ skw \in [SkWorkers -> SkwRec]
  BY DEF SkTypes
<1> QED
  BY <1>1, <1>2, <1>3, <1>4, <1>5, <1>6

\* What a handler may be when its step left the keys and the identities alone.
LEMMA HandlerMoves ==
    ASSUME SkInv, NEW w \in SkWorkers, NEW r \in SkwRec, skw' = [skw EXCEPT ![w] = r],
           skops' \in {skops, skops + 1}, skops' \in SkNumber, skfaults' \in 0 .. SkMaxFaults,
           skweb' \subseteq SkBuckets, skacc' \in SkNumber, UNCHANGED <<skiam, skkey, skghost>>,
           \A k \in SkKeys : k \notin skghost.hurt => skkey[k].acc = skacc',
           WorkerFits(r)',
           r.pc \in SkGens => \/ skw[w].pc \in SkGens /\ r.iam = skw[w].iam
                              \/ r.iam = skops + 1,
           skw[w].pc \in SkDels => r.pc \in SkDels /\ r.key = skw[w].key,
           skw[w].pc \in {"g_key", "g_unkey"} /\ skw[w].iam \in SkIams =>
               \/ r.pc \in {"g_key", "g_unkey"} /\ r.iam = skw[w].iam
               \/ skw[w].iam \in skghost.left
    PROVE  SkInv'
<1>0. SkTypes /\ KeysFit /\ IamsFit /\ WorkersFit /\ NoStrayIam /\ SkTypes'
  BY DEF SkInv, SkTypes
<1>1. /\ skops \in Nat /\ skops <= skops' /\ SkMade' = SkMade /\ SkKeys' = SkKeys /\ SkIams' = SkIams
      /\ SkMade \subseteq Nat
  BY <1>0, KeyNumbers DEF SkMade, SkKeys, SkIams
<1>2. \A v \in SkWorkers : v # w => skw'[v] = skw[v]
  BY <1>0, KeyNumbers
<1>3. skw'[w] = r
  BY <1>0, KeyNumbers
<1>4. KeysFit'
  BY <1>0, <1>1 DEF KeysFit
<1>5. SkGoing \subseteq SkGoing'
  BY <1>2, <1>3 DEF SkGoing, SkDels
<1>6. IamsFit'
  BY <1>0, <1>1, <1>5 DEF IamsFit, SkIams, SkIds
<1>7. WorkersFit'
  <2>1. ASSUME NEW v \in SkWorkers, v # w PROVE WorkerFits(skw[v])'
    <3>1. WorkerFits(skw[v]) /\ skw'[v] = skw[v]
      BY <1>0, <1>2, <2>1 DEF WorkersFit
    <3>2. 1 .. skops \subseteq 1 .. skops'
      BY <1>0, <1>1, KeyNumbers
    <3>3. QED
      BY <3>1, <3>2, <1>1 DEF WorkerFits
  <2>2. \A v \in SkWorkers : WorkerFits(skw[v])'
    BY <1>3, <2>1
  <2>3. ASSUME NEW v \in SkWorkers, v # w, skw[v].pc \in SkGens, r.pc \in SkGens, skw[v].iam = r.iam
        PROVE  FALSE
    <3>1. skw[v].iam \in 1 .. skops
      BY <1>0, <2>3 DEF WorkersFit, WorkerFits
    <3>2. CASE skw[w].pc \in SkGens /\ r.iam = skw[w].iam
      BY <1>0, <2>3, <3>2 DEF WorkersFit
    <3>3. CASE r.iam = skops + 1
      BY <1>1, <2>3, <3>1, <3>3
    <3> QED
      BY <2>3, <3>2, <3>3
  <2>4. \A u, v \in SkWorkers : skw'[u].pc \in SkGens /\ skw'[v].pc \in SkGens /\ skw'[u].iam = skw'[v].iam => u = v
    BY <1>0, <1>2, <1>3, <2>3 DEF WorkersFit
  <2> QED
    BY <2>2, <2>4 DEF WorkersFit
<1>8. NoStrayIam'
  <2> SUFFICES ASSUME NEW i \in SkIams, i \notin skghost.left, i \notin SkKeys
               PROVE  \E v \in SkWorkers : skw'[v].iam = i /\ skw'[v].pc \in {"g_key", "g_unkey"}
    BY <1>1 DEF NoStrayIam
  <2>1. PICK v \in SkWorkers : skw[v].iam = i /\ skw[v].pc \in {"g_key", "g_unkey"}
    BY <1>0 DEF NoStrayIam
  <2> QED
    BY <1>2, <1>3, <2>1
<1> QED
  BY <1>0, <1>4, <1>6, <1>7, <1>8 DEF SkInv

\* A handler that ends is as if it had never been.
LEMMA RestFits == SkTypes => SkResting \in SkwRec /\ WorkerFits(SkResting)
  BY KeyNumbers DEF WorkerFits, SkResting, SkGens, SkDels, SkNumber

LEMMA GenStarts == ASSUME SkInv, NEW w \in SkWorkers, SkGen(w) PROVE SkInv'
<1>0. /\ SkTypes /\ KeysFit /\ WorkersFit /\ skw[w].pc = "idle"
      /\ skops' = skops + 1 /\ skops < SkMaxOps
      /\ UNCHANGED <<skiam, skkey, skweb, skfaults, skghost>>
  BY DEF SkInv, SkGen, SkStart
<1>1. skops \in Nat /\ skops' \in SkNumber /\ skops + 1 \in SkIds /\ SkMaxOps \in Nat
      /\ skfaults \in 0 .. SkMaxFaults /\ skweb \subseteq SkBuckets
  BY <1>0, KeyNumbers DEF SkNumber, SkIds, SkTypes
<1>2. PICK p \in SkPolicies, e \in BOOLEAN :
        /\ skw' = [skw EXCEPT ![w] = [SkResting EXCEPT !.pc = IF e THEN "g_list" ELSE "g_iam", !.pol = p,
                              !.endless = e, !.acc = skacc', !.iam = skops + 1]]
        /\ skacc' = IF skacc # 0 THEN skacc ELSE skops + 1
  BY DEF SkGen, SkStart
<1>3. skacc' \in SkNumber /\ skacc' # 0
  BY <1>0, <1>1, <1>2 DEF SkTypes, SkNumber
<1>4. PICK r : r = [SkResting EXCEPT !.pc = IF e THEN "g_list" ELSE "g_iam", !.pol = p,
                              !.endless = e, !.acc = skacc', !.iam = skops + 1]
  OBVIOUS
<1>5. /\ r \in SkwRec /\ r.pc \in {"g_list", "g_iam"} /\ r.pol = p /\ r.acc = skacc' /\ r.iam = skops + 1
      /\ r.key = 0 /\ r.keys = {} /\ ~r.bad
  <2>1. SkResting \in SkwRec /\ skops + 1 \in SkNumber
    BY <1>0, <1>1, KeyNumbers DEF SkNumber
  <2>2. (IF e THEN "g_list" ELSE "g_iam") \in {"g_list", "g_iam"}
    OBVIOUS
  <2>3. r \in SkwRec
    BY <1>3, <1>4, <2>1, <2>2 DEF SkwRec, SkLabels
  <2> QED
    BY <1>4, <2>2, <2>3 DEF SkResting
<1>6. skops + 1 \notin SkMade /\ skops + 1 \notin SkIams
  <2>1. \A k \in SkMade \cup SkIams : k \in Nat /\ k <= skops
    BY <1>0, KeyNumbers DEF SkInv, KeysFit, IamsFit
  <2> QED
    BY <1>1, <2>1
<1>7. \A k \in SkKeys : k \notin skghost.hurt => skkey[k].acc = skacc'
  <2>1. \A k \in SkKeys : skkey[k].acc # 0 /\ (k \notin skghost.hurt => skkey[k].acc = skacc)
    BY <1>0 DEF KeysFit, SkKeys
  <2> QED
    BY <1>2, <2>1
<1>8. SkMade' = SkMade /\ SkIams' = SkIams /\ skops + 1 \in 1 .. skops'
  BY <1>0, <1>1 DEF SkMade, SkIams
<1>9. WorkerFits(r)'
  BY <1>3, <1>5, <1>6, <1>8 DEF WorkerFits, SkGens, SkDels
<1>10. skw[w].pc \notin SkDels /\ skw[w].pc \notin {"g_key", "g_unkey"}
  BY <1>0 DEF SkDels
<1> QED
  BY <1>0, <1>1, <1>2, <1>3, <1>4, <1>5, <1>7, <1>9, <1>10, HandlerMoves

\* Steps of a generation that change no record.
LEMMA GenGoes ==
    ASSUME SkInv, NEW w \in SkWorkers, NEW r \in SkwRec, skw' = [skw EXCEPT ![w] = r],
           skw[w].pc \in SkGens, r.pc \in SkGens, r.iam = skw[w].iam, r.acc = skw[w].acc, r.pol = skw[w].pol,
           r.key = 0, ~r.bad, r.keys \subseteq SkMade,
           r.pc \in {"g_list", "g_match", "g_iam"} => skw[w].pc \in {"g_list", "g_match", "g_iam"},
           r.pc = "g_key" => skw[w].pc = "g_key", skw[w].pc = "g_key" => r.pc \in {"g_key", "g_unkey"},
           skw[w].pc = "g_unkey" => r.pc = "g_unkey",
           r.pc = "g_unacc" => skw[w].pc \in {"g_list", "g_match", "g_iam", "g_unacc"},
           skfaults' \in 0 .. SkMaxFaults, UNCHANGED <<skacc, skiam, skkey, skweb, skops, skghost>>
    PROVE  SkInv'
<1>0. SkTypes /\ KeysFit /\ WorkersFit /\ skops' \in SkNumber /\ skweb' \subseteq SkBuckets /\ skacc' \in SkNumber
  BY DEF SkInv, SkTypes
<1>1. WorkerFits(skw[w])
  BY <1>0 DEF WorkersFit
<1>2. SkMade' = SkMade /\ SkIams' = SkIams
  BY DEF SkMade, SkIams
<1>3. WorkerFits(r)'
  BY <1>1, <1>2 DEF WorkerFits, SkGens, SkDels
<1>4. \A k \in SkKeys : k \notin skghost.hurt => skkey[k].acc = skacc'
  BY <1>0 DEF KeysFit
<1>5. skw[w].pc \notin SkDels
  BY DEF SkDels, SkGens
<1> QED
  BY <1>0, <1>3, <1>4, <1>5, HandlerMoves

LEMMA SkFaultFits == ASSUME SkTypes, SkFault \/ SkFine PROVE skfaults' \in 0 .. SkMaxFaults
  BY KeyNumbers DEF SkTypes, SkFault, SkFine

LEMMA GenLists == ASSUME SkInv, NEW w \in SkWorkers, SkGenList(w) PROVE SkInv'
<1>0. /\ SkTypes /\ KeysFit /\ WorkersFit /\ skw[w].pc = "g_list" /\ skw[w] \in SkwRec /\ WorkerFits(skw[w])
      /\ UNCHANGED <<skacc, skiam, skkey, skweb, skops, skghost>> /\ skfaults' \in 0 .. SkMaxFaults
  <2>1. SkTypes /\ KeysFit /\ WorkersFit
    BY DEF SkInv
  <2> QED
    BY <2>1, KeyNumbers, SkFaultFits DEF SkGenList, WorkersFit
<1>1. SkKeys \subseteq SkMade
  BY <1>0 DEF KeysFit, SkKeys
<1>2. PICK r \in SkwRec :
        /\ skw' = [skw EXCEPT ![w] = r]
        /\ r.pc \in {"g_match", "g_iam"} /\ r.iam = skw[w].iam /\ r.acc = skw[w].acc /\ r.pol = skw[w].pol
        /\ r.key = skw[w].key /\ r.bad = skw[w].bad /\ r.keys \subseteq SkMade
  <2>1. CASE skw' = [skw EXCEPT ![w].pc = "g_match",
                      ![w].keys = {k \in SkKeys : skkey[k].endless /\ skkey[k].acc = skw[w].acc}]
    <3>1. PICK s : s = {k \in SkKeys : skkey[k].endless /\ skkey[k].acc = skw[w].acc}
      OBVIOUS
    <3>2. s \subseteq SkMade /\ s \in SUBSET SkIds
      BY <1>1, <3>1 DEF SkMade
    <3>3. [skw[w] EXCEPT !.pc = "g_match", !.keys = s] \in SkwRec
      BY <1>0, <3>2 DEF SkwRec, SkLabels
    <3>4. skw' = [skw EXCEPT ![w] = [skw[w] EXCEPT !.pc = "g_match", !.keys = s]]
      BY <1>0, <2>1, <3>1, KeyNumbers
    <3> QED
      BY <1>0, <3>2, <3>3, <3>4 DEF SkwRec
  <2>2. CASE SkGoes(w, "g_iam")
    <3>1. [skw[w] EXCEPT !.pc = "g_iam"] \in SkwRec
      BY <1>0 DEF SkwRec, SkLabels
    <3>2. skw' = [skw EXCEPT ![w] = [skw[w] EXCEPT !.pc = "g_iam"]]
      BY <1>0, <2>2, KeyNumbers DEF SkGoes
    <3>3. skw[w].keys \subseteq SkMade
      BY <1>0 DEF WorkerFits
    <3> QED
      BY <1>0, <3>1, <3>2, <3>3 DEF SkwRec
  <2> QED
    BY <2>1, <2>2 DEF SkGenList
<1>3. skw[w].key = 0 /\ ~skw[w].bad /\ skw[w].pc \in SkGens /\ r.pc \in SkGens
  BY <1>0, <1>2 DEF WorkerFits, SkGens
<1> QED
  BY <1>0, <1>2, <1>3, GenGoes

\* getEndlessKey gives a key out again: its identity has the policy asked for.
LEMMA GenGives ==
    ASSUME SkInv, NEW w \in SkWorkers, SkGenMatch(w), NEW g \in SkMade, SkEnds(w), skghost' = SkGive(w, g),
           g \in SkIams, skiam[g].pol = skw[w].pol
    PROVE  SkInv'
<1>0. /\ SkTypes /\ KeysFit /\ IamsFit /\ WorkersFit /\ NoStrayIam /\ skw[w].pc = "g_match" /\ skw[w] \in SkwRec
      /\ UNCHANGED <<skacc, skiam, skkey, skweb, skops, skfaults>> /\ g \in SkIds
  <2>1. SkTypes /\ KeysFit /\ IamsFit /\ WorkersFit /\ NoStrayIam
    BY DEF SkInv
  <2> QED
    BY <2>1, KeyNumbers DEF SkGenMatch
<1>1. PICK p : p = skw[w].pol
  OBVIOUS
<1>2. /\ skghost'.asked = [skghost.asked EXCEPT ![g] = @ \cup {p}] /\ skghost'.revoked = skghost.revoked
      /\ skghost'.left = skghost.left /\ skghost.hurt \subseteq skghost'.hurt /\ skghost'.hurt \subseteq skghost.hurt \cup {g}
      /\ skghost' \in [asked : {skghost'.asked}, revoked : {skghost.revoked}, hurt : {skghost'.hurt}, left : {skghost.left}]
  BY <1>0, <1>1 DEF SkGive, SkTypes, SkGhostRec
<1>3. p \in SkPolicies /\ p = skiam[g].pol /\ skghost.asked[g] \subseteq {p} /\ skghost.asked[g] # {}
  BY <1>0, <1>1 DEF WorkersFit, WorkerFits, SkGens, IamsFit, SkMade
<1>4. skghost'.asked[g] = skghost.asked[g]
  <2>1. skghost.asked[g] \cup {p} = skghost.asked[g]
    BY <1>3
  <2>2. skghost.asked \in [SkIds -> SUBSET SkPolicies]
    BY <1>0 DEF SkTypes, SkGhostRec
  <2>3. [skghost.asked EXCEPT ![g] = @ \cup {p}][g] = skghost.asked[g] \cup {p}
    BY <1>0, <2>2
  <2> QED
    BY <1>2, <2>1, <2>3
<1>5. skghost'.asked = skghost.asked
  BY <1>0, <1>2, <1>4 DEF SkTypes, SkGhostRec
<1>6. SkMade' = SkMade /\ SkKeys' = SkKeys /\ SkIams' = SkIams
  BY <1>0, <1>5 DEF SkMade, SkKeys, SkIams
<1>7. SkTypes'
  <2>1. skghost' \in SkGhostRec
    BY <1>0, <1>2, <1>5 DEF SkTypes, SkGhostRec
  <2>2. skw' \in [SkWorkers -> SkwRec]
    BY <1>0, KeyNumbers DEF SkEnds
  <2> QED
    BY <1>0, <2>1, <2>2 DEF SkTypes
<1>8. skw'[w] = SkResting /\ \A v \in SkWorkers : v # w => skw'[v] = skw[v]
  BY <1>0, KeyNumbers DEF SkEnds
<1>9. KeysFit'
  BY <1>0, <1>2, <1>6 DEF KeysFit
<1>10. SkGoing \subseteq SkGoing'
  BY <1>0, <1>8 DEF SkGoing
<1>11. IamsFit'
  BY <1>0, <1>2, <1>5, <1>6, <1>10 DEF IamsFit
<1>12. \A v \in SkWorkers : WorkerFits(skw[v]) => WorkerFits(skw[v]) /\ (v # w => WorkerFits(skw[v])')
  BY <1>0, <1>2, <1>5, <1>6, <1>8 DEF WorkerFits
<1>13. WorkerFits(skw[w])'
  BY <1>8 DEF WorkerFits, SkResting, SkGens, SkDels
<1>14. WorkersFit'
  <2>1. \A v \in SkWorkers : WorkerFits(skw[v])'
    BY <1>0, <1>12, <1>13 DEF WorkersFit
  <2>2. skw'[w].pc \notin SkGens
    BY <1>8 DEF SkResting, SkGens
  <2> QED
    BY <1>0, <1>8, <2>1, <2>2 DEF WorkersFit
<1>15. NoStrayIam'
  BY <1>0, <1>2, <1>6, <1>8 DEF NoStrayIam
<1> QED
  BY <1>7, <1>9, <1>11, <1>14, <1>15 DEF SkInv

LEMMA GenMatches == ASSUME SkInv, NEW w \in SkWorkers, SkGenMatch(w) PROVE SkInv'
<1>0. /\ SkTypes /\ KeysFit /\ WorkersFit /\ skw[w].pc = "g_match" /\ skw[w] \in SkwRec /\ WorkerFits(skw[w])
      /\ UNCHANGED <<skacc, skiam, skkey, skweb, skops, skfaults>>
  <2>1. SkTypes /\ KeysFit /\ WorkersFit
    BY DEF SkInv
  <2> QED
    BY <2>1, KeyNumbers DEF SkGenMatch, WorkersFit
<1>1. CASE skw' = [skw EXCEPT ![w].pc = "g_iam", ![w].keys = {}] /\ UNCHANGED skghost
  <2>1. PICK r : r = [skw[w] EXCEPT !.pc = "g_iam", !.keys = {}]
    OBVIOUS
  <2>2. r \in SkwRec /\ r.pc = "g_iam" /\ r.iam = skw[w].iam /\ r.acc = skw[w].acc /\ r.pol = skw[w].pol
        /\ r.key = skw[w].key /\ r.bad = skw[w].bad /\ r.keys = {}
    BY <1>0, <2>1 DEF SkwRec, SkLabels
  <2>3. skw' = [skw EXCEPT ![w] = r]
    BY <1>0, <1>1, <2>1, KeyNumbers
  <2>4. skw[w].key = 0 /\ ~skw[w].bad /\ skw[w].pc \in SkGens /\ r.pc \in SkGens
    BY <1>0, <2>2 DEF WorkerFits, SkGens
  <2>5. skfaults' \in 0 .. SkMaxFaults
    BY <1>0 DEF SkTypes
  <2> QED
    BY <1>0, <1>1, <2>2, <2>3, <2>4, <2>5, GenGoes
<1>2. ASSUME NEW g \in skw[w].keys, \E i \in SkIams : i = g /\ skiam[i].pol = skw[w].pol,
             SkEnds(w), skghost' = SkGive(w, g)
      PROVE  SkInv'
  <2>1. g \in SkMade
    BY <1>0, <1>2 DEF WorkerFits
  <2> QED
    BY <1>2, <2>1, GenGives
<1> QED
  BY <1>1, <1>2 DEF SkGenMatch

\* The identity of a generation is made.
LEMMA GenIams == ASSUME SkInv, NEW w \in SkWorkers, SkGenIam(w) PROVE SkInv'
<1>0. /\ SkTypes /\ KeysFit /\ IamsFit /\ WorkersFit /\ NoStrayIam /\ skw[w].pc = "g_iam" /\ skw[w] \in SkwRec
      /\ WorkerFits(skw[w]) /\ skfaults' \in 0 .. SkMaxFaults
      /\ UNCHANGED <<skacc, skkey, skweb, skops, skghost>>
  <2>1. SkTypes /\ KeysFit /\ IamsFit /\ WorkersFit /\ NoStrayIam
    BY DEF SkInv
  <2> QED
    BY <2>1, KeyNumbers, SkFaultFits DEF SkGenIam, WorkersFit
<1>1. skw[w].iam \in (1 .. skops) \ SkMade /\ skw[w].key = 0 /\ skw[w].acc # 0 /\ skw[w].pol \in SkPolicies
      /\ skw[w].iam \notin SkIams /\ ~skw[w].bad /\ skw[w].keys \subseteq SkMade /\ skw[w].acc \in SkNumber
      /\ skw[w].iam \in SkIds
  <2>1. skw[w].iam \in 1 .. skops
    BY <1>0 DEF WorkerFits, SkGens
  <2>2. skw[w].iam \in SkIds
    BY <1>0, <2>1, KeyNumbers DEF SkIds
  <2> QED
    BY <1>0, <2>1, <2>2 DEF WorkerFits, SkGens, SkwRec
<1>2. CASE SkGoes(w, "g_unacc") /\ UNCHANGED skiam
  <2>1. PICK r : r = [skw[w] EXCEPT !.pc = "g_unacc"]
    OBVIOUS
  <2>2. r \in SkwRec /\ r.pc = "g_unacc" /\ r.iam = skw[w].iam /\ r.acc = skw[w].acc /\ r.pol = skw[w].pol
        /\ r.key = skw[w].key /\ r.bad = skw[w].bad /\ r.keys = skw[w].keys
    BY <1>0, <2>1 DEF SkwRec, SkLabels
  <2>3. skw' = [skw EXCEPT ![w] = r]
    BY <1>0, <1>2, <2>1, KeyNumbers DEF SkGoes
  <2>4. skw[w].pc \in SkGens /\ r.pc \in SkGens
    BY <1>0, <2>2 DEF SkGens
  <2> QED
    BY <1>0, <1>1, <1>2, <2>2, <2>3, <2>4, GenGoes
<1>3. CASE /\ skiam' = [skiam EXCEPT ![skw[w].iam] = [acc |-> skw[w].acc, pol |-> skw[w].pol]]
           /\ SkGoes(w, "g_key")
  <2>1. PICK i, r : i = skw[w].iam /\ r = [skw[w] EXCEPT !.pc = "g_key"]
    OBVIOUS
  <2>2. r \in SkwRec /\ r.pc = "g_key" /\ r.iam = i /\ r.acc = skw[w].acc /\ r.pol = skw[w].pol
        /\ r.key = 0 /\ ~r.bad /\ r.keys = skw[w].keys
    BY <1>0, <1>1, <2>1 DEF SkwRec, SkLabels
  <2>3. skw'[w] = r /\ \A v \in SkWorkers : v # w => skw'[v] = skw[v]
    BY <1>0, <1>3, <2>1, KeyNumbers DEF SkGoes
  <2>4. i \in SkIds /\ i \in 1 .. skops /\ i \notin SkMade /\ i \notin SkIams
    BY <1>1, <2>1
  <2>5. skiam'[i].pol = skw[w].pol /\ skiam'[i].acc # 0 /\ (\A j \in SkIds : j # i => skiam'[j] = skiam[j])
        /\ skiam' \in [SkIds -> SkIamRec]
    <3>1. [acc |-> skw[w].acc, pol |-> skw[w].pol] \in SkIamRec
      BY <1>1 DEF SkIamRec
    <3> QED
      BY <1>0, <1>1, <1>3, <2>1, <3>1, KeyNumbers
  <2>6. SkMade' = SkMade /\ SkKeys' = SkKeys /\ SkIams' = SkIams \cup {i}
    BY <1>0, <2>4, <2>5 DEF SkMade, SkKeys, SkIams
  <2>7. SkTypes'
    <3>1. skw' \in [SkWorkers -> SkwRec]
      BY <1>0, <1>3, <2>1, <2>2, KeyNumbers DEF SkGoes
    <3> QED
      BY <1>0, <2>5, <3>1 DEF SkTypes
  <2>8. KeysFit'
    BY <1>0, <2>6 DEF KeysFit
  <2>9. SkGoing' = SkGoing
    <3>1. \A v \in SkWorkers : skw'[v].key = skw[v].key /\ (skw'[v].pc \in SkDels <=> skw[v].pc \in SkDels)
      BY <1>0, <1>1, <2>2, <2>3 DEF SkDels
    <3> QED
      BY <3>1 DEF SkGoing, SkDels
  <2>10. IamsFit'
    <3>1. skghost.asked[i] = {}
      BY <2>4 DEF SkMade
    <3>2. skiam'[i].pol \in SkPolicies /\ i <= skops
      BY <1>0, <1>1, <2>4, <2>5, KeyNumbers
    <3>3. \A j \in SkIams : j # i /\ skiam'[j] = skiam[j]
      BY <2>4, <2>5 DEF SkIams
    <3> QED
      BY <1>0, <2>6, <2>9, <3>1, <3>2, <3>3 DEF IamsFit
  <2>11. WorkersFit'
    <3>1. ASSUME NEW v \in SkWorkers, v # w PROVE WorkerFits(skw[v])'
      <4>1. WorkerFits(skw[v]) /\ skw'[v] = skw[v] /\ (skw[v].pc \in SkGens => skw[v].iam # i)
        BY <1>0, <2>1, <2>3, <3>1 DEF WorkersFit, SkGens
      <4>2. skw[v].key # i
        BY <2>4, <4>1, KeyNumbers, <1>0 DEF WorkerFits
      <4>3. \A j \in SkIams' : j # i => j \in SkIams /\ skiam'[j] = skiam[j]
        BY <2>5, <2>6 DEF SkIams
      <4> QED
        BY <1>0, <2>6, <4>1, <4>2, <4>3 DEF WorkerFits, SkGens
    <3>2. WorkerFits(r)'
      BY <1>0, <1>1, <2>1, <2>2, <2>4, <2>5, <2>6 DEF WorkerFits, SkGens, SkDels
    <3>3. \A v \in SkWorkers : WorkerFits(skw[v])'
      BY <2>3, <3>1, <3>2
    <3>4. \A v \in SkWorkers : skw'[v].iam = skw[v].iam /\ (skw'[v].pc \in SkGens <=> skw[v].pc \in SkGens)
      BY <1>0, <2>1, <2>2, <2>3 DEF SkGens
    <3> QED
      BY <1>0, <3>3, <3>4 DEF WorkersFit
  <2>12. NoStrayIam'
    <3>1. \A v \in SkWorkers : skw[v].pc \in {"g_key", "g_unkey"} => v # w
      BY <1>0
    <3>2. ASSUME NEW j \in SkIams, j \notin skghost.left, j \notin SkKeys
          PROVE  \E v \in SkWorkers : skw'[v].iam = j /\ skw'[v].pc \in {"g_key", "g_unkey"}
      <4>1. PICK v \in SkWorkers : skw[v].iam = j /\ skw[v].pc \in {"g_key", "g_unkey"}
        BY <1>0, <3>2 DEF NoStrayIam
      <4> QED
        BY <2>3, <3>1, <4>1
    <3>3. \E v \in SkWorkers : skw'[v].iam = i /\ skw'[v].pc \in {"g_key", "g_unkey"}
      BY <2>2, <2>3
    <3> QED
      BY <1>0, <2>6, <3>2, <3>3 DEF NoStrayIam
  <2> QED
    BY <2>7, <2>8, <2>10, <2>11, <2>12 DEF SkInv
<1> QED
  BY <1>2, <1>3 DEF SkGenIam

\* The key is made: from now on the number is that of a key.
LEMMA GenKeys == ASSUME SkInv, NEW w \in SkWorkers, SkGenKey(w) PROVE SkInv'
<1>0. /\ SkTypes /\ KeysFit /\ IamsFit /\ WorkersFit /\ NoStrayIam /\ skw[w].pc = "g_key" /\ skw[w] \in SkwRec
      /\ WorkerFits(skw[w]) /\ skfaults' \in 0 .. SkMaxFaults
      /\ UNCHANGED <<skacc, skiam, skweb, skops>>
  <2>1. SkTypes /\ KeysFit /\ IamsFit /\ WorkersFit /\ NoStrayIam
    BY DEF SkInv
  <2> QED
    BY <2>1, KeyNumbers, SkFaultFits DEF SkGenKey, WorkersFit
<1>1. skw[w].iam \in (1 .. skops) \ SkMade /\ skw[w].key = 0 /\ skw[w].acc # 0 /\ skw[w].pol \in SkPolicies
      /\ ~skw[w].bad /\ skw[w].keys \subseteq SkMade /\ skw[w].acc \in SkNumber /\ skw[w].iam \in SkIds
      /\ skw[w].endless \in BOOLEAN /\ skw[w].iam \in SkNumber
  <2>1. skw[w].iam \in 1 .. skops
    BY <1>0 DEF WorkerFits, SkGens
  <2>2. skw[w].iam \in SkIds
    BY <1>0, <2>1, KeyNumbers DEF SkIds
  <2> QED
    BY <1>0, <2>1, <2>2, KeyNumbers DEF WorkerFits, SkGens, SkwRec
<1>2. CASE SkGoes(w, "g_unkey") /\ UNCHANGED <<skkey, skghost>>
  <2>1. PICK r : r = [skw[w] EXCEPT !.pc = "g_unkey"]
    OBVIOUS
  <2>2. r \in SkwRec /\ r.pc = "g_unkey" /\ r.iam = skw[w].iam /\ r.acc = skw[w].acc /\ r.pol = skw[w].pol
        /\ r.key = skw[w].key /\ r.bad = skw[w].bad /\ r.keys = skw[w].keys
    BY <1>0, <2>1 DEF SkwRec, SkLabels
  <2>3. skw' = [skw EXCEPT ![w] = r]
    BY <1>0, <1>2, <2>1, KeyNumbers DEF SkGoes
  <2>4. skw[w].pc \in SkGens /\ r.pc \in SkGens
    BY <1>0, <2>2 DEF SkGens
  <2> QED
    BY <1>0, <1>1, <1>2, <2>2, <2>3, <2>4, GenGoes
<1>3. CASE /\ skkey' = [skkey EXCEPT ![skw[w].iam] = [acc |-> skw[w].acc, iam |-> skw[w].iam,
                                                      endless |-> skw[w].endless, expired |-> FALSE]]
           /\ skghost' = [skghost EXCEPT !.asked[skw[w].iam] = {skw[w].pol},
                                         !.hurt = IF skw[w].acc # skacc THEN @ \cup {skw[w].iam} ELSE @]
           /\ SkEnds(w)
  <2>1. PICK i, p : i = skw[w].iam /\ p = skw[w].pol
    OBVIOUS
  <2>2. i \in SkIds /\ i \in 1 .. skops /\ i \notin SkMade /\ p \in SkPolicies /\ i \in Nat
    BY <1>1, <2>1, KeyNumbers, <1>0
  <2>3. skw'[w] = SkResting /\ (\A v \in SkWorkers : v # w => skw'[v] = skw[v]) /\ skw' \in [SkWorkers -> SkwRec]
    BY <1>0, <1>3, KeyNumbers DEF SkEnds
  <2>4. /\ skkey'[i].acc # 0 /\ skkey'[i].iam = i /\ skkey'[i].acc = skw[w].acc
        /\ (\A k \in SkIds : k # i => skkey'[k] = skkey[k]) /\ skkey' \in [SkIds -> SkKeyRec]
    <3>1. [acc |-> skw[w].acc, iam |-> i, endless |-> skw[w].endless, expired |-> FALSE] \in SkKeyRec
      BY <1>1, <2>1 DEF SkKeyRec
    <3> QED
      BY <1>0, <1>1, <1>3, <2>1, <3>1, KeyNumbers
  <2>5. /\ skghost'.asked = [skghost.asked EXCEPT ![i] = {p}] /\ skghost'.revoked = skghost.revoked
        /\ skghost'.left = skghost.left /\ skghost.hurt \subseteq skghost'.hurt
        /\ skghost'.hurt \subseteq skghost.hurt \cup {i}
        /\ (skw[w].acc # skacc => i \in skghost'.hurt)
    BY <1>0, <1>3, <2>1 DEF SkTypes, SkGhostRec
  <2>6. skghost' \in SkGhostRec
    <3>1. [skghost.asked EXCEPT ![i] = {p}] \in [SkIds -> SUBSET SkPolicies]
      BY <1>0, <2>2 DEF SkTypes, SkGhostRec
    <3>2. skghost'.hurt \in SUBSET SkIds
      BY <1>0, <2>2, <2>5 DEF SkTypes, SkGhostRec
    <3>3. skghost' = [asked |-> skghost'.asked, revoked |-> skghost.revoked, hurt |-> skghost'.hurt, left |-> skghost.left]
      BY <1>0, <1>3 DEF SkTypes, SkGhostRec
    <3> QED
      BY <1>0, <2>5, <3>1, <3>2, <3>3 DEF SkTypes, SkGhostRec
  <2>7. skghost'.asked[i] = {p} /\ \A k \in SkIds : k # i => skghost'.asked[k] = skghost.asked[k]
    BY <1>0, <2>2, <2>5 DEF SkTypes, SkGhostRec
  <2>8. SkMade' = SkMade \cup {i} /\ SkKeys' = SkKeys \cup {i} /\ SkIams' = SkIams
    BY <1>0, <2>2, <2>4, <2>7 DEF SkMade, SkKeys, SkIams
  <2>9. SkTypes'
    BY <1>0, <2>3, <2>4, <2>6 DEF SkTypes
  <2>10. i \notin skghost.revoked /\ i \notin SkKeys
    BY <1>0, <2>2 DEF KeysFit, SkKeys
  <2>11. KeysFit'
    <3>1. \A k \in SkIds : skkey'[k].acc # 0 <=> k \in SkMade' \ skghost'.revoked
      BY <1>0, <2>4, <2>5, <2>8, <2>10 DEF KeysFit
    <3>2. \A k \in SkMade' : k <= skops'
      BY <1>0, <2>2, <2>8, KeyNumbers DEF KeysFit
    <3>3. \A k \in SkKeys' : skkey'[k].iam = k /\ (k \notin skghost'.hurt => skkey'[k].acc = skacc')
      <4>1. \A k \in SkKeys : k # i /\ k \in SkIds
        BY <2>10 DEF SkKeys
      <4> QED
        BY <1>0, <2>4, <2>5, <2>8, <4>1 DEF KeysFit
    <3>4. \A k \in SkIds : skkey'[k].acc = 0 => skkey'[k].iam = 0
      BY <1>0, <2>4 DEF KeysFit
    <3> QED
      BY <1>0, <2>5, <2>8, <3>1, <3>2, <3>3, <3>4 DEF KeysFit
  <2>12. SkGoing' = SkGoing
    <3>1. \A v \in SkWorkers : (skw'[v].pc \in SkDels <=> skw[v].pc \in SkDels)
                               /\ (skw[v].pc \in SkDels => skw'[v].key = skw[v].key)
      BY <1>0, <2>3 DEF SkDels, SkResting
    <3> QED
      BY <3>1 DEF SkGoing, SkDels
  <2>13. IamsFit'
    <3>1. i \in SkIams /\ skiam[i].pol = p
      BY <1>0, <2>1 DEF WorkerFits
    <3>2. \A j \in SkIams : skghost'.asked[j] \subseteq {skiam[j].pol}
      <4>1. \A j \in SkIams : j \in SkIds /\ skghost.asked[j] \subseteq {skiam[j].pol}
        BY <1>0 DEF IamsFit, SkIams
      <4> QED
        BY <2>7, <3>1, <4>1
    <3> QED
      BY <1>0, <2>5, <2>8, <2>12, <3>1, <3>2 DEF IamsFit
  <2>14. WorkersFit'
    <3>1. ASSUME NEW v \in SkWorkers, v # w PROVE WorkerFits(skw[v])'
      <4>1. WorkerFits(skw[v]) /\ skw'[v] = skw[v] /\ (skw[v].pc \in SkGens => skw[v].iam # i)
        BY <1>0, <2>1, <2>3, <3>1 DEF WorkersFit, SkGens
      <4>2. skw[v].key # i
        BY <2>2, <4>1, KeyNumbers, <1>0 DEF WorkerFits
      <4>3. \A k \in SkMade : k \in SkIds /\ k # i
        BY <2>2 DEF SkMade
      <4>4. skw[v].key # 0 => skghost'.asked[skw[v].key] = skghost.asked[skw[v].key]
                              /\ skkey'[skw[v].key] = skkey[skw[v].key]
        BY <2>4, <2>7, <4>1, <4>3 DEF WorkerFits
      <4> QED
        BY <1>0, <2>5, <2>8, <4>1, <4>2, <4>3, <4>4 DEF WorkerFits, SkGens, SkDels
    <3>2. WorkerFits(SkResting)'
      BY DEF WorkerFits, SkResting, SkGens, SkDels
    <3>3. \A v \in SkWorkers : WorkerFits(skw[v])'
      BY <2>3, <3>1, <3>2
    <3>4. skw'[w].pc \notin SkGens
      BY <2>3 DEF SkResting, SkGens
    <3> QED
      BY <1>0, <2>3, <3>3, <3>4 DEF WorkersFit
  <2>15. NoStrayIam'
    <3> SUFFICES ASSUME NEW j \in SkIams, j \notin skghost.left, j \notin SkKeys, j # i
                 PROVE  \E v \in SkWorkers : skw'[v].iam = j /\ skw'[v].pc \in {"g_key", "g_unkey"}
      BY <2>5, <2>8 DEF NoStrayIam
    <3>1. PICK v \in SkWorkers : skw[v].iam = j /\ skw[v].pc \in {"g_key", "g_unkey"}
      BY <1>0 DEF NoStrayIam
    <3> QED
      BY <2>1, <2>3, <3>1
  <2> QED
    BY <2>9, <2>11, <2>13, <2>14, <2>15 DEF SkInv
<1> QED
  BY <1>2, <1>3 DEF SkGenKey

\* An identity goes, or the call that should have removed it fails and leaves it: its
\* key was not made yet, or is being removed.
LEMMA IamGoes ==
    ASSUME SkInv, NEW w \in SkWorkers, NEW r \in SkwRec, skw' = [skw EXCEPT ![w] = r], NEW i \in SkIds,
           SkIamDelete(i), UNCHANGED <<skacc, skkey, skweb, skops>>,
           i \in SkMade => i \in SkGoing,
           skw[w].pc \in SkDels => r.pc \in SkDels /\ r.key = skw[w].key,
           r.pc \in SkGens => skw[w].pc \in SkGens /\ r.iam = skw[w].iam,
           \A v \in SkWorkers : v # w /\ skw[v].pc = "g_key" => skw[v].iam # i,
           skw[w].pc \in {"g_key", "g_unkey"} => skw[w].iam = i,
           WorkerFits(r)'
    PROVE  SkInv'
<1>0. SkTypes /\ KeysFit /\ IamsFit /\ WorkersFit /\ NoStrayIam /\ skfaults' \in 0 .. SkMaxFaults
  BY SkFaultFits DEF SkInv, SkIamDelete
<1>1. /\ skghost'.asked = skghost.asked /\ skghost'.revoked = skghost.revoked /\ skghost'.hurt = skghost.hurt
      /\ skghost.left \subseteq skghost'.left /\ skghost' \in SkGhostRec
  <2>1. CASE UNCHANGED skghost
    BY <1>0, <2>1 DEF SkTypes
  <2>2. CASE skghost' = [skghost EXCEPT !.left = @ \cup {i}]
    BY <1>0, <2>2 DEF SkTypes, SkGhostRec
  <2> QED
    BY <2>1, <2>2 DEF SkIamDelete
<1>2. skiam' \in [SkIds -> SkIamRec] /\ \A j \in SkIds : j # i => skiam'[j] = skiam[j]
  BY <1>0, KeyNumbers DEF SkIamDelete
<1>3. i \notin SkIams' \/ (i \in skghost'.left /\ skiam' = skiam)
  <2>1. CASE skiam' = [skiam EXCEPT ![i] = SkNoIam]
    BY <1>0, <2>1, KeyNumbers DEF SkIams, SkNoIam
  <2>2. CASE UNCHANGED skiam /\ skghost' = [skghost EXCEPT !.left = @ \cup {i}]
    BY <1>0, <2>2 DEF SkTypes, SkGhostRec
  <2> QED
    BY <2>1, <2>2 DEF SkIamDelete
<1>4. SkMade' = SkMade /\ SkKeys' = SkKeys /\ SkIams' \subseteq SkIams /\ (\A j \in SkIams : j # i => j \in SkIams')
      /\ \A j \in SkIams' : skiam'[j] = skiam[j]
  BY <1>1, <1>2, <1>3 DEF SkMade, SkKeys, SkIams
<1>5. skw'[w] = r /\ (\A v \in SkWorkers : v # w => skw'[v] = skw[v]) /\ skw' \in [SkWorkers -> SkwRec]
  BY <1>0, KeyNumbers
<1>6. SkTypes'
  BY <1>0, <1>1, <1>2, <1>5 DEF SkTypes
<1>7. KeysFit'
  BY <1>0, <1>1, <1>4 DEF KeysFit
<1>8. SkGoing \subseteq SkGoing'
  BY <1>5 DEF SkGoing, SkDels
<1>9. IamsFit'
  BY <1>0, <1>1, <1>4, <1>8 DEF IamsFit
<1>10. WorkersFit'
  <2>1. ASSUME NEW v \in SkWorkers, v # w PROVE WorkerFits(skw[v])'
    <3>1. WorkerFits(skw[v]) /\ skw'[v] = skw[v]
      BY <1>0, <1>5, <2>1 DEF WorkersFit
    <3>2. skw[v].pc = "g_key" => skw[v].iam \in SkIams' /\ skiam'[skw[v].iam] = skiam[skw[v].iam]
      BY <1>4, <2>1, <3>1 DEF WorkerFits
    <3> QED
      BY <1>1, <1>4, <3>1, <3>2 DEF WorkerFits
  <2>2. \A v \in SkWorkers : WorkerFits(skw[v])'
    BY <1>5, <2>1
  <2> QED
    BY <1>0, <1>5, <2>2 DEF WorkersFit
<1>11. NoStrayIam'
  <2> SUFFICES ASSUME NEW j \in SkIams', j \notin skghost'.left, j \notin SkKeys
               PROVE  \E v \in SkWorkers : skw'[v].iam = j /\ skw'[v].pc \in {"g_key", "g_unkey"}
    BY <1>4 DEF NoStrayIam
  <2>1. j # i /\ j \in SkIams /\ j \notin skghost.left
    BY <1>1, <1>3, <1>4
  <2>2. PICK v \in SkWorkers : skw[v].iam = j /\ skw[v].pc \in {"g_key", "g_unkey"}
    BY <1>0, <2>1 DEF NoStrayIam
  <2> QED
    BY <1>5, <2>1, <2>2
<1> QED
  BY <1>6, <1>7, <1>9, <1>10, <1>11 DEF SkInv

\* A generation that failed takes its identity back ...
LEMMA Unkeys == ASSUME SkInv, NEW w \in SkWorkers, SkUnkey(w) PROVE SkInv'
<1>0. /\ SkTypes /\ WorkersFit /\ skw[w].pc = "g_unkey" /\ skw[w] \in SkwRec /\ WorkerFits(skw[w])
      /\ UNCHANGED <<skacc, skkey, skweb, skops>>
  <2>1. SkTypes /\ WorkersFit
    BY DEF SkInv
  <2> QED
    BY <2>1, KeyNumbers DEF SkUnkey, WorkersFit
<1>1. PICK i, r : i = skw[w].iam /\ r = [skw[w] EXCEPT !.pc = "g_unacc"]
  OBVIOUS
<1>2. r \in SkwRec /\ r.pc = "g_unacc" /\ r.iam = i /\ r.acc = skw[w].acc /\ r.pol = skw[w].pol
      /\ r.key = skw[w].key /\ r.bad = skw[w].bad /\ r.keys = skw[w].keys
  BY <1>0, <1>1 DEF SkwRec, SkLabels
<1>3. skw' = [skw EXCEPT ![w] = r] /\ SkIamDelete(i)
  BY <1>0, <1>1, KeyNumbers DEF SkGoes, SkUnkey
<1>4. i \in 1 .. skops /\ i \notin SkMade /\ i \in SkIds
  <2>1. i \in 1 .. skops /\ i \notin SkMade
    BY <1>0, <1>1 DEF WorkerFits, SkGens
  <2> QED
    BY <1>0, <2>1, KeyNumbers DEF SkIds
<1>5. \A v \in SkWorkers : v # w /\ skw[v].pc = "g_key" => skw[v].iam # i
  BY <1>0, <1>1 DEF WorkersFit, SkGens
<1>6. skghost'.asked = skghost.asked /\ (i \notin SkIams' \/ i \in skghost'.left)
  <2>1. CASE skiam' = [skiam EXCEPT ![i] = SkNoIam] /\ UNCHANGED skghost
    BY <1>0, <1>4, <2>1, KeyNumbers DEF SkIams, SkNoIam
  <2>2. CASE skghost' = [skghost EXCEPT !.left = @ \cup {i}]
    BY <1>0, <2>2 DEF SkTypes, SkGhostRec
  <2> QED
    BY <1>3, <2>1, <2>2 DEF SkIamDelete
<1>7. WorkerFits(r)'
  <2>1. SkMade' = SkMade
    BY <1>6 DEF SkMade
  <2> QED
    BY <1>0, <1>2, <1>4, <1>6, <2>1 DEF WorkerFits, SkGens, SkDels
<1>8. skw[w].pc \notin SkDels /\ skw[w].pc \in SkGens
  BY <1>0 DEF SkDels, SkGens
<1>9. i \notin SkMade /\ skw[w].iam = i /\ r.iam = skw[w].iam
  BY <1>1, <1>2, <1>4
<1>10. r \in SkwRec /\ i \in SkIds
  BY <1>2, <1>4
<1>11. UNCHANGED <<skacc, skkey, skweb, skops>>
  BY <1>0
<1> QED
  BY <1>3, <1>5, <1>7, <1>8, <1>9, <1>10, <1>11, IamGoes

\* ... and the account, which costs every key of it.
LEMMA Unaccs == ASSUME SkInv, NEW w \in SkWorkers, SkUnacc(w) PROVE SkInv'
<1>0. /\ SkTypes /\ KeysFit /\ IamsFit /\ WorkersFit /\ NoStrayIam /\ skw[w].pc = "g_unacc" /\ skw[w] \in SkwRec
      /\ WorkerFits(skw[w]) /\ skfaults' \in 0 .. SkMaxFaults /\ UNCHANGED <<skiam, skkey, skweb, skops>>
  <2>1. SkTypes /\ KeysFit /\ IamsFit /\ WorkersFit /\ NoStrayIam
    BY DEF SkInv
  <2> QED
    BY <2>1, KeyNumbers, SkFaultFits DEF SkUnacc, WorkersFit
<1>1. skacc' \in {0, skacc} /\ skghost' \in SkGhostRec
      /\ skghost'.asked = skghost.asked /\ skghost'.revoked = skghost.revoked /\ skghost.hurt \subseteq skghost'.hurt
      /\ skghost'.left = skghost.left /\ \A k \in SkKeys : skacc' # skacc /\ skkey[k].acc = skacc => k \in skghost'.hurt
  <2>1. CASE UNCHANGED <<skacc, skghost>>
    BY <1>0, <2>1 DEF SkTypes
  <2>2. CASE /\ skacc' = IF skacc = skw[w].acc THEN 0 ELSE skacc
             /\ skghost' = [skghost EXCEPT !.hurt = @ \cup {k \in SkKeys : skkey[k].acc = skw[w].acc}]
    <3>1. PICK s : s = {k \in SkKeys : skkey[k].acc = skw[w].acc}
      OBVIOUS
    <3>2. s \in SUBSET SkIds /\ skghost' = [skghost EXCEPT !.hurt = @ \cup s]
      BY <2>2, <3>1 DEF SkKeys
    <3>3. skghost' \in SkGhostRec /\ skghost'.hurt = skghost.hurt \cup s /\ skghost'.asked = skghost.asked
          /\ skghost'.revoked = skghost.revoked /\ skghost'.left = skghost.left
      BY <1>0, <3>2 DEF SkTypes, SkGhostRec
    <3> QED
      BY <2>2, <3>1, <3>3
  <2> QED
    BY <2>1, <2>2 DEF SkUnacc
<1>2. SkMade' = SkMade /\ SkKeys' = SkKeys /\ SkIams' = SkIams
  BY <1>0, <1>1 DEF SkMade, SkKeys, SkIams
<1>3. skw'[w] = SkResting /\ (\A v \in SkWorkers : v # w => skw'[v] = skw[v]) /\ skw' \in [SkWorkers -> SkwRec]
  BY <1>0, KeyNumbers DEF SkEnds, SkUnacc
<1>4. SkTypes'
  <2>1. skacc' \in SkNumber
    BY <1>0, <1>1, KeyNumbers DEF SkTypes, SkNumber
  <2> QED
    BY <1>0, <1>1, <1>3, <2>1 DEF SkTypes
<1>5. KeysFit'
  BY <1>0, <1>1, <1>2 DEF KeysFit
<1>6. SkGoing \subseteq SkGoing'
  BY <1>0, <1>3 DEF SkGoing
<1>7. IamsFit'
  BY <1>0, <1>1, <1>2, <1>6 DEF IamsFit
<1>8. WorkersFit'
  <2>1. ASSUME NEW v \in SkWorkers, v # w PROVE WorkerFits(skw[v])'
    <3>1. WorkerFits(skw[v]) /\ skw'[v] = skw[v]
      BY <1>0, <1>3, <2>1 DEF WorkersFit
    <3> QED
      BY <1>0, <1>1, <1>2, <3>1 DEF WorkerFits
  <2>2. WorkerFits(SkResting)'
    BY DEF WorkerFits, SkResting, SkGens, SkDels
  <2>3. \A v \in SkWorkers : WorkerFits(skw[v])'
    BY <1>3, <2>1, <2>2
  <2>4. skw'[w].pc \notin SkGens
    BY <1>3 DEF SkResting, SkGens
  <2> QED
    BY <1>0, <1>3, <2>3, <2>4 DEF WorkersFit
<1>9. NoStrayIam'
  <2> SUFFICES ASSUME NEW j \in SkIams, j \notin skghost.left, j \notin SkKeys
               PROVE  \E v \in SkWorkers : skw'[v].iam = j /\ skw'[v].pc \in {"g_key", "g_unkey"}
    BY <1>1, <1>2 DEF NoStrayIam
  <2>1. PICK v \in SkWorkers : skw[v].iam = j /\ skw[v].pc \in {"g_key", "g_unkey"}
    BY <1>0 DEF NoStrayIam
  <2> QED
    BY <1>0, <1>3, <2>1
<1> QED
  BY <1>4, <1>5, <1>7, <1>8, <1>9 DEF SkInv
-----------------------------------------------------------------------------
\* A step of a removal or of a request that changes no record.
LEMMA OtherMoves ==
    ASSUME SkInv, NEW w \in SkWorkers, NEW r \in SkwRec, skw' = [skw EXCEPT ![w] = r],
           skops' \in {skops, skops + 1}, skops' \in SkNumber, skfaults' = skfaults,
           skweb' \subseteq SkBuckets, UNCHANGED <<skacc, skiam, skkey, skghost>>,
           WorkerFits(r), r.pc \notin SkGens, skw[w].pc \notin SkGens,
           skw[w].pc \in SkDels => r.pc \in SkDels /\ r.key = skw[w].key
    PROVE  SkInv'
<1>0. SkTypes /\ KeysFit /\ skacc' \in SkNumber /\ skfaults' \in 0 .. SkMaxFaults
  BY DEF SkInv, SkTypes
<1>1. SkMade' = SkMade /\ SkIams' = SkIams
  BY DEF SkMade, SkIams
<1>2. WorkerFits(r)'
  BY <1>1 DEF WorkerFits, SkGens
<1>3. \A k \in SkKeys : k \notin skghost.hurt => skkey[k].acc = skacc'
  BY <1>0 DEF KeysFit
<1>4. skw[w].pc \notin {"g_key", "g_unkey"}
  BY DEF SkGens
<1> QED
  BY <1>0, <1>2, <1>3, <1>4, HandlerMoves

\* Who removes a key, for the admin or as expired, and who looks it up.
LEMMA KeyIsTaken ==
    ASSUME SkInv, NEW w \in SkWorkers, SkDel(w) \/ SkCollect(w) \/ SkLookup(w)
    PROVE  SkInv'
<1>0. /\ SkTypes /\ KeysFit /\ skw[w].pc = "idle" /\ UNCHANGED <<skacc, skiam, skkey, skweb, skfaults, skghost>>
      /\ skops' \in {skops, skops + 1} /\ skops' \in SkNumber /\ skweb' \subseteq SkBuckets
  <2>1. SkTypes /\ KeysFit
    BY DEF SkInv
  <2>2. /\ skw[w].pc = "idle" /\ UNCHANGED <<skacc, skiam, skkey, skweb, skfaults, skghost>>
        /\ (skops' = skops \/ (skops' = skops + 1 /\ skops < SkMaxOps))
    BY DEF SkDel, SkCollect, SkLookup, SkStart
  <2> QED
    BY <2>1, <2>2, KeyNumbers DEF SkTypes, SkNumber
<1>1. SkResting \in SkwRec /\ \A k \in SkKeys : /\ k \in SkMade /\ k \in SkNumber /\ k # 0 /\ k \notin skghost.revoked
                                                /\ skkey[k].iam = k /\ skkey[k].expired \in BOOLEAN
  BY <1>0, KeyNumbers DEF KeysFit, SkKeys, SkKeyRec
<1>2. PICK r \in SkwRec : skw' = [skw EXCEPT ![w] = r] /\ WorkerFits(r) /\ r.pc \in {"d_iam", "c_iam", "r_iam"}
  <2>1. ASSUME NEW k \in SkKeys, skw' = [skw EXCEPT ![w] = [SkResting EXCEPT !.pc = "d_iam", !.key = k]]
        PROVE  \E r \in SkwRec : skw' = [skw EXCEPT ![w] = r] /\ WorkerFits(r) /\ r.pc = "d_iam"
    <3>1. PICK r : r = [SkResting EXCEPT !.pc = "d_iam", !.key = k]
      OBVIOUS
    <3>2. r \in SkwRec /\ r.pc = "d_iam" /\ r.key = k
      BY <1>1, <3>1 DEF SkwRec, SkLabels
    <3>3. r.keys = {} /\ r.bad = FALSE
      BY <3>1 DEF SkResting
    <3>4. WorkerFits(r)
      BY <1>1, <3>2, <3>3 DEF WorkerFits, SkGens, SkDels
    <3> QED
      BY <2>1, <3>1, <3>2, <3>4
  <2>2. ASSUME NEW k \in SkKeys, skkey[k].expired,
               skw' = [skw EXCEPT ![w] = [SkResting EXCEPT !.pc = "c_iam", !.key = k]]
        PROVE  \E r \in SkwRec : skw' = [skw EXCEPT ![w] = r] /\ WorkerFits(r) /\ r.pc = "c_iam"
    <3>1. PICK r : r = [SkResting EXCEPT !.pc = "c_iam", !.key = k]
      OBVIOUS
    <3>2. r \in SkwRec /\ r.pc = "c_iam" /\ r.key = k
      BY <1>1, <3>1 DEF SkwRec, SkLabels
    <3>3. r.keys = {} /\ r.bad = FALSE
      BY <3>1 DEF SkResting
    <3>4. WorkerFits(r)
      BY <1>1, <2>2, <3>2, <3>3 DEF WorkerFits, SkGens, SkDels
    <3> QED
      BY <2>2, <3>1, <3>2, <3>4
  <2>3. ASSUME NEW k \in SkKeys, ~SkExpired(k),
               skw' = [skw EXCEPT ![w] = [SkResting EXCEPT !.pc = "r_iam", !.key = k, !.iam = skkey[k].iam,
                            !.bad = k \in skghost.revoked \/ skkey[k].expired]]
        PROVE  \E r \in SkwRec : skw' = [skw EXCEPT ![w] = r] /\ WorkerFits(r) /\ r.pc = "r_iam"
    <3>1. PICK r : r = [SkResting EXCEPT !.pc = "r_iam", !.key = k, !.iam = k, !.bad = FALSE]
      OBVIOUS
    <3>2. r \in SkwRec /\ r.pc = "r_iam" /\ r.key = k /\ r.iam = k /\ r.bad = FALSE
      BY <1>1, <3>1 DEF SkwRec, SkLabels
    <3>3. r.keys = {}
      BY <3>1 DEF SkResting
    <3>4. WorkerFits(r)
      BY <1>1, <3>2, <3>3 DEF WorkerFits, SkGens, SkDels
    <3>5. (k \in skghost.revoked \/ skkey[k].expired) = FALSE /\ skkey[k].iam = k
      BY <1>1, <2>3 DEF SkExpired
    <3>6. skw' = [skw EXCEPT ![w] = r]
      BY <2>3, <3>1, <3>5
    <3> QED
      BY <3>2, <3>4, <3>6
  <2> QED
    BY <2>1, <2>2, <2>3 DEF SkDel, SkCollect, SkLookup, SkStart
<1>3. r.pc \notin SkGens /\ skw[w].pc \notin SkGens /\ skw[w].pc \notin SkDels
  BY <1>0, <1>2 DEF SkGens, SkDels
<1> QED
  BY <1>0, <1>2, <1>3, OtherMoves

\* The identity of a key that is removed.
LEMMA DelIams == ASSUME SkInv, NEW w \in SkWorkers, SkDelIam(w) PROVE SkInv'
<1>0. /\ SkTypes /\ KeysFit /\ IamsFit /\ WorkersFit /\ NoStrayIam /\ skw[w].pc \in {"d_iam", "c_iam"}
      /\ skw[w] \in SkwRec /\ WorkerFits(skw[w]) /\ UNCHANGED <<skacc, skkey, skweb, skops>>
  <2>1. SkTypes /\ KeysFit /\ IamsFit /\ WorkersFit /\ NoStrayIam
    BY DEF SkInv
  <2> QED
    BY <2>1, KeyNumbers DEF SkDelIam, WorkersFit
<1>1. skw[w].key # 0 /\ skw[w].key \in SkMade /\ skw[w].key \in SkIds
  BY <1>0 DEF WorkerFits, SkDels, SkMade
<1>2. PICK k, r : k = skw[w].key /\ r = [skw[w] EXCEPT !.pc = IF skw[w].pc = "d_iam" THEN "d_key" ELSE "c_key"]
  OBVIOUS
<1>3. r \in SkwRec /\ r.pc \in {"d_key", "c_key"} /\ (r.pc = "c_key" => skw[w].pc = "c_iam") /\ r.key = k
      /\ r.bad = skw[w].bad /\ r.keys = skw[w].keys
  BY <1>0, <1>2 DEF SkwRec, SkLabels
<1>4. skw' = [skw EXCEPT ![w] = r]
  BY <1>0, <1>2, KeyNumbers DEF SkGoes, SkDelIam
<1>5. skkey[k].iam \in {0, k} /\ (k \in SkKeys => skkey[k].iam = k) /\ k \in SkMade /\ k \in SkIds /\ k # 0
  BY <1>0, <1>1, <1>2 DEF KeysFit, SkKeys
<1>6. /\ skw[w].pc \in SkDels /\ r.pc \in SkDels /\ r.key = skw[w].key
      /\ r.pc \notin SkGens /\ skw[w].pc \notin SkGens /\ skw[w].pc \notin {"g_key", "g_unkey"}
  BY <1>0, <1>2, <1>3 DEF SkDels, SkGens
<1>7. r.keys \subseteq SkMade /\ ~r.bad /\ (r.pc = "c_key" => skkey[k].expired \/ k \in skghost.revoked)
  BY <1>0, <1>2, <1>3 DEF WorkerFits
<1>8. CASE skkey[k].iam \in SkIams
  <2>1. skkey[k].iam = k /\ SkIamDelete(k)
    <3>1. 0 \notin SkIams
      BY <1>0, KeyNumbers
    <3> QED
      BY <1>2, <1>5, <1>8, <3>1 DEF SkDelIam
  <2>2. k \in SkGoing
    BY <1>0, <1>2 DEF SkGoing
  <2>3. \A v \in SkWorkers : v # w /\ skw[v].pc = "g_key" => skw[v].iam # k
    BY <1>0, <1>5 DEF WorkersFit, WorkerFits, SkGens
  <2>4. skghost'.asked = skghost.asked /\ skghost'.revoked = skghost.revoked /\ (k \notin SkIams' \/ k \in skghost'.left)
    <3>1. CASE skiam' = [skiam EXCEPT ![k] = SkNoIam] /\ UNCHANGED skghost
      BY <1>0, <1>5, <3>1, KeyNumbers DEF SkIams, SkNoIam
    <3>2. CASE skghost' = [skghost EXCEPT !.left = @ \cup {k}]
      BY <1>0, <3>2 DEF SkTypes, SkGhostRec
    <3> QED
      BY <2>1, <3>1, <3>2 DEF SkIamDelete
  <2>5. WorkerFits(r)'
    <3>1. SkMade' = SkMade /\ skkey' = skkey
      BY <1>0, <2>4 DEF SkMade
    <3> QED
      BY <1>3, <1>5, <1>7, <2>4, <3>1 DEF WorkerFits, SkGens, SkDels
  <2>6. UNCHANGED <<skacc, skkey, skweb, skops>>
    BY <1>0
  <2>7. k \in SkIds /\ SkIamDelete(k) /\ (k \in SkMade => k \in SkGoing) /\ r \in SkwRec
    BY <1>3, <1>5, <2>1, <2>2
  <2>8. /\ skw[w].pc \in SkDels => r.pc \in SkDels /\ r.key = skw[w].key
        /\ r.pc \in SkGens => skw[w].pc \in SkGens /\ r.iam = skw[w].iam
        /\ skw[w].pc \in {"g_key", "g_unkey"} => skw[w].iam = k
    BY <1>6
  <2> QED
    BY ONLY SkInv, w \in SkWorkers, <1>4, <2>3, <2>5, <2>6, <2>7, <2>8, IamGoes
<1>9. CASE skkey[k].iam \notin SkIams
  <2>1. UNCHANGED <<skiam, skfaults, skghost>>
    BY <1>2, <1>9 DEF SkDelIam
  <2>2. k \in SkIams => k \in skghost.left
    <3> SUFFICES ASSUME k \in SkIams, k \notin skghost.left PROVE FALSE
      OBVIOUS
    <3>1. k \notin SkKeys
      BY <1>5, <1>9
    <3>2. PICK v \in SkWorkers : skw[v].iam = k /\ skw[v].pc \in {"g_key", "g_unkey"}
      BY <1>0, <3>1 DEF NoStrayIam
    <3> QED
      BY <1>0, <1>5, <3>2 DEF WorkersFit, WorkerFits, SkGens
  <2>3. WorkerFits(r)
    BY <1>3, <1>5, <1>7, <2>2 DEF WorkerFits, SkGens, SkDels
  <2>4. skops' = skops /\ skops' \in SkNumber /\ skweb' \subseteq SkBuckets /\ UNCHANGED <<skacc, skiam, skkey, skghost>>
    BY <1>0, <2>1 DEF SkTypes
  <2> QED
    BY <1>3, <1>4, <1>6, <2>1, <2>3, <2>4, OtherMoves
<1> QED
  BY <1>8, <1>9

\* The key itself.
LEMMA DelKeys == ASSUME SkInv, NEW w \in SkWorkers, SkDelKey(w) PROVE SkInv'
<1>0. /\ SkTypes /\ KeysFit /\ IamsFit /\ WorkersFit /\ NoStrayIam /\ skw[w].pc \in {"d_key", "c_key"}
      /\ skw[w] \in SkwRec /\ WorkerFits(skw[w]) /\ UNCHANGED <<skacc, skiam, skweb, skops>>
      /\ skfaults' \in 0 .. SkMaxFaults
  <2>1. SkTypes /\ KeysFit /\ IamsFit /\ WorkersFit /\ NoStrayIam
    BY DEF SkInv
  <2> QED
    BY <2>1, KeyNumbers, SkFaultFits DEF SkDelKey, WorkersFit
<1>1. skw[w].key # 0 /\ skw[w].key \in SkMade /\ skw[w].key \in SkIds
  BY <1>0 DEF WorkerFits, SkDels, SkMade
<1>2. PICK k : k = skw[w].key
  OBVIOUS
<1>3. /\ k \in SkMade /\ k \in SkIds /\ (k \in SkIams => k \in skghost.left)
      /\ (skw[w].pc = "c_key" => skkey[k].expired \/ k \in skghost.revoked)
  BY <1>0, <1>1, <1>2 DEF WorkerFits
<1>4. /\ skghost' \in SkGhostRec /\ skghost'.asked = skghost.asked /\ skghost'.left = skghost.left
      /\ skghost.hurt \subseteq skghost'.hurt /\ k \in skghost'.revoked \cup skghost'.hurt
      /\ \/ skkey' = skkey /\ skghost'.revoked = skghost.revoked
         \/ skkey' = [skkey EXCEPT ![k] = SkNoKey] /\ skghost'.revoked = skghost.revoked \cup {k}
  <2>1. CASE /\ skkey' = [skkey EXCEPT ![k] = SkNoKey]
             /\ skghost' = IF skw[w].pc = "d_key" \/ skkey[k].expired THEN [skghost EXCEPT !.revoked = @ \cup {k}]
                           ELSE skghost
    <3>1. CASE skghost' = [skghost EXCEPT !.revoked = @ \cup {k}]
      BY <1>0, <1>3, <2>1, <3>1 DEF SkTypes, SkGhostRec
    <3>2. CASE skghost' = skghost /\ k \in skghost.revoked
      <4>1. skghost'.revoked = skghost.revoked \cup {k}
        BY <3>2
      <4> QED
        BY <1>0, <2>1, <3>2, <4>1 DEF SkTypes
    <3> QED
      BY <1>0, <1>3, <2>1, <3>1, <3>2
  <2>2. CASE UNCHANGED skkey /\ skghost' = [skghost EXCEPT !.hurt = @ \cup {k}]
    BY <1>0, <1>3, <2>2 DEF SkTypes, SkGhostRec
  <2> QED
    BY <1>2, <2>1, <2>2 DEF SkDelKey
<1>5. skw'[w] = SkResting /\ (\A v \in SkWorkers : v # w => skw'[v] = skw[v]) /\ skw' \in [SkWorkers -> SkwRec]
  BY <1>0, KeyNumbers DEF SkEnds, SkDelKey
<1>6. /\ skkey' \in [SkIds -> SkKeyRec] /\ (\A j \in SkIds : j # k => skkey'[j] = skkey[j])
      /\ skkey' = skkey \/ (skkey'[k].acc = 0 /\ skkey'[k].iam = 0)
  <2>1. skkey \in [SkIds -> SkKeyRec] /\ SkNoKey \in SkKeyRec /\ SkNoKey.acc = 0 /\ SkNoKey.iam = 0
    BY <1>0, KeyNumbers DEF SkNoKey
  <2>2. CASE skkey' = [skkey EXCEPT ![k] = SkNoKey]
    BY <1>3, <2>1, <2>2
  <2>3. CASE skkey' = skkey
    BY <2>1, <2>3
  <2> QED
    BY <1>4, <2>2, <2>3
<1>7. SkMade' = SkMade /\ SkIams' = SkIams /\ SkKeys \ {k} \subseteq SkKeys' /\ SkKeys' \subseteq SkKeys
  BY <1>0, <1>4, <1>6 DEF SkMade, SkIams, SkKeys
<1>8. SkTypes'
  BY <1>0, <1>4, <1>5, <1>6 DEF SkTypes
<1>9. KeysFit'
  <2>1. CASE skkey' = skkey /\ skghost'.revoked = skghost.revoked
    BY <1>0, <1>4, <1>7, <2>1 DEF KeysFit, SkKeys
  <2>2. CASE skkey' = [skkey EXCEPT ![k] = SkNoKey] /\ skghost'.revoked = skghost.revoked \cup {k}
    <3>1. skkey'[k].acc = 0 /\ skkey'[k].iam = 0 /\ k \notin SkKeys'
      BY <1>0, <1>3, <2>2, KeyNumbers DEF SkNoKey, SkKeys
    <3>2. \A j \in SkIds : skkey'[j].acc # 0 <=> j \in SkMade' \ skghost'.revoked
      BY <1>0, <1>6, <1>7, <2>2, <3>1 DEF KeysFit
    <3>3. \A j \in SkKeys' : skkey'[j].iam = j /\ (j \notin skghost'.hurt => skkey'[j].acc = skacc')
      <4>1. \A j \in SkKeys' : j # k /\ j \in SkKeys /\ skkey'[j] = skkey[j]
        BY <1>6, <1>7, <3>1 DEF SkKeys
      <4> QED
        BY <1>0, <1>4, <4>1 DEF KeysFit
    <3>4. \A j \in SkIds : skkey'[j].acc = 0 => skkey'[j].iam = 0
      BY <1>0, <1>6, <3>1 DEF KeysFit
    <3>5. skghost'.revoked \subseteq SkMade' /\ \A j \in SkMade' : j <= skops'
      BY <1>0, <1>3, <1>7, <2>2 DEF KeysFit
    <3> QED
      BY <3>2, <3>3, <3>4, <3>5 DEF KeysFit
  <2> QED
    BY <1>4, <2>1, <2>2
<1>10. SkGoing \ {k} \subseteq SkGoing'
  BY <1>2, <1>5 DEF SkGoing
<1>11. IamsFit'
  <2>1. skghost.revoked \subseteq skghost'.revoked
    BY <1>4
  <2> QED
    BY <1>0, <1>4, <1>7, <1>10, <2>1 DEF IamsFit
<1>12. WorkersFit'
  <2>1. ASSUME NEW v \in SkWorkers, v # w PROVE WorkerFits(skw[v])'
    <3>1. WorkerFits(skw[v]) /\ skw'[v] = skw[v]
      BY <1>0, <1>5, <2>1 DEF WorkersFit
    <3>2. skw[v].pc \in {"c_iam", "c_key"} => skkey'[skw[v].key].expired \/ skw[v].key \in skghost'.revoked
      <4> SUFFICES ASSUME skw[v].pc \in {"c_iam", "c_key"} PROVE skkey'[skw[v].key].expired \/ skw[v].key \in skghost'.revoked
        OBVIOUS
      <4>1. skkey[skw[v].key].expired \/ skw[v].key \in skghost.revoked
        BY <3>1 DEF WorkerFits
      <4>2. skw[v].key \in SkIds
        BY <3>1 DEF WorkerFits, SkDels, SkMade
      <4> QED
        BY <1>4, <1>6, <4>1, <4>2
    <3> QED
      BY <1>0, <1>4, <1>7, <3>1, <3>2 DEF WorkerFits
  <2>2. WorkerFits(SkResting)'
    BY DEF WorkerFits, SkResting, SkGens, SkDels
  <2>3. \A v \in SkWorkers : WorkerFits(skw[v])'
    BY <1>5, <2>1, <2>2
  <2>4. skw'[w].pc \notin SkGens
    BY <1>5 DEF SkResting, SkGens
  <2> QED
    BY <1>0, <1>5, <2>3, <2>4 DEF WorkersFit
<1>13. NoStrayIam'
  <2> SUFFICES ASSUME NEW j \in SkIams, j \notin skghost.left, j \notin SkKeys'
               PROVE  \E v \in SkWorkers : skw'[v].iam = j /\ skw'[v].pc \in {"g_key", "g_unkey"}
    BY <1>4, <1>7 DEF NoStrayIam
  <2>1. j # k /\ j \notin SkKeys
    BY <1>3, <1>7
  <2>2. PICK v \in SkWorkers : skw[v].iam = j /\ skw[v].pc \in {"g_key", "g_unkey"}
    BY <1>0, <2>1 DEF NoStrayIam
  <2> QED
    BY <1>0, <1>5, <2>2
<1> QED
  BY <1>8, <1>9, <1>11, <1>12, <1>13 DEF SkInv

\* A key's lifetime ends.
LEMMA KeyExpires == ASSUME SkInv, SkExpire PROVE SkInv'
<1>0. /\ SkTypes /\ KeysFit /\ IamsFit /\ WorkersFit /\ NoStrayIam
      /\ UNCHANGED <<skacc, skiam, skweb, skw, skops, skfaults, skghost>>
  BY DEF SkInv, SkExpire
<1>1. PICK k \in SkKeys : skkey' = [skkey EXCEPT ![k].expired = TRUE]
  BY DEF SkExpire
<1>2. /\ skkey' \in [SkIds -> SkKeyRec]
      /\ \A j \in SkIds : /\ skkey'[j].acc = skkey[j].acc /\ skkey'[j].iam = skkey[j].iam
                          /\ skkey[j].expired => skkey'[j].expired
  <2>1. k \in SkIds /\ skkey[k] \in SkKeyRec
    BY <1>0, KeyNumbers
  <2>2. PICK r : r = [skkey[k] EXCEPT !.expired = TRUE]
    OBVIOUS
  <2>3. r \in SkKeyRec /\ r.acc = skkey[k].acc /\ r.iam = skkey[k].iam /\ r.expired = TRUE
    BY <2>1, <2>2 DEF SkKeyRec
  <2>4. skkey' = [skkey EXCEPT ![k] = r]
    BY <1>0, <1>1, <2>1, <2>2, KeyNumbers
  <2> QED
    BY <1>0, <2>1, <2>3, <2>4, KeyNumbers
<1>3. SkMade' = SkMade /\ SkKeys' = SkKeys /\ SkIams' = SkIams /\ SkGoing' = SkGoing
  BY <1>0, <1>2 DEF SkMade, SkKeys, SkIams, SkGoing
<1>4. SkTypes'
  BY <1>0, <1>2 DEF SkTypes
<1>5. KeysFit'
  <2>1. SkKeys \subseteq SkIds
    BY DEF SkKeys
  <2> QED
    BY <1>0, <1>2, <1>3, <2>1 DEF KeysFit
<1>6. IamsFit'
  BY <1>0, <1>3 DEF IamsFit
<1>7. WorkersFit'
  <2>1. ASSUME NEW v \in SkWorkers PROVE WorkerFits(skw[v])'
    <3>1. WorkerFits(skw[v]) /\ skw'[v] = skw[v]
      BY <1>0 DEF WorkersFit
    <3>2. skw[v].pc \in {"c_iam", "c_key"} => skkey'[skw[v].key].expired \/ skw[v].key \in skghost.revoked
      <4> SUFFICES ASSUME skw[v].pc \in {"c_iam", "c_key"} PROVE skkey'[skw[v].key].expired \/ skw[v].key \in skghost.revoked
        OBVIOUS
      <4>1. skkey[skw[v].key].expired \/ skw[v].key \in skghost.revoked
        BY <3>1 DEF WorkerFits
      <4>2. skw[v].key \in SkIds
        BY <3>1 DEF WorkerFits, SkDels, SkMade
      <4> QED
        BY <1>2, <4>1, <4>2
    <3> QED
      BY <1>0, <1>3, <3>1, <3>2 DEF WorkerFits
  <2> QED
    BY <1>0, <2>1 DEF WorkersFit
<1>8. NoStrayIam'
  BY <1>0, <1>3 DEF NoStrayIam
<1> QED
  BY <1>4, <1>5, <1>6, <1>7, <1>8 DEF SkInv
-----------------------------------------------------------------------------
\* A request with a key: its identity, then its policy.
LEMMA Authorizes == ASSUME SkInv, NEW w \in SkWorkers, SkAuthorize(w) PROVE SkInv'
<1>0. /\ SkTypes /\ KeysFit /\ IamsFit /\ skw[w].pc = "r_iam" /\ skw[w] \in SkwRec /\ WorkerFits(skw[w])
      /\ UNCHANGED <<skacc, skiam, skkey, skweb, skops, skfaults, skghost>>
      /\ skops' \in {skops, skops + 1} /\ skops' \in SkNumber /\ skweb' \subseteq SkBuckets
  <2>1. SkTypes /\ KeysFit /\ IamsFit /\ WorkersFit
    BY DEF SkInv
  <2> QED
    BY <2>1, KeyNumbers DEF SkAuthorize, WorkersFit, SkTypes
<1>1. PICK i : i = skw[w].iam
  OBVIOUS
<1>2. i = skw[w].key /\ i # 0 /\ i \in SkMade /\ i \in SkIds
  BY <1>0, <1>1 DEF WorkerFits, SkMade
<1>3. PICK r \in SkwRec : skw' = [skw EXCEPT ![w] = r] /\ WorkerFits(r) /\ r.pc \in {"r_act", "idle"}
  <2>1. CASE i \in SkIams
    <3>1. PICK r : r = [skw[w] EXCEPT !.pc = "r_act", !.pol = skiam[i].pol, !.acc = skiam[i].acc]
      OBVIOUS
    <3>2. skiam[i] \in SkIamRec /\ skiam[i].pol \in SkPolicies /\ skghost.asked[i] \subseteq {skiam[i].pol}
      BY <1>0, <1>2, <2>1, KeyNumbers DEF IamsFit
    <3>3. r \in SkwRec /\ r.pc = "r_act" /\ r.pol = skiam[i].pol /\ r.key = i /\ r.iam = i
          /\ r.bad = skw[w].bad /\ r.keys = skw[w].keys
      BY <1>0, <1>1, <1>2, <3>1, <3>2 DEF SkwRec, SkLabels, SkIamRec
    <3>4. ~r.bad /\ r.keys \subseteq SkMade
      BY <1>0, <3>3 DEF WorkerFits
    <3>5. WorkerFits(r)
      BY <1>2, <3>2, <3>3, <3>4 DEF WorkerFits, SkGens, SkDels
    <3>6. skw' = [skw EXCEPT ![w] = r]
      BY <1>1, <2>1, <3>1 DEF SkAuthorize
    <3> QED
      BY <3>3, <3>5, <3>6
  <2>2. CASE i \notin SkIams
    BY <1>0, <1>1, <2>2, RestFits DEF SkAuthorize, SkResting
  <2> QED
    BY <2>1, <2>2
<1>4. r.pc \notin SkGens /\ skw[w].pc \notin SkGens /\ skw[w].pc \notin SkDels
  BY <1>0, <1>3 DEF SkGens, SkDels
<1> QED
  BY <1>0, <1>3, <1>4, OtherMoves

LEMMA Acts == ASSUME SkInv, NEW w \in SkWorkers, SkAct(w) PROVE SkInv'
<1>0. /\ SkTypes /\ skw[w].pc = "r_act" /\ skw[w] \in SkwRec /\ WorkerFits(skw[w])
      /\ UNCHANGED <<skacc, skiam, skkey, skops, skfaults, skghost>>
      /\ skops' \in {skops, skops + 1} /\ skops' \in SkNumber
  <2>1. SkTypes /\ WorkersFit
    BY DEF SkInv
  <2> QED
    BY <2>1, KeyNumbers DEF SkAct, WorkersFit, SkTypes
<1>1. PICK a \in SkDeeds, b \in SkBuckets :
        LET ok == (SkBucketReq(skw[w].pol, a, b) \/ SkObjectReq(skw[w].pol, a, b)) /\ skw[w].acc = skacc
        IN /\ skw' = [skw EXCEPT ![w] = IF ok THEN [@ EXCEPT !.pc = "did", !.act = a, !.bkt = b] ELSE SkResting]
           /\ IF ok /\ a = "website" THEN skweb' \in {skweb \cup {b}, skweb \ {b}} ELSE UNCHANGED skweb
  BY DEF SkAct
<1>2. skweb' \subseteq SkBuckets
  BY <1>0, <1>1 DEF SkTypes
<1>3. PICK r \in SkwRec : skw' = [skw EXCEPT ![w] = r] /\ WorkerFits(r) /\ r.pc \in {"did", "idle"}
  <2>1. CASE (SkBucketReq(skw[w].pol, a, b) \/ SkObjectReq(skw[w].pol, a, b)) /\ skw[w].acc = skacc
    <3>1. PICK r : r = [skw[w] EXCEPT !.pc = "did", !.act = a, !.bkt = b]
      OBVIOUS
    <3>2. r \in SkwRec /\ r.pc = "did" /\ r.pol = skw[w].pol /\ r.key = skw[w].key /\ r.act = a /\ r.bkt = b
          /\ r.bad = skw[w].bad /\ r.keys = skw[w].keys
      BY <1>0, <3>1 DEF SkwRec, SkLabels
    <3>3. /\ ~r.bad /\ r.keys \subseteq SkMade /\ r.key \in SkMade /\ r.pol \in SkPolicies
          /\ skghost.asked[r.key] \subseteq {r.pol} /\ (r.key \in SkIams => skiam[r.key].pol = r.pol)
      BY <1>0, <3>2 DEF WorkerFits
    <3>4. WorkerFits(r)
      BY <2>1, <3>2, <3>3 DEF WorkerFits, SkGens, SkDels
    <3>5. skw' = [skw EXCEPT ![w] = r]
      BY <1>1, <2>1, <3>1
    <3> QED
      BY <3>2, <3>4, <3>5
  <2>2. CASE ~((SkBucketReq(skw[w].pol, a, b) \/ SkObjectReq(skw[w].pol, a, b)) /\ skw[w].acc = skacc)
    <3>1. skw' = [skw EXCEPT ![w] = SkResting]
      BY <1>1, <2>2
    <3> QED
      BY <1>0, <3>1, RestFits DEF SkResting
  <2> QED
    BY <2>1, <2>2
<1>4. r.pc \notin SkGens /\ skw[w].pc \notin SkGens /\ skw[w].pc \notin SkDels
  BY <1>0, <1>3 DEF SkGens, SkDels
<1> QED
  BY <1>0, <1>2, <1>3, <1>4, OtherMoves

\* A request of a web site has no key.
LEMMA WebReads == ASSUME SkInv, NEW w \in SkWorkers, SkWebReq(w) \/ SkAnswer(w) PROVE SkInv'
<1>0. /\ SkTypes /\ skw[w].pc \in {"idle", "did"} /\ UNCHANGED <<skacc, skiam, skkey, skweb, skfaults, skghost>>
      /\ skops' \in {skops, skops + 1} /\ skops' \in SkNumber /\ skweb' \subseteq SkBuckets
  <2>1. SkTypes
    BY DEF SkInv
  <2>2. /\ skw[w].pc \in {"idle", "did"} /\ UNCHANGED <<skacc, skiam, skkey, skweb, skfaults, skghost>>
        /\ (skops' = skops \/ (skops' = skops + 1 /\ skops < SkMaxOps))
    BY DEF SkWebReq, SkAnswer, SkStart
  <2> QED
    BY <2>1, <2>2, KeyNumbers DEF SkTypes, SkNumber
<1>1. PICK r \in SkwRec : skw' = [skw EXCEPT ![w] = r] /\ WorkerFits(r) /\ r.pc \in {"idle", "did"}
  <2>1. ASSUME NEW b \in skweb, NEW a \in SkOfObject,
               skw' = [skw EXCEPT ![w] = [SkResting EXCEPT !.pc = "did", !.bkt = b, !.act = a]]
        PROVE  \E r \in SkwRec : skw' = [skw EXCEPT ![w] = r] /\ WorkerFits(r) /\ r.pc = "did"
    <3>1. PICK r : r = [SkResting EXCEPT !.pc = "did", !.bkt = b, !.act = a]
      OBVIOUS
    <3>2. b \in SkBuckets /\ a \in SkDeeds
      BY <1>0 DEF SkTypes, SkActs, SkDeeds
    <3>3. r \in SkwRec /\ r.pc = "did"
      BY <1>0, <3>1, <3>2, KeyNumbers DEF SkwRec, SkLabels
    <3>4. r.keys = {} /\ r.bad = FALSE /\ r.key = 0
      BY <3>1 DEF SkResting
    <3>5. WorkerFits(r)
      BY <3>3, <3>4 DEF WorkerFits, SkGens, SkDels
    <3> QED
      BY <2>1, <3>1, <3>3, <3>5
  <2>2. CASE SkEnds(w)
    BY <1>0, <2>2, RestFits DEF SkEnds, SkResting
  <2> QED
    BY <2>1, <2>2 DEF SkWebReq, SkAnswer, SkStart
<1>2. r.pc \notin SkGens /\ skw[w].pc \notin SkGens /\ skw[w].pc \notin SkDels
  BY <1>0, <1>1 DEF SkGens, SkDels
<1> QED
  BY <1>0, <1>1, <1>2, OtherMoves

LEMMA KeysStart == SkInit => SkInv
<1> SUFFICES ASSUME SkInit PROVE SkInv
  OBVIOUS
<1>1. SkMaxOps \in Nat /\ SkMaxFaults \in Nat /\ 0 \in SkNumber /\ SkIds \subseteq SkNumber
  BY SkAssumption DEF SkNumber, SkIds
<1>2. SkResting \in SkwRec /\ SkNoKey \in SkKeyRec /\ SkNoIam \in SkIamRec
  BY <1>1 DEF SkResting, SkwRec, SkLabels, SkNoKey, SkKeyRec, SkNoIam, SkIamRec
<1>3. SkTypes
  BY <1>1, <1>2 DEF SkInit, SkTypes, SkGhostRec
<1>4. SkMade = {} /\ SkKeys = {} /\ SkIams = {}
  BY DEF SkInit, SkMade, SkKeys, SkIams, SkNoKey, SkNoIam
<1>5. KeysFit /\ IamsFit
  BY <1>4 DEF SkInit, KeysFit, IamsFit, SkNoKey, SkIams
<1>6. \A w \in SkWorkers : skw[w] = SkResting
  BY DEF SkInit
<1>7. WorkersFit
  BY <1>3, <1>6, RestFits DEF WorkersFit, SkResting, SkGens
<1>8. NoStrayIam
  BY <1>4 DEF NoStrayIam
<1> QED
  BY <1>3, <1>5, <1>7, <1>8 DEF SkInv

LEMMA KeysInvHolds == SkSpec => []SkInv
<1>1. ASSUME SkInv, SkNext PROVE SkInv'
  <2>1. ASSUME NEW w \in SkWorkers, SkStep(w) PROVE SkInv'
    BY <1>1, <2>1, GenStarts, GenLists, GenMatches, GenIams, GenKeys, Unkeys, Unaccs, KeyIsTaken,
       DelIams, DelKeys, Authorizes, Acts, WebReads DEF SkStep
  <2> QED
    BY <1>1, <2>1, KeyExpires DEF SkNext
<1>2. ASSUME SkInv, UNCHANGED skVars PROVE SkInv'
  <2>1. SkMade' = SkMade /\ SkKeys' = SkKeys /\ SkIams' = SkIams /\ SkGoing' = SkGoing
    BY <1>2 DEF skVars, SkMade, SkKeys, SkIams, SkGoing
  <2>2. SkTypes' /\ KeysFit' /\ IamsFit' /\ NoStrayIam'
    BY <1>2, <2>1 DEF skVars, SkInv, SkTypes, KeysFit, IamsFit, NoStrayIam
  <2>3. WorkersFit'
    BY <1>2, <2>1 DEF skVars, SkInv, WorkersFit, WorkerFits
  <2> QED
    BY <2>2, <2>3 DEF SkInv
<1> QED
  BY <1>1, <1>2, KeysStart, PTL DEF SkSpec

\* What a policy that is not the root's allows is in its bucket, and is no action of
\* the namespace; the metrics are asked without a policy.
LEMMA PolicyKeeps ==
    ASSUME NEW p \in SkPolicies, p # SkRoot, NEW a \in SkDeeds \ SkOfAccount, NEW b,
           SkBucketReq(p, a, b) \/ SkObjectReq(p, a, b)
    PROVE  a \notin SkOfSpace /\ p.res \in {SkAny, b}
<1>1. PICK c \in SkBuckets : p = SkPolicy(c)
  BY DEF SkPolicies
<1>2. p.acts = SkPerBucket
  BY <1>1 DEF SkPolicy
<1>3. ~SkAllowed(p, "make")
  BY <1>2 DEF SkAllowed, SkPerBucket, SkOfSpace
<1> QED
  BY <1>3 DEF SkBucketReq, SkObjectReq, SkMayAccess, SkOfSpace, SkOfBucket, SkOfObject

\* The types of the keys' model (keys.go, iam.go).
THEOREM KeysTypes == SkSpec => []SkTypeOK
<1>1. SkInv => SkTypeOK
  BY DEF SkInv, SkTypes, SkTypeOK, SkKeyRec, SkIamRec, SkNumber, SkwRec, SkLabels
<1> QED
  BY <1>1, KeysInvHolds, PTL

\* A key does what it was given out for, as long as it was given out for, and
\* leaves nothing behind (genNewAccessKey, dbRemoveAccessKey, s3Authorize, Policy.MayAccess).
THEOREM KeysAreSound == SkSpec => []KeysSound
<1>1. ASSUME SkInv PROVE KeysSound
  <2>0. SkTypes /\ KeysFit /\ IamsFit /\ WorkersFit /\ NoStrayIam
    BY <1>1 DEF SkInv
  <2>1. KeyKeepsToPolicy
    <3> SUFFICES ASSUME NEW w \in SkWorkers, skw[w].pc = "did", skw[w].key # 0,
                        NEW p \in skghost.asked[skw[w].key], p # SkRoot, skw[w].act \notin SkOfAccount
                 PROVE  skw[w].act \notin SkOfSpace /\ p.res \in {SkAny, skw[w].bkt}
      BY DEF KeyKeepsToPolicy
    <3>1. WorkerFits(skw[w])
      BY <2>0 DEF WorkersFit
    <3>2. /\ p = skw[w].pol /\ p \in SkPolicies /\ skw[w].act \in SkDeeds
          /\ SkBucketReq(p, skw[w].act, skw[w].bkt) \/ SkObjectReq(p, skw[w].act, skw[w].bkt)
      BY <3>1 DEF WorkerFits
    <3> QED
      BY <3>2, PolicyKeeps
  <2>2. DeadKeyDoesNothing
    BY <2>0 DEF DeadKeyDoesNothing, WorkersFit, WorkerFits
  <2>3. LiveKeyWorks
    <3> SUFFICES ASSUME NEW k \in SkIds, k \in SkMade, k \notin skghost.revoked \cup skghost.hurt \cup SkGoing
                 PROVE  k \in SkKeys /\ skkey[k].iam \in SkIams /\ skkey[k].acc = skacc
      BY DEF LiveKeyWorks, SkMade
    <3>1. k \in SkKeys
      BY <2>0 DEF KeysFit, SkKeys
    <3> QED
      BY <2>0, <3>1 DEF KeysFit, IamsFit
  <2> QED
    BY <2>0, <2>1, <2>2, <2>3 DEF KeysSound
<1> QED
  BY <1>1, KeysInvHolds, PTL

-----------------------------------------------------------------------------
(* The proxy's side: who made a connection and did not put it under the    *)
(* key of the pod yet holds the proxy's lock.                              *)

Reads(c, k) == wdc[c].pc = "read" /\ wdc[c].via = k
ReaderFits(c) ==
    /\ wdc[c].pc \in {"dial", "read"} => plock = c /\ pmap = 0
    /\ wdc[c].via # 0 => conn[wdc[c].via].st # "new"
    /\ wdc[c].pc = "read" => \A d \in WdCalls : wdc[d].via = wdc[c].via => d = c
\* a connection that is open is under the key, or its maker is about to put it there
ConnFits(k) ==
    conn[k].st \in {"dialed", "got"} =>
        (pmap = k /\ conn[k].st = "got") \/ \E c \in WdCalls : Reads(c, k)
KeyFits == pmap # 0 => conn[pmap].st = "got"
ProxyFits ==
    /\ \A c \in WdCalls : ReaderFits(c)
    /\ \A k \in WdConns : ConnFits(k)
    /\ KeyFits

\* A step that neither opens nor shuts a connection nor moves a reader
LEMMA ProxyRests ==
    ASSUME ProxyFits, WdTypes, pmap' = pmap, plock' = plock,
           \A k \in WdConns : conn'[k].st = conn[k].st,
           \A d \in WdCalls : wdc'[d].via = wdc[d].via,
           \A d \in WdCalls, l \in {"dial", "read"} : wdc'[d].pc = l <=> wdc[d].pc = l
    PROVE  ProxyFits'
<1>1. \A d \in WdCalls : wdc[d].via \in {0} \cup WdConns
  BY ViaIsConn DEF WdTypes, CallRec
<1>2. \A d \in WdCalls : ReaderFits(d)'
  BY <1>1 DEF ProxyFits, ReaderFits
<1>3. \A k \in WdConns : ConnFits(k)'
  BY DEF ProxyFits, ConnFits, Reads
<1>4. KeyFits'
  BY ViaIsConn DEF ProxyFits, KeyFits, WdTypes
<1> QED
  BY <1>2, <1>3, <1>4 DEF ProxyFits

\* The label and the connection of a request after it moved
LEMMA CallNow ==
    ASSUME WdTypes, NEW c \in WdCalls, NEW r, wdc' = [wdc EXCEPT ![c] = r]
    PROVE  wdc'[c] = r /\ \A d \in WdCalls : d # c => wdc'[d] = wdc[d]
BY DEF WdTypes

LEMMA GotoNow ==
    ASSUME WdTypes, NEW c \in WdCalls, NEW l, WdGoto(c, l)
    PROVE  /\ wdc'[c].pc = l /\ wdc'[c].via = wdc[c].via
           /\ \A d \in WdCalls : d # c => wdc'[d] = wdc[d]
BY DEF WdTypes, CallRec, WdGoto

LEMMA ShutNow ==
    ASSUME WdTypes, NEW k \in WdConns, conn' = Shut(k)
    PROVE  conn'[k].st = "shut" /\ \A j \in WdConns : j # k => conn'[j] = conn[j]
BY DEF WdTypes, ConnRec, Shut

\* The locks of a connection say nothing of its state.
LEMMA SetLockNow ==
    ASSUME WdTypes, NEW c \in WdCalls, NEW v, SetLock(c, v)
    PROVE  \A k \in WdConns : conn'[k].st = conn[k].st
BY ViaIsConn DEF WdTypes, ConnRec, CallRec, SetLock

LEMMA ProxyQuietStep ==
    ASSUME WdInv, ProxyFits, NEW c \in WdCalls,
           WdArrive(c) \/ WdLock(c) \/ WdSend(c) \/ WdRecv(c) \/ WdEof(c) \/ WdTimeout(c) \/ RestartLocal(c)
    PROVE  ProxyFits'
<1>0. WdTypes
  BY DEF WdInv
<1>1. pmap' = pmap /\ plock' = plock
  BY DEF WdArrive, WdLock, WdSend, WdRecv, WdEof, WdTimeout, RestartLocal
<1>2. \A k \in WdConns : conn'[k].st = conn[k].st
  <2>1. CASE WdLock(c)
    BY <1>0, <2>1, SetLockNow DEF WdLock
  <2>2. CASE WdRecv(c)
    BY <1>0, <2>2, SetLockNow DEF WdRecv
  <2> QED
    BY <2>1, <2>2 DEF WdArrive, WdSend, WdEof, WdTimeout, RestartLocal
<1>3. wdc[c].pc \notin {"dial", "read"}
  BY DEF WdArrive, WdLock, WdSend, WdRecv, WdEof, WdTimeout, RestartLocal
<1>4. /\ wdc'[c].pc \notin {"dial", "read"} /\ wdc'[c].via = wdc[c].via
      /\ \A d \in WdCalls : d # c => wdc'[d] = wdc[d]
  <2>1. CASE \E l \in {"dlock", "load", "send", "failed", "recv", "restart"} : WdGoto(c, l)
    BY <1>0, <2>1, GotoNow
  <2>2. CASE WdRecv(c) /\ ~ WdGoto(c, "restart")
    BY <1>0, <2>2 DEF WdRecv, WdTypes, CallRec
  <2> QED
    BY <2>1, <2>2 DEF WdArrive, WdLock, WdSend, WdRecv, WdEof, WdTimeout, RestartLocal, WdFail
<1> QED
  BY <1>0, <1>1, <1>2, <1>3, <1>4, ProxyRests

LEMMA ProxyCallStep ==
    ASSUME WdInv, ProxyFits, NEW c \in WdCalls,
           RestartProxy(c) \/ ProxyLoad(c) \/ ProxyLock(c) \/ ProxyDial(c) \/ ProxyRead(c)
    PROVE  ProxyFits'
<1>0. WdTypes /\ pmap \in {0} \cup WdConns /\ plock \in WdCalls \cup {NoCall} /\ NoCall \notin WdCalls
      /\ (\A d \in WdCalls : wdc[d].via \in {0} \cup WdConns)
  BY ViaIsConn, WdAssumption DEF WdInv, WdTypes, CallRec
<1>a. \A k \in WdConns : k # 0
  BY DEF WdConns
<1>b. \A d \in WdCalls : ReaderFits(d)
  BY DEF ProxyFits
<1>c. \A k \in WdConns : ConnFits(k)
  BY DEF ProxyFits
<1>d. \A d \in WdCalls : wdc[d].pc = "read" => wdc[d].via # 0
  BY DEF WdInv, LocksHeld, HeldBy
<1>1. ASSUME RestartProxy(c) PROVE ProxyFits'
  <2> DEFINE k == wdc[c].via
  <2>1. k \in WdConns /\ conn[k].st = "got" /\ wdc[c].pc = "restart"
    BY <1>0, <1>1 DEF RestartProxy, WdInv, LocksHeld, HeldBy, InUse
  <2>2. conn' = Shut(k) /\ pmap' = 0 /\ plock' = plock /\ WdGoto(c, "failed")
    BY <1>1 DEF RestartProxy, WdFail
  <2> HIDE DEF k
  <2>3. conn'[k].st = "shut" /\ \A j \in WdConns : j # k => conn'[j] = conn[j]
    BY <1>0, <2>1, <2>2, ShutNow
  <2>4. wdc'[c].pc = "failed" /\ wdc'[c].via = wdc[c].via /\ \A d \in WdCalls : d # c => wdc'[d] = wdc[d]
    BY <1>0, <2>2, GotoNow
  <2>5. pmap = k
    BY <1>b, <1>c, <2>1 DEF ConnFits, Reads, ReaderFits, k
  <2>6. ASSUME NEW d \in WdCalls PROVE ReaderFits(d)'
    BY <1>0, <1>b, <2>2, <2>3, <2>4 DEF ReaderFits
  <2>7. ASSUME NEW j \in WdConns PROVE ConnFits(j)'
    BY <1>c, <2>1, <2>3, <2>4, <2>5 DEF ConnFits, Reads
  <2> QED
    BY <2>2, <2>6, <2>7 DEF ProxyFits, KeyFits
<1>2. ASSUME ProxyLoad(c) PROVE ProxyFits'
  <2>1. /\ wdc[c].pc = "load" /\ pmap' = pmap /\ plock' = plock /\ conn' = conn
        /\ wdc' = [wdc EXCEPT ![c].pc = IF pmap # 0 THEN "clock" ELSE "plock", ![c].via = pmap]
    BY <1>2 DEF ProxyLoad
  <2>2. /\ wdc'[c].pc \in {"clock", "plock"} /\ wdc'[c].via = pmap
        /\ \A d \in WdCalls : d # c => wdc'[d] = wdc[d]
    BY <1>0, <2>1 DEF WdTypes, CallRec
  <2>3. ASSUME NEW d \in WdCalls PROVE ReaderFits(d)'
    <3>1. d # c /\ wdc[d].pc = "read" => wdc[d].via # pmap
      BY <1>b, <1>d DEF ReaderFits
    <3> QED
      BY <1>0, <1>b, <2>1, <2>2, <3>1 DEF ReaderFits, ProxyFits, KeyFits
  <2>4. ASSUME NEW j \in WdConns PROVE ConnFits(j)'
    <3>1. \A d \in WdCalls : Reads(d, j) => Reads(d, j)'
      BY <2>1, <2>2 DEF Reads
    <3> QED
      BY <1>c, <2>1, <3>1 DEF ConnFits
  <2> QED
    BY <2>1, <2>3, <2>4 DEF ProxyFits, KeyFits
<1>3. ASSUME ProxyLock(c) PROVE ProxyFits'
  <2>1. wdc[c].pc = "plock" /\ plock = NoCall /\ pmap' = pmap /\ conn' = conn /\ wdc[c].via = 0
    BY <1>3 DEF ProxyLock, WdInv, LocksHeld, HeldBy
  <2>2. CASE pmap # 0
    <3>1. wdc' = [wdc EXCEPT ![c].pc = "clock", ![c].via = pmap] /\ plock' = plock
      BY <1>3, <2>2 DEF ProxyLock
    <3>2. wdc'[c].pc = "clock" /\ wdc'[c].via = pmap /\ \A d \in WdCalls : d # c => wdc'[d] = wdc[d]
      BY <1>0, <3>1 DEF WdTypes, CallRec
    <3>3. ASSUME NEW d \in WdCalls PROVE ReaderFits(d)'
      BY <1>0, <1>b, <2>1, <3>1, <3>2, <2>2 DEF ReaderFits, ProxyFits, KeyFits
    <3>4. ASSUME NEW j \in WdConns PROVE ConnFits(j)'
      BY <1>c, <2>1, <3>2 DEF ConnFits, Reads
    <3> QED
      BY <2>1, <3>3, <3>4 DEF ProxyFits, KeyFits
  <2>3. CASE pmap = 0
    <3>1. WdGoto(c, "dial") /\ plock' = c
      BY <1>3, <2>3 DEF ProxyLock
    <3>2. wdc'[c].pc = "dial" /\ wdc'[c].via = wdc[c].via /\ \A d \in WdCalls : d # c => wdc'[d] = wdc[d]
      BY <1>0, <3>1, GotoNow
    <3>3. ASSUME NEW d \in WdCalls PROVE ReaderFits(d)'
      BY <1>0, <1>b, <2>1, <3>1, <3>2, <2>3 DEF ReaderFits
    <3>4. ASSUME NEW j \in WdConns PROVE ConnFits(j)'
      BY <1>c, <2>1, <3>2 DEF ConnFits, Reads
    <3> QED
      BY <2>1, <2>3, <3>3, <3>4 DEF ProxyFits, KeyFits
  <2> QED
    BY <2>2, <2>3
<1>4. ASSUME ProxyDial(c) PROVE ProxyFits'
  <2>1. PICK k \in WdConns :
           /\ conn[k].st = "new" /\ conn' = [conn EXCEPT ![k].st = "dialed", ![k].wd = TRUE]
           /\ wdc' = [wdc EXCEPT ![c].pc = "read", ![c].via = k]
    BY <1>4 DEF ProxyDial
  <2>2. wdc[c].pc = "dial" /\ pmap' = pmap /\ plock' = plock
    BY <1>4 DEF ProxyDial
  <2>3. wdc'[c].pc = "read" /\ wdc'[c].via = k /\ \A d \in WdCalls : d # c => wdc'[d] = wdc[d]
    BY <1>0, <2>1 DEF WdTypes, CallRec
  <2>4. conn'[k].st = "dialed" /\ \A j \in WdConns : j # k => conn'[j] = conn[j]
    BY <1>0, <2>1 DEF WdTypes, ConnRec
  <2>5. plock = c /\ pmap = 0
    BY <1>b, <2>2 DEF ReaderFits
  <2>6. ASSUME NEW d \in WdCalls PROVE ReaderFits(d)'
    <3>1. wdc[d].via # k
      BY <1>a, <1>b, <2>1 DEF ReaderFits
    <3>2. d # c => wdc[d].pc \notin {"dial", "read"}
      BY <1>b, <2>5 DEF ReaderFits
    <3>3. wdc'[d].via # 0 => conn'[wdc'[d].via].st # "new"
      BY <1>0, <1>b, <2>3, <2>4 DEF ReaderFits
    <3>4. wdc'[d].pc \in {"dial", "read"} => d = c
      BY <2>3, <3>2
    <3>5. wdc'[d].pc = "read" => \A e \in WdCalls : wdc'[e].via = wdc'[d].via => e = d
      <4>1. \A e \in WdCalls : wdc[e].via # k
        BY <1>a, <1>b, <2>1 DEF ReaderFits
      <4> QED
        BY <2>3, <3>4, <4>1
    <3> QED
      BY <2>2, <2>5, <3>3, <3>4, <3>5 DEF ReaderFits
  <2>7. ASSUME NEW j \in WdConns PROVE ConnFits(j)'
    BY <1>c, <2>2, <2>3, <2>4 DEF ConnFits, Reads
  <2> QED
    BY <2>2, <2>5, <2>6, <2>7 DEF ProxyFits, KeyFits
<1>5. ASSUME ProxyRead(c) PROVE ProxyFits'
  <2> DEFINE k == wdc[c].via
  <2>1. wdc[c].pc = "read" /\ plock' = NoCall /\ plock = c /\ pmap = 0 /\ k \in WdConns
    BY <1>0, <1>5, <1>b DEF ProxyRead, ReaderFits, WdInv, LocksHeld, HeldBy
  <2>2. \A d \in WdCalls : d # c => wdc[d].via # k /\ wdc[d].pc \notin {"dial", "read"}
    BY <1>b, <2>1 DEF ReaderFits
  <2>3. CASE conn[k].st = "got" /\ pmap' = k /\ WdGoto(c, "clock") /\ conn' = conn
    <3>1. wdc'[c].pc = "clock" /\ wdc'[c].via = k /\ \A d \in WdCalls : d # c => wdc'[d] = wdc[d]
      BY <1>0, <2>3, GotoNow
    <3>2. ASSUME NEW d \in WdCalls PROVE ReaderFits(d)'
      BY <1>b, <2>1, <2>2, <2>3, <3>1 DEF ReaderFits
    <3>3. ASSUME NEW j \in WdConns PROVE ConnFits(j)'
      BY <1>a, <1>c, <2>1, <2>2, <2>3, <3>1 DEF ConnFits, Reads
    <3> QED
      BY <2>3, <3>2, <3>3 DEF ProxyFits, KeyFits
  <2>4. CASE conn' = Shut(k) /\ WdFail(c) /\ pmap' = pmap
    <3>1. wdc'[c].pc = "failed" /\ wdc'[c].via = k /\ \A d \in WdCalls : d # c => wdc'[d] = wdc[d]
      BY <1>0, <2>4, GotoNow DEF WdFail
    <3>2. conn'[k].st = "shut" /\ \A j \in WdConns : j # k => conn'[j] = conn[j]
      BY <1>0, <2>1, <2>4, ShutNow
    <3>3. ASSUME NEW d \in WdCalls PROVE ReaderFits(d)'
      BY <1>0, <1>b, <2>1, <2>2, <2>4, <3>1, <3>2 DEF ReaderFits
    <3>4. ASSUME NEW j \in WdConns PROVE ConnFits(j)'
      BY <1>a, <1>c, <2>1, <2>2, <2>4, <3>1, <3>2 DEF ConnFits, Reads
    <3> QED
      BY <2>1, <2>4, <3>3, <3>4 DEF ProxyFits, KeyFits
  <2> QED
    BY <1>5, <2>3, <2>4 DEF ProxyRead
<1> QED
  BY <1>1, <1>2, <1>3, <1>4, <1>5

LEMMA ProxyConnStep ==
    ASSUME WdInv, ProxyFits, NEW k \in WdConns,
           ProxyWatch(k) \/ CrAccept(k) \/ CrBack(k) \/ CrSkip(k)
    PROVE  ProxyFits'
<1>0. WdTypes /\ pmap \in {0} \cup WdConns /\ (\A d \in WdCalls : wdc[d].via \in {0} \cup WdConns)
  BY ViaIsConn DEF WdInv, WdTypes, CallRec
<1>a. \A j \in WdConns : j # 0
  BY DEF WdConns
<1>b. \A d \in WdCalls : ReaderFits(d)
  BY DEF ProxyFits
<1>c. \A j \in WdConns : ConnFits(j)
  BY DEF ProxyFits
<1>1. ASSUME ProxyWatch(k) PROVE ProxyFits'
  <2>1. pmap = k /\ conn' = Shut(k) /\ pmap' = 0 /\ plock' = plock /\ wdc' = wdc
    BY <1>1 DEF ProxyWatch
  <2>2. conn'[k].st = "shut" /\ \A j \in WdConns : j # k => conn'[j] = conn[j]
    BY <1>0, <2>1, ShutNow
  <2>3. ASSUME NEW d \in WdCalls PROVE ReaderFits(d)'
    BY <1>0, <1>b, <2>1, <2>2 DEF ReaderFits
  <2>4. ASSUME NEW j \in WdConns PROVE ConnFits(j)'
    BY <1>a, <1>c, <2>1, <2>2 DEF ConnFits, Reads
  <2> QED
    BY <2>1, <2>3, <2>4 DEF ProxyFits, KeyFits
<1>2. ASSUME CrAccept(k) PROVE ProxyFits'
  <2>1. /\ conn[k].st = "dialed" /\ conn' = [conn EXCEPT ![k].st = "got", ![k].gen = gen]
        /\ pmap' = pmap /\ plock' = plock /\ wdc' = wdc
    BY <1>2 DEF CrAccept
  <2>2. conn'[k].st = "got" /\ \A j \in WdConns : j # k => conn'[j] = conn[j]
    BY <1>0, <2>1 DEF WdTypes, ConnRec
  <2>3. ASSUME NEW d \in WdCalls PROVE ReaderFits(d)'
    BY <1>0, <1>b, <2>1, <2>2 DEF ReaderFits
  <2>4. ASSUME NEW j \in WdConns PROVE ConnFits(j)'
    BY <1>c, <2>1, <2>2 DEF ConnFits, Reads
  <2>5. KeyFits'
    BY <1>0, <2>1, <2>2 DEF ProxyFits, KeyFits
  <2> QED
    BY <2>3, <2>4, <2>5 DEF ProxyFits
<1>3. ASSUME CrBack(k) \/ CrSkip(k) PROVE ProxyFits'
  <2>1. conn' = [conn EXCEPT ![k].wd = FALSE] /\ pmap' = pmap /\ plock' = plock /\ wdc' = wdc
    BY <1>3 DEF CrBack, CrSkip
  <2>2. \A j \in WdConns : conn'[j].st = conn[j].st
    BY <1>0, <2>1 DEF WdTypes, ConnRec
  <2> QED
    BY <1>0, <2>1, <2>2, ProxyRests
<1> QED
  BY <1>1, <1>2, <1>3

LEMMA ProxyCrashStep ==
    ASSUME WdInv, ProxyFits, WdogCrash \/ ProxyCrash
    PROVE  ProxyFits'
<1>0. WdTypes /\ (\A d \in WdCalls : wdc[d].via \in {0} \cup WdConns)
  BY ViaIsConn DEF WdInv, WdTypes, CallRec
<1>1. CASE WdogCrash
  <2>1. /\ conn' = [j \in WdConns |-> [conn[j] EXCEPT !.wd = FALSE]] /\ pmap' = pmap /\ plock' = plock
        /\ wdc' = [c \in WdCalls |-> IF Direct(c) THEN [wdc[c] EXCEPT !.pc = "failed"] ELSE wdc[c]]
    BY <1>1 DEF WdogCrash, FailAll
  <2>2. \A j \in WdConns : conn'[j].st = conn[j].st
    BY <1>0, <2>1 DEF WdTypes, ConnRec
  <2>3. \A d \in WdCalls : /\ wdc'[d].via = wdc[d].via
                           /\ \A l \in {"dial", "read"} : wdc'[d].pc = l <=> wdc[d].pc = l
    BY <1>0, <2>1 DEF WdTypes, CallRec, Direct
  <2> QED
    BY <1>0, <2>1, <2>2, <2>3, ProxyRests
<1>2. CASE ProxyCrash
  <2>1. /\ conn' = [j \in WdConns |-> IF conn[j].st = "new" THEN conn[j] ELSE Shut(j)[j]]
        /\ pmap' = 0 /\ plock' = NoCall
        /\ wdc' = [c \in WdCalls |-> IF Proxied(c) THEN [wdc[c] EXCEPT !.pc = "failed"] ELSE wdc[c]]
    BY <1>2 DEF ProxyCrash, FailAll
  <2>2. \A j \in WdConns : conn'[j].st = IF conn[j].st = "new" THEN "new" ELSE "shut"
    BY <1>0, <2>1 DEF WdTypes, ConnRec, Shut
  <2>3. \A d \in WdCalls : wdc'[d].via = wdc[d].via /\ wdc'[d].pc \notin {"dial", "read"}
    BY <1>0, <2>1 DEF WdTypes, CallRec, Proxied
  <2>4. ASSUME NEW d \in WdCalls PROVE ReaderFits(d)'
    BY <1>0, <2>2, <2>3 DEF ReaderFits, ProxyFits
  <2>5. ASSUME NEW j \in WdConns PROVE ConnFits(j)'
    BY <2>2 DEF ConnFits
  <2> QED
    BY <2>1, <2>4, <2>5 DEF ProxyFits, KeyFits
<1> QED
  BY <1>1, <1>2

LEMMA ProxyFitsHolds == WdSpec => []ProxyFits
<1>1. WdInit => ProxyFits
  BY DEF WdInit, ProxyFits, ReaderFits, ConnFits, KeyFits, WdIdle, NewConn
<1>2. WdInv /\ ProxyFits /\ [WdNext]_wdVars => ProxyFits'
  <2> SUFFICES ASSUME WdInv, ProxyFits, [WdNext]_wdVars PROVE ProxyFits'
    OBVIOUS
  <2>1. ASSUME NEW g \in WdGens, RunnerTake(g) \/ RunnerReturn(g) \/ RunnerExit(g) PROVE ProxyFits'
    <3>1. UNCHANGED <<conn, pmap, plock, wdc>>
      BY <2>1 DEF RunnerTake, RunnerReturn, RunnerExit
    <3> QED
      BY <3>1, ProxyRests DEF WdInv
  <2>2. CASE UNCHANGED wdVars
    BY <2>2, ProxyRests DEF WdInv, wdVars
  <2> QED
    BY <2>1, <2>2, ProxyQuietStep, ProxyCallStep, ProxyConnStep, ProxyCrashStep DEF WdNext, WdCallStep
<1> QED
  BY <1>1, <1>2, WdInvHolds, PTL DEF WdSpec

\* The types of the watchdog's and the proxy's state; what the proxy finds under the
\* key of a pod is a queue it holds, and no other is open but that of whoever is
\* about to put it there (handleProxy, restartProxy).
THEOREM WdogTypes == WdSpec => []WdTypeOK
<1>1. WdInv /\ ProxyFits => WdTypeOK
  <2> SUFFICES ASSUME WdInv, ProxyFits PROVE WdTypeOK
    OBVIOUS
  <2>1. \A g \in WdGens : g > gen => q[g] = DeadQ
    <3>1. gen \in Nat /\ \A g \in WdGens : g \in Nat
      BY DEF WdInv, WdTypes, WdGens
    <3> QED
      BY <3>1 DEF WdInv, OneMessage
  <2>2. \A k \in WdConns : conn[k].st = "got" /\ k # pmap => \E c \in WdCalls : wdc[c].pc = "read"
    BY DEF ProxyFits, ConnFits, Reads
  <2> QED
    BY <2>1, <2>2 DEF WdInv, WdTypes, WdTypeOK, ConnRec, CallRec, ProxyFits, KeyFits
<1> QED
  BY <1>1, WdInvHolds, ProxyFitsHolds, PTL

-----------------------------------------------------------------------------
(* The node: one behaviour of one part, the others standing still.         *)

\* A behaviour of MCNode is one of every part.
LEMMA NodeParts ==
  NodeSpec =>
    /\ WdSpec /\ XqSpec /\ XwSpec /\ TpSpec /\ DqSpec /\ DrSpec /\ UsSpec
    /\ SkSpec /\ SuSpec /\ SrSpec /\ SlSpec
<1>1. NodeInit =>
        /\ WdInit /\ XqInit /\ XwInit /\ TpInit /\ DqInit /\ DrInit /\ UsInit
        /\ SkInit /\ SuInit /\ SrInit /\ SlInit
  BY DEF NodeInit
<1>2. [NodeNext]_nodeVars =>
        /\ [WdNext]_wdVars /\ [XqNext]_xqVars /\ [XwNext]_xwVars /\ [TpNext]_tpVars
        /\ [DqNext]_dqVars /\ [DrNext]_drVars /\ [UsNext]_usVars
        /\ [SkNext]_skVars /\ [SuNext]_suVars /\ [SrNext]_srVars /\ [SlNext]_slVars
  BY DEF NodeNext, nodeVars, queueVars, dbVars, s3Vars
<1>3. QED BY <1>1, <1>2, PTL DEF NodeSpec, WdSpec, XqSpec, XwSpec, TpSpec, DqSpec, DrSpec,
                               UsSpec, SkSpec, SuSpec, SrSpec, SlSpec

\* The proxies of one node keep both promises of a database: its size overruns the
\* quota by no more than the checks that wait allow, and requests are paced by the
\* entry that is in the cache (mgo/quota.go, mgo/ratelimit.go).
THEOREM NodeDatabases == NodeSpec => []DbSound
<1>1. QuotaOverrunBounded /\ RatePaced /\ CachedIsServed => DbSound
  BY DEF DbSound
<1>2. QED BY <1>1, NodeParts, QuotaIsKept, RatesKept, PTL

\* No step of the node undoes an event sent to a waiter, the newest snapshot of a
\* user's traffic or the deletion of a plan (xwait.go, scrapers/s3, admd).
THEOREM NodeStepsHold == NodeSpec => NodeSteps
<1>1. XwNoEventLost /\ NewestSnapshotStays /\ DeletedPlanStays => NodeSteps
  BY DEF NodeSteps
<1>2. QED BY <1>1, NodeParts, EventsNotLost, NewestStays, PlansStay, PTL

\* Bytes arrive as they were sent: messages over the socket of a runner, requests
\* through a proxy, the range of an object and the list of a bucket (xqueue,
\* tcproxy, s3/handlers.go, s3/bucket.go).
THEOREM NodeBytes == NodeSpec => []BytesSound
<1>1. (XqTypeOK /\ XqRoundTrip) /\ (TpTypeOK /\ WholeRequests /\ NothingAfterRefusal)
        /\ (SrTypeOK /\ RangeIsExact) /\ (SlTypeOK /\ ListIsWhole) => BytesSound
  BY DEF BytesSound
<1>2. QED BY <1>1, NodeParts, MessagesArriveWhole, RequestsArrive, RangesAreExact, ListsAreWhole, PTL

\* The variables of every part keep their types, for any number of calls, messages,
\* requests, connections, users, keys and objects (wdog, common, mgo, admd, s3).
THEOREM NodeTypes == NodeSpec => []NodeTypeOK
<1>1. /\ WdTypeOK /\ (XqTypeOK /\ XqRoundTrip) /\ XwTypeOK
      /\ (TpTypeOK /\ WholeRequests /\ NothingAfterRefusal) /\ DqTypeOK /\ DrTypeOK
      /\ UsTypeOK /\ SkTypeOK /\ SuTypeOK /\ (SrTypeOK /\ RangeIsExact) /\ (SlTypeOK /\ ListIsWhole)
      => NodeTypeOK
  BY DEF NodeTypeOK
<1>2. QED BY <1>1, NodeParts, WdogTypes, MessagesArriveWhole, WaitTypes, RequestsArrive, QuotaTypes,
             RatesTypes, UsersTypes, KeysTypes, UsageTypes, RangesAreExact, ListsAreWhole, PTL
=============================================================================
