------------------------------- MODULE XQueue -------------------------------
(***************************************************************************)
(* Messages over the packet socket between the watchdog and the runner     *)
(* (common/xqueue): a message is cut into packets of XqChunk bytes, and    *)
(* the first shorter packet ends it.  A message whose length is a multiple *)
(* of XqChunk gets a zero byte at its end, and the receiver drops a zero   *)
(* it finds there.  That is the watchdog's side; the runners of languages  *)
(* other than Go (wdog/runner) have their own code, which cuts messages    *)
(* the same way or not.  Bytes are 0 and others.                           *)
(***************************************************************************)
EXTENDS Integers, Sequences, SequencesExt

CONSTANTS
    XqChunk,   \* qChunk
    XqBytes,   \* byte values, 0 among them
    XqMaxLen,  \* longest message
    XqMaxMsgs  \* messages sent in a row

ASSUME XqChunkAssumption == XqChunk \in Nat \ {0, 1} /\ 0 \in XqBytes /\ XqMaxLen \in Nat /\ XqMaxMsgs \in Nat

VARIABLES
    xqway,   \* who sends to whom: the watchdog (go) is one of the two
    xqsent,  \* messages that were sent
    xqpkts,  \* packets in the socket
    xqacc,   \* what recvBytes has put together
    xqgot    \* messages that were received

xqVars == <<xqway, xqsent, xqpkts, xqacc, xqgot>>

XqMessages == UNION {[1 .. n -> XqBytes] : n \in 0 .. XqMaxLen}

\* py stands for Ruby's runner too, cs for Swift's
XqLangs == {"go", "js", "py", "cs"}
XqWays == {<<"go", l>> : l \in XqLangs} \cup {<<l, "go">> : l \in XqLangs}

XqTypeOK ==
    /\ xqway \in XqWays
    /\ \A i \in DOMAIN xqpkts : Len(xqpkts[i]) \in 1 .. (IF xqway[1] = "cs" THEN XqMaxLen ELSE XqChunk)
    /\ xqway[2] # "cs" => Len(xqgot) <= Len(xqsent)

XqInit == xqway = <<"go", "go">> /\ xqsent = <<>> /\ xqpkts = <<>> /\ xqacc = <<>> /\ xqgot = <<>>

Padded_Not(m) == IF m = <<>> THEN <<0>> ELSE m

\* SendBytes: a last packet of full size would not end the message
Padded(m) == IF Len(m) % XqChunk = 0 THEN Append(m, 0) ELSE m

\* split: the i-th packet of a message
Packets(m) ==
    [i \in 1 .. (Len(m) + XqChunk - 1) \div XqChunk |->
        SubSeq(m, (i - 1) * XqChunk + 1, IF i * XqChunk < Len(m) THEN i * XqChunk ELSE Len(m))]

\* send and sendmsg of the runners: JavaScript pads as SendBytes does, Python does
\* not, C# writes the message in one packet
JsSend(m) == Packets(Padded(m))
PySend(m) == Packets(m)
CsSend(m) == IF m = <<>> THEN <<>> ELSE <<m>>

XqSend(m) ==
    /\ Len(xqsent) < XqMaxMsgs
    /\ xqsent' = Append(xqsent, m)
    /\ xqpkts' = xqpkts \o CASE xqway[1] = "go" -> Packets(Padded(m))
                              [] xqway[1] = "js" -> JsSend(m)
                              [] xqway[1] = "py" -> PySend(m)
                              [] xqway[1] = "cs" -> CsSend(m)
    /\ UNCHANGED <<xqway, xqacc, xqgot>>

\* A read returns at most XqChunk bytes, and the socket drops the rest of the packet
XqNextPacket == LET p == Head(xqpkts) IN SubSeq(p, 1, IF Len(p) < XqChunk THEN Len(p) ELSE XqChunk)

\* Another read of the same message
XqMore(p) ==
    /\ xqacc' = xqacc \o p /\ UNCHANGED xqgot
XqWhole(body) ==
    /\ xqgot' = Append(xqgot, xqacc \o body) /\ xqacc' = <<>>

\* recvBytes: a full packet is kept, a shorter one ends the message
GoRecv(p) ==
    IF Len(p) < XqChunk THEN XqWhole(IF Last(p) = 0 THEN Front(p) ELSE p) ELSE XqMore(p)
\* recv and readmsg of JavaScript and Python: a zero at the end stays
JsRecv(p) == IF Len(p) < XqChunk THEN XqWhole(p) ELSE XqMore(p)
PyRecv(p) == IF Len(p) < XqChunk THEN XqWhole(p) ELSE XqMore(p)
\* C#: one read, one message
CsRecv(p) == XqWhole(p)

XqRead ==
    /\ xqpkts # <<>> /\ xqpkts' = Tail(xqpkts)
    /\ CASE xqway[2] = "go" -> GoRecv(XqNextPacket)
         [] xqway[2] = "js" -> JsRecv(XqNextPacket)
         [] xqway[2] = "py" -> PyRecv(XqNextPacket)
         [] xqway[2] = "cs" -> CsRecv(XqNextPacket)
    /\ UNCHANGED <<xqway, xqsent>>

\* The language of the function, and which of the two directions is looked at
XqTalk ==
    /\ xqway = <<"go", "go">> /\ xqsent = <<>> /\ xqway' \in XqWays
    /\ UNCHANGED <<xqsent, xqpkts, xqacc, xqgot>>

XqNext == XqTalk \/ (\E m \in XqMessages : XqSend(m)) \/ XqRead

XqSpec == XqInit /\ [][XqNext]_xqVars

-----------------------------------------------------------------------------
\* What the watchdog makes of a message: the same, but for a zero byte at the end
\* of one whose length is no multiple of XqChunk, which is taken for padding.
Received(m) ==
    IF xqway[2] = "go" /\ Len(m) % XqChunk # 0 /\ Last(m) = 0 THEN Front(m) ELSE m

\* The messages a runner's own code handles: C# those below one packet, Python those
\* that need no padding, JavaScript every one it sends.
Handled(m) ==
    /\ "cs" \in {xqway[1], xqway[2]} => m # <<>> /\ Len(m) < XqChunk
    /\ xqway[1] = "py" \/ xqway[2] \in {"js", "py"} => Len(m) % XqChunk # 0

\* Messages arrive whole, one by one and in order, whatever their lengths, between
\* the watchdog and a runner in Go, and to the first one a runner in another
\* language does not handle (xqueue SendBytes and recvBytes, wdog/runner): an answer
\* of Python of just 1024 bytes never ends, and the next one is taken for its rest.
XqRoundTrip ==
    \A i \in DOMAIN xqgot :
        (\A j \in 1 .. i : Handled(xqsent[j])) => xqgot[i] = Received(xqsent[i])
=============================================================================
