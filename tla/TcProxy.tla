------------------------------ MODULE TcProxy ------------------------------
(***************************************************************************)
(* One connection through a database proxy (common/tcproxy, the requests   *)
(* of proxies/mgo and proxies/maria): a goroutine reads what the client    *)
(* sends, collects it until it holds a request, has the modules look at it *)
(* and passes it on; another one passes the answers back.  The stream is   *)
(* the numbers of its bytes; TpLens are the lengths of the requests in it. *)
(***************************************************************************)
EXTENDS Integers, Sequences

CONSTANTS
    TpLens,    \* lengths of the requests the client sends, header included
    TpHeader,  \* length of the header
    TpRead     \* most that one read returns (fwdSize)

ASSUME TpLensAssumption ==
    /\ TpHeader \in Nat /\ TpRead \in Nat \ {0}
    /\ TpLens \in Seq(Nat) /\ \A i \in DOMAIN TpLens : TpLens[i] >= TpHeader

\* Where the first n requests end
EndOf[n \in 0 .. Len(TpLens)] == IF n = 0 THEN 0 ELSE EndOf[n - 1] + TpLens[n]
Total == EndOf[Len(TpLens)]

VARIABLES
    tpproto,  \* mongo or maria
    tpsent,   \* bytes the client has written
    tpread,   \* bytes the proxy has read: collected are those after tpfwd
    tpfwd,    \* bytes given to the server
    tppassed, \* requests that the modules let through
    tprefuse, \* the request that was refused, 0 for none
    tping,    \* the goroutine of requests: read, try, done
    tpoug,    \* the goroutine of answers: run, done
    tphandle, \* handle: both, halfing (after done_ing), halfoug, ended
    tpclient, \* the client's end: open, closed
    tpserver, \* the server's end: open, half (it was told the end), closed
    tptorn    \* ghost: bytes were passed on that had not been read

tpVars == <<tpproto, tpsent, tpread, tpfwd, tppassed, tprefuse, tping, tpoug, tphandle, tpclient, tpserver, tptorn>>

TpTypeOK ==
    /\ tpproto \in {"mongo", "maria"} /\ tptorn \in BOOLEAN
    /\ tpread \in 0 .. tpsent /\ tpsent \in 0 .. Total
    /\ tppassed \in 0 .. Len(TpLens) /\ tprefuse \in 0 .. Len(TpLens)
    /\ tping \in {"read", "try", "done"} /\ tpoug \in {"run", "done"}
    /\ tphandle \in {"both", "halfing", "halfoug", "ended"}
    /\ tphandle = "ended" => tping = "done" /\ tpoug = "done"

TpInit ==
    /\ tpproto = "mongo" /\ tpsent = 0 /\ tpread = 0 /\ tpfwd = 0
    /\ tppassed = 0 /\ tprefuse = 0
    /\ tping = "read" /\ tpoug = "run" /\ tphandle = "both"
    /\ tpclient = "open" /\ tpserver = "open" /\ tptorn = FALSE

\* Which of the two proxies it is
TpMaria ==
    /\ tpsent = 0 /\ tpproto = "mongo" /\ tpproto' = "maria"
    /\ UNCHANGED <<tpsent, tpread, tpfwd, tppassed, tprefuse, tping, tpoug, tphandle, tpclient, tpserver, tptorn>>

-----------------------------------------------------------------------------
(* Client and server.  External.                                           *)

TpWrite(n) ==
    /\ tpclient = "open" /\ tpsent + n <= Total /\ tpsent' = tpsent + n
    /\ UNCHANGED <<tpproto, tpread, tpfwd, tppassed, tprefuse, tping, tpoug, tphandle, tpclient, tpserver, tptorn>>

TpClientClose ==
    /\ tpclient = "open" /\ tpclient' = "closed"
    /\ UNCHANGED <<tpproto, tpsent, tpread, tpfwd, tppassed, tprefuse, tping, tpoug, tphandle, tpserver, tptorn>>

TpServerClose ==
    /\ tpserver # "closed" /\ tpserver' = "closed"
    /\ UNCHANGED <<tpproto, tpsent, tpread, tpfwd, tppassed, tprefuse, tping, tpoug, tphandle, tpclient, tptorn>>

-----------------------------------------------------------------------------
(* forward with the collector.                                             *)

\* from.Read: what is there, at most TpRead; the end of the stream
TpIngRead ==
    /\ tping = "read"
    /\ \/ /\ tpread < tpsent
          /\ \E n \in 1 .. TpRead : tpread + n <= tpsent /\ tpread' = tpread + n
          /\ tping' = "try"
       \/ tpread = tpsent /\ tpclient = "closed" /\ tping' = "done" /\ UNCHANGED tpread
    /\ UNCHANGED <<tpproto, tpsent, tpfwd, tppassed, tprefuse, tpoug, tphandle, tpclient, tpserver, tptorn>>

\* decode_mongo_req and decode_maria_req: the collected bytes hold a request.  The
\* length that MariaDB puts in the header leaves the header out, and the decoder
\* asks for that many bytes only.
Decodes(have, len) ==
    /\ have >= TpHeader
    /\ have >= (IF tpproto = "maria" THEN len - TpHeader ELSE len)

Collected == tpread - tpfwd
NextLen == TpLens[tppassed + 1]

\* Try: a request that is not whole waits for the next read
TpMore ==
    /\ tping = "try"
    /\ tppassed = Len(TpLens) \/ ~Decodes(Collected, NextLen)
    /\ tping' = "read"
    /\ UNCHANGED <<tpproto, tpsent, tpread, tpfwd, tppassed, tprefuse, tpoug, tphandle, tpclient, tpserver, tptorn>>

\* The modules let it through: its bytes go to the server.  What was not read yet
\* is whatever the buffer held, or a panic of the proxy.
TpPass ==
    /\ tping = "try" /\ tppassed < Len(TpLens) /\ Decodes(Collected, NextLen)
    /\ ~tptorn /\ tpserver # "closed"
    /\ tpfwd' = tpfwd + NextLen /\ tppassed' = tppassed + 1
    /\ tptorn' = (tpfwd + NextLen > tpread)
    /\ UNCHANGED <<tpproto, tpsent, tpread, tprefuse, tping, tpoug, tphandle, tpclient, tpserver>>

\* A module refuses it, or the server is gone: CloseRead, and the end
TpRefuse ==
    /\ tping = "try" /\ tppassed < Len(TpLens) /\ Decodes(Collected, NextLen)
    /\ \/ tprefuse' = tppassed + 1
       \/ tpserver = "closed" /\ UNCHANGED tprefuse
    /\ tping' = "done"
    /\ UNCHANGED <<tpproto, tpsent, tpread, tpfwd, tppassed, tpoug, tphandle, tpclient, tpserver, tptorn>>

\* The other direction ends with the server's end
TpOugEnd ==
    /\ tpoug = "run" /\ tpserver = "closed" /\ tpoug' = "done"
    /\ UNCHANGED <<tpproto, tpsent, tpread, tpfwd, tppassed, tprefuse, tping, tphandle, tpclient, tpserver, tptorn>>

-----------------------------------------------------------------------------
\* handle: whoever ends first has the other side told, and the other is waited for
TpHalf ==
    /\ tphandle = "both"
    /\ \/ /\ tping = "done" /\ tphandle' = "halfing"
          /\ tpserver' = IF tpserver = "open" THEN "half" ELSE tpserver
       \/ tpoug = "done" /\ tphandle' = "halfoug" /\ UNCHANGED tpserver
    /\ UNCHANGED <<tpproto, tpsent, tpread, tpfwd, tppassed, tprefuse, tping, tpoug, tpclient, tptorn>>

TpEnd ==
    /\ (tphandle = "halfing" /\ tpoug = "done") \/ (tphandle = "halfoug" /\ tping = "done")
    /\ tphandle' = "ended" /\ tpclient' = "closed" /\ tpserver' = "closed"
    /\ UNCHANGED <<tpproto, tpsent, tpread, tpfwd, tppassed, tprefuse, tping, tpoug, tptorn>>

TpStep == TpIngRead \/ TpMore \/ TpPass \/ TpRefuse \/ TpOugEnd \/ TpHalf \/ TpEnd
TpNext ==
    \/ TpMaria \/ (\E n \in 1 .. TpRead : TpWrite(n)) \/ TpClientClose \/ TpServerClose
    \/ TpStep

TpSpec == TpInit /\ [][TpNext]_tpVars

-----------------------------------------------------------------------------
\* The server gets whole requests, in order, each once and after the modules saw
\* it, however the stream was cut into reads.  MariaDB's proxy breaks this when a
\* read ends within the last bytes of a request, as many as the header has.
WholeRequests ==
    /\ tpfwd = EndOf[tppassed]
    /\ tpfwd <= tpread \/ (tpproto = "maria" /\ tpfwd - tpread <= TpHeader)

\* Nothing of a refused request, and nothing after it, reaches the server.
NothingAfterRefusal ==
    tprefuse # 0 => tpfwd = EndOf[tprefuse - 1]
=============================================================================
