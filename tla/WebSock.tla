------------------------------ MODULE WebSock ------------------------------
(***************************************************************************)
(* The connections of one web socket middleware (gate/mw-websocket.go,     *)
(* handleWebSocketClient): a list of connections by their number, found    *)
(* under the middleware's cookie.  A client's goroutine adds its           *)
(* connection to the list, reads, and deletes it; Fini of the middleware   *)
(* takes the list away and closes what is in it; a function sends messages *)
(* to one number or to all.  The middleware may be added anew under its    *)
(* name, with the same cookie.                                             *)
(***************************************************************************)
EXTENDS Integers, FiniteSets

CONSTANTS
    WsConns,     \* client connections ever made
    NoConn,
    WsMaxLists   \* bound on lists (wsConnMap) ever made

ASSUME WsAssumption == IsFiniteSet(WsConns) /\ NoConn \notin WsConns /\ WsMaxLists \in Nat

Lists == 1..WsMaxLists
NoList == 0
Cids == 1..Cardinality(WsConns)

VARIABLES
    wsmw,     \* the middleware's record: "rdy", "trm" while it is deleted, "no"
    wsmap,    \* wsConns[cookie]: a list or NoList
    wscons,   \* list -> number -> connection
    wsrover,  \* list -> the last number
    wslists,  \* lists made so far
    wspc, wslist, wscid, \* a client: label, the list it found, its number
    wsopen,   \* connections that are open
    wsfini,   \* Fini: label, list
    wslate,   \* ghost: connections added to no list or to one that was closed
    wsstray   \* ghost: connections deleted from a list by somebody else's number

wsVars == <<wsmw, wsmap, wscons, wsrover, wslists, wspc, wslist, wscid, wsopen, wsfini, wslate, wsstray>>
wsClient == <<wspc, wslist, wscid>>

WsTypeOK ==
    /\ wsmw \in {"rdy", "trm", "no"} /\ wsmap \in Lists \cup {NoList}
    /\ wscons \in [Lists -> [Cids -> WsConns \cup {NoConn}]]
    /\ wsrover \in [Lists -> Cids \cup {0}] /\ wslists \in 0..WsMaxLists
    /\ wspc \in [WsConns -> {"new", "found", "load", "add", "read", "del", "lock", "gone"}]
    /\ wslist \in [WsConns -> Lists \cup {NoList}]
    /\ wscid \in [WsConns -> Cids \cup {0}]
    /\ wsopen \subseteq WsConns /\ wslate \subseteq WsConns /\ wsstray \subseteq WsConns
    /\ wsfini \in [pc : {"idle", "load", "close"}, list : Lists \cup {NoList}]

WsInit ==
    /\ wsmw = "rdy" /\ wsmap = NoList
    /\ wscons = [l \in Lists |-> [i \in Cids |-> NoConn]]
    /\ wsrover = [l \in Lists |-> 0] /\ wslists = 0
    /\ wspc = [c \in WsConns |-> "new"]
    /\ wslist = [c \in WsConns |-> NoList]
    /\ wscid = [c \in WsConns |-> 0]
    /\ wsopen = {} /\ wslate = {} /\ wsstray = {}
    /\ wsfini = [pc |-> "idle", list |-> NoList]

WsGoto(c, l) == wspc' = [wspc EXCEPT ![c] = l]

-----------------------------------------------------------------------------
(* A client.                                                               *)

\* handleWebSocketClient: the record is looked up
WsFind(c) ==
    /\ wspc[c] = "new" /\ wsmw = "rdy" /\ WsGoto(c, "found")
    /\ UNCHANGED <<wslist, wscid, wsmw, wsmap, wscons, wsrover, wslists, wsopen, wsfini, wslate, wsstray>>

\* Verify and Upgrade, the connection is open
WsUpgrade(c) ==
    /\ wspc[c] = "found" /\ WsGoto(c, "load")
    /\ wsopen' = wsopen \cup {c}
    /\ UNCHANGED <<wslist, wscid, wsmw, wsmap, wscons, wsrover, wslists, wsfini, wslate, wsstray>>

\* wsAddConn: Load or LoadOrStore
WsLoad(c) ==
    /\ wspc[c] = "load" /\ WsGoto(c, "add")
    /\ IF wsmap # NoList
       THEN wslist' = [wslist EXCEPT ![c] = wsmap] /\ UNCHANGED <<wsmap, wslists>>
       ELSE /\ wslists < WsMaxLists /\ wslists' = wslists + 1
            /\ wsmap' = wslists + 1 /\ wslist' = [wslist EXCEPT ![c] = wslists + 1]
    /\ UNCHANGED <<wscid, wsmw, wscons, wsrover, wsopen, wsfini, wslate, wsstray>>

\* the next number, under the lock
WsAdd(c) ==
    LET l == wslist[c]
        i == wsrover[l] + 1
    IN  /\ wspc[c] = "add" /\ WsGoto(c, "read")
        /\ wsrover' = [wsrover EXCEPT ![l] = i]
        /\ wscid' = [wscid EXCEPT ![c] = i]
        /\ wscons' = [wscons EXCEPT ![l][i] = c]
        /\ wslate' = IF wsmw = "rdy" /\ wsmap = l THEN wslate ELSE wslate \cup {c}
        /\ UNCHANGED <<wslist, wsmw, wsmap, wslists, wsopen, wsfini, wsstray>>

\* ReadMessage fails: the client went, or Fini closed the connection
WsReadFails(c) ==
    /\ wspc[c] = "read" /\ WsGoto(c, "del")
    /\ UNCHANGED <<wslist, wscid, wsmw, wsmap, wscons, wsrover, wslists, wsopen, wsfini, wslate, wsstray>>

\* wsDelConn: Load of the list there is now; without one it returns
WsDelLoad(c) ==
    /\ wspc[c] = "del"
    /\ wslist' = [wslist EXCEPT ![c] = wsmap]
    /\ WsGoto(c, IF wsmap = NoList THEN "gone" ELSE "lock")
    /\ wsopen' = IF wsmap = NoList THEN wsopen \ {c} ELSE wsopen
    /\ UNCHANGED <<wscid, wsmw, wsmap, wscons, wsrover, wslists, wsfini, wslate, wsstray>>

\* delete by the number, and the deferred Close
WsDel(c) ==
    LET l == wslist[c]
    IN  /\ wspc[c] = "lock" /\ WsGoto(c, "gone")
        /\ wsstray' = wsstray \cup ({wscons[l][wscid[c]]} \ {c, NoConn})
        /\ wscons' = [wscons EXCEPT ![l][wscid[c]] = NoConn]
        /\ wsopen' = wsopen \ {c}
        /\ UNCHANGED <<wslist, wscid, wsmw, wsmap, wsrover, wslists, wsfini, wslate>>

-----------------------------------------------------------------------------
(* MwareDesc.Del with FiniWebSocket, and Add of the middleware.            *)

WsMwTerm ==
    /\ wsmw = "rdy" /\ wsmw' = "trm"
    /\ wsfini' = [pc |-> "load", list |-> NoList]
    /\ UNCHANGED <<wsClient, wsmap, wscons, wsrover, wslists, wsopen, wslate, wsstray>>

\* wsCloseConns: Load, and Delete of the list (two calls, one after the other)
WsFiniTake ==
    /\ wsfini.pc = "load"
    /\ wsfini' = [pc |-> "close", list |-> wsmap]
    /\ wsmap' = NoList
    /\ UNCHANGED <<wsClient, wsmw, wscons, wsrover, wslists, wsopen, wslate, wsstray>>

\* everything in the list is closed under its lock, and the record removed
WsFiniClose ==
    LET l == wsfini.list
    IN  /\ wsfini.pc = "close"
        /\ wsopen' = IF l = NoList THEN wsopen ELSE wsopen \ {wscons[l][i] : i \in Cids}
        /\ wsmw' = "no" /\ wsfini' = [pc |-> "idle", list |-> NoList]
        /\ UNCHANGED <<wsClient, wsmap, wscons, wsrover, wslists, wslate, wsstray>>

WsMwAdd ==
    /\ wsmw = "no" /\ wsmw' = "rdy"
    /\ UNCHANGED <<wsClient, wsmap, wscons, wsrover, wslists, wsopen, wsfini, wslate, wsstray>>

-----------------------------------------------------------------------------
WsStep(c) == WsUpgrade(c) \/ WsLoad(c) \/ WsAdd(c) \/ WsDelLoad(c) \/ WsDel(c)

WsNext ==
    \/ \E c \in WsConns : WsFind(c) \/ WsStep(c) \/ WsReadFails(c)
    \/ WsFiniTake
    \/ WsMwTerm \/ WsFiniClose \/ WsMwAdd

WsSpec == WsInit /\ [][WsNext]_wsVars

-----------------------------------------------------------------------------
(* Properties.                                                             *)

\* Who a message to the number i reaches (wsUnicastMessage)
Reached(i) == IF wsmap = NoList THEN NoConn ELSE wscons[wsmap][i]

\* A client that reads is reached under the number its triggers were told, and
\* under no other client's, as long as its middleware is there: but for clients
\* that were added while the middleware was taken down, and for those that a
\* client of an earlier list of the same cookie deleted by its own number.
ReaderReached ==
    \A c \in WsConns :
        wspc[c] = "read" /\ c \in wsopen /\ c \notin wslate \cup wsstray /\ wsmw = "rdy" =>
            Reached(wscid[c]) = c

\* Once the middleware is gone no client of it is left with an open connection,
\* but for the ones that came while it was taken down or were deleted from the list
\* by a client of an earlier one.
ClosedWithMw ==
    wsmw = "no" => \A c \in WsConns : wspc[c] = "read" /\ c \in wsopen => c \in wslate \cup wsstray

\* Lists do not grow with clients that are gone: what is in the list that is
\* found has its goroutine still there.
ListedAreThere ==
    wsmap # NoList => \A i \in Cids : wscons[wsmap][i] # NoConn =>
        wspc[wscons[wsmap][i]] # "gone"

\* mw-websocket.go:119: "Shouldn't happen" that a client deletes its connection
\* and there is no list.
DelFindsList ==
    \A c \in WsConns : wspc[c] = "del" => wsmap # NoList

\* The list of connections is the clients there are, while clients come and go and
\* the middleware is removed (wsAddConn, wsDelConn, wsCloseConns).
WebSockSound == ReaderReached /\ ClosedWithMw /\ ListedAreThere
=============================================================================
