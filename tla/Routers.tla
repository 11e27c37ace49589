------------------------------ MODULE Routers ------------------------------
(***************************************************************************)
(* One router (gate/router.go): a table that leads paths to functions, in  *)
(* the database, and the copy of it that calls use, cached by url.go.      *)
(* Add, Del and setTable write the record first and clean the cache then;  *)
(* a call that misses the cache reads the record and stores what it made   *)
(* of it in a second step.                                                 *)
(***************************************************************************)
EXTENDS Integers, FiniteSets

CONSTANTS
    RtWorkers,   \* goroutines serving API requests
    RtCallers,   \* goroutines serving calls of the router's URL
    RtFns,       \* functions an entry may lead to
    NoRouter,    \* there is no router, or nothing is cached
    RtMaxWrites  \* bound on writes of the router

\* An entry of the table for the path that is called: the function, the methods
\* it admits (methods.Fill for "*") and whether an AuthCtx verifies the caller.
Methods == {"GET", "POST"}
Entries == [call : RtFns, methods : {{"GET"}, Methods}, auth : BOOLEAN]
NoEntry == [call |-> NoRouter, methods |-> {}, auth |-> FALSE]
Tables == Entries \cup {NoEntry}
Requests == [method : Methods, claims : BOOLEAN]

\* an error is no function, and the absence of a router no table
ASSUME RoutersAssumption ==
    /\ RtMaxWrites \in Nat
    /\ RtFns \cap {"none", "404", "405", "401", "503", "nourl"} = {}
    /\ NoRouter \notin Tables

VARIABLES
    rtable,   \* RouterDesc.Table of the stored record, NoRouter without one
    rcached,  \* urls["r" + cookie]: the table calls are routed by
    rwrites,
    rtpc,     \* a request's label
    rold,     \* ghost: the table it has overwritten, until it is answered
    rcpc,     \* a call's label
    rcreq,    \* its request
    rctab,    \* the table it found, in the cache or in the database
    rcseen,   \* ghost: the tables that were stored while the call ran, or that a
              \* request not answered when the call began has overwritten
    rcres,    \* its answer: a function, or the HTTP error
    rlate,    \* ghost: a table read before a clean-up is stored after it
    rfns      \* functions that are there (memdGet)

rtVars == <<rtable, rcached, rwrites, rtpc, rold, rcpc, rcreq, rctab, rcseen, rcres, rlate, rfns>>
rcVars == <<rcpc, rcreq, rctab, rcseen, rcres>>

Answers == RtFns \cup {"none", "404", "405", "401", "503", "nourl"}

RtTypeOK ==
    /\ rtable \in Tables \cup {NoRouter} /\ rcached \in Tables \cup {NoRouter}
    /\ rwrites \in 0..RtMaxWrites
    /\ rtpc \in [RtWorkers -> {"idle", "clean"}]
    /\ rold \in [RtWorkers -> Tables \cup {NoRouter}]
    /\ rcpc \in [RtCallers -> {"idle", "find", "make", "store", "handle"}]
    /\ rcreq \in [RtCallers -> Requests]
    /\ rctab \in [RtCallers -> Tables \cup {NoRouter}]
    /\ rcseen \in [RtCallers -> SUBSET (Tables \cup {NoRouter})]
    /\ rcres \in [RtCallers -> Answers]
    /\ rlate \in BOOLEAN /\ rfns \subseteq RtFns

RtInit ==
    /\ rtable = NoRouter /\ rcached = NoRouter /\ rwrites = 0
    /\ rtpc = [w \in RtWorkers |-> "idle"]
    /\ rold = [w \in RtWorkers |-> NoRouter]
    /\ rcpc = [c \in RtCallers |-> "idle"]
    /\ rcreq = [c \in RtCallers |-> [method |-> "GET", claims |-> FALSE]]
    /\ rctab = [c \in RtCallers |-> NoRouter]
    /\ rcseen = [c \in RtCallers |-> {}]
    /\ rcres = [c \in RtCallers |-> "none"]
    /\ rlate = FALSE /\ rfns = RtFns

-----------------------------------------------------------------------------
(* The record, then the cache.                                             *)

Write(t) ==
    /\ rwrites < RtMaxWrites /\ rwrites' = rwrites + 1
    /\ rtable' = t
    /\ rcseen' = [c \in RtCallers |-> IF rcpc[c] = "idle" THEN rcseen[c] ELSE rcseen[c] \cup {t}]

\* dbInsert, refused by the unique cookie while the router is there
RtAdd(t) ==
    /\ rtable = NoRouter /\ Write(t)
    /\ UNCHANGED <<rcached, rtpc, rold, rcpc, rcreq, rctab, rcres, rlate, rfns>>

\* setTable, or Del with t = NoRouter: dbUpdatePart or dbRemove, urlClean next
RtWrite(w, t) ==
    /\ rtpc[w] = "idle" /\ rtable # NoRouter
    /\ t # rtable /\ Write(t)
    /\ rtpc' = [rtpc EXCEPT ![w] = "clean"]
    /\ rold' = [rold EXCEPT ![w] = rtable]
    /\ UNCHANGED <<rcached, rcpc, rcreq, rctab, rcres, rlate, rfns>>

RtClean_Not(w) ==
    /\ rtpc[w] = "clean"
    /\ rtpc' = [rtpc EXCEPT ![w] = "idle"]
    /\ rold' = [rold EXCEPT ![w] = NoRouter]
    /\ UNCHANGED <<rtable, rcached, rwrites, rcVars, rlate, rfns>>

\* urlClean: a call between its reading of the record and its store is missed
RtClean(w) ==
    /\ rtpc[w] = "clean"
    /\ rtpc' = [rtpc EXCEPT ![w] = "idle"]
    /\ rold' = [rold EXCEPT ![w] = NoRouter]
    /\ rcached' = NoRouter
    /\ rlate' = (rlate \/ \E c \in RtCallers : rcpc[c] = "store" /\ rctab[c] # rtable)
    /\ UNCHANGED <<rtable, rwrites, rcVars, rfns>>

\* a function comes and goes
RtFn(f) ==
    /\ rfns' = IF f \in rfns THEN rfns \ {f} ELSE rfns \cup {f}
    /\ UNCHANGED <<rtable, rcached, rwrites, rtpc, rold, rcVars, rlate>>

-----------------------------------------------------------------------------
(* A call: urlFind, then RouterURL.Handle.                                 *)

RcGoto(c, l) == rcpc' = [rcpc EXCEPT ![c] = l]

RcBegin(c, q) ==
    /\ rcpc[c] = "idle" /\ RcGoto(c, "find")
    /\ rcreq' = [rcreq EXCEPT ![c] = q]
    /\ rcseen' = [rcseen EXCEPT ![c] = {rtable} \cup {rold[w] : w \in RtWorkers}]
    /\ rctab' = [rctab EXCEPT ![c] = NoRouter]
    /\ rcres' = [rcres EXCEPT ![c] = "none"]
    /\ UNCHANGED <<rtable, rcached, rwrites, rtpc, rold, rlate, rfns>>

\* urls.Load
RcFind(c) ==
    /\ rcpc[c] = "find"
    /\ rctab' = [rctab EXCEPT ![c] = rcached]
    /\ RcGoto(c, IF rcached = NoRouter THEN "make" ELSE "handle")
    /\ UNCHANGED <<rcreq, rcseen, rcres, rtable, rcached, rwrites, rtpc, rold, rlate, rfns>>

\* makeRouterURL: dbFind, and the table turned into a map by path
RcMake(c) ==
    /\ rcpc[c] = "make"
    /\ IF rtable = NoRouter
       THEN /\ RcGoto(c, "idle") /\ UNCHANGED rctab
            /\ rcres' = [rcres EXCEPT ![c] = "nourl"]
       ELSE /\ RcGoto(c, "store") /\ UNCHANGED rcres
            /\ rctab' = [rctab EXCEPT ![c] = rtable]
    /\ UNCHANGED <<rcreq, rcseen, rtable, rcached, rwrites, rtpc, rold, rlate, rfns>>

\* urls.LoadOrStore
RcStore(c) ==
    LET t == IF rcached = NoRouter THEN rctab[c] ELSE rcached
    IN  /\ rcpc[c] = "store" /\ RcGoto(c, "handle")
        /\ rcached' = t
        /\ rctab' = [rctab EXCEPT ![c] = t]
        /\ UNCHANGED <<rcreq, rcseen, rcres, rtable, rwrites, rtpc, rold, rlate, rfns>>

\* what table t answers to request q while the functions fns are there
Route(t, q, fns) ==
    CASE t = NoEntry              -> "404"
      [] q.method \notin t.methods -> "405"
      [] t.auth /\ ~q.claims      -> "401"
      [] t.call \notin fns        -> "503"
      [] OTHER                    -> t.call

RcHandle(c) ==
    /\ rcpc[c] = "handle" /\ RcGoto(c, "idle")
    /\ rcres' = [rcres EXCEPT ![c] = Route(rctab[c], rcreq[c], rfns)]
    /\ UNCHANGED <<rcreq, rctab, rcseen, rtable, rcached, rwrites, rtpc, rold, rlate, rfns>>

RtNext ==
    \/ \E t \in Tables : RtAdd(t)
    \/ \E w \in RtWorkers : RtClean(w) \/ \E t \in Tables \cup {NoRouter} : RtWrite(w, t)
    \/ \E f \in RtFns : RtFn(f)
    \/ \E c \in RtCallers : \/ \E q \in Requests : RcBegin(c, q)
                            \/ RcFind(c) \/ RcMake(c) \/ RcStore(c) \/ RcHandle(c)

RtSpec == RtInit /\ [][RtNext]_rtVars

-----------------------------------------------------------------------------
(* Properties.                                                             *)

\* router.go: setTable "flushing the cache and making urlFind repopulate one from
\* DB": once the writes are done, calls are routed by the table that is stored,
\* unless a table that was read before the clean-up is stored after it.
RouteIsCurrent ==
    rcached # NoRouter /\ ~rlate =>
        rcached = rtable \/ \E w \in RtWorkers : rtpc[w] = "clean"

\* A function runs for a call only if some table that was in force during the
\* call leads the call's method to it, and asks for no claims the caller has not
\* got: a table is out of force once the setTable or Del that took it away is
\* answered.  The one exception is a lookup that was late.
RtAdmitted(c, f) ==
    \E t \in rcseen[c] \ {NoRouter, NoEntry} :
        t.call = f /\ rcreq[c].method \in t.methods /\ (t.auth => rcreq[c].claims)

RoutedAsStored ==
    \A c \in RtCallers : rcpc[c] = "idle" /\ rcres[c] \in RtFns /\ ~rlate =>
        RtAdmitted(c, rcres[c])

\* The cache of URLs serves the table of the router that is stored (urlFind,
\* urlClean), and a call runs what such a table admits it to (RouterURL.Handle).
RoutesSound == RouteIsCurrent /\ RoutedAsStored
=============================================================================
