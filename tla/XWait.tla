-------------------------------- MODULE XWait --------------------------------
(***************************************************************************)
(* Waiting for an event of a function (common/xwait): a goroutine keeps    *)
(* the list of waiters of all keys, Wait sleeps on the waiter's condition  *)
(* until an event or the timeout signals it.  The timeout's signal is sent *)
(* without the waiter's lock, so that it may come before the waiter sleeps *)
(* when little time is left.  waitFunctionVersion and GCOldSources call    *)
(* Wait in a loop with what is left of the time.                           *)
(***************************************************************************)
EXTENDS Integers

CONSTANTS
    XwWaiters,   \* waiters of one key
    XwMaxEvents  \* bound on events

VARIABLES
    xw,        \* each waiter's label
    listed,    \* waiters in the list of serve
    evt,       \* w.evt
    xwtimer,   \* the timeout of the Wait in progress: none, armed, fired
    xwleft,    \* time is left (*tmo > 0)
    seen,      \* ghost: events served since the waiter last returned
    slept,     \* ghost: the timeout's signal came before the waiter slept
    xwevents

xwVars == <<xw, listed, evt, xwtimer, xwleft, seen, slept, xwevents>>

XwLabels == {"idle", "check", "arm", "sleep", "asleep", "woken", "timeout", "done"}

XwTypeOK ==
    /\ xw \in [XwWaiters -> XwLabels] /\ listed \subseteq XwWaiters
    /\ evt \in [XwWaiters -> BOOLEAN] /\ xwtimer \in [XwWaiters -> {"none", "armed", "fired"}]
    /\ \A w \in XwWaiters : xw[w] \notin {"idle", "done"} => w \in listed
    /\ \A w \in XwWaiters : xwtimer[w] # "none" => xw[w] \in {"sleep", "asleep", "woken"}

XwInit ==
    /\ xw = [w \in XwWaiters |-> "idle"] /\ listed = {}
    /\ evt = [w \in XwWaiters |-> FALSE] /\ xwtimer = [w \in XwWaiters |-> "none"]
    /\ xwleft = [w \in XwWaiters |-> TRUE] /\ seen = [w \in XwWaiters |-> FALSE]
    /\ slept = [w \in XwWaiters |-> FALSE] /\ xwevents = 0

XwGoto(w, l) == xw' = [xw EXCEPT ![w] = l]

-----------------------------------------------------------------------------
\* Prepare: in the list before the caller looks at anything
XwPrepare(w) ==
    /\ xw[w] = "idle" /\ XwGoto(w, "check") /\ listed' = listed \cup {w}
    /\ UNCHANGED <<evt, xwtimer, xwleft, seen, slept, xwevents>>

\* The caller looks at the pods: satisfied, or it waits.  With the lock taken, an
\* event that came is taken at once.
XwCheck(w) ==
    /\ xw[w] = "check"
    /\ \/ XwGoto(w, "done") /\ UNCHANGED <<evt, seen>>
       \/ /\ evt[w] /\ XwGoto(w, "check")
          /\ evt' = [evt EXCEPT ![w] = FALSE] /\ seen' = [seen EXCEPT ![w] = FALSE]
       \/ ~evt[w] /\ XwGoto(w, "arm") /\ UNCHANGED <<evt, seen>>
    /\ UNCHANGED <<listed, xwtimer, xwleft, slept, xwevents>>

\* time.AfterFunc, still with the lock
XwArm(w) ==
    /\ xw[w] = "arm" /\ XwGoto(w, "sleep")
    /\ xwtimer' = [xwtimer EXCEPT ![w] = "armed"]
    /\ UNCHANGED <<listed, evt, xwleft, seen, slept, xwevents>>

\* wake.Wait gives the lock up; an event that waited for the lock comes now
XwSleep(w) ==
    /\ xw[w] = "sleep" /\ XwGoto(w, "asleep")
    /\ UNCHANGED <<listed, evt, xwtimer, xwleft, seen, slept, xwevents>>

\* The timeout: its signal wakes the waiter if it sleeps.  With time left it does
\* not come between AfterFunc and Wait; without, it may.
XwExpire(w) ==
    /\ xwtimer[w] = "armed" /\ xwtimer' = [xwtimer EXCEPT ![w] = "fired"]
    /\ xw[w] \in {"asleep", "woken"} \/ (xw[w] = "sleep" /\ ~xwleft[w])
    /\ IF xw[w] = "asleep" THEN XwGoto(w, "woken") ELSE UNCHANGED xw
    /\ slept' = [slept EXCEPT ![w] = @ \/ xw[w] = "sleep"]
    /\ UNCHANGED <<listed, evt, xwleft, seen, xwevents>>

XwReturn_EventLost(w) ==
    /\ xw[w] = "woken" /\ xwtimer' = [xwtimer EXCEPT ![w] = "none"]
    /\ IF xwtimer[w] = "fired" THEN XwGoto(w, "timeout") /\ UNCHANGED <<evt, seen, xwleft>>
       ELSE /\ XwGoto(w, "check") /\ evt' = [evt EXCEPT ![w] = FALSE]
            /\ seen' = [seen EXCEPT ![w] = FALSE] /\ UNCHANGED xwleft
    /\ UNCHANGED <<listed, slept, xwevents>>

\* Wait returns: true without an event, else what is left of the time
XwReturn(w) ==
    /\ xw[w] = "woken" /\ xwtimer' = [xwtimer EXCEPT ![w] = "none"]
    /\ IF evt[w]
       THEN /\ XwGoto(w, "check") /\ evt' = [evt EXCEPT ![w] = FALSE]
            /\ seen' = [seen EXCEPT ![w] = FALSE]
            /\ \E more \in BOOLEAN : xwleft' = [xwleft EXCEPT ![w] = @ /\ more /\ xwtimer[w] # "fired"]
       ELSE XwGoto(w, "timeout") /\ UNCHANGED <<evt, seen, xwleft>>
    /\ UNCHANGED <<listed, slept, xwevents>>

\* Done
XwDone(w) ==
    /\ xw[w] \in {"done", "timeout"} /\ w \in listed /\ listed' = listed \ {w}
    /\ XwGoto(w, "done")
    /\ UNCHANGED <<evt, xwtimer, xwleft, seen, slept, xwevents>>

\* Locked by a Wait that is between its look at evt and its sleep
XwHeld(w) == xw[w] \in {"arm", "sleep"}

\* Event, by serve: every waiter of the list, under the lock of each
XwEvent ==
    /\ xwevents < XwMaxEvents /\ xwevents' = xwevents + 1
    /\ \A w \in listed : ~XwHeld(w)
    /\ evt' = [w \in XwWaiters |-> evt[w] \/ w \in listed]
    /\ seen' = [w \in XwWaiters |-> seen[w] \/ w \in listed]
    /\ xw' = [w \in XwWaiters |-> IF w \in listed /\ ~evt[w] /\ xw[w] = "asleep" THEN "woken" ELSE xw[w]]
    /\ UNCHANGED <<listed, xwtimer, xwleft, slept>>

-----------------------------------------------------------------------------
XwStep(w) == XwCheck(w) \/ XwArm(w) \/ XwSleep(w) \/ XwExpire(w) \/ XwReturn(w) \/ XwDone(w)
XwNext == XwEvent \/ \E w \in XwWaiters : XwPrepare(w) \/ XwStep(w)

XwSpec == XwInit /\ [][XwNext]_xwVars

\* The caller and its timer go on.  Events are never certain.
XwFair == \A w \in XwWaiters : WF_xwVars(XwStep(w))

-----------------------------------------------------------------------------
\* No timeout is reported to a waiter that an event was sent to since it last
\* looked: what happened after Prepare is never slept through.
XwNoEventLost ==
    [][\A w \in XwWaiters : xw[w] = "woken" /\ xw'[w] = "timeout" => ~seen[w]]_xwVars

\* Every Wait returns, with an event or the timeout, unless the timeout's signal
\* came before the waiter slept; such a waiter sleeps until the next event.
XwReturns ==
    \A w \in XwWaiters : xw[w] = "asleep" ~> (xw[w] # "asleep" \/ slept[w])
=============================================================================
