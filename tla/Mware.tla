------------------------------- MODULE Mware -------------------------------
(***************************************************************************)
(* Middleware of one name (gate/mware.go and the handlers mw-maria.go,     *)
(* mw-rabbit.go, mw-mongo.go, mw-postgres.go, mw-auth.go): a record, what  *)
(* the handler made for it at a server (user, database, quota), and the    *)
(* Kubernetes secret functions read.  Add builds them in this order and    *)
(* undoes them when a later step fails; Del takes them down from a copy of *)
(* the record it was given.  The name of what is at the server (Client) is *)
(* random and known to nobody but Add until the record is saved.           *)
(***************************************************************************)
EXTENDS Integers, Sequences, FiniteSets, SequencesExt

CONSTANTS
    MwIds,         \* ObjIDs, each with the Client its Add generates
    MwWorkers,     \* goroutines serving requests
    NoMw,          \* no record, no client, no secret
    MwNumber,      \* the tenant's limit of middleware (mwl[type].Number)
    MwMaxFaults    \* bound on failing operations and restarts of the gate

\* What the handlers' Init makes at their servers, in order, and Fini drops.
\* Granted rights and permissions go with the user and the database.
MwKinds == {"maria", "rabbit", "postgres", "mongo", "plain"}

ASSUME MwAssumption == MwNumber \in Nat /\ NoMw \notin MwIds \cup MwKinds

Parts == {"user", "db", "quota"}
MariaParts == <<"user", "db", "quota">>
RabbitParts == <<"user", "db">>
MongoParts == <<"db">>
\* one request to the helper at the server, which makes both
PostgresParts == <<"db">>

\* mwareHandlers; plain stands for authjwt and websocket, which make nothing
InitParts(k) ==
    CASE k = "maria"    -> MariaParts
      [] k = "rabbit"   -> RabbitParts
      [] k = "postgres" -> PostgresParts
      [] k = "mongo"    -> MongoParts
      [] k = "plain"    -> <<>>

VARIABLES
    mwrec,    \* the record: its id, state and Client
    mwkind,   \* MwareType of the ids in use, NoMw for an unused one
    mwparts,  \* what there is at the server under each Client
    mwsec,    \* the secret "mw-" + Cookie: the id it was made for
    mwp,      \* the requests: label, copy of the record
    mwblame,  \* ghost: ids with a reason to have left something behind
    mwfaults

mwVars == <<mwrec, mwkind, mwparts, mwsec, mwp, mwblame, mwfaults>>

NoRec == [id |-> NoMw, state |-> "no", client |-> NoMw]
MwIdle == [pc |-> "idle", rec |-> NoRec]
MwStates == {"no", "prp", "rdy", "trm", "stl"}
MwLabels == {"idle", "insert", "init", "unwind", "secret", "save", "outs", "outh", "outdb", "stalled",
             "del", "fini", "dsec", "drm"}

MwTypeOK ==
    /\ mwrec \in [id : MwIds \cup {NoMw}, state : MwStates, client : MwIds \cup {NoMw}]
    /\ mwrec.id = NoMw <=> mwrec = NoRec
    /\ mwkind \in [MwIds -> MwKinds \cup {NoMw}]
    /\ mwparts \in [MwIds -> SUBSET Parts]
    /\ mwsec \in MwIds \cup {NoMw}
    /\ \A w \in MwWorkers : mwp[w].pc \in MwLabels
    /\ mwblame \subseteq MwIds

MwInit ==
    /\ mwrec = NoRec
    /\ mwkind = [i \in MwIds |-> NoMw]
    /\ mwparts = [i \in MwIds |-> {}]
    /\ mwsec = NoMw
    /\ mwp = [w \in MwWorkers |-> MwIdle]
    /\ mwblame = {} /\ mwfaults = 0

-----------------------------------------------------------------------------
MwFault == mwfaults < MwMaxFaults /\ mwfaults' = mwfaults + 1
MwOk == UNCHANGED mwfaults

MwGoto(w, l) == mwp' = [mwp EXCEPT ![w].pc = l]
MwEnd(w) == mwp' = [mwp EXCEPT ![w] = MwIdle]
Me(w) == mwp[w].rec.id
Blame(ids) == mwblame' = mwblame \cup ids
Others(w, i) == \E v \in MwWorkers \ {w} : mwp[v].rec.id = i

-----------------------------------------------------------------------------
(* MwareDesc.Add.                                                          *)

\* checkMwCount: dbMwareCountTen counts documents of the functions' collection
\* with a field that no document has, and finds none
MwCount == 0

\* getMwareDesc and checkMwCount: the request goes on below the limit
MwAdd(w, i, k) ==
    /\ mwp[w].pc = "idle" /\ mwkind[i] = NoMw
    /\ MwCount < MwNumber
    /\ mwkind' = [mwkind EXCEPT ![i] = k]
    /\ mwp' = [mwp EXCEPT ![w] = [pc |-> "insert", rec |-> [id |-> i, state |-> "prp", client |-> NoMw]]]
    /\ UNCHANGED <<mwrec, mwparts, mwsec, mwblame, mwfaults>>

\* dbInsert, refused by the unique cookie; a disabled type is undone at once
MwInsert(w) ==
    /\ mwp[w].pc = "insert"
    /\ \/ /\ mwrec # NoRec /\ MwEnd(w) /\ UNCHANGED mwrec
       \/ /\ mwrec = NoRec /\ mwrec' = mwp[w].rec
          /\ \E enabled \in BOOLEAN : MwGoto(w, IF enabled THEN "init" ELSE "outdb")
    /\ UNCHANGED <<mwkind, mwparts, mwsec, mwblame, mwfaults>>

\* One of the statements of handler.Init.  When one fails, MariaDB drops what was
\* made so far; RabbitMQ, whose permissions come last and may fail too, returns
\* with the user and the host left behind.
InitPart(w) ==
    LET i == Me(w)
        made == Cardinality(mwparts[i])
        all == Len(InitParts(mwkind[i]))
    IN  /\ mwp[w].pc = "init"
        /\ \/ /\ made < all
              /\ mwparts' = [mwparts EXCEPT ![i] = @ \cup {InitParts(mwkind[i])[made + 1]}]
              /\ mwp' = [mwp EXCEPT ![w].rec.client = i] /\ MwOk /\ UNCHANGED mwblame
           \/ /\ made = all
              /\ mwp' = [mwp EXCEPT ![w].rec.client = i, ![w].pc = "secret"]
              /\ MwOk /\ UNCHANGED <<mwparts, mwblame>>
           \/ /\ made < all \/ mwkind[i] = "rabbit"
              /\ MwFault
              /\ IF mwkind[i] = "maria" /\ made > 0
                 THEN MwGoto(w, "unwind") /\ UNCHANGED mwblame
                 ELSE MwGoto(w, "outdb") /\ Blame(IF made = 0 THEN {} ELSE {i})
              /\ UNCHANGED mwparts
        /\ UNCHANGED <<mwrec, mwkind, mwsec>>

\* mariaDropDb, mariaDropUser; an error is only logged
MariaUnwind(w) ==
    LET i == Me(w)
    IN  /\ mwp[w].pc = "unwind" /\ MwGoto(w, "outdb")
        /\ \/ mwparts' = [mwparts EXCEPT ![i] = @ \ {"user", "db"}] /\ MwOk /\ UNCHANGED mwblame
           \/ MwFault /\ Blame({i}) /\ \E left \in SUBSET mwparts[i] : mwparts' = [mwparts EXCEPT ![i] = left]
        /\ UNCHANGED <<mwrec, mwkind, mwsec>>

SecretAdd_ErrorLost(w) ==
    /\ mwp[w].pc = "secret" /\ MwGoto(w, "save") /\ MwOk
    /\ mwsec' = IF mwsec = NoMw THEN Me(w) ELSE mwsec
    /\ UNCHANGED <<mwrec, mwkind, mwparts, mwblame>>

\* k8sSecretAdd, refused when a secret of the name is there
SecretAdd(w) ==
    /\ mwp[w].pc = "secret"
    /\ \/ /\ mwsec = NoMw /\ mwsec' = Me(w) /\ MwGoto(w, "save") /\ MwOk
       \/ /\ mwsec # NoMw /\ MwGoto(w, "outh") /\ MwOk /\ UNCHANGED mwsec
       \/ /\ MwFault /\ MwGoto(w, "outh") /\ UNCHANGED mwsec
    /\ UNCHANGED <<mwrec, mwkind, mwparts, mwblame>>

\* EncryptString, and dbUpdatePart of client, secret, namespace and state
MwSave(w) ==
    LET i == Me(w)
    IN  /\ mwp[w].pc = "save"
        /\ \/ /\ mwrec.id = i
              /\ mwrec' = [mwrec EXCEPT !.state = "rdy", !.client = i]
              /\ MwEnd(w) /\ MwOk
           \/ /\ (mwrec.id # i /\ MwOk) \/ MwFault
              /\ MwGoto(w, "outs") /\ UNCHANGED mwrec
        /\ UNCHANGED <<mwkind, mwparts, mwsec, mwblame>>

\* outs: k8sSecretRemove, by the name
OutSecret(w) ==
    /\ mwp[w].pc = "outs"
    /\ \/ /\ mwsec' = NoMw /\ MwGoto(w, "outh") /\ MwOk
          /\ Blame(IF mwsec = Me(w) THEN {} ELSE {mwsec} \ {NoMw})
       \/ MwFault /\ MwGoto(w, "stalled") /\ Blame({Me(w)}) /\ UNCHANGED mwsec
    /\ UNCHANGED <<mwrec, mwkind, mwparts>>

\* handler.Fini of copy r.  Without a connection (or, for Postgres, an answer) it
\* fails; MariaDB, RabbitMQ and Mongo log what they cannot drop and succeed.
Fini(w, ok, bad) ==
    LET c == mwp[w].rec.client
        k == mwkind[Me(w)]
    IN  \/ /\ IF c = NoMw THEN UNCHANGED mwparts ELSE mwparts' = [mwparts EXCEPT ![c] = {}]
           /\ MwGoto(w, ok) /\ MwOk
           /\ UNCHANGED mwblame
        \/ /\ k # "plain" /\ MwFault /\ MwGoto(w, bad) /\ Blame({Me(w)}) /\ UNCHANGED mwparts
        \/ /\ k \in {"maria", "rabbit", "mongo"} /\ MwFault /\ c # NoMw
           /\ \E left \in SUBSET mwparts[c] \ {{}} : mwparts' = [mwparts EXCEPT ![c] = left]
           /\ MwGoto(w, ok) /\ Blame({c})

\* outh
OutFini(w) ==
    /\ mwp[w].pc = "outh" /\ Fini(w, "outdb", "stalled")
    /\ UNCHANGED <<mwrec, mwkind, mwsec>>

\* outdb: dbRemove by the id, which fails when Del was faster
OutDb(w) ==
    /\ mwp[w].pc = "outdb"
    /\ \/ mwrec.id = Me(w) /\ mwrec' = NoRec /\ MwEnd(w) /\ MwOk
       \/ /\ (mwrec.id # Me(w) /\ MwOk) \/ MwFault
          /\ MwGoto(w, "stalled") /\ UNCHANGED mwrec
    /\ UNCHANGED <<mwkind, mwparts, mwsec, mwblame>>

\* ToState(Stl, -1): whatever the state is
MwStall(w) ==
    /\ mwp[w].pc = "stalled" /\ MwEnd(w)
    /\ mwrec' = IF mwrec.id = Me(w) THEN [mwrec EXCEPT !.state = "stl"] ELSE mwrec
    /\ UNCHANGED <<mwkind, mwparts, mwsec, mwblame, mwfaults>>

-----------------------------------------------------------------------------
(* MwareDesc.Del.                                                          *)

\* the copy of the record the request works on
DelGet(w) ==
    /\ mwp[w].pc = "idle" /\ mwrec # NoRec
    /\ mwp' = [mwp EXCEPT ![w] = [pc |-> "del", rec |-> mwrec]]
    /\ UNCHANGED <<mwrec, mwkind, mwparts, mwsec, mwblame, mwfaults>>

\* ToState(Trm, item.State): only from the state that was read
MwTerm(w) ==
    LET found == mwrec.id = Me(w) /\ mwrec.state = mwp[w].rec.state
    IN  /\ mwp[w].pc = "del"
        /\ \/ /\ found /\ mwrec' = [mwrec EXCEPT !.state = "trm"]
              /\ MwGoto(w, "fini") /\ MwOk
              /\ Blame(IF Others(w, Me(w)) THEN {Me(w)} ELSE {})
           \/ /\ (~found /\ MwOk) \/ MwFault
              /\ MwEnd(w) /\ UNCHANGED <<mwrec, mwblame>>
        /\ UNCHANGED <<mwkind, mwparts, mwsec>>

DelFini(w) ==
    /\ mwp[w].pc = "fini" /\ Fini(w, "dsec", "stalled")
    /\ UNCHANGED <<mwrec, mwkind, mwsec>>

\* k8sSecretRemove: a missing secret is no error
DelSecret(w) ==
    /\ mwp[w].pc = "dsec"
    /\ \/ /\ mwsec' = NoMw /\ MwGoto(w, "drm") /\ MwOk
          /\ Blame(IF mwsec \in {Me(w), NoMw} THEN {} ELSE {mwsec})
       \/ MwFault /\ MwGoto(w, "stalled") /\ UNCHANGED <<mwsec, mwblame>>
    /\ UNCHANGED <<mwrec, mwkind, mwparts>>

DelRecord(w) ==
    /\ mwp[w].pc = "drm"
    /\ \/ mwrec.id = Me(w) /\ mwrec' = NoRec /\ MwEnd(w) /\ MwOk
       \/ /\ (mwrec.id # Me(w) /\ MwOk) \/ MwFault
          /\ MwGoto(w, "stalled") /\ UNCHANGED mwrec
    /\ UNCHANGED <<mwkind, mwparts, mwsec, mwblame>>

\* The gate dies; nothing looks at unfinished middleware when it starts.
MwRestart ==
    /\ MwFault
    /\ mwp' = [w \in MwWorkers |-> MwIdle]
    /\ Blame({Me(w) : w \in MwWorkers} \ {NoMw})
    /\ UNCHANGED <<mwrec, mwkind, mwparts, mwsec>>

-----------------------------------------------------------------------------
MwNext ==
    \/ \E w \in MwWorkers, i \in MwIds, k \in MwKinds : MwAdd(w, i, k)
    \/ \E w \in MwWorkers :
          \/ MwInsert(w) \/ InitPart(w) \/ MariaUnwind(w) \/ SecretAdd(w) \/ MwSave(w)
          \/ OutSecret(w) \/ OutFini(w) \/ OutDb(w) \/ MwStall(w)
          \/ DelGet(w) \/ MwTerm(w) \/ DelFini(w) \/ DelSecret(w) \/ DelRecord(w)
    \/ MwRestart

MwSpec == MwInit /\ [][MwNext]_mwVars

-----------------------------------------------------------------------------
(* Properties.                                                             *)

Held(i) == mwrec.client = i \/ \E w \in MwWorkers : mwp[w].rec.client = i

\* Nothing is left at a server that no record and no request knows of, but for
\* the ids with a reason: an operation failed while it was made or dropped, the
\* gate died at it, or Del went at the record while another request was.
NoMwLeak ==
    \A i \in MwIds \ mwblame : mwparts[i] # {} => Held(i)

\* A record that says ready has everything: all parts at the server and a secret
\* of its own, so that functions that are started with it find both.
ReadyIsWhole ==
    mwrec.state = "rdy" /\ mwrec.id \notin mwblame =>
        /\ mwparts[mwrec.id] = Range(InitParts(mwkind[mwrec.id]))
        /\ mwsec = mwrec.id

\* The secret never outlives its middleware: with no request at work, a secret
\* there is belongs to the record that is stored.
SecretHasRecord ==
    mwsec # NoMw /\ mwsec \notin mwblame /\ mwrec.id # mwsec =>
        \E w \in MwWorkers : mwp[w].rec.id = mwsec

\* Server, secret and record of a middleware agree, whatever step of Add or Del
\* fails or is interrupted (mware.go).
MwareSound == NoMwLeak /\ ReadyIsWhole /\ SecretHasRecord
=============================================================================
