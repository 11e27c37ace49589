------------------------------ MODULE Accounts ------------------------------
(***************************************************************************)
(* An account of one name (gate/accounts.go): its record and the secret    *)
(* that functions read it from; and one running function with the lists of *)
(* things attached to it (gate/function.go: addAccount, delAccount,        *)
(* addMware, delMware, addS3Bucket, delS3Bucket), in the record and in the *)
(* environment of the Kubernetes deployment, which every request writes    *)
(* from its own copy of the record.  Each write of the account is a        *)
(* version; an id is the ObjectId of one Add.                              *)
(***************************************************************************)
EXTENDS Integers, FiniteSets

CONSTANTS
    AcWorkers,   \* goroutines serving requests
    AcIds,       \* ObjectIds
    NoAcc,       \* no account
    AcThings,    \* what can be attached: middleware, accounts, buckets
    AcMaxOps,    \* bound on requests
    AcMaxFaults  \* bound on failing operations and restarts

ASSUME AcAssumption == NoAcc \notin AcIds

VARIABLES
    acrec,    \* the record of the name: id and version
    acsec,    \* the secret "acc-" + Cookie: the version it holds, 0 for none
    aclast,   \* versions handed out
    aclist,   \* things attached, in the function's record
    dep,      \* the deployment: the things in its environment, resourceVersion
    acw,      \* requests: label, copy of the account, of the list and of dep
    acblame,  \* ghost: why the secret or the environment may differ
    acops, acfaults

acVars == <<acrec, acsec, aclast, aclist, dep, acw, acblame, acops, acfaults>>

NoAccount == [id |-> NoAcc, ver |-> 0]
AcIdle == [pc |-> "idle", acc |-> NoAccount, thing |-> NoAcc, list |-> {}, rv |-> 0]
AccLabels == {"ainsert", "asecret", "aundo", "usecret", "usave", "dsecret", "dremove"}
AcLabels == AccLabels \cup {"idle", "push", "pull", "get", "put"}

AcTypeOK ==
    /\ acrec \in [id : AcIds \cup {NoAcc}, ver : 0 .. aclast]
    /\ acrec.id = NoAcc <=> acrec.ver = 0
    /\ acsec \in 0 .. aclast
    /\ aclist \subseteq AcThings /\ dep.env \subseteq AcThings
    /\ \A w \in AcWorkers : acw[w].pc \in AcLabels
    /\ acblame \subseteq {"secret", "stray", "env"}

AcInit ==
    /\ acrec = NoAccount /\ acsec = 0 /\ aclast = 0
    /\ aclist = {} /\ dep = [env |-> {}, rv |-> 0]
    /\ acw = [w \in AcWorkers |-> AcIdle]
    /\ acblame = {} /\ acops = 0 /\ acfaults = 0

-----------------------------------------------------------------------------
AcFault == acfaults < AcMaxFaults /\ acfaults' = acfaults + 1
AcOk == UNCHANGED acfaults
AcGoto(w, l) == acw' = [acw EXCEPT ![w].pc = l]
AcEnd(w) == acw' = [acw EXCEPT ![w] = AcIdle]
AcBlame(s) == acblame' = acblame \cup s
AcNew == acops < AcMaxOps /\ acops' = acops + 1
Mine(w) == acw[w].acc

-----------------------------------------------------------------------------
(* AccDesc.Add.                                                            *)

AccAdd(w, i) ==
    /\ acw[w].pc = "idle" /\ AcNew
    /\ i # acrec.id /\ \A v \in AcWorkers : acw[v].acc.id # i
    /\ aclast' = aclast + 1
    /\ acw' = [acw EXCEPT ![w] = [AcIdle EXCEPT !.pc = "ainsert", !.acc = [id |-> i, ver |-> aclast + 1]]]
    /\ UNCHANGED <<acrec, acsec, aclist, dep, acblame, acfaults>>

\* dbInsert: the cookie is unique
AccInsert(w) ==
    /\ acw[w].pc = "ainsert"
    /\ \/ acrec = NoAccount /\ acrec' = Mine(w) /\ AcGoto(w, "asecret") /\ AcOk
       \/ ((acrec # NoAccount /\ AcOk) \/ AcFault) /\ AcEnd(w) /\ UNCHANGED acrec
    /\ UNCHANGED <<acsec, aclast, aclist, dep, acblame, acops>>

\* k8sSecretAdd, refused when a secret of the name is there.  Del may have been
\* here before, and then nobody knows of the secret.
AccSecret(w) ==
    /\ acw[w].pc = "asecret"
    /\ \/ /\ acsec = 0 /\ acsec' = Mine(w).ver /\ AcEnd(w) /\ AcOk
          /\ AcBlame(IF acrec.id # Mine(w).id THEN {"stray", "secret"}
                     ELSE IF acrec # Mine(w) THEN {"secret"} ELSE {})
       \/ ((acsec # 0 /\ AcOk) \/ AcFault) /\ AcGoto(w, "aundo") /\ UNCHANGED <<acsec, acblame>>
    /\ UNCHANGED <<acrec, aclast, aclist, dep, acops>>

\* dbRemove by the id; an error is logged
AccUndo(w) ==
    /\ acw[w].pc = "aundo" /\ AcEnd(w)
    /\ \/ acrec.id = Mine(w).id /\ acrec' = NoAccount /\ AcOk /\ UNCHANGED acblame
       \/ acrec.id # Mine(w).id /\ AcOk /\ UNCHANGED <<acrec, acblame>>
       \/ AcFault /\ AcBlame({"secret"}) /\ UNCHANGED acrec
    /\ UNCHANGED <<acsec, aclast, aclist, dep, acops>>

-----------------------------------------------------------------------------
(* AccDesc.Update and Del, on the copy that the request found.             *)

AccUpdate(w) ==
    /\ acw[w].pc = "idle" /\ acrec # NoAccount /\ AcNew
    /\ aclast' = aclast + 1
    /\ acw' = [acw EXCEPT ![w] = [AcIdle EXCEPT !.pc = "usecret", !.acc = [acrec EXCEPT !.ver = aclast + 1]]]
    /\ UNCHANGED <<acrec, acsec, aclist, dep, acblame, acfaults>>

\* k8sSecretMod, by the name; there must be one
UpdSecret(w) ==
    /\ acw[w].pc = "usecret"
    /\ \/ /\ acsec # 0 /\ acsec' = Mine(w).ver /\ AcGoto(w, "usave") /\ AcOk
          /\ AcBlame(IF acrec.id = Mine(w).id THEN {} ELSE {"secret"})
       \/ ((acsec = 0 /\ AcOk) \/ AcFault) /\ AcEnd(w) /\ UNCHANGED <<acsec, acblame>>
    /\ UNCHANGED <<acrec, aclast, aclist, dep, acops>>

\* dbUpdateAll; two updates may write the secret in one order, the record in the
\* other
UpdSave(w) ==
    /\ acw[w].pc = "usave" /\ AcEnd(w)
    /\ \/ /\ acrec.id = Mine(w).id /\ acrec' = Mine(w) /\ AcOk
          /\ AcBlame(IF acsec = Mine(w).ver THEN {} ELSE {"secret"})
       \/ acrec.id # Mine(w).id /\ AcOk /\ UNCHANGED <<acrec, acblame>>
       \/ AcFault /\ AcBlame({"secret"}) /\ UNCHANGED acrec
    /\ UNCHANGED <<acsec, aclast, aclist, dep, acops>>

AccDel(w) ==
    /\ acw[w].pc = "idle" /\ acrec # NoAccount /\ AcNew
    /\ acw' = [acw EXCEPT ![w] = [AcIdle EXCEPT !.pc = "dsecret", !.acc = acrec]]
    /\ UNCHANGED <<acrec, acsec, aclast, aclist, dep, acblame, acfaults>>

\* k8sSecretRemove by the name, which may be of a newer account by now
DelSecretAcc(w) ==
    /\ acw[w].pc = "dsecret"
    /\ \/ /\ acsec' = 0 /\ AcGoto(w, "dremove") /\ AcOk
          /\ AcBlame(IF acrec.id = Mine(w).id THEN {} ELSE {"secret"})
       \/ AcFault /\ AcEnd(w) /\ UNCHANGED <<acsec, acblame>>
    /\ UNCHANGED <<acrec, aclast, aclist, dep, acops>>

\* dbRemove by the id; Add may have made the secret meanwhile
DelRecordAcc(w) ==
    /\ acw[w].pc = "dremove" /\ AcEnd(w)
    /\ \/ /\ acrec.id = Mine(w).id /\ acrec' = NoAccount /\ AcOk
          /\ AcBlame(IF acsec = 0 THEN {} ELSE {"stray"})
       \/ acrec.id # Mine(w).id /\ AcOk /\ UNCHANGED <<acrec, acblame>>
       \/ AcFault /\ AcBlame({"secret"}) /\ UNCHANGED acrec
    /\ UNCHANGED <<acsec, aclast, aclist, dep, acops>>

-----------------------------------------------------------------------------
(* Attaching a thing to the function and taking it off.                    *)

\* the copy of the function the request works on
FnGet(w, x, op) ==
    /\ acw[w].pc = "idle" /\ AcNew
    /\ op = "pull" => x \in aclist
    /\ acw' = [acw EXCEPT ![w] = [AcIdle EXCEPT !.pc = op, !.thing = x, !.list = aclist]]
    /\ UNCHANGED <<acrec, acsec, aclast, aclist, dep, acblame, acfaults>>

\* $push of what is not there yet ($ne), $pull of what is; the copy follows
ListChange(w) ==
    LET x == acw[w].thing
    IN  /\ acw[w].pc \in {"push", "pull"}
        /\ IF acw[w].pc = "push"
           THEN /\ aclist' = aclist \cup {x}
                /\ IF x \in aclist THEN AcEnd(w)
                   ELSE acw' = [acw EXCEPT ![w].pc = "get", ![w].list = @ \cup {x}]
           ELSE /\ aclist' = aclist \ {x}
                /\ acw' = [acw EXCEPT ![w].pc = "get", ![w].list = @ \ {x}]
        /\ UNCHANGED <<acrec, acsec, aclast, dep, acblame, acops, acfaults>>

\* k8sUpdate of a ready function: the deployment is read ...
DepGet(w) ==
    /\ acw[w].pc = "get"
    /\ \/ acw' = [acw EXCEPT ![w].pc = "put", ![w].rv = dep.rv] /\ AcOk /\ UNCHANGED acblame
       \/ AcFault /\ AcEnd(w) /\ AcBlame({"env"})
    /\ UNCHANGED <<acrec, acsec, aclast, aclist, dep, acops>>

DepPut_NoConflict(w) ==
    /\ acw[w].pc = "put" /\ AcEnd(w)
    /\ dep' = [env |-> acw[w].list, rv |-> dep.rv + 1] /\ AcOk
    /\ AcBlame(IF dep.rv = acw[w].rv /\ acw[w].list # aclist THEN {"env"} ELSE {})
    /\ UNCHANGED <<acrec, acsec, aclast, aclist, acops>>

\* ... and written with the environment of the copy (k8sGenEnvVar).  Kubernetes
\* refuses a write over a newer resourceVersion; k8sUpdate's error is dropped.
DepPut(w) ==
    /\ acw[w].pc = "put" /\ AcEnd(w)
    /\ \/ /\ dep.rv = acw[w].rv
          /\ dep' = [env |-> acw[w].list, rv |-> dep.rv + 1] /\ AcOk
          /\ AcBlame(IF acw[w].list = aclist THEN {} ELSE {"env"})
       \/ dep.rv # acw[w].rv /\ AcOk /\ AcBlame({"env"}) /\ UNCHANGED dep
       \/ AcFault /\ AcBlame({"env"}) /\ UNCHANGED dep
    /\ UNCHANGED <<acrec, acsec, aclast, aclist, acops>>

\* The gate dies.
AcRestart ==
    /\ AcFault /\ acw' = [w \in AcWorkers |-> AcIdle]
    /\ AcBlame((IF \E w \in AcWorkers : acw[w].pc \in AccLabels \ {"ainsert"} THEN {"secret"} ELSE {})
               \cup (IF \E w \in AcWorkers : acw[w].pc \in {"get", "put"} THEN {"env"} ELSE {}))
    /\ UNCHANGED <<acrec, acsec, aclast, aclist, dep, acops>>

-----------------------------------------------------------------------------
AcNext ==
    \/ \E w \in AcWorkers :
          \/ \E i \in AcIds : AccAdd(w, i)
          \/ AccInsert(w) \/ AccSecret(w) \/ AccUndo(w)
          \/ AccUpdate(w) \/ UpdSecret(w) \/ UpdSave(w)
          \/ AccDel(w) \/ DelSecretAcc(w) \/ DelRecordAcc(w)
          \/ \E x \in AcThings, op \in {"push", "pull"} : FnGet(w, x, op)
          \/ ListChange(w) \/ DepGet(w) \/ DepPut(w)
    \/ AcRestart

AcSpec == AcInit /\ [][AcNext]_acVars

-----------------------------------------------------------------------------
(* Properties.                                                             *)

AccQuiet == \A w \in AcWorkers : acw[w].pc \notin AccLabels
EnvQuiet == \A w \in AcWorkers : acw[w].pc \notin {"get", "put"}

\* Every account has a secret with the values of its record once the requests are
\* over, unless one failed or died half-way, two updates crossed, or a request
\* went by the name at the secret of a newer account.
SecretIsRecord ==
    AccQuiet /\ acrec # NoAccount /\ "secret" \notin acblame => acsec = acrec.ver

\* A secret without an account makes the name useless (every later Add fails at
\* the secret).  A failed request leaves none behind; only a Del between the two
\* steps of Add does.
NoStraySecret ==
    AccQuiet /\ acrec = NoAccount /\ "stray" \notin acblame => acsec = 0

\* The deployment runs with what is attached, unless an update of it failed, was
\* refused because another one was faster, or wrote an old copy of the list.
EnvIsList ==
    EnvQuiet /\ "env" \notin acblame => dep.env = aclist

\* Record, secret and the deployment's environment agree after requests that fail
\* half-way or overlap (Add, Update and Del of accounts.go, k8sUpdate).
AccountsSound == SecretIsRecord /\ NoStraySecret /\ EnvIsList
=============================================================================
