------------------------------- MODULE S3Keys -------------------------------
(***************************************************************************)
(* Access keys of the object store, for one namespace: a key (s3/keys.go)  *)
(* belongs to an account and an identity (s3/iam.go) that holds its policy *)
(* (s3/policy.go).  Keys are made and removed by the admin's handlers      *)
(* (s3/admin.go) and collected when expired (s3/gc.go); a request looks    *)
(* its key up, then the identity, then the account (s3/main.go), and its   *)
(* handler asks the policy.  Web sites are read without a key (s3/web.go). *)
(* Each call of the database is a step; one that fails had no effect.      *)
(***************************************************************************)
EXTENDS Integers, FiniteSets

CONSTANTS
    SkWorkers,    \* handlers and the collector
    SkBuckets,
    SkMaxOps,     \* bound on the requests
    SkMaxFaults   \* bound on failing calls

ASSUME SkAssumption == SkMaxOps \in Nat /\ SkMaxFaults \in Nat

VARIABLES
    skacc,     \* the active account, 0 for none
    skiam,     \* identities by number: account and policy
    skkey,     \* keys by number: account, identity, endless, expired
    skweb,     \* buckets with a web site
    skw,       \* the handlers
    skops,
    skfaults,
    skghost    \* asked: the policies keys were given out for; revoked: keys whose
               \* removal was answered; hurt: keys that lost their account to a failed
               \* generation or were given out while being removed; left: identities
               \* a failed call left

skVars == <<skacc, skiam, skkey, skweb, skw, skops, skfaults, skghost>>

SkIds == 1 .. SkMaxOps
SkKeys == {k \in SkIds : skkey[k].acc # 0}
SkIams == {i \in SkIds : skiam[i].acc # 0}

\* The actions of requests: of the namespace (list, make and drop buckets), of a
\* bucket (its list and its web site), of an object (read it, or write and delete)
SkOfSpace  == {"make"}
SkOfBucket == {"website"}
SkOfObject == {"get", "put"}
SkActs == SkOfSpace \cup SkOfBucket \cup SkOfObject
\* ... and the size and the number of objects of a bucket, which no policy knows
SkOfAccount == {"metrics"}
SkDeeds == SkActs \cup SkOfAccount

\* getRootPolicy, getBucketPolicy, getWebPolicy: what is allowed and where
SkAny == "*"
SkPerBucket_All == SkActs
SkPerBucket == SkActs \ SkOfSpace
SkRoot == [acts |-> SkActs, res |-> SkAny]
SkPolicy(b) == [acts |-> SkPerBucket, res |-> b]
SkWebPolicy(b) == [acts |-> {"get"}, res |-> b]
SkNoPolicy == [acts |-> {}, res |-> SkAny]
SkPolicies == {SkRoot} \cup {SkPolicy(b) : b \in SkBuckets}

SkNoKey == [acc |-> 0, iam |-> 0, endless |-> FALSE, expired |-> FALSE]
SkNoIam == [acc |-> 0, pol |-> SkNoPolicy]
SkResting == [pc |-> "idle", pol |-> SkNoPolicy, endless |-> FALSE, acc |-> 0, iam |-> 0,
              key |-> 0, keys |-> {}, bkt |-> SkAny, act |-> "none", bad |-> FALSE]

SkTypeOK ==
    /\ skacc \in 0 .. SkMaxOps /\ skweb \subseteq SkBuckets /\ skfaults \in 0 .. SkMaxFaults
    /\ skiam \in [SkIds -> [acc : 0 .. SkMaxOps, pol : SkPolicies \cup {SkNoPolicy}]]
    /\ skkey \in [SkIds -> [acc : 0 .. SkMaxOps, iam : 0 .. SkMaxOps, endless : BOOLEAN, expired : BOOLEAN]]
    /\ \A w \in SkWorkers :
         skw[w].pc \in {"idle", "g_list", "g_match", "g_iam", "g_key", "g_unkey", "g_unacc",
                        "d_iam", "d_key", "c_iam", "c_key", "r_iam", "r_act", "did"}

SkInit ==
    /\ skacc = 0 /\ skiam = [i \in SkIds |-> SkNoIam] /\ skkey = [k \in SkIds |-> SkNoKey]
    /\ skweb = {} /\ skw = [w \in SkWorkers |-> SkResting] /\ skops = 0 /\ skfaults = 0
    /\ skghost = [asked |-> [k \in SkIds |-> {}], revoked |-> {}, hurt |-> {}, left |-> {}]

-----------------------------------------------------------------------------
SkStart(w, r) == /\ skw[w].pc = "idle" /\ skops < SkMaxOps /\ skops' = skops + 1
                 /\ skw' = [skw EXCEPT ![w] = r]
SkGoes(w, pc) == skw' = [skw EXCEPT ![w].pc = pc]
SkEnds(w) == skw' = [skw EXCEPT ![w] = SkResting]
SkFault == skfaults < SkMaxFaults /\ skfaults' = skfaults + 1
SkFine == UNCHANGED skfaults
\* keys somebody removes
SkGoing == {skw[w].key : w \in {v \in SkWorkers : skw[v].pc \in {"d_iam", "d_key", "c_iam", "c_key"}}}

\* genNewAccessKey, for the namespace or a bucket: s3AccountInsert finds or makes
\* the account; a key without a lifetime is looked for first
SkGen(w) ==
    /\ \E p \in SkPolicies, e \in BOOLEAN :
         LET acc == IF skacc # 0 THEN skacc ELSE skops + 1 IN
           /\ SkStart(w, [SkResting EXCEPT !.pc = IF e THEN "g_list" ELSE "g_iam", !.pol = p,
                              !.endless = e, !.acc = acc, !.iam = skops + 1])
           /\ skacc' = acc
    /\ UNCHANGED <<skiam, skkey, skweb, skfaults, skghost>>

\* getEndlessKey: the keys of the account ...
SkGenList(w) ==
    /\ skw[w].pc = "g_list"
    /\ \/ skw' = [skw EXCEPT ![w].pc = "g_match",
                      ![w].keys = {k \in SkKeys : skkey[k].endless /\ skkey[k].acc = skw[w].acc}] /\ SkFine
       \/ SkFault /\ SkGoes(w, "g_iam")
    /\ UNCHANGED <<skacc, skiam, skkey, skweb, skops, skghost>>

\* what the client has now
SkGive(w, k) == [skghost EXCEPT !.asked[k] = @ \cup {skw[w].pol},
                                !.hurt = IF k \notin SkKeys \/ k \in SkGoing THEN @ \cup {k} ELSE @]

\* ... and the first whose identity is there and has the policy; the records of the
\* keys are those of the list
SkGenMatch(w) ==
    /\ skw[w].pc = "g_match"
    /\ LET fit == {k \in skw[w].keys : \E i \in SkIams : i = k /\ skiam[i].pol = skw[w].pol} IN
         IF fit # {}
         THEN \E k \in fit : (\A j \in fit : k <= j) /\ SkEnds(w) /\ skghost' = SkGive(w, k)
         ELSE skw' = [skw EXCEPT ![w].pc = "g_iam", ![w].keys = {}] /\ UNCHANGED skghost
    /\ UNCHANGED <<skacc, skiam, skkey, skweb, skops, skfaults>>

\* s3IamNew; the identity and the key of a request have its number
SkGenIam(w) ==
    /\ skw[w].pc = "g_iam"
    /\ \/ /\ skiam' = [skiam EXCEPT ![skw[w].iam] = [acc |-> skw[w].acc, pol |-> skw[w].pol]]
          /\ SkGoes(w, "g_key") /\ SkFine
       \/ SkFault /\ SkGoes(w, "g_unacc") /\ UNCHANGED skiam
    /\ UNCHANGED <<skacc, skkey, skweb, skops, skghost>>

\* the key itself
SkGenKey(w) ==
    /\ skw[w].pc = "g_key"
    /\ LET k == skw[w].iam IN
         \/ /\ skkey' = [skkey EXCEPT ![k] = [acc |-> skw[w].acc, iam |-> k, endless |-> skw[w].endless, expired |-> FALSE]]
            /\ skghost' = [skghost EXCEPT !.asked[k] = {skw[w].pol},
                                          !.hurt = IF skw[w].acc # skacc THEN @ \cup {k} ELSE @]
            /\ SkEnds(w) /\ SkFine
         \/ SkFault /\ SkGoes(w, "g_unkey") /\ UNCHANGED <<skkey, skghost>>
    /\ UNCHANGED <<skacc, skiam, skweb, skops>>

\* s3IamDelete: it is not active from the first of its two calls on
SkIamDelete(i) ==
    \/ skiam' = [skiam EXCEPT ![i] = SkNoIam] /\ SkFine /\ UNCHANGED skghost
    \/ SkFault /\ UNCHANGED skiam /\ skghost' = [skghost EXCEPT !.left = @ \cup {i}]

\* out_2 ...
SkUnkey(w) ==
    /\ skw[w].pc = "g_unkey" /\ SkGoes(w, "g_unacc") /\ SkIamDelete(skw[w].iam)
    /\ UNCHANGED <<skacc, skkey, skweb, skops>>

\* ... and out_1: s3AccountDelete of the account, which other keys may have
SkUnacc(w) ==
    /\ skw[w].pc = "g_unacc" /\ SkEnds(w)
    /\ \/ /\ skacc' = IF skacc = skw[w].acc THEN 0 ELSE skacc
          /\ skghost' = [skghost EXCEPT !.hurt = @ \cup {k \in SkKeys : skkey[k].acc = skw[w].acc}] /\ SkFine
       \/ SkFault /\ UNCHANGED <<skacc, skghost>>
    /\ UNCHANGED <<skiam, skkey, skweb, skops>>

-----------------------------------------------------------------------------
\* handleKeydel, dbRemoveAccessKey: the key, its identity, the key's record
SkDel(w) ==
    /\ \E k \in SkKeys : SkStart(w, [SkResting EXCEPT !.pc = "d_iam", !.key = k])
    /\ UNCHANGED <<skacc, skiam, skkey, skweb, skfaults, skghost>>

SkDelIam(w) ==
    /\ skw[w].pc \in {"d_iam", "c_iam"}
    /\ SkGoes(w, IF skw[w].pc = "d_iam" THEN "d_key" ELSE "c_key")
    /\ LET i == skkey[skw[w].key].iam IN
         IF i \in SkIams THEN SkIamDelete(i) ELSE UNCHANGED <<skiam, skfaults, skghost>>
    /\ UNCHANGED <<skacc, skkey, skweb, skops>>

\* the removal's error is the answer; the collector's goes to the log
SkDelKey(w) ==
    /\ skw[w].pc \in {"d_key", "c_key"} /\ SkEnds(w)
    /\ LET k == skw[w].key IN
         \/ /\ skkey' = [skkey EXCEPT ![k] = SkNoKey] /\ SkFine
            /\ skghost' = IF skw[w].pc = "d_key" \/ skkey[k].expired THEN [skghost EXCEPT !.revoked = @ \cup {k}]
                          ELSE skghost
         \/ SkFault /\ UNCHANGED skkey /\ skghost' = [skghost EXCEPT !.hurt = @ \cup {k}]
    /\ UNCHANGED <<skacc, skiam, skweb, skops>>

\* Time passes the key's lifetime
SkExpire ==
    /\ \E k \in SkKeys : ~skkey[k].endless /\ ~skkey[k].expired /\ skkey' = [skkey EXCEPT ![k].expired = TRUE]
    /\ UNCHANGED <<skacc, skiam, skweb, skw, skops, skfaults, skghost>>

\* gc_keys, one key of its list
SkCollect(w) ==
    /\ \E k \in SkKeys : /\ skw[w].pc = "idle" /\ skkey[k].expired
                         /\ skw' = [skw EXCEPT ![w] = [SkResting EXCEPT !.pc = "c_iam", !.key = k]]
    /\ UNCHANGED <<skacc, skiam, skkey, skweb, skops, skfaults, skghost>>

-----------------------------------------------------------------------------
\* AccessKey.Expired
SkExpired(k) == skkey[k].expired

\* handleS3API, s3AuthorizeGetKey and LookupAccessKey: a key that is there and lives
SkLookup(w) ==
    /\ \E k \in SkKeys :
         /\ ~SkExpired(k)
         /\ SkStart(w, [SkResting EXCEPT !.pc = "r_iam", !.key = k, !.iam = skkey[k].iam,
                            !.bad = k \in skghost.revoked \/ skkey[k].expired])
    /\ UNCHANGED <<skacc, skiam, skkey, skweb, skfaults, skghost>>

\* s3Authorize: the identity; without it the request goes on with none, and its
\* handler stops in a panic
SkAuthorize(w) ==
    /\ skw[w].pc = "r_iam"
    /\ LET i == skw[w].iam IN
         skw' = [skw EXCEPT ![w] = IF i \in SkIams
                                   THEN [@ EXCEPT !.pc = "r_act", !.pol = skiam[i].pol, !.acc = skiam[i].acc]
                                   ELSE SkResting]
    /\ UNCHANGED <<skacc, skiam, skkey, skweb, skops, skfaults, skghost>>

\* Policy.Allowed and MayAccess
SkAllowed(p, a) == a \in p.acts
SkMayAccess(p, b) == p.res = SkAny \/ p.res = b
\* handleBucket and its handlers: the namespace's actions ask for no bucket, and a
\* POST without one (handleBucketCloudWatch) asks for nothing
SkBucketReq(p, a, b) == \/ a \in SkOfAccount
                        \/ a \in SkOfSpace /\ SkAllowed(p, a)
                        \/ a \in SkOfBucket /\ SkMayAccess(p, b) /\ SkAllowed(p, a)
\* handleObject and its handlers
SkObjectReq(p, a, b) == a \in SkOfObject /\ SkMayAccess(p, b) /\ SkAllowed(p, a)

\* The handler: the policy, FindBucket with s3AccountLookup, the action.  PUT of a
\* web site leaves one that is there.
SkAct(w) ==
    /\ skw[w].pc = "r_act"
    /\ \E a \in SkDeeds, b \in SkBuckets :
         LET ok == (SkBucketReq(skw[w].pol, a, b) \/ SkObjectReq(skw[w].pol, a, b)) /\ skw[w].acc = skacc
         IN /\ skw' = [skw EXCEPT ![w] = IF ok THEN [@ EXCEPT !.pc = "did", !.act = a, !.bkt = b] ELSE SkResting]
            /\ IF ok /\ a = "website" THEN skweb' \in {skweb \cup {b}, skweb \ {b}} ELSE UNCHANGED skweb
    /\ UNCHANGED <<skacc, skiam, skkey, skops, skfaults, skghost>>

\* handleWebReq: the account, the web site, and handleObject with the web's policy
SkWebReq(w) ==
    /\ \E b \in skweb, a \in SkOfObject :
         /\ skacc # 0 /\ SkObjectReq(SkWebPolicy(b), a, b)
         /\ SkStart(w, [SkResting EXCEPT !.pc = "did", !.bkt = b, !.act = a])
    /\ UNCHANGED <<skacc, skiam, skkey, skweb, skfaults, skghost>>

SkAnswer(w) ==
    /\ skw[w].pc = "did" /\ SkEnds(w)
    /\ UNCHANGED <<skacc, skiam, skkey, skweb, skops, skfaults, skghost>>

SkStep(w) ==
    \/ SkGen(w) \/ SkGenList(w) \/ SkGenMatch(w) \/ SkGenIam(w) \/ SkGenKey(w) \/ SkUnkey(w) \/ SkUnacc(w)
    \/ SkDel(w) \/ SkDelIam(w) \/ SkDelKey(w) \/ SkCollect(w)
    \/ SkLookup(w) \/ SkAuthorize(w) \/ SkAct(w) \/ SkWebReq(w) \/ SkAnswer(w)

SkNext == SkExpire \/ \E w \in SkWorkers : SkStep(w)

SkSpec == SkInit /\ [][SkNext]_skVars

-----------------------------------------------------------------------------
\* What is done with a key is within every policy the key was given out for:
\* getEndlessKey gives a key again only to the same policy, and what a bucket's key
\* may do stays in its bucket, though the handlers of the namespace's actions look
\* at no bucket; a name that is the wildcard stands for every bucket.  The one thing
\* no policy keeps is the metrics of the account's buckets (handleBucketCloudWatch).
KeyKeepsToPolicy ==
    \A w \in SkWorkers : skw[w].pc = "did" /\ skw[w].key # 0 =>
        \A p \in skghost.asked[skw[w].key] :
            \/ p = SkRoot \/ skw[w].act \in SkOfAccount
            \/ skw[w].act \notin SkOfSpace /\ p.res \in {SkAny, skw[w].bkt}

\* A request that began when its key was expired or its removal answered does
\* nothing, collected or not.
DeadKeyDoesNothing == \A w \in SkWorkers : skw[w].pc = "did" => ~skw[w].bad

\* A key that was given out and neither removed nor expired has its record, its
\* identity and its account, except when a generation failed, which removes the
\* account it shares, a removal failed half-way, or the key was given out during
\* its removal.
LiveKeyWorks ==
    \A k \in SkIds : skghost.asked[k] # {} /\ k \notin skghost.revoked \cup skghost.hurt \cup SkGoing =>
        /\ k \in SkKeys
        /\ ~skkey[k].expired => skkey[k].iam \in SkIams /\ skkey[k].acc = skacc

\* An identity nobody is working with has its key, unless the call that should have
\* removed it failed: identities do not pile up.
NoStrayIam ==
    \A i \in SkIams : \/ i \in skghost.left \/ i \in SkKeys
                      \/ \E w \in SkWorkers : skw[w].iam = i /\ skw[w].pc \in {"g_key", "g_unkey"}

\* A key does what it was given out for, as long as it was given out for, and
\* leaves nothing behind (keys.go, iam.go, handlers.go).
KeysSound == KeyKeepsToPolicy /\ DeadKeyDoesNothing /\ LiveKeyWorks /\ NoStrayIam
=============================================================================
