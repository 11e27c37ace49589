------------------------------- MODULE S3List -------------------------------
(***************************************************************************)
(* The list of a bucket's objects, page by page (s3/bucket.go              *)
(* s3ListBucket): the keys with the prefix that was asked for, in order;   *)
(* keys that have the delimiter further on are folded into their common    *)
(* prefixes; a page ends with its max-keys-th key, whose name is the token *)
(* of the next page.  Objects come and go between two pages.  A key is a   *)
(* sequence of numbers, 0 is the delimiter.                                *)
(***************************************************************************)
EXTENDS Integers, Sequences, FiniteSets, SequencesExt

CONSTANTS
    SlKeys,      \* keys of objects
    SlPrefixes,  \* prefixes a client asks for, the empty one among them
    SlMaxKeys,   \* values of max-keys
    SlMaxOps     \* bound on objects put and deleted while the list is read

ASSUME SlAssumption == /\ SlKeys \subseteq Seq(Nat) \ {<<>>} /\ IsFiniteSet(SlKeys) /\ SlPrefixes \subseteq Seq(Nat)
                       /\ SlMaxKeys \subseteq Nat \ {0} /\ SlMaxOps \in Nat

VARIABLES
    slbkt,   \* keys that have an active object
    slq,     \* the client: label, what it asks for, the token it has
    slgot,   \* the keys it got, page after page
    slpfx,   \* the common prefixes it got
    slops,
    slghost  \* stay: keys that were there all the time; lost: the key to start after
             \* was not there

slVars == <<slbkt, slq, slgot, slpfx, slops, slghost>>

SlNone == <<>>
SlIdle == [pc |-> "idle", pfx |-> <<>>, delim |-> FALSE, max |-> 1, after |-> SlNone]

SlTypeOK ==
    /\ slbkt \subseteq SlKeys /\ slops \in 0 .. SlMaxOps
    /\ slq.pc \in {"idle", "page", "done"} /\ slq.after \in SlKeys \cup {SlNone}
    /\ ToSet(slgot) \subseteq SlKeys /\ Len(slgot) <= Cardinality(SlKeys)

SlInit ==
    /\ slbkt = {} /\ slq = SlIdle /\ slgot = <<>> /\ slpfx = <<>> /\ slops = 0
    /\ slghost = [stay |-> {}, lost |-> FALSE]

-----------------------------------------------------------------------------
\* The order of the database's $sort
SlBefore(a, b) ==
    \/ IsStrictPrefix(a, b)
    \/ \E i \in DOMAIN a \cap DOMAIN b : a[i] < b[i] /\ SubSeq(a, 1, i - 1) = SubSeq(b, 1, i - 1)

\* Where the delimiter is in a key, behind the prefix
SlDelims(k, pfx) == {i \in Len(pfx) + 1 .. Len(k) : k[i] = 0}
SlFirst(k, pfx) == CHOOSE i \in SlDelims(k, pfx) : \A j \in SlDelims(k, pfx) : i <= j
SlFolded(k, q) == q.delim /\ SlDelims(k, q.pfx) # {}
\* A delimiter just behind the prefix: the key is passed over
SlDropped(k, q) == SlFolded(k, q) /\ SlFirst(k, q.pfx) = Len(q.pfx) + 1
SlCommon(k, q) == SubSeq(k, 1, SlFirst(k, q.pfx))

\* What the query finds
SlFound(q) == {k \in slbkt : IsPrefix(q.pfx, k)}
\* start_after and cont_after: all are skipped until the key itself comes
SlRest(q) ==
    IF q.after = SlNone THEN SlFound(q)
    ELSE {k \in SlFound(q) : q.after \in SlFound(q) /\ SlBefore(q.after, k)}

SlPlain(q) == {k \in SlRest(q) : ~SlFolded(k, q)}
SlPage(q) == {k \in SlPlain(q) : Cardinality({j \in SlPlain(q) : SlBefore(j, k)}) < q.max}
SlTruncated(q) == Cardinality(SlPlain(q)) >= q.max
SlLast(S) == CHOOSE k \in S : \A j \in S : j = k \/ SlBefore(j, k)

\* prefixes_map: those that come before the page ends
SlPrefixesOf(q) ==
    {SlCommon(k, q) : k \in {j \in SlRest(q) :
        /\ SlFolded(j, q) /\ ~SlDropped(j, q)
        /\ SlTruncated(q) => SlBefore(j, SlLast(SlPage(q)))}}

\* Contents and the sorted CommonPrefixes, as the client has them
SlSorted(S) == [i \in 1 .. Cardinality(S) |-> CHOOSE k \in S : Cardinality({j \in S : SlBefore(j, k)}) = i - 1]

-----------------------------------------------------------------------------
\* The bucket as it was filled before the list is asked for
SlFill ==
    /\ slq.pc = "idle" /\ slbkt = {} /\ slbkt' \in SUBSET SlKeys
    /\ UNCHANGED <<slq, slgot, slpfx, slops, slghost>>

\* handleListObjects and Validate: the parameters, start-after or none
SlBegin ==
    /\ slq.pc = "idle"
    /\ slq' \in [pc : {"page"}, pfx : SlPrefixes, delim : BOOLEAN, max : SlMaxKeys, after : SlKeys \cup {SlNone}]
    /\ slghost' = [stay |-> {k \in slbkt : slq'.after = SlNone \/ SlBefore(slq'.after, k)}, lost |-> FALSE]
    /\ UNCHANGED <<slbkt, slgot, slpfx, slops>>

\* s3ListBucket: a page that is full is truncated, be it the last or not
SlList ==
    /\ slq.pc = "page"
    /\ slgot' = slgot \o SlSorted(SlPage(slq)) /\ slpfx' = slpfx \o SlSorted(SlPrefixesOf(slq))
    /\ slq' = IF SlTruncated(slq) THEN [slq EXCEPT !.after = SlLast(SlPage(slq))] ELSE [slq EXCEPT !.pc = "done"]
    /\ slghost' = [slghost EXCEPT !.lost = @ \/ (slq.after # SlNone /\ slq.after \notin SlFound(slq))]
    /\ UNCHANGED <<slbkt, slops>>

\* An object is added, and an object deleted, meanwhile
SlPut ==
    /\ slq.pc = "page" /\ slops < SlMaxOps /\ slops' = slops + 1
    /\ \E k \in SlKeys \ slbkt : slbkt' = slbkt \cup {k}
    /\ UNCHANGED <<slq, slgot, slpfx, slghost>>

SlDelete ==
    /\ slq.pc = "page" /\ slops < SlMaxOps /\ slops' = slops + 1
    /\ \E k \in slbkt : slbkt' = slbkt \ {k} /\ slghost' = [slghost EXCEPT !.stay = @ \ {k}]
    /\ UNCHANGED <<slq, slgot, slpfx>>

SlNext == SlFill \/ SlBegin \/ SlList \/ SlPut \/ SlDelete

SlSpec == SlInit /\ [][SlNext]_slVars

-----------------------------------------------------------------------------
\* Over all pages no key and no prefix is listed twice, keys come in order, and a
\* key that was there from the first page to the last is listed, by its name or its
\* prefix, whatever was put and deleted meanwhile.  Two kinds of keys are not: those
\* with the delimiter just behind the prefix, and all of those that are left when the
\* key to start after is not there any more (bucket.go s3ListBucket).
ListIsWhole ==
    /\ \A i \in 1 .. Len(slgot) - 1 : SlBefore(slgot[i], slgot[i + 1])
    /\ IsInjective(slpfx)
    /\ slq.pc = "done" /\ ~slghost.lost =>
         \A k \in slghost.stay : IsPrefix(slq.pfx, k) =>
            IF SlFolded(k, slq) THEN SlDropped(k, slq) \/ SlCommon(k, slq) \in ToSet(slpfx)
            ELSE k \in ToSet(slgot)
=============================================================================
