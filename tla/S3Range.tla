------------------------------ MODULE S3Range ------------------------------
(***************************************************************************)
(* A GET of an object with a Range (s3/handlers.go handleGetObject): the   *)
(* object is a sequence of parts, a part of chunks; the parts are walked   *)
(* in order with the offset reached (rover), whole parts and chunks before *)
(* the range are skipped, and of the others the bytes in range are sent.   *)
(* Bytes are numbered 0, 1, ... over the object.                           *)
(***************************************************************************)
EXTENDS Integers, Sequences, SequencesExt

CONSTANTS
    SrObjects,  \* objects: sequences of parts, sequences of lengths of chunks
    SrMaxPos    \* the largest position a Range names, below MaxInt64

\* The sums of the first n of a sequence of numbers, and of all
SrSums(s) == LET u[n \in 0 .. Len(s)] == IF n = 0 THEN 0 ELSE u[n - 1] + s[n] IN u
SrSum(s) == SrSums(s)[Len(s)]
SrSizeOf(o) == SrSum([i \in DOMAIN o |-> SrSum(o[i])])
SrNoLimit == SrMaxPos + 2    \* MaxInt64

ASSUME SrAssumption == /\ SrMaxPos \in Nat
                       /\ SrObjects \subseteq Seq(Seq(Nat \ {0}))
                       /\ \A o \in SrObjects : SrSizeOf(o) <= SrNoLimit

VARIABLES
    srobj,    \* the object
    srform,   \* the Range header: "none", "one" first-last range, a "tail" (-n), "other"
    srrange,  \* its first and last position, -1 for an open end; of a tail, its length
    sr,       \* the handler: label, from, to, ds, part, chunk, rover, downloaded
    srsent,   \* the bytes sent
    srfsck    \* was a check of the file system requested?

srVars == <<srobj, srform, srrange, sr, srsent, srfsck>>

SrPartSize(i) == SrSum(srobj[i])
SrSize == SrSizeOf(srobj)
SrAtRest == [pc |-> "idle", from |-> 0, to |-> SrNoLimit, ds |-> 0,
             part |-> 1, chunk |-> 1, rover |-> 0, down |-> 0]

\* Header not understood, range out of the object, download not accounted
SrRefusals == {"unread", "refused", "limited"}

SrTypeOK ==
    /\ srform \in {"none", "one", "tail", "other"}
    /\ srobj \in SrObjects \cup {<< >>} /\ srfsck \in BOOLEAN
    /\ sr.pc \in {"idle", "asked", "found", "parts", "chunks", "cut", "done"} \cup SrRefusals
    /\ sr.from \in 0 .. SrNoLimit /\ sr.to \in 0 .. SrNoLimit /\ sr.rover \in 0 .. SrSize
    /\ sr.down = Len(srsent)

SrInit ==
    /\ srobj = << >> /\ srform = "none" /\ srrange = <<0, -1>> /\ sr = SrAtRest /\ srsent = << >> /\ srfsck = FALSE

-----------------------------------------------------------------------------
\* A request for an object FindCurObject finds
SrAsk ==
    /\ sr.pc = "idle" /\ sr' = [sr EXCEPT !.pc = "asked"]
    /\ srobj' \in SrObjects /\ srform' \in {"none", "one", "tail", "other"}
    /\ srrange' \in (0 .. SrMaxPos) \X (-1 .. SrMaxPos)
    /\ UNCHANGED <<srsent, srfsck>>

\* ParseRange, when the header is there: the positions of one range to a half-open
\* interval; a tail, several ranges, another unit and what is no number are errors
SrParse ==
    /\ sr.pc = "asked"
    /\ LET a == srrange[1]  b == srrange[2] IN
         sr' = IF srform = "none" THEN [sr EXCEPT !.pc = "found"]
               ELSE IF srform # "one" THEN [sr EXCEPT !.pc = "unread"]
               ELSE IF b # -1 /\ b < a THEN [sr EXCEPT !.pc = "refused"]
               ELSE [sr EXCEPT !.pc = "found", !.from = a, !.to = IF b = -1 THEN SrNoLimit ELSE b + 1]
    /\ UNCHANGED <<srobj, srform, srrange, srsent, srfsck>>

\* The size of the object cuts the range, and Content-Length is what is left; it is
\* accounted first (acctDownload), which fails at the limit or for the database
SrStart ==
    /\ sr.pc = "found"
    /\ LET to == IF sr.to > SrSize THEN SrSize ELSE sr.to IN
         IF sr.from > SrSize THEN sr' = [sr EXCEPT !.pc = "refused"]
         ELSE \/ sr' = [sr EXCEPT !.pc = "parts", !.to = to, !.ds = to - sr.from]
              \/ sr' = [sr EXCEPT !.pc = "limited"]
    /\ UNCHANGED <<srobj, srform, srrange, srsent, srfsck>>

\* IterParts: a part before or after the range is passed over
SrPart ==
    /\ sr.pc = "parts" /\ sr.part <= Len(srobj)
    /\ LET re == sr.rover + SrPartSize(sr.part) IN
         sr' = IF re < sr.from \/ sr.rover >= sr.to
               THEN [sr EXCEPT !.part = @ + 1, !.rover = re]
               ELSE [sr EXCEPT !.pc = "chunks", !.chunk = 1]
    /\ UNCHANGED <<srobj, srform, srrange, srsent, srfsck>>

\* IterChunks: of a chunk that meets the range the bytes from s_off to e_off are
\* sent; rover then stands at their end
SrChunk ==
    /\ sr.pc = "chunks" /\ sr.chunk <= Len(srobj[sr.part])
    /\ LET len == srobj[sr.part][sr.chunk]
           re  == sr.rover + len
           out == re < sr.from \/ sr.rover >= sr.to
           s   == IF sr.from > sr.rover THEN sr.from - sr.rover ELSE 0
           e   == IF sr.to <= re THEN sr.to - sr.rover ELSE len
           at  == [sr EXCEPT !.rover = IF out THEN re ELSE @ + e, !.down = IF out THEN @ ELSE @ + e - s]
       IN /\ sr' = IF sr.chunk = Len(srobj[sr.part])
                   THEN [at EXCEPT !.pc = "parts", !.part = @ + 1]
                   ELSE [at EXCEPT !.chunk = @ + 1]
          /\ srsent' = IF out THEN srsent ELSE srsent \o [i \in 1 .. e - s |-> sr.rover + s + i - 1]
    /\ UNCHANGED <<srobj, srform, srrange, srfsck>>

\* IterChunks of a part without chunks or of a chunk the database does not have, or
\* parts it cannot list: the walk ends there
SrLost ==
    /\ sr.pc \in {"parts", "chunks"} /\ sr.part <= Len(srobj)
    /\ sr' = [sr EXCEPT !.pc = "cut"] /\ srfsck' = (sr.down # sr.ds)
    /\ UNCHANGED <<srobj, srform, srrange, srsent>>

\* The end of handleGetObject: miscounted bytes ask for a check
SrDone ==
    /\ sr.pc = "parts" /\ sr.part > Len(srobj)
    /\ sr' = [sr EXCEPT !.pc = "done"] /\ srfsck' = (sr.down # sr.ds)
    /\ UNCHANGED <<srobj, srform, srrange, srsent>>

SrNext == SrAsk \/ SrParse \/ SrStart \/ SrPart \/ SrChunk \/ SrLost \/ SrDone

SrSpec == SrInit /\ [][SrNext]_srVars

-----------------------------------------------------------------------------
\* The bytes the Range header names in the object: all, the first to the last
\* position, both included, or the last ones; of other headers none
SrAsked ==
    {x \in 0 .. SrSize - 1 :
        \/ srform = "none"
        \/ srform = "one" /\ srrange[1] <= x /\ (srrange[2] = -1 \/ x <= srrange[2])
        \/ srform = "tail" /\ SrSize - srrange[1] <= x}

\* What a GET sends is what the header names, in order and without a gap, however
\* the range falls on parts and chunks; when data is missing and not all of it is
\* sent, a check is requested (handleGetObject's miscount).  A refusal sends nothing:
\* as out of the object are refused only ranges that name no byte of it, as not
\* understood only headers that are not one range (a tail is, though it names
\* bytes), and the rest when the download cannot be accounted.
RangeIsExact ==
    /\ srsent = [i \in 1 .. Len(srsent) |-> sr.from + i - 1]
    /\ ToSet(srsent) \subseteq SrAsked
    /\ sr.pc = "done" => ToSet(srsent) = SrAsked /\ ~srfsck
    /\ sr.pc = "cut" => (ToSet(srsent) = SrAsked) = ~srfsck
    /\ sr.pc \in SrRefusals => srsent = << >>
    /\ sr.pc = "refused" => SrAsked = {}
    /\ sr.pc = "unread" => srform \in {"tail", "other"}

=============================================================================
