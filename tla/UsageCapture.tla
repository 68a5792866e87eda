---------------------------- MODULE UsageCapture ----------------------------
(***************************************************************************)
(* What the gateway keeps of a response body to learn its token counts     *)
(* (usageCapture): all of an ordinary body up to a limit, and the last     *)
(* bytes of an event stream in a ring buffer that wraps.                   *)
(*                                                                         *)
(* A body is a sequence of symbols: "n" ends a line, "d" is the prefix     *)
(* "data:", "X" is [DONE], a member of Usages a JSON object that reports   *)
(* valid usage, and every other symbol is other text.  Carriage returns    *)
(* before "n" are left out.                                                *)
(***************************************************************************)
EXTENDS Integers, SequencesExt

CONSTANTS
    Symbols,       \* what bodies consist of
    Texts,         \* bodies that backends send: event streams
    Bodies,        \* bodies that backends send: ordinary responses
    Usages,        \* symbols that report usage
    TailSize,      \* maxSSEUsageTail
    MaxJSON,       \* maxJSONUsageResponse
    MaxChunk,      \* bound on the symbols of one Read
    None           \* no usage

ASSUME CaptureAssumption ==
    /\ TailSize \in Nat \ {0} /\ MaxJSON \in Nat \ {0} /\ MaxChunk \in Nat \ {0}
    /\ Texts \cup Bodies \subseteq Seq(Symbols)
    /\ None \notin Symbols \cup Usages
    /\ {"n", "d", "X"} \cap Usages = {}

VARIABLES
    text,       \* the body as the backend sends it
    read,       \* symbols of it that have been read
    eof,        \* its end has been read
    stream,     \* it is an event stream
    body,       \* ring buffer of an event stream, or the ordinary body
    tailNext, tailSize, tailTruncated,
    overflow

ring == <<tailNext, tailSize, tailTruncated>>
vars == <<text, read, eof, stream, body, ring, overflow>>

TypeOK ==
    /\ read \in 0..Len(text)
    /\ eof \in BOOLEAN /\ stream \in BOOLEAN
    /\ tailNext \in 0..(TailSize - 1) /\ tailSize \in 0..TailSize
    /\ tailTruncated \in BOOLEAN /\ overflow \in BOOLEAN
    /\ text \in Seq(Symbols) /\ body \in Seq(Symbols \cup {None})
    /\ Len(body) <= IF stream THEN TailSize ELSE MaxJSON

Init ==
    /\ stream \in BOOLEAN
    /\ text \in IF stream THEN Texts ELSE Bodies
    /\ read = 0 /\ eof = FALSE
    /\ body = IF stream THEN [i \in 1..TailSize |-> None] ELSE <<>>
    /\ tailNext = 0 /\ tailSize = 0 /\ tailTruncated = FALSE
    /\ overflow = FALSE
-----------------------------------------------------------------------------
(* usageBody.Read and usageCapture.observe.                                *)

Chunk(n) == SubSeq(text, read + 1, read + n)

\* The buffer after p has been copied to it from index k on, wrapping.
\* Index 0 of the code is 1 here.
Written(p, k) ==
    [i \in 1..TailSize |->
        LET j == (i - 1 - k) % TailSize
        IN  IF j < Len(p) THEN p[j + 1] ELSE body[i]]

\* A chunk that fills the ring replaces it.
KeepEnd(p) ==
    /\ tailTruncated' = (tailSize > 0 \/ Len(p) > TailSize)
    /\ body' = SubSeq(p, Len(p) - TailSize + 1, Len(p))
    /\ tailNext' = 0
    /\ tailSize' = TailSize

\* Mutation of WriteOn: a wrapped write does not move the index past the start.
WriteUnwrapped(p) ==
    /\ tailTruncated' = (tailTruncated \/ tailSize + Len(p) > TailSize)
    /\ body' = Written(p, tailNext)
    /\ tailNext' = IF tailNext + Len(p) >= TailSize THEN 0 ELSE tailNext + Len(p)
    /\ tailSize' = IF tailSize + Len(p) > TailSize THEN TailSize ELSE tailSize + Len(p)

\* Mutation of WriteOn: the index of the next write runs to the length.
WritePast(p) ==
    /\ tailTruncated' = (tailTruncated \/ tailSize + Len(p) > TailSize)
    /\ body' = Written(p, tailNext)
    /\ tailNext' = IF tailNext + Len(p) > TailSize THEN tailNext + Len(p) - TailSize
                   ELSE tailNext + Len(p)
    /\ tailSize' = IF tailSize + Len(p) > TailSize THEN TailSize ELSE tailSize + Len(p)

WriteOn(p) ==
    /\ tailTruncated' = (tailTruncated \/ tailSize + Len(p) > TailSize)
    /\ body' = Written(p, tailNext)
    /\ tailNext' = (tailNext + Len(p)) % TailSize
    /\ tailSize' = IF tailSize + Len(p) > TailSize THEN TailSize ELSE tailSize + Len(p)

ReadTail(p) ==
    /\ IF Len(p) >= TailSize THEN KeepEnd(p) ELSE WriteOn(p)
    /\ UNCHANGED overflow

\* Mutation of ReadBody: a body of just the limit is too long.
ReadShortBody(p) ==
    /\ overflow' = (overflow \/ Len(body) + Len(p) >= MaxJSON)
    /\ body' = IF overflow' THEN <<>> ELSE body \o p
    /\ UNCHANGED ring

\* Once over the limit, the body stays unknown.
ReadBody(p) ==
    /\ overflow' = (overflow \/ Len(body) + Len(p) > MaxJSON)
    /\ body' = IF overflow' THEN <<>> ELSE body \o p
    /\ UNCHANGED ring

Observe(p) == IF stream THEN ReadTail(p) ELSE ReadBody(p)

\* The end of the body comes with the last bytes or after them.
Read(n, end) ==
    /\ ~eof /\ read + n <= Len(text)
    /\ end => read + n = Len(text)
    /\ IF n > 0 THEN Observe(Chunk(n)) ELSE end /\ UNCHANGED <<body, ring, overflow>>
    /\ read' = read + n
    /\ eof' = end
    /\ UNCHANGED <<text, stream>>

Next == \E n \in 0..MaxChunk, end \in BOOLEAN : Read(n, end)

Spec == Init /\ [][Next]_vars
-----------------------------------------------------------------------------
(* usageCapture.tail and usageCapture.streamUsage.                         *)

KeptTail ==
    IF tailSize < TailSize THEN SubSeq(body, 1, tailSize)
    ELSE SubSeq(body, tailNext + 1, TailSize) \o SubSeq(body, 1, tailNext)

\* What a line adds to the usage seen last and to whether [DONE] followed it.
Line(seen, line) ==
    IF line = <<>> \/ line[1] # "d" THEN seen
    ELSE CASE line = <<"d", "X">>  -> [seen EXCEPT !.done = seen.usage # None]
           [] line \in {<<"d", u>> : u \in Usages}
                                   -> [seen EXCEPT !.usage = line[2], !.done = FALSE]
           [] OTHER                -> [seen EXCEPT !.done = FALSE]

\* At the end of a line the line is read, and another one begins.  When the front
\* of s is cut, the first line may be half a line.
Scan(s, cut, k, seen) ==
    LET next == [seen EXCEPT !.from = k + 1]
    IN  IF s[k] # "n" THEN seen
        ELSE IF cut /\ seen.from = 1 THEN next
        ELSE Line(next, SubSeq(s, seen.from, k - 1))

\* What is known of the lines that end within the first k symbols of s.
Scanned(s, cut) ==
    LET seen[k \in 0..Len(s)] ==
            IF k = 0 THEN [usage |-> None, done |-> FALSE, from |-> 1]
            ELSE Scan(s, cut, k, seen[k - 1])
    IN  seen

Terminated(s) == Len(s) > 1 /\ s[Len(s)] = "n" /\ s[Len(s) - 1] = "n"

\* Mutation of StreamUsage: the first line is read although it may be cut.
CutStreamUsage(s, truncated) ==
    LET last == Scanned(s, FALSE)[Len(s)]
    IN  IF Terminated(s) /\ last.done THEN last.usage ELSE None

StreamUsage(s, truncated) ==
    LET last == Scanned(s, truncated)[Len(s)]
    IN  IF Terminated(s) /\ last.done THEN last.usage ELSE None

\* An ordinary body is JSON with usage in it when it is all there.
BodyUsage(s) ==
    IF s # <<>> /\ s[1] \in Usages /\ Last(s) = "}" THEN s[1] ELSE None

\* usageCapture.result of a successful response that was not interrupted.
Captured ==
    IF ~eof \/ overflow THEN None
    ELSE IF stream THEN StreamUsage(KeptTail, tailTruncated)
    ELSE BodyUsage(body)
-----------------------------------------------------------------------------
(***************************************************************************)
(* However the body is cut into reads and however often the ring wraps, it *)
(* holds the last bytes of the stream in their order, and knows whether    *)
(* there were more.                                                        *)
(***************************************************************************)
TailKept ==
    stream =>
        /\ KeptTail = SubSeq(text, (IF read > TailSize THEN read - TailSize ELSE 0) + 1, read)
        /\ tailTruncated <=> read > TailSize

\* What the body as a whole reports.
Reported == IF stream THEN StreamUsage(text, FALSE) ELSE BodyUsage(text)

(***************************************************************************)
(* No request is billed for other tokens than its response reports, also   *)
(* when the front of the stream is lost in the middle of a line.           *)
(***************************************************************************)
BilledIsReported == Captured # None => Captured = Reported

\* A line that reports usage begins at index i of the stream.
UsageAt(i) ==
    /\ i + 2 <= Len(text)
    /\ text[i] = "d" /\ text[i + 1] \in Usages /\ text[i + 2] = "n"
    /\ i = 1 \/ text[i - 1] = "n"

(***************************************************************************)
(* Usage is lost only to the limits: a stream with a line of usage in its  *)
(* last TailSize bytes, together with the end of the line before it, and   *)
(* an ordinary body of at most MaxJSON bytes, are metered.                 *)
(***************************************************************************)
KeptIsBilled ==
    eof /\ Reported # None =>
        \/ Captured = Reported
        \/ ~stream /\ Len(text) > MaxJSON
        \/ /\ stream /\ Len(text) > TailSize
           /\ \A i \in 1..Len(text) : UsageAt(i) => i - 1 <= Len(text) - TailSize
=============================================================================
