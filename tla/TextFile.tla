------------------------------ MODULE TextFile ------------------------------
(***************************************************************************)
(* Editing one text file: detection of its encoding and re-encoding        *)
(* (textfile/codec.go), exact edits (textfile/edit.go), the unified diff a *)
(* reviewer sees (textfile/diff.go), and the order in which the File       *)
(* Worker's preflightEdits uses them (fileworker/worker.go).               *)
(*                                                                         *)
(* Bytes and code points are numbers; a pair of surrogates stays two.      *)
(* Bytes without a mark are ASCII or lead no sequence of UTF-8, EUC-KR or  *)
(* Shift-JIS, so that those decoders accept ASCII alone.  Edits do not ask *)
(* for indentation to be adapted.                                          *)
(***************************************************************************)
EXTENDS Naturals, Sequences, SequencesExt, FiniteSetsExt

CONSTANTS
    Inputs,     \* contents of the file, sequences of bytes
    EditLists,  \* the edits of a request
    MaxMatches, \* limits.MaxMatches
    MaxDecoded, \* limits.MaxDecodedBytes, in code points
    Context     \* lines of context of a diff

ASSUME InputAssumption == Inputs \subseteq Seq(0..255)

VARIABLES
    data,    \* the bytes of the file
    file,    \* textfile.File: text, encoding, bom, ok
    request, \* the edits asked for
    plan     \* editPlan: the edited text, its bytes and the diff

vars == <<data, file, request, plan>>

LF == 10
CR == 13
BOMUTF8    == <<239, 187, 191>>
BOMUTF16LE == <<255, 254>>
BOMUTF16BE == <<254, 255>>

Rejected == [ok |-> FALSE, text |-> << >>, encoding |-> "none", bom |-> << >>]
Accepted(text, encoding, bom) ==
    [ok |-> TRUE, text |-> text, encoding |-> encoding, bom |-> bom]

\* The rest of a sequence.
From(text, start) == SubSeq(text, start, Len(text))

----------------------------------------------------------------------------
(* Faulty variants of the definitions below.  No specification uses them:  *)
(* each shows that a property can fail.                                    *)

\* The next match may begin inside the last.
NextOverlapping(start, target) == start + 1

\* A deletion does not shift the old side of the ranges that follow.
AdvanceInserted(op) == op.kind # "delete"

\* The decoder's replacement characters go unnoticed.
RoundTripUnchecked(bytes, encoding) == TRUE

\* The replacement keeps the line breaks of the request.
KeepNewlines(text, style) == text

----------------------------------------------------------------------------
(* Encodings. *)

isControl(c) == c \notin {9, LF, CR} /\ (c < 32 \/ c \in 127..159)
isBinary(text) == \E i \in DOMAIN text : isControl(text[i])
isASCII(bytes) == \A i \in DOMAIN bytes : bytes[i] < 128

Units(bytes) == Len(bytes) \div 2
Unit(bytes, encoding, u) ==
    IF encoding = "utf-16le" THEN bytes[2 * u - 1] + 256 * bytes[2 * u]
                             ELSE 256 * bytes[2 * u - 1] + bytes[2 * u]

\* A surrogate without its other half.
HighSurrogates == 55296..56319
LowSurrogates  == 56320..57343
Lone(bytes, encoding, u) ==
    LET unit(v) == Unit(bytes, encoding, v)
    IN  \/ /\ unit(u) \in HighSurrogates
           /\ ~(u < Units(bytes) /\ unit(u + 1) \in LowSurrogates)
        \/ /\ unit(u) \in LowSurrogates
           /\ ~(u > 1 /\ unit(u - 1) \in HighSurrogates)

\* decodeLimited: what is malformed, a last odd byte included, is replaced.
Replacement == 65533
DecodeUTF16(bytes, encoding) ==
    [u \in 1..(Units(bytes) + (Len(bytes) % 2)) |->
        IF u > Units(bytes) \/ Lone(bytes, encoding, u) THEN Replacement
                                                       ELSE Unit(bytes, encoding, u)]

\* encodeLimited
EncodeUTF16(text, encoding) ==
    [k \in 1..(2 * Len(text)) |->
        LET c == text[(k + 1) \div 2]
        IN  IF (encoding = "utf-16le") = (k % 2 = 1) THEN c % 256 ELSE c \div 256]

RoundTrips(bytes, encoding) == EncodeUTF16(DecodeUTF16(bytes, encoding), encoding) = bytes

\* The zero bytes, or the line breaks, of one byte order.
zeroSignature(bytes, dominant, opposite) ==
    LET d == Cardinality(dominant) o == Cardinality(opposite)
    IN  d * 4 >= Units(bytes) /\ d >= o * 2 + 1

detectUTF16(bytes) ==
    LET U      == 1..Units(bytes)
        even   == {u \in U : bytes[2 * u - 1] = 0}
        odd    == {u \in U : bytes[2 * u] = 0}
        breaks(zero, char) == {u \in zero : bytes[2 * u - char] \in {LF, CR}}
        le     == breaks(odd, 1)
        be     == breaks(even, 0)
        looks(encoding) ==
            IF encoding = "utf-16le"
               THEN zeroSignature(bytes, odd, even) \/ (le # {} /\ be = {})
               ELSE zeroSignature(bytes, even, odd) \/ (be # {} /\ le = {})
        good(encoding) == /\ looks(encoding) /\ RoundTrips(bytes, encoding)
                          /\ ~isBinary(DecodeUTF16(bytes, encoding))
        found  == {encoding \in {"utf-16le", "utf-16be"} : good(encoding)}
    IN  IF Len(bytes) < 4 \/ Len(bytes) % 2 = 1 \/ found = {} THEN "none"
        ELSE IF "utf-16le" \in found THEN "utf-16le" ELSE "utf-16be"

\* Bytes that follow a byte-order mark of UTF-16 are UTF-16 or malformed.
decodeAuthoritativeUTF16(body, encoding, bom) ==
    IF RoundTrips(body, encoding) THEN Accepted(DecodeUTF16(body, encoding), encoding, bom)
                                  ELSE Rejected

detectAndDecode(bytes) ==
    CASE IsPrefix(BOMUTF8, bytes) ->
            IF isASCII(From(bytes, 4)) THEN Accepted(From(bytes, 4), "utf-8", BOMUTF8) ELSE Rejected
      [] IsPrefix(BOMUTF16LE, bytes) ->
            decodeAuthoritativeUTF16(From(bytes, 3), "utf-16le", BOMUTF16LE)
      [] IsPrefix(BOMUTF16BE, bytes) ->
            decodeAuthoritativeUTF16(From(bytes, 3), "utf-16be", BOMUTF16BE)
      [] OTHER ->
            LET utf16 == detectUTF16(bytes)
            IN  IF utf16 # "none" THEN Accepted(DecodeUTF16(bytes, utf16), utf16, << >>)
                ELSE Accepted(bytes, IF isASCII(bytes) THEN "utf-8" ELSE "iso-8859-1", << >>)

Decode(bytes) ==
    LET f == detectAndDecode(bytes) IN IF isBinary(f.text) THEN Rejected ELSE f

\* EncodeWithNewline(NewlineNone): the encoding and mark of the source.
Encode(text, encoding, bom) ==
    bom \o (IF encoding \in {"utf-16le", "utf-16be"} THEN EncodeUTF16(text, encoding) ELSE text)

----------------------------------------------------------------------------
(* Line breaks. *)

\* The line break at position i.
Ending(text, i) ==
    IF text[i] = CR /\ i < Len(text) /\ text[i + 1] = LF THEN <<CR, LF>> ELSE <<text[i]>>

\* splitDiffLines: lines with their endings; the last may have none.
splitDiffLines(text) ==
    LET lines[start \in 1..(Len(text) + 1)] ==
            LET breaks == {i \in start..Len(text) : text[i] \in {LF, CR}}
            IN  IF start > Len(text) THEN << >>
                ELSE IF breaks = {} THEN <<[text |-> From(text, start), ending |-> << >>]>>
                ELSE LET i == Min(breaks)
                     IN  <<[text |-> SubSeq(text, start, i - 1), ending |-> Ending(text, i)]>>
                            \o lines[i + Len(Ending(text, i))]
    IN  lines[1]

\* inspectNewlines: the most frequent style, the first one used among equals.
dominantNewline(text) ==
    LET lines == splitDiffLines(text)
        ends  == SelectSeq([i \in DOMAIN lines |-> lines[i].ending], LAMBDA e : e # << >>)
        count(e) == Cardinality({i \in DOMAIN ends : ends[i] = e})
        best  == {i \in DOMAIN ends : \A j \in DOMAIN ends : count(ends[j]) <= count(ends[i])}
        order == <<<<LF>>, <<CR, LF>>, <<CR>>>>
        styles == {i \in DOMAIN order : \E j \in best : ends[j] = order[i]}
    IN  IF ends = << >> THEN << >>
        ELSE IF \E j \in best : ends[j] = ends[1] THEN ends[1] ELSE order[Min(styles)]

\* adaptEditNewlines: every line break becomes the file's.
adaptNewlines(text, style) ==
    LET lines == splitDiffLines(text)
    IN  IF style = << >> THEN text
        ELSE FlattenSeq([i \in DOMAIN lines |->
                lines[i].text \o (IF lines[i].ending = << >> THEN << >> ELSE style)])

----------------------------------------------------------------------------
(* Edits. *)

Occurs(text, target, i) ==
    i + Len(target) - 1 <= Len(text) /\ SubSeq(text, i, i + Len(target) - 1) = target

nextOffset(start, target) == start + Len(target)

literalMatches(text, target) ==
    LET found[offset \in 1..(Len(text) + 2)] ==
            LET hits == {i \in offset..Len(text) : Occurs(text, target, i)}
            IN  IF hits = {} THEN {} ELSE {Min(hits)} \cup found[nextOffset(Min(hits), target)]
    IN  found[1]

\* The spans by start and then by end.
Before(a, b) ==
    \/ a.start < b.start
    \/ a.start = b.start /\ (a.end < b.end \/ (a.end = b.end /\ a.edit < b.edit))
InOrder(spans) ==
    [n \in 1..Cardinality(spans) |->
        CHOOSE a \in spans : Cardinality({b \in spans : Before(b, a)}) = n - 1]

Overlap(spans) == \E i \in 2..Len(spans) : spans[i].start < spans[i - 1].end

\* planEdits: all edits match the same text; one that does not match, matches
\* twice when it must not, or overlaps another, refuses all.
planEdits(text, edits) ==
    LET matches(i) == literalMatches(text, edits[i].old)
        spans == InOrder(UNION {{[start |-> s, end |-> s + Len(edits[i].old),
                                  replace |-> edits[i].new, edit |-> i] : s \in matches(i)} :
                                i \in DOMAIN edits})
        write(done, span) ==
            [text |-> done.text \o SubSeq(text, done.position, span.start - 1) \o span.replace,
             position |-> span.end]
        built == FoldLeft(write, [text |-> << >>, position |-> 1], spans)
        updated == built.text \o From(text, built.position)
    IN  IF \/ \E i \in DOMAIN edits : \/ matches(i) = {}
                                      \/ edits[i].once /\ Cardinality(matches(i)) # 1
           \/ Len(spans) > MaxMatches \/ Overlap(spans)
           \/ Len(updated) > MaxDecoded \/ isBinary(updated)
           THEN [ok |-> FALSE, text |-> text]
           ELSE [ok |-> TRUE, text |-> updated]

----------------------------------------------------------------------------
(* The diff. *)

Op(kind, line) == [kind |-> kind, line |-> line]
Ops(kind, lines) == [i \in DOMAIN lines |-> Op(kind, lines[i])]

\* calculateDiff: common ends are set apart and a longest common subsequence
\* of the rest is kept.
calculateDiff(old, new) ==
    LET shorter == Min({Len(old), Len(new)})
        prefix  == Max({n \in 0..shorter : SubSeq(old, 1, n) = SubSeq(new, 1, n)})
        suffix  == Max({n \in 0..(shorter - prefix) :
                        From(old, Len(old) - n + 1) = From(new, Len(new) - n + 1)})
        a == SubSeq(old, prefix + 1, Len(old) - suffix)
        b == SubSeq(new, prefix + 1, Len(new) - suffix)
        table[i \in 1..(Len(a) + 1), j \in 1..(Len(b) + 1)] ==
            IF i > Len(a) \/ j > Len(b) THEN 0
            ELSE IF a[i] = b[j] THEN table[i + 1, j + 1] + 1
            ELSE Max({table[i + 1, j], table[i, j + 1]})
        walk[i \in 1..(Len(a) + 1), j \in 1..(Len(b) + 1)] ==
            IF i > Len(a) THEN Ops("insert", From(b, j))
            ELSE IF j > Len(b) THEN Ops("delete", From(a, i))
            ELSE IF a[i] = b[j] THEN <<Op("equal", a[i])>> \o walk[i + 1, j + 1]
            ELSE IF table[i + 1, j] >= table[i, j + 1]
                    THEN <<Op("delete", a[i])>> \o walk[i + 1, j]
                    ELSE <<Op("insert", b[j])>> \o walk[i, j + 1]
    IN  Ops("equal", SubSeq(old, 1, prefix)) \o walk[1, 1]
            \o Ops("equal", From(old, Len(old) - suffix + 1))

\* makeHunks: changes whose contexts meet share a hunk.
makeHunks(ops) ==
    LET changes == SelectSeq([i \in DOMAIN ops |-> i], LAMBDA i : ops[i].kind # "equal")
        around(i) == [start |-> Max({1, i - Context}), end |-> Min({Len(ops), i + Context})]
        add(hunks, i) ==
            IF hunks # << >> /\ i - Context <= Last(hunks).end + 1
               THEN Append(Front(hunks), [start |-> Last(hunks).start, end |-> around(i).end])
               ELSE Append(hunks, around(i))
    IN  FoldLeft(add, << >>, changes)

\* advancePosition and hunkCounts
advanceOld(op) == op.kind # "insert"
advanceNew(op) == op.kind # "delete"

\* A hunk as it is written: where it starts in both texts and how long it is
\* there, and its lines.  A side without lines names the line before it.
UnifiedDiff(old, new) ==
    LET ops   == calculateDiff(splitDiffLines(old), splitDiffLines(new))
        hunks == makeHunks(ops)
        count(P(_), from, to) == Cardinality({i \in from..to : P(ops[i])})
        start(P(_), h) == count(P, 1, h.start - 1) + (IF count(P, h.start, h.end) = 0 THEN 0 ELSE 1)
    IN  [n \in DOMAIN hunks |->
            LET h == hunks[n]
            IN  [oldStart |-> start(advanceOld, h), oldCount |-> count(advanceOld, h.start, h.end),
                 newStart |-> start(advanceNew, h), newCount |-> count(advanceNew, h.start, h.end),
                 ops |-> SubSeq(ops, h.start, h.end)]]

----------------------------------------------------------------------------
(* The request. *)

NoPlan == [ok |-> FALSE, text |-> << >>, bytes |-> << >>, diff |-> << >>]

Init ==
    /\ data \in Inputs
    /\ file = Rejected /\ request = << >> /\ plan = NoPlan

Open ==
    /\ ~file.ok /\ Decode(data).ok
    /\ file' = Decode(data)
    /\ UNCHANGED <<data, request, plan>>

\* preflightEdits of one file: Preview, Apply and Encode.
Edit(edits) ==
    LET style   == dominantNewline(file.text)
        adapted == [i \in DOMAIN edits |->
                        [edits[i] EXCEPT !.new = adaptNewlines(edits[i].new, style)]]
        planned == planEdits(file.text, adapted)
    IN  /\ file.ok /\ request = << >>
        /\ request' = edits
        /\ plan' = IF ~planned.ok THEN NoPlan
                   ELSE [ok |-> TRUE, text |-> planned.text,
                         bytes |-> Encode(planned.text, file.encoding, file.bom),
                         diff |-> UnifiedDiff(file.text, planned.text)]
        /\ UNCHANGED <<data, file>>

Next == Open \/ \E edits \in EditLists : Edit(edits)

Spec == Init /\ [][Next]_vars

----------------------------------------------------------------------------
(* Properties. *)

\* The matches of an edit, without reference to a scan: occurrences that do
\* not overlap and leave no occurrence to the right of the last uncovered.
Matches(text, target) ==
    LET occurrences == {i \in DOMAIN text : Occurs(text, target, i)}
        covers(M, i) == \E m \in M : m <= i /\ i < m + Len(target)
    IN  CHOOSE M \in SUBSET occurrences :
            /\ \A m, n \in M : m < n => m + Len(target) <= n
            /\ \A i \in occurrences : covers(M, i)

\* What edits make of a text, position by position.
Edited(text, edits) ==
    LET owners(p) == {i \in DOMAIN edits :
                        \E m \in Matches(text, edits[i].old) : m <= p /\ p < m + Len(edits[i].old)}
        owner(p)  == CHOOSE i \in owners(p) : TRUE
        piece(p)  == IF owners(p) = {} THEN <<text[p]>>
                     ELSE IF p \in Matches(text, edits[owner(p)].old)
                             THEN adaptNewlines(edits[owner(p)].new, dominantNewline(text))
                             ELSE << >>
    IN  [ok |-> /\ \A i \in DOMAIN edits :
                      LET n == Cardinality(Matches(text, edits[i].old))
                      IN  n > 0 /\ (edits[i].once => n = 1)
                /\ \A p \in DOMAIN text : Cardinality(owners(p)) <= 1
                /\ Cardinality({p \in DOMAIN text :
                        \E i \in DOMAIN edits : p \in Matches(text, edits[i].old)}) <= MaxMatches,
         text |-> FlattenSeq([p \in DOMAIN text |-> piece(p)])]

\* Edits that all match the text as it was, that replace what the request
\* names wherever it must and nothing else, are applied; any other request is
\* refused as a whole.
EditsAreExact ==
    request # << >> =>
        LET wanted == Edited(file.text, request)
        IN  /\ plan.ok <=> /\ wanted.ok /\ ~isBinary(wanted.text)
                           /\ Len(wanted.text) <= MaxDecoded
            /\ plan.ok => plan.text = wanted.text

\* Applying a diff as a reader of its ranges does.
Patched(old, diff) ==
    LET side(ops, kind) == LET kept == SelectSeq(ops, LAMBDA o : o.kind # kind)
                           IN  [i \in DOMAIN kept |-> kept[i].line]
        apply(done, hunk) ==
            LET skip == IF hunk.oldCount = 0 THEN hunk.oldStart ELSE hunk.oldStart - 1
                out  == done.out \o SubSeq(old, done.at + 1, skip)
            IN  IF ~done.ok \/ skip < done.at \/ skip + hunk.oldCount > Len(old)
                   THEN [done EXCEPT !.ok = FALSE]
                   ELSE [ok  |-> /\ SubSeq(old, skip + 1, skip + hunk.oldCount) = side(hunk.ops, "insert")
                                 /\ Len(out) = hunk.newStart - (IF hunk.newCount = 0 THEN 0 ELSE 1)
                                 /\ hunk.newCount = Len(side(hunk.ops, "delete")),
                         at  |-> skip + hunk.oldCount,
                         out |-> out \o side(hunk.ops, "delete")]
        last == FoldLeft(apply, [ok |-> TRUE, at |-> 0, out |-> << >>], diff)
    IN  [ok |-> last.ok, lines |-> last.out \o From(old, last.at + 1)]

\* The diff that is reviewed is the change that is made: its ranges and lines
\* turn the file as it was into the file as planned, line breaks included.
DiffIsTheChange ==
    plan.ok =>
        LET patched == Patched(splitDiffLines(file.text), plan.diff)
        IN  patched.ok /\ patched.lines = splitDiffLines(plan.text)

Endings(text) == LET lines == splitDiffLines(text)
                 IN  {lines[i].ending : i \in DOMAIN lines} \ {<< >>}

\* What is accepted for editing loses nothing: whatever encoding and mark were
\* detected, the text encodes to the very bytes read, so that an edit cannot
\* change a byte it does not replace.
DecodingIsLossless == file.ok => Encode(file.text, file.encoding, file.bom) = data

\* An edit keeps the file's format: decoding loses nothing, the edited text is
\* written under the same mark, and a file with one style of line break, no part
\* of which is edited, still has no other, whatever style the request was
\* written in.
FormatKept ==
    /\ DecodingIsLossless
    /\ plan.ok => IsPrefix(file.bom, plan.bytes)
    /\ plan.ok /\ Cardinality(Endings(file.text)) = 1
            /\ (\A i \in DOMAIN request : \A j \in DOMAIN request[i].old : request[i].old[j] \notin {LF, CR})
          => Endings(plan.text) \subseteq Endings(file.text)
=============================================================================
