----------------------------- MODULE JsonEvents -----------------------------
(***************************************************************************)
(* Inspection of JSON telemetry (JsonEventIngestor).  A file of one event  *)
(* or an array of events is read in chunks whose ends may fall anywhere;   *)
(* an event is decoded once the buffer holds all of it.  A JSON Lines file *)
(* is read line by line.                                                   *)
(*                                                                         *)
(* A text is a sequence of tokens: brackets, commas, quotes, escapes,      *)
(* blanks, newlines, "member" for a scalar (in an object with its name)    *)
(* and "nan" for a number JSON does not have.                              *)
(*                                                                         *)
(* Abstractions.  A token is one byte.  Inside an event commas and names   *)
(* are not checked.  Chunks have any size up to ChunkTokens.               *)
(***************************************************************************)
EXTENDS Integers, Sequences, FiniteSetsExt, SequencesExt

CONSTANTS
    Texts,             \* [lines, tokens]
    ChunkTokens, MaxRecordTokens, MaxDepth, MaxRecords

VARIABLES
    input,
    at,                \* tokens read
    buffer,
    phase,             \* prefix, array, value, trailing, lines, accepted, refused
    array,             \* whether the events are in an array
    expect_value,      \* in an array: an event comes next, not a separator
    count              \* events

vars == << input, at, buffer, phase, array, expect_value, count >>

Blank == {"blank", "newline"}
Closes(open, close) == << open, close >> \in {<< "{", "}" >>, << "[", "]" >>}

LStrip(text) ==
    LET first == {i \in 1..Len(text) : text[i] \notin Blank}
    IN  IF first = {} THEN << >> ELSE SubSeq(text, Min(first), Len(text))
Trim(text) == Reverse(LStrip(Reverse(LStrip(text))))

-----------------------------------------------------------------------------
(* Decoding.                                                               *)

\* _validate_structural_depth: how deep brackets outside strings nest.
StructuralDepth(text) ==
    LET Scan(s, token) ==
            IF s.string THEN [s EXCEPT !.escaped = ~s.escaped /\ token = "escape",
                                       !.string = s.escaped \/ token # "quote"]
            ELSE IF token = "quote" THEN [s EXCEPT !.string = TRUE]
            ELSE IF token \in {"[", "{"}
            THEN [s EXCEPT !.depth = @ + 1, !.deepest = Max({@, s.depth + 1})]
            ELSE IF token \in {"]", "}"} THEN [s EXCEPT !.depth = Max({0, @ - 1})]
            ELSE s
    IN  FoldLeft(Scan, [depth |-> 0, deepest |-> 0, string |-> FALSE, escaped |-> FALSE], text).deepest

\* JSONDecoder.raw_decode: whether the text begins with a value, where it ends and how
\* deep it is (_validate_depth).
Decode(text) ==
    LET Ended(s, open) == [s EXCEPT !.open = open, !.status = IF open = << >> THEN "value" ELSE @]
        Deep(s, depth) == [s EXCEPT !.depth = Max({@, depth})]
        Step(s, token) ==
            IF token \in {"[", "{"} THEN Deep([s EXCEPT !.open = Append(@, token)], Len(s.open) + 1)
            ELSE IF token \in {"]", "}"}
            THEN IF s.open # << >> /\ Closes(Last(s.open), token)
                 THEN Ended(s, Front(s.open)) ELSE [s EXCEPT !.status = "malformed"]
            ELSE IF token = "quote" THEN Deep([s EXCEPT !.string = TRUE], Len(s.open) + 1)
            ELSE IF token = "member" THEN Ended(Deep(s, Len(s.open) + 1), s.open)
            ELSE IF token = "nan" THEN [s EXCEPT !.status = "non_finite"]
            ELSE IF s.open = << >> \/ token = "escape" THEN [s EXCEPT !.status = "malformed"] ELSE s
        Read(s, token) ==
            IF s.status # "open" THEN s
            ELSE LET next == [s EXCEPT !.end = @ + 1]
                 IN  IF ~s.string THEN Step(next, token)
                     ELSE IF token = "quote" /\ ~s.escaped
                     THEN Ended([next EXCEPT !.string = FALSE], s.open)
                     ELSE [next EXCEPT !.escaped = ~s.escaped /\ token = "escape"]
    IN  FoldLeft(Read, [status |-> "open", end |-> 0, depth |-> 0, open |-> << >>,
                        string |-> FALSE, escaped |-> FALSE], text)

\* _validate_event.
IsEvent(text, decoded) ==
    decoded.status = "value" /\ text[1] = "{" /\ decoded.depth <= MaxDepth

-----------------------------------------------------------------------------
Refuse ==
    /\ phase' = "refused"
    /\ UNCHANGED << input, at, buffer, array, expect_value, count >>

\* _read_more: another chunk after what is kept.  At the end of the file there is none.
ReadMore(kept) ==
    /\ \E size \in 1..ChunkTokens :
        LET upto == Min({at + size, Len(input.tokens)})
        IN  buffer' = kept \o SubSeq(input.tokens, at + 1, upto) /\ at' = upto
    /\ UNCHANGED << input, phase, array, expect_value, count >>

Exhausted == at = Len(input.tokens)

\* inspect: the first token that is not blank tells an array from an event.
Prefix ==
    /\ phase = "prefix"
    /\ LET text == LStrip(buffer)
       IN  IF text = << >>
           THEN IF Exhausted THEN Refuse ELSE ReadMore(<< >>)
           ELSE /\ array' = (Head(text) = "[")
                /\ phase' = IF array' THEN "array" ELSE "value"
                /\ buffer' = IF array' THEN Tail(text) ELSE text
                /\ UNCHANGED << input, at, expect_value, count >>

\* _iter_json_array, between two events.
Separator ==
    /\ phase = "array"
    /\ LET text == LStrip(buffer)
           end == text # << >> /\ Head(text) = "]"
       IN  IF text = << >>
           THEN IF Exhausted THEN Refuse ELSE ReadMore(<< >>)
           ELSE IF end /\ (expect_value => count = 0)
           THEN /\ phase' = "trailing"
                /\ buffer' = Tail(text)
                /\ UNCHANGED << input, at, array, expect_value, count >>
           ELSE IF end \/ (~expect_value /\ Head(text) # ",") THEN Refuse
           ELSE /\ phase' = IF expect_value THEN "value" ELSE phase
                /\ buffer' = IF expect_value THEN text ELSE Tail(text)
                /\ expect_value' = TRUE
                /\ UNCHANGED << input, at, array, count >>

\* _decode_value and what inspect does with the event.
Value ==
    /\ phase = "value"
    /\ LET decoded == Decode(buffer)
       IN  IF StructuralDepth(buffer) > MaxDepth \/ decoded.status = "non_finite" THEN Refuse
           ELSE IF decoded.status # "value"
           THEN IF Exhausted \/ Len(buffer) > MaxRecordTokens THEN Refuse ELSE ReadMore(buffer)
           ELSE IF \/ decoded.end > MaxRecordTokens
                   \/ ~IsEvent(buffer, decoded)
                   \/ (array /\ count = MaxRecords)
           THEN Refuse
           ELSE /\ count' = count + 1
                /\ buffer' = SubSeq(buffer, decoded.end + 1, Len(buffer))
                /\ phase' = IF array THEN "array" ELSE "trailing"
                /\ expect_value' = FALSE
                /\ UNCHANGED << input, at, array >>

\* _require_only_whitespace.
Trailing ==
    /\ phase = "trailing"
    /\ IF LStrip(buffer) # << >> THEN Refuse
       ELSE IF Exhausted
       THEN phase' = "accepted" /\ UNCHANGED << input, at, buffer, array, expect_value, count >>
       ELSE ReadMore(<< >>)

\* The next line, cut when it is too long.
Line ==
    LET rest == SubSeq(input.tokens, at + 1, Len(input.tokens))
        ends == {i \in 1..Len(rest) : rest[i] = "newline"} \cup {Len(rest), MaxRecordTokens + 1}
    IN  SubSeq(rest, 1, Min(ends))

\* _json_lines.
NextLine ==
    /\ phase = "lines"
    /\ LET text == LStrip(Line)
           decoded == Decode(text)
       IN  IF Exhausted /\ count > 0
           THEN phase' = "accepted" /\ UNCHANGED << input, at, buffer, array, expect_value, count >>
           ELSE IF \/ Exhausted \/ Len(Line) > MaxRecordTokens \/ text = << >>
                   \/ StructuralDepth(Line) > MaxDepth
                   \/ ~IsEvent(text, decoded)
                   \/ LStrip(SubSeq(text, decoded.end + 1, Len(text))) # << >>
                   \/ count = MaxRecords
           THEN Refuse
           ELSE /\ at' = at + Len(Line)
                /\ count' = count + 1
                /\ UNCHANGED << input, buffer, phase, array, expect_value >>

-----------------------------------------------------------------------------
Init ==
    /\ input \in Texts
    /\ at = 0 /\ buffer = << >>
    /\ phase = IF input.lines THEN "lines" ELSE "prefix"
    /\ array = FALSE /\ expect_value = TRUE /\ count = 0

Next ==
    \/ Prefix
    \/ Separator
    \/ Value
    \/ Trailing
    \/ NextLine

Spec == Init /\ [][Next]_vars

-----------------------------------------------------------------------------
TypeOK ==
    /\ input \in Texts
    /\ at \in 0..Len(input.tokens) /\ count \in 0..Len(input.tokens)
    /\ phase \in {"prefix", "array", "value", "trailing", "lines", "accepted", "refused"}
    /\ array \in BOOLEAN /\ expect_value \in BOOLEAN

\* An event all by itself, within the limits.
Whole(text) ==
    /\ text # << >> /\ Len(text) <= MaxRecordTokens
    /\ LET decoded == Decode(text) IN IsEvent(text, decoded) /\ decoded.end = Len(text)

\* The pieces of a text between the separators for which Cuts holds.
Pieces(text, cuts) ==
    LET ends == cuts \cup {0, Len(text) + 1}
    IN  {<< i, SubSeq(text, i + 1, Min({j \in ends : j > i}) - 1) >> : i \in ends \ {Len(text) + 1}}

\* The events of a text looked at as a whole, or none when it is refused.
EventsOf(text) ==
    LET trimmed == Trim(text)
        inner == SubSeq(trimmed, 2, Len(trimmed) - 1)
        \* A comma between events: what is before it decodes to whole values.
        Outside(i) == LET before == Decode(<< "[" >> \o SubSeq(inner, 1, i - 1))
                      IN  before.status = "open" /\ before.open = << "[" >> /\ ~before.string
        pieces == Pieces(inner, {i \in 1..Len(inner) : inner[i] = "," /\ Outside(i)})
    IN  IF trimmed = << >> THEN -1
        ELSE IF Head(trimmed) # "[" THEN IF Whole(trimmed) THEN 1 ELSE -1
        ELSE IF Len(trimmed) < 2 \/ Last(trimmed) # "]" THEN -1
        ELSE IF Trim(inner) = << >> THEN 0
        ELSE IF Cardinality(pieces) <= MaxRecords /\ \A p \in pieces : Whole(Trim(p[2]))
        THEN Cardinality(pieces) ELSE -1

\* The events of a file do not depend on where its chunks end: it is accepted when it is
\* one event or an array of events separated by commas, each within the limits, and they
\* are counted; and never much more than one event is held.
InspectionIsWhole ==
    /\ ~input.lines /\ phase = "accepted" => count = EventsOf(input.tokens)
    /\ ~input.lines /\ phase = "refused" => EventsOf(input.tokens) = -1
    /\ Len(buffer) <= MaxRecordTokens + ChunkTokens
    /\ input.lines /\ phase = "accepted" =>
        LET tokens == input.tokens
            newlines == {i \in 1..Len(tokens) : tokens[i] = "newline"}
            lines == {p \in Pieces(tokens, newlines) : p[1] < Len(tokens)}
        IN  count = Cardinality(lines) /\ \A p \in lines : Whole(Trim(p[2]))
=============================================================================
