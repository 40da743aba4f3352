--------------------------- MODULE SourcePositions --------------------------
(***************************************************************************)
(* Positions in a source text, which the adapters convert between UTF-8    *)
(* byte offsets and UTF-16 columns in two ways: the language service's     *)
(* Mapper (internal/source/position.go) clamps, and knows four line ends;  *)
(* the debug adapter's sourceCoordinates (internal/dap) refuses, and knows *)
(* the line ends of Ferret.  Semantic tokens (internal/language,           *)
(* internal/lsp) are the Mapper's heaviest use.                            *)
(*                                                                         *)
(* A text is a sequence of characters of these kinds; only their sizes and *)
(* their part in line ends matter.  "bad" is a malformed byte, "tail" a    *)
(* stray continuation byte.  A behaviour types a text and marks spans in   *)
(* it, as the compiler's analysis does.                                    *)
(***************************************************************************)
EXTENDS Integers, Sequences, FiniteSets, SequencesExt

CONSTANTS Chars,
          Priorities,  \* the span priorities of an instance
          MaxSize,     \* bound: characters and spans of a document
          UInt         \* modulus of the protocol's unsigned integers

ASSUME CharsAssumption ==
  /\ Chars \subseteq {"letter", "emoji", "cr", "lf", "ls", "bad", "tail"}
  /\ Priorities \subseteq 0..3
  /\ UInt > 4 * MaxSize

VARIABLES text, spans

vars == <<text, spans>>

Bytes(c) == CASE c = "emoji" -> 4 [] c = "ls" -> 3 [] OTHER -> 1
Units(c) == IF c = "emoji" THEN 2 ELSE 1
LineEnds == {"cr", "lf", "ls"}

\* sums[i] is the size of the characters before the i-th.
Sums(t, Size(_)) ==
  LET sums[i \in 1..(Len(t) + 1)] == IF i = 1 THEN 0 ELSE sums[i - 1] + Size(t[i - 1])
  IN sums
-----------------------------------------------------------------------------
(* The Mapper *)

\* Mutant: a line feed after a carriage return ends a line of its own.
NewMapperSplit(t) ==
  LET off == Sums(t, Bytes)
      lines[i \in 0..Len(t)] ==
        IF i = 0 THEN [starts |-> <<0>>, ends |-> <<>>]
        ELSE IF t[i] \in LineEnds
             THEN [starts |-> Append(lines[i - 1].starts, off[i + 1]),
                   ends |-> Append(lines[i - 1].ends, off[i])]
        ELSE lines[i - 1]
  IN [text |-> t, off |-> off, units |-> Sums(t, Units), size |-> off[Len(t) + 1],
      lineStarts |-> lines[Len(t)].starts, lineEnds |-> Append(lines[Len(t)].ends, off[Len(t) + 1])]

NewMapper(t) ==
  LET off == Sums(t, Bytes)
      joined(i) == t[i] = "lf" /\ i > 1 /\ t[i - 1] = "cr"
      lines[i \in 0..Len(t)] ==
        IF i = 0 THEN [starts |-> <<0>>, ends |-> <<>>]
        ELSE IF joined(i)
             THEN [lines[i - 1] EXCEPT !.starts[Len(lines[i - 1].starts)] = off[i + 1]]
        ELSE IF t[i] \in LineEnds
             THEN [starts |-> Append(lines[i - 1].starts, off[i + 1]),
                   ends |-> Append(lines[i - 1].ends, off[i])]
        ELSE lines[i - 1]
  IN [text |-> t, off |-> off, units |-> Sums(t, Units), size |-> off[Len(t) + 1],
      lineStarts |-> lines[Len(t)].starts, lineEnds |-> Append(lines[Len(t)].ends, off[Len(t) + 1])]

RuneStart(m, o) == \E i \in 1..Len(m.text) : m.off[i] = o /\ m.text[i] # "tail"

\* Into the text, then back to the start of a character.
clampOffset(m, offset) ==
  LET o == IF offset < 0 THEN 0 ELSE IF offset > m.size THEN m.size ELSE offset
  IN IF o = m.size THEN o
     ELSE CHOOSE c \in 0..o : /\ c = 0 \/ RuneStart(m, c)
                              /\ \A b \in (c + 1)..o : ~RuneStart(m, b)

\* The index of the character at a boundary.
Index(m, o) == 1 + Cardinality({i \in 1..Len(m.text) : m.off[i] < o})

utf16Width(m, from, to) == m.units[Index(m, to)] - m.units[Index(m, from)]

\* Mutant: an offset inside a line end is counted past the line.
OffsetToPositionPastEnd(m, offset) ==
  LET o == clampOffset(m, offset)
      line == Cardinality({l \in 1..Len(m.lineStarts) : m.lineStarts[l] <= o})
  IN [line |-> line - 1, character |-> utf16Width(m, m.lineStarts[line], o)]

OffsetToPosition(m, offset) ==
  LET o == clampOffset(m, offset)
      line == Cardinality({l \in 1..Len(m.lineStarts) : m.lineStarts[l] <= o})
      lineOffset == IF o > m.lineEnds[line] THEN m.lineEnds[line] ELSE o
  IN [line |-> line - 1, character |-> utf16Width(m, m.lineStarts[line], lineOffset)]

\* The character that holds the column; a column past the line is its end.
PositionToOffset(m, p) ==
  IF p.line >= Len(m.lineStarts) THEN m.size
  ELSE LET start == Index(m, m.lineStarts[p.line + 1])
           end == Index(m, m.lineEnds[p.line + 1])
           held == {i \in start..(end - 1) : m.units[i + 1] - m.units[start] > p.character}
       IN m.off[IF held = {} THEN end ELSE CHOOSE i \in held : \A j \in held : i <= j]

SpanToRange(m, span) ==
  LET start == clampOffset(m, span.start)
      end == clampOffset(m, span.end)
  IN [start |-> OffsetToPosition(m, start),
      end |-> OffsetToPosition(m, IF end < start THEN start ELSE end)]

RangeToSpan(m, range) ==
  LET start == PositionToOffset(m, range.start)
      end == PositionToOffset(m, range.end)
  IN [start |-> start, end |-> IF end < start THEN start ELSE end]
-----------------------------------------------------------------------------
(* sourceCoordinates *)

NoPosition == [line |-> 0, column |-> 0]
NoColumn == -1    \* a client position of a whole line

\* A line is the characters first..last; a carriage return before the line feed
\* is not one of them.
newSourceCoordinates(t, client) ==
  LET feeds == {i \in 1..Len(t) : t[i] = "lf"}
      lines[i \in 0..Len(t)] ==
        IF i = 0 THEN <<>>
        ELSE IF i \notin feeds THEN lines[i - 1]
        ELSE LET before == {f \in feeds : f < i}
                 first == 1 + Cardinality(IF before = {} THEN {} ELSE 1..(CHOOSE f \in before : \A g \in before : g <= f))
             IN Append(lines[i - 1], [first |-> first,
                  last |-> IF i > first /\ t[i - 1] = "cr" THEN i - 2 ELSE i - 1])
      tail == 1 + Cardinality({i \in 1..Len(t) : \E f \in feeds : i <= f})
  IN [off |-> Sums(t, Bytes), units |-> Sums(t, Units), lineBase |-> client.line,
      columnBase |-> client.column, lines |-> Append(lines[Len(t)], [first |-> tail, last |-> Len(t)])]

boundaries(c, line) ==
  {[bytes |-> c.off[i] - c.off[line.first], units |-> c.units[i] - c.units[line.first]] :
     i \in line.first..(line.last + 1)}

\* Mutant: the first boundary at or after the column is taken.
FromClientNear(c, line, column) ==
  IF line < c.lineBase \/ line - c.lineBase >= Len(c.lines) THEN NoPosition
  ELSE IF column = NoColumn THEN [line |-> line - c.lineBase + 1, column |-> 0]
  ELSE IF column < c.columnBase THEN NoPosition
  ELSE LET bs == {b \in boundaries(c, c.lines[line - c.lineBase + 1]) :
                    b.units >= column - c.columnBase}
       IN IF bs = {} THEN NoPosition
          ELSE [line |-> line - c.lineBase + 1,
                column |-> 1 + (CHOOSE b \in bs : \A d \in bs : b.bytes <= d.bytes).bytes]

fromClient(c, line, column) ==
  IF line < c.lineBase \/ line - c.lineBase >= Len(c.lines) THEN NoPosition
  ELSE IF column = NoColumn THEN [line |-> line - c.lineBase + 1, column |-> 0]
  ELSE IF column < c.columnBase THEN NoPosition
  ELSE LET bs == {b \in boundaries(c, c.lines[line - c.lineBase + 1]) :
                    b.units = column - c.columnBase}
       IN IF bs = {} THEN NoPosition
          ELSE [line |-> line - c.lineBase + 1, column |-> 1 + (CHOOSE b \in bs : TRUE).bytes]

Refused == [line |-> -1, column |-> 0]

toClient(c, position) ==
  IF position.line \notin 1..Len(c.lines) \/ position.column < 0 THEN Refused
  ELSE IF position.column = 0
       THEN [line |-> position.line - 1 + c.lineBase, column |-> NoColumn]
  ELSE LET bs == {b \in boundaries(c, c.lines[position.line]) : b.bytes = position.column - 1}
       IN IF bs = {} THEN Refused
          ELSE [line |-> position.line - 1 + c.lineBase,
                column |-> (CHOOSE b \in bs : TRUE).units + c.columnBase]
-----------------------------------------------------------------------------
(* Semantic tokens *)

overlapsAny(span, values) == \E v \in values : span.start < v.end /\ v.start < span.end

\* The parts of a span between line ends, in order.
splitSemanticSpan(m, marked) ==
  LET span == [start |-> IF marked.start < 0 THEN 0 ELSE marked.start,
               end |-> IF marked.end > m.size THEN m.size ELSE marked.end]
      last == Index(m, span.end) - 1
      parts[i \in (Index(m, span.start) - 1)..last] ==
        IF i < Index(m, span.start) THEN [done |-> <<>>, start |-> span.start]
        ELSE LET p == parts[i - 1]
             IN IF m.text[i] \notin LineEnds THEN p
                ELSE [done |-> IF m.off[i] > p.start
                               THEN Append(p.done, [start |-> p.start, end |-> m.off[i]])
                               ELSE p.done,
                      start |-> m.off[i + 1]]
      end == parts[last]
  IN IF span.end <= span.start THEN <<>>
     ELSE IF end.start < span.end THEN Append(end.done, [start |-> end.start, end |-> span.end])
     ELSE end.done

before(a, b) ==
  \/ a.start < b.start
  \/ a.start = b.start /\ a.priority > b.priority
  \/ a.start = b.start /\ a.priority = b.priority /\ a.end < b.end

\* Mutant: overlapping spans are all kept.
SemanticTokensOverlaid(m, marked) ==
  FlattenSeq([i \in 1..Cardinality(marked) |->
     LET parts == splitSemanticSpan(m, SetToSortSeq(marked, before)[i])
     IN [k \in 1..Len(parts) |-> SpanToRange(m, parts[k])]])

\* Syntax gives way to meaning, then the first span in order wins.
SemanticTokens(m, marked) ==
  LET semantic == {s \in marked : s.priority > 0}
      order == SetToSortSeq(semantic \cup {s \in marked \ semantic : ~overlapsAny(s, semantic)},
                            before)
      taken[i \in 0..Len(order)] ==
        IF i = 0 THEN [tokens |-> <<>>, lastEnd |-> -1]
        ELSE IF order[i].start < taken[i - 1].lastEnd THEN taken[i - 1]
        ELSE LET parts == splitSemanticSpan(m, order[i])
             IN [tokens |-> taken[i - 1].tokens
                              \o [k \in 1..Len(parts) |-> SpanToRange(m, parts[k])],
                 lastEnd |-> order[i].end]
  IN taken[Len(order)].tokens

encodeSemanticTokens(tokens) ==
  [i \in 1..Len(tokens) |->
     LET token == tokens[i]
         previous == IF i = 1 THEN [line |-> 0, character |-> 0] ELSE tokens[i - 1].start
         deltaLine == token.start.line - previous.line
     IN [deltaLine |-> deltaLine % UInt,
         deltaStart |-> (token.start.character
                           - (IF deltaLine = 0 THEN previous.character ELSE 0)) % UInt,
         length |-> (token.end.character - token.start.character) % UInt]]
-----------------------------------------------------------------------------
Init == text = <<>> /\ spans = {}

type ==
  /\ spans = {} /\ Len(text) < MaxSize
  /\ \E c \in Chars : text' = Append(text, c)
  /\ UNCHANGED spans

\* The compiler reports a span between two characters, of syntax (priority 0), a
\* call, a reference or a declaration.
mark ==
  /\ Len(text) + Cardinality(spans) < MaxSize
  /\ LET off == Sums(text, Bytes)
     IN \E i, j \in 1..(Len(text) + 1), priority \in Priorities :
          i <= j /\ spans' = spans \cup {[start |-> off[i], end |-> off[j], priority |-> priority]}
  /\ UNCHANGED text

Next == type \/ mark

Spec == Init /\ [][Next]_vars
-----------------------------------------------------------------------------
(* Properties *)

Typing == spans = {}
WellFormed == \A i \in 1..Len(text) : text[i] # "tail"
atOrBefore(p, q) == p.line < q.line \/ (p.line = q.line /\ p.character <= q.character)

\* Converting any offset to a position and back stays at the same position and
\* never moves forward in the text; it returns to every character that is not part
\* of a line end; positions are ordered as offsets are; and the range of a span is
\* the range of the span a client reads from it.
PositionsRoundTrip ==
  LET m == NewMapper(text) IN
    /\ Typing => \A o \in 0..(m.size + 1) :
         LET p == OffsetToPosition(m, o)
             back == PositionToOffset(m, p)
         IN /\ back <= o
            /\ OffsetToPosition(m, back) = p
            /\ atOrBefore(OffsetToPosition(m, o - 1), p)
            /\ \A i \in 1..Len(text) :
                 m.off[i] = o /\ text[i] \notin LineEnds \cup {"tail"} => back = o
    /\ Cardinality(spans) = 1 => \A span \in spans :
         SpanToRange(m, RangeToSpan(m, SpanToRange(m, span))) = SpanToRange(m, span)

\* Every position the debugger can name, at a character of its line or at the end,
\* has a client position, which converts back to it; a client column between two
\* characters is refused.
BreakpointsRoundTrip ==
  Typing => \A base \in [line : {0, 1}, column : {0, 1}] :
    LET c == newSourceCoordinates(text, base) IN
    /\ \A l \in 1..Len(c.lines) : \A b \in boundaries(c, c.lines[l]) :
         LET native == [line |-> l, column |-> b.bytes + 1]
             client == toClient(c, native)
         IN client # Refused /\ fromClient(c, client.line, client.column) = native
    /\ \A line \in 0..(Len(text) + 2), column \in {NoColumn} \cup 0..(2 * Len(text) + 2) :
         LET native == fromClient(c, line, column)
         IN native # NoPosition => toClient(c, native) = [line |-> line, column |-> column]

\* The two adapters name a character alike, in a text whose lines end in line
\* feeds: a breakpoint and a diagnostic on it are shown at one place.
AdaptersAgree ==
  Typing /\ WellFormed
    /\ (\A i \in 1..Len(text) : /\ text[i] # "ls"
                                /\ text[i] = "cr" => i < Len(text) /\ text[i + 1] = "lf") =>
    LET m == NewMapper(text)
        c == newSourceCoordinates(text, [line |-> 0, column |-> 0])
    IN \A l \in 1..Len(c.lines) : \A i \in c.lines[l].first..(c.lines[l].last + 1) :
         LET p == OffsetToPosition(m, c.off[i])
         IN toClient(c, [line |-> l, column |-> 1 + c.off[i] - c.off[c.lines[l].first]])
              = [line |-> p.line, column |-> p.character]

\* What a client decodes from the relative, unsigned encoding is the tokens of the
\* document: each on one line and not empty, in order, none overlapping the next,
\* whatever spans the analysis reported.
TokensDecode ==
  WellFormed =>
    LET tokens == SemanticTokens(NewMapper(text), spans)
        encoded == encodeSemanticTokens(tokens)
        decoded[i \in 0..Len(tokens)] ==
          IF i = 0 THEN [line |-> 0, character |-> 0, length |-> 0]
          ELSE [line |-> decoded[i - 1].line + encoded[i].deltaLine,
                character |-> encoded[i].deltaStart
                                + (IF encoded[i].deltaLine = 0 THEN decoded[i - 1].character ELSE 0),
                length |-> encoded[i].length]
    IN \A i \in 1..Len(tokens) :
         /\ tokens[i].start = [line |-> decoded[i].line, character |-> decoded[i].character]
         /\ tokens[i].end = [line |-> decoded[i].line,
                             character |-> decoded[i].character + decoded[i].length]
         /\ decoded[i].length > 0
         /\ i > 1 => atOrBefore(tokens[i - 1].end, tokens[i].start)
=============================================================================
