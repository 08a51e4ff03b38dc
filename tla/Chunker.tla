------------------------------ MODULE Chunker ------------------------------
(***************************************************************************)
(* embedding/chunker.go: how a file is cut into the chunks that are        *)
(* embedded, with their line numbers.  A line is its kind and its width; a *)
(* rune remembers the line it came from, so a chunk can be held against    *)
(* the file.                                                               *)
(***************************************************************************)
EXTENDS Cases, Integers, FiniteSets, SequencesExt

CONSTANTS MaxFileLines,  \* lines of a file
          LineWidths     \* runes of a line with text

ASSUME ChunkerAssumption == MaxFileLines \in Nat /\ LineWidths \subseteq Nat \ {0}

----------------------------------------------------------------------------
(* Lines, runes and pieces; a piece carries the line it claims to start on. *)
LineTexts ==
    {[kind |-> "empty", width |-> 0], [kind |-> "space", width |-> 1]}
    \cup [kind : {"text", "heading", "key"}, width : LineWidths]

IsBlankLine(l) == l.kind \in {"empty", "space"}

LineRunes(l, no) ==
    [i \in 1..l.width |-> [line |-> no, col |-> i, ch |-> IF l.kind = "space" THEN "sp" ELSE "x"]]

Numbered(lines) == [i \in 1..Len(lines) |-> [text |-> lines[i], no |-> i]]

(* strings.Join(lines, newline). *)
RunesOf(lines) ==
    FlattenSeq([i \in 1..Len(lines) |->
        LineRunes(lines[i].text, lines[i].no)
        \o IF i < Len(lines) THEN <<[line |-> lines[i].no, col |-> 0, ch |-> "nl"]>> ELSE <<>>])

CountNewlines(runes) == Len(SelectSeq(runes, LAMBDA r : r.ch = "nl"))

LineCount(runes) == IF runes = <<>> THEN 0 ELSE CountNewlines(runes) + 1

----------------------------------------------------------------------------
(* The splitters. *)
WithDefaults(max, overlap) == IF overlap >= max THEN max \div 5 ELSE overlap

SplitDroppingShortTail(p) ==
    LET step(acc, l) ==
            IF IsBlankLine(l.text) /\ acc.current # <<>>
            THEN [parts |-> Append(acc.parts, [lines |-> Append(acc.current, l), startLine |-> acc.start]),
                  current |-> <<>>, start |-> acc.start + Len(acc.current) + 1]
            ELSE [acc EXCEPT !.current = Append(@, l)]
        end == FoldLeft(step, [parts |-> <<>>, current |-> <<>>, start |-> p.startLine], p.lines)
    IN  IF Len(end.current) <= 1 /\ end.parts # <<>> THEN end.parts
        ELSE Append(end.parts, [lines |-> end.current, startLine |-> end.start])

(* A piece ends with each blank line that does not begin it. *)
SplitBySingleBlanks(p) ==
    LET step(acc, l) ==
            IF IsBlankLine(l.text) /\ acc.current # <<>>
            THEN [parts |-> Append(acc.parts, [lines |-> Append(acc.current, l), startLine |-> acc.start]),
                  current |-> <<>>, start |-> acc.start + Len(acc.current) + 1]
            ELSE [acc EXCEPT !.current = Append(@, l)]
        end == FoldLeft(step, [parts |-> <<>>, current |-> <<>>, start |-> p.startLine], p.lines)
    IN  IF end.current = <<>> THEN end.parts
        ELSE Append(end.parts, [lines |-> end.current, startLine |-> end.start])

(* Groups of lines, each begun by a line of the given kind, and a first. *)
GroupsBefore(lines, kind) ==
    LET starts == {1} \cup {i \in 2..Len(lines) : lines[i].text.kind = kind}
        ends(i) == {j \in starts : j > i}
        stop(i) == IF ends(i) = {} THEN Len(lines) ELSE (CHOOSE j \in ends(i) : \A k \in ends(i) : j <= k) - 1
    IN  [g \in 1..Cardinality(starts) |->
            LET i == CHOOSE i \in starts : Cardinality({j \in starts : j <= i}) = g
            IN  SubSeq(lines, i, stop(i))]

(* Fixed windows of runes, each begun overlap before the end of the last;  *)
(* the first to reach the end of the text is the last.                     *)
FixedWindows(n, max, overlap) ==
    IF n <= max THEN 1 ELSE 1 + (n - max + max - overlap - 1) \div (max - overlap)

FixedSizePiecesFromEnd(p, max, overlap) ==
    [k \in 1..FixedWindows(Len(p.runes), max, overlap) |->
        LET i == (k - 1) * (max - overlap)
        IN  [runes |-> SubSeq(p.runes, i + 1, IF i + max > Len(p.runes) THEN Len(p.runes) ELSE i + max),
             startLine |-> p.startLine + CountNewlines(SubSeq(p.runes, 1, i + 1))]]
FixedSizePieces(p, max, overlap) ==
    [k \in 1..FixedWindows(Len(p.runes), max, overlap) |->
        LET i == (k - 1) * (max - overlap)
        IN  [runes |-> SubSeq(p.runes, i + 1, IF i + max > Len(p.runes) THEN Len(p.runes) ELSE i + max),
             startLine |-> p.startLine + CountNewlines(SubSeq(p.runes, 1, i))]]

(* The pieces too long for a chunk, split again; the others as they are. *)
Oversized(lines, max) == Len(RunesOf(lines)) > max

SplitOversizedByBlanks(parts, max) ==
    FlattenSeq([i \in 1..Len(parts) |->
        IF Oversized(parts[i].lines, max) THEN SplitBySingleBlanks(parts[i]) ELSE <<parts[i]>>])

SplitOversized(parts, max, overlap) ==
    FlattenSeq([i \in 1..Len(parts) |->
        LET p == [runes |-> RunesOf(parts[i].lines), startLine |-> parts[i].startLine]
        IN  IF Oversized(parts[i].lines, max) THEN FixedSizePieces(p, max, overlap) ELSE <<p>>])

(* Start lines from the lines of the groups before, or, for configuration  *)
(* files, from lineCount of their joined text.                             *)
FromLines(groups) ==
    [g \in 1..Len(groups) |->
        [lines |-> groups[g], startLine |-> 1 + Len(FlattenSeq(SubSeq(groups, 1, g - 1)))]]

PiecesFromContiguousLines(groups) ==
    LET count(g) == LineCount(RunesOf(groups[g]))
    IN  [g \in 1..Len(groups) |->
            [lines |-> groups[g],
             startLine |-> 1 + FoldLeft(LAMBDA acc, h : acc + count(h), 0, [h \in 1..(g - 1) |-> h])]]

----------------------------------------------------------------------------
(* ChunkFile: the pieces by file type, without the ones of blanks only. *)
ChunkCode(file, max, overlap) ==
    SplitOversized(SplitBySingleBlanks([lines |-> file, startLine |-> 1]), max, overlap)

ChunkMarkdown(file, max, overlap) ==
    SplitOversized(SplitOversizedByBlanks(FromLines(GroupsBefore(file, "heading")), max), max, overlap)

Whole(file) == [lines |-> file, startLine |-> 1]

ChunkConfig(file, max, overlap) ==
    LET groups == GroupsBefore(file, "key")
    IN  IF ~Oversized(file, max) THEN SplitOversized(<<Whole(file)>>, max, overlap)
        ELSE IF Len(groups) <= 1 THEN SplitOversized(<<Whole(file)>>, max, overlap)
        ELSE SplitOversized(PiecesFromContiguousLines(groups), max, overlap)

FixedSizeSplit(file, max, overlap) == SplitOversized(<<Whole(file)>>, max, overlap)

SectionsOf(c) ==
    LET overlap == WithDefaults(c.max, c.overlap)
        file == Numbered(c.lines)
    IN  CASE c.type = "code" -> ChunkCode(file, c.max, overlap)
          [] c.type = "markdown" -> ChunkMarkdown(file, c.max, overlap)
          [] c.type = "config" -> ChunkConfig(file, c.max, overlap)
          [] c.type = "other" -> FixedSizeSplit(file, c.max, overlap)

NewChunks(kept) ==
    [i \in 1..Len(kept) |->
        [runes |-> kept[i].runes, startLine |-> kept[i].startLine,
         endLine |-> kept[i].startLine + LineCount(kept[i].runes) - 1]]

ChunkFile(c) ==
    NewChunks(SelectSeq(SectionsOf(c), LAMBDA p : \E i \in 1..Len(p.runes) : p.runes[i].ch = "x"))

ChunkerNext ==
    \E n \in 1..MaxFileLines, max \in 2..4, overlap \in 1..3,
       type \in {"code", "markdown", "config", "other"} :
        Pick("chunks", [lines : [1..n -> LineTexts], max : {max}, overlap : {overlap}, type : {type}])

----------------------------------------------------------------------------
(* No visible text of a file is lost, no chunk is longer than the limit,   *)
(* and the chunks follow the file (chunker.go:195, :235, :317, :344).      *)
ChunksCoverTheFile ==
    Picked("chunks") =>
        \A chunks \in {ChunkFile(case[1])} :
            /\ \A r \in ToSet(RunesOf(Numbered(case[1].lines))) :
                   r.ch = "x" => \E k \in 1..Len(chunks) : r \in ToSet(chunks[k].runes)
            /\ \A k \in 1..Len(chunks) : Len(chunks[k].runes) <= case[1].max
            /\ \A k \in 1..(Len(chunks) - 1) : chunks[k].startLine <= chunks[k + 1].startLine

(* A configuration file cut at its keys whose first group is one empty     *)
(* line: lineCount("") is 0, so that line is not counted.                  *)
EmptyFirstGroup(c) ==
    /\ c.type = "config" /\ Oversized(Numbered(c.lines), c.max)
    /\ Len(c.lines) > 1 /\ c.lines[1].kind = "empty" /\ c.lines[2].kind = "key"

(* A chunk's line numbers are those of its text in the file: it starts on  *)
(* the line of its first rune and ends on that of its last, or on the next *)
(* after a final newline.  In a configuration file with an empty first     *)
(* group every number is one too small, against chunker.go:18 and 284-286, *)
(* and in no other file (chunker.go:240, :268, :287).                      *)
ChunkLinesTrue ==
    Picked("chunks") =>
        \A chunk \in ToSet(ChunkFile(case[1])) :
            LET last == chunk.runes[Len(chunk.runes)]
                off == IF EmptyFirstGroup(case[1]) THEN 1 ELSE 0
            IN  /\ chunk.startLine + off = chunk.runes[1].line
                /\ chunk.endLine + off = last.line + (IF last.ch = "nl" THEN 1 ELSE 0)

(* A file can be put together again from its chunks, and each is where its   *)
(* line numbers say, one line off throughout a configuration file that       *)
(* starts with an empty line before its first key (chunker.go:287-295).      *)
ChunksFaithful ==
    /\ ChunksCoverTheFile
    /\ ChunkLinesTrue
=============================================================================
