----------------------------- MODULE ToolOutput -----------------------------
(***************************************************************************)
(* How a text reaches the model in pieces: the line windows of read_file   *)
(* (tools/builtins/file_reader.go, file_read.go), the truncation of a tool *)
(* result and the hash it leaves behind (processToolResult of the          *)
(* executor), and tool_result_read, which reads the rest.                  *)
(*                                                                         *)
(* A text is a sequence of bytes, of which only the newline matters; what  *)
(* is shown to the model is a sequence of bytes and Marks.                 *)
(***************************************************************************)
EXTENDS Integers, SequencesExt, Cases

CONSTANTS MaxText,       \* bound: length of the texts enumerated
          BufSize,       \* size of the bufio.Reader's buffer (64 KiB)
          CharsPerToken, \* 4 in applyToolResultBudget
          MinBudget,     \* the floor of computeBudgetCap (256)
          DefaultResultReadLines, \* fragment size of tool_result_read (500)
          MaxLineBytes, MaxWindowLines  \* DefaultFileLimits: bytes shown of a
                                        \* line, lines of one window

ASSUME ToolOutputAssumption ==
    /\ {MaxText, MinBudget} \subseteq Nat /\ {BufSize, CharsPerToken, DefaultResultReadLines,
                                            MaxLineBytes, MaxWindowLines} \subseteq Nat \ {0}

NL == 0
Byte == {NL, 1}
Mark == 2   \* "[...line N truncated at M bytes...]"
Texts == UNION {[1..n -> Byte] : n \in 0..MaxText}

Least(x, y) == IF x < y THEN x ELSE y
From(t, i) == SubSeq(t, i, Len(t))

-----------------------------------------------------------------------------
(* Reading lines *)

\* bufio.Reader.ReadSlice('\n') on the unread bytes u: how many it returns
\* and how it ends.
ReadSlice(u) ==
    LET ends == {i \in 1..Least(BufSize, Len(u)) : u[i] = NL}
    IN  IF ends # {} THEN [n |-> CHOOSE i \in ends : \A j \in ends : i <= j, err |-> "none"]
        ELSE IF Len(u) >= BufSize THEN [n |-> BufSize, err |-> "full"]
        ELSE [n |-> Len(u), err |-> "eof"]

\* The loop of readLineBounded: fragments are appended up to maxBytes; the
\* rest of the line is consumed and dropped.
RECURSIVE Fragments(_, _, _, _), TakeFragment(_, _, _, _, _)
Fragments(u, maxBytes, buf, truncated) ==
    TakeFragment(ReadSlice(u), u, maxBytes, buf, truncated)
TakeFragment(s, u, maxBytes, buf, truncated) ==
    LET frag == SubSeq(u, 1, s.n)
        fits == maxBytes <= 0 \/ Len(buf) + s.n <= maxBytes
        buf2 == IF truncated THEN buf
                ELSE IF fits THEN buf \o frag
                ELSE buf \o SubSeq(frag, 1, maxBytes - Len(buf))
        cut == truncated \/ ~fits
    IN  IF s.err = "full" THEN Fragments(From(u, s.n + 1), maxBytes, buf2, cut)
        ELSE [text |-> buf2, truncated |-> cut, complete |-> s.err = "none",
              rest |-> From(u, s.n + 1)]

\* Mutant: every fragment is compared with the cap on its own.
RECURSIVE FragmentsAlone(_, _, _, _)
FragmentsAlone(u, maxBytes, buf, truncated) ==
    LET s == ReadSlice(u)
        frag == SubSeq(u, 1, s.n)
        fits == maxBytes <= 0 \/ s.n <= maxBytes
        buf2 == IF truncated THEN buf
                ELSE IF fits THEN buf \o frag ELSE buf \o SubSeq(frag, 1, maxBytes)
    IN  IF s.err = "full" THEN FragmentsAlone(From(u, s.n + 1), maxBytes, buf2, truncated \/ ~fits)
        ELSE [text |-> buf2, truncated |-> truncated \/ ~fits, complete |-> s.err = "none",
              rest |-> From(u, s.n + 1)]
ReadLineAlone(u, maxBytes) == FragmentsAlone(u, maxBytes, <<>>, FALSE)

ReadLineBounded(u, maxBytes) == Fragments(u, maxBytes, <<>>, FALSE)

WriteLine(ln, maxBytes) ==
    IF maxBytes <= 0 \/ ~ln.truncated THEN ln.text
    ELSE ln.text \o <<Mark>> \o (IF ln.complete THEN <<NL>> ELSE <<>>)

Newlines(u) == Len(SelectSeq(u, LAMBDA b : b = NL))

\* Mutant: a last line without a newline is not counted.
CountNewlinesOnly(u) == Newlines(u)

CountRemainingNewlines(u) ==
    Newlines(u) + (IF u # <<>> /\ u[Len(u)] # NL THEN 1 ELSE 0)

RECURSIVE RangeLoop(_, _, _, _, _, _), RangeLine(_, _, _, _, _, _)
RangeLoop(u, first, last, maxBytes, lineNum, out) ==
    RangeLine(ReadLineBounded(u, maxBytes), first, last, maxBytes, lineNum, out)
RangeLine(ln, first, last, maxBytes, lineNum, out) ==
    LET n == IF ln.text # <<>> THEN lineNum + 1 ELSE lineNum
        out2 == IF ln.text # <<>> /\ n >= first /\ n <= last
                THEN out \o WriteLine(ln, maxBytes) ELSE out
    IN  IF ~ln.complete THEN [content |-> out2, total |-> n]
        ELSE IF n > last
        THEN [content |-> out2, total |-> n + CountRemainingNewlines(ln.rest)]
        ELSE RangeLoop(ln.rest, first, last, maxBytes, n, out2)

\* The window: start_line and end_line default, MaxWindowLines caps.
StartOf(p) == IF p.start <= 0 THEN 1 ELSE p.start
EndOf(p) ==
    LET asked == IF p.end <= 0 THEN StartOf(p) + (IF p.default <= 0 THEN 1 ELSE p.default) - 1
                 ELSE p.end
    IN  IF p.window > 0 /\ asked - StartOf(p) + 1 > p.window
        THEN StartOf(p) + p.window - 1 ELSE asked

ReadFileRange(file, p) ==
    [start |-> StartOf(p), end |-> EndOf(p)]
        @@ RangeLoop(file, StartOf(p), EndOf(p), p.maxLine, 0, <<>>)

RECURSIVE SingleLoop(_, _, _), SingleLineAt(_, _, _)
SingleLoop(u, lineNum, current) == SingleLineAt(ReadLineBounded(u, 0), lineNum, current)
SingleLineAt(ln, lineNum, current) ==
    LET n == IF ln.text # <<>> THEN current + 1 ELSE current
    IN  IF ln.text # <<>> /\ n = lineNum
        THEN [found |-> TRUE, line |-> SelectSeq(ln.text, LAMBDA b : b # NL),
              total |-> n + CountRemainingNewlines(ln.rest)]
        ELSE IF ~ln.complete THEN [found |-> FALSE, line |-> <<>>, total |-> n]
        ELSE SingleLoop(ln.rest, lineNum, n)

\* The absolute cap of a raw line (64 MiB) is beyond the texts enumerated.
ReadSingleLine(file, lineNum) == SingleLoop(file, lineNum, 0)

\* Mutant: the hint names the last line shown.
OverlappingReplyOf(r) ==
    LET last == Least(r.end, r.total)
    IN  [content |-> r.content, first |-> r.start, last |-> last,
         next |-> IF r.total > 0 /\ last < r.total /\ last > r.start THEN last ELSE
                  IF r.total > 0 /\ last < r.total THEN last + 1 ELSE 0]
ReadFileReplyOverlapping(file, p) == OverlappingReplyOf(ReadFileRange(file, p))

\* read_file: the header's window, clamped to the file, and the start_line
\* of its hint (0 = the file ends here).
ReplyOf(r) ==
    LET first == IF Least(r.start, r.total) < 1 THEN 1 ELSE Least(r.start, r.total)
        last == Least(r.end, r.total)
    IN  [content |-> r.content, first |-> first, last |-> last,
         next |-> IF r.total > 0 /\ last < r.total THEN last + 1 ELSE 0]
ReadFileReply(file, p) == ReplyOf(ReadFileRange(file, p))

-----------------------------------------------------------------------------
(* Truncating a tool result *)

Ascending(set) == SetToSortSeq(set, LAMBDA a, b : a < b)
\* The pieces of t between two neighbours of cuts, the second one excluded.
Pieces(t, cuts) == [k \in 1..(Len(cuts) - 1) |-> SubSeq(t, cuts[k] + 1, cuts[k + 1] - 1)]

\* strings.Split(s, "\n"): a last newline is followed by an empty line.
SplitLines(t) ==
    Pieces(t, <<0>> \o Ascending({i \in 1..Len(t) : t[i] = NL}) \o <<Len(t) + 1>>)
JoinLines(lines) ==
    IF lines = <<>> THEN <<>>
    ELSE FoldLeft(LAMBDA acc, l : acc \o <<NL>> \o l, lines[1], Tail(lines))

\* applyPerToolTruncation: by lines, then by bytes (0 = no limit).
CutLines(t, lines, max) ==
    IF max > 0 /\ Len(lines) > max THEN JoinLines(SubSeq(lines, 1, max)) ELSE t
CutBytes(t, max) == IF max > 0 /\ Len(t) > max THEN SubSeq(t, 1, max) ELSE t
PerToolTruncation(t, cfg) == CutBytes(CutLines(t, SplitLines(t), cfg.maxLines), cfg.maxBytes)

\* computeBudgetCap: a hard cap of 0 or less means no budget.
BudgetApplies(b) == b.hard > 0
BudgetCap(b) == IF Least(b.hard, b.adaptive) < MinBudget THEN MinBudget
                ELSE Least(b.hard, b.adaptive)

\* Mutant: the prediction rounds the estimate up where the cut rounds down,
\* and caps without the floor.
WillBudgetTruncateLate(t, b) ==
    /\ BudgetApplies(b)
    /\ Len(t) \div CharsPerToken > BudgetCap(b) + 1
    /\ BudgetCap(b) * CharsPerToken < Len(t)

WillBudgetTruncate(t, b) ==
    /\ BudgetApplies(b)
    /\ Len(t) \div CharsPerToken > BudgetCap(b)
    /\ BudgetCap(b) * CharsPerToken < Len(t)

\* applyToolResultBudget; hash is the one its message may name.
ToolResultBudget(t, b, hash) ==
    IF ~BudgetApplies(b) \/ Len(t) \div CharsPerToken <= BudgetCap(b)
       \/ BudgetCap(b) * CharsPerToken >= Len(t)
    THEN [text |-> t, hash |-> FALSE]
    ELSE [text |-> SubSeq(t, 1, BudgetCap(b) * CharsPerToken), hash |-> hash]

\* processToolResult: what the model sees, whether it is told a hash, and
\* whether the full result is in the cache.
AfterTruncation(one, truncated, c) ==
    LET store == c.cache /\ (c.cacheable \/ truncated \/ WillBudgetTruncate(one, c.budget))
        nudge == store /\ (truncated \/ (c.cacheable /\ c.fileBacked))
        two == ToolResultBudget(one, c.budget, store /\ ~nudge)
    IN  [text |-> two.text, told |-> nudge \/ two.hash, stored |-> store]
ProcessToolResult(t, c) ==
    LET one == PerToolTruncation(t, c.cfg) IN AfterTruncation(one, one # t, c)

-----------------------------------------------------------------------------
(* tool_result_read *)

\* NumLines: the per-tool ceiling, or the default one.
NumLines(asked, cfg) ==
    LET n == IF asked <= 0 THEN DefaultResultReadLines ELSE asked
    IN  IF cfg.maxLines > 0 THEN Least(n, cfg.maxLines) ELSE Least(n, DefaultResultReadLines)

\* Mutant: the hint's window starts at the requested, not the returned end.
CachedFragmentSkipping(t, start, num) ==
    LET lines == SplitLines(t)
        first == Least(start, Len(lines))
        last == Least(first + num - 1, Len(lines))
    IN  [lines |-> SubSeq(lines, first, last),
         next |-> IF last < Len(lines) THEN last + 2 ELSE 0]

\* A fragment of an entry kept in memory.
FragmentOf(lines, start, num) ==
    LET first == Least(start, Len(lines))
        last == Least(first + num - 1, Len(lines))
    IN  [lines |-> SubSeq(lines, first, last),
         next |-> IF last < Len(lines) THEN last + 1 ELSE 0]
CachedFragment(t, start, num) == FragmentOf(SplitLines(t), start, num)

\* readFromFileBacked: the entry's file is read again, under the default
\* limits of a line and of a window; the hint counts the lines asked for.
FileFragmentOf(r, asked) ==
    LET last == Least(asked, r.total)
    IN  [content |-> r.content, next |-> IF r.total > 0 /\ last < r.total THEN last + 1 ELSE 0]

\* Mutant: the window asked for ends one line early.
FileFragmentShort(t, start, num) ==
    FileFragmentOf(ReadFileRange(t, [start |-> start, end |-> start + num - 2, default |-> 0,
                                     maxLine |-> MaxLineBytes, window |-> MaxWindowLines]),
                   start + num - 1)

FileFragment(t, start, num) ==
    FileFragmentOf(ReadFileRange(t, [start |-> start, end |-> start + num - 1, default |-> 0,
                                     maxLine |-> MaxLineBytes, window |-> MaxWindowLines]),
                   start + num - 1)

-----------------------------------------------------------------------------
(* The enumerated inputs *)

Windows == [start : {-1, 1, 2, 3}, end : {0, 1, 3}, default : {0, 2}, maxLine : {0, 2, 3},
            window : {0, 2}]
Pipelines == [cfg : [maxLines : {0, 2, 3}, maxBytes : {0, 3}], cache : BOOLEAN,
              cacheable : BOOLEAN, fileBacked : BOOLEAN,
              budget : [hard : {0, 1, 2}, adaptive : {0, 3}]]

LinesNext ==
    \/ Pick("lines", [text : Texts, window : Windows])
    \/ Pick("output", [text : Texts, pipeline : Pipelines])

-----------------------------------------------------------------------------
(* Properties *)

\* The lines of a text, each with its newline.
EndingAt(t, ends) ==
    [k \in 1..Len(ends) |-> SubSeq(t, IF k = 1 THEN 1 ELSE ends[k - 1] + 1, ends[k])]
LinesOf(t) == EndingAt(t, Ascending({i \in 1..Len(t) : t[i] = NL \/ i = Len(t)}))

Shown(line, maxLine) ==
    IF maxLine <= 0 \/ Len(line) <= maxLine THEN line
    ELSE SubSeq(line, 1, maxLine) \o <<Mark>>
         \o (IF line[Len(line)] = NL THEN <<NL>> ELSE <<>>)

WindowOf(r, lines, maxLine) ==
    /\ r.total = Len(lines)
    /\ r.content = FlattenSeq([k \in 1..Len(lines) |->
           IF k \in r.start..r.end THEN Shown(lines[k], maxLine) ELSE <<>>])
SingleOf(s, lines, k) ==
    /\ s.found = (k <= Len(lines)) /\ s.total = Len(lines)
    /\ s.found => s.line = SelectSeq(lines[k], LAMBDA b : b # NL)

\* ReadFileRange returns exactly the lines of its window and the number of
\* lines of the file, whatever falls on a buffer boundary, however long the
\* lines are and whether or not the file ends with a newline; ReadSingleLine
\* agrees with it.
WindowExact ==
    Picked("lines") =>
        LET t == case[1].text
            p == case[1].window
        IN  \A lines \in {LinesOf(t)} :
               /\ WindowOf(ReadFileRange(t, p), lines, p.maxLine)
               /\ \A k \in 1..(Len(lines) + 1) : SingleOf(ReadSingleLine(t, k), lines, k)

RECURSIVE FollowFile(_, _), ThenFile(_, _, _)
ThenFile(r, t, p) ==
    IF r.next = 0 THEN r.content
    ELSE r.content \o FollowFile(t, [p EXCEPT !.start = r.next, !.end = 0])
FollowFile(t, p) == ThenFile(ReadFileReply(t, p), t, p)

\* A model that follows the "Use start_line=N to continue" hints of read_file
\* from the top of the file sees every line exactly once, in order.
HintsReadEverything ==
    Picked("lines") =>
        LET t == case[1].text
            p == [case[1].window EXCEPT !.start = 1]
        IN  \A lines \in {LinesOf(t)} :
                FollowFile(t, p) = FlattenSeq([k \in 1..Len(lines) |-> Shown(lines[k], p.maxLine)])

RECURSIVE FollowCache(_, _, _), ThenCache(_, _, _)
ThenCache(r, t, num) == IF r.next = 0 THEN r.lines ELSE r.lines \o FollowCache(t, r.next, num)
FollowCache(t, start, num) == ThenCache(CachedFragment(t, start, num), t, num)
RECURSIVE FollowFileBacked(_, _, _), ThenFileBacked(_, _, _)
ThenFileBacked(r, t, num) ==
    IF r.next = 0 THEN r.content ELSE r.content \o FollowFileBacked(t, r.next, num)
FollowFileBacked(t, start, num) == ThenFileBacked(FileFragment(t, start, num), t, num)

\* What the fragments of a file-backed entry show when its hints are
\* followed num lines at a time: every line, cut at MaxLineBytes, as long as
\* num fits the window; of a larger num, MaxWindowLines lines in every num.
ReadThroughHints(lines, num) ==
    FlattenSeq([k \in 1..Len(lines) |-> IF (k - 1) % num < MaxWindowLines
                                        THEN Shown(lines[k], MaxLineBytes) ELSE <<>>])

\* Whatever the two stages of truncation drop, the model can get back: when
\* there is a cache, a shortened result always names a hash under which the
\* full one is stored.  The fragments of an entry kept in memory add up to
\* it.  Those of a file-backed entry show every line, cut at MaxLineBytes,
\* unless the per-tool ceiling on num_lines exceeds MaxWindowLines: then the
\* hints pass over the rest of each window (tool_result_read.go:195-211).
\* The line parameter gives back each single line in full, either way.
TruncationRecoverable ==
    Picked("output") =>
        LET t == case[1].text
            c == case[1].pipeline
            r == ProcessToolResult(t, c)
        IN  (c.cache /\ r.text # t) =>
               /\ r.told /\ r.stored
               /\ \A asked \in {0, 3}, lines \in {LinesOf(t)} :
                      LET n == NumLines(asked, c.cfg)
                      IN  /\ JoinLines(FollowCache(t, 1, n)) = t
                          /\ FollowFileBacked(t, 1, n) = ReadThroughHints(lines, n)
                          /\ \A k \in 1..Len(lines) : SingleOf(ReadSingleLine(t, k), lines, k)

(* What a limit cuts can be asked for: a window holds exactly the lines it   *)
(* claims, the hints of read_file and of an entry in memory lead to every    *)
(* line, those of a file-backed entry to every line unless num_lines exceeds *)
(* the window, and every line can be had in full by its number               *)
(* (file_reader.go:78, executor_run.go:1795, tool_result_read.go:173).       *)
OutputRecoverable ==
    /\ WindowExact
    /\ HintsReadEverything
    /\ TruncationRecoverable
=============================================================================
