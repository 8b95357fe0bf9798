------------------------------ MODULE Parsing -------------------------------
(***************************************************************************)
(* From a decoded text to the drafts of its chunks: MarkdownParser.parse,  *)
(* a step for each line, TextParser.parse, whose regular expression finds  *)
(* paragraphs and no headings, and FixedChunker.chunk, a step for each     *)
(* window.  Sources: ingestion/parsers.py, ingestion/chunking.py.          *)
(*                                                                         *)
(* A line is what the pattern for headings tells apart in it: indentation, *)
(* level number signs and white space, width characters, which some spaces *)
(* part into words, white space, closing number signs, white space, and    *)
(* what ends the line.  A line of text has only the indentation, the       *)
(* words, the last white space and the end.                                *)
(*                                                                         *)
(* Positions count from 0 in text, the lines as the parser joins them, and *)
(* an interval [from, to) stands for what is there.  Offsets count the     *)
(* characters of the source.  A title is named by the number of its line.  *)
(***************************************************************************)
EXTENDS Integers, Sequences, FiniteSetsExt, SequencesExt

CONSTANTS
  Inputs,     \* the documents: sequences of lines
  MaxChars,   \* ingestion_chunk_size
  Overlap     \* ingestion_chunk_overlap

(* FixedChunker.__init__ *)
ASSUME ChunkerAssumption ==
  MaxChars \in Nat /\ Overlap \in Nat /\ MaxChars >= 1 /\ Overlap < MaxChars

(* The words begin and end in ink.  Every line but the last has an end: a newline,
   or another character at which str.splitlines splits. *)
Line == [level : Nat, indent : Nat, lead : Nat, width : Nat, spaces : SUBSET Nat,
         gap : Nat, signs : Nat, tail : Nat, ending : {"newline", "other", "none"}]

IsText(l) == l.level = 0 /\ l.lead = 0 /\ l.gap = 0 /\ l.signs = 0

(* MarkdownParser._heading: one to six signs, at most three characters in, and a
   title: words, or one of several white spaces, which leaves it empty. *)
IsHeading(l) ==
  /\ l.level \in 1..6 /\ l.indent <= 3 /\ l.lead >= 1
  /\ l.width = 0 => l.gap = 0 /\ l.signs = 0 /\ l.tail >= 1

ASSUME LineAssumption ==
  \A d \in Inputs :
    /\ d \in Seq(Line)
    /\ \A n \in DOMAIN d : /\ IsText(d[n]) \/ IsHeading(d[n])
                           /\ d[n].spaces \subseteq 2..d[n].width - 1
                           /\ d[n].ending = "none" => n = Len(d)

VARIABLES
  stage,      \* "parse", "chunk" or "chunked"
  lines,      \* the document
  headed,     \* the parser knows headings: Markdown
  line,       \* lines read
  offset,     \* their characters
  text,       \* what they make: a line, a kind and an offset for each character
  headings,   \* lines of the enclosing headings
  paragraph,  \* where the open paragraph starts, -1 if there is none
  blocks,     \* blocks found
  block,      \* the block that is cut
  start,      \* where the next window starts in it
  drafts      \* drafts of chunks

parsingVars == <<stage, lines, headed, line, offset, text, headings, paragraph, blocks, block, start, drafts>>

-----------------------------------------------------------------------------
(* The text *)

TitleStart(l) == l.indent + l.level + l.lead

LineLength(l) == TitleStart(l) + l.width + l.gap + l.signs + l.tail

IsSpace(l, i) ==
  LET p == i - TitleStart(l)
  IN \/ i <= l.indent
     \/ i > l.indent + l.level /\ p <= 0
     \/ p \in l.spaces
     \/ p > l.width /\ p <= l.width + l.gap
     \/ p > l.width + l.gap + l.signs

(* The signs around a title are its marks.  A sign that ends a word is a closing
   sign to the pattern, as if there were white space between: a mark as well. *)
Kind(l, i) ==
  IF IsSpace(l, i) THEN "space"
  ELSE IF ~headed \/ (TitleStart(l) < i /\ i <= TitleStart(l) + l.width) THEN "ink"
  ELSE "mark"

(* MarkdownParser strips a line of a newline only, and joins lines by newlines: it
   adds one to any other end. *)
Ending(l) ==
  IF l.ending = "none" THEN 0 ELSE IF headed /\ l.ending = "other" THEN 2 ELSE 1

(* Line n with its end. *)
Characters(n) ==
  [i \in 1..LineLength(lines[n]) + Ending(lines[n]) |->
     [line |-> n, kind |-> Kind(lines[n], i), at |-> offset + i - 1]]

InkIn(from, to) == {i \in from..to - 1 : text[i + 1].kind # "space"}

(* str.strip: without the white space at both ends. *)
Strip(from, to) ==
  LET ink == InkIn(from, to)
  IN IF ink = {} THEN <<from, from>> ELSE <<Min(ink), Max(ink) + 1>>

-----------------------------------------------------------------------------
(* MarkdownParser, TextParser *)

ParsingInit ==
  /\ stage = "parse" /\ lines \in Inputs /\ headed \in BOOLEAN
  /\ line = 0 /\ offset = 0 /\ text = <<>> /\ headings = <<>> /\ paragraph = -1 /\ blocks = <<>>
  /\ block = 1 /\ start = 0 /\ drafts = <<>>

(* flush: the open paragraph up to here becomes a block, located at the offset of
   its first line and as far behind as strip has removed white space there. *)
Flushed(end) ==
  IF paragraph = -1 THEN blocks
  ELSE LET s == Strip(paragraph, end)
       IN Append(blocks, [from |-> s[1], to |-> s[2],
                          at |-> text[paragraph + 1].at + s[1] - paragraph, path |-> headings])

ReadLine ==
  /\ stage = "parse" /\ line < Len(lines)
  /\ line' = line + 1 /\ text' = text \o Characters(line + 1)
  /\ LET l == lines[line + 1]
     IN offset' = offset + LineLength(l) + (IF l.ending = "none" THEN 0 ELSE 1)

(* Faulty variant: the headings of the same level stay. *)
ReadHeadingBeside ==
  LET l == lines[line + 1]
      from == Len(text) + TitleStart(l)
  IN /\ ReadLine /\ headed /\ l.level > 0
     /\ headings' = Append(SubSeq(headings, 1, Min({l.level, Len(headings)})), line + 1)
     /\ blocks' = Append(Flushed(Len(text)),
                         [from |-> from, to |-> from + l.width, at |-> offset, path |-> headings'])
     /\ paragraph' = -1
     /\ UNCHANGED <<stage, lines, headed, block, start, drafts>>

(* A heading ends the paragraph, replaces the headings from its level on, and is
   a block of its own: the title without the signs and the white space around it,
   located at its line. *)
ReadHeading ==
  LET l == lines[line + 1]
      from == Len(text) + TitleStart(l)
  IN /\ ReadLine /\ headed /\ l.level > 0
     /\ headings' = Append(SubSeq(headings, 1, Min({l.level - 1, Len(headings)})), line + 1)
     /\ blocks' = Append(Flushed(Len(text)),
                         [from |-> from, to |-> from + l.width, at |-> offset, path |-> headings'])
     /\ paragraph' = -1
     /\ UNCHANGED <<stage, lines, headed, block, start, drafts>>

Blank(l) == l.level = 0 /\ l.width = 0

(* TextParser ends a paragraph before two newlines with only white space between:
   this is so at the end of the lines read. *)
Parted ==
  /\ ~headed /\ paragraph # -1
  /\ Cardinality({n \in 1..line : /\ lines[n].ending = "newline"
                                  /\ \A m \in n + 1..line : Blank(lines[m])}) >= 2

(* A line extends the open paragraph, or opens one. *)
ReadText ==
  LET l == lines[line + 1] IN
  /\ ReadLine /\ ~Blank(l) /\ (headed => l.level = 0) /\ ~Parted
  /\ paragraph' = IF paragraph = -1 THEN Len(text) ELSE paragraph
  /\ UNCHANGED <<stage, lines, headed, headings, blocks, block, start, drafts>>

ReadParagraph ==
  /\ ReadLine /\ ~Blank(lines[line + 1]) /\ Parted
  /\ blocks' = Flushed(Len(text)) /\ paragraph' = Len(text)
  /\ UNCHANGED <<stage, lines, headed, headings, block, start, drafts>>

ReadBlank ==
  /\ ReadLine /\ Blank(lines[line + 1])
  /\ IF headed THEN blocks' = Flushed(Len(text)) /\ paragraph' = -1
     ELSE UNCHANGED <<blocks, paragraph>>
  /\ UNCHANGED <<stage, lines, headed, headings, block, start, drafts>>

(* Faulty variant: the last paragraph is not flushed. *)
EndParsingUnflushed ==
  /\ stage = "parse" /\ line = Len(lines)
  /\ stage' = "chunk" /\ paragraph' = -1
  /\ UNCHANGED <<lines, headed, line, offset, text, headings, blocks, block, start, drafts>>

EndParsing ==
  /\ stage = "parse" /\ line = Len(lines)
  /\ blocks' = Flushed(Len(text)) /\ paragraph' = -1
  /\ stage' = "chunk"
  /\ UNCHANGED <<lines, headed, line, offset, text, headings, block, start, drafts>>

-----------------------------------------------------------------------------
(* FixedChunker *)

(* Faulty variant: a window is located where it ends. *)
DraftBehind(b, from, to) ==
  LET s == Strip(b.from + from, b.from + to)
      at == b.at + to
  IN IF s[1] = s[2] THEN <<>>
     ELSE <<[from |-> s[1], to |-> s[2], at |-> at, end |-> at + s[2] - s[1],
             block |-> block, path |-> b.path]>>

(* A window that is not all white space is located where it starts, and stripped. *)
Draft(b, from, to) ==
  LET s == Strip(b.from + from, b.from + to)
      at == b.at + from
  IN IF s[1] = s[2] THEN <<>>
     ELSE <<[from |-> s[1], to |-> s[2], at |-> at, end |-> at + s[2] - s[1],
             block |-> block, path |-> b.path]>>

(* Faulty variant: the loop ends where a window would start, not where one ends. *)
CutToTheEnd ==
  /\ stage = "chunk" /\ block <= Len(blocks)
  /\ LET b == blocks[block]
         end == Min({start + MaxChars, b.to - b.from})
     IN /\ drafts' = drafts \o Draft(b, start, end)
        /\ IF start + MaxChars - Overlap >= b.to - b.from
             THEN block' = block + 1 /\ start' = 0
             ELSE start' = start + MaxChars - Overlap /\ UNCHANGED block
  /\ UNCHANGED <<stage, lines, headed, line, offset, text, headings, paragraph, blocks>>

(* A window of the block is stripped and drafted; the next one starts Overlap
   characters before its end, unless that was the end of the block. *)
Cut ==
  /\ stage = "chunk" /\ block <= Len(blocks)
  /\ LET b == blocks[block]
         end == Min({start + MaxChars, b.to - b.from})
     IN /\ drafts' = drafts \o Draft(b, start, end)
        /\ IF end = b.to - b.from
             THEN block' = block + 1 /\ start' = 0
             ELSE start' = end - Overlap /\ UNCHANGED block
  /\ UNCHANGED <<stage, lines, headed, line, offset, text, headings, paragraph, blocks>>

EndChunking ==
  /\ stage = "chunk" /\ block > Len(blocks)
  /\ stage' = "chunked"
  /\ UNCHANGED <<lines, headed, line, offset, text, headings, paragraph, blocks, block, start, drafts>>

ParsingNext ==
  ReadHeading \/ ReadText \/ ReadParagraph \/ ReadBlank \/ EndParsing \/ Cut \/ EndChunking

ParsingSpec == ParsingInit /\ [][ParsingNext]_parsingVars

-----------------------------------------------------------------------------
(* Properties *)

HeadingLines == {n \in DOMAIN lines : headed /\ lines[n].level > 0}

(* No text is lost between the lines, the blocks and the windows: what is written
   in the document is what the chunks contain, except the number signs that the
   pattern takes off both ends of a heading, those of a word included. *)
NothingIsLost ==
  stage = "chunked" =>
    {i \in 0..Len(text) - 1 : text[i + 1].kind = "ink"} =
      UNION {InkIn(drafts[k].from, drafts[k].to) : k \in DOMAIN drafts}

(* No block has white space as long as the way from a window to the next. *)
GapsAreShort ==
  \A k \in DOMAIN blocks :
    \A i \in blocks[k].from .. blocks[k].to - (MaxChars - Overlap) :
      InkIn(i, i + MaxChars - Overlap) # {}

(* A chunk holds at most MaxChars characters, and the chunks follow the document:
   from block to block, and inside a block whose gaps are short, each goes on
   beyond the one before it and repeats at most the overlap.  (A gap that is
   longer is stripped from two windows, which may then start at one character.) *)
ChunksAdvance ==
  /\ \A k \in DOMAIN drafts : drafts[k].to - drafts[k].from \in 1..MaxChars
  /\ \A k \in 1..Len(drafts) - 1 :
       LET c == drafts[k]
           d == drafts[k + 1]
       IN /\ c.block # d.block => c.to <= d.from
          /\ d.from >= c.to - Overlap
          /\ GapsAreShort => c.from < d.from /\ c.to < d.to

(* The headings a reader sees above line n: the earlier ones that no heading of
   the same or a higher rank has closed since. *)
Encloses(h, n) ==
  /\ h < n
  /\ \A g \in HeadingLines : h < g /\ g <= n =>
       lines[g].level > lines[h].level

Enclosing(n) == {h \in HeadingLines : h = n \/ Encloses(h, n)}

(* Every level that is used has a heading of the level above it around it. *)
NoLevelSkipped ==
  \A n \in HeadingLines :
    lines[n].level = 1 \/ \E h \in HeadingLines : Encloses(h, n) /\ lines[h].level = lines[n].level - 1

(* In a document whose headings skip no level, a chunk's section path is the list
   of the headings it stands under. *)
PathIsEnclosing ==
  NoLevelSkipped => \A k \in DOMAIN blocks :
    LET n == text[blocks[k].from + 1].line
    IN /\ ToSet(blocks[k].path) = Enclosing(n)
       /\ \A i, j \in DOMAIN blocks[k].path : i < j => blocks[k].path[i] < blocks[k].path[j]

(* The newlines that the parser adds between two lines. *)
Joins(m, n) == {i \in m..n - 1 : headed /\ lines[i].ending = "other"}

(* How far a chunk's recorded offset is from its text: it is before it by the white
   space that strip removed in front, less a character for each newline added
   before that in the block, and in a heading also by the beginning of its line. *)
OffsetsAreNear ==
  \A k \in DOMAIN drafts :
    LET d == drafts[k]
        first == text[blocks[d.block].from + 1].line
        here == text[d.from + 1].line
        away == text[d.from + 1].at - d.at + Cardinality(Joins(first, here))
    IN /\ away >= 0
       /\ \A i \in InkIn(d.from - away, d.from) : here \in HeadingLines /\ text[i + 1].line = here
=============================================================================
