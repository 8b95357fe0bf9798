-------------------------- MODULE AlgorithmProofs --------------------------
(***************************************************************************)
(* Proofs about modules Parsing and Fusion: for every document, chunk size *)
(* and overlap, and for every two lists of hits and every setting of the   *)
(* fusion.  Parser and chunker: what is settled of the text is in blocks,  *)
(* and what the windows have passed of a block is in drafts.  Fusion: a    *)
(* score is what the hits read so far add to it.                           *)
(***************************************************************************)
EXTENDS Parsing, Fusion, FiniteSetTheorems, WellFoundedInduction, TLAPS

-----------------------------------------------------------------------------
(* Numbers *)

(* Every nonempty set of natural numbers has a least element. *)
LEMMA LeastNatural ==
  ASSUME NEW T \in SUBSET Nat, T # {}
  PROVE  \E n \in T : \A m \in T : n <= m
<1> DEFINE R == StrictSubsetOrdering(Nat)
           S == FiniteSubsetsOf(Nat)
           I == {0..n : n \in T}
<1>1. IsWellFoundedOn(R, S)
  BY FS_StrictSubsetOrderingWellFounded
<1>2. I \subseteq S
  <2>1. \A n \in Nat : 0..n \in SUBSET Nat /\ IsFiniteSet(0..n)
    BY FS_Interval
  <2> QED BY <2>1 DEF FiniteSubsetsOf
<1>3. I # {}
  OBVIOUS
<1>4. PICK x \in I : \A y \in I : ~(<<y, x>> \in R)
  <2> HIDE DEF R, S, I
  <2> QED BY <1>1, <1>2, <1>3, WFMin
<1>5. PICK n \in T : x = 0..n
  OBVIOUS
<1>6. ASSUME NEW m \in T, m < n PROVE FALSE
  <2>1. 0..m \in I /\ 0..m \in SUBSET Nat /\ 0..n \in SUBSET Nat
    OBVIOUS
  <2>2. 0..m \subseteq 0..n /\ n \in 0..n /\ n \notin 0..m
    BY <1>6
  <2>3. <<0..m, 0..n>> \in R
    BY <2>1, <2>2, Zenon DEF StrictSubsetOrdering
  <2> QED BY <1>4, <1>5, <2>1, <2>3
<1> QED BY <1>6

(* Min and Max of a nonempty set of numbers between two others are in it, and the
   least and the greatest there. *)
LEMMA MinMax ==
  ASSUME NEW a \in Nat, NEW b \in Nat, NEW T \in SUBSET (a..b), T # {}
  PROVE  /\ Min(T) \in T /\ \A x \in T : Min(T) <= x
         /\ Max(T) \in T /\ \A x \in T : x <= Max(T)
<1>1. PICK n \in T : \A m \in T : n <= m
  <2>1. T \in SUBSET Nat
    OBVIOUS
  <2> QED BY <2>1, LeastNatural
<1>2. PICK z \in T : \A m \in T : m <= z
  <2> DEFINE U == {b - x : x \in T}
  <2>1. U \in SUBSET Nat /\ U # {}
    OBVIOUS
  <2> HIDE DEF U
  <2>2. PICK u \in U : \A v \in U : u <= v
    BY <2>1, LeastNatural
  <2>3. PICK x \in T : u = b - x
    BY DEF U
  <2>4. \A m \in T : b - x <= b - m
    BY <2>2, <2>3 DEF U
  <2>5. \A m \in T : m <= x
    BY <2>4
  <2> QED BY <2>5
<1>3. Min(T) \in T /\ \A x \in T : Min(T) <= x
  BY <1>1 DEF Min
<1>4. Max(T) \in T /\ \A x \in T : x <= Max(T)
  <2>1. \E x \in T : \A y \in T : x >= y
    <3>1. \A y \in T : z >= y
      BY <1>2
    <3> QED BY <3>1
  <2>2. Max(T) \in T /\ \A y \in T : Max(T) >= y
    BY <2>1 DEF Max
  <2> QED BY <2>2
<1> QED BY <1>3, <1>4

(* Min of a pair is its smaller part. *)
LEMMA MinOfTwo ==
  ASSUME NEW a \in Nat, NEW b \in Nat
  PROVE  Min({a, b}) = IF a <= b THEN a ELSE b
<1>1. CASE a <= b
  <2>1. {a, b} \in SUBSET (a..b) /\ {a, b} # {}
    BY <1>1
  <2>2. Min({a, b}) \in {a, b} /\ Min({a, b}) <= a
    BY <2>1, MinMax
  <2> QED BY <1>1, <2>2
<1>2. CASE ~(a <= b)
  <2>1. {a, b} \in SUBSET (b..a) /\ {a, b} # {}
    BY <1>2
  <2>2. Min({a, b}) \in {a, b} /\ Min({a, b}) <= b
    BY <2>1, MinMax
  <2> QED BY <1>2, <2>2
<1> QED BY <1>1, <1>2

-----------------------------------------------------------------------------
(* What the variables hold. *)
Chars == [line : Nat, kind : {"space", "mark", "ink"}, at : Nat]
Blocks == [from : Nat, to : Nat, at : Nat, path : Seq(Nat)]
Drafts == [from : Nat, to : Nat, at : Nat, end : Nat, block : Nat, path : Seq(Nat)]

(* What is not white space, and what is neither that nor a mark, in a text t:
   InkIn, for the text of another state. *)
InkOf(t, from, to) == {i \in from..to - 1 : t[i + 1].kind # "space"}
WrittenIn(t, from, to) == {i \in from..to - 1 : t[i + 1].kind = "ink"}

(* Blocks lie before end, one after the other, each between two characters of ink
   unless it is empty. *)
Ordered(t, bs, end) ==
  /\ \A k \in DOMAIN bs :
       /\ bs[k].from <= bs[k].to /\ bs[k].from < end /\ bs[k].to <= end
       /\ bs[k].from < bs[k].to => t[bs[k].from + 1].kind = "ink" /\ t[bs[k].to].kind = "ink"
  /\ \A k, m \in DOMAIN bs : k < m => bs[k].to <= bs[m].from

(* A block is located where it begins or, a title, at the beginning of its line. *)
Located(t, b) ==
  \/ b.at = t[b.from + 1].at
  \/ \E h \in HeadingLines : \E v \in Nat :
       /\ v <= b.from /\ t[b.from + 1].at = b.at + v
       /\ \A i \in b.from - v .. b.to - 1 : t[i + 1].line = h

(* Blocks hold what is written before end, and nothing else. *)
Holding(t, bs, end) ==
  /\ \A k \in DOMAIN bs : InkOf(t, bs[k].from, bs[k].to) \subseteq WrittenIn(t, 0, end)
  /\ \A i \in WrittenIn(t, 0, end) : \E k \in DOMAIN bs : i \in InkOf(t, bs[k].from, bs[k].to)

(* The fields of a block. *)
LEMMA BlockType ==
  ASSUME NEW bs \in Seq(Blocks), NEW k \in DOMAIN bs
  PROVE  /\ bs[k] \in Blocks /\ bs[k].path \in Seq(Nat)
         /\ bs[k].from \in Nat /\ bs[k].to \in Nat /\ bs[k].at \in Nat
<1>1. bs[k] \in Blocks
  OBVIOUS
<1> QED
  BY <1>1 DEF Blocks

(* Strip cuts what has ink down to it, from its first character to its last, and
   what has none to nothing. *)
LEMMA StripFact ==
  ASSUME NEW from \in Nat, NEW to \in Nat
  PROVE  LET ink == InkOf(text, from, to)
             s == Strip(from, to)
         IN  /\ ink = {} => s[1] = s[2]
             /\ ink # {} =>
                  /\ s[1] \in from..to - 1 /\ s[2] \in from + 1 .. to /\ s[1] < s[2]
                  /\ text[s[1] + 1].kind # "space" /\ text[s[2]].kind # "space"
                  /\ InkOf(text, s[1], s[2]) = ink
                  /\ \A i \in ink : s[1] <= i /\ i < s[2]
<1> DEFINE ink == InkOf(text, from, to)
           s == Strip(from, to)
<1>1. ink = InkIn(from, to)
  BY DEF InkOf, InkIn
<1>2. CASE ink = {}
  BY <1>1, <1>2 DEF Strip
<1>3. CASE ink # {}
  <2>0. PICK x : x \in ink
    BY <1>3
  <2>1. ink \in SUBSET (from..to - 1) /\ to - 1 \in Nat
    BY <2>0 DEF InkOf
  <2>2. /\ Min(ink) \in ink /\ \A i \in ink : Min(ink) <= i
        /\ Max(ink) \in ink /\ \A i \in ink : i <= Max(ink)
    BY <1>3, <2>1, MinMax
  <2>3. s[1] = Min(ink) /\ s[2] = Max(ink) + 1
    BY <1>1, <1>3 DEF Strip
  <2> HIDE DEF s
  <2>4. PICK a \in ink, z \in ink : a = s[1] /\ z + 1 = s[2] /\ \A i \in ink : a <= i /\ i <= z
    BY <2>2, <2>3
  <2>5. a \in from..to - 1 /\ z \in from..to - 1 /\ a <= z
    BY <2>1, <2>4
  <2>6. text[a + 1].kind # "space" /\ text[z + 1].kind # "space"
    BY DEF InkOf
  <2>7. InkOf(text, a, z + 1) = ink
    BY <2>4, <2>5 DEF InkOf
  <2>8. \A i \in ink : s[1] <= i /\ i < s[2]
    BY <2>1, <2>4, <2>5
  <2>9. s[1] \in from..to - 1 /\ s[2] \in from + 1 .. to /\ s[1] < s[2]
    BY <2>4, <2>5
  <2> QED
    BY <1>3, <2>4, <2>6, <2>7, <2>8, <2>9 DEF s
<1> QED
  BY <1>2, <1>3

(* Text that grows leaves what is settled as it is. *)
LEMMA TextGrows ==
  ASSUME NEW t \in Seq(Chars), NEW u \in Seq(Chars), Len(t) <= Len(u),
         \A i \in 1..Len(t) : u[i] = t[i],
         NEW bs \in Seq(Blocks), NEW end \in 0..Len(t), Ordered(t, bs, end)
  PROVE  /\ Ordered(u, bs, end)
         /\ Holding(t, bs, end) => Holding(u, bs, end)
         /\ \A k \in DOMAIN bs : Located(t, bs[k]) => Located(u, bs[k])
<1>1. \A k \in DOMAIN bs :
        /\ bs[k].from \in Nat /\ bs[k].to \in Nat
        /\ bs[k].from <= bs[k].to /\ bs[k].from < end /\ bs[k].to <= end
        /\ bs[k].from < bs[k].to => t[bs[k].from + 1].kind = "ink" /\ t[bs[k].to].kind = "ink"
  BY BlockType DEF Ordered
<1>2. Ordered(u, bs, end)
  <2>1. ASSUME NEW k \in DOMAIN bs, bs[k].from < bs[k].to
        PROVE  u[bs[k].from + 1].kind = "ink" /\ u[bs[k].to].kind = "ink"
    <3>1. bs[k].from + 1 \in 1..Len(t) /\ bs[k].to \in 1..Len(t)
      BY <1>1, <2>1
    <3> QED
      BY <1>1, <2>1, <3>1
  <2> QED
    BY <1>1, <2>1 DEF Ordered
<1>3. ASSUME Holding(t, bs, end) PROVE Holding(u, bs, end)
  <2>1. WrittenIn(u, 0, end) = WrittenIn(t, 0, end)
    BY DEF WrittenIn
  <2>2. ASSUME NEW k \in DOMAIN bs
        PROVE  InkOf(u, bs[k].from, bs[k].to) = InkOf(t, bs[k].from, bs[k].to)
    <3>1. bs[k].from \in Nat /\ bs[k].to \in Nat /\ bs[k].to <= Len(t)
      BY <1>1
    <3> QED
      BY <3>1 DEF InkOf
  <2> QED
    BY <1>3, <2>1, <2>2 DEF Holding
<1>4. ASSUME NEW k \in DOMAIN bs, Located(t, bs[k]) PROVE Located(u, bs[k])
  <2>1. PICK f \in Nat, e \in Nat : f = bs[k].from /\ e = bs[k].to /\ f < Len(t) /\ e <= Len(t)
    BY <1>1
  <2>2. u[f + 1] = t[f + 1]
    <3>1. f + 1 \in 1..Len(t)
      BY <2>1
    <3> QED BY <3>1
  <2>3. ASSUME NEW v \in Nat, v <= f, NEW i \in f - v .. e - 1 PROVE u[i + 1] = t[i + 1]
    <3>1. i + 1 \in 1..Len(t)
      BY <2>1, <2>3
    <3> QED BY <3>1
  <2>4. CASE bs[k].at = t[f + 1].at
    BY <2>1, <2>2, <2>4 DEF Located
  <2>5. ASSUME NEW h \in HeadingLines, NEW v \in Nat, v <= f, t[f + 1].at = bs[k].at + v,
               \A i \in f - v .. e - 1 : t[i + 1].line = h
        PROVE  Located(u, bs[k])
    <3>1. \A i \in f - v .. e - 1 : u[i + 1].line = h
      BY <2>3, <2>5
    <3>2. u[f + 1].at = bs[k].at + v
      BY <2>2, <2>5
    <3> QED
      BY <2>1, <2>5, <3>1, <3>2 DEF Located
  <2> QED
    BY <1>4, <2>1, <2>4, <2>5 DEF Located
<1> QED
  BY <1>2, <1>3, <1>4

(* What a further block, or none, makes of the blocks when the text from end to
   last is settled. *)
LEMMA BlockAdded ==
  ASSUME NEW t \in Seq(Chars), NEW bs \in Seq(Blocks), NEW b \in Blocks,
         NEW end \in Nat, NEW last \in Nat, end <= last, Ordered(t, bs, end), Holding(t, bs, end),
         end <= b.from, b.from <= b.to, b.from < last, b.to <= last,
         b.from < b.to => t[b.from + 1].kind = "ink" /\ t[b.to].kind = "ink",
         InkOf(t, b.from, b.to) = WrittenIn(t, end, last)
  PROVE  Append(bs, b) \in Seq(Blocks) /\ Ordered(t, Append(bs, b), last) /\ Holding(t, Append(bs, b), last)
<1> DEFINE cs == Append(bs, b)
<1>1. /\ cs \in Seq(Blocks) /\ DOMAIN cs = DOMAIN bs \cup {Len(bs) + 1}
      /\ cs[Len(bs) + 1] = b /\ \A k \in DOMAIN bs : cs[k] = bs[k]
      /\ Len(bs) \in Nat /\ DOMAIN bs = 1..Len(bs)
  OBVIOUS
<1>2. \A k \in DOMAIN bs : bs[k].from \in Nat /\ bs[k].to \in Nat /\ bs[k].at \in Nat
  BY BlockType
<1>3. b.from \in Nat /\ b.to \in Nat /\ b.at \in Nat
  BY DEF Blocks
<1> HIDE DEF cs
<1>4. Ordered(t, cs, last)
  <2>1. \A k \in DOMAIN bs : bs[k].to <= end /\ bs[k].to <= last
    BY <1>2 DEF Ordered
  <2>2. \A k \in DOMAIN cs :
          /\ cs[k].from <= cs[k].to /\ cs[k].from < last /\ cs[k].to <= last
          /\ cs[k].from < cs[k].to => t[cs[k].from + 1].kind = "ink" /\ t[cs[k].to].kind = "ink"
    <3>1. \A k \in DOMAIN bs : bs[k].from < last
      BY <1>2 DEF Ordered
    <3> QED
      BY <1>1, <2>1, <3>1 DEF Ordered
  <2>3. ASSUME NEW k \in DOMAIN cs, NEW m \in DOMAIN cs, k < m PROVE cs[k].to <= cs[m].from
    <3>1. k \in DOMAIN bs
      BY <1>1, <2>3
    <3>2. CASE m \in DOMAIN bs
      BY <1>1, <2>3, <3>1, <3>2 DEF Ordered
    <3>3. CASE m = Len(bs) + 1
      BY <1>1, <1>2, <1>3, <2>1, <3>1, <3>3
    <3> QED
      BY <1>1, <3>2, <3>3
  <2> QED
    BY <2>2, <2>3 DEF Ordered
<1>5. Holding(t, cs, last)
  <2>1. WrittenIn(t, 0, last) = WrittenIn(t, 0, end) \cup WrittenIn(t, end, last)
    BY DEF WrittenIn
  <2>2. \A k \in DOMAIN cs : InkOf(t, cs[k].from, cs[k].to) \subseteq WrittenIn(t, 0, last)
    BY <1>1, <2>1 DEF Holding
  <2>3. ASSUME NEW i \in WrittenIn(t, 0, last)
        PROVE  \E k \in DOMAIN cs : i \in InkOf(t, cs[k].from, cs[k].to)
    <3>1. CASE i \in WrittenIn(t, 0, end)
      BY <1>1, <3>1 DEF Holding
    <3>2. CASE i \in WrittenIn(t, end, last)
      BY <1>1, <3>2
    <3> QED
      BY <2>1, <3>1, <3>2
  <2> QED
    BY <2>2, <2>3 DEF Holding
<1> QED
  BY <1>1, <1>4, <1>5 DEF cs

(* The same when nothing is written there. *)
LEMMA NoneAdded ==
  ASSUME NEW t \in Seq(Chars), NEW bs \in Seq(Blocks), NEW end \in Nat, NEW last \in Nat,
         end <= last, Ordered(t, bs, end), Holding(t, bs, end), WrittenIn(t, end, last) = {}
  PROVE  Ordered(t, bs, last) /\ Holding(t, bs, last)
<1>1. \A k \in DOMAIN bs : bs[k].to \in Nat /\ bs[k].from \in Nat
  BY BlockType
<1>2. WrittenIn(t, 0, last) = WrittenIn(t, 0, end) \cup WrittenIn(t, end, last)
  BY DEF WrittenIn
<1> QED
  BY <1>1, <1>2 DEF Ordered, Holding

-----------------------------------------------------------------------------
(* The parser's invariant. *)
ParsingTypeOK ==
  /\ stage \in {"parse", "chunk", "chunked"} /\ lines \in Inputs /\ headed \in BOOLEAN
  /\ line \in 0..Len(lines) /\ offset \in Nat /\ text \in Seq(Chars) /\ headings \in Seq(Nat)
  /\ paragraph \in -1..Len(text) - 1 /\ blocks \in Seq(Blocks)
  /\ block \in 1..Len(blocks) + 1 /\ start \in Nat /\ drafts \in Seq(Drafts)
  /\ stage = "parse" => block = 1 /\ start = 0 /\ drafts = <<>>
  /\ stage # "parse" => paragraph = -1

(* Up to where the text is settled: its blocks are found. *)
Settled == IF paragraph = -1 THEN Len(text) ELSE paragraph

(* The open paragraph begins with a line of ink, and has no marks or heading lines. *)
ParagraphIsInk ==
  paragraph # -1 =>
    /\ \E i \in InkOf(text, paragraph, Len(text)) : text[i + 1].line = text[paragraph + 1].line
    /\ \A i \in paragraph..Len(text) - 1 :
         /\ text[i + 1].kind # "mark"
         /\ \A g \in HeadingLines : g <= line => g < text[i + 1].line

(* The text t of the first n lines, which have off characters: by the newlines that
   the parser added between two positions the second is further on than its
   offset is. *)
OffsetsDrift(t, n, off) ==
  \A i \in 0..Len(t) - 1 :
    /\ t[i + 1].line \in 1..n
    /\ (Len(t) - off) - (i - t[i + 1].at) = Cardinality(Joins(t[i + 1].line, n + 1))
    /\ \A j \in i..Len(t) - 1 :
         /\ t[i + 1].line <= t[j + 1].line
         /\ (j - t[j + 1].at) - (i - t[i + 1].at) = Cardinality(Joins(t[i + 1].line, t[j + 1].line))

(* The path names the headings above line n, in their order. *)
PathFits(path, n) ==
  /\ ToSet(path) = Enclosing(n)
  /\ \A i, j \in DOMAIN path : i < j => path[i] < path[j]

(* The parser's headings are the ones the last line read stands under, one of each
   level. *)
HeadingsAreOpen ==
  /\ \A i \in DOMAIN text : text[i].line <= line
  /\ NoLevelSkipped =>
       PathFits(headings, line) /\ \A i \in DOMAIN headings : lines[headings[i]].level = i

(* The path of a block fits the line it starts in. *)
Pathed(t, bs) ==
  NoLevelSkipped => \A k \in DOMAIN bs : PathFits(bs[k].path, t[bs[k].from + 1].line)

ParseInv ==
  /\ ParsingTypeOK
  /\ Ordered(text, blocks, Settled) /\ Holding(text, blocks, Settled) /\ Pathed(text, blocks)
  /\ \A k \in DOMAIN blocks : Located(text, blocks[k])
  /\ ParagraphIsInk /\ HeadingsAreOpen /\ OffsetsDrift(text, line, offset)

-----------------------------------------------------------------------------
(* What the types and the assumption say of the document, and of a line of it. *)
LEMMA LinesType ==
  ASSUME ParsingTypeOK
  PROVE  /\ lines \in Seq(Line) /\ Len(lines) \in Nat /\ DOMAIN lines = 1..Len(lines)
         /\ HeadingLines \subseteq 1..Len(lines) /\ HeadingLines \subseteq Nat
         /\ line \in Nat /\ line <= Len(lines)
<1>1. lines \in Inputs
  BY DEF ParsingTypeOK
<1>2. lines \in Seq(Line)
  BY <1>1, LineAssumption DEF Line
<1>3. Len(lines) \in Nat /\ DOMAIN lines = 1..Len(lines)
  BY <1>2
<1>4. HeadingLines \subseteq 1..Len(lines)
  BY <1>3 DEF HeadingLines
<1> QED
  BY <1>2, <1>3, <1>4 DEF ParsingTypeOK

(* The fields and the lengths of a line. *)
LEMMA LineFields ==
  ASSUME NEW l \in Line
  PROVE  /\ l.level \in Nat /\ l.indent \in Nat /\ l.lead \in Nat /\ l.width \in Nat /\ l.gap \in Nat
         /\ l.signs \in Nat /\ l.tail \in Nat
         /\ TitleStart(l) \in Nat /\ LineLength(l) \in Nat /\ Ending(l) \in Nat
         /\ LineLength(l) + Ending(l) \in Nat
<1>1. /\ l.level \in Nat /\ l.indent \in Nat /\ l.lead \in Nat /\ l.width \in Nat /\ l.gap \in Nat
      /\ l.signs \in Nat /\ l.tail \in Nat
  BY DEF Line
<1>2. TitleStart(l) \in Nat
  BY <1>1 DEF TitleStart
<1>3. LineLength(l) \in Nat
  BY <1>1, <1>2 DEF LineLength
<1>4. Ending(l) \in Nat
  BY DEF Ending
<1> QED
  BY <1>1, <1>2, <1>3, <1>4

(* A line of the document is one of text or a heading. *)
LEMMA LineType ==
  ASSUME ParsingTypeOK, NEW n \in DOMAIN lines
  PROVE  /\ lines \in Seq(Line) /\ Len(lines) \in Nat /\ DOMAIN lines = 1..Len(lines)
         /\ lines[n] \in Line /\ lines[n].level \in Nat
         /\ IsText(lines[n]) \/ IsHeading(lines[n])
         /\ lines[n].spaces \subseteq 2..lines[n].width - 1
<1>1. lines \in Seq(Line) /\ Len(lines) \in Nat /\ DOMAIN lines = 1..Len(lines)
  BY LinesType
<1>2. lines[n] \in Line
  BY <1>1
<1>3. lines \in Inputs
  BY DEF ParsingTypeOK
<1>4. (IsText(lines[n]) \/ IsHeading(lines[n])) /\ lines[n].spaces \subseteq 2..lines[n].width - 1
  BY <1>3, LineAssumption
<1> QED
  BY <1>1, <1>2, <1>4, LineFields

(* What a line that is no heading to the parser consists of. *)
LEMMA KindsOfText ==
  ASSUME NEW l \in Line, IsText(l) \/ IsHeading(l), l.spaces \subseteq 2..l.width - 1,
         headed => l.level = 0
  PROVE  /\ \A i \in Nat : Kind(l, i) \in {"space", "ink"}
         /\ Blank(l) => \A i \in Nat : Kind(l, i) = "space"
         /\ ~Blank(l) => \E i \in 1..LineLength(l) : Kind(l, i) # "space"
<1>1. PICK n \in Nat, v \in Nat, x \in Nat, w \in Nat, g \in Nat, c \in Nat, z \in Nat :
        /\ n = l.indent /\ v = l.level /\ x = l.lead /\ w = l.width /\ g = l.gap /\ c = l.signs /\ z = l.tail
  BY LineFields
<1>2. PICK o \in Nat : o = TitleStart(l) /\ o = n + v + x
  BY <1>1 DEF TitleStart
<1>3. LineLength(l) = o + w + g + c + z
  BY <1>1, <1>2 DEF LineLength
<1>4. PICK S \in SUBSET Nat : S = l.spaces /\ S \subseteq 2..w - 1
  BY <1>1 DEF Line
<1>5. \A i : IsSpace(l, i) <=>
            \/ i <= n \/ (i > n + v /\ i - o <= 0) \/ i - o \in S
            \/ (i - o > w /\ i - o <= w + g) \/ i - o > w + g + c
  BY <1>1, <1>2, <1>4 DEF IsSpace
<1>6. \A i : Kind(l, i) = IF IsSpace(l, i) THEN "space"
                          ELSE IF ~headed \/ (o < i /\ i <= o + w) THEN "ink"
                          ELSE "mark"
  BY <1>1, <1>2 DEF Kind
<1>7. v = 0 => x = 0 /\ g = 0 /\ c = 0
  BY <1>1 DEF IsText, IsHeading
<1>8. v > 0 => x >= 1
  BY <1>1 DEF IsText, IsHeading
<1>9. ASSUME NEW i \in Nat, v = 0, ~IsSpace(l, i) PROVE o < i /\ i <= o + w
  <2>1. o = n /\ ~(i <= n) /\ ~(i - o > w + 0 + 0)
    BY <1>2, <1>5, <1>7, <1>9
  <2> QED BY <2>1
<1>10. \A i \in Nat : Kind(l, i) \in {"space", "ink"}
  BY <1>1, <1>6, <1>9
<1>11. ASSUME Blank(l), NEW i \in Nat PROVE Kind(l, i) = "space"
  <2>1. v = 0 /\ w = 0
    BY <1>1, <1>11 DEF Blank
  <2>2. ~(o < i /\ i <= o + w)
    BY <2>1
  <2> QED BY <1>6, <1>9, <2>1, <2>2
<1>12. ASSUME ~Blank(l) PROVE \E i \in 1..LineLength(l) : Kind(l, i) # "space"
  <2>1. v # 0 \/ w # 0
    BY <1>1, <1>12 DEF Blank
  <2>2. CASE v = 0
    <3>1. o = n /\ w >= 1
      BY <1>2, <1>7, <2>1, <2>2
    <3>2. o + 1 \in 1..LineLength(l)
      BY <1>3, <3>1
    <3>3. (o + 1) - o = 1 /\ 1 \notin S /\ ~(o + 1 <= n) /\ ~(1 <= 0) /\ ~(1 > w) /\ ~(1 > w + g + c)
      BY <1>4, <3>1
    <3>4. ~IsSpace(l, o + 1)
      BY <1>5, <3>3
    <3> QED BY <1>6, <3>2, <3>4
  <2>3. CASE v # 0
    <3>1. v >= 1 /\ x >= 1 /\ n + 1 < o
      BY <1>2, <1>8, <2>3
    <3>2. n + 1 \in 1..LineLength(l)
      BY <1>3, <3>1
    <3>3. ~(n + 1 <= n) /\ ~(n + 1 > n + v) /\ (n + 1) - o < 0
      BY <3>1
    <3>4. (n + 1) - o \notin S /\ ~((n + 1) - o > w) /\ ~((n + 1) - o > w + g + c)
      BY <1>4, <3>3
    <3>5. ~IsSpace(l, n + 1)
      BY <1>5, <3>3, <3>4
    <3>6. Kind(l, n + 1) \in {"ink", "mark"}
      BY <1>6, <3>5
    <3> QED BY <3>2, <3>6
  <2> QED BY <2>2, <2>3
<1> QED
  BY <1>10, <1>11, <1>12

(* What is written in a heading is its title, from its first character to its last. *)
LEMMA KindsOfHeading ==
  ASSUME NEW l \in Line, IsHeading(l), l.spaces \subseteq 2..l.width - 1, headed,
         NEW o \in Nat, o = TitleStart(l), NEW w \in Nat, w = l.width
  PROVE  /\ \A i \in Nat : Kind(l, i) = "ink" => o < i /\ i <= o + w
         /\ \A i \in Nat : o < i /\ i <= o + w => Kind(l, i) \in {"space", "ink"}
         /\ w > 0 => Kind(l, o + 1) = "ink" /\ Kind(l, o + w) = "ink"
         /\ o + w <= LineLength(l) /\ o < LineLength(l)
<1>1. PICK n \in Nat, v \in Nat, x \in Nat, g \in Nat, c \in Nat, z \in Nat :
        /\ n = l.indent /\ v = l.level /\ x = l.lead /\ g = l.gap /\ c = l.signs /\ z = l.tail
  BY LineFields
<1>2. o = n + v + x /\ x >= 1
  BY <1>1 DEF TitleStart, IsHeading
<1>3. LineLength(l) = o + w + g + c + z /\ (w = 0 => z >= 1)
  BY <1>1 DEF LineLength, IsHeading
<1>4. PICK S \in SUBSET Nat : S = l.spaces /\ S \subseteq 2..w - 1
  BY DEF Line
<1>5. \A i : IsSpace(l, i) <=>
            \/ i <= n \/ (i > n + v /\ i - o <= 0) \/ i - o \in S
            \/ (i - o > w /\ i - o <= w + g) \/ i - o > w + g + c
  BY <1>1, <1>4 DEF IsSpace
<1>6. \A i : Kind(l, i) = IF IsSpace(l, i) THEN "space"
                          ELSE IF o < i /\ i <= o + w THEN "ink"
                          ELSE "mark"
  BY <1>1 DEF Kind
<1>7. ASSUME NEW p \in Nat, p >= 1, p <= w, p \notin S PROVE Kind(l, o + p) = "ink"
  <2>1. (o + p) - o = p /\ ~(o + p <= n) /\ ~(p <= 0) /\ ~(p > w) /\ ~(p > w + g + c)
    BY <1>2, <1>7
  <2>2. ~IsSpace(l, o + p)
    BY <1>5, <1>7, <2>1
  <2>3. o < o + p /\ o + p <= o + w
    BY <1>7
  <2> QED BY <1>6, <2>2, <2>3
<1>8. 1 \notin S /\ w \notin S
  BY <1>4
<1>9. w > 0 => Kind(l, o + 1) = "ink" /\ Kind(l, o + w) = "ink"
  BY <1>7, <1>8
<1>10. o + w <= LineLength(l) /\ o < LineLength(l)
  BY <1>3
<1> QED
  BY <1>6, <1>9, <1>10

(* Reading a line appends its characters. *)
LEMMA LineRead ==
  ASSUME ParsingTypeOK, ReadLine
  PROVE  LET l == lines[line + 1]
             w == LineLength(l) + Ending(l)
         IN  /\ line + 1 \in DOMAIN lines /\ line' = line + 1 /\ line' \in 0..Len(lines)
             /\ l \in Line /\ w \in Nat
             /\ text' \in Seq(Chars) /\ Len(text') = Len(text) + w /\ Len(text) \in Nat
             /\ \A i \in 1..Len(text) : text'[i] = text[i]
             /\ \A i \in 1..w :
                  /\ text'[Len(text) + i].line = line + 1 /\ text'[Len(text) + i].kind = Kind(l, i)
                  /\ text'[Len(text) + i].at = offset + i - 1
             /\ offset' \in Nat
             /\ offset + w = offset' + (IF headed /\ l.ending = "other" THEN 1 ELSE 0)
<1> DEFINE l == lines[line + 1]
           cs == Characters(line + 1)
<1>1. line + 1 \in DOMAIN lines /\ line' = line + 1 /\ line' \in 0..Len(lines)
  BY LinesType DEF ReadLine
<1>2. PICK w \in Nat : w = LineLength(l) + Ending(l)
  BY <1>1, LineType, LineFields
<1>3. /\ cs \in Seq(Chars) /\ Len(cs) = w
      /\ \A i \in 1..w : cs[i].line = line + 1 /\ cs[i].kind = Kind(l, i) /\ cs[i].at = offset + i - 1
  <2>1. \A i \in 1..w : [line |-> line + 1, kind |-> Kind(l, i), at |-> offset + i - 1] \in Chars
    <3>1. line + 1 \in Nat /\ offset \in Nat
      BY LinesType DEF ParsingTypeOK
    <3>2. \A i \in 1..w : offset + i - 1 \in Nat
      BY <3>1
    <3>3. \A i : Kind(l, i) \in {"space", "mark", "ink"}
      BY DEF Kind
    <3> QED
      BY <3>1, <3>2, <3>3 DEF Chars
  <2>2. cs = [i \in 1..w |-> [line |-> line + 1, kind |-> Kind(l, i), at |-> offset + i - 1]]
    BY <1>2 DEF Characters
  <2> HIDE DEF cs, l
  <2>5. cs \in [1..w -> Chars]
    BY <2>1, <2>2
  <2>6. cs \in Seq(Chars) /\ Len(cs) = w
    BY <2>5
  <2>7. \A i \in 1..w : cs[i] = [line |-> line + 1, kind |-> Kind(l, i), at |-> offset + i - 1]
    BY <2>2
  <2> QED
    BY <2>6, <2>7
<1> HIDE DEF cs
<1>4. text' = text \o cs /\ text \in Seq(Chars) /\ Len(text) \in Nat
  BY DEF ReadLine, ParsingTypeOK, cs
<1>5. /\ text' \in Seq(Chars) /\ Len(text') = Len(text) + w
      /\ \A i \in 1..Len(text) : text'[i] = text[i]
      /\ \A i \in 1..w : text'[Len(text) + i] = cs[i]
  <2>1. cs \in Seq(Chars) /\ Len(cs) = w /\ text \in Seq(Chars)
    BY <1>3, <1>4
  <2>2. text \o cs \in Seq(Chars) /\ Len(text \o cs) = Len(text) + w
    BY <2>1
  <2>3. \A i \in 1..Len(text) : (text \o cs)[i] = text[i]
    BY <1>4, <2>1
  <2>4. \A i \in 1..w : (text \o cs)[Len(text) + i] = cs[i]
    BY <1>4, <2>1
  <2> QED
    BY <1>4, <2>2, <2>3, <2>4
<1>6. offset' \in Nat /\ offset + w = offset' + (IF headed /\ l.ending = "other" THEN 1 ELSE 0)
  <2>1. PICK n \in Nat, a \in Nat : n = LineLength(l) /\ a = offset
    BY <1>1, LineType, LineFields DEF ParsingTypeOK
  <2>2. offset' = a + n + (IF l.ending = "none" THEN 0 ELSE 1)
    BY <2>1 DEF ReadLine
  <2>3. w = n + (IF l.ending = "none" THEN 0 ELSE IF headed /\ l.ending = "other" THEN 2 ELSE 1)
    BY <1>2, <2>1 DEF Ending
  <2> HIDE DEF l
  <2>4. CASE l.ending = "none"
    BY <2>1, <2>2, <2>3, <2>4
  <2>5. CASE l.ending # "none" /\ headed /\ l.ending = "other"
    BY <2>1, <2>2, <2>3, <2>5
  <2>6. CASE l.ending # "none" /\ ~(headed /\ l.ending = "other")
    BY <2>1, <2>2, <2>3, <2>6
  <2> QED
    BY <2>4, <2>5, <2>6
<1> QED
  BY <1>1, <1>2, <1>3, <1>4, <1>5, <1>6, LineType

(* The newlines added up to a line, and up to the next. *)
LEMMA JoinsFact ==
  ASSUME NEW m \in Nat, NEW n \in Nat, m <= n
  PROVE  /\ Cardinality(Joins(m, n)) \in Nat
         /\ Cardinality(Joins(m, m)) = 0
         /\ Cardinality(Joins(m, n + 1)) =
              Cardinality(Joins(m, n)) + (IF headed /\ lines[n].ending = "other" THEN 1 ELSE 0)
<1>1. IsFiniteSet(Joins(m, n))
  <2>1. IsFiniteSet(m..n - 1)
    BY FS_Interval
  <2>2. Joins(m, n) \subseteq m..n - 1
    BY DEF Joins
  <2> QED BY <2>1, <2>2, FS_Subset
<1>2. Cardinality(Joins(m, n)) \in Nat
  BY <1>1, FS_CardinalityType
<1>3. Joins(m, m) = {}
  BY DEF Joins
<1>4. CASE headed /\ lines[n].ending = "other"
  <2>1. Joins(m, n + 1) = Joins(m, n) \cup {n} /\ n \notin Joins(m, n)
    BY <1>4 DEF Joins
  <2> QED BY <1>1, <1>2, <1>3, <1>4, <2>1, FS_AddElement, FS_EmptySet
<1>5. CASE ~(headed /\ lines[n].ending = "other")
  <2>1. Joins(m, n + 1) = Joins(m, n)
    BY <1>5 DEF Joins
  <2> QED BY <1>2, <1>3, <1>5, <2>1, FS_EmptySet
<1> QED
  BY <1>4, <1>5

(* A line that is read adds to the drift the newline that is added to it. *)
LEMMA DriftGrows ==
  ASSUME NEW t \in Seq(Chars), NEW u \in Seq(Chars), NEW n \in Nat, NEW off \in Nat, NEW next \in Nat,
         NEW w \in Nat, NEW e \in Nat, OffsetsDrift(t, n, off), Len(u) = Len(t) + w,
         \A i \in 1..Len(t) : u[i] = t[i],
         \A i \in 1..w : u[Len(t) + i].line = n + 1 /\ u[Len(t) + i].at = off + i - 1,
         e = (IF headed /\ lines[n + 1].ending = "other" THEN 1 ELSE 0), off + w = next + e
  PROVE  OffsetsDrift(u, n + 1, next)
<1>1. PICK o \in Nat : o = Len(t)
  OBVIOUS
<1>2. ASSUME NEW i \in Nat, i < o
      PROVE  \E m \in Nat, a \in Nat :
               /\ m = u[i + 1].line /\ a = u[i + 1].at /\ m \in 1..n
               /\ m = t[i + 1].line /\ a = t[i + 1].at
  <2>1. i + 1 \in 1..Len(t) /\ i \in 0..Len(t) - 1
    BY <1>1, <1>2
  <2>2. t[i + 1] \in Chars /\ u[i + 1] = t[i + 1]
    BY <2>1
  <2>3. t[i + 1].line \in 1..n
    BY <2>1, Zenon DEF OffsetsDrift
  <2> QED
    BY <2>2, <2>3 DEF Chars
<1>3. ASSUME NEW i \in Nat, i < o
      PROVE  (o - off) - (i - t[i + 1].at) = Cardinality(Joins(t[i + 1].line, n + 1))
  <2>1. i \in 0..Len(t) - 1
    BY <1>1, <1>3
  <2> QED
    BY <1>1, <2>1 DEF OffsetsDrift
<1>4. ASSUME NEW i \in Nat, i < o, NEW j \in Nat, i <= j, j < o
      PROVE  /\ t[i + 1].line <= t[j + 1].line
             /\ (j - t[j + 1].at) - (i - t[i + 1].at) = Cardinality(Joins(t[i + 1].line, t[j + 1].line))
  <2>1. i \in 0..Len(t) - 1 /\ j \in i..Len(t) - 1
    BY <1>1, <1>4
  <2> QED
    BY <2>1 DEF OffsetsDrift
<1>5. ASSUME NEW i \in Nat, o <= i, i < o + w
      PROVE  u[i + 1].line = n + 1 /\ i - u[i + 1].at = o - off
  <2>1. PICK k \in 1..w : k = i + 1 - o
    BY <1>5
  <2>2. Len(t) + k = i + 1 /\ i - (off + k - 1) = o - off
    BY <1>1, <2>1
  <2>3. u[i + 1].line = n + 1 /\ u[i + 1].at = off + k - 1
    BY <2>2
  <2> QED BY <2>2, <2>3
<1>6. (o + w) - next = (o - off) + e
  OBVIOUS
<1>7. Cardinality(Joins(n + 1, n + 1)) = 0 /\ Cardinality(Joins(n + 1, (n + 1) + 1)) = e
  <2>1. PICK k \in Nat : k = n + 1 /\ k <= k
    OBVIOUS
  <2>2. Cardinality(Joins(k, k)) = 0
    BY <2>1, JoinsFact
  <2>3. Cardinality(Joins(k, k + 1)) = Cardinality(Joins(k, k)) + (IF headed /\ lines[k].ending = "other" THEN 1 ELSE 0)
    BY <2>1, JoinsFact
  <2>4. Cardinality(Joins(k, k + 1)) = e
    BY <2>1, <2>2, <2>3
  <2> QED BY <2>1, <2>2, <2>4
<1> SUFFICES ASSUME NEW i \in 0..(o + w) - 1
             PROVE  /\ u[i + 1].line \in 1..n + 1
                    /\ ((o + w) - next) - (i - u[i + 1].at) = Cardinality(Joins(u[i + 1].line, (n + 1) + 1))
                    /\ \A j \in i..(o + w) - 1 :
                         /\ u[i + 1].line <= u[j + 1].line
                         /\ (j - u[j + 1].at) - (i - u[i + 1].at) = Cardinality(Joins(u[i + 1].line, u[j + 1].line))
  BY <1>1 DEF OffsetsDrift
<1>8. CASE i < o
  <2>1. PICK m \in Nat, a \in Nat :
          /\ m = u[i + 1].line /\ a = u[i + 1].at /\ m \in 1..n
          /\ m = t[i + 1].line /\ a = t[i + 1].at
    <3>1. i \in Nat
      OBVIOUS
    <3> QED BY <1>2, <1>8, <3>1
  <2>2. PICK c \in Nat : c = Cardinality(Joins(m, n + 1)) /\ Cardinality(Joins(m, (n + 1) + 1)) = c + e
    <3>1. PICK k \in Nat : k = n + 1 /\ m <= k
      BY <2>1
    <3>2. Cardinality(Joins(m, k)) \in Nat
      BY <3>1, JoinsFact
    <3>3. Cardinality(Joins(m, k + 1)) = Cardinality(Joins(m, k)) + (IF headed /\ lines[k].ending = "other" THEN 1 ELSE 0)
      BY <3>1, JoinsFact
    <3> QED BY <3>1, <3>2, <3>3
  <2>3. (o - off) - (i - a) = c
    <3>1. (o - off) - (i - t[i + 1].at) = Cardinality(Joins(t[i + 1].line, n + 1))
      BY <1>3, <1>8
    <3> QED BY <2>1, <2>2, <3>1
  <2>4. m \in 1..n + 1 /\ ((o + w) - next) - (i - a) = c + e
    <3>1. m \in 1..n + 1
      <4>1. \A k \in 1..n : k \in 1..n + 1
        OBVIOUS
      <4> QED BY <2>1, <4>1
    <3>2. ((o - off) + e) - (i - a) = c + e
      BY <2>3
    <3> QED BY <1>6, <3>1, <3>2
  <2>5. ASSUME NEW j \in i..(o + w) - 1
        PROVE  /\ m <= u[j + 1].line
               /\ (j - u[j + 1].at) - (i - a) = Cardinality(Joins(m, u[j + 1].line))
    <3>0. j \in Nat /\ i <= j /\ j < o + w /\ i \in Nat
      OBVIOUS
    <3>1. CASE j < o
      <4>1. PICK v \in Nat, z \in Nat : /\ v = u[j + 1].line /\ z = u[j + 1].at
                                       /\ v = t[j + 1].line /\ z = t[j + 1].at
        BY <1>2, <3>0, <3>1
      <4>2. /\ t[i + 1].line <= t[j + 1].line
            /\ (j - t[j + 1].at) - (i - t[i + 1].at) = Cardinality(Joins(t[i + 1].line, t[j + 1].line))
        BY <1>4, <1>8, <3>0, <3>1
      <4> QED
        BY <2>1, <4>1, <4>2
    <3>2. CASE ~(j < o)
      <4>1. u[j + 1].line = n + 1 /\ j - u[j + 1].at = o - off
        <5>1. o <= j
          BY <3>0, <3>2
        <5> QED BY <1>5, <3>0, <5>1
      <4>2. m <= n + 1
        BY <2>1
      <4> QED
        BY <2>2, <2>3, <4>1, <4>2
    <3> QED BY <3>1, <3>2
  <2> QED
    BY <2>1, <2>2, <2>4, <2>5
<1>9. CASE ~(i < o)
  <2>1. u[i + 1].line = n + 1 /\ i - u[i + 1].at = o - off
    <3>1. i \in Nat /\ o <= i /\ i < o + w
      BY <1>9
    <3> QED BY <1>5, <3>1
  <2>2. ((o + w) - next) - (o - off) = e
    BY <1>6
  <2>3. ASSUME NEW j \in i..(o + w) - 1
        PROVE  u[j + 1].line = n + 1 /\ j - u[j + 1].at = o - off
    <3>1. j \in Nat /\ o <= j /\ j < o + w
      BY <1>9
    <3> QED BY <1>5, <3>1
  <2>4. n + 1 \in 1..n + 1 /\ n + 1 <= n + 1 /\ (o - off) - (o - off) = 0
    OBVIOUS
  <2> QED
    BY <1>7, <2>1, <2>2, <2>3, <2>4
<1> QED
  BY <1>8, <1>9

(* While no heading is read, the headings a line stands under stay. *)
LEMMA EnclosingStays ==
  ASSUME ParsingTypeOK, NEW n \in Nat, NEW m \in Nat, n <= m,
         \A g \in HeadingLines : g <= m => g < n
  PROVE  Enclosing(n) = Enclosing(m)
<1>1. HeadingLines \subseteq Nat
  BY LinesType
<1>2. \A h \in HeadingLines : h # n /\ h # m
  BY <1>1
<1>3. ASSUME NEW h \in HeadingLines PROVE Encloses(h, n) <=> Encloses(h, m)
  <2>1. h < n <=> h < m
    BY <1>1, <1>2
  <2>2. \A g \in HeadingLines : g <= n <=> g <= m
    BY <1>1
  <2> QED BY <2>1, <2>2 DEF Encloses
<1> QED
  BY <1>2, <1>3 DEF Enclosing

(* Flushing settles the whole text. *)
LEMMA FlushedFact ==
  ASSUME ParseInv
  PROVE  \E bs \in Seq(Blocks) :
           /\ bs = Flushed(Len(text))
           /\ Ordered(text, bs, Len(text)) /\ Holding(text, bs, Len(text)) /\ Pathed(text, bs)
           /\ \A k \in DOMAIN bs : Located(text, bs[k])
<1>1. CASE paragraph = -1
  BY <1>1 DEF ParseInv, ParsingTypeOK, Flushed, Settled
<1>2. CASE paragraph # -1
  <2> DEFINE s == Strip(paragraph, Len(text))
             ink == InkOf(text, paragraph, Len(text))
  <2>1. PICK p \in Nat, z \in Nat :
          p = paragraph /\ z = Len(text) /\ p < z /\ text \in Seq(Chars) /\ Settled = p
    <3>1. text \in Seq(Chars) /\ paragraph \in -1..Len(text) - 1
      BY DEF ParseInv, ParsingTypeOK
    <3>2. Len(text) \in Nat /\ paragraph \in Nat /\ paragraph < Len(text)
      BY <1>2, <3>1
    <3> QED BY <1>2, <3>1, <3>2 DEF Settled
  <2>2. PICK i0 \in ink : text[i0 + 1].line = text[p + 1].line
    BY <1>2, <2>1 DEF ParseInv, ParagraphIsInk
  <2>3. /\ s[1] \in p..z - 1 /\ s[2] \in p + 1 .. z /\ s[1] < s[2]
        /\ text[s[1] + 1].kind # "space" /\ text[s[2]].kind # "space"
        /\ InkOf(text, s[1], s[2]) = ink
        /\ s[1] <= i0 /\ i0 \in p..z - 1
    <3>1. ink # {} /\ i0 \in p..z - 1
      BY <2>1 DEF InkOf
    <3> QED
      BY <2>1, <3>1, StripFact
  <2> HIDE DEF s
  <2>4. PICK f \in Nat, t \in Nat : f = s[1] /\ t = s[2] /\ p <= f /\ f < t /\ t <= z /\ f <= i0
    BY <2>1, <2>3
  <2>5. PICK a \in Nat : a = text[f + 1].at /\ a = text[p + 1].at + f - p
    <3>1. p \in 0..z - 1 /\ f \in p..z - 1 /\ f \in 0..z - 1 /\ i0 \in f..z - 1
      BY <2>3, <2>4
    <3>2. /\ text[f + 1] \in Chars /\ text[p + 1] \in Chars /\ text[i0 + 1] \in Chars
      BY <2>1, <3>1
    <3>3. PICK m \in Nat, n \in Nat, c \in Nat, a \in Nat :
            /\ m = text[p + 1].line /\ n = text[f + 1].line
            /\ c = text[p + 1].at /\ a = text[f + 1].at
      BY <3>2 DEF Chars
    <3>4. /\ m <= n /\ n <= m
          /\ (f - a) - (p - c) = Cardinality(Joins(m, n))
      BY <2>1, <2>2, <3>1, <3>3 DEF ParseInv, OffsetsDrift
    <3>5. m = n /\ Cardinality(Joins(m, m)) = 0
      <4>1. m <= m
        OBVIOUS
      <4> QED BY <3>4, <4>1, JoinsFact
    <3>6. (f - a) - (p - c) = 0
      BY <3>4, <3>5
    <3>7. a = c + f - p
      BY <3>6
    <3> QED
      BY <3>3, <3>7
  <2>6. PICK b \in Blocks : b = [from |-> f, to |-> t, at |-> a, path |-> headings]
    <3>1. headings \in Seq(Nat)
      BY DEF ParseInv, ParsingTypeOK
    <3> QED
      BY <3>1 DEF Blocks
  <2>7. Flushed(Len(text)) = Append(blocks, b)
    BY <1>2, <2>1, <2>4, <2>5, <2>6 DEF Flushed, s
  <2>8. b.from = f /\ b.to = t /\ b.at = a /\ b.path = headings
    BY <2>6
  <2>9. \A i \in p..z - 1 : text[i + 1].kind # "space" => text[i + 1].kind = "ink"
    <3>1. \A i \in p..z - 1 : text[i + 1] \in Chars /\ text[i + 1].kind # "mark"
      BY <1>2, <2>1 DEF ParseInv, ParagraphIsInk
    <3> QED
      BY <3>1 DEF Chars
  <2>10. text[b.from + 1].kind = "ink" /\ text[b.to].kind = "ink"
    <3>1. f \in p..z - 1 /\ t - 1 \in p..z - 1 /\ (t - 1) + 1 = t
      BY <2>4
    <3> QED
      BY <2>3, <2>4, <2>8, <2>9, <3>1
  <2>11. InkOf(text, b.from, b.to) = WrittenIn(text, p, z)
    <3>1. ink = WrittenIn(text, p, z)
      BY <2>1, <2>9 DEF InkOf, WrittenIn
    <3> QED
      BY <2>3, <2>4, <2>8, <3>1
  <2>12. /\ Append(blocks, b) \in Seq(Blocks)
         /\ Ordered(text, Append(blocks, b), Len(text)) /\ Holding(text, Append(blocks, b), Len(text))
    <3>1. Ordered(text, blocks, p) /\ Holding(text, blocks, p) /\ blocks \in Seq(Blocks)
      BY <2>1 DEF ParseInv, ParsingTypeOK
    <3>2. p <= z /\ p <= b.from /\ b.from <= b.to /\ b.from < z /\ b.to <= z
      BY <2>4, <2>8
    <3> QED
      BY <2>1, <2>10, <2>11, <3>1, <3>2, BlockAdded
  <2>13. ASSUME NEW k \in DOMAIN Append(blocks, b)
         PROVE  \/ k \in DOMAIN blocks /\ Append(blocks, b)[k] = blocks[k]
                \/ k = Len(blocks) + 1 /\ Append(blocks, b)[k] = b
    BY DEF ParseInv, ParsingTypeOK
  <2>14. Pathed(text, Append(blocks, b))
    <3> SUFFICES ASSUME NoLevelSkipped, NEW k \in DOMAIN Append(blocks, b), NEW c, c = Append(blocks, b)[k]
                 PROVE  PathFits(c.path, text[c.from + 1].line)
      BY DEF Pathed
    <3>1. CASE k \in DOMAIN blocks /\ c = blocks[k]
      BY <3>1 DEF ParseInv, Pathed
    <3>2. CASE c = b
      <4> DEFINE n == text[b.from + 1].line
      <4>1. /\ n \in Nat /\ line \in Nat /\ n <= line
            /\ \A g \in HeadingLines : g <= line => g < n
        <5>1. f \in p..z - 1 /\ f + 1 \in DOMAIN text
          BY <2>1, <2>4
        <5>2. text[f + 1] \in Chars
          BY <2>1, <5>1
        <5>3. n \in Nat
          BY <2>8, <5>2 DEF Chars
        <5>4. line \in Nat
          BY LinesType DEF ParseInv
        <5>5. n <= line
          BY <2>8, <5>1 DEF ParseInv, HeadingsAreOpen
        <5>6. \A g \in HeadingLines : g <= line => g < n
          BY <1>2, <2>1, <2>8, <5>1 DEF ParseInv, ParagraphIsInk
        <5> QED
          BY <5>3, <5>4, <5>5, <5>6
      <4>2. Enclosing(n) = Enclosing(line)
        BY <4>1, EnclosingStays DEF ParseInv
      <4>3. PathFits(headings, line)
        BY DEF ParseInv, HeadingsAreOpen
      <4> QED
        BY <2>8, <3>2, <4>2, <4>3 DEF PathFits
    <3> QED
      BY <2>13, <3>1, <3>2
  <2>15. ASSUME NEW k \in DOMAIN Append(blocks, b) PROVE Located(text, Append(blocks, b)[k])
    <3>1. Located(text, b)
      BY <2>5, <2>8 DEF Located
    <3> QED
      BY <2>13, <3>1 DEF ParseInv
  <2> QED
    BY <2>7, <2>12, <2>14, <2>15
<1> QED
  BY <1>1, <1>2

-----------------------------------------------------------------------------
(* Every step of the parser keeps it. *)

(* The headings above a line are a matter of the document alone. *)
LEMMA SamePaths ==
  ASSUME lines' = lines, headed' = headed
  PROVE  /\ HeadingLines' = HeadingLines
         /\ NoLevelSkipped' <=> NoLevelSkipped
         /\ \A n : Enclosing(n)' = Enclosing(n)
<1>1. HeadingLines' = HeadingLines
  BY DEF HeadingLines
<1>2. \A h, n : Encloses(h, n)' <=> Encloses(h, n)
  BY <1>1 DEF Encloses
<1>3. NoLevelSkipped' <=> NoLevelSkipped
  BY <1>1, <1>2 DEF NoLevelSkipped
<1>4. \A n : Enclosing(n)' = Enclosing(n)
  BY <1>1, <1>2 DEF Enclosing
<1> QED
  BY <1>1, <1>3, <1>4

(* Paths that fit the next state's text fit in the next state. *)
LEMMA PathedAfter ==
  ASSUME lines' = lines, headed' = headed, NEW u, NEW bs, u = text', bs = blocks', Pathed(u, bs)
  PROVE  Pathed(text, blocks)'
<1> SUFFICES ASSUME NoLevelSkipped', NEW k \in DOMAIN bs
             PROVE  PathFits(blocks[k].path, text[blocks[k].from + 1].line)'
  BY DEF Pathed
<1>1. PathFits(bs[k].path, u[bs[k].from + 1].line)
  BY SamePaths DEF Pathed
<1>2. PICK p, n : p = bs[k].path /\ n = u[bs[k].from + 1].line
  OBVIOUS
<1>3. ToSet(p) = Enclosing(n) /\ \A i, j \in DOMAIN p : i < j => p[i] < p[j]
  BY <1>1, <1>2 DEF PathFits
<1>4. Enclosing(n)' = Enclosing(n)
  BY SamePaths
<1>5. PathFits(p, n)'
  BY <1>3, <1>4 DEF PathFits
<1> QED
  BY <1>2, <1>5 DEF PathFits, Enclosing, Encloses, HeadingLines

(* Where the blocks are located is a matter of the document and the text. *)
LEMMA OffsetsAfter ==
  ASSUME lines' = lines, headed' = headed, NEW u, NEW n, NEW off, NEW bs,
         u = text', n = line', off = offset', bs = blocks',
         OffsetsDrift(u, n, off), \A k \in DOMAIN bs : Located(u, bs[k])
  PROVE  OffsetsDrift(text, line, offset)' /\ (\A k \in DOMAIN blocks : Located(text, blocks[k]))'
<1>1. \A m, v : Joins(m, v)' = Joins(m, v)
  BY DEF Joins
<1>2. HeadingLines' = HeadingLines
  BY SamePaths
<1>3. OffsetsDrift(u, n, off)'
  BY <1>1 DEF OffsetsDrift
<1>4. OffsetsDrift(text, line, offset)'
  BY <1>3 DEF OffsetsDrift, Joins
<1>5. \A k \in DOMAIN bs : Located(u, bs[k])'
  BY <1>2 DEF Located
<1>6. (\A k \in DOMAIN blocks : Located(text, blocks[k]))'
  BY <1>5 DEF Located
<1> QED
  BY <1>4, <1>6

(* What stays of the paths when text is read. *)
LEMMA PathedGrows ==
  ASSUME NEW t \in Seq(Chars), NEW u \in Seq(Chars), Len(t) <= Len(u),
         \A i \in 1..Len(t) : u[i] = t[i],
         NEW bs \in Seq(Blocks), Ordered(t, bs, Len(t)), Pathed(t, bs)
  PROVE  Pathed(u, bs)
<1> SUFFICES ASSUME NoLevelSkipped, NEW k \in DOMAIN bs
             PROVE  PathFits(bs[k].path, u[bs[k].from + 1].line)
  BY DEF Pathed
<1>1. bs[k].from \in Nat /\ bs[k].to \in Nat
  BY BlockType
<1>2. bs[k].from + 1 \in 1..Len(t)
  BY <1>1 DEF Ordered
<1> QED
  BY <1>2 DEF Pathed

(* The headings once a heading is read. *)
HeadingsThen == Append(SubSeq(headings, 1, Min({lines[line + 1].level - 1, Len(headings)})), line + 1)

(* They are numbers of lines. *)
LEMMA HeadingsType ==
  ASSUME ParsingTypeOK, line + 1 \in HeadingLines
  PROVE  HeadingsThen \in Seq(Nat)
<1>1. /\ line + 1 \in DOMAIN lines /\ line \in Nat /\ lines[line + 1].level > 0
      /\ headings \in Seq(Nat) /\ Len(headings) \in Nat
  BY LinesType DEF HeadingLines, ParsingTypeOK
<1>2. PICK m \in Nat : m = lines[line + 1].level - 1
  <2>1. lines[line + 1].level \in Nat
    BY <1>1, LineType
  <2>2. lines[line + 1].level - 1 \in Nat
    BY <1>1, <2>1
  <2> QED BY <2>2
<1>3. PICK n \in 0..Len(headings) : n = Min({m, Len(headings)})
  BY <1>1, <1>2, MinOfTwo
<1>4. HeadingsThen = Append(SubSeq(headings, 1, n), line + 1)
  BY <1>2, <1>3 DEF HeadingsThen
<1>5. SubSeq(headings, 1, n) \in Seq(Nat)
  <2>1. \A i \in 1..n : headings[i] \in Nat
    BY <1>1, <1>3
  <2>2. n \in Nat /\ n <= Len(headings)
    BY <1>1, <1>3
  <2>3. headings \in Seq(Nat)
    BY <1>1
  <2> QED BY <2>1, <2>2, <2>3
<1> QED
  BY <1>1, <1>4, <1>5

(* The headings after a heading was read are those its line stands under. *)
LEMMA HeadingRead ==
  ASSUME ParsingTypeOK, HeadingsAreOpen, NoLevelSkipped, line + 1 \in HeadingLines,
         NEW hs, hs = HeadingsThen
  PROVE  hs \in Seq(Nat) /\ PathFits(hs, line + 1) /\ \A i \in DOMAIN hs : lines[hs[i]].level = i
<1>0. /\ \A h \in HeadingLines : h \in DOMAIN lines /\ lines[h].level > 0 /\ h \in Nat
      /\ line \in Nat
  BY LinesType DEF HeadingLines
<1>a. \A h \in HeadingLines : lines[h].level \in Nat
  BY <1>0, LineType
<1>b. PICK v \in Nat : v = lines[line + 1].level /\ v >= 1
  BY <1>0, <1>a
<1>1. /\ line \in Nat /\ \A h \in HeadingLines : h \in Nat
      /\ \A h \in HeadingLines : lines[h].level \in Nat
  BY <1>0, <1>a
<1>2. /\ headings \in Seq(Nat) /\ ToSet(headings) = Enclosing(line)
      /\ \A i, j \in DOMAIN headings : i < j => headings[i] < headings[j]
      /\ \A i \in DOMAIN headings : lines[headings[i]].level = i /\ headings[i] \in Enclosing(line)
  BY DEF ParsingTypeOK, HeadingsAreOpen, PathFits, ToSet
<1>3. \A h \in Enclosing(line) : \E i \in DOMAIN headings : headings[i] = h /\ i = lines[h].level
  BY <1>2 DEF ToSet
<1>4. \A h \in Enclosing(line) : h \in HeadingLines /\ h <= line /\ h \in Nat
  BY <1>1 DEF Enclosing, Encloses
<1>5. ASSUME NEW h \in HeadingLines
      PROVE  Encloses(h, line + 1) <=> h \in Enclosing(line) /\ lines[h].level < v
  <2>1. h < line + 1 <=> (h = line \/ h < line)
    BY <1>1
  <2>2. ASSUME NEW g \in HeadingLines
        PROVE  (h < g /\ g <= line + 1) <=> (h < g /\ g <= line) \/ (h < g /\ g = line + 1)
    BY <1>1
  <2>3. v > lines[h].level <=> lines[h].level < v
    BY <1>1
  <2>4. \A g \in HeadingLines : ~(line < g /\ g <= line)
    BY <1>1
  <2>5. CASE h = line
    <3>1. h \in Enclosing(line) /\ h < line + 1
      BY <1>1, <2>5 DEF Enclosing
    <3>2. Encloses(h, line + 1) <=> \A g \in HeadingLines : h < g /\ g <= line + 1 => lines[g].level > lines[h].level
      BY <3>1 DEF Encloses
    <3>3. \A g \in HeadingLines : (h < g /\ g <= line + 1) <=> g = line + 1
      BY <1>1, <2>5
    <3> QED
      BY <1>b, <2>3, <3>1, <3>2, <3>3
  <2>6. CASE h < line
    <3>1. h # line /\ h < line + 1 /\ h < line + 1
      BY <1>1, <2>6
    <3>2. Encloses(h, line + 1) <=> \A g \in HeadingLines : h < g /\ g <= line + 1 => lines[g].level > lines[h].level
      BY <3>1 DEF Encloses
    <3>3. h \in Enclosing(line) <=> \A g \in HeadingLines : h < g /\ g <= line => lines[g].level > lines[h].level
      BY <2>6, <3>1 DEF Encloses, Enclosing
    <3> QED
      BY <1>b, <2>2, <2>3, <3>1, <3>2, <3>3
  <2>7. CASE line < h
    BY <1>1, <1>4, <2>7 DEF Encloses
  <2> QED
    BY <1>1, <2>5, <2>6, <2>7
<1>6. Len(headings) \in Nat /\ v - 1 \in Nat /\ v - 1 <= Len(headings)
  <2>1. CASE v = 1
    BY <1>2, <2>1
  <2>2. CASE v # 1
    <3>1. PICK h \in HeadingLines : Encloses(h, line + 1) /\ lines[h].level = v - 1
      BY <1>b, <2>2 DEF NoLevelSkipped
    <3>2. PICK i \in DOMAIN headings : i = v - 1
      BY <1>3, <1>5, <3>1
    <3> QED
      BY <1>1, <1>2, <3>2
  <2> QED
    BY <2>1, <2>2
<1>7. Min({v - 1, Len(headings)}) = v - 1
  BY <1>6, MinOfTwo
<1>8. /\ hs \in Seq(Nat) /\ DOMAIN hs = 1..v /\ hs[v] = line + 1
      /\ \A i \in 1..v - 1 : hs[i] = headings[i] /\ i \in DOMAIN headings
  <2>1. hs = Append(SubSeq(headings, 1, v - 1), line + 1)
    BY <1>7, <1>b DEF HeadingsThen
  <2>2. PICK p \in Seq(Nat) : p = SubSeq(headings, 1, v - 1)
    <3>1. \A i \in 1..v - 1 : headings[i] \in Nat
      BY <1>2, <1>6
    <3>2. SubSeq(headings, 1, v - 1) \in Seq(Nat)
      BY <1>2, <1>6, <3>1
    <3> QED BY <3>2
  <2>3. Len(p) = v - 1 /\ \A i \in 1..v - 1 : p[i] = headings[i] /\ i \in DOMAIN headings
    BY <1>2, <1>6, <2>2
  <2>4. hs = Append(p, line + 1)
    BY <2>1, <2>2
  <2>5. line + 1 \in Nat /\ Len(p) + 1 = v
    BY <1>1, <2>3
  <2>6. hs \in Seq(Nat)
    BY <2>2, <2>3, <2>4, <2>5
  <2>7. Len(hs) = v
    BY <2>2, <2>3, <2>4, <2>5
  <2>8. hs[v] = line + 1
    BY <2>2, <2>3, <2>4, <2>5
  <2>9. \A i \in 1..v - 1 : hs[i] = p[i]
    BY <2>2, <2>3, <2>4, <2>5
  <2>10. DOMAIN hs = 1..v
    BY <2>6, <2>7
  <2> QED
    BY <2>3, <2>6, <2>8, <2>9, <2>10
<1>9. \A i \in DOMAIN hs : lines[hs[i]].level = i
  <2> SUFFICES ASSUME NEW i \in 1..v PROVE lines[hs[i]].level = i
    BY <1>8
  <2>1. CASE i = v
    BY <1>b, <1>8, <2>1
  <2>2. CASE i # v
    <3>1. i \in 1..v - 1
      BY <2>2
    <3> QED
      BY <1>2, <1>8, <3>1
  <2> QED
    BY <2>1, <2>2
<1>10. \A i, j \in DOMAIN hs : i < j => hs[i] < hs[j]
  <2> SUFFICES ASSUME NEW i \in 1..v, NEW j \in 1..v, i < j PROVE hs[i] < hs[j]
    BY <1>8
  <2>1. i \in 1..v - 1 /\ hs[i] = headings[i] /\ i \in DOMAIN headings
    BY <1>1, <1>8
  <2>2. CASE j = v
    BY <1>1, <1>2, <1>4, <1>8, <2>1, <2>2
  <2>3. CASE j # v
    <3>1. j \in 1..v - 1 /\ hs[j] = headings[j] /\ j \in DOMAIN headings
      BY <1>8, <2>3
    <3> QED
      BY <1>2, <2>1, <3>1
  <2> QED
    BY <2>2, <2>3
<1>11. ToSet(hs) = Enclosing(line + 1)
  <2>1. ASSUME NEW h \in Enclosing(line + 1) PROVE h \in ToSet(hs)
    <3>1. CASE h = line + 1
      <4>1. v \in DOMAIN hs
        BY <1>b, <1>8
      <4> QED
        BY <1>8, <3>1, <4>1 DEF ToSet
    <3>2. CASE h # line + 1
      <4>1. h \in HeadingLines /\ h \in Enclosing(line) /\ lines[h].level < v
        BY <1>b, <1>5, <3>2 DEF Enclosing
      <4>2. PICK i \in DOMAIN headings : headings[i] = h /\ i = lines[h].level
        BY <1>3, <4>1
      <4>3. i \in 1..v - 1
        BY <1>1, <1>2, <4>1, <4>2
      <4> QED
        BY <1>1, <1>8, <4>2, <4>3 DEF ToSet
    <3> QED
      BY <3>1, <3>2
  <2>2. ASSUME NEW i \in 1..v PROVE hs[i] \in Enclosing(line + 1)
    <3>1. CASE i = v
      BY <1>8, <3>1 DEF Enclosing
    <3>2. CASE i # v
      <4>1. i \in 1..v - 1 /\ hs[i] = headings[i] /\ i \in DOMAIN headings
        BY <1>1, <1>8, <3>2
      <4>2. hs[i] \in HeadingLines /\ hs[i] \in Enclosing(line) /\ lines[hs[i]].level = i
        BY <1>2, <1>4, <4>1
      <4>3. Encloses(hs[i], line + 1)
        <5>1. i < v
          BY <4>1
        <5> QED
          BY <1>5, <4>2, <5>1
      <4> QED
        BY <4>2, <4>3 DEF Enclosing
    <3> QED
      BY <3>1, <3>2
  <2> QED
    BY <1>8, <2>1, <2>2 DEF ToSet
<1> QED
  BY <1>8, <1>9, <1>10, <1>11 DEF PathFits

(* No character is of a line beyond the ones read. *)
LEMMA LinesOfText ==
  ASSUME ParsingTypeOK, ReadLine, \A i \in DOMAIN text : text[i].line <= line
  PROVE  \A i \in DOMAIN text' : text'[i].line <= line + 1
<1>1. PICK l \in Line : l = lines[line + 1]
  BY LineRead, LineType
<1>2. PICK o \in Nat : o = Len(text)
  BY LineRead
<1>3. PICK w \in Nat : w = LineLength(l) + Ending(l)
  BY <1>1, LineFields
<1>4. PICK u \in Seq(Chars) : u = text'
  BY LineRead
<1>5. /\ text \in Seq(Chars) /\ Len(u) = o + w /\ line \in Nat
      /\ \A i \in 1..o : u[i] = text[i]
      /\ \A i \in 1..w : u[o + i].line = line + 1
  BY <1>1, <1>2, <1>3, <1>4, LineRead, LinesType DEF ParsingTypeOK
<1>6. \A i \in DOMAIN u : u[i].line <= line + 1
  <2> SUFFICES ASSUME NEW i \in 1..o + w PROVE u[i].line <= line + 1
    BY <1>5
  <2>1. CASE i \in 1..o
    <3>1. i \in DOMAIN text /\ text[i] \in Chars
      BY <1>2, <1>5, <2>1
    <3>2. text[i].line <= line /\ text[i].line \in Nat
      BY <3>1 DEF Chars
    <3> QED
      BY <1>5, <2>1, <3>2
  <2>2. CASE i \notin 1..o
    <3>1. PICK j \in 1..w : o + j = i
      <4>1. i - o \in 1..w /\ o + (i - o) = i
        BY <2>2
      <4> QED BY <4>1
    <3>2. u[o + j].line = line + 1
      BY <1>5
    <3>3. u[i].line = line + 1
      BY <3>1, <3>2
    <3>4. line + 1 <= line + 1
      BY <1>5
    <3> QED
      BY <3>3, <3>4
  <2> QED
    BY <2>1, <2>2
<1> QED
  BY <1>4, <1>6

(* A line that is no heading leaves the headings open. *)
LEMMA OpenStays ==
  ASSUME ParsingTypeOK, HeadingsAreOpen, ReadLine, line + 1 \notin HeadingLines,
         headings' = headings, lines' = lines, headed' = headed
  PROVE  HeadingsAreOpen'
<1>1. line \in Nat /\ line' = line + 1 /\ \A h \in HeadingLines : h \in Nat
  BY LinesType, LineRead
<1>2. Enclosing(line + 1) = Enclosing(line)
  <2> SUFFICES ASSUME NEW h \in HeadingLines
               PROVE  h \in Enclosing(line + 1) <=> h \in Enclosing(line)
    BY DEF Enclosing
  <2>1. h # line + 1 /\ (h < line + 1 <=> (h = line \/ h < line))
    BY <1>1
  <2>2. \A g \in HeadingLines : (h < g /\ g <= line + 1) <=> (h < g /\ g <= line)
    BY <1>1
  <2>3. Encloses(h, line + 1) <=>
          (h = line \/ h < line) /\ \A g \in HeadingLines : h < g /\ g <= line => lines[g].level > lines[h].level
    BY <2>1, <2>2 DEF Encloses
  <2>4. h = line => \A g \in HeadingLines : ~(h < g /\ g <= line)
    BY <1>1
  <2> QED
    BY <2>1, <2>3, <2>4 DEF Enclosing, Encloses
<1>3. PICK n, p : n = line + 1 /\ p = headings
  OBVIOUS
<1>4. Enclosing(n)' = Enclosing(n)
  BY SamePaths
<1>5. NoLevelSkipped' => PathFits(p, n)' /\ \A i \in DOMAIN p : lines[p[i]].level = i
  BY <1>2, <1>3, <1>4, SamePaths DEF HeadingsAreOpen, PathFits
<1>6. NoLevelSkipped' => PathFits(headings, line)' /\ \A i \in DOMAIN p : lines'[p[i]].level = i
  BY <1>1, <1>3, <1>5 DEF PathFits, Enclosing, Encloses, HeadingLines
<1>7. \A i \in DOMAIN text' : text'[i].line <= line'
  BY <1>1, LinesOfText DEF HeadingsAreOpen
<1> QED
  BY <1>3, <1>6, <1>7 DEF HeadingsAreOpen

(* A line that is read has no offsets but those that are due. *)
LEMMA DriftRead ==
  ASSUME ParsingTypeOK, OffsetsDrift(text, line, offset), ReadLine,
         NEW u, u = text', NEW n, n = line', NEW off, off = offset'
  PROVE  OffsetsDrift(u, n, off)
<1>1. PICK w \in Nat : w = LineLength(lines[line + 1]) + Ending(lines[line + 1])
  BY LineRead
<1>2. PICK e \in Nat : e = (IF headed /\ lines[line + 1].ending = "other" THEN 1 ELSE 0)
  OBVIOUS
<1>3. /\ n = line + 1 /\ line \in Nat /\ offset \in Nat /\ off \in Nat /\ offset + w = off + e
      /\ text \in Seq(Chars) /\ u \in Seq(Chars) /\ Len(u) = Len(text) + w
      /\ \A i \in 1..Len(text) : u[i] = text[i]
      /\ \A i \in 1..w : u[Len(text) + i].line = line + 1 /\ u[Len(text) + i].at = offset + i - 1
  BY <1>1, <1>2, LineRead, LinesType DEF ParsingTypeOK
<1>4. PICK t \in Seq(Chars), m \in Nat, o \in Nat : t = text /\ m = line /\ o = offset
  BY <1>3
<1>5. /\ OffsetsDrift(t, m, o) /\ Len(u) = Len(t) + w /\ u \in Seq(Chars) /\ off \in Nat /\ o + w = off + e
      /\ \A i \in 1..Len(t) : u[i] = t[i]
      /\ \A i \in 1..w : u[Len(t) + i].line = m + 1 /\ u[Len(t) + i].at = o + i - 1
      /\ e = (IF headed /\ lines[m + 1].ending = "other" THEN 1 ELSE 0)
  BY <1>2, <1>3, <1>4
<1>6. OffsetsDrift(u, m + 1, off)
  BY <1>5, DriftGrows
<1> QED
  BY <1>3, <1>4, <1>6

(* A heading adds two blocks, the paragraph before it and its title, and settles
   the whole text. *)
LEMMA ReadHeadingKeeps == ParseInv /\ ReadHeading => ParseInv'
<1> SUFFICES ASSUME ParseInv, ReadHeading PROVE ParseInv'
  OBVIOUS
<1>1. ParsingTypeOK /\ HeadingsAreOpen /\ ReadLine
  BY DEF ParseInv, ReadHeading
<1>2. PICK l \in Line : l = lines[line + 1]
  BY <1>1, LineRead, LineType
<1>3. PICK o \in Nat : o = Len(text)
  BY <1>1, LineRead
<1>4. PICK w \in Nat, q \in Nat : w = LineLength(l) + Ending(l) /\ q = LineLength(l) /\ q <= w
  <2>1. LineLength(l) \in Nat /\ Ending(l) \in Nat
    BY LineFields
  <2> QED BY <2>1
<1>5. PICK u \in Seq(Chars) : u = text'
  BY <1>1, LineRead
<1>6. /\ line + 1 \in DOMAIN lines /\ line' = line + 1 /\ line' \in 0..Len(lines) /\ line \in Nat
      /\ offset \in Nat /\ offset' \in Nat
      /\ text \in Seq(Chars) /\ Len(u) = o + w
      /\ \A i \in 1..o : u[i] = text[i]
      /\ \A i \in 1..w : /\ u[o + i].line = line + 1 /\ u[o + i].kind = Kind(l, i)
                         /\ u[o + i].at = offset + i - 1
  BY <1>1, <1>2, <1>3, <1>4, <1>5, LineRead, LinesType DEF ParsingTypeOK
<1>7. PICK d \in Nat, x \in Nat : d = TitleStart(l) /\ x = l.width
  BY LineFields
<1>8. /\ headed /\ line + 1 \in HeadingLines /\ lines' = lines /\ headed' = headed /\ stage' = stage
      /\ stage = "parse" /\ paragraph' = -1 /\ block' = block /\ start' = start /\ drafts' = drafts
  BY <1>2, <1>6 DEF ReadHeading, ReadLine, HeadingLines
<1>9. PICK hs \in Seq(Nat) : hs = HeadingsThen
  BY <1>1, <1>8, HeadingsType
<1>10. headings' = hs
  BY <1>9 DEF ReadHeading, HeadingsThen
<1>11. PICK bs \in Seq(Blocks) :
         /\ bs = Flushed(Len(text))
         /\ Ordered(text, bs, o) /\ Holding(text, bs, o) /\ Pathed(text, bs)
         /\ \A k \in DOMAIN bs : Located(text, bs[k])
  BY <1>3, FlushedFact
<1>12. PICK b \in Blocks : b = [from |-> o + d, to |-> (o + d) + x, at |-> offset, path |-> hs]
  <2>1. o + d \in Nat /\ (o + d) + x \in Nat
    OBVIOUS
  <2>2. [from |-> o + d, to |-> (o + d) + x, at |-> offset, path |-> hs] \in Blocks
    BY <1>6, <2>1 DEF Blocks
  <2> QED
    BY <2>2
<1>13. b.from = o + d /\ b.to = (o + d) + x /\ b.at = offset /\ b.path = hs
  BY <1>12
<1>14. blocks' = Append(bs, b)
  BY <1>2, <1>3, <1>7, <1>10, <1>11, <1>12 DEF ReadHeading
<1>15. /\ \A i \in Nat : Kind(l, i) = "ink" => d < i /\ i <= d + x
       /\ \A i \in Nat : d < i /\ i <= d + x => Kind(l, i) \in {"space", "ink"}
       /\ x > 0 => Kind(l, d + 1) = "ink" /\ Kind(l, d + x) = "ink"
       /\ d + x <= q /\ d < q
  <2>1. (IsText(l) \/ IsHeading(l)) /\ l.spaces \subseteq 2..l.width - 1
    BY <1>1, <1>2, <1>6, LineType
  <2>2. ~IsText(l)
    BY <1>2 DEF ReadHeading, IsText
  <2> QED
    BY <1>4, <1>7, <1>8, <2>1, <2>2, KindsOfHeading
<1>16. d + x <= w /\ d < w
  BY <1>4, <1>15
<1>17. \A i \in o..(o + w) - 1 :
         \E j \in 1..w : j = i - o + 1 /\ u[i + 1].kind = Kind(l, j) /\ u[i + 1].line = line + 1
  <2> SUFFICES ASSUME NEW i \in o..(o + w) - 1
               PROVE  \E j \in 1..w : j = i - o + 1 /\ u[i + 1].kind = Kind(l, j) /\ u[i + 1].line = line + 1
    OBVIOUS
  <2>1. i - o + 1 \in 1..w /\ o + (i - o + 1) = i + 1
    OBVIOUS
  <2> QED
    BY <1>6, <2>1
<1>18. InkOf(u, b.from, b.to) = WrittenIn(u, o, Len(u))
  <2>1. ASSUME NEW i \in o..(o + w) - 1
        PROVE  /\ u[i + 1].kind = "ink" => o + d <= i /\ i < (o + d) + x
               /\ o + d <= i /\ i < (o + d) + x => u[i + 1].kind \in {"space", "ink"}
    <3>1. PICK j \in 1..w : j = i - o + 1 /\ u[i + 1].kind = Kind(l, j)
      BY <1>17
    <3>2. (o + d <= i <=> d < j) /\ (i < (o + d) + x <=> j <= d + x) /\ j \in Nat
      BY <3>1
    <3> QED
      BY <1>15, <3>1, <3>2
  <2>2. \A i \in (o + d)..((o + d) + x) - 1 : i \in o..(o + w) - 1 /\ o + d <= i /\ i < (o + d) + x
    BY <1>16
  <2>3. \A i \in Nat : o + d <= i /\ i < (o + d) + x => i \in (o + d)..((o + d) + x) - 1
    OBVIOUS
  <2>4. InkOf(u, o + d, (o + d) + x) = WrittenIn(u, o, o + w)
    <3>1. ASSUME NEW i \in InkOf(u, o + d, (o + d) + x) PROVE i \in WrittenIn(u, o, o + w)
      BY <2>1, <2>2 DEF InkOf, WrittenIn
    <3>2. ASSUME NEW i \in WrittenIn(u, o, o + w) PROVE i \in InkOf(u, o + d, (o + d) + x)
      BY <2>1, <2>3 DEF InkOf, WrittenIn
    <3> QED BY <3>1, <3>2
  <2> QED
    BY <1>6, <1>13, <2>4
<1>19. b.from < b.to => u[b.from + 1].kind = "ink" /\ u[b.to].kind = "ink"
  <2> SUFFICES ASSUME x > 0 PROVE u[o + (d + 1)].kind = "ink" /\ u[o + (d + x)].kind = "ink"
    BY <1>13
  <2>1. d + 1 \in 1..w /\ d + x \in 1..w
    BY <1>16
  <2> QED
    BY <1>6, <1>15, <2>1
<1>20. blocks' \in Seq(Blocks) /\ Ordered(u, blocks', Len(u)) /\ Holding(u, blocks', Len(u))
  <2>1. Ordered(u, bs, o) /\ Holding(u, bs, o)
    <3>1. o \in 0..Len(text) /\ Len(text) <= Len(u) /\ \A i \in 1..Len(text) : u[i] = text[i]
      BY <1>3, <1>6
    <3> QED
      BY <1>6, <1>11, <3>1, TextGrows
  <2>2. /\ o <= Len(u) /\ o <= b.from /\ b.from <= b.to /\ b.from < Len(u) /\ b.to <= Len(u)
        /\ Len(u) \in Nat
    BY <1>6, <1>13, <1>16
  <2> QED
    BY <1>14, <1>18, <1>19, <2>1, <2>2, BlockAdded
<1>21. /\ u[b.from + 1].line = line + 1 /\ u[b.from + 1].at = offset + d
       /\ \A i \in b.from - d .. b.to - 1 : u[i + 1].line = line + 1
  <2>1. d + 1 \in 1..w /\ o + (d + 1) = b.from + 1 /\ offset + (d + 1) - 1 = offset + d
    BY <1>6, <1>13, <1>16
  <2>2. \A i \in b.from - d .. b.to - 1 : i \in o..(o + w) - 1
    BY <1>13, <1>16
  <2> QED
    BY <1>6, <1>17, <2>1, <2>2
<1>22. /\ DOMAIN Append(bs, b) = DOMAIN bs \cup {Len(bs) + 1}
       /\ Append(bs, b)[Len(bs) + 1] = b /\ \A k \in DOMAIN bs : Append(bs, b)[k] = bs[k]
  OBVIOUS
<1>23. Len(text) <= Len(u) /\ \A i \in 1..Len(text) : u[i] = text[i]
  BY <1>3, <1>6
<1>24. PICK cs : cs = Append(bs, b) /\ cs = blocks'
  BY <1>14
<1>25. Pathed(u, cs)
  <2> SUFFICES ASSUME NoLevelSkipped, NEW k \in DOMAIN cs
               PROVE  PathFits(cs[k].path, u[cs[k].from + 1].line)
    BY DEF Pathed
  <2>1. Pathed(u, bs)
    BY <1>3, <1>6, <1>11, <1>23, PathedGrows
  <2>2. CASE k \in DOMAIN bs
    BY <1>22, <1>24, <2>1, <2>2 DEF Pathed
  <2>3. CASE k = Len(bs) + 1
    <3>1. cs[k] = b
      BY <1>22, <1>24, <2>3
    <3>2. PathFits(hs, line + 1)
      BY <1>1, <1>8, <1>9, HeadingRead
    <3> QED
      BY <1>13, <1>21, <3>1, <3>2
  <2> QED
    BY <1>22, <1>24, <2>2, <2>3
<1>26. Pathed(text, blocks)'
  BY <1>5, <1>8, <1>24, <1>25, PathedAfter
<1>27. \A k \in DOMAIN cs : Located(u, cs[k])
  <2>1. Located(u, b)
    <3>1. d <= b.from
      BY <1>13
    <3> QED
      BY <1>8, <1>13, <1>21, <3>1 DEF Located
  <2>2. \A k \in DOMAIN bs : Located(u, bs[k])
    <3>1. o \in 0..Len(text)
      BY <1>3
    <3> QED
      BY <1>6, <1>11, <1>23, <3>1, TextGrows
  <2> QED
    BY <1>22, <1>24, <2>1, <2>2
<1>28. OffsetsDrift(text, line, offset)' /\ (\A k \in DOMAIN blocks : Located(text, blocks[k]))'
  <2>1. PICK n, off : n = line' /\ off = offset'
    OBVIOUS
  <2>2. OffsetsDrift(u, n, off)
    BY <1>1, <1>5, <2>1, DriftRead DEF ParseInv
  <2> QED
    BY <1>5, <1>8, <1>24, <1>27, <2>1, <2>2, OffsetsAfter
<1>29. HeadingsAreOpen'
  <2>1. \A i \in DOMAIN u : u[i].line <= line + 1
    BY <1>1, <1>5, LinesOfText DEF HeadingsAreOpen
  <2>2. ASSUME NoLevelSkipped
        PROVE  /\ ToSet(hs) = Enclosing(line + 1)
               /\ \A i, j \in DOMAIN hs : i < j => hs[i] < hs[j]
               /\ \A i \in DOMAIN hs : lines[hs[i]].level = i
    BY <1>1, <1>8, <1>9, <2>2, HeadingRead DEF PathFits
  <2>3. PICK n : n = line + 1
    OBVIOUS
  <2>4. Enclosing(n)' = Enclosing(n)
    BY <1>8, SamePaths
  <2>5. NoLevelSkipped' => (PathFits(hs, n)' /\ \A i \in DOMAIN hs : lines[hs[i]].level = i)
    BY <1>8, <2>2, <2>3, <2>4, SamePaths DEF PathFits
  <2>6. NoLevelSkipped' => (PathFits(headings, line)' /\ \A i \in DOMAIN hs : lines'[hs[i]].level = i)
    BY <1>6, <1>8, <1>10, <2>3, <2>5 DEF PathFits, Enclosing, Encloses, HeadingLines
  <2> QED
    BY <1>5, <1>6, <1>10, <2>1, <2>6 DEF HeadingsAreOpen
<1>30. ParsingTypeOK'
  <2>1. block = 1 /\ start = 0 /\ drafts = <<>>
    BY <1>1, <1>8 DEF ParsingTypeOK
  <2>2. -1 \in -1..Len(u) - 1 /\ 1 \in 1..Len(blocks') + 1 /\ <<>> \in Seq(Drafts)
    BY <1>6, <1>20
  <2> QED
    BY <1>1, <1>5, <1>6, <1>8, <1>10, <1>20, <2>1, <2>2 DEF ParsingTypeOK
<1>31. Settled' = Len(u) /\ ParagraphIsInk'
  BY <1>5, <1>8 DEF Settled, ParagraphIsInk
<1> QED
  BY <1>5, <1>20, <1>26, <1>28, <1>29, <1>30, <1>31 DEF ParseInv, Ordered, Holding, InkOf, WrittenIn

(* A line that is no heading extends the open paragraph, or opens one where the
   text is settled, or adds nothing that is written to settled text. *)
LEMMA TextKeeps ==
  ASSUME ParseInv, ReadLine, line + 1 \notin HeadingLines,
         UNCHANGED <<stage, lines, headed, headings, block, start, drafts>>,
         \/ blocks' = blocks /\ paragraph # -1 /\ paragraph' = paragraph
         \/ blocks' = Flushed(Len(text)) /\ paragraph' = Len(text) /\ ~Blank(lines[line + 1])
         \/ blocks' = Flushed(Len(text)) /\ paragraph' = -1 /\ Blank(lines[line + 1])
  PROVE  ParseInv'
<1>1. ParsingTypeOK /\ HeadingsAreOpen /\ ParagraphIsInk
  BY DEF ParseInv
<1>2. PICK l \in Line : l = lines[line + 1]
  BY <1>1, LineRead, LineType
<1>3. PICK o \in Nat : o = Len(text)
  BY <1>1, LineRead
<1>4. PICK w \in Nat, q \in Nat : w = LineLength(l) + Ending(l) /\ q = LineLength(l) /\ q <= w
  <2>1. LineLength(l) \in Nat /\ Ending(l) \in Nat
    BY LineFields
  <2> QED BY <2>1
<1>5. PICK u \in Seq(Chars) : u = text'
  BY <1>1, LineRead
<1>6. /\ line + 1 \in DOMAIN lines /\ line' = line + 1 /\ line' \in 0..Len(lines) /\ line \in Nat
      /\ offset' \in Nat /\ text \in Seq(Chars) /\ Len(u) = o + w
      /\ \A i \in 1..o : u[i] = text[i]
      /\ \A i \in 1..w : u[o + i].line = line + 1 /\ u[o + i].kind = Kind(l, i)
  BY <1>1, <1>2, <1>3, <1>4, <1>5, LineRead, LinesType DEF ParsingTypeOK
<1>7. /\ lines' = lines /\ headed' = headed /\ stage' = stage /\ stage = "parse" /\ headings' = headings
      /\ block' = block /\ start' = start /\ drafts' = drafts
  BY DEF ReadLine
<1>8. /\ \A i \in Nat : Kind(l, i) \in {"space", "ink"}
      /\ Blank(l) => \A i \in Nat : Kind(l, i) = "space"
      /\ ~Blank(l) => \E i \in 1..q : Kind(l, i) # "space"
  <2>1. (IsText(l) \/ IsHeading(l)) /\ l.spaces \subseteq 2..l.width - 1 /\ l.level \in Nat
    BY <1>1, <1>2, <1>6, LineType
  <2>2. headed => l.level = 0
    BY <1>2, <1>6, <2>1 DEF HeadingLines
  <2> QED
    BY <1>4, <2>1, <2>2, KindsOfText
<1>9. PICK end \in Nat, bs \in Seq(Blocks) :
        /\ end <= o /\ bs = blocks' /\ Ordered(text, bs, end) /\ Holding(text, bs, end) /\ Pathed(text, bs)
        /\ \A k \in DOMAIN bs : Located(text, bs[k])
        /\ \/ end < o /\ end = paragraph /\ paragraph' = end
           \/ end = o /\ paragraph' = end /\ ~Blank(l)
           \/ end = o /\ paragraph' = -1 /\ Blank(l)
  <2>1. CASE blocks' = blocks /\ paragraph # -1 /\ paragraph' = paragraph
    <3>1. Settled = paragraph /\ paragraph \in Nat /\ paragraph < o
      BY <1>1, <1>3, <2>1 DEF Settled, ParsingTypeOK
    <3> QED
      BY <1>1, <2>1, <3>1 DEF ParseInv, ParsingTypeOK
  <2>2. CASE blocks' = Flushed(Len(text))
    <3>1. PICK cs \in Seq(Blocks) :
            /\ cs = Flushed(Len(text))
            /\ Ordered(text, cs, Len(text)) /\ Holding(text, cs, Len(text)) /\ Pathed(text, cs)
            /\ \A k \in DOMAIN cs : Located(text, cs[k])
      BY FlushedFact
    <3>2. CASE paragraph' = Len(text) /\ ~Blank(l)
      BY <1>3, <2>2, <3>1, <3>2
    <3>3. CASE paragraph' = -1 /\ Blank(l)
      BY <1>3, <2>2, <3>1, <3>3
    <3>4. CASE blocks' = blocks /\ paragraph # -1 /\ paragraph' = paragraph
      BY <2>1, <3>4
    <3> QED
      BY <1>2, <3>2, <3>3, <3>4
  <2> QED
    BY <2>1, <2>2
<1>10. Len(text) <= Len(u) /\ (\A i \in 1..Len(text) : u[i] = text[i]) /\ end \in 0..Len(text)
  BY <1>3, <1>6, <1>9
<1>11. Ordered(u, bs, end) /\ Holding(u, bs, end) /\ \A k \in DOMAIN bs : Located(u, bs[k])
  BY <1>6, <1>9, <1>10, TextGrows
<1>12. Pathed(text, blocks)'
  <2>1. Ordered(text, bs, Len(text))
    <3>1. \A k \in DOMAIN bs : bs[k].to \in Nat /\ bs[k].from \in Nat
      BY BlockType
    <3> QED
      BY <1>9, <1>10, <3>1 DEF Ordered
  <2>2. Pathed(u, bs)
    BY <1>6, <1>9, <1>10, <2>1, PathedGrows
  <2> QED
    BY <1>5, <1>7, <1>9, <2>2, PathedAfter
<1>13. OffsetsDrift(text, line, offset)' /\ (\A k \in DOMAIN blocks : Located(text, blocks[k]))'
  <2>1. PICK n, off : n = line' /\ off = offset'
    OBVIOUS
  <2>2. OffsetsDrift(u, n, off)
    BY <1>1, <1>5, <2>1, DriftRead DEF ParseInv
  <2> QED
    BY <1>5, <1>7, <1>9, <1>11, <2>1, <2>2, OffsetsAfter
<1>14. HeadingsAreOpen'
  BY <1>1, <1>7, OpenStays
<1>15. \A i \in o..(o + w) - 1 :
         \E j \in 1..w : j = i - o + 1 /\ u[i + 1].kind = Kind(l, j) /\ u[i + 1].line = line + 1
  <2> SUFFICES ASSUME NEW i \in o..(o + w) - 1
               PROVE  \E j \in 1..w : j = i - o + 1 /\ u[i + 1].kind = Kind(l, j) /\ u[i + 1].line = line + 1
    OBVIOUS
  <2>1. i - o + 1 \in 1..w /\ o + (i - o + 1) = i + 1
    OBVIOUS
  <2> QED
    BY <1>6, <2>1
<1>16. ~Blank(l) => \E i \in o..(o + w) - 1 : u[i + 1].kind # "space" /\ u[i + 1].line = line + 1
  <2> SUFFICES ASSUME ~Blank(l)
               PROVE  \E i \in o..(o + w) - 1 : u[i + 1].kind # "space" /\ u[i + 1].line = line + 1
    OBVIOUS
  <2>1. PICK j \in 1..q : Kind(l, j) # "space"
    BY <1>8
  <2>2. o + j - 1 \in o..(o + w) - 1 /\ (o + j - 1) + 1 = o + j /\ j \in 1..w
    BY <1>4
  <2> QED
    BY <1>6, <2>1, <2>2
<1>17. /\ paragraph' = end \/ paragraph' = -1
       /\ paragraph' = end => end < o + w /\ Settled' = end
       /\ paragraph' = -1 => Settled' = Len(u)
  <2>1. ~Blank(l) => end < o + w
    BY <1>9, <1>16
  <2>2. paragraph' = end => end < o + w
    BY <1>9, <2>1
  <2> QED
    BY <1>5, <1>9, <2>2 DEF Settled
<1>18. Ordered(u, bs, Settled') /\ Holding(u, bs, Settled')
  <2>1. CASE paragraph' = end
    BY <1>11, <1>17, <2>1
  <2>2. CASE paragraph' = -1
    <3>1. end = o /\ Blank(l)
      BY <1>9, <2>2
    <3>2. WrittenIn(u, o, Len(u)) = {}
      BY <1>6, <1>8, <1>15, <3>1 DEF WrittenIn
    <3>3. Ordered(u, bs, o) /\ Holding(u, bs, o) /\ o <= Len(u) /\ Len(u) \in Nat
      BY <1>6, <1>11, <3>1
    <3>4. Ordered(u, bs, Len(u)) /\ Holding(u, bs, Len(u))
      BY <3>2, <3>3, NoneAdded
    <3> QED
      BY <1>17, <2>2, <3>4
  <2> QED
    BY <1>17, <2>1, <2>2
<1>19. ASSUME paragraph' = end, NEW i \in end..(o + w) - 1
       PROVE  u[i + 1].kind # "mark" /\ \A g \in HeadingLines : g <= line + 1 => g < u[i + 1].line
  <2>1. \A g \in HeadingLines : g <= line + 1 => g <= line /\ g < line + 1
    BY <1>1, <1>6, LinesType
  <2>2. CASE i < o
    <3>1. i + 1 \in 1..o /\ u[i + 1] = text[i + 1] /\ i \in end..Len(text) - 1
      BY <1>3, <1>6, <2>2
    <3>2. paragraph = end /\ paragraph # -1
      BY <1>9, <1>19, <2>2
    <3>3. text[i + 1].kind # "mark" /\ \A g \in HeadingLines : g <= line => g < text[i + 1].line
      BY <1>1, <3>1, <3>2 DEF ParagraphIsInk
    <3> QED
      BY <2>1, <3>1, <3>3
  <2>3. CASE ~(i < o)
    <3>1. i \in o..(o + w) - 1
      BY <2>3
    <3>2. PICK j \in 1..w : u[i + 1].kind = Kind(l, j) /\ u[i + 1].line = line + 1
      BY <1>15, <3>1
    <3> QED
      BY <1>8, <2>1, <3>2
  <2> QED
    BY <2>2, <2>3
<1>20. ASSUME paragraph' = end
       PROVE  \E i \in end..(o + w) - 1 : u[i + 1].kind # "space" /\ u[i + 1].line = u[end + 1].line
  <2>1. CASE end < o /\ end = paragraph
    <3>1. PICK i \in InkOf(text, end, o) : text[i + 1].line = text[end + 1].line
      BY <1>1, <1>3, <2>1 DEF ParagraphIsInk
    <3>2. i \in end..o - 1 /\ text[i + 1].kind # "space"
      BY DEF InkOf
    <3>3. i \in end..(o + w) - 1 /\ i + 1 \in 1..o /\ end + 1 \in 1..o
      BY <2>1, <3>2
    <3> QED
      BY <1>6, <3>1, <3>2, <3>3
  <2>2. CASE end = o /\ ~Blank(l)
    <3>1. PICK i \in o..(o + w) - 1 : u[i + 1].kind # "space" /\ u[i + 1].line = line + 1
      BY <1>16, <2>2
    <3>2. o \in o..(o + w) - 1
      BY <1>17, <1>20, <2>2
    <3>3. u[o + 1].line = line + 1
      BY <1>15, <3>2
    <3> QED
      BY <2>2, <3>1, <3>3
  <2> QED
    BY <1>9, <1>20, <2>1, <2>2
<1>21. ParagraphIsInk'
  <2>1. HeadingLines' = HeadingLines
    BY <1>7, SamePaths
  <2>2. CASE paragraph' = -1
    BY <2>2 DEF ParagraphIsInk
  <2>3. CASE paragraph' = end
    <3>1. \E i \in InkOf(u, end, Len(u)) : u[i + 1].line = u[end + 1].line
      BY <1>6, <1>20, <2>3 DEF InkOf
    <3>2. \A i \in end..Len(u) - 1 :
            /\ u[i + 1].kind # "mark"
            /\ \A g \in HeadingLines : g <= line + 1 => g < u[i + 1].line
      BY <1>6, <1>19, <2>3
    <3> QED
      BY <1>5, <1>6, <2>1, <2>3, <3>1, <3>2 DEF ParagraphIsInk, InkOf
  <2> QED
    BY <1>17, <2>2, <2>3
<1>22. ParsingTypeOK'
  <2>1. paragraph' \in -1..Len(u) - 1
    BY <1>6, <1>17
  <2>2. block = 1 /\ start = 0 /\ drafts = <<>>
    BY <1>1, <1>7 DEF ParsingTypeOK
  <2>3. 1 \in 1..Len(bs) + 1 /\ <<>> \in Seq(Drafts)
    OBVIOUS
  <2> QED
    BY <1>1, <1>5, <1>6, <1>7, <1>9, <2>1, <2>2, <2>3 DEF ParsingTypeOK
<1> QED
  BY <1>5, <1>9, <1>12, <1>13, <1>14, <1>18, <1>21, <1>22 DEF ParseInv, Ordered, Holding, InkOf, WrittenIn

(* What is not a heading extends the open paragraph, or opens one. *)
LEMMA ReadTextKeeps == ParseInv /\ ReadText => ParseInv'
<1> SUFFICES ASSUME ParseInv, ReadText PROVE ParseInv'
  OBVIOUS
<1>1. /\ ReadLine /\ ~Blank(lines[line + 1]) /\ blocks' = blocks
      /\ UNCHANGED <<stage, lines, headed, headings, block, start, drafts>>
      /\ paragraph' = IF paragraph = -1 THEN Len(text) ELSE paragraph
  BY DEF ReadText
<1>2. line + 1 \notin HeadingLines
  BY DEF ReadText, HeadingLines
<1>3. paragraph = -1 => blocks = Flushed(Len(text))
  BY DEF Flushed
<1> QED
  BY <1>1, <1>2, <1>3, TextKeeps

(* After two newlines it opens another. *)
LEMMA ReadParagraphKeeps == ParseInv /\ ReadParagraph => ParseInv'
<1> SUFFICES ASSUME ParseInv, ReadParagraph PROVE ParseInv'
  OBVIOUS
<1>1. /\ ReadLine /\ ~Blank(lines[line + 1]) /\ blocks' = Flushed(Len(text)) /\ paragraph' = Len(text)
      /\ UNCHANGED <<stage, lines, headed, headings, block, start, drafts>>
  BY DEF ReadParagraph
<1>2. line + 1 \notin HeadingLines
  BY DEF ReadParagraph, Parted, HeadingLines
<1> QED
  BY <1>1, <1>2, TextKeeps

(* A blank line settles the text, or stays in the paragraph. *)
LEMMA ReadBlankKeeps == ParseInv /\ ReadBlank => ParseInv'
<1> SUFFICES ASSUME ParseInv, ReadBlank PROVE ParseInv'
  OBVIOUS
<1>1. /\ ReadLine /\ Blank(lines[line + 1])
      /\ UNCHANGED <<stage, lines, headed, headings, block, start, drafts>>
      /\ IF headed THEN blocks' = Flushed(Len(text)) /\ paragraph' = -1
         ELSE blocks' = blocks /\ paragraph' = paragraph
  BY DEF ReadBlank
<1>2. line + 1 \notin HeadingLines
  BY <1>1 DEF Blank, HeadingLines
<1>3. paragraph = -1 => blocks = Flushed(Len(text))
  BY DEF Flushed
<1> QED
  BY <1>1, <1>2, <1>3, TextKeeps

(* The last paragraph is flushed. *)
LEMMA EndParsingKeeps == ParseInv /\ EndParsing => ParseInv'
<1> SUFFICES ASSUME ParseInv, EndParsing PROVE ParseInv'
  OBVIOUS
<1>1. ParsingTypeOK /\ HeadingsAreOpen
  BY DEF ParseInv
<1>2. PICK u \in Seq(Chars) : u = text /\ Len(u) \in Nat
  BY <1>1 DEF ParsingTypeOK
<1>3. PICK bs \in Seq(Blocks) :
         /\ bs = Flushed(Len(text))
         /\ Ordered(u, bs, Len(u)) /\ Holding(u, bs, Len(u)) /\ Pathed(u, bs)
         /\ \A k \in DOMAIN bs : Located(u, bs[k])
  BY <1>2, FlushedFact
<1>4. /\ lines' = lines /\ headed' = headed /\ stage' = "chunk" /\ stage = "parse" /\ headings' = headings
      /\ text' = u /\ line' = line /\ offset' = offset
      /\ blocks' = bs /\ block' = block /\ start' = start /\ drafts' = drafts /\ paragraph' = -1
  BY <1>2, <1>3 DEF EndParsing
<1>5. Pathed(text, blocks)'
  BY <1>3, <1>4, PathedAfter
<1>6. HeadingsAreOpen'
  BY <1>1, <1>2, <1>4 DEF HeadingsAreOpen, PathFits, Enclosing, Encloses, HeadingLines, NoLevelSkipped
<1>7. ParsingTypeOK'
  <2>1. block = 1 /\ start = 0 /\ drafts = <<>>
    BY <1>1, <1>4 DEF ParsingTypeOK
  <2>2. -1 \in -1..Len(u) - 1 /\ 1 \in 1..Len(bs) + 1 /\ <<>> \in Seq(Drafts)
    BY <1>2
  <2> QED
    BY <1>1, <1>2, <1>3, <1>4, <2>1, <2>2 DEF ParsingTypeOK
<1>8. Settled' = Len(u) /\ ParagraphIsInk'
  BY <1>4 DEF Settled, ParagraphIsInk
<1>9. OffsetsDrift(text, line, offset)' /\ (\A k \in DOMAIN blocks : Located(text, blocks[k]))'
  <2>1. PICK n, off : n = line /\ off = offset
    OBVIOUS
  <2>2. OffsetsDrift(u, n, off)
    BY <1>2, <2>1 DEF ParseInv
  <2> QED
    BY <1>3, <1>4, <2>1, <2>2, OffsetsAfter
<1> QED
  BY <1>3, <1>4, <1>5, <1>6, <1>7, <1>8, <1>9 DEF ParseInv, Ordered, Holding, InkOf, WrittenIn

-----------------------------------------------------------------------------
(* The chunker's invariant. *)

Length(b) == b.to - b.from

(* Where the windows of the block that is cut have come to. *)
Reached == IF start = 0 THEN 0 ELSE start + Overlap

(* A window that is not the first of its block starts so far before the end that
   it holds more than the overlap. *)
WindowIsInside ==
  start > 0 => stage = "chunk" /\ block <= Len(blocks) /\ start + Overlap < Length(blocks[block])

(* A draft lies in its block, up to where the windows have come, between two
   characters that are not white space. *)
Inside(d) ==
  /\ d.block \in DOMAIN blocks /\ d.block <= block
  /\ d.block = block => d.to <= blocks[block].from + Reached
  /\ blocks[d.block].from <= d.from /\ d.from < d.to /\ d.to <= blocks[d.block].to
  /\ d.to - d.from <= MaxChars

DraftsAreInside == \A k \in DOMAIN drafts : Inside(drafts[k])

(* What the windows have passed is in a draft. *)
DraftsHoldTheInk ==
  \A k \in DOMAIN blocks : \A i \in InkOf(text, blocks[k].from, blocks[k].to) :
    k < block \/ (k = block /\ i < blocks[k].from + Reached) =>
      \E m \in DOMAIN drafts : i \in InkOf(text, drafts[m].from, drafts[m].to)

(* Where gaps are short, no draft of the block starts where the next window may. *)
LastDraftIsBefore ==
  GapsAreShort /\ start > 0 =>
    \A k \in DOMAIN drafts : drafts[k].block = block => drafts[k].from < blocks[block].from + start

ChunkInv ==
  /\ WindowIsInside /\ DraftsAreInside /\ DraftsHoldTheInk /\ LastDraftIsBefore
  /\ ChunksAdvance /\ OffsetsAreNear
  /\ stage = "chunked" => block = Len(blocks) + 1

(* The fields of a draft. *)
LEMMA DraftType ==
  ASSUME NEW ds \in Seq(Drafts), NEW k \in DOMAIN ds
  PROVE  /\ ds[k] \in Drafts /\ ds[k].from \in Nat /\ ds[k].to \in Nat /\ ds[k].at \in Nat
         /\ ds[k].block \in Nat
<1>1. ds[k] \in Drafts
  OBVIOUS
<1> QED
  BY <1>1 DEF Drafts

(* OffsetsAreNear for one draft. *)
Near(d) ==
  LET first == text[blocks[d.block].from + 1].line
      here == text[d.from + 1].line
      away == text[d.from + 1].at - d.at + Cardinality(Joins(first, here))
  IN /\ away >= 0
     /\ \A i \in InkIn(d.from - away, d.from) : here \in HeadingLines /\ text[i + 1].line = here

(* It stays while the document, the text and the blocks do. *)
LEMMA NearAfter ==
  ASSUME lines' = lines, headed' = headed, text' = text, blocks' = blocks,
         NEW ds, ds = drafts', \A k \in DOMAIN ds : Near(ds[k])
  PROVE  OffsetsAreNear'
<1>1. \A m, n : Joins(m, n)' = Joins(m, n) /\ InkIn(m, n)' = InkIn(m, n)
  BY DEF Joins, InkIn
<1>2. HeadingLines' = HeadingLines
  BY SamePaths
<1>3. ASSUME NEW d, Near(d) PROVE Near(d)'
  <2>1. PICK m, n : m = text[blocks[d.block].from + 1].line /\ n = text[d.from + 1].line
    OBVIOUS
  <2>2. PICK a : a = text[d.from + 1].at - d.at + Cardinality(Joins(m, n))
    OBVIOUS
  <2>3. a >= 0 /\ \A i \in InkIn(d.from - a, d.from) : n \in HeadingLines /\ text[i + 1].line = n
    BY <1>3, <2>1, <2>2 DEF Near
  <2>4. Cardinality(Joins(m, n)') = Cardinality(Joins(m, n)) /\ InkIn(d.from - a, d.from)' = InkIn(d.from - a, d.from)
    BY <1>1
  <2>5. /\ m = (text[blocks[d.block].from + 1].line)' /\ n = (text[d.from + 1].line)'
        /\ a = (text[d.from + 1].at - d.at + Cardinality(Joins(m, n)))'
    BY <2>1, <2>2, <2>4
  <2> QED
    BY <1>2, <2>3, <2>4, <2>5 DEF Near
<1>4. \A k \in DOMAIN ds : Near(ds[k])'
  BY <1>3
<1> QED
  BY <1>4 DEF OffsetsAreNear, Near

(* Before anything is cut there is nothing to say. *)
LEMMA Uncut ==
  ASSUME ParsingTypeOK', drafts' = <<>>, start' = 0, block' = 1, stage' # "chunked"
  PROVE  ChunkInv'
<1>1. DOMAIN drafts' = {} /\ Len(drafts') = 0
  OBVIOUS
<1>2. DraftsHoldTheInk'
  <2> SUFFICES ASSUME NEW k \in DOMAIN blocks', NEW i \in InkOf(text', blocks'[k].from, blocks'[k].to)
               PROVE  ~(k < 1 \/ (k = 1 /\ i < blocks'[k].from + 0))
    BY DEF DraftsHoldTheInk, Reached, InkOf
  <2>1. blocks' \in Seq(Blocks)
    BY DEF ParsingTypeOK
  <2>2. blocks'[k].from \in Nat /\ blocks'[k].to \in Nat /\ k \in Nat /\ k >= 1
    BY <2>1, BlockType
  <2> QED
    BY <2>2 DEF InkOf
<1>3. WindowIsInside' /\ DraftsAreInside' /\ LastDraftIsBefore' /\ OffsetsAreNear'
  BY <1>1 DEF WindowIsInside, DraftsAreInside, LastDraftIsBefore, OffsetsAreNear
<1>4. ChunksAdvance'
  BY <1>1 DEF ChunksAdvance
<1> QED
  BY <1>2, <1>3, <1>4 DEF ChunkInv

(* The step from start to end in block b, and the draft d of what is there. *)
Windowed(b, end) ==
  /\ block \in DOMAIN blocks /\ b = blocks[block] /\ Length(b) \in Nat
  /\ start <= end /\ end <= Length(b) /\ end <= start + MaxChars
  /\ end = start + MaxChars \/ end = Length(b)
  /\ IF end = Length(b) THEN block' = block + 1 /\ start' = 0
     ELSE block' = block /\ start' = end - Overlap /\ start' \in Nat

WindowInk(b, end) == InkOf(text, b.from + start, b.from + end)

Drafted(b, end, d) ==
  /\ d.block = block /\ d.at = b.at + start
  /\ b.from + start <= d.from /\ d.from < d.to /\ d.to <= b.from + end
  /\ InkOf(text, d.from, d.to) = WindowInk(b, end)
  /\ \A i \in WindowInk(b, end) : d.from <= i /\ i < d.to

(* What a window adds. *)
LEMMA CutFact ==
  ASSUME ParseInv, ChunkInv, Cut
  PROVE  \E b \in Blocks : \E end \in Nat :
           /\ Windowed(b, end)
           /\ \/ WindowInk(b, end) = {} /\ drafts' = drafts
              \/ \E d \in Drafts : drafts' = Append(drafts, d) /\ Drafted(b, end, d)
<1>1. /\ block \in DOMAIN blocks /\ blocks \in Seq(Blocks) /\ start \in Nat
      /\ MaxChars \in Nat /\ Overlap \in Nat /\ MaxChars >= 1 /\ Overlap < MaxChars
  BY ChunkerAssumption DEF ParseInv, ParsingTypeOK, Cut
<1>2. PICK b \in Blocks : b = blocks[block]
  BY <1>1, BlockType
<1>3. b.from \in Nat /\ b.to \in Nat /\ b.at \in Nat /\ b.path \in Seq(Nat) /\ b.from <= b.to
  BY <1>1, <1>2, BlockType DEF ParseInv, Ordered
<1>4. PICK L \in Nat : L = Length(b) /\ L = b.to - b.from
  <2>1. b.to - b.from \in Nat
    BY <1>3
  <2> QED BY <2>1 DEF Length
<1>5. start <= L
  <2>1. start > 0 => start + Overlap < L
    BY <1>2, <1>4 DEF ChunkInv, WindowIsInside
  <2> QED
    BY <1>1, <1>4, <2>1
<1>6. PICK end \in Nat : end = Min({start + MaxChars, L})
  BY <1>1, MinOfTwo
<1>7. start <= end /\ end <= L /\ end <= start + MaxChars /\ (end = start + MaxChars \/ end = L)
  BY <1>1, <1>5, <1>6, MinOfTwo
<1>8. /\ drafts' = drafts \o Draft(b, start, end)
      /\ IF end = L THEN block' = block + 1 /\ start' = 0 ELSE start' = end - Overlap /\ block' = block
  BY <1>2, <1>4, <1>6 DEF Cut
<1>9. end # L => start' \in Nat
  BY <1>1, <1>7, <1>8
<1>13. Windowed(b, end)
  BY <1>1, <1>2, <1>4, <1>7, <1>8, <1>9 DEF Windowed
<1> DEFINE from == b.from + start
           to == b.from + end
           s == Strip(from, to)
           ink == InkOf(text, from, to)
<1>10. from \in Nat /\ to \in Nat
  BY <1>1, <1>3
<1>11. CASE ink = {}
  <2>1. s[1] = s[2]
    BY <1>10, <1>11, StripFact
  <2>2. Draft(b, start, end) = <<>>
    BY <2>1 DEF Draft
  <2>3. drafts' = drafts
    BY <1>8, <2>2 DEF ParseInv, ParsingTypeOK
  <2> QED
    BY <1>11, <1>13, <2>3 DEF WindowInk
<1>12. CASE ink # {}
  <2>1. /\ s[1] \in from..to - 1 /\ s[2] \in from + 1 .. to /\ s[1] < s[2]
        /\ InkOf(text, s[1], s[2]) = ink /\ \A i \in ink : s[1] <= i /\ i < s[2]
    BY <1>10, <1>12, StripFact
  <2>2. PICK f \in Nat, t \in Nat : f = s[1] /\ t = s[2] /\ from <= f /\ f < t /\ t <= to
    BY <1>10, <2>1
  <2>3. PICK at \in Nat, e \in Nat : at = b.at + start /\ e = at + t - f
    <3>1. PICK at \in Nat : at = b.at + start
      BY <1>1, <1>3
    <3>2. at + t - f \in Nat
      BY <2>2, <3>1
    <3> QED BY <3>1, <3>2
  <2>4. PICK d \in Drafts : d = [from |-> f, to |-> t, at |-> at, end |-> e, block |-> block, path |-> b.path]
    <3>1. block \in Nat
      BY <1>1
    <3>2. [from |-> f, to |-> t, at |-> at, end |-> e, block |-> block, path |-> b.path] \in Drafts
      BY <1>3, <3>1 DEF Drafts
    <3> QED BY <3>2
  <2>5. Draft(b, start, end) = <<d>>
    <3>1. s[1] # s[2] /\ at + s[2] - s[1] = e
      BY <2>2, <2>3
    <3> QED
      BY <2>2, <2>3, <2>4, <3>1 DEF Draft
  <2>6. drafts' = Append(drafts, d)
    <3>1. drafts \in Seq(Drafts)
      BY DEF ParseInv, ParsingTypeOK
    <3> QED BY <1>8, <2>5, <3>1
  <2>7. d.block = block /\ d.at = b.at + start /\ d.from = f /\ d.to = t
    BY <2>3, <2>4
  <2>8. InkOf(text, d.from, d.to) = ink /\ \A i \in ink : d.from <= i /\ i < d.to
    BY <2>1, <2>2, <2>7
  <2>9. from <= d.from /\ d.from < d.to /\ d.to <= to
    BY <2>2, <2>7
  <2> HIDE DEF ink, from, to, s
  <2>10. Drafted(b, end, d)
    BY <2>7, <2>8, <2>9 DEF Drafted, WindowInk, ink, from, to
  <2> QED
    BY <1>13, <2>6, <2>10
<1> QED
  BY <1>11, <1>12

(* A window leaves what the parser found as it is. *)
LEMMA CutKeepsParsing == ParseInv /\ ChunkInv /\ Cut => ParseInv'
<1> SUFFICES ASSUME ParseInv, ChunkInv, Cut PROVE ParseInv'
  OBVIOUS
<1>1. /\ stage' = stage /\ stage = "chunk" /\ lines' = lines /\ headed' = headed /\ line' = line
      /\ offset' = offset /\ text' = text /\ headings' = headings /\ paragraph' = paragraph /\ blocks' = blocks
  BY DEF Cut
<1>2. block' \in 1..Len(blocks) + 1 /\ start' \in Nat /\ drafts' \in Seq(Drafts)
  <2>1. drafts \in Seq(Drafts) /\ block \in 1..Len(blocks) + 1 /\ blocks \in Seq(Blocks)
    BY DEF ParseInv, ParsingTypeOK
  <2>2. drafts' = drafts \/ \E d \in Drafts : drafts' = Append(drafts, d)
    BY CutFact
  <2>3. block \in DOMAIN blocks /\ ((block' = block + 1 /\ start' = 0) \/ (block' = block /\ start' \in Nat))
    BY CutFact DEF Windowed
  <2>4. drafts' \in Seq(Drafts)
    BY <2>1, <2>2
  <2>5. block' \in 1..Len(blocks) + 1 /\ start' \in Nat
    BY <2>1, <2>3
  <2> QED
    BY <2>4, <2>5
<1>3. ParsingTypeOK'
  BY <1>1, <1>2 DEF ParseInv, ParsingTypeOK
<1>4. HeadingsAreOpen' /\ ParagraphIsInk' /\ Settled' = Settled
  BY <1>1 DEF ParseInv, HeadingsAreOpen, ParagraphIsInk, Settled, PathFits, Enclosing, Encloses,
     HeadingLines, NoLevelSkipped, InkOf
<1>5. PICK u, bs, n, off : u = text /\ bs = blocks /\ n = line /\ off = offset
  OBVIOUS
<1>6. Pathed(text, blocks)'
  BY <1>1, <1>5, PathedAfter DEF ParseInv
<1>7. OffsetsDrift(u, n, off) /\ \A k \in DOMAIN bs : Located(u, bs[k])
  BY <1>5 DEF ParseInv
<1>8. OffsetsDrift(text, line, offset)' /\ (\A k \in DOMAIN blocks : Located(text, blocks[k]))'
  BY <1>1, <1>5, <1>7, OffsetsAfter
<1> QED
  BY <1>1, <1>3, <1>4, <1>6, <1>8 DEF ParseInv, Ordered, Holding, InkOf, WrittenIn

(* What the proof about a window uses of the invariant. *)
LEMMA ChunkTypes ==
  ASSUME ParseInv
  PROVE  /\ drafts \in Seq(Drafts) /\ blocks \in Seq(Blocks) /\ start \in Nat
         /\ MaxChars \in Nat /\ Overlap \in Nat /\ MaxChars >= 1 /\ Overlap < MaxChars
         /\ Len(blocks) \in Nat /\ DOMAIN blocks = 1..Len(blocks)
         /\ Len(drafts) \in Nat /\ DOMAIN drafts = 1..Len(drafts)
         /\ block \in Nat /\ block >= 1
  BY ChunkerAssumption DEF ParseInv, ParsingTypeOK

(* A block that is cut has been cut further than where its drafts are. *)
LEMMA DraftsBehind ==
  ASSUME ParseInv, ChunkInv, NEW k \in DOMAIN drafts, block \in DOMAIN blocks
  PROVE  /\ drafts[k].block = block => start > 0 /\ drafts[k].to <= blocks[block].from + start + Overlap
         /\ drafts[k].block # block => drafts[k].to <= blocks[block].from
<1>1. /\ drafts[k].from \in Nat /\ drafts[k].to \in Nat /\ drafts[k].block \in Nat
      /\ blocks[block].from \in Nat /\ start \in Nat /\ Overlap \in Nat /\ block \in Nat
  BY ChunkTypes, DraftType, BlockType
<1>2. Inside(drafts[k])
  BY DEF ChunkInv, DraftsAreInside
<1>3. ASSUME drafts[k].block = block
      PROVE  start > 0 /\ drafts[k].to <= blocks[block].from + start + Overlap
  <2>1. drafts[k].to <= blocks[block].from + Reached /\ blocks[block].from < drafts[k].to
    BY <1>1, <1>2, <1>3 DEF Inside
  <2> QED
    BY <1>1, <2>1 DEF Reached
<1>4. ASSUME drafts[k].block # block
      PROVE  drafts[k].to <= blocks[block].from
  <2>1. drafts[k].block \in DOMAIN blocks /\ drafts[k].block < block /\ drafts[k].to <= blocks[drafts[k].block].to
    BY <1>1, <1>2, <1>4 DEF Inside
  <2>2. blocks[drafts[k].block].to <= blocks[block].from /\ blocks[drafts[k].block].to \in Nat
    BY <2>1, ChunkTypes, BlockType DEF ParseInv, Ordered
  <2> QED
    BY <1>1, <2>1, <2>2
<1> QED
  BY <1>3, <1>4

(* The windows stay inside their block, and what they have passed is in a draft.
   The new draft starts behind the last one of its block: the gap that a window's
   ink could start after is shorter than the way between two windows, and the ink
   beyond the overlap, or the last character of the block, is in no draft yet. *)
LEMMA CutKeepsChunking == ParseInv /\ ChunkInv /\ Cut => ChunkInv'
<1> SUFFICES ASSUME ParseInv, ChunkInv, Cut PROVE ChunkInv'
  OBVIOUS
<1>1. /\ stage' = stage /\ stage = "chunk" /\ text' = text /\ blocks' = blocks
      /\ lines' = lines /\ headed' = headed
  BY DEF Cut
<1>2. PICK b \in Blocks : \E e \in Nat :
        /\ Windowed(b, e)
        /\ \/ WindowInk(b, e) = {} /\ drafts' = drafts
           \/ \E d \in Drafts : drafts' = Append(drafts, d) /\ Drafted(b, e, d)
  BY CutFact
<1>3. PICK e \in Nat :
        /\ Windowed(b, e)
        /\ \/ WindowInk(b, e) = {} /\ drafts' = drafts
           \/ \E d \in Drafts : drafts' = Append(drafts, d) /\ Drafted(b, e, d)
  BY <1>2
<1>4. /\ b.from \in Nat /\ b.to \in Nat /\ b.at \in Nat /\ b.from <= b.to
      /\ b = blocks[block] /\ block \in DOMAIN blocks /\ Length(b) = b.to - b.from
  BY <1>3, ChunkTypes, BlockType DEF Windowed, Length, ParseInv, Ordered
<1>a. /\ b.from < b.to => text[b.to].kind = "ink"
      /\ b.to <= Len(text) /\ text \in Seq(Chars)
  <2>1. text \in Seq(Chars)
    BY DEF ParseInv, ParsingTypeOK
  <2>2. b.to <= Settled /\ (b.from < b.to => text[b.to].kind = "ink")
    BY <1>4 DEF ParseInv, Ordered
  <2>3. Settled = Len(text)
    BY <1>1 DEF ParseInv, ParsingTypeOK, Settled
  <2> QED BY <2>1, <2>2, <2>3
<1>5. PICK L \in Nat : /\ L = Length(b) /\ b.to = b.from + L
                       /\ start <= e /\ e <= L /\ e <= start + MaxChars
                       /\ e = start + MaxChars \/ e = L
  <2>1. Length(b) \in Nat /\ b.to = b.from + Length(b)
    BY <1>3, <1>4 DEF Windowed
  <2> QED
    BY <1>3, <2>1 DEF Windowed
<1>6. /\ e = L => block' = block + 1 /\ start' = 0
      /\ e # L => block' = block /\ start' = e - Overlap /\ start' \in Nat /\ e = start + MaxChars
  BY <1>3, <1>5 DEF Windowed
<1>7. /\ start \in Nat /\ MaxChars \in Nat /\ Overlap \in Nat /\ MaxChars >= 1 /\ Overlap < MaxChars
      /\ block \in Nat /\ drafts \in Seq(Drafts) /\ blocks \in Seq(Blocks)
      /\ Len(drafts) \in Nat /\ DOMAIN drafts = 1..Len(drafts)
      /\ Len(blocks) \in Nat /\ DOMAIN blocks = 1..Len(blocks)
  BY ChunkTypes
<1>8. start > 0 => start + Overlap < L
  BY <1>4, <1>5 DEF ChunkInv, WindowIsInside
<1>9. e # L => start' > 0 /\ start' + Overlap = e /\ e < L /\ start' = start + (MaxChars - Overlap)
  BY <1>5, <1>6, <1>7
<1>10. Reached <= e
  BY <1>5, <1>7, <1>8 DEF Reached
<1>11. /\ e # L => Reached' = e
       /\ e = L => Reached' = 0
  BY <1>6, <1>9 DEF Reached
<1>12. \A k \in DOMAIN drafts : k \in DOMAIN drafts' /\ drafts'[k] = drafts[k]
  <2>1. drafts' = drafts \/ \E d \in Drafts : drafts' = Append(drafts, d)
    BY <1>3
  <2> QED
    BY <1>7, <2>1
<1>13. \/ WindowInk(b, e) = {} /\ drafts' = drafts
       \/ \E d \in Drafts : /\ Drafted(b, e, d) /\ Len(drafts') = Len(drafts) + 1
                            /\ drafts'[Len(drafts) + 1] = d /\ DOMAIN drafts' = 1..Len(drafts) + 1
  BY <1>3, <1>7
<1>14. ASSUME NEW d \in Drafts, Drafted(b, e, d)
       PROVE  /\ d.from \in Nat /\ d.to \in Nat /\ d.at \in Nat /\ d.block = block /\ d.at = b.at + start
              /\ b.from + start <= d.from /\ d.from < d.to /\ d.to <= b.from + e
              /\ d.to - d.from <= MaxChars
  <2>1. d.from \in Nat /\ d.to \in Nat /\ d.at \in Nat
    BY DEF Drafts
  <2>2. /\ d.block = block /\ d.at = b.at + start
        /\ b.from + start <= d.from /\ d.from < d.to /\ d.to <= b.from + e
    BY <1>14 DEF Drafted
  <2>3. d.to - d.from <= MaxChars
    <3>1. PICK f \in Nat, t \in Nat, bf \in Nat : f = d.from /\ t = d.to /\ bf = b.from
      BY <1>4, <2>1
    <3>2. bf + start <= f /\ t <= bf + e /\ e <= start + MaxChars /\ start \in Nat /\ MaxChars \in Nat
      BY <1>5, <1>7, <2>2, <3>1
    <3>3. t - f <= MaxChars
      BY <3>2
    <3> QED BY <3>1, <3>3
  <2> QED
    BY <2>1, <2>2, <2>3
<1>15. WindowIsInside'
  <2>1. CASE e = L
    BY <1>6, <2>1 DEF WindowIsInside
  <2>2. CASE e # L
    <3>1. start' + Overlap < L /\ block' = block /\ block <= Len(blocks)
      BY <1>4, <1>6, <1>7, <1>9, <2>2
    <3>2. L = Length(b)
      BY <1>5
    <3> QED
      BY <1>1, <1>4, <3>1, <3>2 DEF WindowIsInside, Length
  <2> QED
    BY <2>1, <2>2
<1>16. DraftsAreInside'
  <2>1. ASSUME NEW d \in Drafts, Inside(d) PROVE Inside(d)'
    <3>0. d.block \in Nat /\ d.to \in Nat
      BY DEF Drafts
    <3>1. d.block \in DOMAIN blocks' /\ d.block <= block'
      BY <1>1, <1>6, <1>7, <2>1, <3>0 DEF Inside
    <3>2. d.block = block' => d.to <= blocks'[block'].from + Reached'
      <4>1. SUFFICES ASSUME d.block = block' PROVE d.to <= b.from + e /\ e # L
        BY <1>1, <1>4, <1>6, <1>11
      <4>2. e # L /\ d.block = block
        BY <1>6, <1>7, <2>1, <3>0, <4>1 DEF Inside
      <4>3. d.to <= b.from + Reached /\ Reached \in Nat
        BY <1>4, <1>7, <2>1, <4>2 DEF Inside, Reached
      <4> QED
        BY <1>4, <1>10, <3>0, <4>2, <4>3
    <3> QED
      BY <1>1, <2>1, <3>1, <3>2 DEF Inside
  <2>2. ASSUME NEW d \in Drafts, Drafted(b, e, d) PROVE Inside(d)'
    <3>1. /\ d.from \in Nat /\ d.to \in Nat /\ d.block = block
          /\ b.from + start <= d.from /\ d.from < d.to /\ d.to <= b.from + e
          /\ d.to - d.from <= MaxChars
      BY <1>14, <2>2
    <3>2. blocks'[d.block] = b /\ d.block \in DOMAIN blocks' /\ d.block <= block'
      BY <1>1, <1>4, <1>6, <1>7, <3>1
    <3>3. d.block = block' => d.to <= blocks'[block'].from + Reached'
      BY <1>6, <1>7, <1>11, <3>1, <3>2
    <3>4. b.from <= d.from /\ d.to <= b.to
      <4>1. b.from + start <= d.from /\ d.to <= b.from + e /\ b.from \in Nat /\ start \in Nat
        BY <1>4, <1>7, <3>1
      <4>2. b.from + e <= b.to
        BY <1>4, <1>5
      <4>3. PICK f \in Nat, t \in Nat, df \in Nat, dt \in Nat :
              f = b.from /\ t = b.to /\ df = d.from /\ dt = d.to
        BY <1>4, <3>1
      <4>4. f <= df /\ dt <= t
        BY <4>1, <4>2, <4>3
      <4> QED
        BY <4>3, <4>4
    <3> QED
      BY <3>1, <3>2, <3>3, <3>4 DEF Inside
  <2>3. ASSUME NEW k \in DOMAIN drafts' PROVE Inside(drafts[k])'
    <3>1. PICK d \in Drafts : d = drafts'[k] /\ (Inside(d) \/ Drafted(b, e, d))
      <4>1. CASE k \in DOMAIN drafts
        BY <1>12, <4>1, DraftType, ChunkTypes DEF ChunkInv, DraftsAreInside
      <4>2. CASE k \notin DOMAIN drafts
        BY <1>7, <1>13, <4>2
      <4> QED
        BY <4>1, <4>2
    <3>2. Inside(d)'
      BY <2>1, <2>2, <3>1
    <3> QED
      BY <3>1, <3>2 DEF Inside
  <2> QED
    BY <2>3 DEF DraftsAreInside
<1>17. /\ \A d \in Drafts : InkOf(text', d.from, d.to) = InkOf(text, d.from, d.to)
       /\ \A k \in DOMAIN blocks : InkOf(text', blocks'[k].from, blocks'[k].to) = InkOf(text, blocks[k].from, blocks[k].to)
  BY <1>1
<1>18. DraftsHoldTheInk'
  <2> SUFFICES ASSUME NEW k \in DOMAIN blocks, NEW i \in InkOf(text, blocks[k].from, blocks[k].to),
                      k < block' \/ (k = block' /\ i < blocks[k].from + Reached')
               PROVE  \E m \in DOMAIN drafts' : i \in InkOf(text, drafts'[m].from, drafts'[m].to)
    BY <1>1 DEF DraftsHoldTheInk, InkOf
  <2>1. /\ i \in Nat /\ i >= blocks[k].from /\ i < blocks[k].to /\ text[i + 1].kind # "space" /\ k \in Nat
        /\ blocks[k].from \in Nat /\ blocks[k].to \in Nat
    BY <1>7, BlockType DEF InkOf
  <2>2. k < block \/ (k = block /\ i < b.from + e)
    <3>1. CASE e = L
      <4>1. block' = block + 1 /\ Reached' = 0
        BY <1>6, <1>11, <3>1
      <4>2. k < block + 1
        BY <2>1, <4>1
      <4>3. k = block => i < b.from + e
        BY <1>4, <1>5, <2>1, <3>1
      <4> QED
        BY <1>7, <2>1, <4>2, <4>3
    <3>2. CASE e # L
      BY <1>4, <1>6, <1>11, <3>2
    <3> QED
      BY <3>1, <3>2
  <2>3. CASE k < block \/ (k = block /\ i < b.from + Reached)
    <3>1. PICK m \in DOMAIN drafts : i \in InkOf(text, drafts[m].from, drafts[m].to)
      BY <1>4, <2>3 DEF ChunkInv, DraftsHoldTheInk
    <3> QED
      BY <1>12, <3>1
  <2>4. CASE k = block /\ b.from + start <= i
    <3>1. i \in WindowInk(b, e)
      <4>1. i \in b.from + start .. (b.from + e) - 1
        BY <1>4, <1>7, <2>1, <2>2, <2>4
      <4> QED
        BY <2>1, <4>1 DEF WindowInk, InkOf
    <3>2. PICK d \in Drafts : /\ Drafted(b, e, d) /\ drafts'[Len(drafts) + 1] = d
                             /\ DOMAIN drafts' = 1..Len(drafts) + 1
      BY <1>13, <3>1
    <3>3. i \in InkOf(text, d.from, d.to)
      BY <3>1, <3>2 DEF Drafted
    <3> QED
      BY <1>7, <3>2, <3>3
  <2>5. ~(b.from + start <= i) => i < b.from + Reached
    <3>1. start > 0 => start <= start + Overlap
      BY <1>7
    <3>2. start <= Reached /\ Reached \in Nat
      BY <1>7, <3>1 DEF Reached
    <3> QED
      BY <1>4, <1>7, <2>1, <3>2
  <2> QED
    BY <2>2, <2>3, <2>4, <2>5
<1>19. GapsAreShort' <=> GapsAreShort
  BY <1>1 DEF GapsAreShort, InkIn
<1>20. PICK S \in Nat : /\ S = MaxChars - Overlap /\ S >= 1 /\ S + Overlap = MaxChars
                        /\ \A n \in Nat : n + MaxChars - Overlap = n + S
  <2>1. MaxChars - Overlap \in Nat /\ MaxChars - Overlap >= 1
    BY <1>7
  <2> QED BY <1>7, <2>1
<1>21. PICK w \in Nat, x \in Nat : w = b.from /\ x = w + start /\ b.to = w + L
  <2>1. PICK w \in Nat : w = b.from /\ b.to = w + L
    BY <1>4, <1>5
  <2>2. w + start \in Nat
    BY <1>7
  <2> QED BY <2>1, <2>2
<1>28. start \in Nat /\ Overlap \in Nat /\ MaxChars \in Nat
  BY <1>7
<1>29. w \in Nat /\ x \in Nat /\ start \in Nat /\ Overlap \in Nat /\ x = w + start
  BY <1>21, <1>28
<1>30. S \in Nat /\ S >= 1 /\ L \in Nat /\ e \in Nat /\ e <= L
  BY <1>5, <1>20
<1>22. ASSUME GapsAreShort, NEW i \in Nat, w <= i, i + S <= w + L
       PROVE  \E j \in Nat : i <= j /\ j < i + S /\ text[j + 1].kind # "space"
  <2>1. i \in w .. (w + L) - S
    BY <1>5, <1>20, <1>21, <1>22
  <2>2. InkIn(i, i + MaxChars - Overlap) # {}
    BY <1>4, <1>20, <1>21, <1>22, <2>1 DEF GapsAreShort
  <2>3. PICK j \in InkIn(i, i + S) : TRUE
    BY <1>20, <2>2
  <2>4. j \in i..i + S - 1 /\ text[j + 1].kind # "space"
    BY DEF InkIn
  <2> QED
    BY <1>20, <2>4
<1>23. ASSUME NEW d \in Drafts, Drafted(b, e, d), NEW j \in Nat, x <= j, j < w + e,
              text[j + 1].kind # "space"
       PROVE  d.from <= j /\ j < d.to
  <2>1. j \in x..(w + e) - 1
    BY <1>21, <1>23
  <2>2. j \in WindowInk(b, e)
    BY <1>21, <1>23, <2>1 DEF WindowInk, InkOf
  <2> QED
    BY <1>23, <2>2 DEF Drafted
(* Where gaps are short, a window that is not the last begins with ink. *)
<1>24. ASSUME GapsAreShort, e # L, NEW d \in Drafts, Drafted(b, e, d)
       PROVE  d.from < x + S
  <2>1. e = start + S + Overlap
    BY <1>6, <1>7, <1>20, <1>24
  <2>2. w <= x /\ x + S <= w + e /\ x + S <= w + L
    BY <1>5, <1>7, <1>20, <1>21, <2>1
  <2>3. PICK j \in Nat : x <= j /\ j < x + S /\ text[j + 1].kind # "space"
    BY <1>22, <1>24, <2>2
  <2>4. j < w + e
    BY <2>2, <2>3
  <2>5. d.from <= j
    BY <1>23, <1>24, <2>3, <2>4
  <2>6. d.from \in Nat
    BY DEF Drafts
  <2> QED
    BY <2>3, <2>5, <2>6
<1>25. LastDraftIsBefore'
  <2> SUFFICES ASSUME GapsAreShort, start' > 0, NEW k \in DOMAIN drafts', drafts'[k].block = block'
               PROVE  drafts'[k].from < blocks[block'].from + start'
    BY <1>1, <1>19 DEF LastDraftIsBefore
  <2>1. e # L /\ block' = block /\ start' = start + S
    BY <1>6, <1>9, <1>20
  <2>2. blocks[block'].from + start' = x + S
    BY <1>4, <1>7, <1>21, <2>1
  <2>3. CASE k \in DOMAIN drafts
    <3>1. drafts'[k] = drafts[k] /\ drafts[k].block = block
      BY <1>12, <2>1, <2>3
    <3>2. start > 0
      BY <1>4, <2>3, <3>1, DraftsBehind
    <3>3. drafts[k].from < x
      BY <1>4, <1>21, <2>3, <3>1, <3>2 DEF ChunkInv, LastDraftIsBefore
    <3>4. drafts[k].from \in Nat
      BY <1>7, <2>3, DraftType
    <3>5. drafts[k].from < x + S
      BY <1>20, <3>3, <3>4
    <3> QED
      BY <2>2, <3>1, <3>5
  <2>4. CASE k \notin DOMAIN drafts
    <3>1. PICK d \in Drafts : Drafted(b, e, d) /\ drafts'[k] = d
      BY <1>7, <1>13, <2>4
    <3> QED
      BY <1>24, <2>1, <2>2, <3>1
  <2> QED
    BY <2>3, <2>4
<1>26. ChunksAdvance'
  <2>1. ASSUME NEW k \in DOMAIN drafts' PROVE drafts'[k].to - drafts'[k].from \in 1..MaxChars
    <3>1. drafts'[k].from < drafts'[k].to /\ drafts'[k].to - drafts'[k].from <= MaxChars
      BY <1>16 DEF DraftsAreInside, Inside
    <3>2. drafts' \in Seq(Drafts)
      BY CutKeepsParsing DEF ParseInv, ParsingTypeOK
    <3>3. PICK f \in Nat, t \in Nat : f = drafts'[k].from /\ t = drafts'[k].to
      BY <3>2, DraftType
    <3>4. t - f \in 1..MaxChars
      BY <1>7, <3>1, <3>3
    <3> QED BY <3>3, <3>4
  <2>2. ASSUME NEW k \in 1..Len(drafts') - 1
        PROVE  /\ drafts'[k].block # drafts'[k + 1].block => drafts'[k].to <= drafts'[k + 1].from
               /\ drafts'[k + 1].from >= drafts'[k].to - Overlap
               /\ GapsAreShort => drafts'[k].from < drafts'[k + 1].from /\ drafts'[k].to < drafts'[k + 1].to
    <3>1. CASE k \in 1..Len(drafts) - 1
      <4>1. k \in DOMAIN drafts /\ k + 1 \in DOMAIN drafts
        BY <1>7, <3>1
      <4>2. drafts'[k] = drafts[k] /\ drafts'[k + 1] = drafts[k + 1]
        BY <1>12, <4>1
      <4> QED
        BY <3>1, <4>2 DEF ChunkInv, ChunksAdvance
    <3>2. CASE k \notin 1..Len(drafts) - 1
      <4>1. PICK d \in Drafts : /\ Drafted(b, e, d) /\ Len(drafts') = Len(drafts) + 1
                               /\ drafts'[Len(drafts) + 1] = d
        BY <1>13, <3>2
      <4>2. k = Len(drafts) /\ k \in DOMAIN drafts
        <5>1. PICK l \in Nat : l = Len(drafts) /\ DOMAIN drafts = 1..l
          BY <1>7
        <5>2. k \in 1..(l + 1) - 1 /\ k \notin 1..l - 1
          BY <3>2, <4>1, <5>1
        <5>3. k = l /\ k \in 1..l
          BY <5>2
        <5> QED BY <5>1, <5>3
      <4>3. PICK c \in Drafts : c = drafts[k] /\ c = drafts'[k]
        BY <1>7, <1>12, <4>2
      <4>4. PICK cf \in Nat, ct \in Nat, df \in Nat, dt \in Nat :
              /\ cf = c.from /\ ct = c.to /\ df = d.from /\ dt = d.to
              /\ cf < ct /\ x <= df /\ df < dt
        <5>1. c.from \in Nat /\ c.to \in Nat
          BY DEF Drafts
        <5>2. c.from < c.to
          BY <4>2, <4>3 DEF ChunkInv, DraftsAreInside, Inside
        <5> QED
          BY <1>14, <1>21, <4>1, <5>1, <5>2
      <4>5. d.block = block
        BY <1>14, <4>1
      <4>6. CASE c.block # block
        <5>1. ct <= w
          BY <1>4, <1>21, <4>2, <4>3, <4>4, <4>6, DraftsBehind
        <5>3. w <= x
          BY <1>29
        <5>4. cf < ct /\ x <= df /\ df < dt
          BY <4>4
        <5>5. ct <= df /\ cf < df /\ ct < dt
          BY <1>29, <5>1, <5>3, <5>4
        <5>6. df >= ct - Overlap
          BY <1>29, <5>5
        <5>2. ct <= df /\ df >= ct - Overlap /\ cf < df /\ ct < dt
          BY <5>5, <5>6
        <5> QED
          BY <4>1, <4>2, <4>3, <4>4, <5>2
      <4>7. CASE c.block = block
        <5>1. start > 0 /\ ct <= x + Overlap
          BY <1>4, <1>21, <4>2, <4>3, <4>4, <4>7, DraftsBehind
        <5>2. df >= ct - Overlap
          BY <1>28, <4>4, <5>1
        <5>3. ASSUME GapsAreShort PROVE cf < df /\ ct < dt
          <6>1. cf < x
            BY <1>4, <1>21, <4>2, <4>3, <4>4, <4>7, <5>1, <5>3 DEF ChunkInv, LastDraftIsBefore
          <6>2. \E j \in Nat : x + Overlap <= j /\ j < w + e /\ text[j + 1].kind # "space"
            <7>1. CASE e = L
              <8>1. PICK j \in Nat : j + 1 = w + L
                <9>1. L >= 1
                  BY <1>8, <1>28, <1>30, <5>1
                <9>2. (w + L) - 1 \in Nat /\ ((w + L) - 1) + 1 = w + L
                  BY <1>5, <1>21, <9>1
                <9> QED BY <9>2
              <8>2. text[j + 1].kind # "space"
                <9>1. b.from < b.to
                  BY <1>8, <1>21, <1>28, <1>30, <5>1
                <9> QED BY <1>a, <1>21, <8>1, <9>1
              <8>3. x + Overlap <= j /\ j < w + e
                BY <1>8, <1>29, <1>30, <5>1, <7>1, <8>1
              <8> QED BY <8>2, <8>3
            <7>2. CASE e # L
              <8>1. PICK i \in Nat : i = x + Overlap
                BY <1>7, <1>21
              <8>4. e = start + (S + Overlap)
                BY <1>6, <1>20, <7>2
              <8>5. i + S = w + e
                BY <1>29, <1>30, <8>1, <8>4
              <8>2. w <= i /\ i + S <= w + L /\ i + S <= w + e
                BY <1>29, <1>30, <8>1, <8>5
              <8>3. PICK j \in Nat : i <= j /\ j < i + S /\ text[j + 1].kind # "space"
                BY <1>22, <5>3, <8>2
              <8>6. j < w + e
                BY <1>21, <8>3, <8>5
              <8> QED BY <8>1, <8>3, <8>6
            <7> QED BY <7>1, <7>2
          <6>3. PICK j \in Nat : x + Overlap <= j /\ j < w + e /\ text[j + 1].kind # "space"
            BY <6>2
          <6>4. x <= j
            BY <1>28, <6>3
          <6>5. j < dt
            BY <1>23, <4>1, <4>4, <6>3, <6>4
          <6> QED
            BY <1>28, <4>4, <5>1, <6>1, <6>3, <6>5
        <5> QED
          BY <4>1, <4>2, <4>3, <4>4, <4>5, <4>7, <5>2, <5>3
      <4> QED
        BY <4>6, <4>7
    <3> QED
      BY <3>1, <3>2
  <2> QED
    BY <1>19, <2>1, <2>2 DEF ChunksAdvance
<1>27. OffsetsAreNear'
  <2>1. ASSUME NEW d \in Drafts, Drafted(b, e, d) PROVE Near(d)
    <3>1. PICK df \in Nat, dt \in Nat, at \in Nat, A \in Nat :
            /\ df = d.from /\ dt = d.to /\ at = d.at /\ A = b.at /\ at = A + start /\ d.block = block
            /\ x <= df /\ df < dt /\ dt <= w + e
      BY <1>4, <1>14, <1>21, <2>1
    <3>2. PICK z \in Nat : z = Len(text) /\ text \in Seq(Chars) /\ w + L <= z
      BY <1>a, <1>21
    <3>3. w \in 0..z - 1 /\ df \in w..z - 1 /\ df < w + e /\ df < w + L
      BY <1>29, <1>30, <3>1, <3>2
    <3>4. text[w + 1] \in Chars /\ text[df + 1] \in Chars
      BY <3>2, <3>3
    <3>5. PICK m \in Nat, n \in Nat, p \in Nat, a \in Nat :
            /\ m = text[w + 1].line /\ n = text[df + 1].line
            /\ p = text[w + 1].at /\ a = text[df + 1].at
      BY <3>4 DEF Chars
    <3>6. PICK c \in Nat : c = Cardinality(Joins(m, n)) /\ (df - a) - (w - p) = c
      <4>1. m <= n /\ (df - a) - (w - p) = Cardinality(Joins(m, n))
        BY <3>2, <3>3, <3>5 DEF ParseInv, OffsetsDrift
      <4>2. Cardinality(Joins(m, n)) \in Nat
        BY <4>1, JoinsFact
      <4> QED BY <4>1, <4>2
    <3>7. a - at + c = (df - x) + (p - A)
      BY <1>29, <3>1, <3>6
    <3>8. SUFFICES /\ a - at + c >= 0
                   /\ \A i \in InkIn(df - (a - at + c), df) : n \in HeadingLines /\ text[i + 1].line = n
      BY <1>4, <1>21, <3>1, <3>5, <3>6 DEF Near
    <3>9. \A i \in Nat : x <= i /\ i < df => text[i + 1].kind = "space"
      <4> SUFFICES ASSUME NEW i \in Nat, x <= i, i < df, text[i + 1].kind # "space" PROVE FALSE
        OBVIOUS
      <4>1. i < w + e
        BY <3>3, <1>29, <1>30
      <4>2. d.from <= i
        BY <1>23, <2>1, <4>1
      <4> QED BY <3>1, <4>2
    <3>10. CASE p = A
      <4>1. a - at + c = df - x /\ df - x >= 0 /\ df - (df - x) = x
        <5>1. p - A = 0 /\ x <= df
          BY <3>1, <3>10
        <5>2. (df - x) + 0 = df - x /\ df - x >= 0 /\ df - (df - x) = x
          BY <1>29, <5>1
        <5> QED BY <3>7, <5>1, <5>2
      <4>2. InkIn(x, df) = {}
        <5>1. \A i \in x..df - 1 : i \in Nat /\ x <= i /\ i < df
          BY <1>29, <3>1
        <5> QED BY <3>9, <5>1 DEF InkIn
      <4> QED BY <4>1, <4>2
    <3>11. ASSUME NEW h \in HeadingLines, NEW v \in Nat, v <= w, p = A + v,
                  \A i \in w - v .. (w + L) - 1 : text[i + 1].line = h
           PROVE  /\ a - at + c >= 0
                  /\ \A i \in InkIn(df - (a - at + c), df) : n \in HeadingLines /\ text[i + 1].line = n
      <4>1. a - at + c = (df - x) + v /\ (df - x) + v >= 0 /\ df - ((df - x) + v) = x - v
        BY <1>29, <3>1, <3>7, <3>11
      <4>2. \A i \in x - v .. df - 1 : i \in w - v .. (w + L) - 1
        BY <1>29, <1>30, <3>1, <3>3
      <4>3. df \in w - v .. (w + L) - 1
        BY <1>29, <1>30, <3>1, <3>3
      <4>4. n = h
        BY <3>5, <3>11, <4>3
      <4>5. \A i \in InkIn(x - v, df) : text[i + 1].line = h
        BY <3>11, <4>2 DEF InkIn
      <4> QED BY <4>1, <4>4, <4>5
    <3>12. Located(text, b)
      BY <1>4 DEF ParseInv
    <3>13. \/ p = A
           \/ \E h \in HeadingLines : \E v \in Nat :
                /\ v <= w /\ p = A + v /\ \A i \in w - v .. (w + L) - 1 : text[i + 1].line = h
      BY <1>21, <3>1, <3>5, <3>12 DEF Located
    <3> QED
      BY <3>10, <3>11, <3>13
  <2>2. PICK ds : ds = drafts'
    OBVIOUS
  <2>3. ASSUME NEW k \in DOMAIN ds PROVE Near(ds[k])
    <3>1. CASE k \in DOMAIN drafts
      <4>1. ds[k] = drafts[k]
        BY <1>12, <2>2, <3>1
      <4> QED
        BY <3>1, <4>1 DEF ChunkInv, OffsetsAreNear, Near
    <3>2. CASE k \notin DOMAIN drafts
      <4>1. PICK d \in Drafts : Drafted(b, e, d) /\ ds[k] = d
        BY <1>7, <1>13, <2>2, <3>2
      <4> QED
        BY <2>1, <4>1
    <3> QED
      BY <3>1, <3>2
  <2> QED
    BY <1>1, <2>2, <2>3, NearAfter
<1> QED
  BY <1>1, <1>15, <1>16, <1>18, <1>25, <1>26, <1>27 DEF ChunkInv

(* The chunker ends when every block is cut. *)
LEMMA EndChunkingKeeps == ParseInv /\ ChunkInv /\ EndChunking => ParseInv' /\ ChunkInv'
<1> SUFFICES ASSUME ParseInv, ChunkInv, EndChunking PROVE ParseInv' /\ ChunkInv'
  OBVIOUS
<1>1. /\ lines' = lines /\ headed' = headed /\ line' = line /\ text' = text /\ headings' = headings
      /\ offset' = offset /\ paragraph' = paragraph /\ blocks' = blocks /\ block' = block /\ start' = start /\ drafts' = drafts
      /\ stage = "chunk" /\ stage' = "chunked"
  BY DEF EndChunking
<1>2. block = Len(blocks) + 1 /\ ~(block <= Len(blocks))
  <2>1. block \in 1..Len(blocks) + 1 /\ block > Len(blocks)
    BY DEF EndChunking, ParseInv, ParsingTypeOK
  <2>2. Len(blocks) \in Nat /\ block \in Nat
    BY ChunkTypes
  <2> QED BY <2>1, <2>2
<1>3. start = 0
  <2>1. ~(start > 0) /\ start \in Nat
    BY <1>2 DEF ChunkInv, WindowIsInside, ParseInv, ParsingTypeOK
  <2> QED BY <2>1
<1>4. ParsingTypeOK'
  BY <1>1 DEF ParseInv, ParsingTypeOK
<1>5. HeadingsAreOpen' /\ ParagraphIsInk' /\ Settled' = Settled /\ Pathed(text, blocks)'
  BY <1>1 DEF ParseInv, HeadingsAreOpen, ParagraphIsInk, Settled, Pathed, PathFits, Enclosing, Encloses,
     HeadingLines, NoLevelSkipped, InkOf
<1>a. OffsetsDrift(text, line, offset)' /\ (\A k \in DOMAIN blocks : Located(text, blocks[k]))'
  <2>1. PICK u, bs, n, off : u = text /\ bs = blocks /\ n = line /\ off = offset
    OBVIOUS
  <2>2. OffsetsDrift(u, n, off) /\ \A k \in DOMAIN bs : Located(u, bs[k])
    BY <2>1 DEF ParseInv
  <2> QED
    BY <1>1, <2>1, <2>2, OffsetsAfter
<1>6. ParseInv'
  BY <1>1, <1>4, <1>5, <1>a DEF ParseInv, Ordered, Holding, InkOf, WrittenIn
<1>7. WindowIsInside' /\ LastDraftIsBefore'
  BY <1>1, <1>3 DEF WindowIsInside, LastDraftIsBefore
<1>8. DraftsAreInside' /\ DraftsHoldTheInk' /\ ChunksAdvance'
  BY <1>1 DEF ChunkInv, DraftsAreInside, DraftsHoldTheInk, ChunksAdvance, Inside, Reached, InkOf, InkIn,
     GapsAreShort
<1>9. OffsetsAreNear'
  <2>1. PICK ds : ds = drafts
    OBVIOUS
  <2>2. \A k \in DOMAIN ds : Near(ds[k])
    BY <2>1 DEF ChunkInv, OffsetsAreNear, Near
  <2> QED
    BY <1>1, <2>1, <2>2, NearAfter
<1> QED
  BY <1>1, <1>2, <1>6, <1>7, <1>8, <1>9 DEF ChunkInv

(* Nothing is read. *)
LEMMA Begins == ParsingInit => ParseInv /\ ChunkInv
<1> SUFFICES ASSUME ParsingInit PROVE ParseInv /\ ChunkInv
  OBVIOUS
<1>1. /\ stage = "parse" /\ lines \in Inputs /\ headed \in BOOLEAN
      /\ line = 0 /\ offset = 0 /\ text = <<>> /\ headings = <<>> /\ paragraph = -1 /\ blocks = <<>>
      /\ block = 1 /\ start = 0 /\ drafts = <<>>
  BY DEF ParsingInit
<1>2. /\ DOMAIN text = {} /\ DOMAIN blocks = {} /\ DOMAIN headings = {} /\ DOMAIN drafts = {}
      /\ Len(text) = 0 /\ Len(blocks) = 0 /\ Len(drafts) = 0
  BY <1>1
<1>3. lines \in Seq(Line)
  BY <1>1, LineAssumption DEF Line
<1>4. ParsingTypeOK
  <2>1. Len(lines) \in Nat
    BY <1>3
  <2>2. <<>> \in Seq(Chars) /\ <<>> \in Seq(Nat) /\ <<>> \in Seq(Blocks) /\ <<>> \in Seq(Drafts)
    OBVIOUS
  <2> QED BY <1>1, <1>2, <2>1, <2>2 DEF ParsingTypeOK
<1>5. WrittenIn(text, 0, 0) = {} /\ Settled = 0
  BY <1>1, <1>2 DEF WrittenIn, Settled
<1>6. Ordered(text, blocks, Settled) /\ Holding(text, blocks, Settled) /\ Pathed(text, blocks) /\ ParagraphIsInk
      /\ OffsetsDrift(text, line, offset) /\ \A k \in DOMAIN blocks : Located(text, blocks[k])
  BY <1>1, <1>2, <1>5 DEF Ordered, Holding, Pathed, ParagraphIsInk, OffsetsDrift
<1>7. HeadingsAreOpen
  <2>1. ToSet(headings) = {}
    BY <1>2 DEF ToSet
  <2>2. Enclosing(0) = {}
    <3>1. HeadingLines \subseteq Nat \ {0}
      BY <1>3 DEF HeadingLines
    <3>2. \A h \in HeadingLines : ~(h < 0) /\ h # 0
      BY <3>1
    <3> QED BY <3>2 DEF Enclosing, Encloses
  <2> QED
    BY <1>1, <1>2, <2>1, <2>2 DEF HeadingsAreOpen, PathFits
<1>8. WindowIsInside /\ DraftsAreInside /\ DraftsHoldTheInk /\ LastDraftIsBefore /\ ChunksAdvance /\ OffsetsAreNear
  BY <1>1, <1>2 DEF WindowIsInside, DraftsAreInside, DraftsHoldTheInk, LastDraftIsBefore, ChunksAdvance, OffsetsAreNear
<1> QED
  BY <1>1, <1>4, <1>6, <1>7, <1>8 DEF ParseInv, ChunkInv

(* Every step of parser and chunker keeps both invariants. *)
LEMMA ParsingInductive == ParseInv /\ ChunkInv /\ [ParsingNext]_parsingVars => ParseInv' /\ ChunkInv'
<1> SUFFICES ASSUME ParseInv, ChunkInv, [ParsingNext]_parsingVars PROVE ParseInv' /\ ChunkInv'
  OBVIOUS
<1>1. stage = "parse" => drafts = <<>> /\ start = 0 /\ block = 1
  BY DEF ParseInv, ParsingTypeOK
<1>2. CASE ReadHeading
  <2>1. ParseInv'
    BY <1>2, ReadHeadingKeeps
  <2>2. drafts' = <<>> /\ start' = 0 /\ block' = 1 /\ stage' # "chunked"
    BY <1>1, <1>2 DEF ReadHeading, ReadLine
  <2> QED BY <2>1, <2>2, Uncut DEF ParseInv
<1>3. CASE ReadText
  <2>1. ParseInv'
    BY <1>3, ReadTextKeeps
  <2>2. drafts' = <<>> /\ start' = 0 /\ block' = 1 /\ stage' # "chunked"
    BY <1>1, <1>3 DEF ReadText, ReadLine
  <2> QED BY <2>1, <2>2, Uncut DEF ParseInv
<1>4. CASE ReadBlank
  <2>1. ParseInv'
    BY <1>4, ReadBlankKeeps
  <2>2. drafts' = <<>> /\ start' = 0 /\ block' = 1 /\ stage' # "chunked"
    BY <1>1, <1>4 DEF ReadBlank, ReadLine
  <2> QED BY <2>1, <2>2, Uncut DEF ParseInv
<1>9. CASE ReadParagraph
  <2>1. ParseInv'
    BY <1>9, ReadParagraphKeeps
  <2>2. drafts' = <<>> /\ start' = 0 /\ block' = 1 /\ stage' # "chunked"
    BY <1>1, <1>9 DEF ReadParagraph, ReadLine
  <2> QED BY <2>1, <2>2, Uncut DEF ParseInv
<1>5. CASE EndParsing
  <2>1. ParseInv'
    BY <1>5, EndParsingKeeps
  <2>2. drafts' = <<>> /\ start' = 0 /\ block' = 1 /\ stage' # "chunked"
    BY <1>1, <1>5 DEF EndParsing
  <2> QED BY <2>1, <2>2, Uncut DEF ParseInv
<1>6. CASE Cut
  BY <1>6, CutKeepsParsing, CutKeepsChunking
<1>7. CASE EndChunking
  BY <1>7, EndChunkingKeeps
<1>8. CASE UNCHANGED parsingVars
  <2>1. /\ lines' = lines /\ headed' = headed /\ line' = line /\ text' = text /\ headings' = headings
        /\ paragraph' = paragraph /\ blocks' = blocks /\ block' = block /\ start' = start /\ drafts' = drafts
        /\ stage' = stage /\ offset' = offset
    BY <1>8 DEF parsingVars
  <2>2. ParsingTypeOK' /\ HeadingsAreOpen' /\ ParagraphIsInk' /\ Settled' = Settled /\ Pathed(text, blocks)'
    BY <2>1 DEF ParseInv, ParsingTypeOK, HeadingsAreOpen, ParagraphIsInk, Settled, Pathed, PathFits, Enclosing,
       Encloses, HeadingLines, NoLevelSkipped, InkOf
  <2>6. PICK u, bs, n, off, ds : u = text /\ bs = blocks /\ n = line /\ off = offset /\ ds = drafts
    OBVIOUS
  <2>7. OffsetsDrift(u, n, off) /\ \A k \in DOMAIN bs : Located(u, bs[k])
    BY <2>6 DEF ParseInv
  <2>8. OffsetsDrift(text, line, offset)' /\ (\A k \in DOMAIN blocks : Located(text, blocks[k]))'
    BY <2>1, <2>6, <2>7, OffsetsAfter
  <2>3. ParseInv'
    BY <2>1, <2>2, <2>8 DEF ParseInv, Ordered, Holding, InkOf, WrittenIn
  <2>4. WindowIsInside' /\ LastDraftIsBefore' /\ (stage' = "chunked" => block' = Len(blocks') + 1)
    BY <2>1 DEF ChunkInv, WindowIsInside, LastDraftIsBefore, GapsAreShort, Length, InkIn
  <2>5. DraftsAreInside' /\ DraftsHoldTheInk' /\ ChunksAdvance'
    BY <2>1 DEF ChunkInv, DraftsAreInside, DraftsHoldTheInk, ChunksAdvance, Inside, Reached, InkOf, InkIn,
       GapsAreShort
  <2>9. OffsetsAreNear'
    <3>1. \A k \in DOMAIN ds : Near(ds[k])
      BY <2>6 DEF ChunkInv, OffsetsAreNear, Near
    <3> QED
      BY <2>1, <2>6, <3>1, NearAfter
  <2> QED
    BY <2>3, <2>4, <2>5, <2>9 DEF ChunkInv
<1> QED
  BY <1>2, <1>3, <1>4, <1>5, <1>6, <1>7, <1>8, <1>9 DEF ParsingNext

(* From the first line to the last window: blocks and drafts are in the order of
   the document, hold what is settled of it, and stand under their headings. *)
THEOREM ParsingInvariant == ParsingSpec => [](ParseInv /\ ChunkInv)
<1>1. ParsingInit => ParseInv /\ ChunkInv
  BY Begins
<1>2. (ParseInv /\ ChunkInv) /\ [ParsingNext]_parsingVars => (ParseInv /\ ChunkInv)'
  BY ParsingInductive
<1> QED
  BY <1>1, <1>2, PTL DEF ParsingSpec

(* When every block is cut, what is in a block is in a draft. *)
LEMMA ChunkedIsWhole == ParseInv /\ ChunkInv => NothingIsLost
<1> SUFFICES ASSUME ParseInv, ChunkInv, stage = "chunked"
             PROVE  {i \in 0..Len(text) - 1 : text[i + 1].kind = "ink"} =
                      UNION {InkIn(drafts[k].from, drafts[k].to) : k \in DOMAIN drafts}
  BY DEF NothingIsLost
<1>1. block = Len(blocks) + 1 /\ Settled = Len(text)
  BY DEF ChunkInv, ParseInv, ParsingTypeOK, Settled
<1>2. Holding(text, blocks, Len(text))
  BY <1>1 DEF ParseInv
<1>3. ASSUME NEW i \in 0..Len(text) - 1, text[i + 1].kind = "ink"
      PROVE  \E m \in DOMAIN drafts : i \in InkIn(drafts[m].from, drafts[m].to)
  <2>1. i \in WrittenIn(text, 0, Len(text))
    BY <1>3 DEF WrittenIn
  <2>2. PICK k \in DOMAIN blocks : i \in InkOf(text, blocks[k].from, blocks[k].to)
    BY <1>2, <2>1 DEF Holding
  <2>3. k < block
    BY <1>1, ChunkTypes
  <2> QED
    BY <2>2, <2>3 DEF ChunkInv, DraftsHoldTheInk, InkIn, InkOf
<1>4. ASSUME NEW k \in DOMAIN drafts, NEW i \in InkIn(drafts[k].from, drafts[k].to)
      PROVE  i \in 0..Len(text) - 1 /\ text[i + 1].kind = "ink"
  <2>1. Inside(drafts[k])
    BY DEF ChunkInv, DraftsAreInside
  <2>2. PICK m \in DOMAIN blocks : m = drafts[k].block /\ blocks[m].from <= drafts[k].from /\ drafts[k].to <= blocks[m].to
    BY <2>1 DEF Inside
  <2>3. drafts[k].from \in Nat /\ drafts[k].to \in Nat /\ blocks[m].from \in Nat /\ blocks[m].to \in Nat
    BY ChunkTypes, DraftType, BlockType
  <2>4. i \in InkOf(text, blocks[m].from, blocks[m].to)
    BY <2>2, <2>3 DEF InkIn, InkOf
  <2>5. i \in WrittenIn(text, 0, Len(text))
    BY <1>2, <2>4 DEF Holding
  <2> QED
    BY <2>5 DEF WrittenIn
<1> QED
  BY <1>3, <1>4

(* The chunks of a document contain what is written in it and nothing else, for
   every document and every chunk size and overlap; written is what is neither
   white space nor a number sign that the pattern takes off an end of a heading. *)
THEOREM TextIsNeverLost == ParsingSpec => []NothingIsLost
<1> QED
  BY ParsingInvariant, ChunkedIsWhole, PTL

(* No chunk is longer than ingestion_chunk_size, and the chunks follow the
   document with at most the overlap repeated; where no gap is longer than the way
   between windows, each goes on beyond the one before it. *)
THEOREM ChunksAlwaysAdvance == ParsingSpec => []ChunksAdvance
<1>1. ChunkInv => ChunksAdvance
  BY DEF ChunkInv
<1> QED
  BY <1>1, ParsingInvariant, PTL

(* The offset recorded for a chunk is at or before its text when the newlines that
   the parser added before it in its block are counted, and only white space lies
   between; in a heading the beginning of its line may: number signs and title. *)
THEOREM OffsetsStayNear == ParsingSpec => []OffsetsAreNear
<1>1. ChunkInv => OffsetsAreNear
  BY DEF ChunkInv
<1> QED
  BY <1>1, ParsingInvariant, PTL

(* In a document whose headings skip no level, the section path of a block is the
   list of the headings above it, whatever the depth and the order of headings. *)
THEOREM PathsAlwaysEnclose == ParsingSpec => []PathIsEnclosing
<1>1. ParseInv => PathIsEnclosing
  BY DEF ParseInv, Pathed, PathFits, PathIsEnclosing
<1> QED
  BY <1>1, ParsingInvariant, PTL

-----------------------------------------------------------------------------
(* Fusion *)

(* What a list adds to a chunk's score once its first n hits were read. *)
Placed(h, c) == CHOOSE i \in DOMAIN h : h[i] = c
Part(h, n, c) ==
  IF \E i \in DOMAIN h : i <= n /\ h[i] = c THEN Reciprocal(Placed(h, c)) ELSE 0

(* How many hits of the list at this position of Channels were read. *)
ReadOf(ch) == IF channel = ch THEN rank
              ELSE IF ch < channel THEN Len(hits[Channels[ch]]) ELSE 0

(* The score is the sum of what was read, and the answer is the sorted list. *)
FusionTypeOK ==
  /\ phase \in {"fuse", "fused"} /\ hits \in [{"dense", "sparse"} -> Hits]
  /\ channel \in 1..3 /\ rank \in Nat
  /\ channel <= 2 => rank <= Len(hits[Channels[channel]])
  /\ score \in [Chunks -> Nat]

ScoreIsRead ==
  \A c \in Chunks :
    score[c] = Part(hits["dense"], ReadOf(1), c) + Part(hits["sparse"], ReadOf(2), c)

FusedIsTop ==
  phase = "fused" => channel = 3 /\ \E s \in SetToSeqs(Found) :
                       /\ \A i, j \in DOMAIN s : i < j => Before(s[i], s[j])
                       /\ fused = Top(s)

FusionInv == FusionTypeOK /\ ScoreIsRead /\ FusedIsTop

-----------------------------------------------------------------------------
(* The contribution of rank n is the whole number that K + n of them make a Unit of. *)
LEMMA ReciprocalFact ==
  ASSUME NEW n \in 1..MaxHits
  PROVE  /\ Reciprocal(n) \in Nat \ {0}
         /\ (K + n) * Reciprocal(n) = Unit
<1> DEFINE d == K + n
           q == Unit \div d
<1>1. d \in Nat /\ d > 0 /\ Unit \in Nat /\ Unit > 0 /\ Unit % d = 0
  BY FusionAssumption
<1> HIDE DEF d
<1>2. q \in Int /\ d * q = Unit
  BY <1>1
<1> HIDE DEF q
<1>3. q > 0
  BY <1>1, <1>2, SMTT(30)
<1> QED
  BY <1>2, <1>3 DEF Reciprocal, q, d

(* In lists of at most K + 1 hits two contributions outweigh any one. *)
LEMMA TwoOutweighOne ==
  ASSUME NEW a \in 1..MaxHits, NEW b \in 1..MaxHits, NEW e \in 1..MaxHits, MaxHits <= K + 1
  PROVE  Reciprocal(a) + Reciprocal(b) > Reciprocal(e)
<1>1. ASSUME NEW k \in Nat, NEW x \in Nat, NEW y \in Nat, NEW p \in Nat \ {0}, NEW q \in Nat,
             k > 0, x >= 1, x <= k + 1, y >= 1, (k + x) * p = (k + y) * q
      PROVE  2 * p > q
  <2>1. SUFFICES ASSUME q >= 2 * p PROVE FALSE
    BY <1>1
  <2>2. PICK u \in Nat : q = 2 * p + u
    <3>1. q - 2 * p \in Nat /\ q = 2 * p + (q - 2 * p)
      BY <2>1
    <3> QED BY <3>1
  <2>3. (k + y) * q = k * q + y * q /\ k * q \in Nat /\ y * q \in Nat
    BY <1>1
  <2>4. y * q >= q
    BY <1>1
  <2>5. (k + x) * p = k * p + x * p /\ k * p \in Nat /\ x * p \in Nat
    BY <1>1
  <2>6. x * p <= (k + 1) * p /\ (k + 1) * p = k * p + p
    BY <1>1
  <2>7. k * q = 2 * (k * p) + k * u /\ k * u \in Nat
    BY <1>1, <2>2
  <2> QED
    BY <1>1, <2>1, <2>3, <2>4, <2>5, <2>6, <2>7
<1>2. /\ K \in Nat /\ K > 0 /\ a \in Nat /\ b \in Nat /\ e \in Nat
      /\ a >= 1 /\ b >= 1 /\ e >= 1 /\ a <= K + 1 /\ b <= K + 1
  BY FusionAssumption
<1>3. 2 * Reciprocal(a) > Reciprocal(e)
  BY <1>1, <1>2, ReciprocalFact
<1>4. 2 * Reciprocal(b) > Reciprocal(e)
  BY <1>1, <1>2, ReciprocalFact
<1> QED
  BY <1>3, <1>4, ReciprocalFact

(* A chunk is once in a list. *)
LEMMA PlacedFact ==
  ASSUME NEW h \in Hits, NEW i \in DOMAIN h
  PROVE  Placed(h, h[i]) = i /\ i \in 1..MaxHits /\ h[i] \in Chunks
<1>1. h \in Seq(Chunks) /\ Len(h) <= MaxHits /\ IsInjective(h)
  BY FusionAssumption
<1>2. \A j \in DOMAIN h : h[j] = h[i] => j = i
  BY <1>1 DEF IsInjective
<1>3. i \in 1..MaxHits /\ h[i] \in Chunks
  BY <1>1, FusionAssumption
<1> QED
  BY <1>2, <1>3 DEF Placed

(* What a list adds is a natural number: nothing before its first hit is read,
   and one reciprocal, to the chunk that is read, with each hit. *)
LEMMA PartFact ==
  ASSUME NEW h \in Hits, NEW c \in Chunks
  PROVE  /\ Part(h, 0, c) = 0
         /\ \A n \in 0..Len(h) : Part(h, n, c) \in Nat
         /\ \A n \in 0..Len(h) - 1 :
              Part(h, n + 1, c) = Part(h, n, c) + IF h[n + 1] = c THEN Reciprocal(n + 1) ELSE 0
<1>1. h \in Seq(Chunks) /\ Len(h) \in Nat /\ DOMAIN h = 1..Len(h)
  BY FusionAssumption
<1>2. \A n \in 0..Len(h) : Part(h, n, c) \in Nat
  BY PlacedFact, ReciprocalFact DEF Part
<1>3. ASSUME NEW n \in 0..Len(h) - 1
      PROVE  Part(h, n + 1, c) = Part(h, n, c) + IF h[n + 1] = c THEN Reciprocal(n + 1) ELSE 0
  <2>0. n + 1 \in DOMAIN h /\ n \in 0..Len(h) /\ Part(h, n, c) \in Nat
    BY <1>1, <1>2
  <2>1. CASE h[n + 1] = c
    <3>1. Placed(h, c) = n + 1
      BY <2>0, <2>1, PlacedFact
    <3>2. Part(h, n, c) = 0
      BY <1>1, <2>0, <3>1, PlacedFact DEF Part
    <3>3. Part(h, n + 1, c) = Reciprocal(n + 1)
      BY <2>0, <2>1, <3>1 DEF Part
    <3>4. Reciprocal(n + 1) \in Nat
      BY <2>0, PlacedFact, ReciprocalFact
    <3> QED
      BY <2>1, <3>2, <3>3, <3>4
  <2>2. CASE h[n + 1] # c
    <3>1. (\E i \in DOMAIN h : i <= n + 1 /\ h[i] = c) <=> (\E i \in DOMAIN h : i <= n /\ h[i] = c)
      BY <1>1, <2>0, <2>2
    <3>2. Part(h, n + 1, c) = Part(h, n, c)
      BY <3>1 DEF Part
    <3> QED
      BY <2>0, <2>2, <3>2
  <2> QED
    BY <2>1, <2>2
<1>4. Part(h, 0, c) = 0
  BY <1>1 DEF Part
<1> QED
  BY <1>2, <1>3, <1>4

-----------------------------------------------------------------------------
(* Every step keeps the score the sum of what was read. *)

(* Nothing was read. *)
LEMMA FusionInitially == FusionInit => FusionInv
<1> SUFFICES ASSUME FusionInit PROVE FusionInv
  OBVIOUS
<1>1. hits["dense"] \in Hits /\ hits["sparse"] \in Hits
  BY DEF FusionInit
<1>2. Channels[1] = "dense"
  BY DEF Channels
<1>3. Len(hits["dense"]) \in Nat
  BY <1>1, FusionAssumption
<1>4. FusionTypeOK
  BY <1>1, <1>2, <1>3 DEF FusionInit, FusionTypeOK
<1>5. ScoreIsRead
  BY <1>1, PartFact DEF FusionInit, ScoreIsRead, ReadOf
<1> QED
  BY <1>4, <1>5 DEF FusionInv, FusedIsTop, FusionInit

(* A hit adds its part to its chunk and to no other. *)
LEMMA AddHitKeeps == FusionInv /\ AddHit => FusionInv'
<1> SUFFICES ASSUME FusionInv, AddHit PROVE FusionInv'
  OBVIOUS
<1> USE DEF FusionInv, FusionTypeOK
<1>1. PICK h \in Hits : h = hits[Channels[channel]]
  BY DEF AddHit, Channels
<1>0. rank + 1 \in DOMAIN h
  BY <1>1, FusionAssumption DEF AddHit
<1>2. PICK d \in Chunks : d = h[rank + 1]
  <2>1. h[rank + 1] \in Chunks
    BY <1>0, PlacedFact
  <2> QED
    BY <2>1
<1>3. /\ h \in Seq(Chunks) /\ Len(h) \in Nat /\ rank + 1 \in DOMAIN h
      /\ rank \in 0..Len(h) - 1 /\ rank + 1 \in 1..MaxHits
  BY <1>0, <1>1, PlacedFact, FusionAssumption DEF AddHit
<1>4. Reciprocal(rank + 1) \in Nat
  BY <1>3, ReciprocalFact
<1>5. score' = [score EXCEPT ![d] = @ + Reciprocal(rank + 1)]
  BY <1>1, <1>2 DEF AddHit
<1>6. /\ score' \in [Chunks -> Nat]
      /\ \A c \in Chunks : score'[c] = score[c] + IF d = c THEN Reciprocal(rank + 1) ELSE 0
  BY <1>4, <1>5
<1>7. /\ phase' = phase /\ hits' = hits /\ channel' = channel /\ fused' = fused
      /\ phase = "fuse" /\ channel \in 1..2 /\ rank' = rank + 1 /\ rank < Len(h)
  BY <1>1 DEF AddHit
<1>8. FusionTypeOK'
  BY <1>1, <1>3, <1>6, <1>7 DEF Channels
<1>9. hits["dense"] \in Hits /\ hits["sparse"] \in Hits /\ Channels[1] = "dense" /\ Channels[2] = "sparse"
  BY DEF Channels
<1>10. ASSUME NEW c \in Chunks
       PROVE  score'[c] = Part(hits["dense"], ReadOf(1)', c) + Part(hits["sparse"], ReadOf(2)', c)
  <2>0. Part(h, rank + 1, c) = Part(h, rank, c) + IF d = c THEN Reciprocal(rank + 1) ELSE 0
    BY <1>2, <1>3, PartFact
  <2>a. /\ score[c] = Part(hits["dense"], ReadOf(1), c) + Part(hits["sparse"], ReadOf(2), c)
        /\ Part(h, rank, c) \in Nat
    BY <1>3, PartFact DEF ScoreIsRead
  <2>1. CASE channel = 1
    <3>1. /\ ReadOf(1) = rank /\ ReadOf(1)' = rank + 1 /\ ReadOf(2) = 0 /\ ReadOf(2)' = 0
          /\ hits["dense"] = h
      BY <1>1, <1>7, <1>9, <2>1 DEF ReadOf
    <3>2. Part(hits["sparse"], 0, c) = 0
      BY <1>9, PartFact
    <3> QED
      BY <1>4, <1>6, <2>0, <2>a, <3>1, <3>2
  <2>2. CASE channel = 2
    <3>1. /\ ReadOf(2) = rank /\ ReadOf(2)' = rank + 1
          /\ ReadOf(1) = Len(hits["dense"]) /\ ReadOf(1)' = Len(hits["dense"])
          /\ hits["sparse"] = h
      BY <1>1, <1>7, <1>9, <2>2 DEF ReadOf
    <3>2. Part(hits["dense"], Len(hits["dense"]), c) \in Nat
      BY <1>9, PartFact, FusionAssumption
    <3> QED
      BY <1>4, <1>6, <2>0, <2>a, <3>1, <3>2
  <2> QED
    BY <1>7, <2>1, <2>2
<1>11. ScoreIsRead'
  BY <1>7, <1>10 DEF ScoreIsRead
<1>12. FusedIsTop'
  BY <1>7 DEF FusedIsTop
<1> QED
  BY <1>8, <1>11, <1>12

(* All of a list was read when the next one begins. *)
LEMMA NextChannelKeeps == FusionInv /\ NextChannel => FusionInv'
<1> SUFFICES ASSUME FusionInv, NextChannel PROVE FusionInv'
  OBVIOUS
<1> USE DEF FusionInv, FusionTypeOK
<1>1. /\ phase' = phase /\ hits' = hits /\ score' = score /\ fused' = fused /\ phase = "fuse"
      /\ channel \in 1..2 /\ channel' = channel + 1 /\ rank' = 0
      /\ rank = Len(hits[Channels[channel]])
  BY DEF NextChannel
<1>2. /\ hits["dense"] \in Hits /\ hits["sparse"] \in Hits
      /\ Channels[1] = "dense" /\ Channels[2] = "sparse"
  BY DEF Channels
<1>3. Len(hits["dense"]) \in Nat /\ Len(hits["sparse"]) \in Nat
  BY <1>2, FusionAssumption
<1>4. FusionTypeOK'
  BY <1>1, <1>2, <1>3
<1>5. ReadOf(1)' = ReadOf(1) /\ ReadOf(2)' = ReadOf(2)
  BY <1>1, <1>2 DEF ReadOf
<1>6. ScoreIsRead'
  BY <1>1, <1>5 DEF ScoreIsRead
<1> QED
  BY <1>1, <1>4, <1>6 DEF FusedIsTop

(* The sort changes no score. *)
LEMMA SortKeeps == FusionInv /\ Sort => FusionInv'
<1> SUFFICES ASSUME FusionInv, Sort PROVE FusionInv'
  OBVIOUS
<1> USE DEF FusionInv, FusionTypeOK
<1>1. /\ phase' = "fused" /\ hits' = hits /\ score' = score /\ channel' = channel /\ rank' = rank
      /\ channel = 3
  BY DEF Sort
<1>2. FusionTypeOK'
  BY <1>1
<1>3. ScoreIsRead'
  BY <1>1 DEF ScoreIsRead, ReadOf
<1>4. FusedIsTop'
  <2>1. PICK s \in SetToSeqs(Found) :
          (\A i, j \in DOMAIN s : i < j => Before(s[i], s[j])) /\ fused' = Top(s)
    BY DEF Sort
  <2>2. Found' = Found /\ \A c, d : Before(c, d)' <=> Before(c, d)
    BY <1>1 DEF Found, Before
  <2>3. \E t \in SetToSeqs(Found') :
          (\A i, j \in DOMAIN t : i < j => Before(t[i], t[j])') /\ fused' = Top(t)
    BY <2>1, <2>2
  <2> QED
    BY <1>1, <2>3 DEF FusedIsTop
<1> QED
  BY <1>2, <1>3, <1>4

(* So it is in every state. *)
LEMMA FusionInductive == FusionSpec => []FusionInv
<1>1. FusionInv /\ UNCHANGED fusionVars => FusionInv'
  BY DEF FusionInv, FusionTypeOK, ScoreIsRead, ReadOf, FusedIsTop, Found, Before, fusionVars
<1>2. FusionInv /\ [FusionNext]_fusionVars => FusionInv'
  BY <1>1, AddHitKeeps, NextChannelKeeps, SortKeeps DEF FusionNext
<1> QED
  BY FusionInitially, <1>2, PTL DEF FusionSpec

-----------------------------------------------------------------------------
(* What the answer is. *)

(* When both lists are read, a score is the sum of the reciprocal ranks. *)
LEMMA ScoreIsTotal ==
  ASSUME FusionInv, channel = 3, NEW c \in Chunks
  PROVE  score[c] = Total(c)
<1> DEFINE part(ch) == IF In(c, ch) THEN Reciprocal(Place(c, ch)) ELSE 0
<1>1. ASSUME NEW ch \in {"dense", "sparse"}
      PROVE  Part(hits[ch], Len(hits[ch]), c) = part(ch)
  <2>1. hits[ch] \in Seq(Chunks)
    BY FusionAssumption DEF FusionInv, FusionTypeOK
  <2>2. In(c, ch) <=> \E i \in DOMAIN hits[ch] : i <= Len(hits[ch]) /\ hits[ch][i] = c
    BY <2>1 DEF In, ToSet
  <2>3. Placed(hits[ch], c) = Place(c, ch)
    BY DEF Placed, Place
  <2> QED
    BY <2>2, <2>3 DEF Part
<1>2. ReadOf(1) = Len(hits["dense"]) /\ ReadOf(2) = Len(hits["sparse"])
  BY DEF ReadOf, Channels
<1>3. score[c] = part("dense") + part("sparse")
  BY <1>1, <1>2 DEF FusionInv, ScoreIsRead
<1> QED
  BY <1>3 DEF Total

(* The answer is the start of a list of all found chunks, the better before the
   worse: what the sort leaves of the order in which they were met. *)
LEMMA AnswerIsSorted ==
  ASSUME FusionInv, phase = "fused"
  PROVE  \E n \in Nat : \E s \in [1..n -> Found] :
           /\ \A c \in Found : \E i \in 1..n : s[i] = c
           /\ \A i, j \in 1..n : i < j => Better(s[i], s[j])
           /\ \A i \in 1..n : i <= TopK => i \in DOMAIN fused
           /\ Len(fused) \in Nat /\ DOMAIN fused = 1..Len(fused) /\ Len(fused) <= n /\ Len(fused) <= TopK
           /\ \A i \in DOMAIN fused : fused[i] = s[i]
<1>1. PICK s \in SetToSeqs(Found) :
        channel = 3 /\ (\A i, j \in DOMAIN s : i < j => Before(s[i], s[j])) /\ fused = Top(s)
  BY DEF FusionInv, FusedIsTop
<1> DEFINE n == Cardinality(Found)
<1>2. IsFiniteSet(Found) /\ n \in Nat
  BY FusionAssumption, FS_Subset, FS_CardinalityType DEF Found
<1>3. s \in [1..n -> Found] /\ \A i, j \in 1..n : i # j => s[i] # s[j]
  BY <1>1 DEF SetToSeqs
<1>4. Cardinality(1..n) = n
  BY <1>2, FS_Interval
<1>5. s \in Injection(1..n, Found)
  BY <1>3 DEF Injection, IsInjective
<1>6. s \in Surjection(1..n, Found)
  BY <1>2, <1>4, <1>5, FS_Injection
<1>7. \A c \in Found : \E i \in 1..n : s[i] = c
  BY <1>6 DEF Surjection
<1> HIDE DEF n
<1>8. \A i, j \in 1..n : i < j => Better(s[i], s[j])
  <2>1. \A c \in Found : score[c] = Total(c)
    BY <1>1, ScoreIsTotal DEF Found
  <2> QED
    BY <1>1, <1>3, <2>1 DEF Before, Better
<1>9. s \in Seq(Found) /\ Len(s) = n
  BY <1>2, <1>3
<1>10. /\ \A i \in 1..n : i <= TopK => i \in DOMAIN fused
       /\ Len(fused) \in Nat /\ DOMAIN fused = 1..Len(fused) /\ Len(fused) <= n /\ Len(fused) <= TopK
       /\ \A i \in DOMAIN fused : fused[i] = s[i]
  BY <1>1, <1>2, <1>9, FusionAssumption DEF Top
<1> QED
  BY <1>2, <1>3, <1>7, <1>8, <1>10

(* A chunk found by both channels precedes every chunk found by one of them
   only, in lists of at most K + 1 hits, for any lists, units and cut. *)
THEOREM BothAlwaysFirst == FusionSpec => []BothBeatsOne
<1>1. FusionInv => BothBeatsOne
  <2> SUFFICES ASSUME FusionInv, phase = "fused", MaxHits <= K + 1,
                      NEW c \in Chunks, NEW d \in Chunks, Both(c), ~Both(d),
                      NEW i \in DOMAIN fused, fused[i] = d
               PROVE  \E j \in 1..i - 1 : fused[j] = c
    BY DEF BothBeatsOne, Ahead
  <2>0. PICK n \in Nat : \E s \in [1..n -> Found] :
           /\ \A e \in Found : \E j \in 1..n : s[j] = e
           /\ \A k, j \in 1..n : k < j => Better(s[k], s[j])
           /\ Len(fused) \in Nat /\ DOMAIN fused = 1..Len(fused) /\ Len(fused) <= n
           /\ \A j \in DOMAIN fused : fused[j] = s[j]
    BY AnswerIsSorted
  <2>1. PICK s \in [1..n -> Found] :
           /\ \A e \in Found : \E j \in 1..n : s[j] = e
           /\ \A k, j \in 1..n : k < j => Better(s[k], s[j])
           /\ Len(fused) \in Nat /\ DOMAIN fused = 1..Len(fused) /\ Len(fused) <= n
           /\ \A j \in DOMAIN fused : fused[j] = s[j]
    BY <2>0
  <2>2. channel = 3
    BY DEF FusionInv, FusedIsTop
  <2>3. ASSUME NEW e \in Chunks, NEW ch \in {"dense", "sparse"}, In(e, ch)
        PROVE  Place(e, ch) \in 1..MaxHits
    <3>1. hits[ch] \in Hits
      BY DEF FusionInv, FusionTypeOK
    <3>2. PICK k \in DOMAIN hits[ch] : hits[ch][k] = e
      BY <2>3 DEF In, ToSet
    <3> QED
      BY <3>1, <3>2, PlacedFact DEF Place, Placed
  <2>4. PICK a \in 1..MaxHits, b \in 1..MaxHits : Total(c) = Reciprocal(a) + Reciprocal(b)
    BY <2>3 DEF Both, Total
  <2>5. Total(d) = 0 \/ \E e \in 1..MaxHits : Total(d) = Reciprocal(e)
    BY <2>3, ReciprocalFact DEF Both, Total
  <2>6. Total(c) > Total(d) /\ Total(c) > 0
    BY <2>4, <2>5, TwoOutweighOne, ReciprocalFact
  <2>7. c \in Found
    BY <2>2, <2>6, ScoreIsTotal DEF Found
  <2>8. PICK j \in 1..n : s[j] = c
    BY <2>1, <2>7
  <2>9. i \in 1..n /\ s[i] = d
    BY <2>1
  <2>10. Total(c) \in Int /\ Total(d) \in Int
    BY <2>4, <2>5, ReciprocalFact
  <2>11. ~(i < j) /\ i # j
    BY <2>1, <2>6, <2>8, <2>9, <2>10 DEF Better
  <2> QED
    BY <2>1, <2>8, <2>9, <2>11
<1> QED
  BY <1>1, FusionInductive, PTL

(* The answer is the found chunks in the order of their sums, ids deciding
   between equals, cut after final_top_k, for any lists and any settings. *)
THEOREM FusedAlwaysRanked == FusionSpec => []FusedIsRanked
<1>1. FusionInv => FusedIsRanked
  <2> SUFFICES ASSUME FusionInv, phase = "fused", NEW c \in Chunks,
                      NEW place, place = 1 + Cardinality({d \in Chunks : Total(d) > 0 /\ Better(d, c)})
               PROVE  IF Total(c) > 0 /\ place <= TopK
                        THEN place <= Len(fused) /\ fused[place] = c
                        ELSE ~(\E i \in DOMAIN fused : fused[i] = c)
    BY DEF FusedIsRanked
  <2>0. PICK n \in Nat : \E s \in [1..n -> Found] :
           /\ \A e \in Found : \E j \in 1..n : s[j] = e
           /\ \A k, j \in 1..n : k < j => Better(s[k], s[j])
           /\ \A j \in 1..n : j <= TopK => j \in DOMAIN fused
           /\ Len(fused) \in Nat /\ DOMAIN fused = 1..Len(fused) /\ Len(fused) <= n /\ Len(fused) <= TopK
           /\ \A j \in DOMAIN fused : fused[j] = s[j]
    BY AnswerIsSorted
  <2>1. PICK s \in [1..n -> Found] :
           /\ \A e \in Found : \E j \in 1..n : s[j] = e
           /\ \A k, j \in 1..n : k < j => Better(s[k], s[j])
           /\ \A j \in 1..n : j <= TopK => j \in DOMAIN fused
           /\ Len(fused) \in Nat /\ DOMAIN fused = 1..Len(fused) /\ Len(fused) <= n /\ Len(fused) <= TopK
           /\ \A j \in DOMAIN fused : fused[j] = s[j]
    BY <2>0
  <2>2. /\ Found = {d \in Chunks : Total(d) > 0}
        /\ \A d \in Chunks : Total(d) \in Nat
    <3>1. channel = 3 /\ score \in [Chunks -> Nat]
      BY DEF FusionInv, FusedIsTop, FusionTypeOK
    <3> QED
      BY <3>1, ScoreIsTotal DEF Found
  <2>3. ASSUME NEW i \in 1..n, s[i] = c
        PROVE  place = i
    <3>1. ASSUME NEW d \in Found
          PROVE  Better(d, c) <=> \E j \in 1..i - 1 : s[j] = d
      <4>1. PICK k \in 1..n : s[k] = d
        BY <2>1
      <4>2. k < i => Better(d, c)
        BY <2>1, <2>3, <4>1
      <4>3. k > i => ~Better(d, c)
        <5>1. k > i => Better(c, d)
          BY <2>1, <2>3, <4>1
        <5>2. c \in Nat /\ d \in Nat /\ Total(c) \in Nat /\ Total(d) \in Nat
          BY <2>2, FusionAssumption
        <5> QED
          BY <5>1, <5>2 DEF Better
      <4>4. k = i => ~Better(d, c)
        BY <2>2, <2>3, <4>1, FusionAssumption DEF Better
      <4>5. ASSUME NEW j \in 1..i - 1, s[j] = d PROVE Better(d, c)
        BY <2>1, <2>3, <4>5
      <4> QED
        BY <4>1, <4>2, <4>3, <4>4, <4>5
    <3>2. {d \in Chunks : Total(d) > 0 /\ Better(d, c)} = {d \in Found : \E j \in 1..i - 1 : s[j] = d}
      BY <2>2, <3>1
    <3> DEFINE ahead == {d \in Found : \E j \in 1..i - 1 : s[j] = d}
               f == [j \in 1..i - 1 |-> s[j]]
    <3>3. f \in Bijection(1..i - 1, ahead)
      <4>1. f \in [1..i - 1 -> ahead]
        OBVIOUS
      <4>2. ASSUME NEW j \in 1..i - 1, NEW k \in 1..i - 1, f[j] = f[k] PROVE j = k
        <5>1. \A x \in Found : ~Better(x, x)
          BY <2>2, FusionAssumption DEF Better
        <5>2. s[j] = s[k] /\ s[j] \in Found
          BY <4>2
        <5>3. ~(j < k) /\ ~(k < j)
          BY <2>1, <5>1, <5>2
        <5> QED
          BY <5>3
      <4>3. \A d \in ahead : \E j \in 1..i - 1 : f[j] = d
        OBVIOUS
      <4>4. f \in Injection(1..i - 1, ahead)
        BY <4>1, <4>2 DEF Injection, IsInjective
      <4>5. f \in Surjection(1..i - 1, ahead)
        BY <4>1, <4>3 DEF Surjection
      <4> QED
        BY <4>4, <4>5 DEF Bijection
    <3>4. Cardinality(ahead) = i - 1
      BY <3>3, FS_CountingElements DEF ExistsBijection
    <3>5. place = 1 + Cardinality(ahead)
      BY <3>2
    <3> HIDE DEF ahead
    <3> QED
      BY <3>4, <3>5
  <2>4. CASE Total(c) > 0
    <3>1. PICK i \in 1..n : s[i] = c
      BY <2>1, <2>2, <2>4
    <3>2. place = i
      BY <2>3, <3>1
    <3>3. CASE place <= TopK
      BY <2>1, <2>4, <3>1, <3>2, <3>3
    <3>4. CASE ~(place <= TopK)
      <4>1. ASSUME NEW j \in DOMAIN fused, fused[j] = c PROVE FALSE
        <5>1. j \in 1..n /\ s[j] = c /\ j <= TopK
          BY <2>1, <4>1, FusionAssumption
        <5> QED
          BY <2>3, <3>4, <5>1
      <4> QED
        BY <2>4, <3>4, <4>1
    <3> QED
      BY <3>3, <3>4
  <2>5. CASE ~(Total(c) > 0)
    <3>1. c \notin Found
      BY <2>2, <2>5
    <3> QED
      BY <2>1, <2>5, <3>1
  <2> QED
    BY <2>4, <2>5
<1> QED
  BY <1>1, FusionInductive, PTL
=============================================================================
