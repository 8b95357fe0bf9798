---------------------------- MODULE MCAlgorithms ----------------------------
(* The parser with the chunker, and the fusion, for TLC: a behaviour is one of
   either, while the variables of the other stay as they are. *)
EXTENDS Parsing, Fusion

(* A blank line, a line of text, and a heading. *)
MCBlank ==
  [level |-> 0, indent |-> 0, lead |-> 0, width |-> 0, spaces |-> {}, gap |-> 0, signs |-> 0,
   tail |-> 0, ending |-> "newline"]
MCText == [MCBlank EXCEPT !.width = 4]
MCHeading(n) == [MCBlank EXCEPT !.level = n, !.lead = 1, !.width = 4]

MCLine ==
  {MCBlank, [MCBlank EXCEPT !.tail = 1, !.ending = "other"],
   [MCBlank EXCEPT !.width = 1], [MCText EXCEPT !.indent = 3],
   [MCText EXCEPT !.spaces = {2}, !.ending = "other"],
   [MCHeading(1) EXCEPT !.signs = 1],
   [MCHeading(1) EXCEPT !.width = 0, !.tail = 1],
   [MCHeading(2) EXCEPT !.gap = 1, !.signs = 1, !.tail = 1],
   [MCHeading(3) EXCEPT !.width = 5, !.spaces = {3}]}

(* The last line may have no end. *)
MCInputs ==
  SeqOf(MCLine, 4) \cup
    {Append(d, [l EXCEPT !.ending = "none"]) : d \in SeqOf(MCLine, 3), l \in MCLine \ {MCBlank}}

MCHits == {h \in SeqOf(Chunks, MaxHits) : IsInjective(h)}

ParsingIdle ==
  /\ stage = "idle" /\ lines = <<>> /\ headed = FALSE /\ line = 0 /\ offset = 0 /\ text = <<>>
  /\ headings = <<>> /\ paragraph = -1 /\ blocks = <<>> /\ block = 1 /\ start = 0 /\ drafts = <<>>

FusionIdle ==
  /\ phase = "idle" /\ hits = [ch \in {"dense", "sparse"} |-> <<>>] /\ channel = 1
  /\ rank = 0 /\ score = [c \in Chunks |-> 0] /\ fused = <<>>

MCInit == (ParsingInit /\ FusionIdle) \/ (ParsingIdle /\ FusionInit)

MCNext == \/ ParsingNext /\ UNCHANGED fusionVars
          \/ FusionNext /\ UNCHANGED parsingVars

MCSpec == MCInit /\ [][MCNext]_<<parsingVars, fusionVars>>
=============================================================================
