------------------------------- MODULE Fusion -------------------------------
(***************************************************************************)
(* Reciprocal rank fusion of the hits of the two channels: rrf_fuse, a     *)
(* step for each hit and one for the final sort.  Source:                  *)
(* retrieval/fusion.py.  A hit is a chunk, its rank its place in the list, *)
(* where the index answers each chunk once.  Scores are exact: they are    *)
(* counted in units that every 1 / (K + rank) is a whole number of.        *)
(***************************************************************************)
EXTENDS Integers, Sequences, FiniteSets, SequencesExt

CONSTANTS
  Chunks,    \* chunk ids: numbers in the order of the ids
  Hits,      \* the lists a channel may answer
  MaxHits,   \* no list is longer
  K,         \* rrf_k
  TopK,      \* final_top_k
  Unit       \* what 1.0 is counted as: every 1 / (K + rank) is then a whole number

ASSUME FusionAssumption ==
  /\ IsFiniteSet(Chunks) /\ Chunks \subseteq Nat
  /\ MaxHits \in Nat /\ K \in Nat \ {0} /\ TopK \in Nat \ {0} /\ Unit \in Nat \ {0}
  /\ \A n \in 1..MaxHits : Unit % (K + n) = 0
  /\ \A h \in Hits : h \in Seq(Chunks) /\ Len(h) <= MaxHits /\ IsInjective(h)

Reciprocal(n) == Unit \div (K + n)

Channels == <<"dense", "sparse">>

VARIABLES
  phase,     \* "fuse" or "fused"
  hits,      \* channel -> its list
  channel,   \* the channel that is read, as a position in Channels
  rank,      \* hits of it that were read
  score,     \* chunk -> the sum of its reciprocal ranks so far
  fused      \* the answer

fusionVars == <<phase, hits, channel, rank, score, fused>>

FusionInit ==
  /\ phase = "fuse" /\ hits \in [{"dense", "sparse"} -> Hits]
  /\ channel = 1 /\ rank = 0
  /\ score = [c \in Chunks |-> 0] /\ fused = <<>>

(* Faulty variant: the second channel's score replaces the first one's. *)
AddHitOver ==
  /\ phase = "fuse" /\ channel <= 2 /\ rank < Len(hits[Channels[channel]])
  /\ rank' = rank + 1
  /\ score' = [score EXCEPT ![hits[Channels[channel]][rank + 1]] = Reciprocal(rank + 1)]
  /\ UNCHANGED <<phase, hits, channel, fused>>

AddHit ==
  /\ phase = "fuse" /\ channel <= 2 /\ rank < Len(hits[Channels[channel]])
  /\ rank' = rank + 1
  /\ score' = [score EXCEPT ![hits[Channels[channel]][rank + 1]] = @ + Reciprocal(rank + 1)]
  /\ UNCHANGED <<phase, hits, channel, fused>>

NextChannel ==
  /\ phase = "fuse" /\ channel <= 2 /\ rank = Len(hits[Channels[channel]])
  /\ channel' = channel + 1 /\ rank' = 0
  /\ UNCHANGED <<phase, hits, score, fused>>

(* Higher scores first, equal ones by chunk id. *)
Before(c, d) == score[c] > score[d] \/ (score[c] = score[d] /\ c < d)

Found == {c \in Chunks : score[c] > 0}

Top(s) == SubSeq(s, 1, IF Len(s) < TopK THEN Len(s) ELSE TopK)

(* Faulty variant: equal scores are left as they are. *)
SortUnstably ==
  /\ phase = "fuse" /\ channel = 3
  /\ \E s \in SetToSeqs(Found) :
       /\ \A i, j \in DOMAIN s : i < j => score[s[i]] >= score[s[j]]
       /\ fused' = Top(s)
  /\ phase' = "fused"
  /\ UNCHANGED <<hits, channel, rank, score>>

Sort ==
  /\ phase = "fuse" /\ channel = 3
  /\ \E s \in SetToSeqs(Found) :
       /\ \A i, j \in DOMAIN s : i < j => Before(s[i], s[j])
       /\ fused' = Top(s)
  /\ phase' = "fused"
  /\ UNCHANGED <<hits, channel, rank, score>>

FusionNext == AddHit \/ NextChannel \/ Sort

FusionSpec == FusionInit /\ [][FusionNext]_fusionVars

-----------------------------------------------------------------------------
(* Properties *)

Place(c, ch) == CHOOSE n \in DOMAIN hits[ch] : hits[ch][n] = c
In(c, ch) == c \in ToSet(hits[ch])
Both(c) == In(c, "dense") /\ In(c, "sparse")

Ahead(c, d) == \A i \in DOMAIN fused : fused[i] = d => \E j \in 1..i - 1 : fused[j] = c

(* A chunk found by both channels precedes every chunk found by one of them only:
   so it is for lists of at most K + 1 hits, where twice the least contribution
   outweighs the greatest. *)
BothBeatsOne ==
  phase = "fused" /\ MaxHits <= K + 1 =>
    \A c, d \in Chunks : Both(c) /\ ~Both(d) => Ahead(c, d)

(* The answer is the found chunks ranked by the sum of their reciprocal ranks in
   both lists, ids deciding between equals, cut after final_top_k: the order in
   which the channels are read and the chunks are first met leaves no trace. *)
Total(c) == LET part(ch) == IF In(c, ch) THEN Reciprocal(Place(c, ch)) ELSE 0
            IN part("dense") + part("sparse")

Better(c, d) == Total(c) > Total(d) \/ (Total(c) = Total(d) /\ c < d)

FusedIsRanked ==
  phase = "fused" =>
    \A c \in Chunks :
      LET place == 1 + Cardinality({d \in Chunks : Total(d) > 0 /\ Better(d, c)})
      IN IF Total(c) > 0 /\ place <= TopK
           THEN place <= Len(fused) /\ fused[place] = c
           ELSE ~(\E i \in DOMAIN fused : fused[i] = c)
=============================================================================
