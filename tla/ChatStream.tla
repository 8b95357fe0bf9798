------------------------------ MODULE ChatStream ------------------------------
(***************************************************************************)
(* POST /api/v1/chat/completions (api/chat.py): the event stream of one    *)
(* question, the provider it reads from, the trace row that search wrote   *)
(* and the stream updates, and a client that may leave at any point.       *)
(*                                                                         *)
(* Texts are reduced to how many deltas they are made of.                  *)
(***************************************************************************)
EXTENDS Naturals, Sequences, FiniteSets, SearchOutcomes

CONSTANTS MaxCitations,   \* bound: chunks the context has room for
          MaxDeltas,      \* bound: pieces of the provider's answer
          MaxFaults,      \* bound: commits that fail
          NoOutput

ASSUME ChatAssumption == MaxCitations \in Nat /\ MaxDeltas \in Nat /\ MaxFaults \in Nat

Output == [answer : 0..MaxDeltas, cited : 0..MaxCitations]

ASSUME OutputAssumption == NoOutput \notin Output

(* The columns of query_traces that change; status "none": no such row. *)
TraceRow == [status : Statuses, output : Output \cup {NoOutput}, conversation : BOOLEAN]
NoRow == [status |-> "none", output |-> NoOutput, conversation |-> FALSE]

Events == {"start", "citation", "delta", "end", "error"}
PCs == {"search", "snapshot", "start", "cite", "generate", "delta", "finish", "end", "fail", "error",
        "done", "gone"}

VARIABLES pc, seq,
          sent,        \* the events yielded so far
          retrieval,   \* the status search returned
          citations,   \* how many chunks the context cites
          deltas,      \* pieces of the answer received
          late,        \* the first token is overdue
          ended,       \* the provider's stream came to its end
          fits,        \* the conversation id fits into its column
          trace, faults

vars == <<pc, seq, sent, retrieval, citations, deltas, late, ended, fits, trace, faults>>
answered == <<deltas, late, ended>>
asked == <<retrieval, citations, fits>>

Init == /\ pc = "search" /\ seq = 0 /\ sent = <<>> /\ retrieval = "none" /\ citations = 0
        /\ deltas = 0 /\ late = FALSE /\ ended = FALSE /\ fits \in BOOLEAN
        /\ trace = NoRow /\ faults = 0

Goto(from, to) == pc = from /\ pc' = to

(* A commit raises: nothing is written, or the answer to it is lost. *)
CommitFails(new) ==
  faults < MaxFaults /\ faults' = faults + 1 /\ trace' \in {trace, new}

Commits(new) == UNCHANGED faults /\ trace' = new

(* update_trace: no row, no update; what raises is rolled back and forgotten. *)
UpdateTrace(new) ==
  IF trace.status = "none" THEN UNCHANGED <<trace, faults>> ELSE Commits(new) \/ CommitFails(new)

Numbered(event, n) == sent' = Append(sent, [type |-> event, seq |-> n])

(* seq is counted up, and the event yielded. *)
Yield(event) == seq' = seq + 1 /\ Numbered(event, seq + 1)

-----------------------------------------------------------------------------
(* The server. *)

(* Faulty variant: room for one more. *)
CitedInclusive == 0..(MaxCitations + 1)

(* _context: as many of the fused chunks as have a text and fit. *)
Cited == 0..MaxCitations

Search ==
  /\ \E outcome \in Outcomes :
       LET row == [NoRow EXCEPT !.status = outcome.trace] IN
       /\ retrieval' = outcome.status
       /\ Commits(row) \/ CommitFails(row)
       /\ IF outcome.status \in {"completed", "degraded"}
          THEN Goto("search", "snapshot") /\ citations' \in Cited
          ELSE Goto("search", "fail") /\ UNCHANGED citations
  /\ UNCHANGED <<seq, sent, fits, answered>>

(* A conversation id that is too long takes the snapshot with it. *)
Snapshot ==
  /\ Goto("snapshot", "start")
  /\ IF fits
     THEN UpdateTrace([trace EXCEPT !.conversation = TRUE, !.output = [answer |-> 0, cited |-> citations]])
     ELSE UNCHANGED <<trace, faults>>
  /\ UNCHANGED <<seq, sent, asked, answered>>

Start ==
  /\ Goto("start", "cite") /\ Yield("start")
  /\ UNCHANGED <<asked, answered, trace, faults>>

Cite ==
  /\ \/ /\ Len(sent) <= citations /\ Goto("cite", "cite") /\ Yield("citation")
     \/ /\ Len(sent) > citations /\ Goto("cite", "generate") /\ UNCHANGED <<seq, sent>>
  /\ UNCHANGED <<asked, answered, trace, faults>>

(* A delta arrives; only then is the first-token timeout looked at. *)
Receive ==
  /\ deltas < MaxDeltas
  /\ IF late /\ deltas = 0
     THEN Goto("generate", "fail") /\ UNCHANGED deltas
     ELSE Goto("generate", "delta") /\ deltas' = deltas + 1
  /\ UNCHANGED <<seq, sent, asked, late, ended, trace, faults>>

Delta ==
  /\ Goto("delta", "generate") /\ Yield("delta")
  /\ UNCHANGED <<asked, answered, trace, faults>>

(* Faulty variant: update_trace lets its exceptions out. *)
FinishRaises ==
  LET new == [trace EXCEPT !.status = retrieval, !.output = [answer |-> deltas, cited |-> citations]] IN
  /\ \/ Goto("finish", "end") /\ Commits(new)
     \/ Goto("finish", "fail") /\ CommitFails(new)
  /\ UNCHANGED <<seq, sent, asked, answered>>

(* Faulty variant: the answer was stored before the generation, and is not again. *)
FinishStatusOnly ==
  /\ Goto("finish", "end") /\ UpdateTrace([trace EXCEPT !.status = retrieval])
  /\ UNCHANGED <<seq, sent, asked, answered>>

Finish ==
  /\ Goto("finish", "end")
  /\ UpdateTrace([trace EXCEPT !.status = retrieval, !.output = [answer |-> deltas, cited |-> citations]])
  /\ UNCHANGED <<seq, sent, asked, answered>>

End ==
  /\ Goto("end", "done") /\ Numbered("end", seq)
  /\ UNCHANGED <<seq, asked, answered, trace, faults>>

(* except Exception. *)
Fail ==
  /\ Goto("fail", "error")
  /\ UpdateTrace([trace EXCEPT !.status = "failed", !.output = [answer |-> deltas, cited |-> 0]])
  /\ UNCHANGED <<seq, sent, asked, answered>>

Error ==
  /\ Goto("error", "done") /\ Yield("error")
  /\ UNCHANGED <<asked, answered, trace, faults>>

-----------------------------------------------------------------------------
(* The provider and the client. *)

Silence ==
  /\ pc = "generate" /\ deltas = 0 /\ ~late /\ late' = TRUE
  /\ UNCHANGED <<pc, seq, sent, asked, deltas, ended, trace, faults>>

(* [DONE], or the end of the response without it; the last number is taken. *)
ProviderEnds ==
  /\ Goto("generate", "finish") /\ ended' = TRUE /\ seq' = seq + 1
  /\ UNCHANGED <<sent, asked, deltas, late, trace, faults>>

(* An HTTP error, a broken connection, or a read that times out. *)
ProviderFails ==
  /\ Goto("generate", "fail")
  /\ UNCHANGED <<seq, sent, asked, answered, trace, faults>>

Streaming == pc \notin {"done", "gone"}

(* Faulty variant: what was received is kept when the client leaves. *)
LeaveKeepingAnswer ==
  /\ Streaming /\ pc' = "gone"
  /\ UpdateTrace([trace EXCEPT !.output = [answer |-> deltas, cited |-> citations]])
  /\ UNCHANGED <<seq, sent, asked, answered>>

(* CancelledError: raised again, nothing is updated. *)
Leave ==
  /\ Streaming /\ pc' = "gone"
  /\ UNCHANGED <<seq, sent, asked, answered, trace, faults>>

Next == \/ Search \/ Snapshot \/ Start \/ Cite \/ Receive \/ Delta \/ Finish \/ End \/ Fail \/ Error
        \/ Silence \/ ProviderEnds \/ ProviderFails \/ Leave

Spec == Init /\ [][Next]_vars

-----------------------------------------------------------------------------
(* Properties *)

Count(event) == Cardinality({i \in 1..Len(sent) : sent[i].type = event})
Completed == {"completed", "degraded"}

(* The variables stay in their domains. *)
TypeOK == /\ pc \in PCs /\ seq \in Nat /\ retrieval \in Statuses /\ citations \in 0..MaxCitations
          /\ sent \in Seq([type : Events, seq : Nat])
          /\ deltas \in 0..MaxDeltas /\ {late, ended, fits} \subseteq BOOLEAN
          /\ trace \in TraceRow /\ faults \in 0..MaxFaults

Rank(event) == CASE event = "start" -> 1 [] event = "citation" -> 2 [] event = "delta" -> 3
                 [] OTHER -> 4

(* A client that checks the numbers never sees a gap or a repetition, sees the parts
   of the answer in order, and one terminal event after which there is nothing. *)
WellFormed ==
  /\ \A i \in 1..Len(sent) : sent[i].seq = i
  /\ \A i \in 1..(Len(sent) - 1) : /\ Rank(sent[i].type) <= Rank(sent[i + 1].type)
                                   /\ sent[i].type \notin {"end", "error"}
                                   /\ sent[i + 1].type # "start"
  /\ sent # <<>> => sent[1].type \in {"start", "error"}

(* After the terminal event the trace, if there is one and the database answered,
   says what the stream said: the status, the answer, and the citations of an end. *)
StreamIsTraced ==
  pc = "done" /\ faults = 0 /\ trace.status # "none" =>
    /\ trace.output # NoOutput /\ trace.output.answer = Count("delta")
    /\ IF Count("end") = 1 THEN trace.status = retrieval /\ trace.output.cited = Count("citation")
       ELSE trace.status = "failed"

(* A trace that counts as completed, and may be bound by an evaluation, has no part
   of an answer without the rest, whenever the client leaves and whatever commit fails.
   The rest is what the provider had sent when its response ended, with [DONE] or
   without: the code does not tell the two apart. *)
CompletedAnswersAreWhole ==
  trace.status \in Completed /\ trace.output # NoOutput /\ trace.output.answer > 0 =>
    ended /\ trace.output.answer = deltas
===============================================================================
