--------------------------- MODULE ChatStreamProofs ---------------------------
(***************************************************************************)
(* Proofs about module ChatStream, for every number of citations, deltas   *)
(* and failing commits.                                                    *)
(***************************************************************************)
EXTENDS ChatStream, FiniteSetTheorems, TLAPS

Event == [type : Events, seq : Nat]

-----------------------------------------------------------------------------
(* The type. *)

LEMMA NumberedType ==
  ASSUME TypeOK, NEW event \in Events, NEW n \in Nat, Numbered(event, n)
  PROVE  sent' \in Seq(Event)
<1>1. [type |-> event, seq |-> n] \in Event
  BY DEF Event
<1>2. sent \in Seq(Event)
  BY DEF TypeOK, Event
<1> QED BY <1>1, <1>2 DEF Numbered

LEMMA YieldType ==
  ASSUME TypeOK, NEW event \in Events, Yield(event)
  PROVE  seq' \in Nat /\ sent' \in Seq(Event)
<1>1. seq + 1 \in Nat
  BY DEF TypeOK
<1> QED BY <1>1, NumberedType DEF Yield

LEMMA CommitType ==
  ASSUME TypeOK, NEW new \in TraceRow, Commits(new) \/ CommitFails(new)
  PROVE  trace' \in TraceRow /\ trace' \in {trace, new} /\ faults' \in 0..MaxFaults
BY ChatAssumption DEF TypeOK, Commits, CommitFails

LEMMA UpdateType ==
  ASSUME TypeOK, NEW new \in TraceRow, UpdateTrace(new)
  PROVE  trace' \in TraceRow /\ trace' \in {trace, new} /\ faults' \in 0..MaxFaults
<1>1. CASE trace.status = "none"
  BY <1>1 DEF UpdateTrace, TypeOK
<1>2. CASE trace.status # "none"
  BY <1>2, CommitType DEF UpdateTrace
<1> QED BY <1>1, <1>2

(* What the updates write, field by field. *)
LEMMA Rows ==
  ASSUME TypeOK
  PROVE  /\ \A s \in Statuses : [NoRow EXCEPT !.status = s] \in TraceRow
         /\ \A s \in Statuses, o \in Output :
              LET new == [trace EXCEPT !.status = s, !.output = o] IN
              new \in TraceRow /\ new.status = s /\ new.output = o
         /\ \A o \in Output :
              LET new == [trace EXCEPT !.conversation = TRUE, !.output = o] IN
              new \in TraceRow /\ new.output = o
         /\ \A c \in {0, citations} : [answer |-> deltas, cited |-> c] \in Output
         /\ [answer |-> 0, cited |-> citations] \in Output
<1>1. citations \in 0..MaxCitations /\ deltas \in 0..MaxDeltas /\ 0 \in 0..MaxDeltas /\ 0 \in 0..MaxCitations
  BY ChatAssumption DEF TypeOK
<1>2. \A s \in Statuses : [NoRow EXCEPT !.status = s] \in TraceRow
  BY DEF TraceRow, NoRow
<1>3. trace \in [status : Statuses, output : Output \cup {NoOutput}, conversation : BOOLEAN]
  BY DEF TypeOK, TraceRow
<1>4. \A s \in Statuses, o \in Output :
        LET new == [trace EXCEPT !.status = s, !.output = o] IN
        new \in TraceRow /\ new.status = s /\ new.output = o
  BY <1>3 DEF TraceRow
<1>5. \A o \in Output :
        LET new == [trace EXCEPT !.conversation = TRUE, !.output = o] IN
        new \in TraceRow /\ new.output = o
  BY <1>3 DEF TraceRow
<1>6. \A d \in {0, deltas}, c \in {0, citations} : [answer |-> d, cited |-> c] \in Output
  BY <1>1 DEF Output
<1> QED BY <1>2, <1>4, <1>5, <1>6

LEMMA ServerType ==
  ASSUME TypeOK, Search \/ Snapshot \/ Start \/ Cite \/ Receive \/ Delta
  PROVE  TypeOK'
<1>1. {"start", "citation", "delta"} \subseteq Events
  BY DEF Events
<1>2. CASE Search
  <2>1. PICK outcome \in Outcomes :
          LET row == [NoRow EXCEPT !.status = outcome.trace] IN
          /\ retrieval' = outcome.status
          /\ Commits(row) \/ CommitFails(row)
          /\ IF outcome.status \in {"completed", "degraded"}
             THEN Goto("search", "snapshot") /\ citations' \in Cited
             ELSE Goto("search", "fail") /\ UNCHANGED citations
    BY <1>2 DEF Search
  <2>2. outcome.status \in Statuses /\ outcome.trace \in Statuses
    BY DEF Outcomes, Statuses
  <2>3. trace' \in TraceRow /\ faults' \in 0..MaxFaults
    BY <2>1, <2>2, Rows, CommitType
  <2> QED BY <1>2, <2>1, <2>2, <2>3 DEF Search, TypeOK, Goto, PCs, Cited, answered
<1>3. CASE Snapshot
  <2>1. trace' \in TraceRow /\ faults' \in 0..MaxFaults
    BY <1>3, Rows, UpdateType DEF Snapshot, TypeOK
  <2> QED BY <1>3, <2>1 DEF Snapshot, TypeOK, Goto, PCs, answered, asked
<1>4. CASE Start
  BY <1>1, <1>4, YieldType DEF Start, TypeOK, Goto, PCs, Event, answered, asked
<1>5. CASE Cite
  BY <1>1, <1>5, YieldType DEF Cite, TypeOK, Goto, PCs, Event, answered, asked
<1>6. CASE Receive
  BY <1>6, ChatAssumption DEF Receive, TypeOK, Goto, PCs, asked
<1>7. CASE Delta
  BY <1>1, <1>7, YieldType DEF Delta, TypeOK, Goto, PCs, Event, answered, asked
<1> QED BY <1>2, <1>3, <1>4, <1>5, <1>6, <1>7

LEMMA LastStepsType ==
  ASSUME TypeOK, Finish \/ End \/ Fail \/ Error
  PROVE  TypeOK'
<1>1. {"end", "error"} \subseteq Events
  BY DEF Events
<1>2. CASE Finish
  <2>1. trace' \in TraceRow /\ faults' \in 0..MaxFaults
    BY <1>2, Rows, UpdateType DEF Finish, TypeOK
  <2> QED BY <1>2, <2>1 DEF Finish, TypeOK, Goto, PCs, answered, asked
<1>3. CASE End
  <2>1. sent' \in Seq(Event)
    BY <1>1, <1>3, NumberedType DEF End, TypeOK
  <2> QED BY <1>3, <2>1 DEF End, TypeOK, Goto, PCs, Event, answered, asked
<1>4. CASE Fail
  <2>1. "failed" \in Statuses
    BY DEF Statuses
  <2>2. trace' \in TraceRow /\ faults' \in 0..MaxFaults
    BY <1>4, <2>1, Rows, UpdateType DEF Fail
  <2> QED BY <1>4, <2>2 DEF Fail, TypeOK, Goto, PCs, answered, asked
<1>5. CASE Error
  BY <1>1, <1>5, YieldType DEF Error, TypeOK, Goto, PCs, Event, answered, asked
<1> QED BY <1>2, <1>3, <1>4, <1>5

LEMMA NextType == ASSUME TypeOK, [Next]_vars PROVE TypeOK'
<1>1. CASE Silence \/ ProviderEnds \/ ProviderFails \/ Leave
  <2>1. CASE Silence
    BY <2>1 DEF Silence, TypeOK, asked
  <2>2. CASE ProviderEnds
    BY <2>2 DEF ProviderEnds, TypeOK, Goto, PCs, asked
  <2>3. CASE ProviderFails
    BY <2>3 DEF ProviderFails, TypeOK, Goto, PCs, answered, asked
  <2>4. CASE Leave
    BY <2>4 DEF Leave, TypeOK, PCs, answered, asked
  <2> QED BY <1>1, <2>1, <2>2, <2>3, <2>4
<1>2. CASE UNCHANGED vars
  BY <1>2 DEF vars, TypeOK
<1> QED BY <1>1, <1>2, ServerType, LastStepsType DEF Next

(* The variables stay in their domains. *)
THEOREM StreamTypeCorrect == Spec => []TypeOK
<1>1. Init => TypeOK
  <2> SUFFICES ASSUME Init PROVE TypeOK
    OBVIOUS
  <2>1. sent \in Seq([type : Events, seq : Nat])
    BY DEF Init
  <2>2. trace \in TraceRow /\ retrieval \in Statuses /\ pc \in PCs
    BY DEF Init, TraceRow, NoRow, Statuses, PCs
  <2>3. seq \in Nat /\ citations \in 0..MaxCitations /\ deltas \in 0..MaxDeltas /\ faults \in 0..MaxFaults
    BY ChatAssumption DEF Init
  <2>4. {late, ended, fits} \subseteq BOOLEAN
    BY DEF Init
  <2> QED BY <2>1, <2>2, <2>3, <2>4 DEF TypeOK
<1> QED BY <1>1, NextType, PTL DEF Spec

-----------------------------------------------------------------------------
(* The trace: the answer in it is empty until the provider's stream has ended, and
   then it is the whole. *)

AInv == /\ CompletedAnswersAreWhole
        /\ pc \in {"search", "snapshot", "start", "cite", "generate", "delta"} /\ trace.output # NoOutput =>
             trace.output.answer = 0
        /\ pc \in {"finish", "end"} => ended

LEMMA NextAInv == ASSUME TypeOK, AInv, [Next]_vars PROVE AInv'
<1> USE DEF AInv, CompletedAnswersAreWhole, Goto
<1>1. CASE Search
  <2>1. PICK outcome \in Outcomes :
          LET row == [NoRow EXCEPT !.status = outcome.trace] IN
          /\ Commits(row) \/ CommitFails(row)
          /\ pc = "search" /\ pc' \in {"snapshot", "fail"}
    BY <1>1 DEF Search
  <2> DEFINE row == [NoRow EXCEPT !.status = outcome.trace]
  <2>2. row.output = NoOutput
    BY DEF NoRow
  <2> HIDE DEF row
  <2>3. trace' \in {trace, row}
    BY <2>1 DEF Commits, CommitFails, row
  <2> QED BY <1>1, <2>1, <2>2, <2>3 DEF Search, answered
<1>2. CASE Snapshot
  <2>1. trace'.output # NoOutput => trace'.output.answer = 0
    <3> DEFINE o == [answer |-> 0, cited |-> citations]
               new == [trace EXCEPT !.conversation = TRUE, !.output = o]
    <3>a. o \in Output /\ o.answer = 0
      BY Rows
    <3>1. new \in TraceRow /\ new.output.answer = 0
      <4> HIDE DEF o
      <4> QED BY <3>a, Rows
    <3> HIDE DEF new
    <3>2. trace' \in {trace, new}
      BY <1>2, <3>1, UpdateType DEF Snapshot, new
    <3> QED BY <1>2, <3>1, <3>2 DEF Snapshot
  <2> QED BY <1>2, <2>1 DEF Snapshot, answered
<1>3. CASE Start \/ Cite \/ Delta \/ End \/ Error \/ Silence \/ ProviderEnds \/ ProviderFails \/ Leave
  BY <1>3 DEF Start, Cite, Delta, End, Error, Silence, ProviderEnds, ProviderFails, Leave, answered
<1>4. CASE Receive
  BY <1>4 DEF Receive
<1>5. CASE Finish
  <2> DEFINE o == [answer |-> deltas, cited |-> citations]
             new == [trace EXCEPT !.status = retrieval, !.output = o]
  <2>a. o \in Output /\ o.answer = deltas
    BY Rows
  <2>1. new \in TraceRow /\ new.output.answer = deltas
    <3>1. retrieval \in Statuses
      BY DEF TypeOK
    <3> HIDE DEF o
    <3> QED BY <2>a, <3>1, Rows
  <2> HIDE DEF new
  <2>2. trace' \in {trace, new}
    BY <1>5, <2>1, UpdateType DEF Finish, new
  <2> QED BY <1>5, <2>1, <2>2 DEF Finish, answered
<1>6. CASE Fail
  <2> DEFINE new == [trace EXCEPT !.status = "failed", !.output = [answer |-> deltas, cited |-> 0]]
  <2>1. new \in TraceRow /\ new.status = "failed"
    <3>1. "failed" \in Statuses /\ [answer |-> deltas, cited |-> 0] \in Output
      BY Rows DEF Statuses
    <3> QED BY <3>1, Rows
  <2> HIDE DEF new
  <2>2. trace' \in {trace, new}
    BY <1>6, <2>1, UpdateType DEF Fail, new
  <2> QED BY <1>6, <2>1, <2>2 DEF Fail, answered, Completed
<1>7. CASE UNCHANGED vars
  BY <1>7 DEF vars
<1> QED BY <1>1, <1>2, <1>3, <1>4, <1>5, <1>6, <1>7 DEF Next

(* Whenever the client leaves and whichever commits fail, a trace that counts as
   completed has no answer or all of it. *)
THEOREM AnswersAlwaysWhole == Spec => []CompletedAnswersAreWhole
<1>1. Init => AInv
  BY DEF Init, AInv, CompletedAnswersAreWhole, NoRow
<1>2. AInv => CompletedAnswersAreWhole
  BY DEF AInv
<1> QED BY <1>1, <1>2, StreamTypeCorrect, NextAInv, PTL DEF Spec

-----------------------------------------------------------------------------
(* The events.  The numbers follow the counter, which is one ahead between the last
   delta and the end, and nothing terminal was sent while the stream runs. *)

SInv == /\ WellFormed
        /\ pc \in {"search", "snapshot", "start"} => sent = <<>>
        /\ pc \in {"cite", "generate", "delta", "finish", "end"} => sent # <<>>
        /\ pc \in {"search", "snapshot", "start", "cite", "generate", "delta", "fail", "error"} =>
             seq = Len(sent)
        /\ pc \in {"finish", "end"} => seq = Len(sent) + 1
        /\ pc # "done" /\ pc # "gone" =>
             \A i \in 1..Len(sent) : sent[i].type \in {"start", "citation", "delta"}
        /\ pc = "cite" => \A i \in 1..Len(sent) : sent[i].type \in {"start", "citation"}

LEMMA AppendKeeps ==
  ASSUME TypeOK, WellFormed, NEW event \in Events, Numbered(event, Len(sent) + 1),
         sent = <<>> => event \in {"start", "error"}, sent # <<>> => event # "start",
         \A i \in 1..Len(sent) : /\ sent[i].type \notin {"end", "error"}
                                 /\ Rank(sent[i].type) <= Rank(event)
  PROVE  /\ WellFormed'
         /\ Len(sent') = Len(sent) + 1 /\ sent' # <<>>
         /\ \A i \in 1..Len(sent') : sent'[i].type = IF i = Len(sent') THEN event ELSE sent[i].type
<1> DEFINE e == [type |-> event, seq |-> Len(sent) + 1]
<1>1. e.type = event /\ e.seq = Len(sent) + 1 /\ e \in Event
  BY DEF Event, TypeOK
<1>2. sent \in Seq(Event) /\ sent' = Append(sent, e) /\ Len(sent) \in Nat
  BY DEF TypeOK, Event, Numbered
<1> HIDE DEF e
<1>3. /\ Len(sent') = Len(sent) + 1
      /\ \A i \in 1..Len(sent) : sent'[i] = sent[i]
      /\ sent'[Len(sent) + 1] = e
  BY <1>1, <1>2
<1>4. sent' # <<>>
  BY <1>2, <1>3
<1>5. \A i \in 1..Len(sent') : sent'[i].type = IF i = Len(sent') THEN event ELSE sent[i].type
  BY <1>1, <1>2, <1>3
<1>6. \A i \in 1..Len(sent') : sent'[i].seq = i
  BY <1>1, <1>2, <1>3 DEF WellFormed
<1>7. ASSUME NEW i \in 1..(Len(sent') - 1)
      PROVE  /\ Rank(sent'[i].type) <= Rank(sent'[i + 1].type)
             /\ sent'[i].type \notin {"end", "error"} /\ sent'[i + 1].type # "start"
  <2>1. i \in 1..Len(sent) /\ sent'[i].type = sent[i].type /\ sent # <<>>
    BY <1>2, <1>3
  <2>2. CASE i = Len(sent)
    <3>1. sent'[i + 1].type = event
      BY <1>1, <1>3, <2>2
    <3> QED BY <2>1, <3>1
  <2>3. CASE i # Len(sent)
    <3>1. i \in 1..(Len(sent) - 1) /\ sent'[i + 1].type = sent[i + 1].type
      BY <1>2, <1>3, <2>1, <2>3
    <3> QED BY <2>1, <3>1 DEF WellFormed
  <2> QED BY <2>2, <2>3
<1>8. sent'[1].type \in {"start", "error"}
  <2>1. CASE sent = <<>>
    <3>1. Len(sent) = 0
      BY <2>1
    <3> QED BY <1>1, <1>3, <2>1, <3>1
  <2>2. CASE sent # <<>>
    <3>1. 1 \in 1..Len(sent)
      BY <1>2, <2>2
    <3> QED BY <1>3, <2>2, <3>1 DEF WellFormed
  <2> QED BY <2>1, <2>2
<1> QED BY <1>3, <1>4, <1>5, <1>6, <1>7, <1>8 DEF WellFormed

LEMMA Ranks ==
  /\ Rank("start") = 1 /\ Rank("citation") = 2 /\ Rank("delta") = 3
  /\ Rank("end") = 4 /\ Rank("error") = 4
BY DEF Rank

LEMMA NextSInv == ASSUME TypeOK, SInv, [Next]_vars PROVE SInv'
<1>1. Len(sent) \in Nat /\ (sent = <<>> => Len(sent) = 0) /\ seq \in Nat
  BY DEF TypeOK
<1>2. CASE UNCHANGED <<seq, sent>> /\ (pc' = pc \/ pc' = "gone")
  BY <1>2 DEF SInv, WellFormed
<1>3. CASE Search \/ Snapshot
  BY <1>3 DEF Search, Snapshot, SInv, WellFormed, Goto
<1>4. CASE Start
  <2>1. /\ WellFormed' /\ Len(sent') = 1 /\ sent' # <<>>
        /\ \A i \in 1..Len(sent') : sent'[i].type = "start"
    BY <1>1, <1>4, AppendKeeps DEF Start, Yield, Goto, SInv, Events
  <2> QED BY <1>1, <1>4, <2>1 DEF Start, Yield, Goto, SInv
<1>5. CASE Cite /\ pc' = "generate"
  BY <1>5 DEF Cite, SInv, WellFormed, Goto
<1>6. CASE Cite /\ pc' = "cite"
  <2>1. pc = "cite" /\ Numbered("citation", Len(sent) + 1) /\ seq' = Len(sent) + 1 /\ sent # <<>>
    BY <1>1, <1>6 DEF Cite, Yield, Goto, SInv
  <2>2. \A i \in 1..Len(sent) : sent[i].type \in {"start", "citation"}
    BY <2>1 DEF SInv
  <2>3. /\ WellFormed' /\ Len(sent') = Len(sent) + 1 /\ sent' # <<>>
        /\ \A i \in 1..Len(sent') : sent'[i].type = IF i = Len(sent') THEN "citation" ELSE sent[i].type
    BY <2>1, <2>2, AppendKeeps, Ranks DEF SInv, Events
  <2>4. \A i \in 1..Len(sent') : sent'[i].type \in {"start", "citation"}
    BY <1>1, <2>2, <2>3
  <2> QED BY <1>6, <2>1, <2>3, <2>4 DEF SInv
<1>7. CASE Receive \/ Finish \/ ProviderFails
  BY <1>7 DEF Receive, Finish, ProviderFails, SInv, WellFormed, Goto
<1>8. CASE ProviderEnds
  BY <1>8 DEF ProviderEnds, SInv, WellFormed, Goto
<1>9. CASE Delta
  <2>1. /\ pc = "delta" /\ pc' = "generate"
        /\ Numbered("delta", Len(sent) + 1) /\ seq' = Len(sent) + 1 /\ sent # <<>>
    BY <1>9 DEF Delta, Yield, Goto, SInv
  <2>2. \A i \in 1..Len(sent) : sent[i].type \in {"start", "citation", "delta"}
    BY <2>1 DEF SInv
  <2>3. /\ WellFormed' /\ Len(sent') = Len(sent) + 1 /\ sent' # <<>>
        /\ \A i \in 1..Len(sent') : sent'[i].type = IF i = Len(sent') THEN "delta" ELSE sent[i].type
    BY <2>1, <2>2, AppendKeeps, Ranks DEF SInv, Events
  <2>4. \A i \in 1..Len(sent') : sent'[i].type \in {"start", "citation", "delta"}
    BY <1>1, <2>2, <2>3
  <2> QED BY <2>1, <2>3, <2>4 DEF SInv
<1>10. CASE End
  <2>1. pc = "end" /\ pc' = "done" /\ Numbered("end", Len(sent) + 1) /\ sent # <<>>
    BY <1>10 DEF End, Goto, SInv
  <2>2. \A i \in 1..Len(sent) : sent[i].type \in {"start", "citation", "delta"}
    BY <2>1 DEF SInv
  <2>3. WellFormed'
    BY <2>1, <2>2, AppendKeeps, Ranks DEF SInv, Events
  <2> QED BY <2>1, <2>3 DEF SInv
<1>11. CASE Fail
  BY <1>11 DEF Fail, SInv, WellFormed, Goto
<1>12. CASE Error
  <2>1. pc = "error" /\ pc' = "done" /\ Numbered("error", Len(sent) + 1)
    BY <1>12 DEF Error, Yield, Goto, SInv
  <2>2. \A i \in 1..Len(sent) : sent[i].type \in {"start", "citation", "delta"}
    BY <2>1 DEF SInv
  <2>3. WellFormed'
    BY <2>1, <2>2, AppendKeeps, Ranks DEF SInv, Events
  <2> QED BY <2>1, <2>3 DEF SInv
<1> QED BY <1>2, <1>3, <1>4, <1>5, <1>6, <1>7, <1>8, <1>9, <1>10, <1>11, <1>12
        DEF Next, Cite, Goto, Silence, Leave, vars

(* For any number of citations and deltas, whatever fails: numbers without gap or
   repetition, the parts in order, and one terminal event at most. *)
THEOREM StreamWellFormed == Spec => []WellFormed
<1>1. Init => SInv
  <2>1. Init => sent = <<>> /\ Len(sent) = 0
    BY DEF Init
  <2> QED BY <2>1 DEF Init, SInv, WellFormed
<1>2. SInv => WellFormed
  BY DEF SInv
<1> QED BY <1>1, <1>2, StreamTypeCorrect, NextSInv, PTL DEF Spec

-----------------------------------------------------------------------------
(* The trace against the stream.  Every event is counted from the state it was sent
   in, and what the trace is told is what was counted. *)

Sent(cited, answer) == Count("citation") = cited /\ Count("delta") = answer /\ Count("end") = 0

Told(status, cited) ==
  faults = 0 /\ trace.status # "none" =>
    trace.status = status /\ trace.output = [answer |-> deltas, cited |-> cited]

CInv == /\ StreamIsTraced
        /\ pc \in {"search", "snapshot", "start"} => Sent(0, 0) /\ sent = <<>> /\ deltas = 0
        /\ pc = "cite" => Len(sent) \in 1..(citations + 1) /\ Sent(Len(sent) - 1, 0) /\ deltas = 0
        /\ pc \in {"generate", "finish", "end"} => Sent(citations, deltas)
        /\ pc = "delta" => deltas > 0 /\ Sent(citations, deltas - 1)
        /\ pc \in {"fail", "error"} => Count("delta") = deltas /\ Count("end") = 0
        /\ pc = "end" => Told(retrieval, citations)
        /\ pc = "error" => Told("failed", 0)

LEMMA CountType == ASSUME TypeOK, NEW e PROVE Count(e) \in Nat
<1> DEFINE S == {i \in 1..Len(sent) : sent[i].type = e}
<1>1. IsFiniteSet(1..Len(sent))
  BY FS_Interval DEF TypeOK
<1>2. IsFiniteSet(S)
  BY <1>1, FS_Subset
<1> QED BY <1>2, FS_CardinalityType DEF Count

(* One more event counts for its own type only. *)
LEMMA CountNumbered ==
  ASSUME TypeOK, NEW event \in Events, NEW n \in Nat, Numbered(event, n), NEW e
  PROVE  /\ Count(e)' = IF e = event THEN Count(e) + 1 ELSE Count(e)
         /\ Len(sent') = Len(sent) + 1
<1> DEFINE x == [type |-> event, seq |-> n]
           S == {i \in 1..Len(sent) : sent[i].type = e}
           T == {i \in 1..Len(sent') : sent'[i].type = e}
<1>1. sent \in Seq(Event) /\ x \in Event /\ x.type = event /\ sent' = Append(sent, x) /\ Len(sent) \in Nat
  BY DEF TypeOK, Event, Numbered
<1> HIDE DEF x
<1>2. /\ Len(sent') = Len(sent) + 1
      /\ \A i \in 1..Len(sent) : sent'[i] = sent[i]
      /\ sent'[Len(sent) + 1] = x
  BY <1>1
<1>3. IsFiniteSet(S) /\ Len(sent) + 1 \notin S
  <2>1. IsFiniteSet(1..Len(sent)) /\ S \subseteq 1..Len(sent)
    BY <1>1, FS_Interval
  <2> QED BY <1>1, <2>1, FS_Subset
<1>4. CASE e = event
  <2>1. T = S \cup {Len(sent) + 1}
    BY <1>1, <1>2, <1>4
  <2>2. Cardinality(T) = Cardinality(S) + 1
    BY <1>3, <2>1, FS_AddElement
  <2> QED BY <1>2, <1>4, <2>2 DEF Count
<1>5. CASE e # event
  <2>1. T = S
    BY <1>1, <1>2, <1>5
  <2> QED BY <1>2, <1>5, <2>1 DEF Count
<1> QED BY <1>4, <1>5

LEMMA CountUnchanged == ASSUME UNCHANGED sent, NEW e PROVE Count(e)' = Count(e)
BY DEF Count

LEMMA CountEmpty == ASSUME sent = <<>>, NEW e PROVE Count(e) = 0
<1>1. {i \in 1..Len(sent) : sent[i].type = e} = {}
  OBVIOUS
<1> QED BY <1>1, FS_EmptySet DEF Count

(* An update that no failing commit hits is what the row then says. *)
LEMMA Tells ==
  ASSUME TypeOK, NEW new, UpdateTrace(new), faults' = 0, trace'.status # "none"
  PROVE  trace' = new
BY ChatAssumption DEF TypeOK, UpdateTrace, Commits, CommitFails

LEMMA NextCInv == ASSUME TypeOK, CInv, [Next]_vars PROVE CInv'
<1> USE DEF Goto, Sent
<1>0. /\ Len(sent) \in Nat /\ deltas \in Nat /\ citations \in Nat /\ faults \in Nat
      /\ \A e \in Events : Count(e) \in Nat
      /\ {"citation", "delta", "end", "start", "error"} \subseteq Events
  BY CountType, ChatAssumption DEF TypeOK, Events
<1>u. ASSUME UNCHANGED sent
      PROVE  \A e \in Events : Count(e)' = Count(e)
  BY <1>u, CountUnchanged
<1>q. ASSUME pc' # "done" PROVE StreamIsTraced'
  BY <1>q DEF StreamIsTraced
<1>1. CASE Search
  <2>1. sent' = <<>> /\ Sent(0, 0)' /\ deltas' = 0 /\ pc' \in {"snapshot", "fail"}
    BY <1>1, <1>u, <1>0 DEF Search, CInv, answered
  <2> QED BY <2>1, <1>q DEF CInv
<1>2. CASE Snapshot
  <2>1. sent' = <<>> /\ Sent(0, 0)' /\ deltas' = 0 /\ pc' = "start"
    BY <1>2, <1>u, <1>0 DEF Snapshot, CInv, answered
  <2> QED BY <2>1, <1>q DEF CInv
<1>3. CASE Start
  <2>1. Len(sent') = 1 /\ Sent(0, 0)' /\ deltas' = 0 /\ pc' = "cite" /\ citations' = citations
    <3>1. Numbered("start", seq + 1) /\ sent = <<>> /\ Sent(0, 0) /\ deltas = 0 /\ seq + 1 \in Nat
      BY <1>3 DEF Start, Yield, CInv, TypeOK
    <3> QED BY <1>3, <1>0, <3>1, CountNumbered DEF Start, answered, asked
  <2> QED BY <2>1, <1>0, <1>q DEF CInv
<1>4. CASE Cite
  <2>1. CASE pc' = "generate"
    BY <1>4, <2>1, <1>0, <1>q, <1>u DEF Cite, CInv, answered, asked
  <2>2. CASE pc' = "cite"
    <3>1. /\ Numbered("citation", seq + 1) /\ seq + 1 \in Nat
          /\ Len(sent) <= citations /\ Sent(Len(sent) - 1, 0) /\ deltas = 0
          /\ Len(sent) \in 1..(citations + 1)
      BY <1>4, <2>2, <1>0 DEF Cite, Yield, CInv, TypeOK
    <3>2. /\ Len(sent') = Len(sent) + 1 /\ Sent(Len(sent) - 1, 0)'
          /\ deltas' = 0 /\ citations' = citations
      BY <1>4, <1>0, <3>1, CountNumbered DEF Cite, answered, asked
    <3> QED BY <2>2, <3>1, <3>2, <1>0, <1>q DEF CInv
  <2> QED BY <1>4, <2>1, <2>2 DEF Cite
<1>5. CASE Receive
  BY <1>5, <1>0, <1>q, <1>u DEF Receive, CInv, asked
<1>6. CASE Delta
  <2>1. Numbered("delta", seq + 1) /\ seq + 1 \in Nat /\ Sent(citations, deltas - 1) /\ deltas > 0
    BY <1>6 DEF Delta, Yield, CInv, TypeOK
  <2>2. Sent(citations, deltas)' /\ pc' = "generate"
    BY <1>6, <1>0, <2>1, CountNumbered DEF Delta, answered, asked
  <2> QED BY <2>2, <1>q DEF CInv
<1>7. CASE Finish
  <2> DEFINE o == [answer |-> deltas, cited |-> citations]
             new == [trace EXCEPT !.status = retrieval, !.output = o]
  <2>1. new.status = retrieval /\ new.output = o
    <3>1. retrieval \in Statuses /\ o \in Output
      BY Rows DEF TypeOK
    <3> HIDE DEF o
    <3> QED BY <3>1, Rows
  <2> HIDE DEF new
  <2>2. Told(retrieval, citations)'
    <3>1. UpdateTrace(new)
      BY <1>7 DEF Finish, new
    <3>2. faults' = 0 /\ trace'.status # "none" => trace' = new
      BY <3>1, Tells
    <3> QED BY <1>7, <2>1, <3>2 DEF Finish, Told, answered, asked
  <2>3. Sent(citations, deltas)' /\ pc' = "end"
    BY <1>7, <1>0, <1>u DEF Finish, CInv, answered, asked
  <2> QED BY <2>2, <2>3, <1>q DEF CInv
<1>8. CASE Fail
  <2> DEFINE o == [answer |-> deltas, cited |-> 0]
             new == [trace EXCEPT !.status = "failed", !.output = o]
  <2>1. new.status = "failed" /\ new.output = o
    <3>1. "failed" \in Statuses /\ o \in Output
      BY Rows DEF Statuses
    <3> HIDE DEF o
    <3> QED BY <3>1, Rows
  <2> HIDE DEF new
  <2>2. Told("failed", 0)'
    <3>1. UpdateTrace(new)
      BY <1>8 DEF Fail, new
    <3>2. faults' = 0 /\ trace'.status # "none" => trace' = new
      BY <3>1, Tells
    <3> QED BY <1>8, <2>1, <3>2 DEF Fail, Told, answered, asked
  <2>3. Count("delta")' = deltas' /\ Count("end")' = 0 /\ pc' = "error"
    BY <1>8, <1>0, <1>u DEF Fail, CInv, answered, asked
  <2> QED BY <2>2, <2>3, <1>q DEF CInv
<1>9. CASE End
  <2>1. Numbered("end", seq) /\ seq \in Nat /\ Sent(citations, deltas) /\ Told(retrieval, citations)
    BY <1>9 DEF End, CInv, TypeOK
  <2>2. Count("citation")' = citations /\ Count("delta")' = deltas /\ Count("end")' = 1
    BY <1>0, <2>1, CountNumbered
  <2>3. StreamIsTraced'
    <3>1. Output \subseteq [answer : 0..MaxDeltas, cited : 0..MaxCitations] /\ [answer |-> deltas, cited |-> citations] \in Output
      BY Rows DEF Output
    <3> QED BY <1>9, <2>1, <2>2, <3>1, OutputAssumption DEF End, Told, StreamIsTraced, answered, asked
  <2> QED BY <1>9, <2>3 DEF End, CInv
<1>10. CASE Error
  <2>1. /\ Numbered("error", seq + 1) /\ seq + 1 \in Nat /\ Told("failed", 0)
        /\ Count("delta") = deltas /\ Count("end") = 0
    BY <1>10 DEF Error, Yield, CInv, TypeOK
  <2>2. Count("delta")' = deltas /\ Count("end")' = 0
    BY <1>0, <2>1, CountNumbered
  <2>3. StreamIsTraced'
    <3>1. [answer |-> deltas, cited |-> 0] \in Output
      BY Rows
    <3> QED BY <1>10, <2>1, <2>2, <3>1, OutputAssumption DEF Error, Told, StreamIsTraced, answered, asked
  <2> QED BY <1>10, <2>3 DEF Error, CInv
<1>11. CASE Silence
  BY <1>11, <1>0, <1>q, <1>u DEF Silence, CInv, asked
<1>12. CASE ProviderEnds
  BY <1>12, <1>0, <1>q, <1>u DEF ProviderEnds, CInv, asked
<1>13. CASE ProviderFails
  BY <1>13, <1>0, <1>q, <1>u DEF ProviderFails, CInv, asked, answered
<1>14. CASE Leave
  BY <1>14, <1>q DEF Leave, CInv
<1>15. CASE UNCHANGED vars
  BY <1>15, <1>0, <1>u DEF vars, CInv, StreamIsTraced, Told
<1> QED BY <1>1, <1>2, <1>3, <1>4, <1>5, <1>6, <1>7, <1>8, <1>9, <1>10, <1>11, <1>12, <1>13,
           <1>14, <1>15 DEF Next

(* For any number of citations and deltas: once the terminal event is out and no
   commit failed, the trace says how many pieces and citations the client was sent,
   and has the status the stream ended with. *)
THEOREM StreamAlwaysTraced == Spec => []StreamIsTraced
<1>1. Init => CInv
  <2> SUFFICES ASSUME Init PROVE CInv
    OBVIOUS
  <2>1. sent = <<>> /\ Sent(0, 0)
    BY CountEmpty DEF Init, Sent
  <2> QED BY <2>1 DEF Init, CInv, StreamIsTraced
<1>2. CInv => StreamIsTraced
  BY DEF CInv
<1> QED BY <1>1, <1>2, StreamTypeCorrect, NextCInv, PTL DEF Spec
===============================================================================
