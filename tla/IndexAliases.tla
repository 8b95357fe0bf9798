---------------------------- MODULE IndexAliases ----------------------------
(***************************************************************************)
(* The read and the write alias of the chunk index: operators that run     *)
(* init-opensearch, each an index manager whose requests to OpenSearch     *)
(* interleave with those of the others, and workers that index documents   *)
(* through the write alias.  Sources: retrieval/opensearch.py              *)
(* (OpenSearchIndexManager.ensure, _point_aliases, build_alias_actions),   *)
(* cli.py (init_opensearch), ingestion/indexers.py (upsert).               *)
(*                                                                         *)
(* OpenSearch applies one request at a time and an _aliases request        *)
(* atomically: it ignores the removal of an alias that is not there, and   *)
(* answers 404 when no action is left.                                     *)
(***************************************************************************)
EXTENDS Naturals, FiniteSets

CONSTANTS
  Operators,   \* runs of init-opensearch that may overlap
  Indices,     \* physical index names (OPENSEARCH_INDEX), none an alias name
  Documents,   \* documents the workers index
  MaxRuns,     \* bound on the runs started
  None         \* no index

ASSUME AliasAssumption == MaxRuns \in Nat /\ None \notin Indices

Aliases == {"read", "write"}

VARIABLES
  mapping,   \* index -> "absent", "good" or a mapping of another shape, "bad"
  alias,     \* alias -> the indices it points at
  squatted,  \* alias names that a physical index has taken
  docs,      \* index -> documents in it
  op,        \* operator -> its run
  runs,      \* runs started
  current,   \* history: the index of the last switch
  recent,    \* history: documents indexed since that switch
  raced      \* history: a switch was made from lookups that a switch to
             \* another index had outdated

vars == <<mapping, alias, squatted, docs, op, runs, current, recent, raced>>

Run == [pc : {"idle", "create", "lookRead", "lookWrite", "post"},
        target : Indices \cup {None},
        seen : [Aliases -> SUBSET Indices],
        outdated : BOOLEAN]

Idle == [pc |-> "idle", target |-> None, seen |-> [a \in Aliases |-> {}], outdated |-> FALSE]

Existing == {i \in Indices : mapping[i] # "absent"}

(* Whatever was there before the first run. *)
Init ==
  /\ mapping \in [Indices -> {"absent", "good", "bad"}]
  /\ alias \in [Aliases -> SUBSET Existing]
  /\ squatted \in SUBSET {a \in Aliases : alias[a] = {}}
  /\ docs = [i \in Indices |-> {}]
  /\ op = [o \in Operators |-> Idle]
  /\ runs = 0 /\ current = None /\ recent = {} /\ raced = FALSE

Finish(o) == op' = [op EXCEPT ![o] = Idle]
Advance(o, pc) == op' = [op EXCEPT ![o].pc = pc]

histories == <<current, recent, raced>>

-----------------------------------------------------------------------------
(* ensure *)

(* Faulty variant: an index that does not exist is not created. *)
StartUncreated(o, i) ==
  /\ op[o].pc = "idle" /\ runs < MaxRuns /\ mapping[i] # "bad"
  /\ runs' = runs + 1
  /\ op' = [op EXCEPT ![o] = [@ EXCEPT !.target = i, !.pc = "lookRead"]]
  /\ UNCHANGED <<mapping, alias, squatted, docs, histories>>

(* The mapping is looked up: an index of another shape ends the run. *)
Start(o, i) ==
  /\ op[o].pc = "idle" /\ runs < MaxRuns
  /\ runs' = runs + 1
  /\ \/ mapping[i] = "bad" /\ UNCHANGED op
     \/ /\ mapping[i] = "good"
        /\ op' = [op EXCEPT ![o] = [@ EXCEPT !.target = i, !.pc = "lookRead"]]
     \/ /\ mapping[i] = "absent"
        /\ op' = [op EXCEPT ![o] = [@ EXCEPT !.target = i, !.pc = "create"]]
  /\ UNCHANGED <<mapping, alias, squatted, docs, histories>>

(* The index is created, unless another run has done so meanwhile: that answer
   is an error and ends the run. *)
Create(o) ==
  LET i == op[o].target IN
  /\ op[o].pc = "create"
  /\ \/ mapping[i] = "absent" /\ mapping' = [mapping EXCEPT ![i] = "good"] /\ Advance(o, "lookRead")
     \/ mapping[i] # "absent" /\ Finish(o) /\ UNCHANGED mapping
  /\ UNCHANGED <<alias, squatted, docs, runs, histories>>

Seen(o, a) == [op[o].seen EXCEPT ![a] = alias[a]]

(* The indices of one alias are looked up; a physical index under its name ends
   the run. *)
LookUp(o, a, here, next) ==
  /\ op[o].pc = here
  /\ \/ a \in squatted /\ Finish(o)
     \/ /\ a \notin squatted
        /\ op' = [op EXCEPT ![o] = [@ EXCEPT !.pc = next, !.seen = Seen(o, a)]]
  /\ UNCHANGED <<mapping, alias, squatted, docs, runs, histories>>

LookUpRead(o) == LookUp(o, "read", "lookRead", "lookWrite")
LookUpWrite(o) == LookUp(o, "write", "lookWrite", "post")

(* build_alias_actions *)
Removed(o, a) == op[o].seen[a] \ {op[o].target}
Added(o, a) == {op[o].target} \ op[o].seen[a]
Actions(o) == UNION {Removed(o, a) \cup Added(o, a) : a \in Aliases}
Pointed(o, a) == (alias[a] \ Removed(o, a)) \cup Added(o, a)

(* An action of the request that OpenSearch finds something to do for. *)
Applicable(o) ==
  \E a \in Aliases : Added(o, a) # {} \/ Removed(o, a) \cap alias[a] # {}

Looking == {"lookWrite", "post"}

(* A switch outdates the lookups of the runs that have another index in mind. *)
Outdate(o) ==
  op' = [p \in Operators |->
           IF p = o THEN Idle
           ELSE IF op[p].pc \in Looking /\ op[p].target # op[o].target
             THEN [op[p] EXCEPT !.outdated = TRUE]
             ELSE op[p]]

Switched(o) ==
  /\ current' = op[o].target
  /\ recent' = IF current = op[o].target THEN recent ELSE {}
  /\ raced' = (raced \/ op[o].outdated)

(* Faulty variant: the former indices keep the alias. *)
PostAddsOnly(o) ==
  /\ op[o].pc = "post" /\ Actions(o) # {} /\ Applicable(o)
  /\ alias' = [a \in Aliases |-> alias[a] \cup Added(o, a)]
  /\ Outdate(o) /\ Switched(o)
  /\ UNCHANGED <<mapping, squatted, docs, runs>>

(* Faulty variant: one request for each alias. *)
PostOneByOne(o) ==
  /\ op[o].pc = "post" /\ Actions(o) # {} /\ Applicable(o)
  /\ IF alias["write"] # Pointed(o, "write")
       THEN /\ alias' = [alias EXCEPT !["write"] = Pointed(o, "write")]
            /\ UNCHANGED op
       ELSE /\ alias' = [alias EXCEPT !["read"] = Pointed(o, "read")]
            /\ Outdate(o)
  /\ Switched(o)
  /\ UNCHANGED <<mapping, squatted, docs, runs>>

(* Faulty variant: the removals and the additions are two requests. *)
PostInTwo(o) ==
  /\ op[o].pc = "post" /\ Actions(o) # {} /\ Applicable(o)
  /\ IF \E a \in Aliases : Removed(o, a) \cap alias[a] # {}
       THEN alias' = [a \in Aliases |-> alias[a] \ Removed(o, a)] /\ UNCHANGED op
       ELSE alias' = [a \in Aliases |-> Pointed(o, a)] /\ Outdate(o)
  /\ Switched(o)
  /\ UNCHANGED <<mapping, squatted, docs, runs>>

(* Both aliases are pointed at the index in one request.  Whether the answer
   reaches the operator makes no difference to what was done. *)
Post(o) ==
  /\ op[o].pc = "post" /\ Actions(o) # {} /\ Applicable(o)
  /\ alias' = [a \in Aliases |-> Pointed(o, a)]
  /\ Outdate(o) /\ Switched(o)
  /\ UNCHANGED <<mapping, squatted, docs, runs>>

(* No action to send, or none that OpenSearch finds something to do for. *)
PostNothing(o) ==
  /\ op[o].pc = "post" /\ (Actions(o) = {} \/ ~Applicable(o))
  /\ Finish(o)
  /\ UNCHANGED <<mapping, alias, squatted, docs, runs, histories>>

(* A request fails without having been applied, an analyzer finds no token, or
   the operator gives up. *)
Fail(o) ==
  /\ op[o].pc # "idle" /\ Finish(o)
  /\ UNCHANGED <<mapping, alias, squatted, docs, runs, histories>>

-----------------------------------------------------------------------------
(* A bulk request with require_alias: the write alias must point at exactly one
   index, otherwise the attempt fails and nothing is created. *)
Bulk(d) ==
  \E i \in Indices :
    /\ alias["write"] = {i}
    /\ docs' = [docs EXCEPT ![i] = @ \cup {d}]
    /\ recent' = IF current = None THEN {} ELSE recent \cup {d}
    /\ UNCHANGED <<mapping, alias, squatted, op, runs, current, raced>>

Next == \/ \E o \in Operators :
             \/ \E i \in Indices : Start(o, i)
             \/ Create(o) \/ LookUpRead(o) \/ LookUpWrite(o)
             \/ Post(o) \/ PostNothing(o) \/ Fail(o)
        \/ \E d \in Documents : Bulk(d)

Spec == Init /\ [][Next]_vars

-----------------------------------------------------------------------------
(* Properties *)

(* The variables stay in their domains; an alias points at indices that exist. *)
TypeOK ==
  /\ mapping \in [Indices -> {"absent", "good", "bad"}]
  /\ alias \in [Aliases -> SUBSET Existing]
  /\ squatted \in SUBSET Aliases
  /\ docs \in [Indices -> SUBSET Documents]
  /\ op \in [Operators -> Run]
  /\ runs \in 0..MaxRuns
  /\ current \in Indices \cup {None}
  /\ recent \in SUBSET Documents
  /\ raced \in BOOLEAN

(* Whatever the aliases pointed at before, after a switch both point at its index
   and at no other one, and runs that overlap do not undo it: neither those for
   the same index, nor the ones that fail half-way, nor repeated ones. *)
SwitchIsExact == ~raced /\ current # None => \A a \in Aliases : alias[a] = {current}

(* A document a worker has indexed since the last switch is found through the
   read alias, also when the switch came between two bulk requests, as long as
   no switch was made from outdated reads. *)
Readable == {d \in Documents : \E i \in alias["read"] : d \in docs[i]}
IndexedIsFound == ~raced => recent \subseteq Readable

(* The aliases are only ever switched to an index of the expected mapping, even
   when the index was created by another run meanwhile. *)
SwitchedIsValidated == current # None => mapping[current] = "good"

(* No step leaves an alias that pointed somewhere without any index, so a search
   or a bulk request never falls between two indices, as long as no switch was
   made from outdated reads: two such, which each remove the other's index, can
   leave an alias with none. *)
AliasNeverLost ==
  [][~raced' => \A a \in Aliases : alias[a] # {} => alias'[a] # {}]_vars
=============================================================================
