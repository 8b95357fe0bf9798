------------------------- MODULE IndexAliasesProofs -------------------------
(***************************************************************************)
(* Proofs about module IndexAliases, for every number of operators, runs,  *)
(* indices and documents.                                                  *)
(***************************************************************************)
EXTENDS IndexAliases, TLAPS

-----------------------------------------------------------------------------
(* The inductive invariant. *)

(* A run has a target, of the expected mapping once it looks at the aliases. *)
RunsWellFormed ==
  \A o \in Operators :
    /\ op[o].pc # "idle" => op[o].target \in Indices
    /\ op[o].pc \in {"lookRead", "lookWrite", "post"} => mapping[op[o].target] = "good"

(* The aliases a run has looked up. *)
Looked(o) == IF op[o].pc = "lookWrite" THEN {"read"}
             ELSE IF op[o].pc = "post" THEN Aliases ELSE {}

(* What a run has seen and no switch to another index has outdated: every other
   index the alias points at, and its target if the alias points there already. *)
SeenIsCurrent ==
  \A o \in Operators : ~op[o].outdated =>
    \A a \in Looked(o) :
      /\ alias[a] \ {op[o].target} \subseteq op[o].seen[a]
      /\ op[o].target \in op[o].seen[a] => op[o].target \in alias[a]

(* What was indexed since the last switch is in the index of that switch. *)
RecentIsInCurrent ==
  /\ current = None => recent = {}
  /\ ~raced /\ current # None => recent \subseteq docs[current]

IInv == /\ TypeOK /\ RunsWellFormed /\ SeenIsCurrent /\ SwitchIsExact
        /\ RecentIsInCurrent /\ SwitchedIsValidated
-----------------------------------------------------------------------------
(* What the steps do to the runs. *)

Others(o) == \A p \in Operators \ {o} : op'[p] = op[p]

LEMMA Changed ==
  ASSUME TypeOK, NEW o \in Operators, NEW new \in Run, op' = [op EXCEPT ![o] = new]
  PROVE  Others(o) /\ op'[o] = new /\ op' \in [Operators -> Run]
BY DEF TypeOK, Others

LEMMA IdleIsRun ==
  /\ Idle \in Run /\ Idle.pc = "idle" /\ Idle.target = None /\ ~Idle.outdated
  /\ \A a \in Aliases : Idle.seen[a] = {}
BY DEF Idle, Run

LEMMA FinishFields ==
  ASSUME TypeOK, NEW o \in Operators, Finish(o)
  PROVE  Others(o) /\ op'[o] = Idle /\ op' \in [Operators -> Run]
BY Changed, IdleIsRun DEF Finish

LEMMA AdvanceFields ==
  ASSUME TypeOK, NEW o \in Operators, Advance(o, "lookRead")
  PROVE  /\ Others(o) /\ op' \in [Operators -> Run]
         /\ op'[o].pc = "lookRead" /\ op'[o].target = op[o].target
<1>1. PICK x \in Run : x = op[o]
  BY DEF TypeOK
<1>2. PICK y : y = [x EXCEPT !.pc = "lookRead"]
  OBVIOUS
<1>3. y \in Run /\ y.pc = "lookRead" /\ y.target = x.target
  BY <1>2 DEF Run
<1>4. op' = [op EXCEPT ![o] = y]
  BY <1>1, <1>2 DEF Advance
<1> QED BY <1>1, <1>3, <1>4, Changed

LEMMA StartFields ==
  ASSUME TypeOK, NEW o \in Operators, NEW i \in Indices, NEW pc \in {"lookRead", "create"},
         op' = [op EXCEPT ![o] = [@ EXCEPT !.target = i, !.pc = pc]]
  PROVE  /\ Others(o) /\ op' \in [Operators -> Run]
         /\ op'[o].pc = pc /\ op'[o].target = i
<1>1. PICK x \in Run : x = op[o]
  BY DEF TypeOK
<1>2. PICK y : y = [x EXCEPT !.target = i, !.pc = pc]
  OBVIOUS
<1>3. y \in Run
  BY <1>2 DEF Run
<1>4. y.pc = pc /\ y.target = i
  BY <1>2 DEF Run
<1>5. op' = [op EXCEPT ![o] = y]
  BY <1>1, <1>2
<1> QED BY <1>3, <1>4, <1>5, Changed

LEMMA LookFields ==
  ASSUME TypeOK, NEW o \in Operators, NEW a \in Aliases, NEW next \in {"lookWrite", "post"},
         op' = [op EXCEPT ![o] = [@ EXCEPT !.pc = next, !.seen = Seen(o, a)]]
  PROVE  /\ Others(o) /\ op' \in [Operators -> Run]
         /\ op'[o].pc = next /\ op'[o].target = op[o].target
         /\ op'[o].outdated = op[o].outdated
         /\ op'[o].seen[a] = alias[a]
         /\ \A b \in Aliases \ {a} : op'[o].seen[b] = op[o].seen[b]
<1>1. PICK x \in Run : x = op[o]
  BY DEF TypeOK
<1>2. PICK t : t = Seen(o, a)
  OBVIOUS
<1>3. /\ t \in [Aliases -> SUBSET Indices] /\ t[a] = alias[a]
      /\ \A b \in Aliases \ {a} : t[b] = x.seen[b]
  BY <1>1, <1>2 DEF Seen, TypeOK, Run, Existing
<1>4. PICK y : y = [x EXCEPT !.pc = next, !.seen = t]
  OBVIOUS
<1>5. y \in Run
  BY <1>3, <1>4 DEF Run
<1>6. y.pc = next /\ y.target = x.target
  BY <1>4 DEF Run
<1>7. y.seen = t /\ y.outdated = x.outdated
  BY <1>4 DEF Run
<1>8. op' = [op EXCEPT ![o] = y]
  BY <1>1, <1>2, <1>4
<1> QED BY <1>1, <1>3, <1>5, <1>6, <1>7, <1>8, Changed

LEMMA OutdateFields ==
  ASSUME TypeOK, NEW o \in Operators, Outdate(o)
  PROVE  /\ op' \in [Operators -> Run] /\ op'[o] = Idle
         /\ \A p \in Operators \ {o} :
              /\ op'[p].pc = op[p].pc /\ op'[p].target = op[p].target /\ op'[p].seen = op[p].seen
              /\ op[p].pc \in Looking /\ op[p].target # op[o].target => op'[p].outdated
              /\ op[p].outdated => op'[p].outdated
<1>1. op'[o] = Idle /\ Idle \in Run
  BY IdleIsRun DEF Outdate
<1>2. ASSUME NEW p \in Operators \ {o}
      PROVE  /\ op'[p] \in Run
             /\ op'[p].pc = op[p].pc /\ op'[p].target = op[p].target /\ op'[p].seen = op[p].seen
             /\ op[p].pc \in Looking /\ op[p].target # op[o].target => op'[p].outdated
             /\ op[p].outdated => op'[p].outdated
  <2>1. PICK x \in Run : x = op[p]
    BY DEF TypeOK
  <2>2. PICK y : y = [x EXCEPT !.outdated = TRUE]
    OBVIOUS
  <2>3. y \in Run /\ y.pc = x.pc /\ y.target = x.target /\ y.seen = x.seen /\ y.outdated
    BY <2>2 DEF Run
  <2>4. \/ op'[p] = y
        \/ op'[p] = x /\ ~(x.pc \in Looking /\ x.target # op[o].target)
    BY <2>1, <2>2 DEF Outdate
  <2> QED BY <2>1, <2>3, <2>4
<1>3. op' \in [Operators -> Run]
  <2>1. op' = [p \in Operators |-> op'[p]]
    BY DEF Outdate
  <2> QED BY <1>1, <1>2, <2>1
<1> QED BY <1>1, <1>2, <1>3
-----------------------------------------------------------------------------
(* Each step preserves the invariant. *)

(* Steps that leave the index alone and change one run, which looks at nothing
   yet or not any more. *)
LEMMA StartKeeps ==
  ASSUME IInv, NEW o \in Operators, NEW i \in Indices, Start(o, i)
  PROVE  IInv'
<1>0. TypeOK /\ runs' \in 0..MaxRuns
  BY AliasAssumption DEF IInv, TypeOK, Start
<1>1. UNCHANGED <<mapping, alias, squatted, docs, current, recent, raced>>
  BY DEF Start, histories
<1>2. SwitchIsExact' /\ RecentIsInCurrent' /\ SwitchedIsValidated'
  BY <1>1 DEF IInv, SwitchIsExact, RecentIsInCurrent, SwitchedIsValidated
<1>3. CASE UNCHANGED op
  BY <1>0, <1>1, <1>2, <1>3
     DEF IInv, TypeOK, Existing, RunsWellFormed, SeenIsCurrent, Looked
<1>4. ASSUME NEW pc \in {"lookRead", "create"}, pc = "lookRead" => mapping[i] = "good",
             op' = [op EXCEPT ![o] = [@ EXCEPT !.target = i, !.pc = pc]]
      PROVE  IInv'
  <2>1. /\ Others(o) /\ op' \in [Operators -> Run]
        /\ op'[o].pc = pc /\ op'[o].target = i
    BY <1>0, <1>4, StartFields
  <2>2. TypeOK'
    BY <1>0, <1>1, <2>1 DEF TypeOK, Existing
  <2>3. RunsWellFormed'
    BY <1>1, <1>4, <2>1 DEF IInv, RunsWellFormed, Others
  <2>4. SeenIsCurrent'
    BY <1>1, <2>1 DEF IInv, SeenIsCurrent, Looked, Others
  <2> QED BY <1>2, <2>2, <2>3, <2>4 DEF IInv
<1> QED BY <1>3, <1>4 DEF Start

LEMMA FinishKeeps ==
  ASSUME IInv, NEW o \in Operators, Finish(o),
         UNCHANGED <<mapping, alias, squatted, docs, runs, histories>>
  PROVE  IInv'
<1>0. TypeOK
  BY DEF IInv
<1>1. Others(o) /\ op'[o] = Idle /\ op' \in [Operators -> Run]
  BY <1>0, FinishFields
<1>2. TypeOK'
  BY <1>0, <1>1 DEF TypeOK, Existing, histories
<1>3. RunsWellFormed' /\ SeenIsCurrent'
  BY <1>1, IdleIsRun DEF IInv, RunsWellFormed, SeenIsCurrent, Looked, Others
<1>4. SwitchIsExact' /\ RecentIsInCurrent' /\ SwitchedIsValidated'
  BY DEF IInv, SwitchIsExact, RecentIsInCurrent, SwitchedIsValidated, histories
<1> QED BY <1>2, <1>3, <1>4 DEF IInv

LEMMA CreateKeeps ==
  ASSUME IInv, NEW o \in Operators, Create(o)
  PROVE  IInv'
<1>0. TypeOK /\ op[o].target \in Indices
  BY DEF IInv, RunsWellFormed, Create
<1>1. CASE Finish(o) /\ UNCHANGED mapping
  BY <1>1, FinishKeeps DEF Create
<1>2. CASE mapping' = [mapping EXCEPT ![op[o].target] = "good"] /\ Advance(o, "lookRead")
  <2>1. /\ Others(o) /\ op' \in [Operators -> Run]
        /\ op'[o].pc = "lookRead" /\ op'[o].target = op[o].target
    BY <1>0, <1>2, AdvanceFields
  <2>2. /\ mapping' \in [Indices -> {"absent", "good", "bad"}]
        /\ mapping'[op[o].target] = "good"
        /\ \A i \in Indices : mapping[i] # "absent" => mapping'[i] # "absent"
        /\ \A i \in Indices : mapping[i] = "good" => mapping'[i] = "good"
        /\ UNCHANGED <<alias, squatted, docs, runs, current, recent, raced>>
    BY <1>0, <1>2 DEF TypeOK, Create, histories
  <2>3. Existing \subseteq Existing'
    BY <2>2 DEF Existing
  <2>4. TypeOK'
    BY <1>0, <2>1, <2>2, <2>3 DEF TypeOK
  <2>5. RunsWellFormed'
    BY <1>0, <2>1, <2>2 DEF IInv, RunsWellFormed, Others
  <2>6. SeenIsCurrent'
    BY <2>1, <2>2 DEF IInv, SeenIsCurrent, Looked, Others
  <2>7. SwitchIsExact' /\ RecentIsInCurrent' /\ SwitchedIsValidated'
    BY <1>0, <2>2 DEF IInv, SwitchIsExact, RecentIsInCurrent, SwitchedIsValidated, TypeOK
  <2> QED BY <2>4, <2>5, <2>6, <2>7 DEF IInv
<1> QED BY <1>1, <1>2 DEF Create

LEMMA LookKeeps ==
  ASSUME IInv, NEW o \in Operators, LookUpRead(o) \/ LookUpWrite(o)
  PROVE  IInv'
<1>0. TypeOK /\ UNCHANGED <<mapping, alias, squatted, docs, runs, histories>>
  BY DEF IInv, LookUpRead, LookUpWrite, LookUp
<1>1. CASE Finish(o)
  BY <1>0, <1>1, FinishKeeps
<1>2. ASSUME NEW a \in Aliases, NEW next \in {"lookWrite", "post"},
             op[o].pc \in {"lookRead", "lookWrite"},
             IF a = "read" THEN next = "lookWrite" ELSE op[o].pc = "lookWrite" /\ next = "post",
             op' = [op EXCEPT ![o] = [@ EXCEPT !.pc = next, !.seen = Seen(o, a)]]
      PROVE  IInv'
  <2>1. /\ Others(o) /\ op' \in [Operators -> Run]
        /\ op'[o].pc = next /\ op'[o].target = op[o].target
        /\ op'[o].outdated = op[o].outdated
        /\ op'[o].seen[a] = alias[a]
        /\ \A b \in Aliases \ {a} : op'[o].seen[b] = op[o].seen[b]
    BY <1>0, <1>2, LookFields
  <2>2. TypeOK'
    BY <1>0, <2>1 DEF TypeOK, Existing, histories
  <2>3. RunsWellFormed'
    BY <1>0, <1>2, <2>1 DEF IInv, RunsWellFormed, Others
  <2>4. Looked(o)' = IF a = "read" THEN {"read"} ELSE Aliases
    BY <1>2, <2>1 DEF Looked, Aliases
  <2>5. a = "write" => Looked(o) = {"read"}
    BY <1>2 DEF Looked
  <2>6. SeenIsCurrent'
    BY <1>0, <1>2, <2>1, <2>4, <2>5 DEF IInv, SeenIsCurrent, Looked, Others, Aliases
  <2>7. SwitchIsExact' /\ RecentIsInCurrent' /\ SwitchedIsValidated'
    BY <1>0 DEF IInv, SwitchIsExact, RecentIsInCurrent, SwitchedIsValidated, histories
  <2> QED BY <2>2, <2>3, <2>6, <2>7 DEF IInv
<1> QED BY <1>1, <1>2 DEF LookUpRead, LookUpWrite, LookUp, Aliases

(* A switch from current lookups points both aliases at its index alone. *)
LEMMA PostIsExact ==
  ASSUME IInv, NEW o \in Operators, Post(o), ~op[o].outdated
  PROVE  \A a \in Aliases : alias'[a] = {op[o].target}
<1> SUFFICES ASSUME NEW a \in Aliases PROVE alias'[a] = {op[o].target}
  OBVIOUS
<1>1. alias'[a] = (alias[a] \ (op[o].seen[a] \ {op[o].target})) \cup ({op[o].target} \ op[o].seen[a])
  BY DEF Post, Pointed, Removed, Added
<1>2. /\ alias[a] \ {op[o].target} \subseteq op[o].seen[a]
      /\ op[o].target \in op[o].seen[a] => op[o].target \in alias[a]
  BY DEF IInv, SeenIsCurrent, Looked, Post
<1> QED BY <1>1, <1>2

LEMMA PostKeeps ==
  ASSUME IInv, NEW o \in Operators, Post(o)
  PROVE  IInv'
<1>a. PICK t : t = op[o].target
  OBVIOUS
<1>0. /\ TypeOK /\ t \in Indices /\ mapping[t] = "good" /\ t # None
      /\ op[o].seen \in [Aliases -> SUBSET Indices] /\ op[o].outdated \in BOOLEAN
  BY <1>a, AliasAssumption DEF IInv, RunsWellFormed, Post, TypeOK, Run
<1>1. /\ op' \in [Operators -> Run] /\ op'[o] = Idle
      /\ \A p \in Operators \ {o} :
           /\ op'[p].pc = op[p].pc /\ op'[p].target = op[p].target /\ op'[p].seen = op[p].seen
           /\ op[p].pc \in Looking /\ op[p].target # t => op'[p].outdated
           /\ op[p].outdated => op'[p].outdated
  BY <1>a, <1>0, OutdateFields DEF Post
<1>2. /\ UNCHANGED <<mapping, squatted, docs, runs>> /\ current' = t
      /\ recent' = (IF current = t THEN recent ELSE {})
      /\ raced' = (raced \/ op[o].outdated)
  BY <1>a DEF Post, Switched
<1>3. /\ alias' = [a \in Aliases |-> alias'[a]]
      /\ \A a \in Aliases : alias'[a] = (alias[a] \ (op[o].seen[a] \ {t})) \cup ({t} \ op[o].seen[a])
  BY <1>a DEF Post, Pointed, Removed, Added
<1>4. TypeOK'
  <2>1. \A a \in Aliases : alias'[a] \subseteq Existing
    BY <1>0, <1>3 DEF TypeOK, Existing
  <2>2. alias' \in [Aliases -> SUBSET Existing] /\ Existing' = Existing
    BY <1>2, <1>3, <2>1 DEF Existing
  <2>3. recent' \in SUBSET Documents /\ raced' \in BOOLEAN
    BY <1>0, <1>2 DEF TypeOK
  <2> QED BY <1>0, <1>1, <1>2, <2>2, <2>3 DEF TypeOK
<1>5. RunsWellFormed'
  BY <1>1, <1>2, IdleIsRun DEF IInv, RunsWellFormed
<1>6. SeenIsCurrent'
  <2> SUFFICES ASSUME NEW p \in Operators, ~op'[p].outdated, NEW a \in Looked(p)'
               PROVE  /\ alias'[a] \ {op'[p].target} \subseteq op'[p].seen[a]
                      /\ op'[p].target \in op'[p].seen[a] => op'[p].target \in alias'[a]
    BY DEF SeenIsCurrent
  <2>1. p # o
    BY <1>1, IdleIsRun DEF Looked
  <2>2. a \in Looked(p) /\ a \in Aliases /\ op[p].pc \in Looking
    BY <1>1, <2>1 DEF Looked, Looking, Aliases
  <2>3. op[p].target = t /\ ~op[p].outdated
    BY <1>1, <2>1, <2>2
  <2>4. alias[a] \ {t} \subseteq op[p].seen[a] /\ (t \in op[p].seen[a] => t \in alias[a])
    BY <2>2, <2>3 DEF IInv, SeenIsCurrent
  <2> QED BY <1>1, <1>3, <2>1, <2>2, <2>3, <2>4
<1>7. SwitchIsExact'
  BY <1>a, <1>2, PostIsExact DEF SwitchIsExact
<1>8. RecentIsInCurrent' /\ SwitchedIsValidated'
  BY <1>0, <1>2 DEF IInv, RecentIsInCurrent, SwitchedIsValidated
<1> QED BY <1>4, <1>5, <1>6, <1>7, <1>8 DEF IInv

LEMMA BulkKeeps ==
  ASSUME IInv, NEW d \in Documents, Bulk(d)
  PROVE  IInv'
<1>1. PICK i \in Indices :
        /\ alias["write"] = {i} /\ docs' = [docs EXCEPT ![i] = docs[i] \cup {d}]
        /\ recent' = IF current = None THEN {} ELSE recent \cup {d}
        /\ UNCHANGED <<mapping, alias, squatted, op, runs, current, raced>>
  BY DEF Bulk
<1>2. TypeOK'
  BY <1>1 DEF IInv, TypeOK, Existing
<1>3. RunsWellFormed' /\ SeenIsCurrent' /\ SwitchIsExact' /\ SwitchedIsValidated'
  BY <1>1 DEF IInv, RunsWellFormed, SeenIsCurrent, Looked, SwitchIsExact, SwitchedIsValidated
<1>4. RecentIsInCurrent'
  <2>1. ~raced /\ current # None => i = current
    BY <1>1 DEF IInv, SwitchIsExact, Aliases
  <2> QED BY <1>1, <2>1 DEF IInv, RecentIsInCurrent, TypeOK
<1> QED BY <1>2, <1>3, <1>4 DEF IInv
-----------------------------------------------------------------------------
(* The theorems. *)

LEMMA InitIInv == Init => IInv
<1> SUFFICES ASSUME Init PROVE IInv
  OBVIOUS
<1>1. TypeOK
  <2>1. op \in [Operators -> Run] /\ runs \in 0..MaxRuns
    BY IdleIsRun, AliasAssumption DEF Init
  <2>2. squatted \subseteq Aliases /\ docs \in [Indices -> SUBSET Documents]
    BY DEF Init
  <2> QED BY <2>1, <2>2 DEF Init, TypeOK
<1>2. \A o \in Operators : op[o] = Idle
  BY DEF Init
<1>3. RunsWellFormed /\ SeenIsCurrent
  BY <1>2, IdleIsRun DEF RunsWellFormed, SeenIsCurrent, Looked
<1> QED BY <1>1, <1>3 DEF Init, IInv, SwitchIsExact, RecentIsInCurrent, SwitchedIsValidated

LEMMA NextIInv == IInv /\ [Next]_vars => IInv'
<1> SUFFICES ASSUME IInv, [Next]_vars PROVE IInv'
  OBVIOUS
<1>1. ASSUME NEW o \in Operators, PostNothing(o) \/ Fail(o) PROVE IInv'
  BY <1>1, FinishKeeps DEF PostNothing, Fail
<1>2. CASE UNCHANGED vars
  BY <1>2 DEF vars, IInv, TypeOK, RunsWellFormed, SeenIsCurrent, Looked, SwitchIsExact,
              RecentIsInCurrent, SwitchedIsValidated, Existing
<1> QED BY <1>1, <1>2, StartKeeps, CreateKeeps, LookKeeps, PostKeeps, BulkKeeps DEF Next

LEMMA Invariant == Spec => []IInv
<1> QED BY InitIInv, NextIInv, PTL DEF Spec

(* The type of every variable; in particular no alias points at an index that
   does not exist. *)
THEOREM TypeCorrect == Spec => []TypeOK
<1>1. IInv => TypeOK
  BY DEF IInv
<1> QED BY <1>1, Invariant, PTL

(* A switch leaves both aliases at its index alone, until a switch is made from
   lookups that a switch to another index has outdated. *)
THEOREM SwitchIsExactAlways == Spec => []SwitchIsExact
<1>1. IInv => SwitchIsExact
  BY DEF IInv
<1> QED BY <1>1, Invariant, PTL

(* What is indexed after a switch is found, unless a switch was made from
   outdated lookups. *)
THEOREM IndexedIsFoundAlways == Spec => []IndexedIsFound
<1>1. ASSUME IInv PROVE IndexedIsFound
  <2>1. CASE raced
    BY <2>1 DEF IndexedIsFound
  <2>2. CASE ~raced /\ current = None
    BY <1>1, <2>2 DEF IInv, RecentIsInCurrent, IndexedIsFound
  <2>3. CASE ~raced /\ current # None
    <3>1. current \in alias["read"] /\ recent \subseteq docs[current] /\ recent \subseteq Documents
      BY <1>1, <2>3 DEF IInv, SwitchIsExact, RecentIsInCurrent, TypeOK, Aliases
    <3> QED BY <3>1 DEF IndexedIsFound, Readable
  <2> QED BY <2>1, <2>2, <2>3
<1> QED BY <1>1, Invariant, PTL

(* Only indices of the expected mapping are switched to. *)
THEOREM SwitchedIsValidatedAlways == Spec => []SwitchedIsValidated
<1>1. IInv => SwitchedIsValidated
  BY DEF IInv
<1> QED BY <1>1, Invariant, PTL

(* No step takes the last index from an alias, unless a switch was made from
   outdated lookups, that step's included. *)
THEOREM AliasIsNeverLost == Spec => AliasNeverLost
<1> DEFINE Kept == ~raced' => \A a \in Aliases : alias[a] # {} => alias'[a] # {}
<1>1. ASSUME IInv, [Next]_vars PROVE [Kept]_vars
  <2>1. CASE UNCHANGED alias
    BY <2>1
  <2>2. ASSUME NEW o \in Operators, Post(o) PROVE Kept
    BY <1>1, <2>2, PostIsExact DEF Post, Switched
  <2>3. UNCHANGED alias \/ \E o \in Operators : Post(o)
    BY <1>1 DEF Next, vars, Start, Create, LookUpRead, LookUpWrite, LookUp, PostNothing, Fail, Bulk
  <2> QED BY <2>1, <2>2, <2>3
<1> QED BY <1>1, Invariant, PTL DEF Spec, AliasNeverLost
=============================================================================
