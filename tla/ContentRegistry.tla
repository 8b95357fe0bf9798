--------------------------- MODULE ContentRegistry ---------------------------
(***************************************************************************)
(* What the upload endpoint promises of one content in one knowledge base, *)
(* whatever happens to files, transactions and processes: it is recorded   *)
(* at most once and for good, every call is answered at most once, and an  *)
(* answer that succeeds names what is recorded.  Module Upload implements  *)
(* it.                                                                     *)
(***************************************************************************)

CONSTANTS Requests,   \* uploads of the content
          None

VARIABLES recorded,   \* the upload that created document, version and job
          answer,     \* upload -> how it was answered
          names       \* upload -> the recorded upload its answer names

vars == <<recorded, answer, names>>

Init == /\ recorded = None
        /\ answer = [r \in Requests |-> "none"]
        /\ names = [r \in Requests |-> None]

Reply(r, how, whose) == /\ answer[r] = "none"
                        /\ answer' = [answer EXCEPT ![r] = how]
                        /\ names' = [names EXCEPT ![r] = whose]

(* The content is recorded; the upload that did it may not hear of it. *)
Record(r) == /\ recorded = None
             /\ recorded' = r
             /\ Reply(r, "new", r) \/ Reply(r, "error", None)

Find(r) == /\ recorded # None
           /\ Reply(r, "existing", recorded)
           /\ UNCHANGED recorded

(* No such knowledge base, or a failure. *)
Refuse(r) == /\ Reply(r, "missing", None) \/ Reply(r, "error", None)
             /\ UNCHANGED recorded

Next == \E r \in Requests : Record(r) \/ Find(r) \/ Refuse(r)

Spec == Init /\ [][Next]_vars
===============================================================================
