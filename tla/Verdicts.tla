------------------------------ MODULE Verdicts ------------------------------
(***************************************************************************)
(* What the evaluation of a definitions document promises to those who     *)
(* read its results: every definition and every test gets one verdict, in  *)
(* whatever order, and the results document shows each of them at most     *)
(* once and with that verdict.                                             *)
(***************************************************************************)
CONSTANTS Subject,   \* what can have a verdict
          Verdict    \* the verdicts there are

VARIABLES verdict,   \* the subjects that have one -> their verdict
          published  \* what the results document shows

Init == verdict = [s \in {} |-> "error"] /\ published = {}

Decided == DOMAIN verdict
Published == {e.node : e \in published}

Decide(s, v) ==
  /\ s \notin Decided
  /\ verdict' = [t \in Decided \cup {s} |-> IF t = s THEN v ELSE verdict[t]]
  /\ UNCHANGED published

Publish(s) ==
  /\ s \in Decided \ Published
  /\ published' = published \cup {[node |-> s, result |-> verdict[s]]}
  /\ UNCHANGED verdict

Next == \E s \in Subject : (\E v \in Verdict : Decide(s, v)) \/ Publish(s)

vars == <<verdict, published>>

Spec == Init /\ [][Next]_vars
=============================================================================
