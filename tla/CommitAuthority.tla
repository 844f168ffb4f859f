--------------------------- MODULE CommitAuthority ---------------------------
(***************************************************************************)
(* What the transaction journal promises its callers: a transaction is     *)
(* decided at most once and for good, "committed" is answered only for a   *)
(* decided transaction, and a transaction whose commit was answered        *)
(* "failed" is never decided.  After "unknown" either outcome is possible. *)
(***************************************************************************)
CONSTANT Txn
VARIABLES decided, answer

Answers == {"none", "committed", "failed", "unknown"}

Init == decided = {} /\ answer = [t \in Txn |-> "none"]

\* A set of decisions becomes durable, and at most one caller is answered.
Step ==
  /\ decided \subseteq decided'
  /\ \A t \in decided' \ decided : answer'[t] # "failed"
  /\ \/ answer' = answer
     \/ \E t \in Txn, a \in Answers \ {"none"} :
          /\ answer[t] = "none"
          /\ answer' = [answer EXCEPT ![t] = a]
          /\ a = "committed" => t \in decided'
          /\ a = "failed" => t \notin decided'

Spec == Init /\ [][Step]_<<decided, answer>>
=============================================================================
