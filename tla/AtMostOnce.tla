------------------------------ MODULE AtMostOnce ------------------------------
(***************************************************************************)
(* What the agent's transaction sender promises a caller that hands it a   *)
(* list of instructions: they take effect once more only after a           *)
(* transaction that did was missed, "ok" means that they took effect, and  *)
(* "expired" that they never will any more and, unless they were missed,   *)
(* did not.  After the other answers they may still take effect.  Without  *)
(* misses this is at most once.                                            *)
(***************************************************************************)
CONSTANT Attempts    \* the transactions the instructions may be signed into

VARIABLES
  executed,          \* the transactions that took effect
  missed,            \* those of them that a status request did not show
  answer             \* what the caller was told, "none" before

vars == <<executed, missed, answer>>

Init == /\ executed = {}
        /\ missed = {}
        /\ answer = "none"

Execute == /\ executed \subseteq missed
           /\ answer # "expired"
           /\ \E a \in Attempts \ executed : executed' = executed \cup {a}
           /\ UNCHANGED <<missed, answer>>

(* A status request is answered; it may have missed one transaction, and   *)
(* the caller may be told at once.                                         *)
Ask == /\ answer = "none"
       /\ missed' \in {missed} \cup {missed \cup {a} : a \in executed}
       /\ \/ answer' \in {"none", "err", "thrown"}
          \/ answer' = "ok" /\ ~(executed \subseteq missed')
          \/ answer' = "expired" /\ executed \subseteq missed'
       /\ UNCHANGED executed

Next == Execute \/ Ask

Spec == Init /\ [][Next]_vars
=============================================================================
