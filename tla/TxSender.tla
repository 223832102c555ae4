------------------------------- MODULE TxSender -------------------------------
(***************************************************************************)
(* The agent's transaction sender, web/src/server/agent/swap/send.ts: one  *)
(* call of signAndSendTx, which signs a list of instructions, broadcasts   *)
(* and confirms the transaction, and signs the same instructions again     *)
(* when the block height of the first has passed.  The chain and the RPC   *)
(* node run beside it: a transaction may land while the sender looks the   *)
(* other way, and any reply may be lost.                                   *)
(* The block height is not counted: a transaction knows in how many more   *)
(* blocks it may be included, and every block takes one off.               *)
(***************************************************************************)
EXTENDS Naturals

CONSTANTS
  SEND_MAX_ATTEMPTS,
  Validity            \* blocks a fresh blockhash is good for

ASSUME SenderAssumption ==
  /\ SEND_MAX_ATTEMPTS \in Nat \ {0}
  /\ Validity \in Nat \ {0}

Attempts == 1..SEND_MAX_ATTEMPTS

VARIABLES
  pc,         \* where the call is
  attempt,    \* the turn of the retry loop
  expired,    \* isBlockHeightExceeded of the error being handled
  left,       \* left[a]: blocks that may still include the transaction of attempt a
  fate,       \* fate[a]: what became of it on the chain
  answer,     \* what the caller was told
  missed      \* history: attempts that took effect and that the last status
              \* request about them did not show

senderVars == <<pc, attempt, expired, left, fate, answer, missed>>

SenderTypeOK ==
  /\ pc \in {"balance", "sign", "send", "confirm", "probe", "lastProbe", "done"}
  /\ attempt \in Attempts
  /\ expired \in BOOLEAN
  /\ left \in [Attempts -> 0..Validity]
  /\ fate \in [Attempts -> {"unsent", "flying", "executed", "failed"}]
  /\ answer \in {"none", "ok", "err", "expired", "thrown"}
  /\ missed \subseteq Attempts

SenderInit ==
  /\ pc = "balance"
  /\ attempt = 1
  /\ expired = FALSE
  /\ left = [a \in Attempts |-> 0]
  /\ fate = [a \in Attempts |-> "unsent"]
  /\ answer = "none"
  /\ missed = {}

-----------------------------------------------------------------------------
(* The chain. *)

CanLand(a) == fate[a] = "flying" /\ left[a] > 0

Landed(a) == fate[a] \in {"executed", "failed"}

(* A leader includes a broadcast transaction; it takes effect or fails,    *)
(* and a failed one changes nothing.                                       *)
Land ==
  \E a \in Attempts :
    /\ CanLand(a)
    /\ \E f \in {"executed", "failed"} : fate' = [fate EXCEPT ![a] = f]
    /\ UNCHANGED <<pc, attempt, expired, left, answer, missed>>

NewBlock ==
  /\ \E a \in Attempts : left[a] > 0
  /\ left' = [a \in Attempts |-> IF left[a] > 0 THEN left[a] - 1 ELSE 0]
  /\ UNCHANGED <<pc, attempt, expired, fate, answer, missed>>

-----------------------------------------------------------------------------
(* The sender. *)

Return(result) == pc' = "done" /\ answer' = result

Outcome(a) == IF fate[a] = "executed" THEN "ok" ELSE "err"

(* A low balance ends the call; a failed balance request does not.         *)
CheckBalance ==
  /\ pc = "balance"
  /\ \/ pc' = "sign" /\ UNCHANGED answer
     \/ Return("err")
  /\ UNCHANGED <<attempt, expired, left, fate, missed>>

(* The blockhash request is tried three times and then throws through      *)
(* every caller; the compilation may refuse the instructions; the node     *)
(* may hand out a blockhash that is some blocks old.                       *)
Sign ==
  /\ pc = "sign"
  /\ \/ /\ \E blocks \in 1..Validity : left' = [left EXCEPT ![attempt] = blocks]
        /\ pc' = "send"
        /\ UNCHANGED answer
     \/ Return("err") /\ UNCHANGED left
     \/ Return("thrown") /\ UNCHANGED left
  /\ UNCHANGED <<attempt, expired, fate, missed>>

(* Accepted, refused by the preflight, or broadcast with the reply lost.   *)
Send ==
  /\ pc = "send"
  /\ \/ /\ fate' = [fate EXCEPT ![attempt] = "flying"]
        /\ pc' = "confirm"
        /\ UNCHANGED answer
     \/ Return("err") /\ UNCHANGED fate
     \/ Return("err") /\ fate' = [fate EXCEPT ![attempt] = "flying"]
  /\ UNCHANGED <<attempt, expired, left, missed>>

(* confirmTransaction resolves with the error of the landed transaction... *)
Confirmed ==
  /\ pc = "confirm"
  /\ Landed(attempt)
  /\ Return(Outcome(attempt))
  /\ UNCHANGED <<attempt, expired, left, fate, missed>>

\* Mutant of BlockHeightExceeded: thrown one block too early.
ExceededEarly ==
  /\ pc = "confirm"
  /\ left[attempt] <= 1
  /\ expired' = TRUE
  /\ pc' = "probe"
  /\ UNCHANGED <<attempt, left, fate, answer, missed>>

\* Mutant of BlockHeightExceeded: confirmed by signature alone, without the
\* last valid block height.
NeverExceeded == pc = "confirm" /\ FALSE /\ UNCHANGED senderVars

(* ... or throws that the block height was exceeded ...                    *)
BlockHeightExceeded ==
  /\ pc = "confirm"
  /\ left[attempt] = 0
  /\ expired' = TRUE
  /\ pc' = "probe"
  /\ UNCHANGED <<attempt, left, fate, answer, missed>>

(* ... or throws for another reason, a dropped websocket for one.          *)
ConfirmFails ==
  /\ pc = "confirm"
  /\ expired' = FALSE
  /\ pc' = "probe"
  /\ UNCHANGED <<attempt, left, fate, answer, missed>>

(* The status request after a throw; a lost reply reads as "not landed".   *)
Probe ==
  /\ pc = "probe"
  /\ \/ Landed(attempt) /\ Return(Outcome(attempt))
     \/ expired /\ pc' = "lastProbe" /\ UNCHANGED answer
     \/ ~expired /\ Return("err")
  /\ UNCHANGED <<attempt, expired, left, fate, missed>>

(* The second status request of an expired attempt; without a transaction  *)
(* that took effect, the loop goes on or gives the expiry to the caller.   *)
SeenExecuted ==
  /\ fate[attempt] = "executed"
  /\ Return("ok")
  /\ UNCHANGED <<attempt, missed>>

NextTurn == attempt' = attempt + 1 /\ pc' = "sign" /\ UNCHANGED answer

Missed == missed' = missed \cup {a \in {attempt} : fate[a] = "executed"}

\* Mutant of NotSeenExecuted: one turn too many.
NotSeenOneMore ==
  /\ IF attempt <= SEND_MAX_ATTEMPTS THEN NextTurn ELSE Return("expired") /\ UNCHANGED attempt
  /\ Missed

\* Mutant of NotSeenExecuted: the last turn gives up without the request.
NotSeenUnasked ==
  IF attempt < SEND_MAX_ATTEMPTS THEN NextTurn /\ Missed
  ELSE Return("expired") /\ UNCHANGED <<attempt, missed>>

(* A request that fails, or one that a lagging node answers, does not show *)
(* a transaction that took effect.                                         *)
NotSeenExecuted ==
  /\ IF attempt < SEND_MAX_ATTEMPTS THEN NextTurn ELSE Return("expired") /\ UNCHANGED attempt
  /\ Missed

LastProbe ==
  /\ pc = "lastProbe"
  /\ SeenExecuted \/ NotSeenExecuted
  /\ UNCHANGED <<expired, left, fate>>

Sender == \/ CheckBalance \/ Sign \/ Send
          \/ Confirmed \/ BlockHeightExceeded \/ ConfirmFails
          \/ Probe \/ LastProbe

SenderNext == Land \/ NewBlock \/ Sender

SenderSpec == SenderInit /\ [][SenderNext]_senderVars

(* Every request to the node is answered or fails, and blocks go on being  *)
(* produced.  Nothing makes a transaction land, and nothing makes a        *)
(* confirmation fail for another reason than the block height.             *)
SenderFairness ==
  /\ WF_senderVars(NewBlock)
  /\ WF_senderVars(CheckBalance \/ Sign \/ Send \/ Probe \/ LastProbe)
  /\ WF_senderVars(Confirmed \/ BlockHeightExceeded)

FairSpec == SenderSpec /\ SenderFairness

-----------------------------------------------------------------------------
(* Properties. *)

Executed == {a \in Attempts : fate[a] = "executed"}

Promise == INSTANCE AtMostOnce WITH executed <- Executed

(* The sender keeps the promise of AtMostOnce: the retry loop of           *)
(* signAndSendTx makes the instructions take effect again only after a     *)
(* status request did not show the transaction that had, "ok" is only said *)
(* of instructions that took effect, and the expiry that the last turn     *)
(* hands out is final and, but for what requests did not show, true.       *)
PromiseSpec == Promise!Spec

(* signAndSendTx signs again only when no transaction it has broadcast     *)
(* can still be included.                                                  *)
NoResendWhileLive == [][attempt' # attempt => \A a \in Attempts : ~CanLand(a)]_senderVars

(* The caller of signAndSendTx is answered, also when the transaction is   *)
(* dropped by every leader and the websocket stays silent: the block       *)
(* height of the blockhash bounds the wait.                                *)
CallerIsAnswered == <>(answer # "none")

=============================================================================
