----------------------------- MODULE AgentProofs -----------------------------
(***************************************************************************)
(* Proofs about the agent: its transaction sender, for any number of       *)
(* attempts and any life of a blockhash, and the rebalance jobs that send  *)
(* through it, for any tokens, strategy, prices, balances and number of    *)
(* calls.  The sender never signs again while an earlier transaction can   *)
(* still land, and keeps the promise of AtMostOnce, whatever its requests  *)
(* about a transaction's status show.  A job reports truly what            *)
(* its transactions did, whatever is misread, lost, late or killed and     *)
(* however the calls interleave; one that saw everything and had the Safe  *)
(* to itself leaves it as it was asked to.                                 *)
(***************************************************************************)
EXTENDS TxSender, Rebalance, SumLemmas, SequenceTheorems


-----------------------------------------------------------------------------
(* The sender's invariant.  At most the transaction of the current turn    *)
(* is alive: the earlier ones are past their block height and without      *)
(* effect or missed; the later ones are not signed.                        *)

EarlierDead ==
  \A a \in Attempts : a < attempt =>
    /\ left[a] = 0
    /\ fate[a] = "executed" => a \in missed

LaterUntouched ==
  \A a \in Attempts : a > attempt => left[a] = 0 /\ fate[a] = "unsent"

UnsentBeforeSend == pc \in {"balance", "sign", "send"} => fate[attempt] = "unsent"

ExpiryIsReal ==
  (pc = "lastProbe" \/ (pc = "probe" /\ expired)) => left[attempt] = 0

AnswerIsTrue ==
  /\ answer = "ok" => fate[attempt] = "executed"
  /\ answer = "expired" =>
       /\ left[attempt] = 0
       /\ fate[attempt] = "executed" => attempt \in missed

DoneWhenAnswered == pc = "done" <=> answer # "none"

(* What was missed belongs to the turns that are over.                     *)
MissedIsOver == answer = "none" => \A a \in missed : a < attempt

SenderInv ==
  /\ SenderTypeOK /\ EarlierDead /\ LaterUntouched /\ UnsentBeforeSend
  /\ ExpiryIsReal /\ AnswerIsTrue /\ DoneWhenAnswered /\ MissedIsOver

(* Nothing is signed before the first turn.                                *)
LEMMA SenderStarts == SenderInit => SenderInv
<1>1. 1 \in Attempts /\ 0 \in 0..Validity
  BY SenderAssumption DEF Attempts
<1>. QED
  BY <1>1 DEF SenderInit, SenderInv, SenderTypeOK, EarlierDead, LaterUntouched, UnsentBeforeSend,
              ExpiryIsReal, AnswerIsTrue, DoneWhenAnswered, MissedIsOver, Attempts

(* Only the transaction of the current turn can land.                      *)
LEMMA OnlyCurrentLands ==
  ASSUME SenderInv, NEW a \in Attempts, CanLand(a)
  PROVE  a = attempt
<1>1. a \in Nat /\ attempt \in Nat /\ left[a] # 0
  BY DEF SenderInv, SenderTypeOK, CanLand, Attempts
<1>2. ~(a < attempt) /\ ~(a > attempt)
  BY <1>1 DEF SenderInv, EarlierDead, LaterUntouched
<1>. QED
  BY <1>1, <1>2

(* What the chain includes is the transaction of the current turn, and it  *)
(* had not been answered for.                                              *)
LEMMA LandKeeps == SenderInv /\ Land => SenderInv'
<1>. SUFFICES ASSUME SenderInv, Land PROVE SenderInv'
  OBVIOUS
<1>1. PICK f \in {"executed", "failed"} :
        /\ CanLand(attempt)
        /\ fate' = [fate EXCEPT ![attempt] = f]
        /\ UNCHANGED <<pc, attempt, expired, left, answer, missed>>
  BY OnlyCurrentLands DEF Land
<1>2. attempt \in Attempts /\ fate[attempt] = "flying" /\ left[attempt] # 0
  BY <1>1 DEF SenderInv, SenderTypeOK, CanLand
<1>3. SenderTypeOK'
  BY <1>1, <1>2 DEF SenderInv, SenderTypeOK
<1>4. EarlierDead' /\ LaterUntouched'
  BY <1>1, <1>2 DEF SenderInv, SenderTypeOK, EarlierDead, LaterUntouched, Attempts
<1>5. /\ UnsentBeforeSend' /\ ExpiryIsReal' /\ AnswerIsTrue' /\ DoneWhenAnswered'
      /\ MissedIsOver'
  BY <1>1, <1>2 DEF SenderInv, UnsentBeforeSend, ExpiryIsReal, AnswerIsTrue, DoneWhenAnswered,
     MissedIsOver
<1>. QED
  BY <1>3, <1>4, <1>5 DEF SenderInv

(* A block takes life from transactions and gives none.                    *)
LEMMA NewBlockKeeps == SenderInv /\ NewBlock => SenderInv'
<1>. SUFFICES ASSUME SenderInv, NewBlock PROVE SenderInv'
  OBVIOUS
<1>1. \A a \in Attempts : left'[a] \in 0..Validity /\ (left[a] = 0 => left'[a] = 0)
  BY SenderAssumption DEF SenderInv, SenderTypeOK, NewBlock
<1>2. attempt \in Attempts /\ UNCHANGED <<pc, attempt, expired, fate, answer, missed>>
  BY DEF SenderInv, SenderTypeOK, NewBlock
<1>3. SenderTypeOK'
  BY <1>1, <1>2 DEF SenderInv, SenderTypeOK, NewBlock
<1>4. EarlierDead' /\ LaterUntouched'
  BY <1>1, <1>2 DEF SenderInv, EarlierDead, LaterUntouched
<1>5. /\ UnsentBeforeSend' /\ ExpiryIsReal' /\ AnswerIsTrue' /\ DoneWhenAnswered'
      /\ MissedIsOver'
  BY <1>1, <1>2 DEF SenderInv, UnsentBeforeSend, ExpiryIsReal, AnswerIsTrue, DoneWhenAnswered,
     MissedIsOver
<1>. QED
  BY <1>3, <1>4, <1>5 DEF SenderInv

(* The steps that stay in one turn of the retry loop.                      *)
LEMMA WithinTurnKeeps ==
  SenderInv /\ (CheckBalance \/ Sign \/ Send) => SenderInv'
<1>. SUFFICES ASSUME SenderInv, CheckBalance \/ Sign \/ Send PROVE SenderInv'
  OBVIOUS
<1>. USE DEF SenderInv
<1>1. /\ attempt \in Attempts /\ attempt' = attempt /\ missed' = missed
      /\ fate[attempt] = "unsent" /\ answer = "none"
  BY DEF SenderTypeOK, UnsentBeforeSend, DoneWhenAnswered, CheckBalance, Sign, Send
<1>2. /\ left' \in [Attempts -> 0..Validity]
      /\ \A a \in Attempts : a # attempt => left'[a] = left[a]
  BY <1>1, SenderAssumption DEF SenderTypeOK, CheckBalance, Sign, Send
<1>3. /\ fate' \in [Attempts -> {"unsent", "flying", "executed", "failed"}]
      /\ \A a \in Attempts : a # attempt => fate'[a] = fate[a]
      /\ fate'[attempt] # "executed"
      /\ pc' \in {"sign", "send"} => fate' = fate
  BY <1>1 DEF SenderTypeOK, CheckBalance, Sign, Send, Return
<1>4. /\ expired' = expired
      /\ \/ pc' \in {"sign", "send", "confirm"} /\ answer' = "none"
         \/ pc' = "done" /\ answer' \in {"err", "thrown"}
  BY <1>1 DEF CheckBalance, Sign, Send, Return
<1>5. SenderTypeOK'
  BY <1>1, <1>2, <1>3, <1>4 DEF SenderTypeOK
<1>6. EarlierDead' /\ LaterUntouched'
  BY <1>1, <1>2, <1>3 DEF SenderTypeOK, EarlierDead, LaterUntouched, Attempts
<1>7. /\ UnsentBeforeSend' /\ ExpiryIsReal' /\ AnswerIsTrue' /\ DoneWhenAnswered'
      /\ MissedIsOver'
  BY <1>1, <1>3, <1>4
  DEF UnsentBeforeSend, ExpiryIsReal, AnswerIsTrue, DoneWhenAnswered, MissedIsOver
<1>. QED
  BY <1>5, <1>6, <1>7

(* A confirmation and the status request after it: an expiry is only       *)
(* believed of a transaction that is past its block height.                *)
LEMMA ConfirmKeeps ==
  SenderInv /\ (Confirmed \/ BlockHeightExceeded \/ ConfirmFails \/ Probe) => SenderInv'
<1>. SUFFICES ASSUME SenderInv, Confirmed \/ BlockHeightExceeded \/ ConfirmFails \/ Probe
              PROVE  SenderInv'
  OBVIOUS
<1>. USE DEF SenderInv
<1>1. UNCHANGED <<attempt, left, fate, missed>> /\ answer = "none"
  BY DEF DoneWhenAnswered, Confirmed, BlockHeightExceeded, ConfirmFails, Probe
<1>2. /\ expired' \in BOOLEAN
      /\ \/ pc' \in {"probe", "lastProbe"} /\ answer' = "none"
         \/ pc' = "done" /\ answer' = "err"
         \/ pc' = "done" /\ answer' = "ok" /\ fate[attempt] = "executed"
  BY <1>1 DEF SenderTypeOK, Confirmed, BlockHeightExceeded, ConfirmFails, Probe, Return, Outcome
<1>3. SenderTypeOK'
  BY <1>1, <1>2 DEF SenderTypeOK
<1>4. EarlierDead' /\ LaterUntouched'
  BY <1>1 DEF EarlierDead, LaterUntouched
<1>5. ExpiryIsReal'
  BY <1>1, <1>2 DEF ExpiryIsReal, Confirmed, BlockHeightExceeded, ConfirmFails, Probe, Return
<1>6. UnsentBeforeSend' /\ AnswerIsTrue' /\ DoneWhenAnswered' /\ MissedIsOver'
  BY <1>1, <1>2 DEF UnsentBeforeSend, AnswerIsTrue, DoneWhenAnswered, MissedIsOver
<1>. QED
  BY <1>3, <1>4, <1>5, <1>6

(* The second status request: the transaction it asks for is past its block*)
(* height, so the next turn leaves a dead one behind.                      *)
LEMMA LastProbeKeeps == SenderInv /\ LastProbe => SenderInv'
<1>. SUFFICES ASSUME SenderInv, LastProbe PROVE SenderInv'
  OBVIOUS
<1>. USE DEF SenderInv
<1>1. /\ attempt \in Attempts /\ left[attempt] = 0 /\ answer = "none"
      /\ UNCHANGED <<expired, left, fate>>
  BY DEF SenderTypeOK, ExpiryIsReal, DoneWhenAnswered, LastProbe
<1>2. CASE SeenExecuted
  BY <1>1, <1>2 DEF SeenExecuted, Return, SenderTypeOK, EarlierDead, LaterUntouched,
     UnsentBeforeSend, ExpiryIsReal, AnswerIsTrue, DoneWhenAnswered, MissedIsOver
<1>3. ASSUME NotSeenExecuted
      PROVE  /\ missed' \subseteq missed \cup {attempt} /\ missed \subseteq missed'
             /\ fate[attempt] = "executed" => attempt \in missed'
             /\ missed' \subseteq Attempts
             /\ \A a \in missed : a < attempt
  BY <1>1, <1>3 DEF NotSeenExecuted, Missed, SenderTypeOK, MissedIsOver
<1>4. CASE NotSeenExecuted /\ attempt < SEND_MAX_ATTEMPTS
  <2>1. /\ attempt' = attempt + 1 /\ attempt' \in Attempts
        /\ pc' = "sign" /\ answer' = "none"
    BY <1>1, <1>4, SenderAssumption DEF NotSeenExecuted, NextTurn, Attempts
  <2>2. SenderTypeOK'
    BY <1>1, <1>3, <1>4, <2>1 DEF SenderTypeOK
  <2>3. EarlierDead'
    <3>. SUFFICES ASSUME NEW a \in Attempts, a < attempt'
                  PROVE  left[a] = 0 /\ (fate[a] = "executed" => a \in missed')
      BY <1>1 DEF EarlierDead
    <3>1. a < attempt \/ a = attempt
      BY <1>1, <2>1 DEF Attempts
    <3>. QED
      BY <1>1, <1>3, <1>4, <3>1 DEF EarlierDead
  <2>4. LaterUntouched' /\ fate'[attempt'] = "unsent"
    BY <1>1, <2>1 DEF LaterUntouched, Attempts
  <2>5. UnsentBeforeSend' /\ ExpiryIsReal' /\ AnswerIsTrue' /\ DoneWhenAnswered'
    BY <2>1, <2>4 DEF UnsentBeforeSend, ExpiryIsReal, AnswerIsTrue, DoneWhenAnswered
  <2>6. MissedIsOver'
    <3>. SUFFICES ASSUME NEW a \in missed' PROVE a < attempt'
      BY DEF MissedIsOver
    <3>1. a \in Nat /\ attempt \in Nat /\ (a < attempt \/ a = attempt)
      BY <1>1, <1>3, <1>4 DEF Attempts
    <3>. QED
      BY <2>1, <3>1
  <2>. QED
    BY <2>2, <2>3, <2>4, <2>5, <2>6
<1>5. CASE NotSeenExecuted /\ ~(attempt < SEND_MAX_ATTEMPTS)
  <2>1. attempt' = attempt /\ pc' = "done" /\ answer' = "expired"
    BY <1>5 DEF NotSeenExecuted, Return
  <2>. QED
    BY <1>1, <1>3, <1>5, <2>1 DEF SenderTypeOK, EarlierDead, LaterUntouched,
       UnsentBeforeSend, ExpiryIsReal, AnswerIsTrue, DoneWhenAnswered, MissedIsOver
<1>. QED
  BY <1>2, <1>4, <1>5 DEF LastProbe

(* Every step of the sender and of the chain beside it.                    *)
LEMMA SenderStep == SenderInv /\ [SenderNext]_senderVars => SenderInv'
<1>. SUFFICES ASSUME SenderInv, [SenderNext]_senderVars PROVE SenderInv'
  OBVIOUS
<1>1. CASE SenderNext
  BY <1>1, LandKeeps, NewBlockKeeps, WithinTurnKeeps, ConfirmKeeps, LastProbeKeeps
  DEF SenderNext, Sender
<1>2. CASE UNCHANGED senderVars
  BY <1>2 DEF senderVars, SenderInv, SenderTypeOK, EarlierDead, LaterUntouched, UnsentBeforeSend,
              ExpiryIsReal, AnswerIsTrue, DoneWhenAnswered, MissedIsOver
<1>. QED
  BY <1>1, <1>2

(* Hence the invariant holds in every behaviour.                           *)
LEMMA SenderInvariant == SenderSpec => []SenderInv
<1>. QED
  BY SenderStarts, SenderStep, PTL DEF SenderSpec

-----------------------------------------------------------------------------
(* The state of signAndSendTx has its types: the loop variable never       *)
(* leaves the attempts, whatever is thrown at it.                          *)
THEOREM SenderTypeCorrect == SenderSpec => []SenderTypeOK
<1>1. SenderInv => SenderTypeOK
  BY DEF SenderInv
<1>. QED
  BY <1>1, SenderInvariant, PTL

(* The retry loop of signAndSendTx signs the instructions again only when  *)
(* nothing it broadcast can land any more, whatever the status requests    *)
(* answer: the last valid block height alone guards this.                  *)
THEOREM ResendsOnlyTheDead == SenderSpec => NoResendWhileLive
<1>1. SenderInv /\ [SenderNext]_senderVars =>
        [attempt' # attempt => \A a \in Attempts : ~CanLand(a)]_senderVars
  <2>. SUFFICES ASSUME SenderInv, [SenderNext]_senderVars, attempt' # attempt,
                       NEW a \in Attempts, CanLand(a)
                PROVE  FALSE
    OBVIOUS
  <2>1. LastProbe
    BY DEF SenderNext, Sender, senderVars, Land, NewBlock, CheckBalance, Sign, Send, Confirmed,
           BlockHeightExceeded, ConfirmFails, Probe
  <2>2. a = attempt /\ left[attempt] = 0
    BY <2>1, OnlyCurrentLands DEF LastProbe, SenderInv, ExpiryIsReal
  <2>3. left[a] > 0
    BY DEF CanLand
  <2>. QED
    BY <2>2, <2>3
<1>. QED
  BY <1>1, SenderInvariant, PTL DEF SenderSpec, NoResendWhileLive

-----------------------------------------------------------------------------
(* The sender implements AtMostOnce. *)

(* Nothing has been executed and nothing answered at the start.            *)
LEMMA PromiseInit == SenderInit => Promise!Init
BY DEF SenderInit, Promise!Init, Executed

(* But for the transaction of the current turn, only one that was missed   *)
(* can have taken effect.                                                  *)
LEMMA ExecutedBefore ==
  ASSUME SenderInv
  PROVE  /\ Executed \subseteq {attempt} \cup missed
         /\ answer = "none" => attempt \notin missed
<1>1. ASSUME NEW a \in Executed, a # attempt PROVE a \in missed
  <2>1. a \in Attempts /\ fate[a] = "executed" /\ a \in Nat /\ attempt \in Nat
    BY DEF Executed, SenderInv, SenderTypeOK, Attempts
  <2>2. ~(a > attempt)
    BY <2>1 DEF SenderInv, LaterUntouched
  <2>3. a < attempt
    BY <1>1, <2>1, <2>2
  <2>. QED
    BY <2>1, <2>3 DEF SenderInv, EarlierDead
<1>2. attempt \in Nat
  BY DEF SenderInv, SenderTypeOK, Attempts
<1>. QED
  BY <1>1, <1>2 DEF SenderInv, MissedIsOver

(* A transaction that lands is the first to take effect that was not       *)
(* missed, and nobody was told that it had expired.                        *)
LEMMA LandKeepsPromise ==
  ASSUME SenderInv, Land
  PROVE  [Promise!Next]_(Promise!vars)
<1>1. PICK f \in {"executed", "failed"} :
        /\ CanLand(attempt) /\ fate' = [fate EXCEPT ![attempt] = f]
        /\ answer' = answer /\ missed' = missed
  BY OnlyCurrentLands DEF Land
<1>2. /\ attempt \in Attempts /\ fate \in [Attempts -> {"unsent", "flying", "executed", "failed"}]
      /\ fate[attempt] = "flying" /\ left[attempt] # 0
  BY <1>1 DEF SenderInv, SenderTypeOK, CanLand
<1>3. Executed \subseteq missed /\ attempt \notin Executed
  BY <1>2, ExecutedBefore DEF Executed
<1>4. CASE f = "executed"
  <2>1. Executed' = Executed \cup {attempt}
    BY <1>1, <1>2, <1>4 DEF Executed
  <2>2. answer # "expired"
    BY <1>2 DEF SenderInv, AnswerIsTrue
  <2>. QED
    BY <1>1, <1>2, <1>3, <2>1, <2>2 DEF Promise!Next, Promise!Execute
<1>5. CASE f = "failed"
  <2>1. Executed' = Executed
    BY <1>1, <1>2, <1>3, <1>5 DEF Executed
  <2>. QED
    BY <1>1, <2>1 DEF Promise!vars
<1>. QED
  BY <1>1, <1>4, <1>5

(* A step of the sender executes nothing, and what it answers is true of   *)
(* what was executed and not missed.                                       *)
LEMMA SenderKeepsPromise ==
  ASSUME SenderInv, NewBlock \/ Sender
  PROVE  [Promise!Next]_(Promise!vars)
<1>1. Executed' = Executed
  <2>1. CASE fate' = fate
    BY <2>1 DEF Executed
  <2>2. CASE Send /\ fate' = [fate EXCEPT ![attempt] = "flying"]
    BY <2>2 DEF Executed, SenderInv, SenderTypeOK, UnsentBeforeSend, Send
  <2>. QED
    BY <2>1, <2>2 DEF NewBlock, Sender, CheckBalance, Sign, Send, Confirmed,
       BlockHeightExceeded, ConfirmFails, Probe, LastProbe
<1>2. missed' \in {missed} \cup {missed \cup {a} : a \in Executed}
  <2>1. CASE missed' = missed
    BY <2>1
  <2>2. CASE Missed
    <3>1. CASE fate[attempt] = "executed"
      <4>1. attempt \in Executed /\ missed' = missed \cup {attempt}
        BY <2>2, <3>1 DEF Missed, Executed, SenderInv, SenderTypeOK
      <4>. QED
        BY <4>1
    <3>2. CASE fate[attempt] # "executed"
      BY <2>2, <3>2 DEF Missed
    <3>. QED
      BY <3>1, <3>2
  <2>. QED
    BY <2>1, <2>2 DEF NewBlock, Sender, CheckBalance, Sign, Send, Confirmed, Probe,
       BlockHeightExceeded, ConfirmFails, LastProbe, SeenExecuted, NotSeenExecuted
<1>3. CASE answer = "none"
  <2>1. \/ answer' \in {"none", "err", "thrown"}
        \/ answer' = "ok" /\ fate[attempt] = "executed" /\ missed' = missed
        \/ answer' = "expired" /\ Missed
    BY <1>3 DEF NewBlock, Sender, CheckBalance, Sign, Send, Confirmed, BlockHeightExceeded,
       ConfirmFails, Probe, LastProbe, SeenExecuted, NotSeenExecuted, NextTurn, Return, Outcome
  <2>2. CASE answer' = "ok" /\ fate[attempt] = "executed" /\ missed' = missed
    <3>1. attempt \in Executed /\ attempt \notin missed'
      BY <1>3, <2>2, ExecutedBefore DEF Executed, SenderInv, SenderTypeOK
    <3>. QED
      BY <1>1, <1>2, <1>3, <2>2, <3>1 DEF Promise!Next, Promise!Ask
  <2>3. CASE answer' = "expired" /\ Missed
    <3>1. Executed \subseteq missed'
      BY <2>3, ExecutedBefore DEF Missed, Executed
    <3>. QED
      BY <1>1, <1>2, <1>3, <2>3, <3>1 DEF Promise!Next, Promise!Ask
  <2>4. CASE answer' \in {"none", "err", "thrown"}
    BY <1>1, <1>2, <1>3, <2>4 DEF Promise!Next, Promise!Ask
  <2>. QED
    BY <2>1, <2>2, <2>3, <2>4
<1>4. CASE answer # "none"
  <2>1. pc = "done"
    BY <1>4 DEF SenderInv, DoneWhenAnswered
  <2>2. answer' = answer /\ missed' = missed
    BY <2>1 DEF NewBlock, Sender, CheckBalance, Sign, Send, Confirmed, BlockHeightExceeded,
       ConfirmFails, Probe, LastProbe
  <2>. QED
    BY <1>1, <2>2 DEF Promise!vars
<1>. QED
  BY <1>3, <1>4

(* Whatever the status requests of signAndSendTx show or fail to show, the *)
(* instructions take effect once more only after a transaction that did    *)
(* was missed, "ok" is said only of instructions that took effect, and the *)
(* expiry it returns is final.                                             *)
THEOREM SenderImplementsAtMostOnce == SenderSpec => PromiseSpec
<1>1. SenderInv /\ [SenderNext]_senderVars => [Promise!Next]_(Promise!vars)
  <2>. SUFFICES ASSUME SenderInv, [SenderNext]_senderVars PROVE [Promise!Next]_(Promise!vars)
    OBVIOUS
  <2>1. CASE UNCHANGED senderVars
    BY <2>1 DEF senderVars, Promise!vars, Executed
  <2>. QED
    BY <2>1, LandKeepsPromise, SenderKeepsPromise DEF SenderNext
<1>. QED
  BY <1>1, PromiseInit, SenderInvariant, PTL DEF SenderSpec, PromiseSpec, Promise!Spec

-----------------------------------------------------------------------------
(* Lists built one entry after the other.                                  *)

(* The recursions of FlattenSeq and of InOrder, up to an entry.            *)
IsFlat(s, k, f) == f = [i \in 1 .. k |-> IF i = 1 THEN s[i] ELSE f[i - 1] \o s[i]]

IsInOrder(tokens, swap, k, f) ==
  f = [n \in 0 .. k |->
        IF n = 0 THEN <<>>
        ELSE IF Allocations[n] \in tokens THEN Append(f[n - 1], swap[Allocations[n]])
        ELSE f[n - 1]]

(* The recursion of FlattenSeq defines a function.                         *)
LEMMA FlatExists ==
  ASSUME NEW s, NEW N \in Nat
  PROVE  \E f : IsFlat(s, N, f)
<1>. DEFINE P == {k \in 0 .. N : \E f : IsFlat(s, k, f)}
<1>1. 0 \in P
  <2>1. IsFlat(s, 0, [i \in 1 .. 0 |-> s[i]])
    BY DEF IsFlat
  <2>. QED
    BY <2>1
<1>2. ASSUME NEW n \in 1 .. N, n - 1 \in P PROVE n \in P
  <2>1. PICK g : IsFlat(s, n - 1, g)
    BY <1>2
  <2>. DEFINE last == IF n = 1 THEN s[n] ELSE g[n - 1] \o s[n]
              h == [i \in 1 .. n |-> IF i = n THEN last ELSE g[i]]
  <2>2. ASSUME NEW i \in 1 .. n PROVE h[i] = IF i = 1 THEN s[i] ELSE h[i - 1] \o s[i]
    <3>1. CASE i = n
      BY <3>1
    <3>2. CASE i # n
      <4>1. i \in 1 .. n - 1
        BY <3>2
      <4>2. g[i] = IF i = 1 THEN s[i] ELSE g[i - 1] \o s[i]
        BY <2>1, <4>1 DEF IsFlat
      <4>3. i = 1 \/ h[i - 1] = g[i - 1]
        BY <4>1
      <4>. QED
        BY <3>2, <4>2, <4>3
    <3>. QED
      BY <3>1, <3>2
  <2>3. IsFlat(s, n, h)
    BY <2>2 DEF IsFlat
  <2>. QED
    BY <2>3
<1>. HIDE DEF P
<1>3. N \in P
  BY <1>1, <1>2, UpTo
<1>. QED
  BY <1>3 DEF P

(* So does the recursion of InOrder.                                       *)
LEMMA InOrderExists ==
  ASSUME NEW tokens, NEW swap, NEW N \in Nat
  PROVE  \E f : IsInOrder(tokens, swap, N, f)
<1>. DEFINE P == {k \in 0 .. N : \E f : IsInOrder(tokens, swap, k, f)}
<1>1. 0 \in P
  <2>1. IsInOrder(tokens, swap, 0, [n \in 0 .. 0 |-> <<>>])
    BY DEF IsInOrder
  <2>. QED
    BY <2>1
<1>2. ASSUME NEW n \in 1 .. N, n - 1 \in P PROVE n \in P
  <2>1. PICK g : IsInOrder(tokens, swap, n - 1, g)
    BY <1>2
  <2>. DEFINE last == IF Allocations[n] \in tokens THEN Append(g[n - 1], swap[Allocations[n]])
                      ELSE g[n - 1]
              h == [i \in 0 .. n |-> IF i = n THEN last ELSE g[i]]
  <2>2. ASSUME NEW i \in 0 .. n
        PROVE  h[i] = IF i = 0 THEN <<>>
                      ELSE IF Allocations[i] \in tokens THEN Append(h[i - 1], swap[Allocations[i]])
                      ELSE h[i - 1]
    <3>1. CASE i = n
      BY <3>1
    <3>2. CASE i # n
      <4>1. i \in 0 .. n - 1
        BY <3>2
      <4>2. g[i] = IF i = 0 THEN <<>>
                   ELSE IF Allocations[i] \in tokens THEN Append(g[i - 1], swap[Allocations[i]])
                   ELSE g[i - 1]
        BY <2>1, <4>1 DEF IsInOrder
      <4>3. i = 0 \/ h[i - 1] = g[i - 1]
        BY <4>1
      <4>. QED
        BY <3>2, <4>2, <4>3
    <3>. QED
      BY <3>1, <3>2
  <2>3. IsInOrder(tokens, swap, n, h)
    BY <2>2 DEF IsInOrder
  <2>. QED
    BY <2>3
<1>. HIDE DEF P
<1>3. N \in P
  BY <1>1, <1>2, UpTo
<1>. QED
  BY <1>3 DEF P

(* Joined lists of some type are a list of that type, and not empty if the *)
(* last of them is not.                                                    *)
LEMMA FlattenType ==
  ASSUME NEW S, NEW N \in Nat \ {0}, NEW s \in [1 .. N -> Seq(S)], s[N] # <<>>
  PROVE  FlattenSeq(s) \in Seq(S) /\ FlattenSeq(s) # <<>>
<1>1. s \in Seq(Seq(S)) /\ Len(s) = N
  OBVIOUS
<1>2. PICK f : IsFlat(s, N, f) /\ FlattenSeq(s) = f[N]
  <2>. DEFINE f == CHOOSE f : IsFlat(s, N, f)
  <2>1. IsFlat(s, N, f)
    BY FlatExists
  <2>2. FlattenSeq(s) = f[N]
    BY <1>1 DEF FlattenSeq, IsFlat
  <2>. QED
    BY <2>1, <2>2
<1>e. \A n \in 1 .. N : f[n] = IF n = 1 THEN s[n] ELSE f[n - 1] \o s[n]
  BY <1>2 DEF IsFlat
<1>. DEFINE P == {k \in 0 .. N : k = 0 \/ f[k] \in Seq(S)}
<1>3. 0 \in P
  OBVIOUS
<1>4. ASSUME NEW n \in 1 .. N, n - 1 \in P PROVE n \in P
  <2>1. n = 1 \/ f[n - 1] \in Seq(S)
    BY <1>4
  <2>2. f[n] = s[n] \/ (n # 1 /\ f[n] = f[n - 1] \o s[n])
    BY <1>e
  <2>3. s[n] \in Seq(S)
    OBVIOUS
  <2>4. PICK more \in Seq(S) : more = s[n]
    BY <2>3
  <2>5. ASSUME n # 1, f[n] = f[n - 1] \o s[n] PROVE f[n] \in Seq(S)
    <3>1. PICK before \in Seq(S) : before = f[n - 1]
      BY <2>1, <2>5
    <3>2. before \o more \in Seq(S)
      OBVIOUS
    <3>. QED
      BY <2>4, <2>5, <3>1, <3>2
  <2>6. f[n] \in Seq(S)
    BY <2>2, <2>3, <2>5
  <2>. QED
    BY <2>6
<1>. HIDE DEF P
<1>5. N \in P /\ N - 1 \in P
  <2>1. 0 .. N \subseteq P
    BY <1>3, <1>4, UpTo
  <2>. QED
    BY <2>1
<1>6. f[N] = IF N = 1 THEN s[N] ELSE f[N - 1] \o s[N]
  BY <1>e
<1>7. N = 1 \/ f[N - 1] \in Seq(S)
  BY <1>5 DEF P
<1>8. f[N] \in Seq(S)
  BY <1>5 DEF P
<1>9. f[N] # <<>>
  BY <1>6, <1>7
<1>. QED
  BY <1>2, <1>8, <1>9

(* What is listed in the order of the strategy is a sequence of swaps.     *)
LEMMA InOrderType ==
  ASSUME NEW tokens, NEW swap, \A t \in tokens : swap[t] \in Swap
  PROVE  InOrder(tokens, swap) \in Seq(Swap)
<1>1. Len(Allocations) \in Nat
  BY RebalanceAssumption
<1>2. PICK f : IsInOrder(tokens, swap, Len(Allocations), f)
               /\ InOrder(tokens, swap) = f[Len(Allocations)]
  <2>. DEFINE f == CHOOSE f : IsInOrder(tokens, swap, Len(Allocations), f)
  <2>1. IsInOrder(tokens, swap, Len(Allocations), f)
    BY <1>1, InOrderExists
  <2>2. InOrder(tokens, swap) = f[Len(Allocations)]
    BY DEF InOrder, IsInOrder
  <2>. QED
    BY <2>1, <2>2
<1>l. PICK N \in Nat : N = Len(Allocations)
  BY <1>1
<1>z. f[0] = <<>>
  BY <1>2, <1>l DEF IsInOrder
<1>e. \A n \in 1 .. N : f[n] = IF Allocations[n] \in tokens
                             THEN Append(f[n - 1], swap[Allocations[n]])
                             ELSE f[n - 1]
  <2>1. IsInOrder(tokens, swap, N, f)
    BY <1>2, <1>l
  <2>2. ASSUME NEW n \in 1 .. N
        PROVE  f[n] = IF Allocations[n] \in tokens
                      THEN Append(f[n - 1], swap[Allocations[n]])
                      ELSE f[n - 1]
    <3>1. n \in 0 .. N /\ n # 0
      OBVIOUS
    <3>. QED
      BY <2>1, <3>1 DEF IsInOrder
  <2>. QED
    BY <2>2
<1>. DEFINE P == {k \in 0 .. N : f[k] \in Seq(Swap)}
<1>3. 0 \in P
  <2>1. f[0] \in Seq(Swap)
    BY <1>z, EmptySeq, Zenon
  <2>. QED
    BY <2>1
<1>4. ASSUME NEW n \in 1 .. N, n - 1 \in P PROVE n \in P
  <2>1. f[n - 1] \in Seq(Swap)
    BY <1>4
  <2>2. PICK before \in Seq(Swap) : before = f[n - 1]
    BY <2>1
  <2>3. ASSUME Allocations[n] \in tokens PROVE f[n] \in Seq(Swap)
    <3>1. PICK x \in Swap : x = swap[Allocations[n]]
      BY <2>3
    <3>2. f[n] = Append(before, x)
      BY <1>e, <2>2, <2>3, <3>1
    <3>3. Append(before, x) \in Seq(Swap)
      BY <2>2
    <3>. QED
      BY <3>2, <3>3
  <2>4. ASSUME Allocations[n] \notin tokens PROVE f[n] \in Seq(Swap)
    BY <1>e, <2>1, <2>4
  <2>. QED
    BY <2>3, <2>4
<1>. HIDE DEF P
<1>5. N \in P
  <2>1. 0 .. N \subseteq P
    BY <1>3, <1>4, UpTo
  <2>. QED
    BY <2>1
<1>. QED
  BY <1>2, <1>5, <1>l DEF P

-----------------------------------------------------------------------------
(* What a job plans. *)

(* Naturals have natural parts.                                            *)
LEMMA SliceOf ==
  ASSUME NEW whole \in Nat, NEW part \in Nat, part <= 99
  PROVE  (whole * part) \div 100 \in Nat /\ (whole * part) \div 100 <= whole
<1>1. whole * part \in Nat /\ whole * part <= whole * 100
  OBVIOUS
<1>. QED
  BY <1>1

(* The strategy lists finitely many tokens.                                *)
LEMMA ListedFinite == IsFiniteSet(Listed) /\ Listed \subseteq Tokens
<1>1. Allocations \in Seq(Tokens)
  BY RebalanceAssumption
<1>2. PICK n \in Nat : n = Len(Allocations) /\ Allocations \in [1 .. n -> Tokens]
  BY <1>1, LenProperties
<1>3. PICK D : D = 1 .. n /\ IsFiniteSet(D)
  BY FS_Interval
<1>4. DOMAIN Allocations = D
  BY <1>2, <1>3
<1>5. Listed = {Allocations[i] : i \in D}
  BY <1>4 DEF Listed, Range
<1>6. IsFiniteSet({Allocations[i] : i \in D})
  <2>1. PICK T : T = {Allocations[i] : i \in D}
    OBVIOUS
  <2>2. Allocations \in Surjection(D, T)
    <3>1. Allocations \in [D -> T] /\ \A x \in T : \E i \in D : Allocations[i] = x
      BY <1>2, <1>3, <2>1
    <3>. QED
      BY <3>1 DEF Surjection
  <2>. QED
    BY <1>3, <2>1, <2>2, FS_Surjection
<1>. QED
  BY <1>2, <1>3, <1>5, <1>6

(* The value of what a job has seen.                                       *)
LEMMA TotalType ==
  ASSUME NEW b \in Job
  PROVE  /\ \A t \in Listed : Value(b, t) \in Nat
         /\ Total(b) \in Nat
<1>1. ASSUME NEW t \in Listed PROVE Value(b, t) \in Nat
  <2>1. t \in Tokens
    BY ListedFinite
  <2>2. b.seen[t] \in Nat /\ Price[t] \in Nat
    BY <2>1, RebalanceAssumption DEF Job
  <2>. QED
    BY <2>2 DEF Value
<1>2. Total(b) = SumOf(Values(b), Listed)
  BY DEF Total, SumOf, MapThenSumSet, MapThenFoldSet
<1>3. \A t \in Listed : Values(b)[t] \in Nat
  BY <1>1 DEF Values
<1>4. SumOf(Values(b), Listed) \in Nat
  BY <1>3, ListedFinite, SumType
<1>. QED
  BY <1>1, <1>2, <1>4

(* The amounts a rebalance trades are natural numbers.                     *)
LEMMA DeltaType ==
  ASSUME NEW b \in Job, NEW t \in Listed
  PROVE  /\ Delta(b, t) \in Int
         /\ SellAmount(b, t) \in Nat
         /\ Delta(b, t) > 0 => BuyAmount(b, t) \in Nat
<1>1. PICK w \in Nat, total \in Nat, value \in Nat :
        w = Weight[t] /\ total = Total(b) /\ value = Value(b, t)
  <2>1. Weight[t] \in Nat
    <3>1. Weight \in [Listed -> 0 .. 100]
      BY RebalanceAssumption
    <3>2. Weight[t] \in 0 .. 100
      BY <3>1
    <3>. QED
      BY <3>2
  <2>. QED
    BY <2>1, TotalType
<1>2. w * total \in Nat
  OBVIOUS
<1>3. Delta(b, t) = w * total - 100 * value
  BY <1>1 DEF Delta
<1>4. PICK d \in Int : d = Delta(b, t)
  BY <1>2, <1>3
<1>5. PICK p \in Nat \ {0} : p = Price[t]
  BY ListedFinite, RebalanceAssumption
<1>6. PICK a \in Nat : a = Abs(d)
  BY DEF Abs
<1>7. a \div (100 * p) \in Nat
  OBVIOUS
<1>8. SellAmount(b, t) = a \div (100 * p)
  BY <1>4, <1>5, <1>6 DEF SellAmount
<1>9. d > 0 => BuyAmount(b, t) \in Nat
  BY <1>4 DEF BuyAmount
<1>. QED
  BY <1>4, <1>7, <1>8, <1>9

(* The swaps of a rebalance are swaps between tokens.                      *)
LEMMA WantedType ==
  ASSUME NEW b \in Job, b.priced \subseteq Listed
  PROVE  ComputeSwaps(b) \in Seq(Swap)
<1>. DEFINE off == {t \in b.priced \ {USDC} : Abs(Delta(b, t)) >= 100 * MIN_SWAP_USD}
            sell == [t \in Listed |-> [from |-> t, to |-> USDC, amount |-> SellAmount(b, t)]]
            buy == [t \in Listed |-> [from |-> USDC, to |-> t, amount |-> BuyAmount(b, t)]]
            sold == {t \in off : Delta(b, t) < 0}
            bought == {t \in off : Delta(b, t) > 0}
<1>1. USDC \in Tokens
  BY DEF Tokens
<1>2. ASSUME NEW t \in sold PROVE sell[t] \in Swap
  <2>1. t \in Listed /\ t \in Tokens
    BY ListedFinite
  <2>2. SellAmount(b, t) \in Nat
    BY <2>1, DeltaType
  <2>. QED
    BY <1>1, <2>1, <2>2 DEF Swap
<1>3. ASSUME NEW t \in bought PROVE buy[t] \in Swap
  <2>1. t \in Listed /\ t \in Tokens /\ Delta(b, t) > 0
    BY ListedFinite
  <2>2. BuyAmount(b, t) \in Nat
    BY <2>1, DeltaType
  <2>. QED
    BY <1>1, <2>1, <2>2 DEF Swap
<1>4. PICK sells \in Seq(Swap) : sells = InOrder(sold, sell)
  <2>. HIDE DEF sold, sell
  <2>. QED
    BY <1>2, InOrderType
<1>5. PICK buys \in Seq(Swap) : buys = InOrder(bought, buy)
  <2>. HIDE DEF bought, buy
  <2>. QED
    BY <1>3, InOrderType
<1>6. Wanted(b) = sells \o buys
  BY <1>4, <1>5 DEF Wanted
<1>7. sells \o buys \in Seq(Swap)
  OBVIOUS
<1>8. <<>> \in Seq(Swap)
  BY EmptySeq, Zenon
<1>. QED
  BY <1>6, <1>7, <1>8, Zenon DEF ComputeSwaps

(* So are those of a conversion to USDC.                                   *)
LEMMA ConvertAllType ==
  ASSUME NEW b \in Job
  PROVE  ComputeConvertAllSwaps(b) \in Seq(Swap)
<1>. DEFINE held == {t \in Listed \ {USDC} : Value(b, t) >= MIN_SWAP_USD}
            swap == [t \in Listed |-> [from |-> t, to |-> USDC, amount |-> b.seen[t]]]
<1>1. ASSUME NEW t \in held PROVE swap[t] \in Swap
  <2>1. t \in Listed /\ t \in Tokens /\ USDC \in Tokens
    BY ListedFinite DEF Tokens
  <2>2. b.seen[t] \in Nat
    BY <2>1 DEF Job
  <2>. QED
    BY <2>1, <2>2 DEF Swap
<1>2. InOrder(held, swap) \in Seq(Swap)
  <2>. HIDE DEF held, swap
  <2>. QED
    BY <1>1, InOrderType
<1>. QED
  BY <1>2 DEF ComputeConvertAllSwaps

(* The transactions of the swaps, one after the other, and some.           *)
LEMMA TxsType ==
  ASSUME NEW swap \in Swap, NEW shape
  PROVE  Txs(swap, shape) \in Seq(Tx) /\ Txs(swap, shape) # <<>>
<1>. DEFINE T(op) == [op |-> op, swap |-> swap]
            first == IF "setup" \in shape THEN <<T("setup")>> ELSE <<>>
            last == IF "cleanup_other" \in shape THEN <<T("cleanup_other")>> ELSE <<>>
<1>1. T("setup") \in Tx /\ T("swap") \in Tx /\ T("cleanup_other") \in Tx
  BY DEF Tx
<1>2. Txs(swap, shape) = first \o <<T("swap")>> \o last
  BY DEF Txs
<1>. HIDE DEF T
<1>3. first \in Seq(Tx) /\ last \in Seq(Tx) /\ <<T("swap")>> \in Seq(Tx)
  BY <1>1
<1>4. Len(<<T("swap")>>) = 1
  OBVIOUS
<1>. HIDE DEF first, last
<1>5. PICK middle \in Seq(Tx) : middle = <<T("swap")>> /\ Len(middle) = 1
  BY <1>3, <1>4
<1>6. first \o middle \o last \in Seq(Tx) /\ Len(first \o middle \o last) >= 1
  BY <1>3, <1>5
<1>. QED
  BY <1>2, <1>5, <1>6

(* All transactions of a list of swaps: as many as were planned, and at    *)
(* least one.                                                              *)
LEMMA PlanType ==
  ASSUME NEW swaps \in Seq(Swap), swaps # <<>>, NEW shape,
         NEW txs, txs = FlattenSeq([i \in 1 .. Len(swaps) |-> Txs(swaps[i], shape)])
  PROVE  txs \in Seq(Tx) /\ txs # <<>> /\ Len(txs) \in Nat
<1>1. PICK n \in Nat \ {0} : n = Len(swaps) /\ \A i \in 1 .. n : swaps[i] \in Swap
  BY ElementOfSeq
<1>. DEFINE each == [i \in 1 .. n |-> Txs(swaps[i], shape)]
<1>2. each \in [1 .. n -> Seq(Tx)] /\ each[n] # <<>>
  BY <1>1, TxsType
<1>3. FlattenSeq(each) \in Seq(Tx) /\ FlattenSeq(each) # <<>>
  <2>. HIDE DEF each
  <2>. QED
    BY <1>2, FlattenType
<1>. QED
  BY <1>1, <1>3

-----------------------------------------------------------------------------
(* The jobs' invariant.  Until a job sends, nothing of it took effect;     *)
(* while it sends, what took effect and what is left make up the plan; and *)
(* what may still land late belongs to jobs that answered "error".         *)

Good(b, done) ==
  /\ b.pc = "done" <=> b.status # "none"
  /\ b.action = "lending" => b.pc = "done"
  /\ b.pc \in {"idle", "vault", "balances", "quote"} => done = 0
  /\ b.pc = "quote" => b.swaps # <<>>
  /\ b.pc = "send" => b.txs # <<>> /\ done + Len(b.txs) = b.planned
  /\ b.status = "success" /\ b.action # "lending" => done = b.planned
  /\ b.status \in {"needs_whitelist", "no_rebalance_needed"} => done = 0

JobsGood == \A j \in Jobs : Good(job[j], executed[j])

LateFailed == \A l \in late : job[l[1]].status = "error"

(* A call made with none awaited is the only one that can answer.          *)
PanelFollows ==
  panel.alone => /\ panel.awaited \subseteq {panel.call}
                 /\ panel.result = "success" => job[panel.call].status = "success"

RebalanceInv == TypeOK /\ JobsGood /\ LateFailed /\ PanelFollows

(* A job before its answer becomes another; what it may lose, it loses     *)
(* with an error.                                                          *)
Advances(j, b) ==
  /\ job[j].pc # "done" /\ b \in Job
  /\ job' = [job EXCEPT ![j] = b]
  /\ executed' \in [Jobs -> Nat] /\ \A k \in Jobs \ {j} : executed'[k] = executed[k]
  /\ Good(b, executed'[j])
  /\ late' \subseteq Jobs \X Tx
  /\ \A l \in late' : l \in late \/ (l[1] = j /\ b.status = "error")
  /\ \/ panel' = panel
     \/ /\ panel' \in Panel /\ panel'.result # "success"
        /\ panel'.alone => panel'.awaited \subseteq {panel'.call}

(* What surrounds the jobs keeps its types.                                *)
SafeType ==
  /\ balance \in [Tokens -> Nat] /\ allowed \in BOOLEAN
  /\ disturbed \in [Jobs -> BOOLEAN]
  /\ mishaps \in 0 .. MaxMishaps

(* A job that was not answered yet may advance: no other job, no late      *)
(* transaction and no result on the panel speaks of it.                    *)
LEMMA AdvanceKeeps ==
  ASSUME RebalanceInv, NEW j \in Jobs, NEW b, Advances(j, b), SafeType'
  PROVE  RebalanceInv'
<1>1. /\ job \in [Jobs -> Job] /\ job' = [job EXCEPT ![j] = b] /\ b \in Job
      /\ late \subseteq Jobs \X Tx /\ panel \in Panel
  BY DEF RebalanceInv, TypeOK, Advances
<1>2. job'[j] = b /\ \A k \in Jobs \ {j} : job'[k] = job[k]
  BY <1>1
<1>3. panel' \in Panel /\ late' \subseteq Jobs \X Tx /\ executed' \in [Jobs -> Nat]
  BY <1>1 DEF Advances
<1>4. TypeOK'
  <2>1. job' \in [Jobs -> Job]
    BY <1>1
  <2>. QED
    BY <1>3, <2>1 DEF TypeOK, SafeType
<1>5. JobsGood'
  <2>1. ASSUME NEW k \in Jobs PROVE Good(job'[k], executed'[k])
    <3>1. CASE k = j
      BY <1>2, <3>1 DEF Advances
    <3>2. CASE k # j
      <4>1. job'[k] = job[k] /\ executed'[k] = executed[k]
        BY <1>2, <3>2 DEF Advances
      <4>2. Good(job[k], executed[k])
        BY DEF RebalanceInv, JobsGood
      <4>. QED
        BY <4>1, <4>2
    <3>. QED
      BY <3>1, <3>2
  <2>. QED
    BY <2>1 DEF JobsGood
<1>6. \A k \in Jobs : job[k].status # "none" => job'[k] = job[k]
  <2>1. job[j].status = "none"
    BY DEF RebalanceInv, JobsGood, Good, Advances
  <2>. QED
    BY <1>2, <2>1
<1>7. LateFailed'
  <2>1. ASSUME NEW l \in late' PROVE job'[l[1]].status = "error"
    <3>1. CASE l \in late
      <4>1. job[l[1]].status = "error" /\ l[1] \in Jobs
        BY <1>1, <3>1 DEF RebalanceInv, LateFailed
      <4>. QED
        BY <1>6, <4>1
    <3>2. CASE l[1] = j /\ b.status = "error"
      BY <1>2, <3>2
    <3>. QED
      BY <3>1, <3>2 DEF Advances
  <2>. QED
    BY <2>1 DEF LateFailed
<1>8. PanelFollows'
  <2>1. CASE panel' = panel
    <3>1. panel.call \in Jobs /\ PanelFollows
      BY <1>1 DEF RebalanceInv, Panel
    <3>. QED
      BY <1>6, <2>1, <3>1 DEF PanelFollows
  <2>2. CASE panel'.result # "success" /\ (panel'.alone => panel'.awaited \subseteq {panel'.call})
    BY <2>2 DEF PanelFollows
  <2>. QED
    BY <2>1, <2>2 DEF Advances
<1>. QED
  BY <1>4, <1>5, <1>7, <1>8 DEF RebalanceInv

(* Steps that leave the chain and the panel to themselves.                 *)
LEMMA GoesKeeps ==
  ASSUME RebalanceInv, NEW j \in Jobs, NEW b \in Job, Good(b, executed[j]),
         job[j].pc # "done", Goes(j, b)
  PROVE  RebalanceInv'
<1>1. SafeType'
  BY DEF RebalanceInv, TypeOK, Goes, chain, SafeType
<1>2. Advances(j, b)
  BY DEF RebalanceInv, TypeOK, Goes, chain, Advances
<1>. QED
  BY <1>1, <1>2, AdvanceKeeps

(* A job before it begins.                                                 *)
LEMMA NoJobType == NoJob \in Job
<1>1. USDC \in Tokens
  BY DEF Tokens
<1>2. NoSwap \in Swap
  BY <1>1 DEF NoSwap, Swap
<1>3. <<>> \in Seq(Tokens) /\ <<>> \in Seq(Swap) /\ <<>> \in Seq(Tx)
  BY EmptySeq, Zenon
<1>. QED
  BY <1>2, <1>3 DEF NoJob, Job, Callers, Actions

(* A job that forgets what it read keeps its call, its plan and its status.*)
LEMMA ForgetType ==
  ASSUME NEW b \in Job, NEW f, f = Forget(b)
  PROVE  /\ f \in Job /\ f.pc = b.pc /\ f.status = b.status
         /\ f.planned = b.planned /\ f.action = b.action
<1>1. NoSwap \in Swap /\ NoJob.seen \in [Tokens -> Nat]
  BY NoJobType DEF NoJob, Job
<1>2. <<>> \in Seq(Tokens) /\ <<>> \in Seq(Swap) /\ <<>> \in Seq(Tx)
  BY EmptySeq, Zenon
<1>. QED
  BY <1>1, <1>2 DEF Forget, Job

(* And so does one that answers.                                           *)
LEMMA AnswerType ==
  ASSUME NEW b \in Job, NEW status \in Statuses, NEW d, d = Answer(b, status)
  PROVE  /\ d \in Job /\ d.pc = "done" /\ d.status = status
         /\ d.planned = b.planned /\ d.action = b.action
<1>1. PICK f \in Job : f = Forget(b) /\ f.planned = b.planned /\ f.action = b.action
  BY ForgetType
<1>2. d = [f EXCEPT !.pc = "done", !.status = status]
  BY <1>1 DEF Answer
<1>. QED
  BY <1>1, <1>2, ZenonT(60) DEF Job, Statuses

-----------------------------------------------------------------------------
(* The calls. *)

(* A call from the panel starts a job that has sent nothing, and clears the*)
(* last result.                                                            *)
LEMMA CallKeeps ==
  ASSUME RebalanceInv, NEW j \in Jobs, NEW b \in Job, Good(b, 0),
         NEW converting \in Others \cup {NoMint}, Call(j, b, converting)
  PROVE  RebalanceInv'
<1>1. job[j].pc = "idle" /\ executed[j] = 0 /\ job' = [job EXCEPT ![j] = b]
  BY DEF RebalanceInv, JobsGood, Good, Call, Start
<1>2. SafeType'
  BY DEF RebalanceInv, TypeOK, Call, chain, SafeType
<1>3. /\ panel' \in Panel /\ panel'.result # "success"
      /\ panel'.alone => panel'.awaited \subseteq {panel'.call}
  <2>1. panel \in Panel
    BY DEF RebalanceInv, TypeOK
  <2>2. PICK awaited \in SUBSET Jobs, alone \in BOOLEAN :
          awaited = panel.awaited \cup {j} /\ alone = (panel.awaited = {})
    BY <2>1 DEF Panel
  <2>3. panel' = [panel EXCEPT !.rebalancing = TRUE, !.awaited = awaited,
                               !.converting = converting, !.call = j,
                               !.result = "none", !.alone = alone]
    BY <2>1, <2>2 DEF Call, Panel
  <2>4. /\ panel' \in Panel /\ panel'.result = "none" /\ panel'.awaited = awaited
        /\ panel'.alone = alone /\ panel'.call = j
    BY <2>1, <2>3 DEF Panel
  <2>. QED
    BY <2>2, <2>4
<1>4. Advances(j, b)
  BY <1>1, <1>3 DEF RebalanceInv, TypeOK, Call, chain, Advances
<1>. QED
  BY <1>2, <1>4, AdvanceKeeps

(* The jobs that calls begin with.                                         *)
Asks(action) == [NoJob EXCEPT !.pc = "vault", !.action = action]
AsksFor(action, asked) == [NoJob EXCEPT !.pc = "vault", !.action = action, !.asked = asked]
AgentAsks(action) == [NoJob EXCEPT !.pc = "vault", !.caller = "agent", !.action = action]
Lends(action, status) == [NoJob EXCEPT !.pc = "done", !.action = action, !.status = status]

(* Every call is for a job at its beginning, or for one of the lending     *)
(* jobs, of which only the answer is seen.                                 *)
LEMMA CalledType ==
  ASSUME NEW action \in Actions \ {"lending"}, NEW asked \in Swap, NEW status \in Statuses, NEW b
  PROVE  /\ \/ b = [NoJob EXCEPT !.pc = "vault"]
            \/ b = Asks(action) \/ b = AsksFor(action, asked) \/ b = AgentAsks(action)
            => b \in Job /\ Good(b, 0)
         /\ b = Lends("lending", status)
            => b \in Job /\ b.pc = "done" /\ b.action = "lending" /\ b.status = status
<1>1. PICK n \in Job : n = NoJob /\ n.status = "none" /\ n.action = "rebalance"
  BY NoJobType DEF NoJob
<1>2. ASSUME b \in Job, b.pc = "vault", b.status = "none", b.action # "lending"
      PROVE  Good(b, 0)
  BY <1>2 DEF Good
<1>3. ASSUME b = [n EXCEPT !.pc = "vault"] PROVE b \in Job /\ Good(b, 0)
  <2>1. b \in Job /\ b.pc = "vault" /\ b.status = "none" /\ b.action # "lending"
    BY <1>1, <1>3 DEF Job
  <2>. QED
    BY <1>2, <2>1
<1>4. ASSUME b = [n EXCEPT !.pc = "vault", !.action = action] PROVE b \in Job /\ Good(b, 0)
  <2>1. b \in Job /\ b.pc = "vault" /\ b.status = "none" /\ b.action # "lending"
    BY <1>1, <1>4 DEF Job
  <2>. QED
    BY <1>2, <2>1
<1>5. ASSUME b = [n EXCEPT !.pc = "vault", !.action = action, !.asked = asked]
      PROVE  b \in Job /\ Good(b, 0)
  <2>1. b \in Job /\ b.pc = "vault" /\ b.status = "none" /\ b.action # "lending"
    BY <1>1, <1>5 DEF Job
  <2>. QED
    BY <1>2, <2>1
<1>6. ASSUME b = [n EXCEPT !.pc = "vault", !.caller = "agent", !.action = action]
      PROVE  b \in Job /\ Good(b, 0)
  <2>1. b \in Job /\ b.pc = "vault" /\ b.status = "none" /\ b.action # "lending"
    BY <1>1, <1>6 DEF Job, Callers
  <2>. QED
    BY <1>2, <2>1
<1>7. ASSUME b = [n EXCEPT !.pc = "done", !.action = "lending", !.status = status]
      PROVE  b \in Job /\ b.pc = "done" /\ b.action = "lending" /\ b.status = status
  BY <1>7 DEF Job, Actions
<1>. QED
  BY <1>1, <1>3, <1>4, <1>5, <1>6, <1>7 DEF Asks, AsksFor, AgentAsks, Lends

(* Any button of the panel, whatever amounts it still shows.               *)
LEMMA ClickKeeps ==
  ASSUME RebalanceInv, NEW j \in Jobs, Click(j)
  PROVE  RebalanceInv'
<1>t. /\ \A t \in Tokens : Shown(t) \subseteq Nat
      /\ USDC \in Tokens /\ Others \subseteq Tokens
  <2>1. balance \in [Tokens -> Nat] /\ Balances \subseteq [Tokens -> Nat]
    BY RebalanceAssumption DEF RebalanceInv, TypeOK
  <2>2. ASSUME NEW t \in Tokens PROVE Shown(t) \subseteq Nat
    BY <2>1 DEF Shown
  <2>. QED
    BY <2>2 DEF Tokens
<1>c. panel.converting \in Others \cup {NoMint}
  BY DEF RebalanceInv, TypeOK, Panel
<1>1. CASE ClickRebalance(j)
  <2>1. PICK b : b = [NoJob EXCEPT !.pc = "vault"]
    OBVIOUS
  <2>2. "rebalance" \in Actions \ {"lending"} /\ "error" \in Statuses /\ NoSwap \in Swap
    BY DEF Actions, Statuses, NoSwap, Swap, Tokens
  <2>3. b \in Job /\ Good(b, 0)
    BY <2>1, <2>2, CalledType
  <2>4. Call(j, b, panel.converting)
    BY <1>1, <2>1 DEF ClickRebalance, CallWhenFree
  <2>. QED
    BY <1>c, <2>3, <2>4, CallKeeps
<1>2. ASSUME NEW action \in {"convert", "individual_swap"},
             NEW from \in Tokens, NEW to \in Tokens, NEW amount \in Nat,
             NEW converting \in Others \cup {NoMint},
             Call(j, IndividualSwap(action, from, to, amount), converting)
      PROVE  RebalanceInv'
  <2>1. PICK b : b = IndividualSwap(action, from, to, amount)
    OBVIOUS
  <2>2. action \in Actions \ {"lending"} /\ "error" \in Statuses
    BY DEF Actions, Statuses
  <2>3. PICK asked \in Swap : asked = [from |-> from, to |-> to, amount |-> amount]
    BY DEF Swap
  <2>4. b = AsksFor(action, asked)
    BY <2>1, <2>3 DEF IndividualSwap, AsksFor
  <2>5. b \in Job /\ Good(b, 0)
    BY <2>2, <2>4, CalledType
  <2>. QED
    BY <1>2, <2>1, <2>5, CallKeeps
<1>3. CASE ConvertAssetToUsdc(j)
  <2>1. PICK t \in Others : \E amount \in Shown(t) \ {0} :
          Call(j, IndividualSwap("convert", t, USDC, amount), t)
    BY <1>3 DEF ConvertAssetToUsdc
  <2>2. PICK amount \in Shown(t) : Call(j, IndividualSwap("convert", t, USDC, amount), t)
    BY <2>1
  <2>3. t \in Tokens /\ amount \in Nat
    BY <1>t, <2>2
  <2>. QED
    BY <1>2, <1>t, <2>2, <2>3
<1>4. CASE SwapVaultAsset(j)
  <2>1. PICK t \in Others : \E shown \in Shown(USDC) \ {0, 1} :
          Call(j, IndividualSwap("individual_swap", USDC, t, shown \div 2), panel.converting)
    BY <1>4 DEF SwapVaultAsset, CallWhenFree
  <2>2. PICK shown \in Shown(USDC) :
          Call(j, IndividualSwap("individual_swap", USDC, t, shown \div 2), panel.converting)
    BY <2>1
  <2>3. PICK half \in Nat : half = shown \div 2
    BY <1>t, <2>2
  <2>4. t \in Tokens
    BY <1>t
  <2>. QED
    BY <1>2, <1>c, <1>t, <2>2, <2>3, <2>4
<1>5. CASE LendingAction(j)
  <2>1. PICK status \in {"success", "needs_whitelist", "error"} :
          Call(j, [NoJob EXCEPT !.pc = "done", !.action = "lending", !.status = status],
               panel.converting)
    BY <1>5 DEF LendingAction, CallWhenFree
  <2>2. "rebalance" \in Actions \ {"lending"} /\ status \in Statuses /\ NoSwap \in Swap
    BY DEF Actions, Statuses, NoSwap, Swap, Tokens
  <2>3. PICK b : b = Lends("lending", status)
    OBVIOUS
  <2>4. b \in Job /\ b.pc = "done" /\ b.action = "lending" /\ b.status = status
    BY <2>2, <2>3, CalledType
  <2>5. Good(b, 0)
    BY <2>1, <2>4 DEF Good
  <2>. QED
    BY <1>c, <2>1, <2>3, <2>4, <2>5, CallKeeps DEF Lends
<1>. QED
  BY <1>1, <1>3, <1>4, <1>5 DEF Click

(* A call of the cron route or of the standalone agent.                    *)
LEMMA OtherCallKeeps ==
  ASSUME RebalanceInv, NEW j \in Jobs, CronCall(j) \/ AgentCall(j)
  PROVE  RebalanceInv'
<1>1. PICK action \in {"rebalance", "convert_all"} :
        /\ \/ Start(j, [NoJob EXCEPT !.pc = "vault", !.action = action])
           \/ Start(j, [NoJob EXCEPT !.pc = "vault", !.caller = "agent", !.action = action])
        /\ UNCHANGED <<chain, panel, late, mishaps>>
  BY DEF CronCall, AgentCall
<1>2. action \in Actions \ {"lending"} /\ "error" \in Statuses /\ NoSwap \in Swap
  BY DEF Actions, Statuses, NoSwap, Swap, Tokens
<1>3. ASSUME NEW b, b \in Job, Good(b, 0), Start(j, b) PROVE RebalanceInv'
  <2>1. job[j].pc = "idle" /\ executed[j] = 0 /\ job' = [job EXCEPT ![j] = b]
    BY <1>3 DEF RebalanceInv, JobsGood, Good, Start
  <2>2. Goes(j, b)
    BY <1>1, <2>1 DEF Goes
  <2>. QED
    BY <1>3, <2>1, <2>2, GoesKeeps
<1>4. PICK web : web = Asks(action)
  OBVIOUS
<1>5. PICK agent : agent = AgentAsks(action)
  OBVIOUS
<1>6. web \in Job /\ Good(web, 0)
  BY <1>2, <1>4, CalledType
<1>7. agent \in Job /\ Good(agent, 0)
  BY <1>2, <1>5, CalledType
<1>. QED
  BY <1>1, <1>3, <1>4, <1>5, <1>6, <1>7 DEF Asks, AgentAsks

(* What the panel is told.                                                 *)
LEMMA PanelKeeps ==
  ASSUME RebalanceInv, NEW j \in Jobs, Reply(j) \/ CallFails(j) \/ CallCutOff(j)
  PROVE  RebalanceInv'
<1>1. /\ UNCHANGED <<chain, job, late>> /\ j \in panel.awaited
      /\ mishaps' \in 0 .. MaxMishaps
  <2>1. mishaps \in 0 .. MaxMishaps /\ MaxMishaps \in Nat
    BY RebalanceAssumption DEF RebalanceInv, TypeOK
  <2>. QED
    BY <2>1 DEF Reply, CallFails, CallCutOff, Mishap
<1>2. PICK p \in Panel : p = panel /\ p.call \in Jobs /\ p.result \in Statuses \cup {"none"}
  BY DEF RebalanceInv, TypeOK, Panel
<1>3. PICK s \in Panel : /\ s = Settled(j) /\ s.result = p.result /\ s.call = p.call
                         /\ s.alone = p.alone /\ s.awaited = p.awaited \ {j}
  <2>1. PICK converting \in Others \cup {NoMint}, awaited \in SUBSET Jobs :
          /\ converting = IF job[j].action = "convert" THEN NoMint ELSE p.converting
          /\ awaited = p.awaited \ {j}
    BY <1>2 DEF Panel
  <2>2. PICK s : s = [p EXCEPT !.rebalancing = FALSE, !.awaited = awaited,
                               !.converting = converting]
    OBVIOUS
  <2>3. s = Settled(j)
    BY <1>2, <2>1, <2>2 DEF Settled, Panel
  <2>4. s \in Panel /\ s.result = p.result /\ s.call = p.call /\ s.alone = p.alone
        /\ s.awaited = awaited
    BY <1>2, <2>2 DEF Panel
  <2>. QED
    BY <2>1, <2>3, <2>4
<1>4. PICK result \in Statuses \cup {"none"} :
        /\ panel' = [s EXCEPT !.result = result]
        /\ result = p.result \/ result = job[j].status
  <2>1. CASE Reply(j)
    <3>1. job[j] \in Job
      BY DEF RebalanceInv, TypeOK
    <3>2. PICK status \in Statuses \cup {"none"} : status = job[j].status
      BY <3>1 DEF Job
    <3>. QED
      BY <1>3, <2>1, <3>2 DEF Reply
  <2>2. CASE CallFails(j) \/ CallCutOff(j)
    <3>1. panel' = s
      BY <1>3, <2>2 DEF CallFails, CallCutOff
    <3>2. s = [s EXCEPT !.result = p.result]
      BY <1>3 DEF Panel
    <3>. QED
      BY <1>2, <3>1, <3>2
  <2>. QED
    BY <2>1, <2>2
<1>5. /\ panel' \in Panel /\ panel'.call = p.call /\ panel'.result = result
      /\ panel'.alone = p.alone /\ panel'.awaited = p.awaited \ {j}
  BY <1>3, <1>4 DEF Panel
<1>6. TypeOK'
  BY <1>1, <1>5 DEF RebalanceInv, TypeOK, chain
<1>7. JobsGood' /\ LateFailed'
  BY <1>1 DEF RebalanceInv, JobsGood, LateFailed, chain
<1>8. PanelFollows'
  <2>1. ASSUME p.alone
        PROVE  /\ p.awaited \subseteq {p.call} /\ j = p.call
               /\ p.result = "success" => job[p.call].status = "success"
    BY <1>1, <1>2, <2>1 DEF RebalanceInv, PanelFollows
  <2>. QED
    BY <1>1, <1>4, <1>5, <2>1 DEF PanelFollows
<1>. QED
  BY <1>6, <1>7, <1>8 DEF RebalanceInv

-----------------------------------------------------------------------------
(* The steps of a job. *)

(* A job that answers without having sent anything says so truly, and one  *)
(* that answers "error" says nothing.                                      *)
LEMMA AnswerGood ==
  ASSUME NEW b \in Job, NEW e, NEW status \in Statuses \ {"success"},
         status = "error" \/ e = 0
  PROVE  Answer(b, status) \in Job /\ Good(Answer(b, status), e)
<1>1. PICK d \in Job : d = Answer(b, status) /\ d.pc = "done" /\ d.status = status
  BY AnswerType
<1>2. Good(d, e)
  BY <1>1 DEF Good, Statuses
<1>. QED
  BY <1>1, <1>2

(* The account is read, by either layout.                                  *)
LEMMA ReadKeeps ==
  ASSUME RebalanceInv, NEW j \in Jobs, ReadVaultAccount(j) \/ AgentReadsVault(j)
  PROVE  RebalanceInv'
<1>1. /\ job[j] \in Job /\ job[j].pc = "vault" /\ Good(job[j], executed[j])
      /\ allowed \in BOOLEAN /\ Allocations \in Seq(Tokens)
  BY RebalanceAssumption
     DEF RebalanceInv, TypeOK, JobsGood, ReadVaultAccount, AgentReadsVault
<1>2. PICK may \in BOOLEAN :
        job' = [job EXCEPT ![j] = [job[j] EXCEPT !.pc = "balances", !.allowed = may,
                                                 !.toRead = Allocations]]
  <2>1. CASE ReadVaultAccount(j)
    BY <1>1, <2>1 DEF ReadVaultAccount
  <2>2. CASE AgentReadsVault(j)
    <3>1. PICK was \in Job : was = job[j]
      BY <1>1
    <3>2. [was EXCEPT !.pc = "balances", !.toRead = Allocations]
            = [was EXCEPT !.pc = "balances", !.allowed = was.allowed, !.toRead = Allocations]
      BY DEF Job
    <3>3. was.allowed \in BOOLEAN
      BY DEF Job
    <3>. QED
      BY <2>2, <3>1, <3>2, <3>3 DEF AgentReadsVault
  <2>. QED
    BY <2>1, <2>2
<1>3. PICK b : b = [job[j] EXCEPT !.pc = "balances", !.allowed = may, !.toRead = Allocations]
  OBVIOUS
<1>4. b \in Job /\ b.pc = "balances" /\ b.status = job[j].status /\ b.action = job[j].action
  BY <1>1, <1>3 DEF Job
<1>5. Good(b, executed[j])
  BY <1>1, <1>4 DEF Good
<1>6. /\ disturbed' \in [Jobs -> BOOLEAN]
      /\ UNCHANGED <<balance, allowed, executed, panel, late, mishaps>>
  BY DEF RebalanceInv, TypeOK, ReadVaultAccount, AgentReadsVault
<1>7. SafeType'
  BY <1>6 DEF RebalanceInv, TypeOK, SafeType
<1>8. Advances(j, b)
  BY <1>1, <1>2, <1>3, <1>4, <1>5, <1>6 DEF RebalanceInv, TypeOK, Advances
<1>. QED
  BY <1>7, <1>8, AdvanceKeeps

(* A balance is read, or counts as nothing.                                *)
LEMMA BalanceKeeps ==
  ASSUME RebalanceInv, NEW j \in Jobs, GetTokenBalance(j)
  PROVE  RebalanceInv'
<1>1. PICK was \in Job : /\ was = job[j] /\ was.pc = "balances" /\ was.toRead # <<>>
                         /\ Good(was, executed[j])
  BY DEF RebalanceInv, TypeOK, JobsGood, GetTokenBalance
<1>2. job \in [Jobs -> Job] /\ balance \in [Tokens -> Nat] /\ was.toRead \in Seq(Tokens)
  BY <1>1 DEF RebalanceInv, TypeOK, Job
<1>3. PICK t \in Tokens : t = Head(was.toRead)
  BY <1>1, <1>2
<1>4. PICK rest \in Seq(Tokens) : rest = Tail(was.toRead)
  <2>1. PICK list \in Seq(Tokens) : list = was.toRead /\ list # <<>>
    BY <1>1, <1>2
  <2>2. Tail(list) \in Seq(Tokens)
    BY <2>1, HeadTailProperties
  <2>. QED
    BY <2>1, <2>2
<1>5. PICK b \in Job :
        /\ job' = [job EXCEPT ![j] = b]
        /\ b.pc = "balances" /\ b.status = was.status /\ b.action = was.action
  <2>1. CASE job' = [job EXCEPT ![j].seen[Head(was.toRead)] = balance[Head(was.toRead)],
                                ![j].toRead = Tail(@)]
    <3>1. PICK b : b = [was EXCEPT !.seen = [was.seen EXCEPT ![t] = balance[t]], !.toRead = rest]
      OBVIOUS
    <3>2. balance[t] \in Nat /\ was.seen \in [Tokens -> Nat]
      BY <1>2 DEF Job
    <3>3. b \in Job /\ b.pc = "balances" /\ b.status = was.status /\ b.action = was.action
      BY <1>1, <3>1, <3>2 DEF Job
    <3>4. job' = [job EXCEPT ![j] = b]
      BY <1>1, <1>2, <1>3, <1>4, <2>1, <3>1 DEF Job
    <3>. QED
      BY <3>3, <3>4
  <2>2. CASE job' = [job EXCEPT ![j].partial = TRUE, ![j].toRead = Tail(@)]
    <3>1. PICK b : b = [was EXCEPT !.partial = TRUE, !.toRead = rest]
      OBVIOUS
    <3>2. b \in Job /\ b.pc = "balances" /\ b.status = was.status /\ b.action = was.action
      BY <1>1, <3>1 DEF Job
    <3>3. job' = [job EXCEPT ![j] = b]
      BY <1>1, <1>2, <1>4, <2>2, <3>1 DEF Job
    <3>. QED
      BY <3>2, <3>3
  <2>. QED
    BY <1>1, <2>1, <2>2 DEF GetTokenBalance
<1>6. Good(b, executed[j])
  BY <1>1, <1>5 DEF Good
<1>7. UNCHANGED <<chain, panel, late>> /\ mishaps' \in 0 .. MaxMishaps
  <2>1. mishaps \in 0 .. MaxMishaps /\ MaxMishaps \in Nat
    BY RebalanceAssumption DEF RebalanceInv, TypeOK
  <2>. QED
    BY <2>1 DEF GetTokenBalance, Mishap
<1>8. SafeType'
  BY <1>7 DEF RebalanceInv, TypeOK, SafeType, chain
<1>9. Advances(j, b)
  BY <1>1, <1>5, <1>6, <1>7 DEF RebalanceInv, TypeOK, Advances, chain
<1>. QED
  BY <1>8, <1>9, AdvanceKeeps

(* The swaps are computed from what was read and priced; without any, the  *)
(* answer is that none was needed.                                         *)
LEMMA PlanKeeps ==
  ASSUME RebalanceInv, NEW j \in Jobs, PlanSwaps(j)
  PROVE  RebalanceInv'
<1>1. PICK was \in Job : was = job[j] /\ was.pc = "balances" /\ Good(was, executed[j])
  BY DEF RebalanceInv, TypeOK, JobsGood, PlanSwaps
<1>2. executed[j] = 0 /\ was.status = "none"
  BY <1>1 DEF Good
<1>3. PICK unpriced, s, swaps :
        /\ unpriced \in SUBSET (Listed \ {USDC})
        /\ s = [was EXCEPT !.priced = Listed \ unpriced, !.partial = @ \/ unpriced # {}]
        /\ swaps = CASE was.action = "rebalance" -> ComputeSwaps(s)
                     [] was.action = "convert_all" -> ComputeConvertAllSwaps(s)
                     [] was.action \in {"convert", "individual_swap"} -> <<was.asked>>
        /\ Goes(j, IF swaps = <<>> THEN Answer(s, "no_rebalance_needed")
                   ELSE [s EXCEPT !.pc = "quote", !.swaps = swaps])
  BY <1>1 DEF PlanSwaps
<1>4. /\ s \in Job /\ s.priced \subseteq Listed
      /\ s.status = "none" /\ s.asked = was.asked /\ s.action = was.action
  <2>1. Listed \ unpriced \in SUBSET Tokens
    BY ListedFinite
  <2>2. PICK partial \in BOOLEAN : partial = (was.partial \/ unpriced # {})
    OBVIOUS
  <2>3. s = [was EXCEPT !.priced = Listed \ unpriced, !.partial = partial]
    BY <1>3, <2>2
  <2>. QED
    BY <1>2, <2>1, <2>3 DEF Job
<1>5. CASE swaps = <<>>
  <2>1. "no_rebalance_needed" \in Statuses \ {"success"}
    BY DEF Statuses
  <2>2. PICK b \in Job : b = Answer(s, "no_rebalance_needed") /\ Good(b, executed[j])
    BY <1>2, <1>4, <2>1, AnswerGood
  <2>. QED
    BY <1>1, <1>3, <1>5, <2>2, GoesKeeps
<1>6. CASE swaps # <<>>
  <2>1. was.action \in Actions /\ was.asked \in Swap
    BY DEF Job
  <2>2. was.action # "lending"
    BY <1>1, <1>2 DEF Good
  <2>3. swaps \in Seq(Swap)
    <3>1. <<was.asked>> \in Seq(Swap)
      BY <2>1
    <3>2. CASE was.action = "rebalance"
      BY <1>3, <1>4, <3>2, WantedType
    <3>3. CASE was.action = "convert_all"
      BY <1>3, <1>4, <3>3, ConvertAllType
    <3>4. CASE was.action \in {"convert", "individual_swap"}
      BY <1>3, <3>1, <3>4
    <3>. QED
      BY <2>1, <2>2, <3>2, <3>3, <3>4 DEF Actions
  <2>4. PICK b : b = [s EXCEPT !.pc = "quote", !.swaps = swaps]
    OBVIOUS
  <2>5. /\ b \in Job /\ b.pc = "quote" /\ b.status = "none" /\ b.swaps = swaps
        /\ b.action # "lending"
    BY <1>4, <2>2, <2>3, <2>4 DEF Job
  <2>6. Good(b, executed[j])
    BY <1>2, <1>6, <2>5 DEF Good
  <2>. QED
    BY <1>1, <1>3, <1>6, <2>4, <2>5, <2>6, GoesKeeps
<1>. QED
  BY <1>5, <1>6

(* The swaps of a job are quoted; the plan is as long as its transactions. *)
LEMMA QuoteKeeps ==
  ASSUME RebalanceInv, NEW j \in Jobs, BuildVaultSwaps(j) \/ AgentBuildsSwaps(j)
  PROVE  RebalanceInv'
<1>1. PICK was \in Job : was = job[j] /\ was.pc = "quote" /\ Good(was, executed[j])
  BY DEF RebalanceInv, TypeOK, JobsGood, BuildVaultSwaps, AgentBuildsSwaps
<1>2. executed[j] = 0 /\ was.status = "none" /\ was.swaps # <<>> /\ was.action # "lending"
  BY <1>1 DEF Good
<1>3. CASE Goes(j, Answer(was, "needs_whitelist"))
  <2>1. "needs_whitelist" \in Statuses \ {"success"}
    BY DEF Statuses
  <2>2. PICK b \in Job : b = Answer(was, "needs_whitelist") /\ Good(b, executed[j])
    BY <1>2, <2>1, AnswerGood
  <2>. QED
    BY <1>1, <1>3, <2>2, GoesKeeps
<1>4. ASSUME NEW shape,
             Goes(j, [Forget(was) EXCEPT
                        !.pc = "send",
                        !.txs = FlattenSeq([i \in 1 .. Len(was.swaps) |-> Txs(was.swaps[i], shape)]),
                        !.planned = Len(FlattenSeq([i \in 1 .. Len(was.swaps) |->
                                                      Txs(was.swaps[i], shape)])),
                        !.worth = Total(was)])
      PROVE  RebalanceInv'
  <2>1. PICK swaps \in Seq(Swap) : swaps = was.swaps /\ swaps # <<>>
    BY <1>2 DEF Job
  <2>2. PICK txs : txs = FlattenSeq([i \in 1 .. Len(swaps) |-> Txs(swaps[i], shape)])
    OBVIOUS
  <2>3. txs \in Seq(Tx) /\ txs # <<>> /\ Len(txs) \in Nat
    BY <2>1, <2>2, PlanType
  <2>4. PICK n \in Nat : n = Len(txs)
    BY <2>3
  <2>5. PICK f \in Job : f = Forget(was) /\ f.status = "none" /\ f.action = was.action
    BY <1>2, ForgetType
  <2>w. PICK worth \in Nat : worth = Total(was)
    BY TotalType
  <2>6. PICK b : b = [f EXCEPT !.pc = "send", !.txs = txs, !.planned = n, !.worth = worth]
    OBVIOUS
  <2>7. /\ b \in Job /\ b.pc = "send" /\ b.status = "none" /\ b.action = was.action
        /\ b.txs = txs /\ b.planned = n
    BY <2>3, <2>5, <2>w, <2>6 DEF Job
  <2>8. Good(b, executed[j])
    BY <1>2, <2>3, <2>4, <2>7 DEF Good
  <2>9. Goes(j, b)
    BY <1>4, <2>1, <2>2, <2>4, <2>5, <2>w, <2>6
  <2>. QED
    BY <1>1, <2>7, <2>8, <2>9, GoesKeeps
<1>. QED
  BY <1>1, <1>3, <1>4 DEF BuildVaultSwaps, AgentBuildsSwaps

(* A job that fails, or is refused by the sender, answers "error".         *)
LEMMA ErrorKeeps ==
  ASSUME RebalanceInv, NEW j \in Jobs, JobFails(j) \/ SendRefused(j)
  PROVE  RebalanceInv'
<1>1. PICK was \in Job : was = job[j] /\ was.pc # "done" /\ Goes(j, Answer(was, "error"))
  BY DEF RebalanceInv, TypeOK, JobFails, SendRefused, GiveUp
<1>2. "error" \in Statuses \ {"success"}
  BY DEF Statuses
<1>3. PICK b \in Job : b = Answer(was, "error") /\ Good(b, executed[j])
  BY <1>2, AnswerGood
<1>. QED
  BY <1>1, <1>3, GoesKeeps

(* A transaction is given up on although it may still land.                *)
LEMMA LostKeeps ==
  ASSUME RebalanceInv, NEW j \in Jobs, SendLost(j)
  PROVE  RebalanceInv'
<1>1. PICK was \in Job : was = job[j] /\ was.pc = "send" /\ Good(was, executed[j])
  BY DEF RebalanceInv, TypeOK, JobsGood, SendLost
<1>2. "error" \in Statuses \ {"success"}
  BY DEF Statuses
<1>3. PICK b \in Job : b = Answer(was, "error") /\ Good(b, executed[j]) /\ b.status = "error"
  <2>1. PICK b : b = Answer(was, "error")
    OBVIOUS
  <2>2. b.status = "error"
    BY <1>2, <2>1, AnswerType
  <2>. QED
    BY <1>2, <2>1, <2>2, AnswerGood
<1>4. PICK tx \in Tx : tx = Head(was.txs)
  <2>1. PICK list \in Seq(Tx) : list = was.txs /\ list # <<>>
    BY <1>1 DEF Good, Job
  <2>2. Head(list) \in Tx
    BY <2>1, HeadTailProperties
  <2>. QED
    BY <2>1, <2>2
<1>5. /\ late' = late \cup {<<j, tx>>} /\ job' = [job EXCEPT ![j] = b]
      /\ UNCHANGED <<chain, panel>> /\ mishaps' \in 0 .. MaxMishaps
  <2>1. mishaps \in 0 .. MaxMishaps /\ MaxMishaps \in Nat
    BY RebalanceAssumption DEF RebalanceInv, TypeOK
  <2>. QED
    BY <1>1, <1>3, <1>4, <2>1 DEF SendLost, GiveUp, Mishap
<1>6. late' \subseteq Jobs \X Tx /\ \A l \in late' : l \in late \/ (l[1] = j /\ b.status = "error")
  BY <1>3, <1>5 DEF RebalanceInv, TypeOK
<1>7. SafeType'
  BY <1>5 DEF RebalanceInv, TypeOK, SafeType, chain
<1>8. Advances(j, b)
  BY <1>1, <1>3, <1>5, <1>6 DEF RebalanceInv, TypeOK, Advances, chain
<1>. QED
  BY <1>7, <1>8, AdvanceKeeps

(* The platform stops a job.                                               *)
LEMMA KilledKeeps ==
  ASSUME RebalanceInv, NEW j \in Jobs, JobKilled(j)
  PROVE  RebalanceInv'
<1>1. PICK was \in Job : was = job[j] /\ was.pc # "done" /\ Good(was, executed[j])
  BY DEF RebalanceInv, TypeOK, JobsGood, JobKilled
<1>2. was.status = "none" /\ was.action # "lending"
  BY <1>1 DEF Good
<1>3. PICK f \in Job : f = Forget(was) /\ f.status = "none" /\ f.action = was.action
  BY <1>2, ForgetType
<1>4. PICK b : b = [f EXCEPT !.pc = "dead"]
  OBVIOUS
<1>5. b \in Job /\ b.pc = "dead" /\ b.status = "none" /\ b.action # "lending"
  BY <1>2, <1>3, <1>4 DEF Job
<1>6. Good(b, executed[j])
  BY <1>5 DEF Good
<1>7. job' = [job EXCEPT ![j] = b] /\ UNCHANGED <<chain, panel, late>>
      /\ mishaps' \in 0 .. MaxMishaps
  <2>1. mishaps \in 0 .. MaxMishaps /\ MaxMishaps \in Nat
    BY RebalanceAssumption DEF RebalanceInv, TypeOK
  <2>2. mishaps' \in 0 .. MaxMishaps
    BY <2>1 DEF JobKilled, Mishap
  <2>3. [Forget(job[j]) EXCEPT !.pc = "dead"] = b
    BY <1>1, <1>3, <1>4
  <2>4. job' = [job EXCEPT ![j] = [Forget(job[j]) EXCEPT !.pc = "dead"]]
    BY DEF JobKilled
  <2>5. job' = [job EXCEPT ![j] = b]
    BY <2>3, <2>4, Zenon
  <2>6. UNCHANGED <<chain, panel, late>>
    BY DEF JobKilled
  <2>. QED
    BY <2>2, <2>5, <2>6
<1>8. SafeType'
  BY <1>7 DEF RebalanceInv, TypeOK, SafeType, chain
<1>9. Advances(j, b)
  BY <1>1, <1>5, <1>6, <1>7 DEF RebalanceInv, TypeOK, Advances, chain
<1>. QED
  BY <1>8, <1>9, AdvanceKeeps

-----------------------------------------------------------------------------
(* Transactions that take effect. *)

(* One more transaction of j took effect; balances stay natural numbers:   *)
(* what is sold was there.                                                 *)
LEMMA ExecutesType ==
  ASSUME RebalanceInv, NEW j \in Jobs, NEW tx \in Tx, Executes(j, tx)
  PROVE  /\ balance' \in [Tokens -> Nat] /\ allowed' \in BOOLEAN
         /\ disturbed' \in [Jobs -> BOOLEAN]
         /\ executed' \in [Jobs -> Nat] /\ executed'[j] = executed[j] + 1
         /\ \A k \in Jobs \ {j} : executed'[k] = executed[k]
<1>1. PICK held \in [Tokens -> Nat], done \in [Jobs -> Nat] :
        /\ held = balance /\ done = executed
        /\ allowed \in BOOLEAN /\ disturbed \in [Jobs -> BOOLEAN]
  BY DEF RebalanceInv, TypeOK
<1>2. executed' = [done EXCEPT ![j] = done[j] + 1]
  BY <1>1 DEF Executes
<1>3. /\ executed' \in [Jobs -> Nat] /\ executed'[j] = executed[j] + 1
      /\ \A k \in Jobs \ {j} : executed'[k] = executed[k]
  BY <1>1, <1>2
<1>4. CASE tx.op # "swap"
  BY <1>1, <1>3, <1>4 DEF Executes
<1>5. CASE tx.op = "swap"
  <2>1. PICK swap \in Swap : swap = tx.swap
    BY DEF Tx
  <2>2. PICK from \in Tokens, to \in Tokens, amount \in Nat :
          from = swap.from /\ to = swap.to /\ amount = swap.amount
    BY DEF Swap
  <2>3. PICK got \in Proceeds(swap) :
          balance' = [balance EXCEPT ![swap.from] = @ - swap.amount, ![swap.to] = @ + got]
    BY <1>5, <2>1 DEF Executes, Swapped
  <2>4. got \in Nat
    <3>1. PICK p \in Nat, q \in Nat \ {0}, slip \in 0 .. 99 :
            p = Price[from] /\ q = Price[to] /\ slip = SLIPPAGE
      BY RebalanceAssumption
    <3>2. PICK value \in Nat : value = amount * p
      OBVIOUS
    <3>3. PICK lost \in {0, (value * slip) \div 100} : got = (value - lost) \div q
      BY <2>2, <2>3, <3>1, <3>2 DEF Proceeds
    <3>4. lost \in Nat /\ lost <= value
      <4>1. slip \in Nat /\ slip <= 99
        OBVIOUS
      <4>2. (value * slip) \div 100 \in Nat /\ (value * slip) \div 100 <= value
        BY <4>1, SliceOf
      <4>. QED
        BY <3>3, <4>2
    <3>5. value - lost \in Nat
      BY <3>4
    <3>. QED
      BY <3>1, <3>3, <3>5
  <2>5. amount <= held[from]
    BY <1>1, <1>5, <2>1, <2>2 DEF Executes
  <2>6. balance' = [held EXCEPT ![from] = @ - amount, ![to] = @ + got]
    BY <1>1, <2>2, <2>3, Zenon
  <2>7. held[from] - amount \in Nat /\ held[to] + got \in Nat
    BY <2>4, <2>5
  <2>8. [held EXCEPT ![from] = @ - amount, ![to] = @ + got] \in [Tokens -> Nat]
    BY <2>4, <2>7
  <2>9. balance' \in [Tokens -> Nat]
    BY <2>6, <2>8, Zenon
  <2>10. disturbed' \in [Jobs -> BOOLEAN] /\ allowed' = allowed
    BY <1>1, <1>5 DEF Executes
  <2>. QED
    BY <1>1, <1>3, <2>9, <2>10
<1>. QED
  BY <1>4, <1>5

(* A transaction of a sending job takes effect: one more is done and one   *)
(* less is left, and the last one brings the answer.                       *)
LEMMA ExecutedKeeps ==
  ASSUME RebalanceInv, NEW j \in Jobs, SendExecuted(j)
  PROVE  RebalanceInv'
<1>1. PICK was \in Job : was = job[j] /\ was.pc = "send" /\ Good(was, executed[j])
  BY DEF RebalanceInv, TypeOK, JobsGood, SendExecuted
<1>2. PICK list \in Seq(Tx), n \in Nat \ {0}, done \in Nat :
        /\ list = was.txs /\ list # <<>> /\ n = Len(list) /\ done = executed[j]
        /\ done + n = was.planned /\ was.status = "none" /\ was.action # "lending"
  <2>1. PICK list \in Seq(Tx) : list = was.txs /\ list # <<>>
    BY <1>1 DEF Good, Job
  <2>2. Len(list) \in Nat \ {0}
    BY <2>1
  <2>3. executed[j] \in Nat
    BY DEF RebalanceInv, TypeOK
  <2>. QED
    BY <1>1, <2>1, <2>2, <2>3 DEF Good
<1>3. Head(list) \in Tx /\ Tail(list) \in Seq(Tx) /\ Len(Tail(list)) = n - 1
  BY <1>2, HeadTailProperties
<1>4. /\ balance' \in [Tokens -> Nat] /\ allowed' \in BOOLEAN
      /\ disturbed' \in [Jobs -> BOOLEAN]
      /\ executed' \in [Jobs -> Nat] /\ executed'[j] = done + 1
      /\ \A k \in Jobs \ {j} : executed'[k] = executed[k]
  <2>1. PICK tx \in Tx : tx = Head(list)
    BY <1>3
  <2>2. Executes(j, tx)
    BY <1>1, <1>2, <2>1 DEF SendExecuted
  <2>. QED
    BY <1>2, <2>2, ExecutesType
<1>5. PICK b \in Job : b = Proceed(was) /\ Good(b, done + 1)
  <2>1. CASE n = 1
    <3>1. "success" \in Statuses
      BY DEF Statuses
    <3>2. PICK b : b = Answer(was, "success")
      OBVIOUS
    <3>3. b \in Job /\ b.pc = "done" /\ b.status = "success" /\ b.planned = was.planned
      BY <3>1, <3>2, AnswerType
    <3>4. Good(b, done + 1)
      BY <1>2, <2>1, <3>3 DEF Good
    <3>5. b = Proceed(was)
      BY <1>2, <2>1, <3>2 DEF Proceed
    <3>. QED
      BY <3>3, <3>4, <3>5
  <2>2. CASE n # 1
    <3>1. PICK rest \in Seq(Tx), m \in Nat :
            rest = Tail(list) /\ m = Len(rest) /\ m = n - 1 /\ rest # <<>>
      <4>1. PICK rest \in Seq(Tx) : rest = Tail(list) /\ Len(rest) = n - 1
        BY <1>3
      <4>2. n - 1 \in Nat /\ n - 1 # 0
        BY <2>2
      <4>3. rest # <<>>
        BY <4>1, <4>2
      <4>. QED
        BY <4>1, <4>2, <4>3
    <3>2. PICK b : b = [was EXCEPT !.txs = rest]
      OBVIOUS
    <3>3. /\ b \in Job /\ b.pc = was.pc /\ b.status = was.status /\ b.planned = was.planned
          /\ b.txs = rest /\ b.action = was.action
      BY <3>2 DEF Job
    <3>4. Good(b, done + 1)
      <4>1. done + 1 + Len(rest) = was.planned
        <5>1. done + 1 + m = done + n
          BY <3>1
        <5>. QED
          BY <1>2, <3>1, <5>1, Zenon
      <4>. QED
        BY <1>1, <1>2, <3>1, <3>3, <4>1 DEF Good
    <3>5. b = Proceed(was)
      BY <1>2, <2>2, <3>1, <3>2 DEF Proceed
    <3>. QED
      BY <3>3, <3>4, <3>5
  <2>. QED
    BY <2>1, <2>2
<1>6. job' = [job EXCEPT ![j] = b] /\ UNCHANGED <<panel, late, mishaps>>
  BY <1>1, <1>5 DEF SendExecuted
<1>7. SafeType'
  BY <1>4, <1>6 DEF RebalanceInv, TypeOK, SafeType
<1>8. Advances(j, b)
  BY <1>1, <1>4, <1>5, <1>6 DEF RebalanceInv, TypeOK, Advances
<1>. QED
  BY <1>7, <1>8, AdvanceKeeps

(* What lands late is a transaction of a job that answered "error".        *)
LEMMA LateKeeps ==
  ASSUME RebalanceInv, LandsLate
  PROVE  RebalanceInv'
<1>1. PICK l \in late : /\ Executes(l[1], l[2]) \/ UNCHANGED chain
                        /\ late' = late \ {l}
                        /\ UNCHANGED <<job, panel, mishaps>>
  BY DEF LandsLate
<1>2. l[1] \in Jobs /\ l[2] \in Tx /\ late \subseteq Jobs \X Tx
  BY DEF RebalanceInv, TypeOK
<1>3. PICK j \in Jobs, tx \in Tx : j = l[1] /\ tx = l[2] /\ job[j].status = "error"
  BY <1>2 DEF RebalanceInv, LateFailed
<1>4. /\ balance' \in [Tokens -> Nat] /\ allowed' \in BOOLEAN
      /\ disturbed' \in [Jobs -> BOOLEAN]
      /\ executed' \in [Jobs -> Nat]
      /\ \A k \in Jobs \ {j} : executed'[k] = executed[k]
  <2>1. CASE Executes(j, tx)
    BY <2>1, ExecutesType
  <2>2. CASE UNCHANGED chain
    BY <2>2 DEF RebalanceInv, TypeOK, chain
  <2>. QED
    BY <1>1, <1>3, <2>1, <2>2
<1>5. TypeOK'
  <2>1. late' \subseteq Jobs \X Tx
    BY <1>1, <1>2
  <2>. QED
    BY <1>1, <1>4, <2>1 DEF RebalanceInv, TypeOK
<1>6. JobsGood'
  <2>1. ASSUME NEW k \in Jobs PROVE Good(job[k], executed'[k])
    <3>1. Good(job[k], executed[k])
      BY DEF RebalanceInv, JobsGood
    <3>2. CASE k = j
      <4>1. job[k].status = "error"
        BY <1>3, <3>2
      <4>2. job[k].pc = "done"
        BY <3>1, <4>1 DEF Good
      <4>. QED
        BY <3>1, <4>1, <4>2 DEF Good
    <3>3. CASE k # j
      BY <1>4, <3>1, <3>3
    <3>. QED
      BY <3>2, <3>3
  <2>. QED
    BY <1>1, <2>1 DEF JobsGood
<1>7. LateFailed' /\ PanelFollows'
  BY <1>1 DEF RebalanceInv, LateFailed, PanelFollows
<1>. QED
  BY <1>5, <1>6, <1>7 DEF RebalanceInv

(* The owner moves tokens elsewhere.                                       *)
LEMMA OwnerMovesKeeps ==
  ASSUME RebalanceInv, OwnerMoves
  PROVE  RebalanceInv'
<1>1. /\ balance' \in [Tokens -> Nat] /\ disturbed' \in [Jobs -> BOOLEAN]
      /\ mishaps' \in 0 .. MaxMishaps
  <2>1. mishaps \in 0 .. MaxMishaps /\ MaxMishaps \in Nat /\ Balances \subseteq [Tokens -> Nat]
    BY RebalanceAssumption DEF RebalanceInv, TypeOK
  <2>. QED
    BY <2>1 DEF OwnerMoves, Mishap
<1>2. UNCHANGED <<allowed, executed, job, panel, late>>
  BY DEF OwnerMoves
<1>. QED
  BY <1>1, <1>2 DEF RebalanceInv, TypeOK, JobsGood, LateFailed, PanelFollows

-----------------------------------------------------------------------------
(* The theorems. *)

(* No job has begun at the start.                                          *)
LEMMA RebalanceStarts == Init => RebalanceInv
<1>. SUFFICES ASSUME Init PROVE RebalanceInv
  OBVIOUS
<1>1. 1 \in Jobs /\ "none" \in Statuses \cup {"none"} /\ NoMint \in Others \cup {NoMint}
  BY RebalanceAssumption DEF Jobs
<1>2. PICK n \in Job : /\ n = NoJob /\ n.pc = "idle" /\ n.status = "none"
                       /\ n.action = "rebalance"
  BY NoJobType DEF NoJob
<1>3. Good(n, 0)
  BY <1>2 DEF Good
<1>4. TypeOK
  <2>1. balance \in [Tokens -> Nat] /\ MaxMishaps \in Nat
    BY RebalanceAssumption DEF Init
  <2>2. job = [k \in Jobs |-> n]
    BY <1>2 DEF Init
  <2>3. job \in [Jobs -> Job]
    BY <2>2
  <2>4. panel \in Panel
    BY <1>1 DEF Init, Panel
  <2>5. mishaps \in 0 .. MaxMishaps
    BY <2>1 DEF Init
  <2>6. /\ allowed \in BOOLEAN /\ late \subseteq Jobs \X Tx
        /\ executed \in [Jobs -> Nat] /\ disturbed \in [Jobs -> BOOLEAN]
    BY DEF Init
  <2>. QED
    BY <2>1, <2>3, <2>4, <2>5, <2>6 DEF TypeOK
<1>5. JobsGood
  BY <1>2, <1>3 DEF JobsGood, Init
<1>6. LateFailed /\ PanelFollows
  BY DEF LateFailed, PanelFollows, Init
<1>. QED
  BY <1>4, <1>5, <1>6 DEF RebalanceInv

(* Every step of the panel, of the jobs and of what surrounds them.        *)
LEMMA RebalanceStep == RebalanceInv /\ [Next]_vars => RebalanceInv'
<1>. SUFFICES ASSUME RebalanceInv, [Next]_vars PROVE RebalanceInv'
  OBVIOUS
<1>1. ASSUME NEW j \in Jobs, Click(j) PROVE RebalanceInv'
  BY <1>1, ClickKeeps
<1>2. ASSUME NEW j \in Jobs, CronCall(j) \/ AgentCall(j) PROVE RebalanceInv'
  BY <1>2, OtherCallKeeps
<1>3. ASSUME NEW j \in Jobs, JobStep(j) PROVE RebalanceInv'
  BY <1>3, ReadKeeps, BalanceKeeps, PlanKeeps, QuoteKeeps, ExecutedKeeps, ErrorKeeps, LostKeeps
     DEF JobStep
<1>4. ASSUME NEW j \in Jobs, JobKilled(j) PROVE RebalanceInv'
  BY <1>4, KilledKeeps
<1>5. ASSUME NEW j \in Jobs, Reply(j) \/ CallFails(j) \/ CallCutOff(j) PROVE RebalanceInv'
  BY <1>5, PanelKeeps
<1>6. CASE LandsLate
  BY <1>6, LateKeeps
<1>7. CASE OwnerMoves
  BY <1>7, OwnerMovesKeeps
<1>8. CASE UNCHANGED vars
  BY <1>8 DEF vars, RebalanceInv, TypeOK, JobsGood, LateFailed, PanelFollows
<1>. QED
  BY <1>1, <1>2, <1>3, <1>4, <1>5, <1>6, <1>7, <1>8 DEF Next, Finished

(* Hence the invariant holds in every behaviour.                           *)
LEMMA RebalanceInvariant == Spec => []RebalanceInv
<1>. QED
  BY RebalanceStarts, RebalanceStep, PTL DEF Spec

(* The state of the rebalancer has its types: the Safe's balances stay     *)
(* natural numbers, and the swaps of computeSwaps, computeConvertAllSwaps  *)
(* and individualSwap become transactions of tokens and natural amounts,   *)
(* for any strategy, prices and misread balances.                          *)
THEOREM RebalanceTypeCorrect == Spec => []TypeOK
<1>1. RebalanceInv => TypeOK
  BY DEF RebalanceInv
<1>. QED
  BY <1>1, RebalanceInvariant, PTL

(* What the rebalancer answers is what happened, for any number of calls   *)
(* that overlap: "success" means that every planned transaction took       *)
(* effect, "needs whitelist" and "no rebalance needed" that none did, and  *)
(* the panel shows a success under the name of its last call only if such  *)
(* a job or a lending one was that call, unless another was awaited when   *)
(* it was made.                                                            *)
THEOREM ReportsAreTrue == Spec => []ReportIsTrue
<1>1. RebalanceInv => ReportIsTrue
  <2>. SUFFICES ASSUME RebalanceInv PROVE ReportIsTrue
    OBVIOUS
  <2>1. \A j \in Jobs : Good(job[j], executed[j])
    BY DEF RebalanceInv, JobsGood
  <2>2. panel.call \in Jobs
    BY DEF RebalanceInv, TypeOK, Panel
  <2>3. panel.alone /\ panel.result = "success" => job[panel.call].status = "success"
    BY DEF RebalanceInv, PanelFollows
  <2>. QED
    BY <2>1, <2>2, <2>3 DEF ReportIsTrue, Good
<1>. QED
  BY <1>1, RebalanceInvariant, PTL

-----------------------------------------------------------------------------
(* Undisturbed jobs. *)

(* The token a swap is about, besides USDC.                                *)
TokenOf(swap) == IF swap.from = USDC THEN swap.to ELSE swap.from

(* A list of swaps has the one ordered for each token of T, and no other.  *)
Orders(swaps, T, order) ==
  /\ \A i \in 1..Len(swaps) : TokenOf(swaps[i]) \in T /\ swaps[i] = order[TokenOf(swaps[i])]
  /\ \A i, k \in 1..Len(swaps) : TokenOf(swaps[i]) = TokenOf(swaps[k]) => i = k
  /\ \A t \in T : \E i \in 1..Len(swaps) : TokenOf(swaps[i]) = t

(* So has a list of transactions, among others that swap nothing.          *)
SwapsIn(txs) == {i \in 1..Len(txs) : txs[i].op = "swap"}

Sends(txs, T, order) ==
  /\ \A i \in SwapsIn(txs) :
       TokenOf(txs[i].swap) \in T /\ txs[i].swap = order[TokenOf(txs[i].swap)]
  /\ \A i, k \in SwapsIn(txs) : TokenOf(txs[i].swap) = TokenOf(txs[k].swap) => i = k
  /\ \A t \in T : \E i \in SwapsIn(txs) : TokenOf(txs[i].swap) = t

(* What brings a token to its share, from above or from below.             *)
Trade(worth, held, t) ==
  LET off == OffShare(worth, held, t) IN
  IF off > 0 THEN [from |-> t, to |-> USDC, amount |-> off \div (100 * Price[t])]
  ELSE [from |-> USDC, to |-> t, amount |-> (-off) \div 100]

Trades(worth, held) == [t \in Bought |-> Trade(worth, held, t)]
Sales(held) == [t \in Bought |-> [from |-> t, to |-> USDC, amount |-> held[t]]]

Off(worth, held) == [t \in Listed |-> OffShare(worth, held, t)]

(* With the tokens of T still to be traded the others are at their share,  *)
(* and USDC is once it has paid for them.                                  *)
SharesLeft(worth, held, T) ==
  /\ \A t \in T : held[t] * Price[t] <= worth
  /\ \A t \in Bought \ T : Abs(OffShare(worth, held, t)) <= 100 * Tolerance(worth, t)
  /\ Abs(OffShare(worth, held, USDC) + SumOf(Off(worth, held), T))
       <= 100 * SumOf(Tolerances(worth), Bought \ T)

SalesLeft(held, T) == \A t \in Bought \ T : held[t] * Price[t] < MIN_SWAP_USD

Left(b, worth, held, T) ==
  IF b.action = "rebalance" THEN SharesLeft(worth, held, T) ELSE SalesLeft(held, T)

Order(b, worth, held) == IF b.action = "rebalance" THEN Trades(worth, held) ELSE Sales(held)

(* A job with the Safe to itself has read what there is, and what it has   *)
(* still to swap is what is missing.                                       *)
OnCourse(b, held) ==
  /\ b.pc = "balances" => \A t \in Listed : b.seen[t] = held[t] \/ t \in Range(b.toRead)
  /\ b.pc = "quote" =>
       \E T \in SUBSET Bought :
         Left(b, Total(b), held, T) /\ Orders(b.swaps, T, Order(b, Total(b), held))
  /\ b.pc = "send" =>
       \E T \in SUBSET Bought :
         Left(b, b.worth, held, T) /\ Sends(b.txs, T, Order(b, b.worth, held))

Undisturbed(b, j) == b.action \in {"rebalance", "convert_all"} /\ ~b.partial /\ ~disturbed[j]

GoalInv == \A j \in Jobs : Undisturbed(job[j], j) => OnCourse(job[j], balance)

(* An order for one more token.                                            *)
LEMMA OrdersAppend ==
  ASSUME NEW q \in Seq(Swap), NEW T, NEW order, Orders(q, T, order),
         NEW t, t \notin T, order[t] \in Swap, TokenOf(order[t]) = t
  PROVE  Orders(Append(q, order[t]), T \cup {t}, order)
<1>1. PICK n \in Nat : n = Len(q)
  OBVIOUS
<1>2. PICK r : r = Append(q, order[t])
  OBVIOUS
<1>3. Len(r) = n + 1 /\ r[n + 1] = order[t] /\ \A i \in 1 .. n : r[i] = q[i]
  BY <1>1, <1>2
<1>4. \A i \in 1 .. n + 1 : i \in 1 .. n \/ i = n + 1
  OBVIOUS
<1>5. ASSUME NEW i \in 1 .. n + 1
      PROVE  TokenOf(r[i]) \in T \cup {t} /\ r[i] = order[TokenOf(r[i])]
  BY <1>1, <1>3, <1>4, <1>5 DEF Orders
<1>6. ASSUME NEW i \in 1 .. n + 1, NEW k \in 1 .. n + 1, TokenOf(r[i]) = TokenOf(r[k])
      PROVE  i = k
  <2>1. \A m \in 1 .. n : TokenOf(r[m]) \in T
    BY <1>1, <1>3 DEF Orders
  <2>2. TokenOf(r[n + 1]) = t
    BY <1>3
  <2>3. CASE i \in 1 .. n /\ k \in 1 .. n
    BY <1>1, <1>3, <1>6, <2>3 DEF Orders
  <2>. QED
    BY <1>4, <1>6, <2>1, <2>2, <2>3
<1>7. ASSUME NEW u \in T \cup {t} PROVE \E i \in 1 .. n + 1 : TokenOf(r[i]) = u
  <2>1. CASE u = t
    <3>1. n + 1 \in 1 .. n + 1
      OBVIOUS
    <3>. QED
      BY <1>3, <2>1, <3>1
  <2>2. CASE u \in T
    <3>1. PICK i \in 1 .. n : TokenOf(q[i]) = u
      BY <1>1, <2>2 DEF Orders
    <3>2. i \in 1 .. n + 1
      OBVIOUS
    <3>. QED
      BY <1>3, <3>1, <3>2
  <2>. QED
    BY <2>1, <2>2
<1>8. Orders(r, T \cup {t}, order)
  BY <1>3, <1>5, <1>6, <1>7 DEF Orders
<1>. QED
  BY <1>2, <1>8

(* What is listed in the order of the strategy has an order for each token *)
(* it is meant for, since the strategy names no token twice.               *)
LEMMA InOrderOrders ==
  ASSUME NEW tokens \in SUBSET Listed, NEW swap,
         \A t \in tokens : swap[t] \in Swap /\ TokenOf(swap[t]) = t
  PROVE  Orders(InOrder(tokens, swap), tokens, swap)
<1>1. Len(Allocations) \in Nat
  BY RebalanceAssumption
<1>2. PICK f : IsInOrder(tokens, swap, Len(Allocations), f)
               /\ InOrder(tokens, swap) = f[Len(Allocations)]
  <2>. DEFINE f == CHOOSE f : IsInOrder(tokens, swap, Len(Allocations), f)
  <2>1. IsInOrder(tokens, swap, Len(Allocations), f)
    BY <1>1, InOrderExists
  <2>2. InOrder(tokens, swap) = f[Len(Allocations)]
    BY DEF InOrder, IsInOrder
  <2>. QED
    BY <2>1, <2>2
<1>3. PICK N \in Nat : N = Len(Allocations)
  BY <1>1
<1>4. /\ \A i, k \in 1 .. N : Allocations[i] = Allocations[k] => i = k
      /\ \A t \in tokens : \E k \in 1 .. N : Allocations[k] = t
  <2>1. Allocations \in Seq(Tokens) /\ IsInjective(Allocations)
    BY RebalanceAssumption
  <2>2. DOMAIN Allocations = 1 .. N
    BY <1>3, <2>1
  <2>3. \A i, k \in 1 .. N : Allocations[i] = Allocations[k] => i = k
    BY <2>1, <2>2 DEF IsInjective
  <2>. QED
    BY <2>2, <2>3 DEF Listed, Range
<1>5. f[0] = <<>>
  BY <1>2, <1>3 DEF IsInOrder
<1>6. \A n \in 1 .. N : f[n] = IF Allocations[n] \in tokens
                             THEN Append(f[n - 1], swap[Allocations[n]])
                             ELSE f[n - 1]
  <2>1. IsInOrder(tokens, swap, N, f)
    BY <1>2, <1>3
  <2>2. ASSUME NEW n \in 1 .. N
        PROVE  f[n] = IF Allocations[n] \in tokens
                      THEN Append(f[n - 1], swap[Allocations[n]])
                      ELSE f[n - 1]
    <3>1. n \in 0 .. N /\ n # 0
      OBVIOUS
    <3>. QED
      BY <2>1, <3>1 DEF IsInOrder
  <2>. QED
    BY <2>2
<1>. DEFINE Listing(n) == {t \in tokens : \E k \in 1 .. n : Allocations[k] = t}
            P == {n \in 0 .. N : f[n] \in Seq(Swap) /\ Orders(f[n], Listing(n), swap)}
<1>7. 0 \in P
  <2>1. PICK empty : empty = f[0]
    OBVIOUS
  <2>2. empty = <<>>
    BY <1>5, <2>1
  <2>3. empty \in Seq(Swap) /\ Len(empty) = 0
    BY <2>2
  <2>4. Listing(0) = {}
    OBVIOUS
  <2>5. Orders(empty, {}, swap)
    BY <2>3 DEF Orders
  <2>6. 0 \in 0 .. N
    OBVIOUS
  <2>7. f[0] \in Seq(Swap) /\ Orders(f[0], Listing(0), swap)
    BY <2>1, <2>3, <2>4, <2>5
  <2>. HIDE DEF Listing
  <2>. QED
    BY <2>6, <2>7
<1>8. ASSUME NEW n \in 1 .. N, n - 1 \in P PROVE n \in P
  <2>1. PICK before \in Seq(Swap) : before = f[n - 1] /\ Orders(before, Listing(n - 1), swap)
    BY <1>8
  <2>2. \A k \in 1 .. n : k \in 1 .. n - 1 \/ k = n
    OBVIOUS
  <2>3. PICK a : a = Allocations[n]
    OBVIOUS
  <2>4. CASE a \in tokens
    <3>1. swap[a] \in Swap /\ TokenOf(swap[a]) = a
      BY <2>4
    <3>2. a \notin Listing(n - 1)
      <4>1. \A k \in 1 .. n - 1 : k \in 1 .. N /\ k # n
        OBVIOUS
      <4>. QED
        BY <1>4, <2>3, <4>1
    <3>3. Listing(n) = Listing(n - 1) \cup {a}
      <4>1. \A k \in 1 .. n - 1 : k \in 1 .. n
        OBVIOUS
      <4>2. n \in 1 .. n
        OBVIOUS
      <4>. QED
        BY <2>2, <2>3, <2>4, <4>1, <4>2
    <3>. HIDE DEF Listing
    <3>4. Orders(Append(before, swap[a]), Listing(n - 1) \cup {a}, swap)
      BY <2>1, <3>1, <3>2, OrdersAppend
    <3>5. f[n] = Append(before, swap[a])
      BY <1>6, <2>1, <2>3, <2>4
    <3>6. Append(before, swap[a]) \in Seq(Swap)
      BY <3>1
    <3>7. n \in 0 .. N /\ f[n] \in Seq(Swap) /\ Orders(f[n], Listing(n), swap)
      BY <3>3, <3>4, <3>5, <3>6
    <3>. QED
      BY <3>7
  <2>5. CASE a \notin tokens
    <3>1. Listing(n) = Listing(n - 1)
      <4>1. \A k \in 1 .. n - 1 : k \in 1 .. n
        OBVIOUS
      <4>. QED
        BY <2>2, <2>3, <2>5, <4>1
    <3>2. f[n] = before
      BY <1>6, <2>1, <2>3, <2>5
    <3>. HIDE DEF Listing
    <3>. QED
      BY <2>1, <3>1, <3>2
  <2>. QED
    BY <2>4, <2>5
<1>9. N \in P
  <2>. HIDE DEF P
  <2>1. 0 .. N \subseteq P
    BY <1>7, <1>8, UpTo
  <2>. QED
    BY <2>1
<1>10. Listing(N) = tokens
  BY <1>4
<1>. QED
  BY <1>2, <1>3, <1>9, <1>10

(* Orders for some tokens followed by orders for others.                   *)
LEMMA OrdersJoin ==
  ASSUME NEW p \in Seq(Swap), NEW q \in Seq(Swap), NEW S, NEW T, S \cap T = {},
         NEW first, NEW second, NEW order, Orders(p, S, first), Orders(q, T, second),
         \A t \in S : order[t] = first[t], \A t \in T : order[t] = second[t]
  PROVE  Orders(p \o q, S \cup T, order)
<1>1. PICK m \in Nat, n \in Nat : m = Len(p) /\ n = Len(q)
  OBVIOUS
<1>2. PICK r : r = p \o q
  OBVIOUS
<1>3. /\ Len(r) = m + n
      /\ \A i \in 1 .. m : r[i] = p[i]
      /\ \A i \in 1 .. n : r[m + i] = q[i]
  BY <1>1, <1>2
<1>4. ASSUME NEW i \in 1 .. m + n PROVE i \in 1 .. m \/ \E k \in 1 .. n : i = m + k
  <2>1. CASE i > m
    <3>1. i - m \in 1 .. n /\ i = m + (i - m)
      BY <2>1
    <3>. QED
      BY <3>1
  <2>. QED
    BY <2>1
<1>5. \A i \in 1 .. m : TokenOf(r[i]) \in S /\ r[i] = order[TokenOf(r[i])]
  BY <1>1, <1>3 DEF Orders
<1>6. \A i \in 1 .. n : TokenOf(r[m + i]) \in T /\ r[m + i] = order[TokenOf(r[m + i])]
  BY <1>1, <1>3 DEF Orders
<1>7. ASSUME NEW i \in 1 .. m + n
      PROVE  TokenOf(r[i]) \in S \cup T /\ r[i] = order[TokenOf(r[i])]
  BY <1>4, <1>5, <1>6
<1>8. ASSUME NEW i \in 1 .. m + n, NEW k \in 1 .. m + n, TokenOf(r[i]) = TokenOf(r[k])
      PROVE  i = k
  <2>1. CASE i \in 1 .. m /\ k \in 1 .. m
    BY <1>1, <1>3, <1>8, <2>1 DEF Orders
  <2>2. ASSUME NEW a \in 1 .. n, NEW b \in 1 .. n, i = m + a, k = m + b PROVE i = k
    <3>1. a = b
      BY <1>1, <1>3, <1>8, <2>2 DEF Orders
    <3>. QED
      BY <2>2, <3>1
  <2>3. \A a \in 1 .. m, b \in 1 .. n : TokenOf(r[a]) # TokenOf(r[m + b])
    BY <1>5, <1>6
  <2>. QED
    BY <1>4, <1>8, <2>1, <2>2, <2>3, ZenonT(60)
<1>9. ASSUME NEW u \in S \cup T PROVE \E i \in 1 .. m + n : TokenOf(r[i]) = u
  <2>1. CASE u \in S
    <3>1. PICK i \in 1 .. m : TokenOf(p[i]) = u
      BY <1>1, <2>1 DEF Orders
    <3>2. i \in 1 .. m + n
      OBVIOUS
    <3>. QED
      BY <1>3, <3>1, <3>2
  <2>2. CASE u \in T
    <3>1. PICK i \in 1 .. n : TokenOf(q[i]) = u
      BY <1>1, <2>2 DEF Orders
    <3>2. m + i \in 1 .. m + n
      OBVIOUS
    <3>. QED
      BY <1>3, <3>1, <3>2
  <2>. QED
    BY <2>1, <2>2
<1>10. Orders(r, S \cup T, order)
  BY <1>3, <1>7, <1>8, <1>9 DEF Orders
<1>. QED
  BY <1>2, <1>10

(* Transactions for some tokens followed by transactions for others.       *)
LEMMA SendsJoin ==
  ASSUME NEW p \in Seq(Tx), NEW q \in Seq(Tx), NEW S, NEW T, S \cap T = {},
         NEW order, Sends(p, S, order), Sends(q, T, order)
  PROVE  Sends(p \o q, S \cup T, order)
<1>1. PICK m \in Nat, n \in Nat : m = Len(p) /\ n = Len(q)
  OBVIOUS
<1>2. PICK r : r = p \o q
  OBVIOUS
<1>3. /\ Len(r) = m + n
      /\ \A i \in 1 .. m : r[i] = p[i]
      /\ \A i \in 1 .. n : r[m + i] = q[i]
  BY <1>1, <1>2
<1>. DEFINE Tok(i) == TokenOf(r[i].swap)
<1>4. ASSUME NEW i \in SwapsIn(r)
      PROVE  i \in SwapsIn(p) \/ \E k \in SwapsIn(q) : i = m + k
  <2>1. CASE i > m
    <3>1. PICK k \in 1 .. n : i = m + k
      <4>1. i - m \in 1 .. n /\ i = m + (i - m)
        BY <1>3, <2>1 DEF SwapsIn
      <4>. QED
        BY <4>1
    <3>2. r[i] = q[k] /\ r[i].op = "swap"
      BY <1>3, <3>1 DEF SwapsIn
    <3>3. k \in SwapsIn(q)
      BY <1>1, <3>2 DEF SwapsIn
    <3>. QED
      BY <3>1, <3>3
  <2>2. CASE ~(i > m)
    <3>1. i \in 1 .. m /\ r[i].op = "swap"
      BY <1>3, <2>2 DEF SwapsIn
    <3>. QED
      BY <1>1, <1>3, <3>1 DEF SwapsIn
  <2>. QED
    BY <2>1, <2>2
<1>5. ASSUME NEW i \in SwapsIn(p)
      PROVE  /\ i \in 1 .. m + n /\ i \in SwapsIn(r) /\ r[i] = p[i]
             /\ Tok(i) \in S /\ r[i].swap = order[Tok(i)]
  <2>1. i \in 1 .. m /\ p[i].op = "swap" /\ i \in 1 .. m + n
    BY <1>1 DEF SwapsIn
  <2>2. r[i] = p[i]
    BY <1>3, <2>1
  <2>3. i \in SwapsIn(r)
    BY <1>3, <2>1, <2>2 DEF SwapsIn
  <2>. QED
    BY <2>1, <2>2, <2>3 DEF Sends
<1>6. ASSUME NEW i \in SwapsIn(q)
      PROVE  /\ m + i \in SwapsIn(r) /\ r[m + i] = q[i]
             /\ Tok(m + i) \in T /\ r[m + i].swap = order[Tok(m + i)]
  <2>1. i \in 1 .. n /\ q[i].op = "swap" /\ m + i \in 1 .. m + n
    BY <1>1 DEF SwapsIn
  <2>2. r[m + i] = q[i]
    BY <1>3, <2>1
  <2>3. m + i \in SwapsIn(r)
    BY <1>3, <2>1, <2>2 DEF SwapsIn
  <2>. QED
    BY <2>1, <2>2, <2>3 DEF Sends
<1>7. ASSUME NEW i \in SwapsIn(r) PROVE Tok(i) \in S \cup T /\ r[i].swap = order[Tok(i)]
  <2>1. CASE i \in SwapsIn(p)
    BY <1>5, <2>1
  <2>2. ASSUME NEW k \in SwapsIn(q), i = m + k
        PROVE  Tok(i) \in S \cup T /\ r[i].swap = order[Tok(i)]
    BY <1>6, <2>2
  <2>. HIDE DEF Tok
  <2>. QED
    BY <1>4, <2>1, <2>2
<1>8. ASSUME NEW i \in SwapsIn(r), NEW k \in SwapsIn(r), Tok(i) = Tok(k)
      PROVE  i = k
  <2>1. CASE i \in SwapsIn(p) /\ k \in SwapsIn(p)
    BY <1>5, <1>8, <2>1 DEF Sends
  <2>2. ASSUME NEW a \in SwapsIn(q), NEW b \in SwapsIn(q), i = m + a, k = m + b PROVE i = k
    <3>1. TokenOf(q[a].swap) = TokenOf(q[b].swap)
      BY <1>6, <1>8, <2>2
    <3>2. a = b
      BY <3>1 DEF Sends
    <3>. QED
      BY <2>2, <3>2
  <2>3. \A a \in SwapsIn(p), b \in SwapsIn(q) : Tok(a) # Tok(m + b)
    BY <1>5, <1>6
  <2>. HIDE DEF Tok
  <2>. QED
    BY <1>4, <1>8, <2>1, <2>2, <2>3
<1>9. ASSUME NEW u \in S \cup T PROVE \E i \in SwapsIn(r) : Tok(i) = u
  <2>1. CASE u \in S
    <3>1. PICK i \in SwapsIn(p) : TokenOf(p[i].swap) = u
      BY <2>1 DEF Sends
    <3>. QED
      BY <1>5, <3>1
  <2>2. CASE u \in T
    <3>1. PICK i \in SwapsIn(q) : TokenOf(q[i].swap) = u
      BY <2>2 DEF Sends
    <3>. QED
      BY <1>6, <3>1
  <2>. QED
    BY <2>1, <2>2
<1>10. Sends(r, S \cup T, order)
  BY <1>7, <1>8, <1>9 DEF Sends
<1>. QED
  BY <1>2, <1>10

(* The transactions of one swap swap once.                                 *)
LEMMA TxsSend ==
  ASSUME NEW swap \in Swap, NEW shape, NEW order, NEW t, TokenOf(swap) = t, order[t] = swap
  PROVE  Sends(Txs(swap, shape), {t}, order)
<1>. DEFINE T(op) == [op |-> op, swap |-> swap]
            first == IF "setup" \in shape THEN <<T("setup")>> ELSE <<>>
            last == IF "cleanup_other" \in shape THEN <<T("cleanup_other")>> ELSE <<>>
<1>1. T("setup") \in Tx /\ T("swap") \in Tx /\ T("cleanup_other") \in Tx
  BY DEF Tx
<1>2. Txs(swap, shape) = (first \o <<T("swap")>>) \o last
  BY DEF Txs
<1>3. T("setup").op = "setup" /\ T("cleanup_other").op = "cleanup_other"
      /\ T("swap").op = "swap" /\ T("swap").swap = swap
  OBVIOUS
<1>4. ASSUME NEW x \in Tx, x.op # "swap" PROVE <<x>> \in Seq(Tx) /\ Sends(<<x>>, {}, order)
  <2>1. PICK one : one = <<x>>
    OBVIOUS
  <2>2. one \in Seq(Tx) /\ Len(one) = 1 /\ one[1] = x
    BY <2>1
  <2>3. SwapsIn(one) = {}
    BY <1>4, <2>2 DEF SwapsIn
  <2>4. Sends(one, {}, order)
    BY <2>3 DEF Sends
  <2>. QED
    BY <2>1, <2>2, <2>4
<1>5. <<>> \in Seq(Tx) /\ Sends(<<>>, {}, order)
  <2>1. PICK none : none = <<>>
    OBVIOUS
  <2>2. none \in Seq(Tx) /\ Len(none) = 0
    BY <2>1
  <2>3. SwapsIn(none) = {}
    BY <2>2 DEF SwapsIn
  <2>4. Sends(none, {}, order)
    BY <2>3 DEF Sends
  <2>. QED
    BY <2>1, <2>2, <2>4
<1>6. PICK middle \in Seq(Tx) : middle = <<T("swap")>> /\ Sends(middle, {t}, order)
  <2>1. PICK x \in Tx : x = T("swap") /\ x.op = "swap" /\ x.swap = swap
    BY <1>1, <1>3
  <2>2. PICK one : one = <<x>>
    OBVIOUS
  <2>3. one \in Seq(Tx) /\ Len(one) = 1 /\ one[1] = x
    BY <2>2
  <2>4. SwapsIn(one) = {1}
    BY <2>1, <2>3 DEF SwapsIn
  <2>5. Sends(one, {t}, order)
    BY <2>1, <2>3, <2>4 DEF Sends
  <2>. QED
    BY <2>1, <2>2, <2>3, <2>5
<1>. HIDE DEF T
<1>7. first \in Seq(Tx) /\ Sends(first, {}, order)
  BY <1>1, <1>3, <1>4, <1>5
<1>8. last \in Seq(Tx) /\ Sends(last, {}, order)
  BY <1>1, <1>3, <1>4, <1>5
<1>. HIDE DEF first, last
<1>9. first \o middle \in Seq(Tx) /\ Sends(first \o middle, {} \cup {t}, order)
  <2>1. PICK begun \in Seq(Tx) : begun = first /\ Sends(begun, {}, order)
    BY <1>7
  <2>2. begun \o middle \in Seq(Tx) /\ {} \cap {t} = {}
    OBVIOUS
  <2>3. Sends(begun \o middle, {} \cup {t}, order)
    BY <1>6, <2>1, <2>2, SendsJoin
  <2>. QED
    BY <2>1, <2>2, <2>3
<1>10. Sends((first \o middle) \o last, {t} \cup {}, order)
  <2>1. PICK begun \in Seq(Tx) : begun = first \o middle /\ Sends(begun, {t}, order)
    BY <1>9
  <2>. QED
    BY <1>8, <2>1, SendsJoin
<1>11. {t} \cup {} = {t}
  OBVIOUS
<1>. QED
  BY <1>2, <1>6, <1>10, <1>11

(* A job sends one swap for each order.                                    *)
LEMMA PlanSends ==
  ASSUME NEW swaps \in Seq(Swap), swaps # <<>>, NEW shape, NEW T, NEW order,
         Orders(swaps, T, order),
         NEW txs, txs = FlattenSeq([i \in 1 .. Len(swaps) |-> Txs(swaps[i], shape)])
  PROVE  Sends(txs, T, order)
<1>1. PICK N \in Nat \ {0} : N = Len(swaps) /\ \A i \in 1 .. N : swaps[i] \in Swap
  BY ElementOfSeq
<1>2. PICK each : each = [i \in 1 .. N |-> Txs(swaps[i], shape)]
  OBVIOUS
<1>3. each \in Seq(Seq(Tx)) /\ Len(each) = N
  <2>1. each \in [1 .. N -> Seq(Tx)]
    BY <1>1, <1>2, TxsType
  <2>. QED
    BY <2>1
<1>4. PICK f : IsFlat(each, N, f) /\ FlattenSeq(each) = f[N]
  <2>. DEFINE f == CHOOSE f : IsFlat(each, N, f)
  <2>1. IsFlat(each, N, f)
    BY FlatExists
  <2>2. FlattenSeq(each) = f[N]
    BY <1>3 DEF FlattenSeq, IsFlat
  <2>. QED
    BY <2>1, <2>2
<1>5. \A n \in 1 .. N : f[n] = IF n = 1 THEN each[n] ELSE f[n - 1] \o each[n]
  BY <1>4 DEF IsFlat
<1>. DEFINE Done(n) == {TokenOf(swaps[i]) : i \in 1 .. n}
            P == {n \in 0 .. N : n = 0 \/ (f[n] \in Seq(Tx) /\ Sends(f[n], Done(n), order))}
<1>6. 0 \in P
  OBVIOUS
<1>7. ASSUME NEW n \in 1 .. N, n - 1 \in P PROVE n \in P
  <2>1. PICK t : t = TokenOf(swaps[n]) /\ swaps[n] = order[t]
    BY <1>1 DEF Orders
  <2>2. PICK more \in Seq(Tx) : more = each[n] /\ Sends(more, {t}, order)
    <3>1. swaps[n] \in Swap
      BY <1>1
    <3>2. Txs(swaps[n], shape) \in Seq(Tx) /\ Sends(Txs(swaps[n], shape), {t}, order)
      BY <2>1, <3>1, TxsType, TxsSend
    <3>. QED
      BY <1>2, <3>2
  <2>3. CASE n = 1
    <3>1. Done(1) = {t}
      <4>1. 1 .. 1 = {1}
        OBVIOUS
      <4>. QED
        BY <2>1, <2>3, <4>1
    <3>2. f[n] = more /\ Done(n) = {t} /\ n \in 0 .. N
      BY <1>5, <2>2, <2>3, <3>1
    <3>. HIDE DEF Done
    <3>3. n \in 0 .. N /\ f[n] \in Seq(Tx) /\ Sends(f[n], Done(n), order)
      BY <2>2, <3>2
    <3>. QED
      BY <3>3
  <2>4. CASE n # 1
    <3>1. PICK before \in Seq(Tx) : before = f[n - 1] /\ Sends(before, Done(n - 1), order)
      <4>1. n - 1 # 0
        BY <2>4
      <4>. HIDE DEF Done
      <4>. QED
        BY <1>7, <4>1
    <3>2. t \notin Done(n - 1)
      <4>1. \A i \in 1 .. n - 1 : i \in 1 .. N /\ i # n
        OBVIOUS
      <4>. QED
        BY <1>1, <2>1, <4>1 DEF Orders
    <3>3. Done(n) = Done(n - 1) \cup {t}
      <4>1. 1 .. n = (1 .. n - 1) \cup {n}
        OBVIOUS
      <4>. QED
        BY <2>1, <4>1
    <3>4. f[n] = before \o more
      BY <1>5, <2>2, <2>4, <3>1
    <3>. HIDE DEF Done
    <3>5. Sends(before \o more, Done(n - 1) \cup {t}, order)
      BY <2>2, <3>1, <3>2, SendsJoin
    <3>6. before \o more \in Seq(Tx)
      OBVIOUS
    <3>7. n \in 0 .. N /\ f[n] \in Seq(Tx) /\ Sends(f[n], Done(n), order)
      BY <3>3, <3>4, <3>5, <3>6
    <3>. QED
      BY <3>7
  <2>. QED
    BY <2>3, <2>4
<1>8. N \in P
  <2>. HIDE DEF P
  <2>1. 0 .. N \subseteq P
    BY <1>6, <1>7, UpTo
  <2>. QED
    BY <2>1
<1>9. Done(N) = T
  BY <1>1 DEF Orders
<1>. HIDE DEF Done
<1>10. Sends(f[N], T, order)
  BY <1>8, <1>9
<1>. QED
  BY <1>1, <1>2, <1>4, <1>10

(* Sending the first transaction leaves the rest.                          *)
LEMMA SendsTail ==
  ASSUME NEW txs \in Seq(Tx), txs # <<>>, NEW T, NEW order, Sends(txs, T, order)
  PROVE  /\ txs[1].op # "swap" => Sends(Tail(txs), T, order)
         /\ txs[1].op = "swap" =>
              \E t \in T : txs[1].swap = order[t] /\ Sends(Tail(txs), T \ {t}, order)
<1>1. PICK n \in Nat : n + 1 = Len(txs)
  <2>1. Len(txs) \in Nat /\ Len(txs) # 0
    OBVIOUS
  <2>2. Len(txs) - 1 \in Nat
    BY <2>1
  <2>. QED
    BY <2>2
<1>2. PICK rest \in Seq(Tx) : rest = Tail(txs) /\ Len(rest) = n /\ \A i \in 1 .. n : rest[i] = txs[i + 1]
  <2>1. Tail(txs) \in Seq(Tx) /\ Len(Tail(txs)) = Len(txs) - 1
    BY HeadTailProperties
  <2>2. Len(Tail(txs)) = n
    BY <1>1, <2>1
  <2>3. \A i \in 1 .. Len(Tail(txs)) : Tail(txs)[i] = txs[i + 1]
    OBVIOUS
  <2>. QED
    BY <2>1, <2>2, <2>3
<1>3. ASSUME NEW i \in SwapsIn(rest)
      PROVE  i + 1 \in SwapsIn(txs) /\ i + 1 # 1 /\ rest[i] = txs[i + 1]
  <2>1. i \in 1 .. n /\ rest[i].op = "swap"
    BY <1>2 DEF SwapsIn
  <2>2. i + 1 \in 1 .. Len(txs) /\ i + 1 # 1 /\ rest[i] = txs[i + 1]
    BY <1>1, <1>2, <2>1
  <2>. QED
    BY <2>1, <2>2 DEF SwapsIn
<1>4. ASSUME NEW i \in SwapsIn(txs), i # 1
      PROVE  \E k \in SwapsIn(rest) : i = k + 1 /\ rest[k] = txs[i]
  <2>1. i \in 1 .. n + 1 /\ txs[i].op = "swap"
    BY <1>1 DEF SwapsIn
  <2>2. PICK k \in 1 .. n : i = k + 1
    <3>1. i - 1 \in 1 .. n /\ i = (i - 1) + 1
      BY <1>4, <2>1
    <3>. QED
      BY <3>1
  <2>3. rest[k] = txs[i]
    BY <1>2, <2>2
  <2>4. k \in SwapsIn(rest)
    BY <1>2, <2>1, <2>3 DEF SwapsIn
  <2>. QED
    BY <2>2, <2>3, <2>4
<1>5. \A i \in SwapsIn(rest) :
        TokenOf(rest[i].swap) \in T /\ rest[i].swap = order[TokenOf(rest[i].swap)]
  BY <1>3 DEF Sends
<1>6. ASSUME NEW i \in SwapsIn(rest), NEW k \in SwapsIn(rest),
             TokenOf(rest[i].swap) = TokenOf(rest[k].swap)
      PROVE  i = k
  <2>1. i + 1 = k + 1
    BY <1>3, <1>6 DEF Sends
  <2>2. i \in Int /\ k \in Int
    BY DEF SwapsIn
  <2>. QED
    BY <2>1, <2>2
<1>7. ASSUME txs[1].op # "swap" PROVE Sends(rest, T, order)
  <2>1. ASSUME NEW t \in T PROVE \E i \in SwapsIn(rest) : TokenOf(rest[i].swap) = t
    <3>1. PICK i \in SwapsIn(txs) : TokenOf(txs[i].swap) = t
      BY DEF Sends
    <3>2. i # 1
      BY <1>7 DEF SwapsIn
    <3>3. PICK k \in SwapsIn(rest) : rest[k] = txs[i]
      BY <1>4, <3>2
    <3>. QED
      BY <3>1, <3>3
  <2>. QED
    BY <1>5, <1>6, <2>1 DEF Sends
<1>8. ASSUME txs[1].op = "swap"
      PROVE  \E t \in T : txs[1].swap = order[t] /\ Sends(rest, T \ {t}, order)
  <2>1. 1 \in SwapsIn(txs)
    BY <1>1, <1>8 DEF SwapsIn
  <2>2. PICK t \in T : t = TokenOf(txs[1].swap) /\ txs[1].swap = order[t]
    BY <2>1 DEF Sends
  <2>3. ASSUME NEW i \in SwapsIn(rest) PROVE TokenOf(rest[i].swap) # t
    BY <1>3, <2>1, <2>2 DEF Sends
  <2>4. ASSUME NEW u \in T \ {t} PROVE \E i \in SwapsIn(rest) : TokenOf(rest[i].swap) = u
    <3>1. PICK i \in SwapsIn(txs) : TokenOf(txs[i].swap) = u
      BY DEF Sends
    <3>2. i # 1
      BY <2>2, <3>1
    <3>3. PICK k \in SwapsIn(rest) : rest[k] = txs[i]
      BY <1>4, <3>2
    <3>. QED
      BY <3>1, <3>3
  <2>5. Sends(rest, T \ {t}, order)
    BY <1>5, <1>6, <2>3, <2>4 DEF Sends
  <2>. QED
    BY <2>2, <2>5
<1>. QED
  BY <1>2, <1>7, <1>8

-----------------------------------------------------------------------------
(* Shares. *)

(* A sale: a of x units of price p, off above their share, are worth value *)
(* and bring got.                                                          *)
IsLost(value, worth, slip, lost) ==
  /\ value \in Nat /\ worth \in Nat /\ value <= worth /\ slip \in 0 .. 99
  /\ lost \in {0, (value * slip) \div 100}

IsOff(x, p, target, off) ==
  /\ x \in Nat /\ p \in Nat \ {0} /\ target \in Nat /\ off \in Int
  /\ off = 100 * (x * p) - target

IsWithin(p, worth, slip, tol) ==
  /\ worth \in Nat /\ slip \in 0 .. 99 /\ tol \in Nat
  /\ tol >= p + (worth * slip) \div 100

IsSold(x, p, target, off, a) ==
  IsOff(x, p, target, off) /\ off > 0 /\ a = off \div (100 * p)

IsSale(x, p, target, off, worth, slip, tol, a, value, lost, got) ==
  /\ IsSold(x, p, target, off, a) /\ IsWithin(p, worth, slip, tol)
  /\ x * p <= worth /\ value = a * p
  /\ lost \in {0, (value * slip) \div 100} /\ got = (value - lost) \div 1

(* A purchase, for a units of USDC.                                        *)
IsBought(x, p, target, off, a, lost, got) ==
  /\ IsOff(x, p, target, off) /\ off <= 0 /\ a = (-off) \div 100
  /\ lost \in Nat /\ lost <= a /\ got = (a - lost) \div p

IsPurchase(x, p, target, off, worth, slip, tol, a, lost, got) ==
  /\ IsOff(x, p, target, off) /\ IsWithin(p, worth, slip, tol)
  /\ off <= 0 /\ target <= 100 * worth /\ a = (-off) \div 100
  /\ lost \in {0, (a * slip) \div 100} /\ got = (a - lost) \div p

(* What is sold, in whole units, brings a holding down to its share.       *)
LEMMA SoldDown ==
  ASSUME NEW x, NEW p, NEW target, NEW off, NEW a, IsSold(x, p, target, off, a)
  PROVE  /\ a \in Nat /\ 100 * (a * p) <= off /\ off < 100 * (a * p) + 100 * p
         /\ 100 * ((x - a) * p) - target = off - 100 * (a * p)
<1>. x \in Nat /\ p \in Nat \ {0} /\ target \in Nat /\ off \in Int
     /\ off = 100 * (x * p) - target /\ off > 0 /\ a = off \div (100 * p)
  BY DEF IsSold, IsOff
<1>1. PICK q \in Nat \ {0} : q = 100 * p
  OBVIOUS
<1>2. off \in Nat /\ a = off \div q
  BY <1>1
<1>3. a \in Nat /\ q * a <= off /\ off < q * a + q
  BY <1>2
<1>4. q * a = 100 * (a * p)
  BY <1>1, <1>3
<1>5. (x - a) * p = x * p - a * p
  BY <1>3
<1>. QED
  BY <1>1, <1>3, <1>4, <1>5

(* What is bought for whole USDC brings it up to its share, but for what   *)
(* was lost and a unit's worth.                                            *)
LEMMA BoughtUp ==
  ASSUME NEW x, NEW p, NEW target, NEW off, NEW a, NEW lost, NEW got,
         IsBought(x, p, target, off, a, lost, got)
  PROVE  /\ a \in Nat /\ 100 * a <= -off /\ -off < 100 * a + 100 /\ got \in Nat
         /\ 100 * ((x + got) * p) - target <= 0
         /\ -(100 * (p + lost)) <= 100 * ((x + got) * p) - target
<1>. /\ x \in Nat /\ p \in Nat \ {0} /\ target \in Nat /\ off \in Int
     /\ off = 100 * (x * p) - target /\ off <= 0 /\ a = (-off) \div 100
     /\ lost \in Nat /\ lost <= a /\ got = (a - lost) \div p
  BY DEF IsBought, IsOff
<1>1. PICK d \in Nat : d = -off
  OBVIOUS
<1>2. a \in Nat /\ 100 * a <= d /\ d < 100 * a + 100
  BY <1>1
<1>3. PICK still \in Nat : still = a - lost
  BY <1>2
<1>4. got \in Nat /\ p * got <= still /\ still < p * got + p
  BY <1>3
<1>5. (x + got) * p = x * p + p * got
  BY <1>4
<1>. QED
  BY <1>1, <1>2, <1>3, <1>4, <1>5

(* What slippage takes of a part is at most what it takes of the whole.    *)
LEMMA LostOf ==
  ASSUME NEW value, NEW worth, NEW slip, NEW lost, IsLost(value, worth, slip, lost)
  PROVE  lost \in Nat /\ lost <= value /\ lost <= (worth * slip) \div 100
         /\ (worth * slip) \div 100 \in Nat
<1>. /\ value \in Nat /\ worth \in Nat /\ value <= worth /\ slip \in 0 .. 99
     /\ lost \in {0, (value * slip) \div 100}
  BY DEF IsLost
<1>1. slip \in Nat /\ slip <= 99
  OBVIOUS
<1>2. (value * slip) \div 100 \in Nat /\ (value * slip) \div 100 <= value
  BY <1>1, SliceOf
<1>3. PICK a \in Nat, b \in Nat : a = value * slip /\ b = worth * slip
  BY <1>1
<1>4. a <= b
  <2>1. PICK more \in Nat : worth = value + more
    <3>1. worth - value \in Nat /\ worth = value + (worth - value)
      OBVIOUS
    <3>. QED
      BY <3>1
  <2>2. (value + more) * slip = value * slip + more * slip /\ more * slip \in Nat
    BY <1>1
  <2>. QED
    BY <1>3, <2>1, <2>2
<1>5. a \div 100 <= b \div 100 /\ b \div 100 \in Nat
  BY <1>4
<1>. QED
  BY <1>2, <1>3, <1>5

(* What a Safe holds after a swap.                                        *)
Paid(held, swap, got) == [held EXCEPT ![swap.from] = @ - swap.amount, ![swap.to] = @ + got]

(* The figures of a token.                                                 *)
LEMMA FiguresOf ==
  ASSUME NEW worth \in Nat, NEW held \in [Tokens -> Nat], NEW t \in Listed
  PROVE  /\ t \in Tokens /\ Price[t] \in Nat \ {0} /\ Weight[t] \in 0 .. 100
         /\ held[t] \in Nat /\ held[t] * Price[t] \in Nat /\ Weight[t] * worth \in Nat
         /\ OffShare(worth, held, t) \in Int
         /\ OffShare(worth, held, t) = 100 * (held[t] * Price[t]) - Weight[t] * worth
         /\ Tolerance(worth, t) \in Nat /\ Tolerance(worth, t) >= MIN_SWAP_USD
         /\ Tolerance(worth, t) >= Price[t] + (worth * SLIPPAGE) \div 100
<1>1. t \in Tokens
  BY ListedFinite
<1>2. PICK p \in Nat \ {0}, w \in 0 .. 100, x \in Nat, slip \in 0 .. 99, least \in Nat :
        p = Price[t] /\ w = Weight[t] /\ x = held[t] /\ slip = SLIPPAGE /\ least = MIN_SWAP_USD
  <2>1. Weight[t] \in 0 .. 100
    BY RebalanceAssumption
  <2>2. Price[t] \in Nat \ {0} /\ held[t] \in Nat
    BY <1>1, RebalanceAssumption
  <2>3. SLIPPAGE \in 0 .. 99 /\ MIN_SWAP_USD \in Nat
    BY RebalanceAssumption
  <2>. QED
    BY <2>1, <2>2, <2>3
<1>3. x * p \in Nat /\ w * worth \in Nat
  BY <1>2
<1>4. OffShare(worth, held, t) = 100 * (x * p) - w * worth
  BY <1>2 DEF OffShare
<1>5. PICK bound \in Nat : bound = p + (worth * slip) \div 100
  <2>1. (worth * slip) \div 100 \in Nat
    BY SliceOf
  <2>. QED
    BY <2>1
<1>6. Tolerance(worth, t) = Max({least, bound})
  BY <1>2, <1>5 DEF Tolerance
<1>7. Tolerance(worth, t) \in Nat /\ Tolerance(worth, t) >= least /\ Tolerance(worth, t) >= bound
  BY <1>6, LargerOf
<1>. QED
  BY <1>1, <1>2, <1>3, <1>4, <1>5, <1>7

(* A sale, in figures.                                                     *)
LEMMA SaleFigures ==
  ASSUME NEW x, NEW p, NEW target, NEW off, NEW worth, NEW slip, NEW tol,
         NEW a, NEW value, NEW lost, NEW got,
         IsSale(x, p, target, off, worth, slip, tol, a, value, lost, got)
  PROVE  /\ a \in Nat /\ got \in Nat
         /\ -(100 * tol) <= 100 * ((x - a) * p) - target /\ 100 * ((x - a) * p) - target <= 100 * tol
         /\ -(100 * tol) <= 100 * got - off /\ 100 * got - off <= 100 * tol
<1>. /\ x \in Nat /\ p \in Nat \ {0} /\ target \in Nat /\ off \in Int
     /\ worth \in Nat /\ slip \in 0 .. 99 /\ tol \in Nat
     /\ off = 100 * (x * p) - target /\ off > 0 /\ x * p <= worth
     /\ tol >= p + (worth * slip) \div 100
     /\ a = off \div (100 * p) /\ value = a * p /\ lost \in {0, (value * slip) \div 100}
     /\ got = (value - lost) \div 1
  BY DEF IsSale, IsSold, IsOff, IsWithin
<1>1. /\ a \in Nat /\ 100 * value <= off /\ off < 100 * value + 100 * p
      /\ 100 * ((x - a) * p) - target = off - 100 * value
  <2>1. /\ a \in Nat /\ 100 * (a * p) <= off /\ off < 100 * (a * p) + 100 * p
        /\ 100 * ((x - a) * p) - target = off - 100 * (a * p)
    BY SoldDown DEF IsSale
  <2>. QED
    BY <2>1
<1>2. value \in Nat
  BY <1>1
<1>3. PICK worthOff \in Nat : worthOff = x * p
  OBVIOUS
<1>4. value <= worth
  BY <1>1, <1>2, <1>3
<1>5. lost \in Nat /\ lost <= value /\ lost <= (worth * slip) \div 100 /\ (worth * slip) \div 100 \in Nat
  <2>1. IsLost(value, worth, slip, lost)
    BY <1>2, <1>4 DEF IsLost
  <2>. QED
    BY <2>1, LostOf
<1>6. PICK most \in Nat : most = (worth * slip) \div 100
  BY <1>5
<1>7. got = value - lost
  BY <1>2, <1>5
<1>8. PICK now \in Int : now = 100 * ((x - a) * p) - target /\ now = off - 100 * value
  BY <1>1, <1>2
<1>9. lost \in Nat /\ lost <= value /\ lost <= most /\ tol >= p + most
  BY <1>5, <1>6
<1>10. -(100 * tol) <= now /\ now <= 100 * tol
  BY <1>1, <1>2, <1>8, <1>9
<1>11. got \in Nat /\ -(100 * tol) <= 100 * got - off /\ 100 * got - off <= 100 * tol
  BY <1>1, <1>2, <1>7, <1>9
<1>. QED
  BY <1>1, <1>8, <1>10, <1>11

(* A purchase, in figures.                                                 *)
LEMMA PurchaseFigures ==
  ASSUME NEW x, NEW p, NEW target, NEW off, NEW worth, NEW slip, NEW tol, NEW a, NEW lost, NEW got,
         IsPurchase(x, p, target, off, worth, slip, tol, a, lost, got)
  PROVE  /\ a \in Nat /\ got \in Nat
         /\ -(100 * tol) <= 100 * ((x + got) * p) - target /\ 100 * ((x + got) * p) - target <= 100 * tol
         /\ -(100 * tol) <= 100 * (-a) - off /\ 100 * (-a) - off <= 100 * tol
<1>. /\ x \in Nat /\ p \in Nat \ {0} /\ target \in Nat /\ off \in Int
     /\ worth \in Nat /\ slip \in 0 .. 99 /\ tol \in Nat
     /\ off = 100 * (x * p) - target /\ off <= 0 /\ target <= 100 * worth
     /\ tol >= p + (worth * slip) \div 100
     /\ a = (-off) \div 100 /\ lost \in {0, (a * slip) \div 100} /\ got = (a - lost) \div p
  BY DEF IsPurchase, IsOff, IsWithin
<1>1. PICK worthOff \in Nat : worthOff = x * p
  OBVIOUS
<1>2. PICK d \in Nat : d = -off
  OBVIOUS
<1>3. a \in Nat /\ 100 * a <= d /\ d <= 100 * worth
  BY <1>1, <1>2
<1>4. a <= worth
  BY <1>3
<1>5. lost \in Nat /\ lost <= a /\ lost <= (worth * slip) \div 100 /\ (worth * slip) \div 100 \in Nat
  <2>1. IsLost(a, worth, slip, lost)
    BY <1>3, <1>4 DEF IsLost
  <2>. QED
    BY <2>1, LostOf
<1>6. /\ 100 * a <= -off /\ -off < 100 * a + 100 /\ got \in Nat
      /\ 100 * ((x + got) * p) - target <= 0
      /\ -(100 * (p + lost)) <= 100 * ((x + got) * p) - target
  <2>1. IsBought(x, p, target, off, a, lost, got)
    BY <1>5 DEF IsBought, IsOff
  <2>. QED
    BY <2>1, BoughtUp
<1>7. PICK most \in Nat : most = (worth * slip) \div 100
  BY <1>5
<1>8. PICK now \in Int : now = 100 * ((x + got) * p) - target
  BY <1>6
<1>9. lost <= most /\ tol >= p + most
  BY <1>5, <1>7
<1>10. -(100 * tol) <= now /\ now <= 100 * tol
  BY <1>5, <1>6, <1>8, <1>9
<1>11. -(100 * tol) <= 100 * (-a) - off /\ 100 * (-a) - off <= 100 * tol
  BY <1>3, <1>6, <1>9
<1>. QED
  BY <1>3, <1>6, <1>8, <1>10, <1>11

(* A trade brings its token to its share, and changes USDC by what the     *)
(* token was off, each within the tolerance.                               *)
LEMMA TradeMoves ==
  ASSUME NEW worth \in Nat, NEW held \in [Tokens -> Nat], NEW t \in Bought,
         held[t] * Price[t] <= worth,
         NEW got \in Proceeds(Trade(worth, held, t)),
         NEW after, after = Paid(held, Trade(worth, held, t), got)
  PROVE  /\ \A u \in Tokens \ {t, USDC} : after[u] = held[u]
         /\ Abs(OffShare(worth, after, t)) <= 100 * Tolerance(worth, t)
         /\ \E d \in Int :
              /\ after[USDC] = held[USDC] + d
              /\ -(100 * Tolerance(worth, t)) <= 100 * d - OffShare(worth, held, t)
              /\ 100 * d - OffShare(worth, held, t) <= 100 * Tolerance(worth, t)
<1>. DEFINE swap == Trade(worth, held, t)
<1>1. t \in Listed /\ t \in Tokens /\ t # USDC /\ USDC \in Tokens /\ Price[USDC] = 1
  BY ListedFinite, RebalanceAssumption DEF Bought, Tokens
<1>2. PICK p \in Nat \ {0}, x \in Nat, y \in Nat, target \in Nat, off \in Int, tol \in Nat, slip \in 0 .. 99 :
        /\ p = Price[t] /\ x = held[t] /\ y = held[USDC] /\ target = Weight[t] * worth
        /\ off = OffShare(worth, held, t) /\ off = 100 * (x * p) - target
        /\ tol = Tolerance(worth, t) /\ slip = SLIPPAGE
        /\ tol >= p + (worth * slip) \div 100
        /\ target <= 100 * worth
  <2>1. /\ Price[t] \in Nat \ {0} /\ held[t] \in Nat /\ Weight[t] * worth \in Nat
        /\ OffShare(worth, held, t) \in Int
        /\ OffShare(worth, held, t) = 100 * (held[t] * Price[t]) - Weight[t] * worth
        /\ Tolerance(worth, t) \in Nat /\ Weight[t] \in 0 .. 100
        /\ Tolerance(worth, t) >= Price[t] + (worth * SLIPPAGE) \div 100
    BY <1>1, FiguresOf
  <2>2. held[USDC] \in Nat /\ SLIPPAGE \in 0 .. 99
    BY <1>1, RebalanceAssumption
  <2>3. PICK p \in Nat \ {0}, x \in Nat, target \in Nat, w \in 0 .. 100 :
          p = Price[t] /\ x = held[t] /\ target = Weight[t] * worth /\ w = Weight[t]
    BY <2>1
  <2>4. PICK off \in Int, tol \in Nat, slip \in 0 .. 99, y \in Nat :
          /\ off = OffShare(worth, held, t) /\ tol = Tolerance(worth, t) /\ slip = SLIPPAGE
          /\ y = held[USDC]
    BY <2>1, <2>2
  <2>5. off = 100 * (x * p) - target /\ tol >= p + (worth * slip) \div 100
    BY <2>1, <2>3, <2>4
  <2>6. target <= 100 * worth
    <3>1. w * worth <= 100 * worth
      OBVIOUS
    <3>. QED
      BY <2>3, <3>1
  <2>. QED
    BY <2>3, <2>4, <2>5, <2>6
<1>3. ASSUME NEW z, after[t] = z PROVE OffShare(worth, after, t) = 100 * (z * p) - target
  BY <1>2, <1>3 DEF OffShare
<1>4. ASSUME NEW now \in Int, OffShare(worth, after, t) = now, -(100 * tol) <= now, now <= 100 * tol
      PROVE  Abs(OffShare(worth, after, t)) <= 100 * Tolerance(worth, t)
  <2>1. Abs(now) <= 100 * tol
    BY <1>4 DEF Abs
  <2>. QED
    BY <1>2, <1>4, <2>1
<1>5. CASE off > 0
  <2>1. PICK a, value : a = off \div (100 * p) /\ value = a * p
    OBVIOUS
  <2>2. swap = [from |-> t, to |-> USDC, amount |-> a]
    BY <1>2, <1>5, <2>1 DEF Trade
  <2>3. swap.amount * Price[swap.from] = value /\ Price[swap.to] = 1
    BY <1>1, <1>2, <2>1, <2>2
  <2>4. PICK lost \in {0, (value * slip) \div 100} : got = (value - lost) \div 1
    <3>1. Proceeds(swap) = {(value - lost) \div 1 : lost \in {0, (value * slip) \div 100}}
      BY <1>2, <2>3 DEF Proceeds
    <3>. QED
      BY <3>1
  <2>5. x * p <= worth
    BY <1>2
  <2>6. /\ a \in Nat /\ got \in Nat
        /\ -(100 * tol) <= 100 * ((x - a) * p) - target /\ 100 * ((x - a) * p) - target <= 100 * tol
        /\ -(100 * tol) <= 100 * got - off /\ 100 * got - off <= 100 * tol
    <3>1. IsSale(x, p, target, off, worth, slip, tol, a, value, lost, got)
      BY <1>2, <1>5, <2>1, <2>4, <2>5 DEF IsSale, IsSold, IsOff, IsWithin
    <3>. QED
      BY <3>1, SaleFigures
  <2>7. after = [held EXCEPT ![t] = @ - a, ![USDC] = @ + got]
    BY <2>2 DEF Paid
  <2>8. /\ after[t] = x - a /\ after[USDC] = y + got
        /\ \A u \in Tokens \ {t, USDC} : after[u] = held[u]
    BY <1>1, <1>2, <2>7
  <2>9. OffShare(worth, after, t) = 100 * ((x - a) * p) - target
    BY <1>3, <2>8
  <2>10. 100 * ((x - a) * p) - target \in Int
    BY <2>6
  <2>11. Abs(OffShare(worth, after, t)) <= 100 * Tolerance(worth, t)
    BY <1>4, <2>6, <2>9, <2>10
  <2>12. got \in Int /\ after[USDC] = held[USDC] + got
    BY <1>2, <2>6, <2>8
  <2>13. /\ -(100 * Tolerance(worth, t)) <= 100 * got - OffShare(worth, held, t)
         /\ 100 * got - OffShare(worth, held, t) <= 100 * Tolerance(worth, t)
    BY <1>2, <2>6
  <2>. QED
    BY <2>8, <2>11, <2>12, <2>13
<1>6. CASE off <= 0
  <2>1. PICK a : a = (-off) \div 100
    OBVIOUS
  <2>2. swap = [from |-> USDC, to |-> t, amount |-> a]
    BY <1>2, <1>6, <2>1 DEF Trade
  <2>3. a \in Int
    BY <1>6, <2>1
  <2>4. swap.amount * Price[swap.from] = a /\ Price[swap.to] = p
    BY <1>1, <1>2, <2>2, <2>3
  <2>5. PICK lost \in {0, (a * slip) \div 100} : got = (a - lost) \div p
    <3>1. Proceeds(swap) = {(a - lost) \div p : lost \in {0, (a * slip) \div 100}}
      BY <1>2, <2>4 DEF Proceeds
    <3>. QED
      BY <3>1
  <2>6. /\ a \in Nat /\ got \in Nat
        /\ -(100 * tol) <= 100 * ((x + got) * p) - target /\ 100 * ((x + got) * p) - target <= 100 * tol
        /\ -(100 * tol) <= 100 * (-a) - off /\ 100 * (-a) - off <= 100 * tol
    <3>1. IsPurchase(x, p, target, off, worth, slip, tol, a, lost, got)
      BY <1>2, <1>6, <2>1, <2>5 DEF IsPurchase, IsOff, IsWithin
    <3>. QED
      BY <3>1, PurchaseFigures
  <2>7. after = [held EXCEPT ![USDC] = @ - a, ![t] = @ + got]
    BY <2>2 DEF Paid
  <2>8. /\ after[t] = x + got /\ after[USDC] = y - a
        /\ \A u \in Tokens \ {t, USDC} : after[u] = held[u]
    BY <1>1, <1>2, <2>7
  <2>9. OffShare(worth, after, t) = 100 * ((x + got) * p) - target
    BY <1>3, <2>8
  <2>10. 100 * ((x + got) * p) - target \in Int
    BY <2>6
  <2>11. Abs(OffShare(worth, after, t)) <= 100 * Tolerance(worth, t)
    BY <1>4, <2>6, <2>9, <2>10
  <2>12. -a \in Int /\ after[USDC] = held[USDC] + (-a)
    BY <1>2, <2>6, <2>8
  <2>13. /\ -(100 * Tolerance(worth, t)) <= 100 * (-a) - OffShare(worth, held, t)
         /\ 100 * (-a) - OffShare(worth, held, t) <= 100 * Tolerance(worth, t)
    BY <1>2, <2>6
  <2>. QED
    BY <2>8, <2>11, <2>12, <2>13
<1>7. off > 0 \/ off <= 0
  BY <1>2
<1>. QED
  BY <1>5, <1>6, <1>7

(* The sums these shares are made of.                                      *)
LEMMA ShareSums ==
  ASSUME NEW worth \in Nat, NEW held \in [Tokens -> Nat], NEW T \in SUBSET Bought
  PROVE  /\ IsFiniteSet(T) /\ IsFiniteSet(Bought \ T) /\ T \subseteq Listed /\ T \subseteq Tokens
         /\ USDC \notin T /\ USDC \in Listed /\ USDC \in Tokens
         /\ \A t \in Listed : Off(worth, held)[t] \in Int /\ Off(worth, held)[t] = OffShare(worth, held, t)
         /\ \A t \in Bought : Tolerances(worth)[t] \in Nat /\ Tolerances(worth)[t] = Tolerance(worth, t)
         /\ SumOf(Off(worth, held), T) \in Int
         /\ SumOf(Tolerances(worth), Bought \ T) \in Nat
<1>1. USDC \in Listed /\ IsFiniteSet(Listed) /\ Listed \subseteq Tokens
  BY ListedFinite, RebalanceAssumption
<1>2. T \subseteq Listed /\ Bought \ T \subseteq Listed /\ USDC \notin T
  BY DEF Bought
<1>3. IsFiniteSet(T) /\ IsFiniteSet(Bought \ T)
  BY <1>1, <1>2, FS_Subset
<1>4. \A t \in Listed : Off(worth, held)[t] \in Int /\ Off(worth, held)[t] = OffShare(worth, held, t)
  BY FiguresOf DEF Off
<1>5. \A t \in Bought : Tolerances(worth)[t] \in Nat /\ Tolerances(worth)[t] = Tolerance(worth, t)
  BY FiguresOf DEF Tolerances, Bought
<1>6. SumOf(Off(worth, held), T) \in Int
  BY <1>2, <1>3, <1>4, SumType
<1>7. SumOf(Tolerances(worth), Bought \ T) \in Nat
  BY <1>3, <1>5, SumType
<1>. QED
  BY <1>1, <1>2, <1>3, <1>4, <1>5, <1>6, <1>7

(* A bound on a size bounds from both sides.                               *)
LEMMA AbsBounds ==
  ASSUME NEW n \in Int, NEW m \in Int
  PROVE  Abs(n) <= m <=> (-m <= n /\ n <= m)
BY DEF Abs

(* One trade later one token less is to be traded, and the trades of the   *)
(* others are what they were.                                              *)
LEMMA TradeDone ==
  ASSUME NEW worth \in Nat, NEW held \in [Tokens -> Nat], NEW T \in SUBSET Bought, NEW t \in T,
         SharesLeft(worth, held, T),
         NEW got \in Proceeds(Trade(worth, held, t)),
         NEW after \in [Tokens -> Nat], after = Paid(held, Trade(worth, held, t), got)
  PROVE  /\ SharesLeft(worth, after, T \ {t})
         /\ \A u \in T \ {t} : Trades(worth, after)[u] = Trades(worth, held)[u]
<1>. DEFINE R == T \ {t}
<1>1. t \in Bought /\ R \in SUBSET Bought /\ held[t] * Price[t] <= worth
  BY DEF SharesLeft
<1>2. PICK d \in Int :
        /\ \A u \in Tokens \ {t, USDC} : after[u] = held[u]
        /\ Abs(OffShare(worth, after, t)) <= 100 * Tolerance(worth, t)
        /\ after[USDC] = held[USDC] + d
        /\ -(100 * Tolerance(worth, t)) <= 100 * d - OffShare(worth, held, t)
        /\ 100 * d - OffShare(worth, held, t) <= 100 * Tolerance(worth, t)
  BY <1>1, TradeMoves
<1>3. ASSUME NEW u \in Bought \ {t}
      PROVE  /\ after[u] = held[u] /\ u \in Listed
             /\ OffShare(worth, after, u) = OffShare(worth, held, u)
             /\ Trades(worth, after)[u] = Trades(worth, held)[u]
  <2>1. u \in Tokens \ {t, USDC} /\ u \in Listed
    BY ListedFinite DEF Bought
  <2>2. after[u] = held[u]
    BY <1>2, <2>1
  <2>3. OffShare(worth, after, u) = OffShare(worth, held, u)
    BY <2>2 DEF OffShare
  <2>4. Trade(worth, after, u) = Trade(worth, held, u)
    BY <2>3 DEF Trade
  <2>. QED
    BY <2>1, <2>2, <2>3, <2>4 DEF Trades
<1>4. \A u \in R : after[u] * Price[u] <= worth
  BY <1>3 DEF SharesLeft
<1>5. \A u \in Bought \ R : Abs(OffShare(worth, after, u)) <= 100 * Tolerance(worth, u)
  BY <1>2, <1>3 DEF SharesLeft
<1>6. PICK a \in Int, off \in Int, tol \in Nat, rest \in Int, bound \in Nat :
        /\ a = OffShare(worth, held, USDC) /\ off = OffShare(worth, held, t)
        /\ tol = Tolerance(worth, t) /\ rest = SumOf(Off(worth, held), R)
        /\ bound = SumOf(Tolerances(worth), Bought \ T)
  <2>1. SumOf(Off(worth, held), R) \in Int
    BY <1>1, ShareSums
  <2>2. SumOf(Tolerances(worth), Bought \ T) \in Nat
    BY ShareSums
  <2>3. USDC \in Listed /\ t \in Listed
    BY RebalanceAssumption DEF Bought
  <2>. HIDE DEF R
  <2>. QED
    BY <2>1, <2>2, <2>3, FiguresOf
<1>7. SumOf(Off(worth, held), T) = off + rest
  <2>1. IsFiniteSet(T) /\ \A u \in T : Off(worth, held)[u] \in Int
    BY ShareSums
  <2>2. SumOf(Off(worth, held), T) = Off(worth, held)[t] + SumOf(Off(worth, held), R)
    BY <2>1, SumRemove
  <2>3. Off(worth, held)[t] = off
    BY <1>6, ShareSums
  <2>. QED
    BY <1>6, <2>2, <2>3
<1>8. SumOf(Off(worth, after), R) = rest
  <2>1. \A u \in R : Off(worth, after)[u] = Off(worth, held)[u]
    BY <1>3 DEF Off
  <2>2. IsFiniteSet(R)
    BY <1>1, ShareSums
  <2>3. SumOf(Off(worth, after), R) = SumOf(Off(worth, held), R)
    <3>1. PICK f, g : f = Off(worth, after) /\ g = Off(worth, held)
      OBVIOUS
    <3>2. SumOf(f, R) = SumOf(g, R)
      <4>1. \A x \in R : f[x] = g[x]
        BY <2>1, <3>1
      <4>. HIDE DEF R
      <4>. QED
        BY <2>2, <4>1, SumAgree
    <3>. QED
      BY <3>1, <3>2
  <2>. QED
    BY <1>6, <2>3
<1>9. SumOf(Tolerances(worth), Bought \ R) = tol + bound
  <2>1. IsFiniteSet(Bought \ R) /\ \A u \in Bought \ R : Tolerances(worth)[u] \in Int
    <3>1. IsFiniteSet(Bought \ R)
      <4>1. PICK S \in SUBSET Bought : S = R
        BY <1>1
      <4>2. IsFiniteSet(Bought \ S)
        BY ShareSums
      <4>. QED
        BY <4>1, <4>2
    <3>2. \A u \in Bought : Tolerances(worth)[u] \in Nat
      BY ShareSums
    <3>. QED
      BY <3>1, <3>2
  <2>2. t \in Bought \ R /\ (Bought \ R) \ {t} = Bought \ T
    BY <1>1
  <2>. HIDE DEF R
  <2>3. SumOf(Tolerances(worth), Bought \ R)
          = Tolerances(worth)[t] + SumOf(Tolerances(worth), (Bought \ R) \ {t})
    BY <2>1, <2>2, SumRemove
  <2>4. Tolerances(worth)[t] = tol
    BY <1>1, <1>6, ShareSums
  <2>. QED
    BY <1>6, <2>2, <2>3, <2>4
<1>10. OffShare(worth, after, USDC) = a + 100 * d
  <2>1. /\ OffShare(worth, after, USDC) = 100 * (after[USDC] * Price[USDC]) - Weight[USDC] * worth
        /\ a = 100 * (held[USDC] * Price[USDC]) - Weight[USDC] * worth
    BY <1>6 DEF OffShare
  <2>2. PICK y \in Nat, target \in Nat : y = held[USDC] /\ target = Weight[USDC] * worth
    <3>1. USDC \in Listed
      BY RebalanceAssumption
    <3>2. held[USDC] \in Nat /\ Weight[USDC] * worth \in Nat
      BY <3>1, FiguresOf
    <3>. QED
      BY <3>2
  <2>3. Price[USDC] = 1
    BY RebalanceAssumption
  <2>. QED
    BY <1>2, <2>1, <2>2, <2>3
<1>11. Abs(OffShare(worth, after, USDC) + SumOf(Off(worth, after), R))
         <= 100 * SumOf(Tolerances(worth), Bought \ R)
  <2>1. Abs(a + (off + rest)) <= 100 * bound
    BY <1>6, <1>7 DEF SharesLeft
  <2>2. -(100 * bound) <= a + (off + rest) /\ a + (off + rest) <= 100 * bound
    BY <2>1, AbsBounds
  <2>3. -(100 * tol) <= 100 * d - off /\ 100 * d - off <= 100 * tol
    BY <1>2, <1>6
  <2>4. -(100 * (tol + bound)) <= (a + 100 * d) + rest /\ (a + 100 * d) + rest <= 100 * (tol + bound)
    BY <2>2, <2>3
  <2>5. Abs((a + 100 * d) + rest) <= 100 * (tol + bound)
    BY <2>4, AbsBounds
  <2>. QED
    BY <1>8, <1>9, <1>10, <2>5
<1>12. SharesLeft(worth, after, R)
  BY <1>4, <1>5, <1>11 DEF SharesLeft
<1>13. \A u \in R : Trades(worth, after)[u] = Trades(worth, held)[u]
  BY <1>3
<1>. QED
  BY <1>12, <1>13

(* What is at hand to begin with, when what is not to be traded is at its  *)
(* share already.                                                          *)
LEMMA SharesStart ==
  ASSUME NEW worth \in Nat, NEW held \in [Tokens -> Nat], NEW T \in SUBSET Bought,
         NEW values, values = [t \in Listed |-> held[t] * Price[t]], worth = SumOf(values, Listed),
         \A t \in Bought \ T : Abs(OffShare(worth, held, t)) <= 100 * Tolerance(worth, t)
  PROVE  SharesLeft(worth, held, T)
<1>1. IsFiniteSet(Listed) /\ USDC \in Listed
  BY ListedFinite, RebalanceAssumption
<1>2. \A t \in Listed : values[t] \in Nat
  BY FiguresOf
<1>3. ASSUME NEW t \in T PROVE held[t] * Price[t] <= worth
  <2>1. t \in Listed
    BY DEF Bought
  <2>2. IsFiniteSet(Listed \ {t})
    BY <1>1, FS_Subset
  <2>3. SumOf(values, Listed \ {t}) \in Nat
    BY <1>2, <2>2, SumType
  <2>4. SumOf(values, Listed) = values[t] + SumOf(values, Listed \ {t})
    BY <1>1, <1>2, <2>1, SumRemove
  <2>5. PICK v \in Nat : v = values[t]
    BY <1>2, <2>1
  <2>. QED
    BY <2>1, <2>3, <2>4, <2>5
<1>4. SumOf(Off(worth, held), Listed) = 0
  <2>1. \A t \in Listed :
          /\ values[t] \in Int /\ Weight[t] \in Int
          /\ Off(worth, held)[t] = 100 * values[t] - Weight[t] * worth
    <3>1. SUFFICES ASSUME NEW t \in Listed
                   PROVE  /\ values[t] \in Int /\ Weight[t] \in Int
                          /\ Off(worth, held)[t] = 100 * values[t] - Weight[t] * worth
      OBVIOUS
    <3>2. values[t] = held[t] * Price[t] /\ Off(worth, held)[t] = OffShare(worth, held, t)
      BY DEF Off
    <3>3. Weight[t] \in 0 .. 100 /\ held[t] * Price[t] \in Nat
          /\ OffShare(worth, held, t) = 100 * (held[t] * Price[t]) - Weight[t] * worth
      BY FiguresOf
    <3>. QED
      BY <3>2, <3>3
  <2>2. SumOf(Off(worth, held), Listed) = 100 * SumOf(values, Listed) - SumOf(Weight, Listed) * worth
    <3>1. PICK h : h = Off(worth, held)
      OBVIOUS
    <3>2. SumOf(h, Listed) = 100 * SumOf(values, Listed) - SumOf(Weight, Listed) * worth
      <4>1. IsFiniteSet(Listed) /\ worth \in Int
        BY <1>1
      <4>2. IsLess(h, values, Weight, worth, Listed)
        BY <2>1, <3>1 DEF IsLess
      <4>. QED
        BY <4>1, <4>2, SumDifference
    <3>. QED
      BY <3>1, <3>2
  <2>3. SumOf(Weight, Listed) = 100
    BY RebalanceAssumption DEF SumOf
  <2>. QED
    BY <2>2, <2>3
<1>5. PICK a \in Int, still \in Int, rest \in Int, bound \in Nat :
        /\ a = OffShare(worth, held, USDC) /\ still = SumOf(Off(worth, held), T)
        /\ rest = SumOf(Off(worth, held), Bought \ T)
        /\ bound = SumOf(Tolerances(worth), Bought \ T)
  <2>1. SumOf(Off(worth, held), T) \in Int /\ SumOf(Tolerances(worth), Bought \ T) \in Nat
    BY ShareSums
  <2>2. SumOf(Off(worth, held), Bought \ T) \in Int
    BY ShareSums
  <2>3. OffShare(worth, held, USDC) \in Int
    BY <1>1, FiguresOf
  <2>. QED
    BY <2>1, <2>2, <2>3
<1>6. a + (still + rest) = 0
  <2>1. \A t \in Listed : Off(worth, held)[t] \in Int
    BY FiguresOf DEF Off
  <2>2. SumOf(Off(worth, held), Listed) = a + SumOf(Off(worth, held), Listed \ {USDC})
    <3>1. SumOf(Off(worth, held), Listed)
            = Off(worth, held)[USDC] + SumOf(Off(worth, held), Listed \ {USDC})
      BY <1>1, <2>1, SumRemove
    <3>2. Off(worth, held)[USDC] = a
      BY <1>1, <1>5 DEF Off
    <3>. QED
      BY <3>1, <3>2
  <2>3. /\ IsFiniteSet(T) /\ IsFiniteSet(Bought \ T) /\ T \cap (Bought \ T) = {}
        /\ T \cup (Bought \ T) = Listed \ {USDC}
    BY ShareSums DEF Bought
  <2>4. SumOf(Off(worth, held), T \cup (Bought \ T)) = still + rest
    <3>1. \A t \in T \cup (Bought \ T) : Off(worth, held)[t] \in Int
      BY <2>1 DEF Bought
    <3>2. SumOf(Off(worth, held), T \cup (Bought \ T)) = still + rest
      <4>1. PICK f, A, B : f = Off(worth, held) /\ A = T /\ B = Bought \ T
        OBVIOUS
      <4>2. SumOf(f, A \cup B) = SumOf(f, A) + SumOf(f, B)
        BY <2>3, <3>1, <4>1, SumUnion
      <4>. QED
        BY <1>5, <4>1, <4>2
    <3>. QED
      BY <3>2
  <2>. QED
    BY <1>4, <2>2, <2>3, <2>4
<1>7. -(100 * bound) <= rest /\ rest <= 100 * bound
  <2>1. IsFiniteSet(Bought \ T)
    BY ShareSums
  <2>2. ASSUME NEW t \in Bought \ T
        PROVE  /\ Off(worth, held)[t] \in Int /\ Tolerances(worth)[t] \in Nat
               /\ -(100 * Tolerances(worth)[t]) <= Off(worth, held)[t]
               /\ Off(worth, held)[t] <= 100 * Tolerances(worth)[t]
    <3>1. PICK off \in Int, tol \in Nat : /\ off = OffShare(worth, held, t) /\ tol = Tolerance(worth, t)
                                          /\ Off(worth, held)[t] = off /\ Tolerances(worth)[t] = tol
      BY FiguresOf DEF Off, Tolerances, Bought
    <3>2. Abs(off) <= 100 * tol
      BY <3>1
    <3>3. -(100 * tol) <= off /\ off <= 100 * tol
      BY <3>2, AbsBounds
    <3>. QED
      BY <3>1, <3>3
  <2>3. /\ -(100 * SumOf(Tolerances(worth), Bought \ T)) <= SumOf(Off(worth, held), Bought \ T)
        /\ SumOf(Off(worth, held), Bought \ T) <= 100 * SumOf(Tolerances(worth), Bought \ T)
    BY <2>1, <2>2, SumBounded
  <2>. QED
    BY <1>5, <2>3
<1>8. Abs(a + still) <= 100 * bound
  BY <1>6, <1>7, AbsBounds
<1>. QED
  BY <1>3, <1>5, <1>8 DEF SharesLeft

(* With nothing left to trade the Safe is balanced.                        *)
LEMMA SharesReached ==
  ASSUME NEW worth \in Nat, NEW held \in [Tokens -> Nat], SharesLeft(worth, held, {})
  PROVE  Balanced(worth, held)
<1>1. Bought \ {} = Bought /\ SumOf(Off(worth, held), {}) = 0
  BY SumEmpty
<1>2. OffShare(worth, held, USDC) \in Int
  <2>1. USDC \in Listed
    BY RebalanceAssumption
  <2>. QED
    BY <2>1, FiguresOf
<1>3. OffShare(worth, held, USDC) + SumOf(Off(worth, held), {}) = OffShare(worth, held, USDC)
  BY <1>1, <1>2
<1>. QED
  BY <1>1, <1>3 DEF SharesLeft, Balanced, SumOf

(* One sale later one token less is to be sold.                            *)
LEMMA SaleDone ==
  ASSUME NEW held \in [Tokens -> Nat], NEW T \in SUBSET Bought, NEW t \in T, SalesLeft(held, T),
         NEW got \in Proceeds(Sales(held)[t]),
         NEW after \in [Tokens -> Nat], after = Paid(held, Sales(held)[t], got)
  PROVE  /\ SalesLeft(after, T \ {t})
         /\ \A u \in T \ {t} : Sales(after)[u] = Sales(held)[u]
<1>1. t \in Bought /\ t # USDC /\ t \in Tokens /\ USDC \in Tokens
  BY ListedFinite, RebalanceAssumption DEF Bought
<1>2. Sales(held)[t] = [from |-> t, to |-> USDC, amount |-> held[t]]
  BY <1>1 DEF Sales
<1>3. after = [held EXCEPT ![t] = @ - held[t], ![USDC] = @ + got]
  BY <1>2 DEF Paid
<1>4. after[t] = 0 /\ \A u \in Bought \ {t} : after[u] = held[u]
  <2>1. PICK x \in Nat : x = held[t]
    BY <1>1
  <2>2. after[t] = x - x
    BY <1>1, <1>3, <2>1
  <2>3. \A u \in Bought \ {t} : u \in Tokens /\ u # USDC
    BY ListedFinite DEF Bought
  <2>. QED
    BY <1>1, <1>3, <2>2, <2>3
<1>5. after[t] * Price[t] < MIN_SWAP_USD
  <2>1. PICK p \in Nat : p = Price[t]
    <3>1. Price[t] \in Nat \ {0}
      BY <1>1, RebalanceAssumption
    <3>. QED
      BY <3>1
  <2>2. PICK least \in Nat \ {0} : least = MIN_SWAP_USD
    BY RebalanceAssumption
  <2>. QED
    BY <1>4, <2>1, <2>2
<1>6. SalesLeft(after, T \ {t})
  BY <1>4, <1>5 DEF SalesLeft
<1>7. \A u \in T \ {t} : Sales(after)[u] = Sales(held)[u]
  BY <1>4 DEF Sales
<1>. QED
  BY <1>6, <1>7

-----------------------------------------------------------------------------
(* Plans. *)

(* Orders given by one list are given by any that agrees with it.          *)
LEMMA OrdersAgree ==
  ASSUME NEW swaps, NEW T, NEW order, Orders(swaps, T, order),
         NEW other, \A t \in T : other[t] = order[t]
  PROVE  Orders(swaps, T, other)
BY DEF Orders

LEMMA SendsAgree ==
  ASSUME NEW txs, NEW T, NEW order, Sends(txs, T, order),
         NEW other, \A t \in T : other[t] = order[t]
  PROVE  Sends(txs, T, other)
BY DEF Sends

(* Where nothing is ordered or sent there is nothing left.                 *)
LEMMA NoneOrdered ==
  ASSUME NEW swaps, Len(swaps) = 0, NEW T, NEW order, Orders(swaps, T, order)
  PROVE  T = {}
BY DEF Orders

LEMMA NoneSent ==
  ASSUME NEW txs, Len(txs) = 0, NEW T, NEW order, Sends(txs, T, order)
  PROVE  T = {}
BY DEF Sends, SwapsIn

(* A snapshot with every balance and price is of the Safe as it is.        *)
Seen(s, held) == s.priced = Listed /\ \A t \in Listed : s.seen[t] = held[t]

LEMMA SeenWorth ==
  ASSUME NEW s \in Job, NEW held \in [Tokens -> Nat], Seen(s, held)
  PROVE  /\ Total(s) \in Nat
         /\ Total(s) = SumOf([t \in Listed |-> held[t] * Price[t]], Listed)
         /\ \A t \in Listed : /\ Value(s, t) = held[t] * Price[t]
                              /\ Delta(s, t) = -OffShare(Total(s), held, t)
<1>1. \A t \in Listed : Value(s, t) = held[t] * Price[t]
  BY DEF Value, Seen
<1>2. Values(s) = [t \in Listed |-> held[t] * Price[t]]
  BY <1>1 DEF Values
<1>3. Total(s) = SumOf(Values(s), Listed)
  BY DEF Total, SumOf, MapThenSumSet, MapThenFoldSet
<1>4. Total(s) \in Nat
  BY TotalType
<1>5. ASSUME NEW t \in Listed PROVE Delta(s, t) = -OffShare(Total(s), held, t)
  <2>1. PICK value \in Nat, share \in Nat :
          value = held[t] * Price[t] /\ share = Weight[t] * Total(s)
    BY <1>4, FiguresOf
  <2>2. Delta(s, t) = share - 100 * value
    BY <1>1, <2>1 DEF Delta
  <2>3. OffShare(Total(s), held, t) = 100 * value - share
    BY <2>1 DEF OffShare
  <2>. QED
    BY <2>1, <2>2, <2>3
<1>. QED
  BY <1>1, <1>2, <1>3, <1>4, <1>5

(* Less than a swap is within the tolerance.                               *)
LEMMA SmallWithin ==
  ASSUME NEW worth \in Nat, NEW held \in [Tokens -> Nat], NEW t \in Listed,
         Abs(OffShare(worth, held, t)) < 100 * MIN_SWAP_USD
  PROVE  Abs(OffShare(worth, held, t)) <= 100 * Tolerance(worth, t)
<1>1. PICK off \in Int, tol \in Int, least \in Nat :
        /\ off = OffShare(worth, held, t) /\ tol = Tolerance(worth, t) /\ least = MIN_SWAP_USD
        /\ tol >= least
  <2>1. MIN_SWAP_USD \in Nat
    BY RebalanceAssumption
  <2>. QED
    BY <2>1, FiguresOf
<1>2. PICK size \in Int : size = Abs(off)
  BY DEF Abs
<1>3. size < 100 * least
  BY <1>1, <1>2
<1>. QED
  BY <1>1, <1>2, <1>3

(* computeSwaps orders the trade of every token that is off its share by a *)
(* swap or more, and of no other.                                          *)
LEMMA RebalancePlan ==
  ASSUME NEW s \in Job, NEW held \in [Tokens -> Nat], Seen(s, held)
  PROVE  \E T \in SUBSET Bought : /\ SharesLeft(Total(s), held, T)
                                  /\ Orders(ComputeSwaps(s), T, Trades(Total(s), held))
<1>. DEFINE values == [t \in Listed |-> held[t] * Price[t]]
<1>1. PICK worth \in Nat :
        /\ worth = Total(s) /\ worth = SumOf(values, Listed)
        /\ \A t \in Listed : /\ Value(s, t) = held[t] * Price[t]
                             /\ Delta(s, t) = -OffShare(worth, held, t)
  BY SeenWorth
<1>2. \A T \in SUBSET Bought :
        (\A t \in Bought \ T : Abs(OffShare(worth, held, t)) <= 100 * Tolerance(worth, t))
          => SharesLeft(worth, held, T)
  BY <1>1, SharesStart
<1>3. CASE worth < MIN_SWAP_USD
  <2>1. Orders(<<>>, {}, Trades(worth, held))
    <3>1. PICK none : none = <<>> /\ Len(none) = 0
      OBVIOUS
    <3>2. Orders(none, {}, Trades(worth, held))
      BY <3>1 DEF Orders
    <3>. QED
      BY <3>1, <3>2
  <2>2. ComputeSwaps(s) = <<>>
    BY <1>1, <1>3 DEF ComputeSwaps
  <2>3. SharesLeft(worth, held, Bought)
    BY <1>2
  <2>4. ASSUME NEW t \in Bought PROVE Abs(OffShare(worth, held, t)) <= 100 * Tolerance(worth, t)
    <3>1. t \in Listed
      BY DEF Bought
    <3>2. held[t] * Price[t] <= worth
      BY <2>3 DEF SharesLeft
    <3>3. PICK value \in Nat, w \in 0 .. 100, share \in Nat, least \in Nat :
            /\ value = held[t] * Price[t] /\ w = Weight[t] /\ share = w * worth
            /\ least = MIN_SWAP_USD
      <4>1. MIN_SWAP_USD \in Nat
        BY RebalanceAssumption
      <4>2. PICK w \in 0 .. 100 : w = Weight[t]
        BY <3>1, FiguresOf
      <4>3. PICK share \in Nat : share = w * worth
        OBVIOUS
      <4>. QED
        BY <3>1, <4>1, <4>2, <4>3, FiguresOf
    <3>4. share <= 100 * worth
      BY <3>3
    <3>5. OffShare(worth, held, t) = 100 * value - share
      BY <3>3 DEF OffShare
    <3>6. Abs(100 * value - share) < 100 * least
      <4>1. value <= worth /\ worth < least
        BY <1>3, <3>2, <3>3
      <4>2. 100 * value - share < 100 * least /\ -(100 * value - share) < 100 * least
        BY <3>3, <3>4, <4>1
      <4>. QED
        BY <3>3, <4>2 DEF Abs
    <3>. QED
      BY <3>1, <3>3, <3>5, <3>6, SmallWithin
  <2>5. SharesLeft(worth, held, {})
    BY <1>2, <2>4
  <2>. QED
    BY <1>1, <2>1, <2>2, <2>5
<1>4. CASE ~(worth < MIN_SWAP_USD)
  <2>. DEFINE off == {t \in s.priced \ {USDC} : Abs(Delta(s, t)) >= 100 * MIN_SWAP_USD}
              sell == [t \in Listed |-> [from |-> t, to |-> USDC, amount |-> SellAmount(s, t)]]
              buy == [t \in Listed |-> [from |-> USDC, to |-> t, amount |-> BuyAmount(s, t)]]
              sold == {t \in off : Delta(s, t) < 0}
              bought == {t \in off : Delta(s, t) > 0}
              trades == Trades(worth, held)
  <2>1. ComputeSwaps(s) = InOrder(sold, sell) \o InOrder(bought, buy)
    BY <1>1, <1>4 DEF ComputeSwaps, Wanted
  <2>2. off \in SUBSET Bought /\ sold \subseteq Listed /\ bought \subseteq Listed
    BY DEF Seen, Bought
  <2>3. ASSUME NEW t \in Listed
        PROVE  /\ t \in Tokens /\ USDC \in Tokens
               /\ Delta(s, t) \in Int /\ SellAmount(s, t) \in Nat
               /\ Delta(s, t) > 0 => BuyAmount(s, t) \in Nat
               /\ OffShare(worth, held, t) \in Int /\ Delta(s, t) = -OffShare(worth, held, t)
    <3>1. t \in Tokens /\ USDC \in Tokens
      BY ListedFinite DEF Tokens
    <3>. QED
      BY <1>1, <3>1, DeltaType, FiguresOf
  <2>4. ASSUME NEW t \in sold PROVE sell[t] \in Swap /\ TokenOf(sell[t]) = t /\ trades[t] = sell[t]
    <3>1. t \in Listed /\ t \in Bought /\ t # USDC /\ Delta(s, t) < 0
      BY <2>2 DEF Bought
    <3>2. sell[t] = [from |-> t, to |-> USDC, amount |-> SellAmount(s, t)]
      BY <3>1
    <3>3. PICK o \in Int, p \in Nat \ {0} : o = OffShare(worth, held, t) /\ p = Price[t] /\ o > 0
      <4>1. Price[t] \in Nat \ {0}
        BY <3>1, FiguresOf
      <4>. QED
        BY <2>3, <3>1, <4>1
    <3>4. SellAmount(s, t) = o \div (100 * p)
      <4>1. Delta(s, t) = -o
        BY <2>3, <3>1, <3>3
      <4>2. Abs(-o) = o
        BY <3>3 DEF Abs
      <4>. QED
        BY <3>3, <4>1, <4>2 DEF SellAmount
    <3>5. trades[t] = [from |-> t, to |-> USDC, amount |-> o \div (100 * p)]
      BY <3>1, <3>3 DEF Trades, Trade
    <3>. QED
      BY <2>3, <3>1, <3>2, <3>4, <3>5 DEF Swap, TokenOf
  <2>5. ASSUME NEW t \in bought PROVE buy[t] \in Swap /\ TokenOf(buy[t]) = t /\ trades[t] = buy[t]
    <3>1. t \in Listed /\ t \in Bought /\ t # USDC /\ Delta(s, t) > 0
      BY <2>2 DEF Bought
    <3>2. buy[t] = [from |-> USDC, to |-> t, amount |-> BuyAmount(s, t)]
      BY <3>1
    <3>3. PICK o \in Int : o = OffShare(worth, held, t) /\ ~(o > 0) /\ Delta(s, t) = -o
      BY <2>3, <3>1
    <3>4. BuyAmount(s, t) = (-o) \div 100
      BY <3>3 DEF BuyAmount
    <3>5. trades[t] = [from |-> USDC, to |-> t, amount |-> (-o) \div 100]
      BY <3>1, <3>3 DEF Trades, Trade
    <3>. QED
      BY <2>3, <3>1, <3>2, <3>4, <3>5 DEF Swap, TokenOf
  <2>6. sold \cup bought = off /\ sold \cap bought = {}
    <3>1. ASSUME NEW t \in off PROVE Delta(s, t) < 0 \/ Delta(s, t) > 0
      <4>1. PICK d \in Int, least \in Nat \ {0} : d = Delta(s, t) /\ least = MIN_SWAP_USD
        <5>1. MIN_SWAP_USD \in Nat \ {0}
          BY RebalanceAssumption
        <5>2. Delta(s, t) \in Int
          BY <2>2, <2>3 DEF Bought
        <5>. QED
          BY <5>1, <5>2
      <4>2. Abs(d) >= 100 * least
        BY <4>1
      <4>. QED
        BY <4>1, <4>2 DEF Abs
    <3>2. ASSUME NEW t \in off PROVE ~(Delta(s, t) < 0 /\ Delta(s, t) > 0)
      BY <2>2, <2>3 DEF Bought
    <3>. QED
      BY <3>1, <3>2
  <2>7. ASSUME NEW t \in Bought \ off
        PROVE  Abs(OffShare(worth, held, t)) <= 100 * Tolerance(worth, t)
    <3>1. t \in Listed /\ ~(Abs(Delta(s, t)) >= 100 * MIN_SWAP_USD)
      BY DEF Seen, Bought
    <3>2. PICK o \in Int, least \in Nat : /\ o = OffShare(worth, held, t) /\ Delta(s, t) = -o
                                          /\ least = MIN_SWAP_USD
      <4>1. MIN_SWAP_USD \in Nat
        BY RebalanceAssumption
      <4>. QED
        BY <2>3, <3>1, <4>1
    <3>3. Abs(o) < 100 * least
      BY <3>1, <3>2 DEF Abs
    <3>. QED
      BY <3>1, <3>2, <3>3, SmallWithin
  <2>. HIDE DEF off, sell, buy, sold, bought, trades
  <2>8. SharesLeft(worth, held, off)
    BY <1>2, <2>2, <2>7
  <2>9. PICK first \in Seq(Swap) : first = InOrder(sold, sell) /\ Orders(first, sold, sell)
    <3>1. InOrder(sold, sell) \in Seq(Swap)
      BY <2>4, InOrderType
    <3>2. Orders(InOrder(sold, sell), sold, sell)
      BY <2>2, <2>4, InOrderOrders
    <3>. QED
      BY <3>1, <3>2
  <2>10. PICK second \in Seq(Swap) : second = InOrder(bought, buy) /\ Orders(second, bought, buy)
    <3>1. InOrder(bought, buy) \in Seq(Swap)
      BY <2>5, InOrderType
    <3>2. Orders(InOrder(bought, buy), bought, buy)
      BY <2>2, <2>5, InOrderOrders
    <3>. QED
      BY <3>1, <3>2
  <2>11. Orders(first \o second, sold \cup bought, trades)
    BY <2>4, <2>5, <2>6, <2>9, <2>10, OrdersJoin
  <2>12. Orders(ComputeSwaps(s), off, trades)
    BY <2>1, <2>6, <2>9, <2>10, <2>11
  <2>. QED
    BY <1>1, <2>2, <2>8, <2>12 DEF trades
<1>. QED
  BY <1>3, <1>4

(* computeConvertAllSwaps orders the sale of every token that is worth a   *)
(* swap, and of no other.                                                  *)
LEMMA ConversionPlan ==
  ASSUME NEW s \in Job, NEW held \in [Tokens -> Nat], Seen(s, held)
  PROVE  \E T \in SUBSET Bought : /\ SalesLeft(held, T)
                                  /\ Orders(ComputeConvertAllSwaps(s), T, Sales(held))
<1>. DEFINE worthy == {t \in Listed \ {USDC} : Value(s, t) >= MIN_SWAP_USD}
            swap == [t \in Listed |-> [from |-> t, to |-> USDC, amount |-> s.seen[t]]]
<1>1. worthy \in SUBSET Bought /\ worthy \in SUBSET Listed
  BY DEF Bought
<1>2. ASSUME NEW t \in worthy
      PROVE  swap[t] \in Swap /\ TokenOf(swap[t]) = t /\ Sales(held)[t] = swap[t]
  <2>1. /\ t \in Listed /\ t \in Bought /\ t # USDC /\ t \in Tokens /\ USDC \in Tokens
        /\ s.seen[t] = held[t] /\ held[t] \in Nat
    BY <1>1, ListedFinite DEF Seen, Tokens
  <2>2. swap[t] = [from |-> t, to |-> USDC, amount |-> held[t]]
    BY <2>1
  <2>3. Sales(held)[t] = [from |-> t, to |-> USDC, amount |-> held[t]]
    BY <2>1 DEF Sales
  <2>. QED
    BY <2>1, <2>2, <2>3 DEF Swap, TokenOf
<1>3. ASSUME NEW t \in Bought \ worthy PROVE held[t] * Price[t] < MIN_SWAP_USD
  <2>1. t \in Listed /\ ~(Value(s, t) >= MIN_SWAP_USD)
    BY DEF Bought
  <2>2. PICK value \in Nat, least \in Nat :
          value = held[t] * Price[t] /\ value = Value(s, t) /\ least = MIN_SWAP_USD
    <3>1. MIN_SWAP_USD \in Nat
      BY RebalanceAssumption
    <3>2. Value(s, t) = held[t] * Price[t]
      BY <2>1, SeenWorth
    <3>. QED
      BY <2>1, <3>1, <3>2, FiguresOf
  <2>. QED
    BY <2>1, <2>2
<1>4. ComputeConvertAllSwaps(s) = InOrder(worthy, swap)
  BY DEF ComputeConvertAllSwaps
<1>. HIDE DEF worthy, swap
<1>5. Orders(InOrder(worthy, swap), worthy, swap)
  BY <1>1, <1>2, InOrderOrders
<1>6. Orders(InOrder(worthy, swap), worthy, Sales(held))
  BY <1>2, <1>5, OrdersAgree
<1>7. SalesLeft(held, worthy)
  BY <1>3 DEF SalesLeft
<1>. QED
  BY <1>1, <1>4, <1>6, <1>7

-----------------------------------------------------------------------------
(* Steps. *)

(* What a step leaves another job with.                                    *)
StaysFor(k) == disturbed'[k] \/ (disturbed'[k] = disturbed[k] /\ balance' = balance)

GoalReached(b, worth, held) ==
  /\ b.action = "rebalance" => Balanced(worth, held)
  /\ b.action = "convert_all" => Converted(held)

(* A step ends a job only where it was to end.                             *)
GoalStep ==
  \A j \in Jobs :
    LET b == job'[j] IN
    /\ b.status \in {"success", "no_rebalance_needed"} /\ job[j].status = "none"
    /\ ~b.partial /\ ~disturbed'[j]
    => GoalReached(b, Worth(j), balance')

(* A job's step, which at most disturbs the others.                        *)
LEMMA GoalKept ==
  ASSUME RebalanceInv, GoalInv, NEW j \in Jobs, NEW b, job' = [job EXCEPT ![j] = b],
         \A k \in Jobs \ {j} : StaysFor(k),
         Undisturbed(b, j)' => OnCourse(b, balance'),
         /\ b.status \in {"success", "no_rebalance_needed"} /\ job[j].status = "none"
         /\ ~b.partial /\ ~disturbed'[j]
         => GoalReached(b, Worth(j), balance')
  PROVE  GoalInv' /\ GoalStep
<1>1. job'[j] = b /\ \A k \in Jobs \ {j} : job'[k] = job[k]
  BY DEF RebalanceInv, TypeOK
<1>2. ASSUME NEW k \in Jobs, Undisturbed(job[k], k)' PROVE OnCourse(job'[k], balance')
  <2>1. CASE k = j
    BY <1>1, <1>2, <2>1
  <2>2. CASE k # j
    <3>1. job'[k] = job[k] /\ ~disturbed'[k] /\ StaysFor(k)
      BY <1>1, <1>2, <2>2 DEF Undisturbed
    <3>2. ~disturbed[k] /\ balance' = balance
      BY <3>1 DEF StaysFor
    <3>3. Undisturbed(job[k], k)
      BY <1>2, <3>1, <3>2 DEF Undisturbed
    <3>4. OnCourse(job[k], balance)
      BY <3>3 DEF GoalInv
    <3>. QED
      BY <3>1, <3>2, <3>4
  <2>. QED
    BY <2>1, <2>2
<1>3. GoalInv'
  BY <1>2 DEF GoalInv
<1>4. ASSUME NEW k \in Jobs,
             job'[k].status \in {"success", "no_rebalance_needed"} /\ job[k].status = "none",
             ~job'[k].partial /\ ~disturbed'[k]
      PROVE  GoalReached(job'[k], Worth(k), balance')
  <2>1. k = j
    BY <1>1, <1>4
  <2>. QED
    BY <1>1, <1>4, <2>1
<1>5. GoalStep
  BY <1>4 DEF GoalStep
<1>. QED
  BY <1>3, <1>5

(* A step of no job.                                                       *)
LEMMA GoalApart ==
  ASSUME RebalanceInv, GoalInv, job' = job,
         \A k \in Jobs : job[k].pc = "done" \/ StaysFor(k)
  PROVE  GoalInv' /\ GoalStep
<1>1. ASSUME NEW k \in Jobs, Undisturbed(job[k], k)' PROVE OnCourse(job'[k], balance')
  <2>1. CASE job[k].pc = "done"
    BY <2>1 DEF OnCourse
  <2>2. CASE StaysFor(k)
    <3>1. ~disturbed'[k]
      BY <1>1 DEF Undisturbed
    <3>2. ~disturbed[k] /\ balance' = balance
      BY <2>2, <3>1 DEF StaysFor
    <3>3. Undisturbed(job[k], k)
      BY <1>1, <3>2 DEF Undisturbed
    <3>. QED
      BY <3>2, <3>3 DEF GoalInv
  <2>. QED
    BY <2>1, <2>2
<1>2. GoalInv'
  BY <1>1 DEF GoalInv
<1>3. GoalStep
  BY DEF GoalStep
<1>. QED
  BY <1>2, <1>3

(* Steps that move nothing, of a job that neither reads, quotes nor sends  *)
(* after them and is not one to rebalance or convert with success.         *)
LEMMA GoalAside ==
  ASSUME RebalanceInv, GoalInv, NEW j \in Jobs, NEW b, job' = [job EXCEPT ![j] = b],
         UNCHANGED chain, b.pc \in {"vault", "done", "dead"},
         b.status \in {"success", "no_rebalance_needed"} => b.action \notin {"rebalance", "convert_all"}
  PROVE  GoalInv' /\ GoalStep
<1>1. \A k \in Jobs \ {j} : StaysFor(k)
  BY DEF chain, StaysFor
<1>2. OnCourse(b, balance')
  BY DEF OnCourse
<1>3. b.status \in {"success", "no_rebalance_needed"} => GoalReached(b, Worth(j), balance')
  BY DEF GoalReached
<1>. QED
  BY <1>1, <1>2, <1>3, GoalKept

(* Calls begin jobs that have read nothing.                                *)
LEMMA GoalCalls ==
  ASSUME RebalanceInv, GoalInv, NEW j \in Jobs, Click(j) \/ CronCall(j) \/ AgentCall(j)
  PROVE  GoalInv' /\ GoalStep
<1>1. ASSUME NEW b, NEW converting, Call(j, b, converting), b.pc \in {"vault", "done"},
             b.status \in {"success", "no_rebalance_needed"} => b.action = "lending"
      PROVE  GoalInv' /\ GoalStep
  <2>1. job' = [job EXCEPT ![j] = b] /\ UNCHANGED chain
    BY <1>1 DEF Call, Start
  <2>. QED
    BY <1>1, <2>1, GoalAside
<1>2. CASE ClickRebalance(j)
  <2>1. PICK b : b = [NoJob EXCEPT !.pc = "vault"] /\ Call(j, b, panel.converting)
    BY <1>2 DEF ClickRebalance, CallWhenFree
  <2>2. b.pc = "vault" /\ b.status = "none"
    BY <2>1 DEF NoJob
  <2>. QED
    BY <1>1, <2>1, <2>2
<1>3. ASSUME NEW action, NEW from, NEW to, NEW amount, NEW converting,
             Call(j, IndividualSwap(action, from, to, amount), converting)
      PROVE  GoalInv' /\ GoalStep
  <2>1. PICK b : b = IndividualSwap(action, from, to, amount)
    OBVIOUS
  <2>2. b.pc = "vault" /\ b.status = "none"
    BY <2>1 DEF NoJob, IndividualSwap
  <2>. QED
    BY <1>1, <1>3, <2>1, <2>2
<1>4. CASE LendingAction(j)
  <2>1. PICK status, b : /\ b = [NoJob EXCEPT !.pc = "done", !.action = "lending", !.status = status]
                         /\ Call(j, b, panel.converting)
    BY <1>4 DEF LendingAction, CallWhenFree
  <2>2. b.pc = "done" /\ b.action = "lending"
    BY <2>1 DEF NoJob
  <2>. QED
    BY <1>1, <2>1, <2>2
<1>5. CASE CronCall(j) \/ AgentCall(j)
  <2>1. PICK action, b :
          /\ \/ b = [NoJob EXCEPT !.pc = "vault", !.action = action]
             \/ b = [NoJob EXCEPT !.pc = "vault", !.caller = "agent", !.action = action]
          /\ Start(j, b) /\ UNCHANGED chain
    BY <1>5 DEF CronCall, AgentCall
  <2>2. b.pc = "vault" /\ b.status = "none"
    BY <2>1 DEF NoJob
  <2>3. job' = [job EXCEPT ![j] = b]
    BY <2>1 DEF Start
  <2>. QED
    BY <2>1, <2>2, <2>3, GoalAside
<1>. QED
  BY <1>2, <1>3, <1>4, <1>5 DEF Click, ConvertAssetToUsdc, SwapVaultAsset, CallWhenFree

(* A job that answers anything but a success or that none was needed.      *)
LEMMA GoalAnswers ==
  ASSUME RebalanceInv, GoalInv, NEW j \in Jobs, NEW status \in {"error", "needs_whitelist"},
         job' = [job EXCEPT ![j] = Answer(job[j], status)], UNCHANGED chain
  PROVE  GoalInv' /\ GoalStep
<1>1. job[j] \in Job /\ status \in Statuses
  BY DEF RebalanceInv, TypeOK, Statuses
<1>2. PICK b : b = Answer(job[j], status)
  OBVIOUS
<1>3. b.pc = "done" /\ b.status = status
  BY <1>1, <1>2, AnswerType
<1>. QED
  BY <1>2, <1>3, GoalAside

LEMMA GoalFails ==
  ASSUME RebalanceInv, GoalInv, NEW j \in Jobs,
         JobFails(j) \/ SendRefused(j) \/ SendLost(j) \/ AgentBuildsSwaps(j)
  PROVE  GoalInv' /\ GoalStep
<1>1. PICK status \in {"error", "needs_whitelist"} :
        job' = [job EXCEPT ![j] = Answer(job[j], status)] /\ UNCHANGED chain
  BY DEF JobFails, SendRefused, SendLost, AgentBuildsSwaps, Goes, GiveUp
<1>. QED
  BY <1>1, GoalAnswers

LEMMA GoalKilled ==
  ASSUME RebalanceInv, GoalInv, NEW j \in Jobs, JobKilled(j)
  PROVE  GoalInv' /\ GoalStep
<1>1. PICK was \in Job : was = job[j] /\ was.pc # "done" /\ Good(was, executed[j])
  BY DEF RebalanceInv, TypeOK, JobsGood, JobKilled
<1>2. was.status = "none"
  BY <1>1 DEF Good
<1>3. PICK f \in Job : f = Forget(was) /\ f.status = "none"
  BY <1>2, ForgetType
<1>4. PICK b : b = [f EXCEPT !.pc = "dead"]
  OBVIOUS
<1>5. b.pc = "dead" /\ b.status = "none"
  BY <1>3, <1>4 DEF Job
<1>6. UNCHANGED chain
  BY DEF JobKilled
<1>7. job' = [job EXCEPT ![j] = b]
  <2>1. [Forget(job[j]) EXCEPT !.pc = "dead"] = b
    BY <1>1, <1>3, <1>4
  <2>2. job' = [job EXCEPT ![j] = [Forget(job[j]) EXCEPT !.pc = "dead"]]
    BY DEF JobKilled
  <2>. QED
    BY <2>1, <2>2, Zenon
<1>. QED
  BY <1>5, <1>6, <1>7, GoalAside

(* The account is read: every balance is still to be.                      *)
LEMMA GoalRead ==
  ASSUME RebalanceInv, GoalInv, NEW j \in Jobs, ReadVaultAccount(j) \/ AgentReadsVault(j)
  PROVE  GoalInv' /\ GoalStep
<1>1. PICK was \in Job : was = job[j] /\ was.pc = "vault" /\ Good(was, executed[j])
  BY DEF RebalanceInv, TypeOK, JobsGood, ReadVaultAccount, AgentReadsVault
<1>2. was.status = "none"
  BY <1>1 DEF Good
<1>3. PICK b : /\ job' = [job EXCEPT ![j] = b]
               /\ b.pc = "balances" /\ b.toRead = Allocations /\ b.status = "none"
  <2>1. CASE ReadVaultAccount(j)
    <3>1. PICK b : b = [was EXCEPT !.pc = "balances", !.allowed = allowed, !.toRead = Allocations]
      OBVIOUS
    <3>2. job' = [job EXCEPT ![j] = b]
      BY <1>1, <2>1, <3>1 DEF ReadVaultAccount, RebalanceInv, TypeOK
    <3>3. b.pc = "balances" /\ b.toRead = Allocations /\ b.status = "none"
      BY <1>2, <3>1 DEF Job
    <3>. QED
      BY <3>2, <3>3
  <2>2. CASE AgentReadsVault(j)
    <3>1. PICK b : b = [was EXCEPT !.pc = "balances", !.toRead = Allocations]
      OBVIOUS
    <3>2. job' = [job EXCEPT ![j] = b]
      BY <1>1, <2>2, <3>1 DEF AgentReadsVault, RebalanceInv, TypeOK
    <3>3. b.pc = "balances" /\ b.toRead = Allocations /\ b.status = "none"
      BY <1>2, <3>1 DEF Job
    <3>. QED
      BY <3>2, <3>3
  <2>. QED
    BY <2>1, <2>2
<1>4. OnCourse(b, balance')
  BY <1>3 DEF OnCourse, Listed
<1>5. \A k \in Jobs \ {j} : StaysFor(k)
  BY DEF ReadVaultAccount, AgentReadsVault, StaysFor, RebalanceInv, TypeOK
<1>. QED
  BY <1>3, <1>4, <1>5, GoalKept

(* One balance less is to be read, and the one read is what it is.         *)
LEMMA GoalBalance ==
  ASSUME RebalanceInv, GoalInv, NEW j \in Jobs, GetTokenBalance(j)
  PROVE  GoalInv' /\ GoalStep
<1>1. PICK was \in Job : /\ was = job[j] /\ was.pc = "balances" /\ was.toRead # <<>>
                         /\ Good(was, executed[j])
  BY DEF RebalanceInv, TypeOK, JobsGood, GetTokenBalance
<1>2. job \in [Jobs -> Job] /\ balance \in [Tokens -> Nat] /\ was.status = "none"
  BY <1>1 DEF RebalanceInv, TypeOK, Good
<1>3. PICK list \in Seq(Tokens) : list = was.toRead /\ list # <<>>
  BY <1>1 DEF Job
<1>4. PICK t \in Tokens, rest \in Seq(Tokens) : t = Head(list) /\ rest = Tail(list)
  BY <1>3, HeadTailProperties
<1>5. UNCHANGED chain
  BY DEF GetTokenBalance
<1>6. \A k \in Jobs \ {j} : StaysFor(k)
  BY <1>5 DEF chain, StaysFor
<1>7. CASE job' = [job EXCEPT ![j].seen[Head(was.toRead)] = balance[Head(was.toRead)],
                              ![j].toRead = Tail(@)]
  <2>1. PICK b : b = [was EXCEPT !.seen = [was.seen EXCEPT ![t] = balance[t]], !.toRead = rest]
    OBVIOUS
  <2>2. was.seen \in [Tokens -> Nat]
    BY DEF Job
  <2>3. /\ b.pc = "balances" /\ b.status = "none" /\ b.toRead = rest /\ b.action = was.action
        /\ b.partial = was.partial /\ b.seen = [was.seen EXCEPT ![t] = balance[t]]
    BY <1>1, <1>2, <2>1 DEF Job
  <2>4. job' = [job EXCEPT ![j] = b]
    BY <1>1, <1>2, <1>3, <1>4, <1>7, <2>1 DEF Job
  <2>5. ASSUME Undisturbed(b, j)' PROVE OnCourse(b, balance')
    <3>1. Undisturbed(was, j) /\ balance' = balance
      BY <1>5, <2>3, <2>5 DEF Undisturbed, chain
    <3>2. \A u \in Listed : was.seen[u] = balance[u] \/ u \in Range(list)
      BY <1>1, <1>3, <3>1 DEF GoalInv, OnCourse
    <3>3. Range(list) \subseteq {t} \cup Range(rest)
      <4>1. PICK n \in Nat : n + 1 = Len(list) /\ n = Len(rest)
                             /\ \A i \in 1 .. n : rest[i] = list[i + 1]
        <5>1. Len(list) \in Nat /\ Len(list) # 0 /\ Len(rest) = Len(list) - 1
          BY <1>3, <1>4, HeadTailProperties
        <5>2. \A i \in 1 .. Len(Tail(list)) : Tail(list)[i] = list[i + 1]
          BY <1>3
        <5>3. Len(list) - 1 \in Nat
          BY <5>1
        <5>4. PICK n \in Nat : n = Len(list) - 1
          BY <5>3
        <5>5. n + 1 = Len(list) /\ n = Len(rest)
          BY <5>1, <5>4
        <5>6. \A i \in 1 .. n : rest[i] = list[i + 1]
          BY <1>4, <5>2, <5>5
        <5>. QED
          BY <5>5, <5>6
      <4>2. ASSUME NEW i \in 1 .. n + 1 PROVE list[i] \in {t} \cup Range(rest)
        <5>1. CASE i = 1
          BY <1>3, <1>4, <5>1
        <5>2. CASE i # 1
          <6>1. PICK k \in 1 .. n : i = k + 1
            <7>1. i - 1 \in 1 .. n /\ i = (i - 1) + 1
              BY <5>2
            <7>. QED
              BY <7>1
          <6>2. list[i] = rest[k] /\ k \in DOMAIN rest
            BY <4>1, <6>1
          <6>. QED
            BY <6>2 DEF Range
        <5>. QED
          BY <5>1, <5>2
      <4>3. DOMAIN list = 1 .. n + 1
        BY <4>1
      <4>. QED
        BY <4>2, <4>3 DEF Range
    <3>4. ASSUME NEW u \in Listed PROVE b.seen[u] = balance[u] \/ u \in Range(rest)
      <4>1. u \in Tokens
        BY ListedFinite
      <4>2. CASE u = t
        BY <2>2, <2>3, <4>1, <4>2
      <4>3. CASE u # t
        BY <2>2, <2>3, <3>2, <3>3, <4>1, <4>3
      <4>. QED
        BY <4>2, <4>3
    <3>. QED
      BY <2>3, <3>1, <3>4 DEF OnCourse
  <2>. QED
    BY <1>6, <2>3, <2>4, <2>5, GoalKept
<1>8. CASE job' = [job EXCEPT ![j].partial = TRUE, ![j].toRead = Tail(@)]
  <2>1. PICK b : b = [was EXCEPT !.partial = TRUE, !.toRead = rest]
    OBVIOUS
  <2>2. b.partial /\ b.status = "none"
    BY <1>2, <2>1 DEF Job
  <2>3. job' = [job EXCEPT ![j] = b]
    BY <1>1, <1>2, <1>3, <1>4, <1>8, <2>1 DEF Job
  <2>4. ~Undisturbed(b, j)'
    BY <2>2 DEF Undisturbed
  <2>. QED
    BY <1>6, <2>2, <2>3, <2>4, GoalKept
<1>. QED
  BY <1>1, <1>7, <1>8 DEF GetTokenBalance

(* The swaps of a job are those that are missing; where none is, the goal  *)
(* is reached.                                                             *)
LEMMA GoalPlan ==
  ASSUME RebalanceInv, GoalInv, NEW j \in Jobs, PlanSwaps(j)
  PROVE  GoalInv' /\ GoalStep
<1>1. PICK was \in Job : was = job[j] /\ was.pc = "balances" /\ was.toRead = <<>>
                         /\ Good(was, executed[j])
  BY DEF RebalanceInv, TypeOK, JobsGood, PlanSwaps
<1>2. was.status = "none" /\ balance \in [Tokens -> Nat]
  BY <1>1 DEF Good, RebalanceInv, TypeOK
<1>3. PICK unpriced, s, swaps :
        /\ unpriced \in SUBSET (Listed \ {USDC})
        /\ s = [was EXCEPT !.priced = Listed \ unpriced, !.partial = @ \/ unpriced # {}]
        /\ swaps = CASE was.action = "rebalance" -> ComputeSwaps(s)
                     [] was.action = "convert_all" -> ComputeConvertAllSwaps(s)
                     [] was.action \in {"convert", "individual_swap"} -> <<was.asked>>
        /\ Goes(j, IF swaps = <<>> THEN Answer(s, "no_rebalance_needed")
                   ELSE [s EXCEPT !.pc = "quote", !.swaps = swaps])
  BY <1>1 DEF PlanSwaps
<1>4. /\ s \in Job /\ s.priced = Listed \ unpriced /\ s.seen = was.seen
      /\ s.status = "none" /\ s.action = was.action
      /\ s.partial <=> was.partial \/ unpriced # {}
  <2>1. Listed \ unpriced \in SUBSET Tokens
    BY ListedFinite
  <2>2. PICK partial \in BOOLEAN : partial = (was.partial \/ unpriced # {})
    OBVIOUS
  <2>3. s = [was EXCEPT !.priced = Listed \ unpriced, !.partial = partial]
    BY <1>3, <2>2
  <2>4. /\ s \in Job /\ s.priced = Listed \ unpriced /\ s.seen = was.seen
        /\ s.status = "none" /\ s.action = was.action /\ s.partial = partial
    BY <1>2, <2>1, <2>3 DEF Job
  <2>. QED
    BY <2>2, <2>4
<1>5. PICK b : /\ b = IF swaps = <<>> THEN Answer(s, "no_rebalance_needed")
                      ELSE [s EXCEPT !.pc = "quote", !.swaps = swaps]
               /\ job' = [job EXCEPT ![j] = b]
  <2>1. PICK b : b = IF swaps = <<>> THEN Answer(s, "no_rebalance_needed")
                     ELSE [s EXCEPT !.pc = "quote", !.swaps = swaps]
    OBVIOUS
  <2>2. Goes(j, b)
    BY <1>3, <2>1
  <2>. QED
    BY <2>1, <2>2 DEF Goes
<1>6. UNCHANGED chain
  BY <1>3 DEF Goes
<1>7. \A k \in Jobs \ {j} : StaysFor(k)
  BY <1>6 DEF chain, StaysFor
<1>8. ASSUME s.action \in {"rebalance", "convert_all"}, ~s.partial, ~disturbed[j]
      PROVE  /\ Seen(s, balance) /\ Total(s) \in Nat
             /\ \E T \in SUBSET Bought :
                  /\ Left(s, Total(s), balance, T)
                  /\ Orders(swaps, T, Order(s, Total(s), balance))
  <2>1. Undisturbed(was, j) /\ unpriced = {}
    BY <1>4, <1>8 DEF Undisturbed
  <2>2. \A t \in Listed : was.seen[t] = balance[t]
    <3>1. \A t \in Listed : was.seen[t] = balance[t] \/ t \in Range(was.toRead)
      BY <1>1, <2>1 DEF GoalInv, OnCourse
    <3>2. Range(<<>>) = {}
      BY DEF Range
    <3>. QED
      BY <1>1, <3>1, <3>2
  <2>3. Seen(s, balance)
    BY <1>4, <2>1, <2>2 DEF Seen
  <2>4. CASE s.action = "rebalance"
    <3>1. PICK T \in SUBSET Bought : /\ SharesLeft(Total(s), balance, T)
                                     /\ Orders(ComputeSwaps(s), T, Trades(Total(s), balance))
      BY <1>2, <1>4, <2>3, RebalancePlan
    <3>2. swaps = ComputeSwaps(s)
      BY <1>3, <1>4, <2>4
    <3>. QED
      BY <1>4, <2>3, <2>4, <3>1, <3>2, TotalType DEF Left, Order
  <2>5. CASE s.action = "convert_all"
    <3>1. PICK T \in SUBSET Bought : /\ SalesLeft(balance, T)
                                     /\ Orders(ComputeConvertAllSwaps(s), T, Sales(balance))
      BY <1>2, <1>4, <2>3, ConversionPlan
    <3>2. swaps = ComputeConvertAllSwaps(s)
      BY <1>3, <1>4, <2>5
    <3>. QED
      BY <1>4, <2>3, <2>5, <3>1, <3>2, TotalType DEF Left, Order
  <2>. QED
    BY <1>8, <2>4, <2>5
<1>9. CASE swaps = <<>>
  <2>1. PICK f \in Job : f = Forget(s) /\ f.action = s.action /\ f.partial = s.partial
    <3>1. Forget(s) \in Job /\ Forget(s).action = s.action
      BY <1>4, ForgetType
    <3>2. Forget(s).partial = s.partial
      BY <1>4 DEF Forget, Job
    <3>. QED
      BY <3>1, <3>2
  <2>2. b = [f EXCEPT !.pc = "done", !.status = "no_rebalance_needed"]
    BY <1>5, <1>9, <2>1 DEF Answer
  <2>3. b.pc = "done" /\ b.action = s.action /\ b.partial = s.partial
    BY <2>1, <2>2 DEF Job
  <2>4. OnCourse(b, balance')
    BY <2>3 DEF OnCourse
  <2>5. ASSUME ~b.partial, ~disturbed'[j] PROVE GoalReached(b, Worth(j), balance')
    <3>1. balance' = balance /\ ~disturbed[j] /\ ~s.partial
      BY <1>6, <2>3, <2>5 DEF chain
    <3>2. Len(swaps) = 0
      BY <1>9
    <3>3. CASE s.action = "rebalance"
      <4>1. PICK T \in SUBSET Bought :
              /\ SharesLeft(Total(s), balance, T)
              /\ Orders(swaps, T, Order(s, Total(s), balance))
        BY <1>8, <3>1, <3>3 DEF Left
      <4>2. T = {}
        BY <3>2, <4>1, NoneOrdered
      <4>3. Seen(s, balance) /\ Total(s) \in Nat
        BY <1>8, <3>1, <3>3
      <4>4. Balanced(Total(s), balance)
        BY <1>2, <4>1, <4>2, <4>3, SharesReached
      <4>5. Worth(j) = Total(s)
        <5>1. Worth(j) = SumOf(Holdings, Listed)
          BY <1>1 DEF Worth, SumOf, MapThenSumSet, MapThenFoldSet
        <5>2. Holdings = [t \in Listed |-> balance[t] * Price[t]]
          BY DEF Holdings
        <5>. QED
          BY <1>2, <1>4, <4>3, <5>1, <5>2, SeenWorth
      <4>. QED
        BY <2>3, <3>1, <3>3, <4>4, <4>5 DEF GoalReached
    <3>4. CASE s.action = "convert_all"
      <4>1. PICK T \in SUBSET Bought :
              /\ SalesLeft(balance, T)
              /\ Orders(swaps, T, Order(s, Total(s), balance))
        BY <1>8, <3>1, <3>4 DEF Left
      <4>2. T = {}
        BY <3>2, <4>1, NoneOrdered
      <4>3. Converted(balance)
        BY <4>1, <4>2 DEF SalesLeft, Converted
      <4>. QED
        BY <2>3, <3>1, <3>4, <4>3 DEF GoalReached
    <3>. QED
      BY <2>3, <3>3, <3>4 DEF GoalReached
  <2>. QED
    BY <1>5, <1>7, <2>4, <2>5, GoalKept
<1>10. CASE swaps # <<>>
  <2>1. b = [s EXCEPT !.pc = "quote", !.swaps = swaps]
    BY <1>5, <1>10
  <2>2. /\ b.pc = "quote" /\ b.status = "none" /\ b.swaps = swaps /\ b.action = s.action
        /\ b.partial = s.partial /\ b.seen = s.seen /\ b.priced = s.priced
    BY <1>4, <2>1 DEF Job
  <2>3. Total(b) = Total(s)
    <3>1. \A t : Value(b, t) = Value(s, t)
      BY <2>2 DEF Value
    <3>2. Values(b) = Values(s)
      BY <3>1 DEF Values
    <3>. QED
      BY <3>2 DEF Total
  <2>4. ASSUME Undisturbed(b, j)' PROVE OnCourse(b, balance')
    <3>1. /\ s.action \in {"rebalance", "convert_all"} /\ ~s.partial /\ ~disturbed[j]
          /\ balance' = balance
      BY <1>6, <2>2, <2>4 DEF Undisturbed, chain
    <3>2. PICK T \in SUBSET Bought :
            /\ Left(s, Total(s), balance, T) /\ Orders(swaps, T, Order(s, Total(s), balance))
      BY <1>8, <3>1
    <3>3. Left(b, Total(b), balance, T) /\ Orders(b.swaps, T, Order(b, Total(b), balance))
      BY <2>2, <2>3, <3>2 DEF Left, Order
    <3>. QED
      BY <2>2, <3>1, <3>3 DEF OnCourse
  <2>. QED
    BY <1>5, <1>7, <2>2, <2>4, GoalKept
<1>. QED
  BY <1>9, <1>10

(* The transactions of a job are those of its swaps.                       *)
LEMMA GoalQuoted ==
  ASSUME RebalanceInv, GoalInv, NEW j \in Jobs, BuildVaultSwaps(j)
  PROVE  GoalInv' /\ GoalStep
<1>1. PICK was \in Job : was = job[j] /\ was.pc = "quote" /\ Good(was, executed[j])
  BY DEF RebalanceInv, TypeOK, JobsGood, BuildVaultSwaps
<1>2. was.status = "none" /\ was.swaps # <<>>
  BY <1>1 DEF Good
<1>3. UNCHANGED chain
  BY DEF BuildVaultSwaps, Goes
<1>4. CASE Goes(j, Answer(was, "needs_whitelist"))
  <2>1. job' = [job EXCEPT ![j] = Answer(job[j], "needs_whitelist")]
    BY <1>1, <1>4 DEF Goes
  <2>. QED
    BY <1>3, <2>1, GoalAnswers
<1>5. ASSUME NEW shape,
             Goes(j, [Forget(was) EXCEPT
                        !.pc = "send",
                        !.txs = FlattenSeq([i \in 1 .. Len(was.swaps) |-> Txs(was.swaps[i], shape)]),
                        !.planned = Len(FlattenSeq([i \in 1 .. Len(was.swaps) |->
                                                      Txs(was.swaps[i], shape)])),
                        !.worth = Total(was)])
      PROVE  GoalInv' /\ GoalStep
  <2>1. PICK swaps \in Seq(Swap) : swaps = was.swaps /\ swaps # <<>>
    BY <1>2 DEF Job
  <2>2. PICK txs, n, worth : /\ txs = FlattenSeq([i \in 1 .. Len(swaps) |-> Txs(swaps[i], shape)])
                             /\ n = Len(txs) /\ worth = Total(was)
    OBVIOUS
  <2>3. PICK f \in Job : /\ f = Forget(was) /\ f.status = "none" /\ f.action = was.action
                         /\ f.partial = was.partial
    <3>1. /\ Forget(was) \in Job /\ Forget(was).status = was.status
          /\ Forget(was).action = was.action
      BY ForgetType
    <3>2. Forget(was).partial = was.partial
      BY DEF Forget, Job
    <3>. QED
      BY <1>2, <3>1, <3>2
  <2>4. PICK b : b = [f EXCEPT !.pc = "send", !.txs = txs, !.planned = n, !.worth = worth]
    OBVIOUS
  <2>5. /\ b.pc = "send" /\ b.status = "none" /\ b.action = was.action /\ b.txs = txs
        /\ b.partial = was.partial /\ b.worth = worth
    BY <2>3, <2>4 DEF Job
  <2>6. job' = [job EXCEPT ![j] = b]
    BY <1>5, <2>1, <2>2, <2>3, <2>4 DEF Goes
  <2>7. ASSUME Undisturbed(b, j)' PROVE OnCourse(b, balance')
    <3>1. Undisturbed(was, j) /\ balance' = balance
      BY <1>3, <2>5, <2>7 DEF Undisturbed, chain
    <3>2. PICK T \in SUBSET Bought :
            /\ Left(was, worth, balance, T) /\ Orders(swaps, T, Order(was, worth, balance))
      BY <1>1, <2>1, <2>2, <3>1 DEF GoalInv, OnCourse
    <3>3. Sends(txs, T, Order(was, worth, balance))
      BY <2>1, <2>2, <3>2, PlanSends
    <3>4. Left(b, b.worth, balance, T) /\ Sends(b.txs, T, Order(b, b.worth, balance))
      BY <2>5, <3>2, <3>3 DEF Left, Order
    <3>. QED
      BY <2>5, <3>1, <3>4 DEF OnCourse
  <2>8. \A k \in Jobs \ {j} : StaysFor(k)
    BY <1>3 DEF chain, StaysFor
  <2>. QED
    BY <2>5, <2>6, <2>7, <2>8, GoalKept
<1>. QED
  BY <1>1, <1>4, <1>5 DEF BuildVaultSwaps

(* A transaction takes effect: a swap brings its token home, the last one  *)
(* the job.                                                                *)
LEMMA GoalExecuted ==
  ASSUME RebalanceInv, GoalInv, NEW j \in Jobs, SendExecuted(j)
  PROVE  GoalInv' /\ GoalStep
<1>1. PICK was \in Job : was = job[j] /\ was.pc = "send" /\ Good(was, executed[j])
  BY DEF RebalanceInv, TypeOK, JobsGood, SendExecuted
<1>2. PICK list \in Seq(Tx), worth \in Nat :
        list = was.txs /\ list # <<>> /\ worth = was.worth /\ was.status = "none"
  BY <1>1 DEF Good, Job
<1>3. PICK tx \in Tx, rest \in Seq(Tx) :
        tx = Head(list) /\ tx = list[1] /\ rest = Tail(list) /\ Len(rest) = Len(list) - 1
  <2>1. /\ Head(list) \in Tx /\ Tail(list) \in Seq(Tx) /\ Len(Tail(list)) = Len(list) - 1
    BY <1>2, HeadTailProperties
  <2>2. Head(list) = list[1]
    BY <1>2
  <2>. QED
    BY <2>1, <2>2
<1>4. Executes(j, tx) /\ job' = [job EXCEPT ![j] = Proceed(was)]
  BY <1>1, <1>2, <1>3 DEF SendExecuted
<1>5. balance \in [Tokens -> Nat] /\ balance' \in [Tokens -> Nat]
  BY <1>4, ExecutesType DEF RebalanceInv, TypeOK
<1>6. /\ \A k \in Jobs \ {j} : StaysFor(k)
      /\ disturbed'[j] = disturbed[j]
  <2>1. disturbed \in [Jobs -> BOOLEAN]
    BY DEF RebalanceInv, TypeOK
  <2>2. CASE tx.op = "swap"
    <3>1. disturbed' = [k \in Jobs |-> disturbed[k] \/ k # j]
      BY <1>4, <2>2 DEF Executes
    <3>2. \A k \in Jobs \ {j} : disturbed'[k]
      BY <3>1
    <3>3. disturbed'[j] = (disturbed[j] \/ j # j)
      BY <3>1
    <3>4. PICK d \in BOOLEAN : d = disturbed[j]
      BY <2>1
    <3>. QED
      BY <3>2, <3>3, <3>4 DEF StaysFor
  <2>3. CASE tx.op # "swap"
    BY <1>4, <2>3 DEF Executes, StaysFor
  <2>. QED
    BY <2>2, <2>3
<1>7. ASSUME Undisturbed(was, j)
      PROVE  \E T \in SUBSET Bought :
               /\ Left(was, worth, balance', T) /\ Sends(rest, T, Order(was, worth, balance'))
  <2>1. PICK T \in SUBSET Bought :
          /\ Left(was, worth, balance, T) /\ Sends(list, T, Order(was, worth, balance))
    BY <1>1, <1>2, <1>7 DEF GoalInv, OnCourse
  <2>. DEFINE order == Order(was, worth, balance)
  <2>2. CASE tx.op # "swap"
    <3>1. balance' = balance
      BY <1>4, <2>2 DEF Executes
    <3>2. Sends(rest, T, order)
      BY <1>2, <1>3, <2>1, <2>2, SendsTail
    <3>. QED
      BY <2>1, <3>1, <3>2
  <2>3. CASE tx.op = "swap"
    <3>1. PICK t \in T : tx.swap = order[t] /\ Sends(rest, T \ {t}, order)
      <4>. HIDE DEF order
      <4>. QED
        BY <1>2, <1>3, <2>1, <2>3, SendsTail DEF order
    <3>2. PICK got \in Proceeds(tx.swap) : balance' = Paid(balance, tx.swap, got)
      BY <1>4, <2>3 DEF Executes, Swapped, Paid
    <3>3. T \ {t} \in SUBSET Bought /\ t \in Bought
      OBVIOUS
    <3>4. CASE was.action = "rebalance"
      <4>1. /\ SharesLeft(worth, balance, T) /\ order = Trades(worth, balance)
            /\ order[t] = Trade(worth, balance, t)
        BY <2>1, <3>3, <3>4 DEF Left, Order, Trades
      <4>2. /\ got \in Proceeds(Trade(worth, balance, t))
            /\ balance' = Paid(balance, Trade(worth, balance, t), got)
        BY <3>1, <3>2, <4>1
      <4>3. /\ SharesLeft(worth, balance', T \ {t})
            /\ \A u \in T \ {t} : Trades(worth, balance')[u] = Trades(worth, balance)[u]
        <5>1. PICK held \in [Tokens -> Nat], after \in [Tokens -> Nat] :
                held = balance /\ after = balance'
          BY <1>5
        <5>2. /\ SharesLeft(worth, held, T) /\ got \in Proceeds(Trade(worth, held, t))
              /\ after = Paid(held, Trade(worth, held, t), got)
          BY <4>1, <4>2, <5>1
        <5>3. /\ SharesLeft(worth, after, T \ {t})
              /\ \A u \in T \ {t} : Trades(worth, after)[u] = Trades(worth, held)[u]
          BY <5>2, TradeDone, ZenonT(180)
        <5>. QED
          BY <5>1, <5>3
      <4>4. Sends(rest, T \ {t}, Trades(worth, balance'))
        BY <3>1, <4>1, <4>3, SendsAgree
      <4>. QED
        BY <3>3, <3>4, <4>3, <4>4 DEF Left, Order
    <3>5. CASE was.action # "rebalance"
      <4>1. SalesLeft(balance, T) /\ order = Sales(balance)
        BY <2>1, <3>5 DEF Left, Order
      <4>2. balance' = Paid(balance, Sales(balance)[t], got)
        BY <3>1, <3>2, <4>1
      <4>3. /\ SalesLeft(balance', T \ {t})
            /\ \A u \in T \ {t} : Sales(balance')[u] = Sales(balance)[u]
        <5>1. PICK held \in [Tokens -> Nat], after \in [Tokens -> Nat] :
                held = balance /\ after = balance'
          BY <1>5
        <5>2. /\ SalesLeft(held, T) /\ got \in Proceeds(Sales(held)[t])
              /\ after = Paid(held, Sales(held)[t], got)
          BY <3>1, <3>2, <4>1, <4>2, <5>1
        <5>3. /\ SalesLeft(after, T \ {t})
              /\ \A u \in T \ {t} : Sales(after)[u] = Sales(held)[u]
          BY <5>2, SaleDone, ZenonT(60)
        <5>. QED
          BY <5>1, <5>3
      <4>4. Sends(rest, T \ {t}, Sales(balance'))
        BY <3>1, <4>1, <4>3, SendsAgree
      <4>. QED
        BY <3>3, <3>5, <4>3, <4>4 DEF Left, Order
    <3>. QED
      BY <3>4, <3>5
  <2>. QED
    BY <2>2, <2>3
<1>8. CASE Len(list) = 1
  <2>1. PICK b : b = Answer(was, "success") /\ job' = [job EXCEPT ![j] = b]
    BY <1>2, <1>4, <1>8 DEF Proceed
  <2>2. "success" \in Statuses
    BY DEF Statuses
  <2>3. b.pc = "done" /\ b.action = was.action
    BY <2>1, <2>2, AnswerType
  <2>4. b.partial = was.partial
    BY <2>1 DEF Answer, Forget, Job
  <2>5. OnCourse(b, balance')
    BY <2>3 DEF OnCourse
  <2>6. Worth(j) = worth
    BY <1>1, <1>2 DEF Worth
  <2>7. ASSUME ~b.partial, ~disturbed'[j], b.action \in {"rebalance", "convert_all"}
        PROVE  GoalReached(b, worth, balance')
    <3>1. Undisturbed(was, j)
      BY <1>6, <2>3, <2>4, <2>7 DEF Undisturbed
    <3>2. PICK T \in SUBSET Bought :
            /\ Left(was, worth, balance', T) /\ Sends(rest, T, Order(was, worth, balance'))
      BY <1>7, <3>1
    <3>3. T = {}
      <4>1. Len(rest) = 0
        BY <1>3, <1>8
      <4>. QED
        BY <3>2, <4>1, NoneSent
    <3>4. was.action = "rebalance" => Balanced(worth, balance')
      BY <1>5, <3>2, <3>3, SharesReached DEF Left
    <3>5. was.action = "convert_all" => Converted(balance')
      BY <3>2, <3>3 DEF Left, SalesLeft, Converted
    <3>. QED
      BY <2>3, <3>4, <3>5 DEF GoalReached
  <2>8. ASSUME ~b.partial, ~disturbed'[j] PROVE GoalReached(b, Worth(j), balance')
    BY <2>6, <2>7, <2>8 DEF GoalReached
  <2>. QED
    BY <1>6, <2>1, <2>5, <2>8, GoalKept
<1>9. CASE Len(list) # 1
  <2>1. PICK b : b = [was EXCEPT !.txs = rest] /\ job' = [job EXCEPT ![j] = b]
    BY <1>2, <1>3, <1>4, <1>9 DEF Proceed
  <2>2. /\ b.pc = "send" /\ b.status = "none" /\ b.action = was.action /\ b.txs = rest
        /\ b.partial = was.partial /\ b.worth = worth
    BY <1>1, <1>2, <2>1 DEF Job
  <2>3. ASSUME Undisturbed(b, j)' PROVE OnCourse(b, balance')
    <3>1. Undisturbed(was, j)
      BY <1>6, <2>2, <2>3 DEF Undisturbed
    <3>2. PICK T \in SUBSET Bought :
            /\ Left(was, worth, balance', T) /\ Sends(rest, T, Order(was, worth, balance'))
      BY <1>7, <3>1
    <3>3. Left(b, b.worth, balance', T) /\ Sends(b.txs, T, Order(b, b.worth, balance'))
      BY <2>2, <3>2 DEF Left, Order
    <3>. QED
      BY <2>2, <3>3 DEF OnCourse
  <2>. QED
    BY <1>6, <2>1, <2>2, <2>3, GoalKept
<1>. QED
  BY <1>8, <1>9

(* What lands late is of a job that has answered.                          *)
LEMMA GoalLate ==
  ASSUME RebalanceInv, GoalInv, LandsLate
  PROVE  GoalInv' /\ GoalStep
<1>1. PICK l \in late : (Executes(l[1], l[2]) \/ UNCHANGED chain) /\ job' = job
  BY DEF LandsLate
<1>2. PICK j \in Jobs, tx \in Tx : j = l[1] /\ tx = l[2] /\ job[j].status = "error"
  BY DEF RebalanceInv, TypeOK, LateFailed
<1>3. job[j].pc = "done"
  BY <1>2 DEF RebalanceInv, JobsGood, Good
<1>4. \A k \in Jobs \ {j} : StaysFor(k)
  <2>1. CASE UNCHANGED chain
    BY <2>1 DEF chain, StaysFor
  <2>2. CASE Executes(j, tx) /\ tx.op = "swap"
    <3>1. disturbed' = [k \in Jobs |-> disturbed[k] \/ k # j]
      BY <2>2 DEF Executes
    <3>2. \A k \in Jobs \ {j} : disturbed'[k]
      BY <3>1
    <3>. QED
      BY <3>2 DEF StaysFor
  <2>3. CASE Executes(j, tx) /\ tx.op # "swap"
    BY <2>3 DEF Executes, StaysFor
  <2>. QED
    BY <1>1, <1>2, <2>1, <2>2, <2>3
<1>5. \A k \in Jobs : job[k].pc = "done" \/ StaysFor(k)
  BY <1>3, <1>4
<1>. QED
  BY <1>1, <1>5, GoalApart

LEMMA GoalNextStep ==
  ASSUME RebalanceInv, GoalInv, [Next]_vars
  PROVE  GoalInv' /\ GoalStep
<1>1. ASSUME NEW j \in Jobs, Click(j) \/ CronCall(j) \/ AgentCall(j) PROVE GoalInv' /\ GoalStep
  BY <1>1, GoalCalls
<1>2. ASSUME NEW j \in Jobs, JobStep(j) PROVE GoalInv' /\ GoalStep
  BY <1>2, GoalRead, GoalBalance, GoalPlan, GoalQuoted, GoalFails, GoalExecuted DEF JobStep
<1>3. ASSUME NEW j \in Jobs, JobKilled(j) PROVE GoalInv' /\ GoalStep
  BY <1>3, GoalKilled
<1>4. CASE LandsLate
  BY <1>4, GoalLate
<1>5. CASE OwnerMoves
  <2>1. job' = job /\ \A k \in Jobs : StaysFor(k)
    BY <1>5 DEF OwnerMoves, StaysFor
  <2>. QED
    BY <2>1, GoalApart
<1>6. CASE (\E j \in Jobs : Reply(j) \/ CallFails(j) \/ CallCutOff(j)) \/ UNCHANGED vars
  <2>1. job' = job /\ \A k \in Jobs : StaysFor(k)
    BY <1>6 DEF Reply, CallFails, CallCutOff, vars, chain, StaysFor
  <2>. QED
    BY <2>1, GoalApart
<1>. QED
  BY <1>1, <1>2, <1>3, <1>4, <1>5, <1>6 DEF Next, Finished

(* A job that had every balance and price right and the Safe to itself     *)
(* leaves it as it was asked to, for any strategy, prices, balances and    *)
(* slippage: what computeSwaps orders and the program executes brings      *)
(* every token within the smallest swap, or slippage and rounding, of its  *)
(* share of what the Safe was worth, and USDC within the sum of that;      *)
(* computeConvertAllSwaps leaves nothing but USDC worth a swap.            *)
THEOREM GoalIsReached == Spec => ReachesItsGoal
<1>1. Init => GoalInv
  <2>1. SUFFICES ASSUME Init PROVE GoalInv
    OBVIOUS
  <2>2. \A j \in Jobs : job[j].pc = "idle"
    <3>1. job = [j \in Jobs |-> NoJob]
      BY <2>1 DEF Init
    <3>2. NoJob.pc = "idle"
      BY DEF NoJob
    <3>. QED
      BY <3>1, <3>2
  <2>. QED
    BY <2>2 DEF GoalInv, OnCourse
<1>2. RebalanceInv /\ GoalInv /\ [Next]_vars => GoalInv'
  BY GoalNextStep
<1>3. RebalanceInv /\ GoalInv /\ [Next]_vars
        => [\A j \in Jobs :
              LET b == job'[j] IN
              /\ b.status \in {"success", "no_rebalance_needed"} /\ job[j].status = "none"
              /\ ~b.partial /\ ~disturbed'[j]
              => /\ b.action = "rebalance" => Balanced(Worth(j), balance')
                 /\ b.action = "convert_all" => Converted(balance')]_vars
  BY GoalNextStep DEF GoalStep, GoalReached
<1>. QED
  BY <1>1, <1>2, <1>3, RebalanceInvariant, PTL DEF Spec, ReachesItsGoal
=============================================================================
