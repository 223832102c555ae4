---------------------------- MODULE ChatAssistant ----------------------------
(***************************************************************************)
(* The chat: web/src/components/AIChat.tsx and its route,                  *)
(* web/src/app/api/chat/route.ts.  The newest message of the assistant may *)
(* end with a proposal; the owner presses its button, or answers in words  *)
(* that a model takes for a yes or not.  The route then runs the job       *)
(* itself, or hands the request to a model that may call tools.  What a    *)
(* model says is open: it says yes only to an assenting reply.             *)
(***************************************************************************)
EXTENDS SafeJobs

VARIABLE chat

NoProposal == "none"
JobKinds == {"rebalance", "convert_all", "swap"}
Words == {"yes", "no", "ask", "how_much"}   \* what the owner may write
NoRequest == [text |-> "none", action |-> NoProposal, enabled |-> FALSE, params |-> FALSE]

(* status is useChat's; every button and field needs it to be "ready".     *)
FreshChat == [status |-> "ready", stage |-> "idle", proposal |-> NoProposal, n |-> 0,
              req |-> NoRequest, jobs |-> 0]

Post(req) ==
  /\ chat.status = "ready" /\ Begin("chat")
  /\ chat' = [chat EXCEPT !.status = "busy", !.stage = "server", !.req = req, !.jobs = 0]
  /\ UNCHANGED <<use, safe, shown, calls, late>>

(* A message, a hint, or "Cancelled", which is a message like any other.   *)
SendText ==
  /\ "chat" \in use.parts
  /\ \E text \in Words : Post([NoRequest EXCEPT !.text = text])

(* The button of the proposal in the newest message.                       *)
ConfirmAction ==
  /\ "chat" \in use.parts /\ chat.proposal # NoProposal
  /\ Post([text |-> "confirm", action |-> chat.proposal, enabled |-> TRUE,
           params |-> chat.proposal = "swap"])

-----------------------------------------------------------------------------
(* The route. *)

Replied(proposal, n) ==
  chat' = [chat EXCEPT !.status = "ready", !.stage = "idle", !.proposal = proposal,
                       !.n = n, !.req = NoRequest]

(* The classifier sees a proposal and a reply without a button; when its   *)
(* model fails the reply is not a yes.                                     *)
Inferred ==
  {NoProposal} \cup
  (IF chat.req.action = NoProposal /\ chat.req.text = "yes" THEN {chat.proposal} ELSE {})

RunDirectly(job) ==
  /\ Ask("chat", job)
  /\ chat' = [chat EXCEPT !.stage = "job", !.jobs = @ + 1]

(* A question for a balance is answered before any action; a swap needs    *)
(* the parameters only the button sends; all else is the model's to answer,*)
(* with execution enabled as it was by button or by yes.                   *)
HandleRequest ==
  /\ chat.stage = "server"
  /\ \E inferred \in Inferred :
       LET action == IF inferred # NoProposal THEN inferred ELSE chat.req.action
       IN  CASE chat.req.text = "how_much" ->
                  Replied(NoProposal, 0) /\ UNCHANGED calls
             [] chat.req.text # "how_much" /\ action \in {"rebalance", "convert_all"} ->
                  RunDirectly(Job(action, 0))
             [] chat.req.text # "how_much" /\ action = "swap" /\ chat.req.params ->
                  RunDirectly(Job("swap", chat.n))
             [] OTHER ->
                  /\ chat' = [chat EXCEPT !.stage = "model",
                                !.req.enabled = @ \/ inferred # NoProposal]
                  /\ UNCHANGED calls
  /\ UNCHANGED <<use, safe, shown, late, disturbed, budget>>

(* The summary of the job; it carries no proposal.                         *)
JobReplied ==
  /\ chat.stage = "job" /\ Answered("chat") /\ HangUp("chat") /\ Replied(NoProposal, 0)
  /\ UNCHANGED <<use, safe, shown, late, disturbed, budget>>

\* Mutant of MayExecute: the tools trust the model's own word.
MayExecuteAlways == TRUE

MayExecute == chat.req.enabled

(* rebalanceVault, convertAllToUsdc: the model says confirmed itself, and  *)
(* may call them again, MaxTools times here.                               *)
MaxTools == 2

ModelRunsTool ==
  /\ chat.stage = "model" /\ MayExecute /\ chat.jobs < MaxTools
  /\ \E kind \in {"rebalance", "convert_all"} : Ask("chat", Job(kind, 0))
  /\ chat' = [chat EXCEPT !.stage = "tool", !.jobs = @ + 1]
  /\ UNCHANGED <<use, safe, shown, late, disturbed, budget>>

ToolReplied ==
  /\ chat.stage = "tool" /\ Answered("chat") /\ HangUp("chat")
  /\ chat' = [chat EXCEPT !.stage = "model"]
  /\ UNCHANGED <<use, safe, shown, late, disturbed, budget>>

(* Its answer may end with a proposal; that of a swap comes from           *)
(* proposeSwap and is at most what the Safe holds.                         *)
ModelReplied ==
  /\ chat.stage = "model"
  /\ \/ \E p \in {NoProposal, "rebalance", "convert_all"} : Replied(p, 0)
     \/ safe.usdc > 0 /\ Replied("swap", safe.usdc)
  /\ UNCHANGED jobsVars

(* HTTP 500, a stream that breaks, a lost connection: useChat keeps the    *)
(* status "error", and a job under way goes on.                            *)
ChatBreaks ==
  /\ chat.status = "busy" /\ budget.mishaps < use.mishaps
  /\ budget' = [budget EXCEPT !.mishaps = @ + 1]
  /\ late' = late \cup (IF Waiting("chat") THEN {calls["chat"].job} ELSE {})
  /\ HangUp("chat")
  /\ chat' = [chat EXCEPT !.status = "error", !.stage = "idle", !.req = NoRequest]
  /\ UNCHANGED <<use, safe, shown, disturbed>>

ChatInit == chat = FreshChat
ChatClicks == SendText \/ ConfirmAction
ChatSteps == HandleRequest \/ JobReplied \/ ModelReplied \/ ToolReplied
ChatNext == ChatClicks \/ ChatSteps \/ ModelRunsTool \/ ChatBreaks

ChatTypeOK ==
  /\ chat.status \in {"ready", "busy", "error"}
  /\ chat.stage \in {"idle", "server", "job", "model", "tool"}
  /\ chat.proposal \in JobKinds \cup {NoProposal} /\ chat.jobs \in 0..MaxTools
=============================================================================
