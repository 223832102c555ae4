---------------------------- MODULE ExponentPanel ----------------------------
(***************************************************************************)
(* The owner's PT position: set up, traded, redeemed, and the ONyc moved   *)
(* for it.  The panel web/src/components/ExponentOnycPanel.tsx, the quotes *)
(* of web/src/server/exponent/adapter.ts, the transactions of              *)
(* web/src/server/exponent/transactions.ts, and the plans of               *)
(* web/src/lib/mobileExponent.server.ts.  Quotes are read from a market    *)
(* that moves; what is signed is enforced when it lands.  The program's    *)
(* own books are ExponentRoute's matter.                                   *)
(***************************************************************************)
EXTENDS SafeJobs, Integers, FiniteSets, FiniteSetsExt

CONSTANTS
  Rates,         \* USDC, or ONyc, for ONE units of PT
  ONE,
  Size,          \* what is bought or sold at once
  Allocations,   \* what the owner may save: [kamino, onyc]
  Start(_),      \* the book at the start, with a position still to set up or not
  SLIPPAGE_BPS, MAX_LOSS_BPS,
  VALIDITY,      \* 90 seconds: a quote's life, and the age accepted
  MATURITY,      \* PT is sold before it and redeemed from it on
  LastTime, MaxTrades

ASSUME PanelAssumption ==
  /\ Rates \subseteq Nat \ {0} /\ \E most \in Rates : \A r \in Rates : most >= r
  /\ {ONE, Size} \subseteq Nat \ {0}
  /\ SLIPPAGE_BPS \in 2..100 /\ MAX_LOSS_BPS \in 0..500
  /\ {VALIDITY, MATURITY, LastTime, MaxTrades} \subseteq Nat

VARIABLES
  market,   \* the rate and the chain's clock
  book,     \* the position, the Safe's and the owner's balances, the allocation
  trade,    \* transactions handed to the wallet
  form      \* the panel

exVars == <<market, book, trade, form>>

Trades == 1..MaxTrades
NoTrade == [st |-> "none"]

(* Whether there is a position, its tracked PT and basis; USDC and ONyc in *)
(* the Safe; the same in the owner's wallet; the Safe's allocation.        *)
Book == [position : BOOLEAN, pt : Nat, basis : Nat, usdc : Nat, onyc : Nat,
         wallet : Nat, own : Nat, alloc : Allocations]

ASSUME StartAssumption ==
  /\ Start(TRUE) \in Book /\ Start(FALSE) \in Book
  /\ \A u \in Uses : u.trades \in 0..MaxTrades

IsTrade(action) == action \in {"buy", "sell", "redeem"}
Actions == {"setup", "deposit_onyc", "withdraw_onyc", "buy", "sell", "redeem"}
NextTrade == Min({i \in Trades : trade[i] = NoTrade})
CanTrade == \E i \in 1..use.trades : trade[i] = NoTrade

-----------------------------------------------------------------------------
(* Quotes. *)

minimum(amount, bps) == (amount * (10000 - bps) + 9999) \div 10000
exitBasis == IF Size = book.pt THEN book.basis ELSE (book.basis * Size) \div book.pt

Matured == market.now >= MATURITY

(* PT is bought and sold before maturity, and no more than there is.  A    *)
(* redemption before maturity is quoted as a preview, at the same rate.    *)
Quotable(action) ==
  /\ action # "redeem" => ~Matured
  /\ action # "buy" /\ book.position => book.pt >= Size

Expected(action) ==
  IF action = "buy" THEN (Size * ONE) \div market.rate ELSE (Size * market.rate) \div ONE

(* Each leg may slip by half, the whole by no more than the slippage; an   *)
(* exit of a position for USDC that is worth the loss floor may not fall   *)
(* below it.                                                               *)
Quote(action, asset) ==
  LET expected == Expected(action)
      legs == minimum(minimum(expected, SLIPPAGE_BPS \div 2), SLIPPAGE_BPS \div 2)
      slipped == Max({legs, minimum(expected, SLIPPAGE_BPS)})
      floored == action # "buy" /\ asset = "USDC" /\ book.position
      lossFloor == IF floored THEN minimum(exitBasis, MAX_LOSS_BPS) ELSE 0
      economic == expected >= lossFloor
  IN  [expected |-> expected,
       min |-> IF economic THEN Max({slipped, lossFloor}) ELSE slipped,
       floor |-> IF economic THEN lossFloor ELSE 0,
       position |-> book.position, preview |-> action = "redeem" /\ ~Matured,
       at |-> market.now, expires |-> market.now + VALIDITY]

NoQuote == [at |-> -1]

-----------------------------------------------------------------------------
(* Transactions. *)

\* Mutant of MinimumOut: a fresh quote replaces the minimum that was accepted.
MinimumOutFresh(accepted, fresh) == fresh.min

MinimumOut(accepted, fresh) == Max({accepted, fresh.min})

(* A buy by the owner whose allocation has no ONyc opens the route for     *)
(* itself and puts back the allocation it read.                            *)
Transaction(client, action, asset, accepted, fresh) ==
  [st |-> "ready", client |-> client, action |-> action, asset |-> asset,
   accepted |-> accepted.min, floor |-> accepted.floor,
   min |-> MinimumOut(accepted.min, fresh), expires |-> fresh.expires,
   alloc |-> book.alloc, opens |-> action = "buy" /\ book.alloc.onyc = 0]

(* Nothing to quote: a setup creates the position unless there is one, a   *)
(* transfer moves what was entered.                                        *)
Plain(action) ==
  LET moved == IF action = "setup" THEN 0 ELSE Size
  IN  [st |-> "ready", client |-> "panel", action |-> action, asset |-> "ONYC",
       accepted |-> moved, floor |-> 0, min |-> moved, expires |-> LastTime + 1,
       alloc |-> book.alloc, opens |-> action = "setup" /\ ~book.position]

(* The balance a transaction spends: a buy the Safe's, or through a native *)
(* client the wallet's; an exit PT.                                        *)
Spent(t) ==
  CASE t.action = "buy" /\ t.asset = "ONYC" -> "onyc"
    [] t.action = "buy" /\ t.asset = "USDC" -> IF t.client = "wallet" THEN "wallet" ELSE "usdc"
    [] t.action \in {"sell", "redeem"} -> "pt"
    [] t.action = "deposit_onyc" -> "own"
    [] t.action = "withdraw_onyc" -> "onyc"

(* The balance it pays into: an exit pays the owner.                       *)
Received(t) ==
  CASE t.action = "buy" -> "pt"
    [] t.action \in {"sell", "redeem"} -> IF t.asset = "USDC" THEN "wallet" ELSE "own"
    [] t.action = "deposit_onyc" -> "onyc"
    [] t.action = "withdraw_onyc" -> "own"

Pays(t) == IF IsTrade(t.action) THEN Expected(t.action) ELSE Size

(* An ONyc counts as one USDC in the basis.                                *)
Settle(t) ==
  IF t.action = "setup" THEN [book EXCEPT !.position = TRUE]
  ELSE LET moved == [book EXCEPT ![Spent(t)] = @ - Size, ![Received(t)] = @ + Pays(t)]
       IN  CASE t.action = "buy" ->
                  [moved EXCEPT !.basis = @ + Size, !.alloc = IF t.opens THEN t.alloc ELSE @]
             [] t.action \in {"sell", "redeem"} -> [moved EXCEPT !.basis = @ - exitBasis]
             [] OTHER -> moved

Executes(t) ==
  /\ market.now <= t.expires
  /\ t.action = "setup" => ~(t.opens /\ book.position)
  /\ t.action # "setup" => Pays(t) >= t.min /\ book[Spent(t)] >= Size
  /\ IsTrade(t.action) => book.position /\ (t.action = "redeem" <=> Matured)
  /\ t.action = "buy" => t.opens \/ book.alloc.onyc > 0

(* It lands in time and does all of it, or it fails or never lands.        *)
Lands(i) ==
  /\ trade[i].st = "live"
  /\ \/ /\ Executes(trade[i]) /\ book' = Settle(trade[i])
        /\ trade' = [trade EXCEPT ![i] = [st |-> "done"]]
     \/ trade' = [trade EXCEPT ![i] = [st |-> "failed"]] /\ UNCHANGED book
  /\ UNCHANGED <<market, form>>

(* The market, the clock, and the owner saving an allocation elsewhere.    *)
RateMoves ==
  /\ \E r \in Rates \ {market.rate} : market' = [market EXCEPT !.rate = r]
  /\ UNCHANGED <<book, trade, form>>

ClockTicks ==
  /\ "clock" \in use.parts /\ market.now < LastTime
  /\ market' = [market EXCEPT !.now = @ + 1]
  /\ UNCHANGED <<book, trade, form>>

SaveAllocation ==
  /\ "save" \in use.parts
  /\ \E a \in Allocations : book' = [book EXCEPT !.alloc = a]
  /\ UNCHANGED <<market, trade, form>>

-----------------------------------------------------------------------------
(* The panel. *)

Idle == form.busy = "no"
Stay == UNCHANGED <<market, book, trade>>
NoForm == [action |-> "buy", asset |-> "USDC", quote |-> NoQuote, prepared |-> NoTrade,
           sent |-> 0, busy |-> "no"]

(* Any change of the form drops what was quoted and prepared.              *)
Assets == {"USDC"} \cup (IF "onyc" \in use.parts THEN {"ONYC"} ELSE {})

Choose ==
  /\ Idle
  /\ \E action \in Actions \cap use.parts, asset \in Assets :
       /\ <<action, asset>> # <<form.action, form.asset>>
       /\ form' = [NoForm EXCEPT !.action = action, !.asset = asset]
  /\ Stay

GetQuote ==
  /\ Idle /\ "panel" \in use.parts /\ IsTrade(form.action)
  /\ form' = [form EXCEPT !.prepared = NoTrade, !.sent = 0, !.busy = "quote"] /\ Stay

QuoteArrives ==
  /\ form.busy = "quote"
  /\ \/ /\ Quotable(form.action)
        /\ form' = [form EXCEPT !.busy = "no", !.quote = Quote(form.action, form.asset)]
     \/ form' = [form EXCEPT !.busy = "no", !.quote = NoQuote]
  /\ Stay

(* A trade needs a quote of a position, and no mere preview.               *)
PrepareTrade ==
  /\ Idle /\ "panel" \in use.parts
  /\ IsTrade(form.action) =>
       form.quote # NoQuote /\ form.quote.position /\ ~form.quote.preview
  /\ form' = [form EXCEPT !.prepared = NoTrade, !.sent = 0, !.busy = "prepare"] /\ Stay

(* A trade is quoted afresh, against what the owner accepted; what its     *)
(* simulation refuses cannot be signed.                                    *)
unsignedTransaction(q) ==
  LET fresh == Quote(form.action, form.asset)
      t == Transaction("panel", form.action, form.asset, q, fresh)
  IN  IF Quotable(form.action) /\ market.now - q.at <= VALIDITY
         /\ q.min <= fresh.expected /\ Executes(t)
      THEN {t} ELSE {}

unsignedPlain == {t \in {Plain(form.action)} : Executes(t)}

PrepareArrives ==
  /\ form.busy = "prepare"
  /\ \/ \E t \in IF IsTrade(form.action) THEN unsignedTransaction(form.quote)
                  ELSE unsignedPlain :
          form' = [form EXCEPT !.busy = "no", !.prepared = t]
     \/ form' = [form EXCEPT !.busy = "no"]
  /\ Stay

SignTrade ==
  /\ Idle /\ form.prepared # NoTrade /\ market.now < form.prepared.expires
  /\ form' = [form EXCEPT !.busy = "wallet"] /\ Stay

(* The same transaction signed again is the same: it executes once.        *)
WalletSigns ==
  /\ form.busy = "wallet"
  /\ \/ /\ form.sent = 0 /\ CanTrade
        /\ trade' = [trade EXCEPT ![NextTrade] = [form.prepared EXCEPT !.st = "live"]]
        /\ form' = [form EXCEPT !.busy = "poll", !.sent = NextTrade]
     \/ /\ form.sent # 0 /\ form' = [form EXCEPT !.busy = "poll"] /\ UNCHANGED trade
     \/ /\ form' = [form EXCEPT !.busy = "no"] /\ UNCHANGED trade
  /\ UNCHANGED <<market, book>>

(* Confirmed, and the form is cleared; or failed, or still pending after   *)
(* 30 polls, and what was prepared stays.                                  *)
PollEnds ==
  /\ form.busy = "poll"
  /\ form' = IF trade[form.sent].st = "done"
             THEN [form EXCEPT !.busy = "no", !.quote = NoQuote, !.prepared = NoTrade, !.sent = 0]
             ELSE [form EXCEPT !.busy = "no"]
  /\ Stay

-----------------------------------------------------------------------------
(* The plans of the mobile API are built and simulated at once and signed  *)
(* by a native client.                                                     *)
Plan(t) ==
  /\ "mobile" \in use.parts /\ CanTrade /\ Executes(t)
  /\ trade' = [trade EXCEPT ![NextTrade] = [t EXCEPT !.st = "live"]]
  /\ UNCHANGED <<market, book, form>>

MobileSetup == "setup" \in use.parts /\ Plan(Plain("setup"))

(* Needs a position, shows the minimum it enforces, may pay from the       *)
(* wallet; the chain's clock tells a sale from a redemption.               *)
MobileTrade ==
  \E client \in {"safe", "wallet"}, action \in {"buy", IF Matured THEN "redeem" ELSE "sell"} :
    LET q == Quote(action, "USDC")
    IN  /\ client = "wallet" => action = "buy"
        /\ book.position /\ Quotable(action)
        /\ Plan(Transaction(client, action, "USDC", q, q))

-----------------------------------------------------------------------------
ExInit ==
  /\ market = [rate |-> Max(Rates), now |-> 0] /\ book = Start("setup" \in use.parts)
  /\ trade = [i \in Trades |-> NoTrade] /\ form = NoForm

ExClicks == Choose \/ GetQuote \/ PrepareTrade \/ SignTrade
ExSteps == QuoteArrives \/ PrepareArrives \/ WalletSigns \/ PollEnds
ExNext ==
  \/ ExClicks \/ ExSteps \/ MobileSetup \/ MobileTrade \/ SaveAllocation \/ RateMoves \/ ClockTicks
  \/ \E i \in Trades : Lands(i)

ExTypeOK ==
  /\ market.rate \in Rates /\ market.now \in 0..LastTime
  /\ book \in Book
  /\ \A i \in Trades : trade[i].st \in {"none", "live", "done", "failed"}
  /\ form.busy \in {"no", "quote", "prepare", "wallet", "poll"} /\ form.sent \in 0..MaxTrades
=============================================================================
