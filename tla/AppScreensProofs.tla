-------------------------- MODULE AppScreensProofs ---------------------------
(***************************************************************************)
(* Proofs about the pages of the web app, for every Safe, every use and    *)
(* all figures: what a read of prices and rates hands on is recent; what   *)
(* lands of a trade of PT is what was reviewed; the cards report what      *)
(* happened; the chat runs what was confirmed; every variable keeps its    *)
(* type.  Each part of the pages has an invariant of its own, and a step   *)
(* of one part leaves those of the others alone.                           *)
(***************************************************************************)
EXTENDS AppScreens, SumLemmas

(* Which parts of the app a behaviour uses never changes.                  *)
LEMMA UseKept ==
  ASSUME [Next]_vars
  PROVE  use' = use
<1>1. CASE UNCHANGED appVars
  BY <1>1 DEF appVars, jobsVars
<1>2. CASE AppNext
  <2>1. JobsNext => use' = use
    BY DEF JobsNext, Serve, TurnAway, LoseAnswer, LateJobEnds, Refresh, useVault, useVaultAssets,
           useWalletAssets, useJupiterBorrowPositions, useKaminoKvaultPositions, Reread
  <2>2. LoopNext => use' = use
    BY DEF LoopNext, LoopClicks, LoopSteps, ActivateLoop, DepositIdea, DeactivateLoop,
           KaminoWithdraw, ActivationStep, DepositIdeaEnds, DeactivationStep, KaminoWithdrawEnds
  <2>3. ButtonsNext => use' = use
    BY DEF ButtonsNext, ButtonClicks, ButtonSteps, ButtonEnds, rebalance, convertAssetToUsdc,
           handleJupiterLendWithdraw, handleJupiterUsdcBorrow, handleJupiterUsdcRepay, Press
  <2>4. CardNext => use' = use
    BY DEF CardNext, CardClicks, CardStepsOn, Submit, WithdrawAll, ResetWithdraw, DropOnCard,
           DropOnWallet, ConversionEnds, TransferEnds, DropOnWalletEnds, jobsVars
  <2>5. ChatNext => use' = use
    BY DEF ChatNext, ChatClicks, ChatSteps, SendText, ConfirmAction, Post, HandleRequest,
           JobReplied, ModelReplied, ToolReplied, ModelRunsTool, ChatBreaks, jobsVars
  <2>6. Reload => use' = use
    BY DEF Reload
  <2>. QED
    BY <1>2, <2>1, <2>2, <2>3, <2>4, <2>5, <2>6 DEF AppNext
<1>. QED
  BY <1>1, <1>2 DEF Next, vars

-----------------------------------------------------------------------------
(* The reads of prices, tokens and rates. *)

MintsOf(values) == {v.mint : v \in values}

(* An entry of the route expires a lifetime after the last request that    *)
(* waited for it, an entry of a page a lifetime after it came back.        *)
KeptInv ==
  /\ \A m \in Mints :
       kept["route"][m].expires <= kept["route"][m].asOf + Lifetime + DELAY
  /\ \A p \in Pages, m \in Mints :
       kept[p][m].expires < kept[p][m].asOf + 2 * Lifetime + 3 * DELAY

UpstreamInv ==
  \A n \in Keys : upstream[n].st = "asked" =>
    /\ upstream[n].since <= upstream[n].last /\ upstream[n].last <= clock
    /\ clock <= upstream[n].since + DELAY

(* A request waits for the rest of its mints since the indexer was asked.  *)
AskedInv ==
  \A p \in Pages, k \in Keys : posts[p][k].st = "asked" =>
    /\ posts[p][k].need \in Keys /\ posts[p][k].need \subseteq k
    /\ upstream[posts[p][k].need].st = "asked"
    /\ upstream[posts[p][k].need].since <= posts[p][k].since
    /\ MintsOf(posts[p][k].hits) = k \ posts[p][k].need
    /\ \A v \in posts[p][k].hits : posts[p][k].since < v.asOf + Lifetime + DELAY

BackInv ==
  \A p \in Pages, k \in Keys : posts[p][k].st = "back" =>
    /\ posts[p][k].since <= clock /\ clock <= posts[p][k].since + DELAY
    /\ MintsOf(posts[p][k].hits) \subseteq k
    /\ k \cap lost = {} => MintsOf(posts[p][k].hits) = k
    /\ \A v \in posts[p][k].hits : posts[p][k].since < v.asOf + Lifetime + 2 * DELAY

WaitsWell(r) ==
  /\ r.at <= clock
  /\ r.from = "rate" => r.hits = {}
  /\ r.from \in Pages =>
       /\ r.key \in Keys /\ r.key \subseteq r.want /\ r.hits \subseteq Values
       /\ MintsOf(r.hits) = r.want \ r.key
       /\ \A v \in r.hits : r.at < v.asOf + 2 * Lifetime + 3 * DELAY

WaitInv == \A r \in reads.waiting : WaitsWell(r)

RateInv ==
  /\ rate.expires <= rate.asOf + RATE_TTL + DELAY
  /\ rate.pending => rate.since <= clock /\ clock <= rate.since + DELAY

ReadsInv ==
  /\ ReadsTypeOK /\ KeptInv /\ UpstreamInv /\ AskedInv /\ BackInv /\ WaitInv /\ RateInv
  /\ ReadsAreRecent

-----------------------------------------------------------------------------
(* The operators of the caches. *)

LEMMA LifetimeType == Lifetime \in Nat \ {0}
BY ReadsAssumption DEF Lifetime

LEMMA LifetimeConstant ==
  ASSUME use' = use
  PROVE  Lifetime' = Lifetime
BY DEF Lifetime

LEMMA PagesAreStores ==
  /\ Pages \subseteq Stores /\ "route" \in Stores
  /\ "route" \notin Pages /\ "rate" \notin Pages
BY ReadsAssumption DEF Stores

(* Only what the values are of changes, in one store, and takes the age of *)
(* one of them and the end given.                                          *)
LEMMA KeepCases ==
  ASSUME NEW s \in Stores, NEW values \in SUBSET Values, NEW e \in Nat,
         kept \in [Stores -> [Mints -> Snapshots]],
         NEW new, new = Keep(s, values, e)
  PROVE  /\ new \in [Stores -> [Mints -> Snapshots]]
         /\ \A t \in Stores, m \in Mints :
              \/ new[t][m] = kept[t][m]
              \/ t = s /\ \E v \in values :
                   v.mint = m /\ new[t][m].asOf = v.asOf /\ new[t][m].expires = e
<1>. DEFINE Pick(m) == CHOOSE v \in values : v.mint = m
            Row == [m \in Mints |-> IF \E v \in values : v.mint = m
                                    THEN [asOf |-> Pick(m).asOf, expires |-> e]
                                    ELSE kept[s][m]]
<1>1. ASSUME NEW m \in Mints, \E v \in values : v.mint = m
      PROVE  Pick(m) \in values /\ Pick(m).mint = m
  BY <1>1
<1>2. \A m \in Mints : kept[s][m] \in Snapshots
  OBVIOUS
<1>3. ASSUME NEW m \in Mints
      PROVE  /\ Row[m] \in Snapshots
             /\ \/ Row[m] = kept[s][m]
                \/ \E v \in values : v.mint = m /\ Row[m] = [asOf |-> v.asOf, expires |-> e]
  <2>1. CASE \E v \in values : v.mint = m
    <3>1. Row[m] = [asOf |-> Pick(m).asOf, expires |-> e]
      BY <2>1
    <3>2. Pick(m) \in values /\ Pick(m).mint = m /\ Pick(m).asOf \in Nat
      BY <1>1, <2>1 DEF Values
    <3>. QED
      BY <3>1, <3>2 DEF Snapshots
  <2>2. CASE ~ \E v \in values : v.mint = m
    BY <1>2, <2>2
  <2>. QED
    BY <2>1, <2>2
<1>4. new = [kept EXCEPT ![s] = Row]
  BY DEF Keep
<1>5. Row \in [Mints -> Snapshots]
  BY <1>3
<1>. HIDE DEF Row
<1>. QED
  BY <1>3, <1>4, <1>5

LEMMA OfMints ==
  ASSUME NEW s \in Stores, NEW ms \in SUBSET Mints,
         kept \in [Stores -> [Mints -> Snapshots]]
  PROVE  /\ Of(s, ms) \subseteq Values /\ MintsOf(Of(s, ms)) = ms
         /\ \A v \in Of(s, ms) : v.mint \in ms /\ v.asOf = kept[s][v.mint].asOf
<1>. DEFINE Value(m) == [mint |-> m, asOf |-> kept[s][m].asOf]
<1>1. \A m \in ms : kept[s][m] \in Snapshots
  OBVIOUS
<1>2. \A m \in ms : Value(m) \in Values /\ Value(m).mint = m /\ Value(m).asOf = kept[s][m].asOf
  BY <1>1 DEF Values, Snapshots
<1>3. Of(s, ms) = {Value(m) : m \in ms}
  BY DEF Of
<1>. HIDE DEF Value
<1>. QED
  BY <1>2, <1>3 DEF MintsOf

LEMMA MintsOfUnion ==
  ASSUME NEW a, NEW b
  PROVE  MintsOf(a \cup b) = MintsOf(a) \cup MintsOf(b)
BY DEF MintsOf

LEMMA PostsChange ==
  ASSUME posts \in [Pages -> [Keys -> Posts]], NEW p \in Pages, NEW k \in Keys, NEW x \in Posts,
         posts' = [posts EXCEPT ![p][k] = x]
  PROVE  /\ posts' \in [Pages -> [Keys -> Posts]]
         /\ \A q \in Pages, l \in Keys :
              posts'[q][l] = IF q = p /\ l = k THEN x ELSE posts[q][l]
<1>. DEFINE Row == [posts[p] EXCEPT ![k] = x]
<1>1. Row \in [Keys -> Posts] /\ \A l \in Keys : Row[l] = IF l = k THEN x ELSE posts[p][l]
  OBVIOUS
<1>2. posts' = [posts EXCEPT ![p] = Row]
  OBVIOUS
<1>. HIDE DEF Row
<1>. QED
  BY <1>1, <1>2

(* A read begins and is answered, or waits.                                *)
LEMMA ReadsChange ==
  ASSUME reads \in [begun : Nat, waiting : SUBSET Reads, given : SUBSET Reads], NEW r \in Reads
  PROVE  /\ AnswerNow(r) =>
              /\ reads' \in [begun : Nat, waiting : SUBSET Reads, given : SUBSET Reads]
              /\ reads'.waiting = reads.waiting /\ reads'.given = {r}
         /\ WaitFor(r) =>
              /\ reads' \in [begun : Nat, waiting : SUBSET Reads, given : SUBSET Reads]
              /\ reads'.waiting = reads.waiting \cup {r} /\ reads'.given = {}
<1>1. reads.begun + 1 \in Nat /\ reads.waiting \in SUBSET Reads
  OBVIOUS
<1>2. /\ AnswerNow(r) => reads' = [begun |-> reads.begun + 1, waiting |-> reads.waiting, given |-> {r}]
      /\ WaitFor(r) => reads' = [begun |-> reads.begun + 1, waiting |-> reads.waiting \cup {r},
                                 given |-> {}]
  BY DEF AnswerNow, WaitFor
<1>3. {r} \in SUBSET Reads /\ reads.waiting \cup {r} \in SUBSET Reads /\ {} \in SUBSET Reads
  BY <1>1
<1>. QED
  BY <1>1, <1>2, <1>3

LEMMA TypesNow ==
  ASSUME ReadsInv
  PROVE  /\ clock \in Nat /\ lost \in SUBSET Mints
         /\ kept \in [Stores -> [Mints -> Snapshots]]
         /\ posts \in [Pages -> [Keys -> Posts]]
         /\ upstream \in [Keys -> [st : {"none", "asked"}, since : Nat, last : Nat]]
         /\ rate \in [pending : BOOLEAN, since : Nat, asOf : Nat, expires : Nat]
         /\ reads \in [begun : Nat, waiting : SUBSET Reads, given : SUBSET Reads]
BY DEF ReadsInv, ReadsTypeOK

-----------------------------------------------------------------------------
(* One lemma for each step. *)

(* What is fresh in a page is recent, and with the rest it makes the whole.*)
LEMMA ReadThroughKeeps ==
  ASSUME ReadsInv, use' = use, NEW p \in Pages, NEW want \in Keys, ReadThrough(p, want)
  PROVE  ReadsInv'
<1>. DEFINE hits == Fresh(p, want)
            key == want \ hits
<1>0. PICK r : r = [from |-> p, want |-> want, key |-> key, hits |-> Of(p, hits), at |-> clock]
  OBVIOUS
<1>1. Lifetime' = Lifetime /\ Lifetime \in Nat \ {0} /\ DELAY \in Nat \ {0}
  BY LifetimeConstant, LifetimeType, ReadsAssumption
<1>2. p \in Stores /\ p # "rate" /\ want \in SUBSET Mints /\ hits \in SUBSET Mints /\ hits \subseteq want
  BY PagesAreStores DEF Fresh, Keys
<1>3. /\ kept \in [Stores -> [Mints -> Snapshots]] /\ clock \in Nat
      /\ posts \in [Pages -> [Keys -> Posts]]
      /\ reads \in [begun : Nat, waiting : SUBSET Reads, given : SUBSET Reads]
  BY TypesNow
<1>4. Of(p, hits) \subseteq Values /\ MintsOf(Of(p, hits)) = hits
  BY <1>2, <1>3, OfMints
<1>5. ASSUME NEW v \in Of(p, hits)
      PROVE  clock < v.asOf + 2 * Lifetime + 3 * DELAY
  <2>1. v.mint \in hits /\ v.asOf = kept[p][v.mint].asOf
    BY <1>2, <1>3, OfMints
  <2>2. kept[p][v.mint] \in Snapshots /\ kept[p][v.mint].expires > clock
    BY <1>2, <1>3, <2>1 DEF Fresh
  <2>3. kept[p][v.mint].expires < kept[p][v.mint].asOf + 2 * Lifetime + 3 * DELAY
    BY <1>2, <2>1 DEF ReadsInv, KeptInv
  <2>. QED
    BY <1>1, <1>3, <2>1, <2>2, <2>3 DEF Snapshots
<1>6. r \in Reads
  BY <1>0, <1>2, <1>3, <1>4 DEF Reads
<1>7. /\ UNCHANGED <<clock, kept, upstream, rate, lost>>
      /\ IF key = {} THEN AnswerNow(r) ELSE WaitFor(r)
      /\ \/ posts' = posts
         \/ key # {} /\ posts' = [posts EXCEPT ![p][key] = [NoPost EXCEPT !.st = "sent"]]
  BY <1>0 DEF ReadThrough
<1>. HIDE DEF hits, key
<1>8. r.from = p /\ r.want = want /\ r.key = key /\ r.hits = Of(p, hits) /\ r.at = clock
  BY <1>0
<1>9. key \subseteq want /\ want \ key = hits /\ (key # {} => key \in Keys) /\ (key = {} => hits = want)
  BY <1>2 DEF key, Keys
<1>10. /\ posts' \in [Pages -> [Keys -> Posts]]
       /\ \A q \in Pages, k \in Keys :
            posts'[q][k] = posts[q][k] \/ posts'[q][k] = [NoPost EXCEPT !.st = "sent"]
  <2>1. [NoPost EXCEPT !.st = "sent"] \in Posts
    BY DEF NoPost, Posts
  <2>2. CASE posts' = posts
    BY <1>3, <2>2
  <2>3. CASE key # {} /\ posts' = [posts EXCEPT ![p][key] = [NoPost EXCEPT !.st = "sent"]]
    BY <1>3, <1>9, <2>1, <2>3, PostsChange
  <2>. QED
    BY <1>7, <2>2, <2>3
<1>11. ReadsTypeOK'
  <2>1. reads' \in [begun : Nat, waiting : SUBSET Reads, given : SUBSET Reads]
    BY <1>3, <1>6, <1>7, ReadsChange
  <2>. QED
    BY <1>7, <1>10, <2>1 DEF ReadsInv, ReadsTypeOK
<1>12. KeptInv' /\ UpstreamInv' /\ RateInv'
  BY <1>1, <1>7 DEF ReadsInv, KeptInv, UpstreamInv, RateInv
<1>13. AskedInv' /\ BackInv'
  <2>1. \A q \in Pages, k \in Keys :
          posts'[q][k].st \in {"asked", "back"} => posts'[q][k] = posts[q][k]
    BY <1>10 DEF NoPost
  <2>2. AskedInv'
    BY <1>1, <1>7, <2>1 DEF ReadsInv, AskedInv
  <2>3. BackInv'
    BY <1>1, <1>7, <2>1 DEF ReadsInv, BackInv
  <2>. QED
    BY <2>2, <2>3
<1>14. WaitInv'
  <2>1. reads'.waiting \subseteq reads.waiting \cup (IF key # {} THEN {r} ELSE {})
    BY <1>3, <1>6, <1>7, ReadsChange
  <2>2. ASSUME key # {} PROVE WaitsWell(r)'
    BY <1>1, <1>2, <1>3, <1>4, <1>5, <1>7, <1>8, <1>9, <2>2 DEF WaitsWell
  <2>3. ASSUME NEW q \in reads.waiting PROVE WaitsWell(q)'
    BY <1>1, <1>7, <2>3 DEF ReadsInv, WaitInv, WaitsWell
  <2>. QED
    BY <2>1, <2>2, <2>3 DEF WaitInv
<1>15. ReadsAreRecent'
  <2>1. reads'.given \subseteq IF key = {} THEN {r} ELSE {}
    BY <1>3, <1>6, <1>7, ReadsChange
  <2>2. ASSUME key = {}
        PROVE  /\ r.from # "rate" /\ \A v \in r.hits : r.at < v.asOf + 2 * Lifetime + 3 * DELAY
               /\ MintsOf(r.hits) = r.want
    BY <1>2, <1>4, <1>5, <1>8, <1>9, <2>2
  <2>. QED
    BY <1>1, <2>1, <2>2 DEF ReadsAreRecent, MintsOf
<1>. QED
  BY <1>11, <1>12, <1>13, <1>14, <1>15 DEF ReadsInv

(* An answer is as old as the route's and two delays, and complete unless  *)
(* one was lost; it is given to those that waited for exactly its mints.   *)
LEMMA PageGetsKeeps ==
  ASSUME ReadsInv, use' = use, NEW p \in Pages, NEW k \in Keys, PageGets(p, k)
  PROVE  ReadsInv'
<1>1. Lifetime' = Lifetime /\ Lifetime \in Nat \ {0} /\ DELAY \in Nat \ {0}
  BY LifetimeConstant, LifetimeType, ReadsAssumption
<1>2. /\ kept \in [Stores -> [Mints -> Snapshots]] /\ clock \in Nat
      /\ posts \in [Pages -> [Keys -> Posts]] /\ posts[p][k] \in Posts
      /\ reads \in [begun : Nat, waiting : SUBSET Reads, given : SUBSET Reads]
      /\ lost \in SUBSET Mints
      /\ p \in Stores /\ p # "rate" /\ p # "route" /\ k \subseteq Mints /\ k # {}
  <2>1. k \subseteq Mints /\ k # {}
    BY DEF Keys
  <2>2. p \in Stores /\ p # "rate" /\ p # "route"
    BY PagesAreStores
  <2>3. posts \in [Pages -> [Keys -> Posts]]
    BY TypesNow
  <2>4. posts[p][k] \in Posts
    BY <2>3
  <2>. QED
    BY <2>1, <2>2, <2>3, <2>4, TypesNow
<1>. DEFINE rs == {r \in reads.waiting : r.from = p /\ r.key = k}
<1>3. PICK values \in {posts[p][k].hits, {}} :
        /\ kept' = Keep(p, values, clock + Lifetime)
        /\ lost' = IF values # posts[p][k].hits THEN lost \cup k ELSE lost
        /\ reads' = [reads EXCEPT !.waiting = @ \ rs,
                                  !.given = {[r EXCEPT !.hits = @ \cup values] : r \in rs}]
  BY DEF PageGets, Give
<1>4. posts[p][k].st = "back" /\ posts' = [posts EXCEPT ![p][k] = NoPost]
      /\ UNCHANGED <<clock, upstream, rate>>
  BY DEF PageGets
<1>5. values \in SUBSET Values /\ lost \subseteq lost' /\ clock + Lifetime \in Nat
  BY <1>1, <1>2, <1>3 DEF Posts
<1>6. ASSUME NEW v \in values
      PROVE  v.asOf \in Nat /\ clock < v.asOf + Lifetime + 3 * DELAY
  <2>1. v \in posts[p][k].hits /\ v.asOf \in Nat /\ posts[p][k].since \in Nat
    BY <1>2, <1>3, <1>5 DEF Values, Posts
  <2>2. posts[p][k].since < v.asOf + Lifetime + 2 * DELAY /\ clock <= posts[p][k].since + DELAY
    BY <1>4, <2>1 DEF ReadsInv, BackInv
  <2>. QED
    BY <1>1, <1>2, <2>1, <2>2
<1>7. k \cap lost' = {} => MintsOf(values) = k
  BY <1>2, <1>3, <1>4 DEF ReadsInv, BackInv
<1>8. MintsOf(values) \subseteq k
  <2>1. MintsOf(posts[p][k].hits) \subseteq k
    BY <1>4 DEF ReadsInv, BackInv
  <2>. QED
    BY <1>3, <2>1 DEF MintsOf
<1>9. /\ posts' \in [Pages -> [Keys -> Posts]]
      /\ \A q \in Pages, l \in Keys : posts'[q][l] = posts[q][l] \/ posts'[q][l] = NoPost
  <2>1. NoPost \in Posts
    BY DEF NoPost, Posts
  <2>. QED
    BY <1>2, <1>4, <2>1, PostsChange
<1>10. ASSUME NEW r \in rs, NEW g, g = [r EXCEPT !.hits = @ \cup values]
       PROVE  /\ g \in Reads /\ g.from = p
              /\ \A v \in g.hits : g.at < v.asOf + 2 * Lifetime + 3 * DELAY
              /\ g.want \cap lost' = {} => MintsOf(g.hits) = g.want
  <2>1. r \in Reads /\ r.from = p /\ r.key = k /\ WaitsWell(r) /\ r.at \in Nat
    BY <1>2 DEF ReadsInv, WaitInv, Reads
  <2>2. /\ g.from = p /\ g.want = r.want /\ g.at = r.at /\ g.hits = r.hits \cup values
        /\ g \in Reads
    BY <1>5, <1>10, <2>1 DEF Reads
  <2>3. /\ r.at <= clock /\ k \subseteq r.want /\ MintsOf(r.hits) = r.want \ k
        /\ \A v \in r.hits : r.at < v.asOf + 2 * Lifetime + 3 * DELAY
    BY <2>1 DEF WaitsWell
  <2>4. \A v \in values : r.at < v.asOf + 2 * Lifetime + 3 * DELAY
    BY <1>1, <1>2, <1>6, <2>1, <2>3
  <2>5. MintsOf(g.hits) = (r.want \ k) \cup MintsOf(values)
    BY <2>2, <2>3, MintsOfUnion
  <2>6. g.want \cap lost' = {} => MintsOf(g.hits) = g.want
    BY <1>7, <2>2, <2>3, <2>5
  <2>. QED
    BY <2>2, <2>3, <2>4, <2>6
<1>11. /\ reads'.waiting \subseteq reads.waiting
       /\ reads'.given = {[r EXCEPT !.hits = @ \cup values] : r \in rs}
  BY <1>2, <1>3
<1>12. ReadsTypeOK'
  <2>2. kept' \in [Stores -> [Mints -> Snapshots]]
    BY <1>2, <1>3, <1>5, KeepCases
  <2>3. reads' \in [begun : Nat, waiting : SUBSET Reads, given : SUBSET Reads]
    <3>1. reads'.given \subseteq Reads
      BY <1>10, <1>11
    <3>. QED
      BY <1>2, <1>3, <1>11, <3>1
  <2>4. lost' \in SUBSET Mints
    BY <1>2, <1>3
  <2>. QED
    BY <1>4, <1>9, <2>2, <2>3, <2>4 DEF ReadsInv, ReadsTypeOK
<1>13. KeptInv'
  <2>1. ASSUME NEW q \in Stores, NEW m \in Mints
        PROVE  \/ kept'[q][m] = kept[q][m]
               \/ /\ q = p
                  /\ kept'[q][m].expires < kept'[q][m].asOf + 2 * Lifetime + 3 * DELAY
    <3>0. \/ kept'[q][m] = kept[q][m]
          \/ q = p /\ \E v \in values :
               v.mint = m /\ kept'[q][m].asOf = v.asOf /\ kept'[q][m].expires = clock + Lifetime
      BY <1>2, <1>3, <1>5, KeepCases
    <3>1. ASSUME NEW v \in values, kept'[q][m].asOf = v.asOf, kept'[q][m].expires = clock + Lifetime
          PROVE  kept'[q][m].expires < kept'[q][m].asOf + 2 * Lifetime + 3 * DELAY
      BY <1>1, <1>2, <1>6, <3>1
    <3>. QED
      BY <3>0, <3>1
  <2>. QED
    BY <1>1, <1>2, <2>1, PagesAreStores DEF ReadsInv, KeptInv
<1>14. UpstreamInv' /\ RateInv'
  BY <1>1, <1>4 DEF ReadsInv, UpstreamInv, RateInv
<1>15. AskedInv'
  <2>1. \A q \in Pages, l \in Keys : posts'[q][l].st = "asked" => posts'[q][l] = posts[q][l]
    BY <1>9 DEF NoPost
  <2>. QED
    BY <1>1, <1>4, <2>1 DEF ReadsInv, AskedInv
<1>16. BackInv'
  <2>1. \A q \in Pages, l \in Keys : posts'[q][l].st = "back" => posts'[q][l] = posts[q][l]
    BY <1>9 DEF NoPost
  <2>2. \A l \in Keys : l \cap lost' = {} => l \cap lost = {}
    BY <1>5
  <2>. QED
    BY <1>1, <1>4, <2>1, <2>2 DEF ReadsInv, BackInv
<1>17. WaitInv'
  BY <1>1, <1>4, <1>11 DEF ReadsInv, WaitInv, WaitsWell
<1>18. ReadsAreRecent'
  <2>1. ASSUME NEW g \in reads'.given
        PROVE  /\ g.from # "rate"
               /\ \A v \in g.hits : g.at < v.asOf + 2 * Lifetime + 3 * DELAY
               /\ g.want \cap lost' = {} => {v.mint : v \in g.hits} = g.want
    <3>1. PICK r \in rs : g = [r EXCEPT !.hits = @ \cup values]
      BY <1>11
    <3>. QED
      BY <1>2, <1>10, <3>1 DEF MintsOf
  <2>. QED
    BY <1>1, <2>1 DEF ReadsAreRecent
<1>. QED
  BY <1>12, <1>13, <1>14, <1>15, <1>16, <1>17, <1>18 DEF ReadsInv

(* What is fresh in the route is younger than a lifetime and a delay; for  *)
(* the rest the indexer is asked now, or was not long ago.                 *)
LEMMA RouteGetsKeeps ==
  ASSUME ReadsInv, use' = use, NEW p \in Pages, NEW k \in Keys, RouteGets(p, k)
  PROVE  ReadsInv'
<1>1. Lifetime' = Lifetime /\ Lifetime \in Nat \ {0} /\ DELAY \in Nat \ {0}
  BY LifetimeConstant, LifetimeType, ReadsAssumption
<1>2. /\ kept \in [Stores -> [Mints -> Snapshots]] /\ clock \in Nat
      /\ posts \in [Pages -> [Keys -> Posts]]
      /\ upstream \in [Keys -> [st : {"none", "asked"}, since : Nat, last : Nat]]
      /\ reads \in [begun : Nat, waiting : SUBSET Reads, given : SUBSET Reads]
  BY TypesNow
<1>3. "route" \in Stores /\ k \in SUBSET Mints
  BY PagesAreStores DEF Keys
<1>4. PICK hits \in SUBSET Mints : hits = Fresh("route", k)
  BY <1>3 DEF Fresh
<1>5. PICK need \in SUBSET Mints : need = k \ hits
  BY <1>3
<1>6. PICK post : post = [st |-> IF need = {} THEN "back" ELSE "asked", since |-> clock,
                          need |-> need, hits |-> Of("route", hits)]
  OBVIOUS
<1>7. /\ posts' = [posts EXCEPT ![p][k] = post]
      /\ upstream' =
           IF need = {} THEN upstream
           ELSE IF upstream[need].st = "none"
           THEN [upstream EXCEPT ![need] = [st |-> "asked", since |-> clock, last |-> clock]]
           ELSE [upstream EXCEPT ![need].last = clock]
      /\ reads' = [reads EXCEPT !.given = {}] /\ UNCHANGED <<clock, kept, rate, lost>>
  BY <1>4, <1>5, <1>6 DEF RouteGets, NoneGiven
<1>8. hits \subseteq k /\ k \ need = hits /\ (need # {} => need \in Keys)
  BY <1>3, <1>4, <1>5 DEF Fresh, Keys
<1>9. Of("route", hits) \subseteq Values /\ MintsOf(Of("route", hits)) = hits
  BY <1>2, <1>3, OfMints
<1>10. ASSUME NEW v \in Of("route", hits)
       PROVE  clock < v.asOf + Lifetime + DELAY
  <2>1. v.mint \in hits /\ v.asOf = kept["route"][v.mint].asOf
    BY <1>2, <1>3, OfMints
  <2>2. kept["route"][v.mint] \in Snapshots /\ kept["route"][v.mint].expires > clock
    BY <1>2, <1>3, <1>4, <2>1 DEF Fresh
  <2>3. kept["route"][v.mint].expires <= kept["route"][v.mint].asOf + Lifetime + DELAY
    BY <2>1 DEF ReadsInv, KeptInv
  <2>. QED
    BY <1>1, <1>2, <2>1, <2>2, <2>3 DEF Snapshots
<1>11. post \in Posts /\ post.since = clock /\ post.need = need /\ post.hits = Of("route", hits)
       /\ (need = {} => post.st = "back") /\ (need # {} => post.st = "asked")
  BY <1>2, <1>6, <1>9 DEF Posts
<1>12. /\ posts' \in [Pages -> [Keys -> Posts]]
       /\ \A q \in Pages, l \in Keys :
            posts'[q][l] = IF q = p /\ l = k THEN post ELSE posts[q][l]
  BY <1>2, <1>7, <1>11, PostsChange
<1>13. /\ upstream' \in [Keys -> [st : {"none", "asked"}, since : Nat, last : Nat]]
       /\ \A n \in Keys : upstream[n].st = "asked" =>
            upstream'[n].st = "asked" /\ upstream'[n].since = upstream[n].since
       /\ need # {} => upstream'[need].st = "asked"
  BY <1>2, <1>7, <1>8
<1>14. UpstreamInv'
  <2>1. ASSUME NEW n \in Keys, upstream'[n].st = "asked"
        PROVE  /\ upstream'[n].since <= upstream'[n].last /\ upstream'[n].last <= clock
               /\ clock <= upstream'[n].since + DELAY
    <3>1. upstream[n].st = "asked" =>
            /\ upstream[n].since <= upstream[n].last /\ upstream[n].last <= clock
            /\ clock <= upstream[n].since + DELAY
      BY DEF ReadsInv, UpstreamInv
    <3>2. \/ upstream'[n] = upstream[n]
          \/ upstream'[n] = [st |-> "asked", since |-> clock, last |-> clock]
          \/ upstream[n].st = "asked" /\ upstream'[n] = [upstream[n] EXCEPT !.last = clock]
      BY <1>2, <1>7, <1>8
    <3>. QED
      BY <1>1, <1>2, <2>1, <3>1, <3>2
  <2>. QED
    BY <1>7, <2>1 DEF UpstreamInv
<1>15. AskedInv'
  <2>1. ASSUME need # {} PROVE upstream'[need].since <= clock
    <3>1. upstream'[need].st = "asked" /\ need \in Keys
      BY <1>8, <1>13, <2>1
    <3>2. upstream'[need].since <= upstream'[need].last /\ upstream'[need].last <= clock
      BY <1>7, <1>14, <3>1 DEF UpstreamInv
    <3>. QED
      BY <1>2, <1>13, <3>1, <3>2
  <2>2. ASSUME NEW q \in Pages, NEW l \in Keys, posts'[q][l].st = "asked"
        PROVE  /\ posts'[q][l].need \in Keys /\ posts'[q][l].need \subseteq l
               /\ upstream'[posts'[q][l].need].st = "asked"
               /\ upstream'[posts'[q][l].need].since <= posts'[q][l].since
               /\ MintsOf(posts'[q][l].hits) = l \ posts'[q][l].need
               /\ \A v \in posts'[q][l].hits : posts'[q][l].since < v.asOf + Lifetime + DELAY
    <3>1. CASE q = p /\ l = k
      BY <1>5, <1>8, <1>9, <1>10, <1>11, <1>12, <1>13, <2>1, <2>2, <3>1
    <3>2. CASE ~(q = p /\ l = k)
      <4>1. posts'[q][l] = posts[q][l]
        BY <1>12, <3>2
      <4>. QED
        BY <1>13, <2>2, <4>1 DEF ReadsInv, AskedInv
    <3>. QED
      BY <3>1, <3>2
  <2>. QED
    BY <1>1, <2>2 DEF AskedInv
<1>16. BackInv'
  <2>1. ASSUME NEW q \in Pages, NEW l \in Keys, posts'[q][l].st = "back"
        PROVE  /\ posts'[q][l].since <= clock /\ clock <= posts'[q][l].since + DELAY
               /\ MintsOf(posts'[q][l].hits) \subseteq l
               /\ l \cap lost = {} => MintsOf(posts'[q][l].hits) = l
               /\ \A v \in posts'[q][l].hits : posts'[q][l].since < v.asOf + Lifetime + 2 * DELAY
    <3>1. CASE q = p /\ l = k
      <4>1. posts'[q][l] = post /\ need = {} /\ MintsOf(post.hits) = k
        BY <1>8, <1>9, <1>11, <1>12, <2>1, <3>1
      <4>2. ASSUME NEW v \in post.hits PROVE post.since < v.asOf + Lifetime + 2 * DELAY
        <5>1. v.asOf \in Nat /\ clock < v.asOf + Lifetime + DELAY
          BY <1>9, <1>10, <1>11 DEF Values
        <5>. QED
          BY <1>1, <1>2, <1>11, <5>1
      <4>. QED
        BY <1>1, <1>2, <1>11, <3>1, <4>1, <4>2
    <3>2. CASE ~(q = p /\ l = k)
      <4>1. posts'[q][l] = posts[q][l]
        BY <1>12, <3>2
      <4>. QED
        BY <2>1, <4>1 DEF ReadsInv, BackInv
    <3>. QED
      BY <3>1, <3>2
  <2>. QED
    BY <1>1, <1>7, <2>1 DEF BackInv
<1>17. reads' \in [begun : Nat, waiting : SUBSET Reads, given : SUBSET Reads]
       /\ reads'.waiting = reads.waiting /\ reads'.given = {}
  BY <1>2, <1>7
<1>18. ReadsTypeOK'
  BY <1>7, <1>12, <1>13, <1>17 DEF ReadsInv, ReadsTypeOK
<1>19. KeptInv' /\ RateInv' /\ WaitInv' /\ ReadsAreRecent'
  <2>1. KeptInv' /\ RateInv'
    BY <1>1, <1>7 DEF ReadsInv, KeptInv, RateInv
  <2>2. WaitInv'
    BY <1>1, <1>7, <1>17 DEF ReadsInv, WaitInv, WaitsWell
  <2>3. ReadsAreRecent'
    BY <1>17 DEF ReadsAreRecent
  <2>. QED
    BY <2>1, <2>2, <2>3
<1>. QED
  BY <1>14, <1>15, <1>16, <1>18, <1>19 DEF ReadsInv

(* Whoever waits for the indexer asked after it was asked, so its answer   *)
(* is at most a delay old; what a store keeps of it, at most two.          *)
LEMMA RouteAnswersKeeps ==
  ASSUME ReadsInv, use' = use, NEW n \in Keys, RouteAnswers(n)
  PROVE  ReadsInv'
<1>1. Lifetime' = Lifetime /\ Lifetime \in Nat \ {0} /\ DELAY \in Nat \ {0}
  BY LifetimeConstant, LifetimeType, ReadsAssumption
<1>2. /\ kept \in [Stores -> [Mints -> Snapshots]] /\ clock \in Nat
      /\ posts \in [Pages -> [Keys -> Posts]]
      /\ upstream \in [Keys -> [st : {"none", "asked"}, since : Nat, last : Nat]]
      /\ reads \in [begun : Nat, waiting : SUBSET Reads, given : SUBSET Reads]
      /\ lost \in SUBSET Mints
  BY TypesNow
<1>3. "route" \in Stores /\ n \in SUBSET Mints /\ Pages \subseteq Stores /\ "route" \notin Pages
  BY PagesAreStores DEF Keys
<1>. DEFINE Waits(p, k) == posts[p][k].st = "asked" /\ posts[p][k].need = n
<1>4. PICK priced \in SUBSET n :
        /\ kept' = Keep("route", {[mint |-> m, asOf |-> upstream[n].since] : m \in priced},
                        upstream[n].last + Lifetime)
        /\ lost' = lost \cup (n \ priced)
        /\ posts' = [p \in Pages |-> [k \in Keys |->
             IF Waits(p, k)
             THEN [posts[p][k] EXCEPT !.st = "back", !.since = clock,
                     !.hits = @ \cup {[mint |-> m, asOf |-> upstream[n].since] : m \in priced}]
             ELSE posts[p][k]]]
  BY DEF RouteAnswers
<1>5. PICK since \in Nat, last \in Nat : since = upstream[n].since /\ last = upstream[n].last
  BY <1>2
<1>6. /\ upstream[n].st = "asked" /\ upstream' = [upstream EXCEPT ![n] = NoFetch]
      /\ reads' = [reads EXCEPT !.given = {}] /\ UNCHANGED <<clock, rate>>
  BY DEF RouteAnswers, NoneGiven
<1>7. PICK values : values = {[mint |-> m, asOf |-> since] : m \in priced}
  OBVIOUS
<1>r. PICK s \in Stores : s = "route"
  BY <1>3
<1>8. /\ kept' = Keep(s, values, last + Lifetime)
      /\ posts' = [p \in Pages |-> [k \in Keys |->
           IF Waits(p, k)
           THEN [posts[p][k] EXCEPT !.st = "back", !.since = clock, !.hits = @ \cup values]
           ELSE posts[p][k]]]
  BY <1>4, <1>5, <1>7, <1>r
<1>9. /\ values \in SUBSET Values /\ MintsOf(values) = priced
      /\ \A v \in values : v.asOf = since
  <2>. DEFINE Value(m) == [mint |-> m, asOf |-> since]
  <2>1. \A m \in priced : Value(m) \in Values /\ Value(m).mint = m /\ Value(m).asOf = since
    BY <1>3 DEF Values
  <2>2. values = {Value(m) : m \in priced}
    BY <1>7
  <2>. HIDE DEF Value
  <2>. QED
    BY <2>1, <2>2 DEF MintsOf
<1>10. since <= last /\ last <= clock /\ clock <= since + DELAY
  BY <1>5, <1>6 DEF ReadsInv, UpstreamInv
<1>11. last + Lifetime \in Nat /\ lost \subseteq lost' /\ lost' \in SUBSET Mints /\ n \ priced \subseteq lost'
  <2>1. last + Lifetime \in Nat
    BY <1>1
  <2>. QED
    BY <1>2, <1>3, <1>4, <2>1
<1>12. ASSUME NEW p \in Pages, NEW k \in Keys, Waits(p, k)
       PROVE  /\ posts'[p][k].st = "back" /\ posts'[p][k].since = clock
              /\ posts'[p][k].need = posts[p][k].need
              /\ posts'[p][k].hits = posts[p][k].hits \cup values
              /\ posts'[p][k] \in Posts
  <2>1. posts[p][k] \in Posts
    BY <1>2
  <2>2. posts'[p][k] = [posts[p][k] EXCEPT !.st = "back", !.since = clock, !.hits = @ \cup values]
    BY <1>8, <1>12
  <2>3. clock \in Nat /\ values \in SUBSET Values
    BY <1>2, <1>9
  <2>. QED
    <3>1. PICK was \in Posts : was = posts[p][k]
      BY <2>1
    <3>2. PICK now \in Nat : now = clock
      BY <2>3
    <3>3. PICK hits \in SUBSET Values : hits = was.hits \cup values
      BY <2>3 DEF Posts
    <3>4. posts'[p][k] = [was EXCEPT !.st = "back", !.since = now, !.hits = hits]
      BY <2>2, <3>1, <3>2, <3>3
    <3>5. PICK is : is = [was EXCEPT !.st = "back", !.since = now, !.hits = hits]
      OBVIOUS
    <3>6. /\ is \in Posts /\ is.st = "back" /\ is.since = now
          /\ is.need = was.need /\ is.hits = hits
      BY <3>5 DEF Posts
    <3>. QED
      BY <3>1, <3>2, <3>3, <3>4, <3>5, <3>6
<1>13. ASSUME NEW p \in Pages, NEW k \in Keys, ~Waits(p, k)
       PROVE  posts'[p][k] = posts[p][k]
  BY <1>8, <1>13
<1>14. ReadsTypeOK'
  <2>1. posts' \in [Pages -> [Keys -> Posts]]
    <3>1. \A p \in Pages, k \in Keys : posts'[p][k] \in Posts
      BY <1>2, <1>12, <1>13
    <3>2. posts' = [p \in Pages |-> [k \in Keys |-> posts'[p][k]]]
      BY <1>8
    <3>. QED
      BY <3>1, <3>2
  <2>2. kept' \in [Stores -> [Mints -> Snapshots]]
    BY <1>2, <1>8, <1>9, <1>11, KeepCases
  <2>3. upstream' \in [Keys -> [st : {"none", "asked"}, since : Nat, last : Nat]]
    BY <1>2, <1>6 DEF NoFetch
  <2>4. reads' \in [begun : Nat, waiting : SUBSET Reads, given : SUBSET Reads]
    BY <1>2, <1>6
  <2>. QED
    BY <1>6, <1>11, <2>1, <2>2, <2>3, <2>4 DEF ReadsInv, ReadsTypeOK
<1>15. KeptInv'
  <2>1. ASSUME NEW q \in Stores, NEW m \in Mints
        PROVE  \/ kept'[q][m] = kept[q][m]
               \/ q = s /\ kept'[q][m].expires <= kept'[q][m].asOf + Lifetime + DELAY
    <3>0. PICK e \in Nat : e = last + Lifetime
      BY <1>11
    <3>1. kept' = Keep(s, values, e) /\ values \in SUBSET Values
      BY <1>8, <1>9, <3>0
    <3>3. \/ kept'[q][m] = kept[q][m]
          \/ q = s /\ \E v \in values :
               v.mint = m /\ kept'[q][m].asOf = v.asOf /\ kept'[q][m].expires = e
      BY <1>2, <3>1, KeepCases
    <3>2. last + Lifetime <= since + Lifetime + DELAY
      BY <1>1, <1>2, <1>10
    <3>. QED
      BY <1>9, <3>0, <3>2, <3>3
  <2>. QED
    BY <1>1, <1>3, <1>r, <2>1 DEF ReadsInv, KeptInv
<1>16. UpstreamInv'
  <2>1. \A l \in Keys : upstream'[l].st = "asked" => l # n /\ upstream'[l] = upstream[l]
    BY <1>2, <1>6 DEF NoFetch
  <2>. QED
    BY <1>6, <2>1 DEF ReadsInv, UpstreamInv
<1>17. AskedInv'
  <2>1. ASSUME NEW p \in Pages, NEW k \in Keys, posts'[p][k].st = "asked"
        PROVE  /\ posts'[p][k].need \in Keys /\ posts'[p][k].need \subseteq k
               /\ upstream'[posts'[p][k].need].st = "asked"
               /\ upstream'[posts'[p][k].need].since <= posts'[p][k].since
               /\ MintsOf(posts'[p][k].hits) = k \ posts'[p][k].need
               /\ \A v \in posts'[p][k].hits : posts'[p][k].since < v.asOf + Lifetime + DELAY
    <3>1. ~Waits(p, k) /\ posts'[p][k] = posts[p][k] /\ posts[p][k].need # n
      BY <1>12, <1>13, <2>1
    <3>2. posts[p][k].need \in Keys
      BY <2>1, <3>1 DEF ReadsInv, AskedInv
    <3>3. upstream'[posts[p][k].need] = upstream[posts[p][k].need]
      BY <1>2, <1>6, <3>1, <3>2
    <3>. QED
      BY <2>1, <3>1, <3>2, <3>3 DEF ReadsInv, AskedInv
  <2>. QED
    BY <1>1, <2>1 DEF AskedInv
<1>18. BackInv'
  <2>1. ASSUME NEW p \in Pages, NEW k \in Keys, posts'[p][k].st = "back"
        PROVE  /\ posts'[p][k].since <= clock /\ clock <= posts'[p][k].since + DELAY
               /\ MintsOf(posts'[p][k].hits) \subseteq k
               /\ k \cap lost' = {} => MintsOf(posts'[p][k].hits) = k
               /\ \A v \in posts'[p][k].hits : posts'[p][k].since < v.asOf + Lifetime + 2 * DELAY
    <3>1. CASE Waits(p, k)
      <4>1. /\ n \subseteq k /\ upstream[n].since <= posts[p][k].since
            /\ MintsOf(posts[p][k].hits) = k \ n
            /\ \A v \in posts[p][k].hits : posts[p][k].since < v.asOf + Lifetime + DELAY
        BY <3>1 DEF ReadsInv, AskedInv
      <4>2. posts[p][k] \in Posts /\ posts[p][k].hits \subseteq Values /\ posts[p][k].since \in Nat
        BY <1>2 DEF Posts
      <4>3. MintsOf(posts'[p][k].hits) = (k \ n) \cup priced
        BY <1>9, <1>12, <3>1, <4>1, MintsOfUnion
      <4>4. ASSUME NEW v \in posts[p][k].hits PROVE clock < v.asOf + Lifetime + 2 * DELAY
        <5>1. v.asOf \in Nat /\ posts[p][k].since < v.asOf + Lifetime + DELAY
          BY <4>1, <4>2 DEF Values
        <5>2. clock <= posts[p][k].since + DELAY
          BY <1>1, <1>2, <1>5, <1>10, <4>1, <4>2
        <5>. QED
          BY <1>1, <1>2, <4>2, <5>1, <5>2
      <4>5. ASSUME NEW v \in values PROVE clock < v.asOf + Lifetime + 2 * DELAY
        BY <1>1, <1>2, <1>9, <1>10
      <4>6. posts'[p][k].since = clock /\ posts'[p][k].hits = posts[p][k].hits \cup values
        BY <1>12, <3>1
      <4>7. k \cap lost' = {} => (k \ n) \cup priced = k
        BY <1>11, <4>1
      <4>8. (k \ n) \cup priced \subseteq k
        BY <4>1
      <4>. QED
        BY <1>1, <1>2, <4>3, <4>4, <4>5, <4>6, <4>7, <4>8
    <3>2. CASE ~Waits(p, k)
      <4>1. posts'[p][k] = posts[p][k] /\ (k \cap lost' = {} => k \cap lost = {})
        BY <1>11, <1>13, <3>2
      <4>. QED
        BY <2>1, <4>1 DEF ReadsInv, BackInv
    <3>. QED
      BY <3>1, <3>2
  <2>. QED
    BY <1>1, <1>6, <2>1 DEF BackInv
<1>19. RateInv' /\ WaitInv' /\ ReadsAreRecent'
  <2>1. reads'.waiting = reads.waiting /\ reads'.given = {}
    BY <1>2, <1>6
  <2>2. RateInv'
    BY <1>6 DEF ReadsInv, RateInv
  <2>3. WaitInv'
    BY <1>1, <1>6, <2>1 DEF ReadsInv, WaitInv, WaitsWell
  <2>4. ReadsAreRecent'
    BY <2>1 DEF ReadsAreRecent
  <2>. QED
    BY <2>2, <2>3, <2>4
<1>. QED
  BY <1>14, <1>15, <1>16, <1>17, <1>18, <1>19 DEF ReadsInv

(* A snapshot not expired is handed on at once; a read that finds none     *)
(* waits for the request under way, or begins one.                         *)
LEMMA ReadYieldKeeps ==
  ASSUME ReadsInv, use' = use, readYield
  PROVE  ReadsInv'
<1>1. Lifetime' = Lifetime /\ DELAY \in Nat \ {0} /\ RATE_TTL \in Nat \ {0} /\ "rate" \notin Pages
  BY LifetimeConstant, ReadsAssumption
<1>2. /\ clock \in Nat /\ rate \in [pending : BOOLEAN, since : Nat, asOf : Nat, expires : Nat]
      /\ reads \in [begun : Nat, waiting : SUBSET Reads, given : SUBSET Reads]
  BY TypesNow
<1>3. PICK r : r = [from |-> "rate", want |-> {}, key |-> {}, hits |-> {}, at |-> clock]
  OBVIOUS
<1>4. PICK g : g = [r EXCEPT !.hits = {[asOf |-> rate.asOf, expires |-> rate.expires]}]
  OBVIOUS
<1>5. /\ UNCHANGED <<clock, kept, posts, upstream, lost>>
      /\ \/ rate.expires > clock /\ AnswerNow(g) /\ rate' = rate
         \/ /\ ~(rate.expires > clock) /\ WaitFor(r)
            /\ rate' = rate \/ rate' = [rate EXCEPT !.pending = TRUE, !.since = clock]
  BY <1>3, <1>4 DEF readYield
<1>6. r \in Reads /\ r.from = "rate" /\ r.hits = {} /\ r.at = clock
  BY <1>2, <1>3 DEF Reads
<1>7. /\ g \in Reads /\ g.from = "rate" /\ g.at = clock
      /\ \A v \in g.hits : v.asOf = rate.asOf /\ v.expires = rate.expires
  <2>1. [asOf |-> rate.asOf, expires |-> rate.expires] \in Snapshots
    BY <1>2 DEF Snapshots
  <2>. QED
    BY <1>3, <1>4, <1>6, <2>1 DEF Reads
<1>8. /\ reads' \in [begun : Nat, waiting : SUBSET Reads, given : SUBSET Reads]
      /\ reads'.waiting \subseteq reads.waiting \cup {r}
      /\ reads'.given \subseteq IF rate.expires > clock THEN {g} ELSE {}
  BY <1>2, <1>5, <1>6, <1>7, ReadsChange
<1>9. rate' \in [pending : BOOLEAN, since : Nat, asOf : Nat, expires : Nat]
      /\ rate'.expires = rate.expires /\ rate'.asOf = rate.asOf
      /\ (rate' = rate \/ rate'.since = clock)
  BY <1>2, <1>5
<1>10. ReadsTypeOK'
  BY <1>5, <1>8, <1>9 DEF ReadsInv, ReadsTypeOK
<1>11. KeptInv' /\ UpstreamInv' /\ AskedInv' /\ BackInv'
  BY <1>1, <1>5 DEF ReadsInv, KeptInv, UpstreamInv, AskedInv, BackInv
<1>12. RateInv'
  BY <1>1, <1>2, <1>5, <1>9 DEF ReadsInv, RateInv
<1>13. WaitInv'
  <2>1. WaitsWell(r)'
    BY <1>1, <1>2, <1>5, <1>6 DEF WaitsWell
  <2>2. ASSUME NEW q \in reads.waiting PROVE WaitsWell(q)'
    BY <1>1, <1>5 DEF ReadsInv, WaitInv, WaitsWell
  <2>. QED
    BY <1>8, <2>1, <2>2 DEF WaitInv
<1>14. ReadsAreRecent'
  <2>1. ASSUME rate.expires > clock, NEW v \in g.hits
        PROVE  v.expires > clock /\ clock < v.asOf + RATE_TTL + DELAY
    BY <1>1, <1>2, <1>7, <2>1 DEF ReadsInv, RateInv
  <2>. QED
    BY <1>7, <1>8, <2>1 DEF ReadsAreRecent
<1>. QED
  BY <1>10, <1>11, <1>12, <1>13, <1>14 DEF ReadsInv

(* A snapshot is kept, and handed on, only when it is not expired yet.     *)
LEMMA YieldArrivesKeeps ==
  ASSUME ReadsInv, use' = use, YieldArrives
  PROVE  ReadsInv'
<1>1. Lifetime' = Lifetime /\ DELAY \in Nat \ {0} /\ RATE_TTL \in Nat \ {0} /\ "rate" \notin Pages
  BY LifetimeConstant, ReadsAssumption
<1>2. /\ clock \in Nat /\ rate \in [pending : BOOLEAN, since : Nat, asOf : Nat, expires : Nat]
      /\ reads \in [begun : Nat, waiting : SUBSET Reads, given : SUBSET Reads]
  BY TypesNow
<1>3. PICK rs : rs = {r \in reads.waiting : r.from = "rate"}
  OBVIOUS
<1>d. PICK deadline \in {clock, clock + 1, clock + RATE_TTL} :
        LET expires == Smaller(deadline, clock + RATE_TTL)
        IN  /\ rate' = IF expires > clock
                       THEN [pending |-> FALSE, since |-> 0, asOf |-> rate.since, expires |-> expires]
                       ELSE [rate EXCEPT !.pending = FALSE, !.since = 0]
            /\ Give(rs, IF expires > clock THEN {[asOf |-> rate.since, expires |-> expires]} ELSE {})
  BY <1>3 DEF YieldArrives
<1>4. PICK expires :
        /\ expires = Smaller(deadline, clock + RATE_TTL)
        /\ rate' = IF expires > clock
                   THEN [pending |-> FALSE, since |-> 0, asOf |-> rate.since, expires |-> expires]
                   ELSE [rate EXCEPT !.pending = FALSE, !.since = 0]
        /\ Give(rs, IF expires > clock THEN {[asOf |-> rate.since, expires |-> expires]} ELSE {})
  BY <1>d
<1>5. PICK hits : hits = IF expires > clock THEN {[asOf |-> rate.since, expires |-> expires]} ELSE {}
  OBVIOUS
<1>6. /\ reads' = [reads EXCEPT !.waiting = @ \ rs,
                                !.given = {[r EXCEPT !.hits = @ \cup hits] : r \in rs}]
      /\ rate.pending /\ UNCHANGED <<clock, kept, posts, upstream, lost>>
  BY <1>4, <1>5 DEF Give, YieldArrives
<1>7. expires \in Nat /\ expires <= clock + RATE_TTL
  BY <1>1, <1>2, <1>d, <1>4 DEF Smaller
<1>8. rate.since <= clock /\ clock <= rate.since + DELAY
  BY <1>6 DEF ReadsInv, RateInv
<1>9. /\ hits \in SUBSET Snapshots
      /\ \A v \in hits : v.expires > clock /\ clock < v.asOf + RATE_TTL + DELAY /\ v.asOf \in Nat
  <2>1. ASSUME expires > clock
        PROVE  [asOf |-> rate.since, expires |-> expires] \in Snapshots
    BY <1>2, <1>7 DEF Snapshots
  <2>2. clock < rate.since + RATE_TTL + DELAY
    BY <1>1, <1>2, <1>8
  <2>. QED
    BY <1>2, <1>5, <2>1, <2>2
<1>10. ASSUME NEW r \in rs, NEW g, g = [r EXCEPT !.hits = @ \cup hits]
       PROVE  /\ g \in Reads /\ g.from = "rate" /\ g.at \in Nat /\ g.at <= clock /\ g.hits = hits
  <2>1. r \in Reads /\ r.from = "rate" /\ r.hits = {} /\ r.at <= clock
    BY <1>2, <1>3 DEF ReadsInv, WaitInv, WaitsWell
  <2>. QED
    BY <1>9, <1>10, <2>1 DEF Reads
<1>11. /\ reads'.waiting = reads.waiting \ rs
       /\ reads'.given = {[r EXCEPT !.hits = @ \cup hits] : r \in rs}
  BY <1>2, <1>6
<1>12. reads' \in [begun : Nat, waiting : SUBSET Reads, given : SUBSET Reads]
  <2>1. reads'.given \subseteq Reads
    BY <1>10, <1>11
  <2>. QED
    BY <1>2, <1>6, <1>11, <2>1
<1>13. /\ rate' \in [pending : BOOLEAN, since : Nat, asOf : Nat, expires : Nat]
       /\ rate'.pending = FALSE
       /\ \/ rate'.expires = rate.expires /\ rate'.asOf = rate.asOf
          \/ rate'.expires = expires /\ rate'.asOf = rate.since
  BY <1>2, <1>4, <1>7
<1>14. ReadsTypeOK'
  BY <1>6, <1>12, <1>13, TypesNow DEF ReadsTypeOK
<1>15. KeptInv' /\ UpstreamInv' /\ AskedInv' /\ BackInv'
  BY <1>1, <1>6 DEF ReadsInv, KeptInv, UpstreamInv, AskedInv, BackInv
<1>16. RateInv'
  <2>1. expires <= rate.since + RATE_TTL + DELAY
    BY <1>1, <1>2, <1>7, <1>8
  <2>. QED
    BY <1>13, <2>1 DEF ReadsInv, RateInv
<1>17. WaitInv'
  BY <1>1, <1>6, <1>11 DEF ReadsInv, WaitInv, WaitsWell
<1>18. ReadsAreRecent'
  <2>1. ASSUME NEW g \in reads'.given
        PROVE  /\ g.from = "rate"
               /\ \A v \in g.hits : v.expires > g.at /\ g.at < v.asOf + RATE_TTL + DELAY
    <3>1. PICK r \in rs : g = [r EXCEPT !.hits = @ \cup hits]
      BY <1>11
    <3>2. g.from = "rate" /\ g.at \in Nat /\ g.at <= clock /\ g.hits = hits
      BY <1>10, <3>1
    <3>. QED
      BY <1>1, <1>2, <1>9, <3>2 DEF Snapshots
  <2>. QED
    BY <2>1 DEF ReadsAreRecent
<1>. QED
  BY <1>14, <1>15, <1>16, <1>17, <1>18 DEF ReadsInv

(* Time passes only while no request is as old as a delay.                 *)
LEMMA SecondPassesKeeps ==
  ASSUME ReadsInv, use' = use, SecondPasses
  PROVE  ReadsInv'
<1>1. Lifetime' = Lifetime /\ DELAY \in Nat \ {0}
  BY LifetimeConstant, ReadsAssumption
<1>2. /\ clock \in Nat /\ clock' = clock + 1 /\ UNCHANGED <<kept, posts, upstream, rate, lost>>
      /\ reads \in [begun : Nat, waiting : SUBSET Reads, given : SUBSET Reads]
      /\ reads' = [reads EXCEPT !.given = {}]
  BY TypesNow DEF SecondPasses, NoneGiven
<1>3. reads'.waiting = reads.waiting /\ reads'.given = {}
      /\ reads' \in [begun : Nat, waiting : SUBSET Reads, given : SUBSET Reads]
  BY <1>2
<1>4. ReadsTypeOK'
  <2>1. clock' \in Nat /\ UNCHANGED <<kept, posts, upstream, rate, lost>>
    BY <1>2
  <2>. QED
    BY <1>3, <2>1 DEF ReadsInv, ReadsTypeOK
<1>5. KeptInv' /\ AskedInv'
  BY <1>1, <1>2 DEF ReadsInv, KeptInv, AskedInv
<1>6. UpstreamInv'
  <2>1. \A k \in Keys : upstream[k].since \in Nat /\ upstream[k].last \in Nat
    BY TypesNow
  <2>2. \A k \in Keys : upstream[k].st = "asked" => clock < upstream[k].since + DELAY
    BY DEF SecondPasses, InTime
  <2>. QED
    BY <1>1, <1>2, <2>1, <2>2 DEF ReadsInv, UpstreamInv
<1>7. BackInv'
  <2>1. \A p \in Pages, k \in Keys : posts[p][k].since \in Nat
    <3>1. \A p \in Pages, k \in Keys : posts[p][k] \in Posts
      BY TypesNow
    <3>. QED
      BY <3>1 DEF Posts
  <2>2. \A p \in Pages, k \in Keys :
          posts[p][k].st = "back" => clock < posts[p][k].since + DELAY
    BY DEF SecondPasses, InTime
  <2>3. ASSUME NEW p \in Pages, NEW k \in Keys, posts[p][k].st = "back"
        PROVE  posts[p][k].since <= clock + 1 /\ clock + 1 <= posts[p][k].since + DELAY
    <3>1. posts[p][k].since <= clock
      BY <2>3 DEF ReadsInv, BackInv
    <3>. QED
      BY <1>1, <1>2, <2>1, <2>2, <2>3, <3>1
  <2>. QED
    BY <1>1, <1>2, <2>3 DEF ReadsInv, BackInv
<1>8. RateInv'
  <2>1. rate.since \in Nat
    BY TypesNow
  <2>2. rate.pending => clock < rate.since + DELAY
    BY DEF SecondPasses, InTime
  <2>. QED
    BY <1>1, <1>2, <2>1, <2>2 DEF ReadsInv, RateInv
<1>9. WaitInv'
  <2>1. \A r \in reads.waiting : r.at \in Nat
    BY <1>2 DEF Reads
  <2>. QED
    BY <1>1, <1>2, <1>3, <2>1 DEF ReadsInv, WaitInv, WaitsWell
<1>10. ReadsAreRecent'
  BY <1>3 DEF ReadsAreRecent
<1>. QED
  BY <1>4, <1>5, <1>6, <1>7, <1>8, <1>9, <1>10 DEF ReadsInv

LEMMA ReadsStutter ==
  ASSUME ReadsInv, use' = use, UNCHANGED readVars
  PROVE  ReadsInv'
<1>1. UNCHANGED <<clock, kept, posts, upstream, rate, reads, lost>>
  BY DEF readVars
<1>2. Lifetime' = Lifetime
  BY LifetimeConstant
<1>. QED
  BY <1>1, <1>2 DEF ReadsInv, ReadsTypeOK, KeptInv, UpstreamInv, AskedInv, BackInv, WaitInv, WaitsWell,
                    RateInv, ReadsAreRecent

LEMMA ReadsStart ==
  ASSUME ReadsInit
  PROVE  ReadsInv
<1>1. Lifetime \in Nat \ {0} /\ DELAY \in Nat \ {0} /\ RATE_TTL \in Nat \ {0}
  BY LifetimeType, ReadsAssumption
<1>2. /\ clock = 0 /\ lost = {}
      /\ kept = [s \in Stores |-> [m \in Mints |-> Nothing]]
      /\ posts = [p \in Pages |-> [k \in Keys |-> NoPost]]
      /\ upstream = [k \in Keys |-> NoFetch]
      /\ rate = [pending |-> FALSE, since |-> 0, asOf |-> 0, expires |-> 0]
      /\ reads = [begun |-> 0, waiting |-> {}, given |-> {}]
  BY DEF ReadsInit
<1>3. ReadsTypeOK
  <2>1. Nothing \in Snapshots /\ NoPost \in Posts
    BY DEF Nothing, Snapshots, NoPost, Posts
  <2>2. kept \in [Stores -> [Mints -> Snapshots]] /\ posts \in [Pages -> [Keys -> Posts]]
    BY <1>2, <2>1
  <2>3. upstream \in [Keys -> [st : {"none", "asked"}, since : Nat, last : Nat]]
    BY <1>2 DEF NoFetch
  <2>. QED
    BY <1>2, <2>2, <2>3 DEF ReadsTypeOK
<1>4. KeptInv
  <2>1. \A s \in Stores, m \in Mints : kept[s][m].asOf = 0 /\ kept[s][m].expires = 0
    BY <1>2 DEF Nothing
  <2>. QED
    BY <1>1, <2>1, PagesAreStores DEF KeptInv
<1>5. UpstreamInv /\ AskedInv /\ BackInv
  <2>1. \A p \in Pages, k \in Keys : posts[p][k].st = "none" /\ upstream[k].st = "none"
    BY <1>2 DEF NoPost, NoFetch
  <2>2. \A k \in Keys : upstream[k].st = "none"
    BY <1>2 DEF NoFetch
  <2>. QED
    BY <2>1, <2>2 DEF UpstreamInv, AskedInv, BackInv
<1>6. WaitInv /\ RateInv /\ ReadsAreRecent
  BY <1>1, <1>2 DEF WaitInv, RateInv, ReadsAreRecent
<1>. QED
  BY <1>3, <1>4, <1>5, <1>6 DEF ReadsInv

LEMMA ReadsKeep ==
  ASSUME ReadsInv, [Next]_vars
  PROVE  ReadsInv'
<1>0. use' = use
  BY UseKept
<1>1. CASE UNCHANGED readVars
  BY <1>0, <1>1, ReadsStutter
<1>2. CASE ReadsNext
  <2>1. ASSUME NEW p \in Pages, NEW want \in Keys,
               fetchPrices(p, want) \/ fetchTokenMetadata(p, want)
        PROVE  ReadsInv'
    BY <1>0, <2>1, ReadThroughKeeps DEF fetchPrices, fetchTokenMetadata
  <2>2. ASSUME NEW p \in Pages, NEW k \in Keys, PageGets(p, k)
        PROVE  ReadsInv'
    BY <1>0, <2>2, PageGetsKeeps
  <2>3. ASSUME NEW p \in Pages, NEW k \in Keys, pricesRoute(p, k) \/ tokensRoute(p, k)
        PROVE  ReadsInv'
    BY <1>0, <2>3, RouteGetsKeeps DEF pricesRoute, tokensRoute
  <2>4. ASSUME NEW n \in Keys, RouteAnswers(n)
        PROVE  ReadsInv'
    BY <1>0, <2>4, RouteAnswersKeeps
  <2>5. CASE readYield
    BY <1>0, <2>5, ReadYieldKeeps
  <2>6. CASE YieldArrives
    BY <1>0, <2>6, YieldArrivesKeeps
  <2>7. CASE SecondPasses
    BY <1>0, <2>7, SecondPassesKeeps
  <2>. QED
    BY <1>2, <2>1, <2>2, <2>3, <2>4, <2>5, <2>6, <2>7 DEF ReadsNext, ReadSteps
<1>. QED
  BY <1>1, <1>2 DEF Next, vars

LEMMA ReadsKept == Spec => []ReadsInv
<1>1. Init => ReadsInv
  BY ReadsStart DEF Init
<1>. QED
  BY <1>1, ReadsKeep, PTL DEF Spec

(* Whatever the page, the route or the yield reader hands on was current   *)
(* no longer ago than two lifetimes and three delays before it was asked   *)
(* for, and no mint is missing unless an answer was lost or short: for     *)
(* every number of pages and mints, every lifetime and every delay         *)
(* (fetchPrices, fetchTokenMetadata, the routes, createKaminoYieldReader). *)
THEOREM ReadsAreAlwaysRecent == Spec => []ReadsAreRecent
<1>1. ReadsInv => ReadsAreRecent
  BY DEF ReadsInv
<1>. QED
  BY <1>1, ReadsKept, PTL

-----------------------------------------------------------------------------
(* The trades of PT. *)

(* What is offered: the minimum is at least the floor shown beside it.     *)
Quotes == {q \in [expected : Nat, min : Nat, floor : Nat, position : BOOLEAN, preview : BOOLEAN,
                  at : Nat, expires : Nat] : q.floor <= q.min}

(* A transaction enforces no less than was accepted, and a transfer all of *)
(* what was entered.                                                       *)
Enforces(t) ==
  /\ t.accepted <= t.min /\ t.floor <= t.min
  /\ t.action = "setup" => t.min = 0
  /\ t.action \in {"deposit_onyc", "withdraw_onyc"} => t.min = Size

Reviewed == {t \in [st : {"ready", "live"}, client : {"panel", "safe", "wallet"}, action : Actions,
                    asset : {"USDC", "ONYC"}, accepted : Nat, floor : Nat, min : Nat, expires : Nat,
                    alloc : Allocations, opens : BOOLEAN] : Enforces(t)}

Live == {t \in Reviewed : t.st = "live"}
Ready == {t \in Reviewed : t.st = "ready"}

Forms == [action : Actions, asset : {"USDC", "ONYC"}, quote : Quotes \cup {NoQuote},
          prepared : Ready \cup {NoTrade}, sent : 0 .. MaxTrades,
          busy : {"no", "quote", "prepare", "wallet", "poll"}]

Landed == {[st |-> "done"], [st |-> "failed"]}

MarketInv ==
  /\ market \in [rate : Rates, now : 0 .. LastTime] /\ book \in Book
  /\ use \in Uses

TradesInv == trade \in [Trades -> Live \cup Landed \cup {NoTrade}]

(* What is signed was prepared, what a trade is prepared from was quoted.  *)
Follows(f) ==
  /\ f.busy = "wallet" => f.prepared # NoTrade
  /\ f.busy = "prepare" /\ IsTrade(f.action) => f.quote # NoQuote

FormInv == form \in Forms /\ Follows(form)

TradeInv == MarketInv /\ TradesInv /\ FormInv

-----------------------------------------------------------------------------
LEMMA Quotient ==
  ASSUME NEW a \in Nat, NEW b \in Nat \ {0}
  PROVE  a \div b \in Nat
OBVIOUS

LEMMA PartOf ==
  ASSUME NEW a \in Nat, NEW s \in Nat, NEW p \in Nat \ {0}, s <= p
  PROVE  (a * s) \div p \in 0 .. a
<1>1. PICK m \in Nat : m = a * s
  OBVIOUS
<1>2. m <= a * p
  BY <1>1
<1>3. m \div p \in Nat
  BY Quotient
<1>4. m \div p <= a
  BY <1>2
<1>. QED
  BY <1>1, <1>3, <1>4

LEMMA MinimumType ==
  ASSUME NEW amount \in Nat, NEW bps \in Nat, bps <= 10000
  PROVE  minimum(amount, bps) \in Nat
<1>1. PICK c \in Nat : c = 10000 - bps
  OBVIOUS
<1>2. PICK m \in Nat : m = amount * c
  OBVIOUS
<1>3. m + 9999 \in Nat /\ (m + 9999) \div 10000 \in Nat
  OBVIOUS
<1>. QED
  BY <1>1, <1>2, <1>3 DEF minimum

LEMMA ExpectedType ==
  ASSUME MarketInv, NEW action
  PROVE  Expected(action) \in Nat
<1>1. PICK r \in Nat \ {0} : r = market.rate
  BY PanelAssumption DEF MarketInv
<1>2. PICK one \in Nat \ {0}, size \in Nat \ {0} : one = ONE /\ size = Size
  BY PanelAssumption
<1>3. PICK a \in Nat, b \in Nat : a = size * one /\ b = size * r
  OBVIOUS
<1>4. a \div r \in Nat /\ b \div one \in Nat
  BY Quotient
<1>. QED
  BY <1>1, <1>2, <1>3, <1>4 DEF Expected

LEMMA ExitBasisType ==
  ASSUME MarketInv, book.pt >= Size
  PROVE  exitBasis \in 0 .. book.basis
<1>1. PICK pt \in Nat, basis \in Nat : pt = book.pt /\ basis = book.basis
  BY DEF MarketInv, Book
<1>2. PICK size \in Nat \ {0} : size = Size
  BY PanelAssumption
<1>3. pt \in Nat \ {0} /\ (basis * size) \div pt \in 0 .. basis
  BY <1>1, <1>2, PartOf
<1>. QED
  BY <1>1, <1>2, <1>3 DEF exitBasis

LEMMA QuoteType ==
  ASSUME MarketInv, NEW action, NEW asset, Quotable(action)
  PROVE  Quote(action, asset) \in Quotes
<1>. DEFINE expected == Expected(action)
            half == SLIPPAGE_BPS \div 2
            legs == minimum(minimum(expected, half), half)
            slipped == Max({legs, minimum(expected, SLIPPAGE_BPS)})
            floored == action # "buy" /\ asset = "USDC" /\ book.position
            lossFloor == IF floored THEN minimum(exitBasis, MAX_LOSS_BPS) ELSE 0
            economic == expected >= lossFloor
            most == Max({slipped, lossFloor})
            preview == action = "redeem" /\ ~Matured
<1>1. Quote(action, asset) =
        [expected |-> expected, min |-> IF economic THEN most ELSE slipped,
         floor |-> IF economic THEN lossFloor ELSE 0,
         position |-> book.position, preview |-> preview,
         at |-> market.now, expires |-> market.now + VALIDITY]
  BY DEF Quote
<1>2. /\ SLIPPAGE_BPS \in Nat /\ SLIPPAGE_BPS <= 10000 /\ half \in Nat /\ half <= 10000
      /\ MAX_LOSS_BPS \in Nat /\ MAX_LOSS_BPS <= 10000
  BY PanelAssumption
<1>3. expected \in Nat
  BY ExpectedType
<1>4. book.position \in BOOLEAN /\ (book.position /\ action # "buy" => book.pt >= Size)
  BY DEF MarketInv, Book, Quotable
<1>5. lossFloor \in Nat
  <2>1. CASE floored
    <3>1. exitBasis \in Nat
      BY <1>4, <2>1, ExitBasisType DEF MarketInv, Book
    <3>. QED
      BY <1>2, <2>1, <3>1, MinimumType
  <2>. QED
    BY <2>1
<1>. HIDE DEF half, expected, lossFloor
<1>6. minimum(expected, half) \in Nat /\ minimum(expected, SLIPPAGE_BPS) \in Nat
  BY <1>2, <1>3, MinimumType
<1>7. legs \in Nat
  BY <1>2, <1>6, MinimumType
<1>. HIDE DEF legs
<1>8. slipped \in Nat
  BY <1>6, <1>7, LargerOf
<1>. HIDE DEF slipped
<1>9. most \in Nat /\ lossFloor <= most
  BY <1>5, <1>8, LargerOf
<1>10. market.now \in Nat /\ market.now + VALIDITY \in Nat
  BY PanelAssumption DEF MarketInv
<1>. HIDE DEF most, preview
<1>11. preview \in BOOLEAN
  BY DEF preview
<1>. QED
  BY <1>1, <1>3, <1>4, <1>5, <1>8, <1>9, <1>10, <1>11 DEF Quotes

LEMMA TransactionFits ==
  ASSUME MarketInv, NEW client \in {"panel", "safe", "wallet"}, NEW action \in {"buy", "sell", "redeem"},
         NEW asset \in {"USDC", "ONYC"}, NEW accepted \in Quotes, NEW fresh \in Quotes,
         NEW t, t = Transaction(client, action, asset, accepted, fresh)
  PROVE  t \in Ready
<1>1. PICK a \in Nat, f \in Nat, m \in Nat, e \in Nat :
        a = accepted.min /\ f = accepted.floor /\ m = fresh.min /\ e = fresh.expires /\ f <= a
  BY DEF Quotes
<1>2. PICK min \in Nat : min = MinimumOut(a, fresh) /\ min >= a
  BY <1>1, LargerOf DEF MinimumOut
<1>3. PICK alloc \in Allocations, opens \in BOOLEAN :
        alloc = book.alloc /\ opens = (action = "buy" /\ book.alloc.onyc = 0)
  BY DEF MarketInv, Book
<1>4. t = [st |-> "ready", client |-> client, action |-> action, asset |-> asset,
           accepted |-> a, floor |-> f, min |-> min, expires |-> e, alloc |-> alloc, opens |-> opens]
  BY <1>1, <1>2, <1>3, Zenon DEF Transaction
<1>. QED
  BY <1>1, <1>2, <1>4 DEF Ready, Reviewed, Enforces, Actions

LEMMA PlainFits ==
  ASSUME MarketInv, NEW action \in Actions, ~IsTrade(action), NEW t, t = Plain(action)
  PROVE  t \in Ready
<1>1. PICK size \in Nat : size = Size
  BY PanelAssumption
<1>2. PICK moved \in Nat : moved = IF action = "setup" THEN 0 ELSE size
  OBVIOUS
<1>3. PICK alloc \in Allocations, opens \in BOOLEAN :
        alloc = book.alloc /\ opens = (action = "setup" /\ ~book.position)
  BY DEF MarketInv, Book
<1>4. PICK e \in Nat : e = LastTime + 1
  BY PanelAssumption
<1>5. t = [st |-> "ready", client |-> "panel", action |-> action, asset |-> "ONYC",
           accepted |-> moved, floor |-> 0, min |-> moved, expires |-> e,
           alloc |-> alloc, opens |-> opens]
  BY <1>1, <1>2, <1>3, <1>4, Zenon DEF Plain
<1>. QED
  BY <1>1, <1>2, <1>5 DEF Ready, Reviewed, Enforces, Actions, IsTrade

LEMMA SignedFits ==
  ASSUME NEW t \in Reviewed
  PROVE  [t EXCEPT !.st = "live"] \in Live
BY DEF Live, Reviewed, Enforces

-----------------------------------------------------------------------------
(* What a transaction does when it executes. *)

Amounts == {"pt", "basis", "usdc", "onyc", "wallet", "own"}

LEMMA Balances ==
  ASSUME NEW t \in Live, t.action # "setup"
  PROVE  /\ Spent(t) \in Amounts \ {"basis"} /\ Received(t) \in Amounts \ {"basis"}
         /\ Spent(t) # Received(t)
         /\ t.action = "buy" => Received(t) = "pt"
         /\ t.action \in {"sell", "redeem"} => Spent(t) = "pt"
BY DEF Live, Reviewed, Actions, Spent, Received, Amounts

LEMMA PaysType ==
  ASSUME MarketInv, NEW t
  PROVE  Pays(t) \in Nat
BY ExpectedType, PanelAssumption DEF Pays

(* A balance changed by an amount leaves the book a book, and no other     *)
(* field changes.                                                          *)
LEMMA BookWith ==
  ASSUME NEW b \in Book, NEW f \in Amounts, NEW n \in Nat
  PROVE  /\ [b EXCEPT ![f] = n] \in Book
         /\ [b EXCEPT ![f] = n][f] = n
         /\ \A g \in DOMAIN b \ {f} : [b EXCEPT ![f] = n][g] = b[g]
         /\ DOMAIN [b EXCEPT ![f] = n] = DOMAIN b
BY DEF Book, Amounts

LEMMA BookFields ==
  ASSUME NEW b \in Book
  PROVE  /\ DOMAIN b = Amounts \cup {"position", "alloc"}
         /\ \A f \in Amounts : b[f] \in Nat
         /\ b["basis"] = b.basis /\ b["pt"] = b.pt /\ b["alloc"] = b.alloc
BY DEF Book, Amounts

LEMMA MovedBook ==
  ASSUME MarketInv, NEW t \in Live, t.action # "setup", book[Spent(t)] >= Size,
         NEW moved, moved = [book EXCEPT ![Spent(t)] = @ - Size, ![Received(t)] = @ + Pays(t)]
  PROVE  /\ moved \in Book /\ moved[Received(t)] = book[Received(t)] + Pays(t)
         /\ moved.basis = book.basis /\ moved.alloc = book.alloc
<1>. DEFINE s == Spent(t)
            r == Received(t)
            spent == book[s] - Size
            less == [book EXCEPT ![s] = spent]
            received == less[r] + Pays(t)
<1>1. s \in Amounts \ {"basis"} /\ r \in Amounts \ {"basis"} /\ s # r
  BY Balances
<1>2. book \in Book /\ Size \in Nat /\ Pays(t) \in Nat
  BY PaysType, PanelAssumption DEF MarketInv
<1>3. moved = [less EXCEPT ![r] = received]
  BY <1>1, <1>2, BookFields, Zenon
<1>. HIDE DEF s, r
<1>4. book[s] \in Nat /\ book[r] \in Nat /\ book[s] >= Size
  BY <1>1, <1>2, BookFields DEF s
<1>5. spent \in Nat
  BY <1>2, <1>4
<1>. HIDE DEF spent
<1>6. /\ less \in Book /\ DOMAIN less = DOMAIN book
      /\ \A g \in DOMAIN book \ {s} : less[g] = book[g]
  BY <1>1, <1>2, <1>5, BookWith
<1>. HIDE DEF less
<1>7. r \in DOMAIN book /\ "basis" \in DOMAIN book /\ "alloc" \in DOMAIN book
  BY <1>1, <1>2, BookFields DEF Amounts
<1>8. less[r] = book[r] /\ received \in Nat
  BY <1>1, <1>2, <1>4, <1>6, <1>7
<1>. HIDE DEF received
<1>9. /\ moved \in Book /\ moved[r] = received
      /\ \A g \in DOMAIN less \ {r} : moved[g] = less[g]
  <2>1. less \in Book /\ r \in Amounts /\ received \in Nat
    BY <1>1, <1>6, <1>8
  <2>2. PICK b \in Book, n \in Nat : b = less /\ n = received
    BY <2>1
  <2>3. /\ [b EXCEPT ![r] = n] \in Book /\ [b EXCEPT ![r] = n][r] = n
        /\ \A g \in DOMAIN b \ {r} : [b EXCEPT ![r] = n][g] = b[g]
    BY <2>1, BookWith
  <2>4. moved = [b EXCEPT ![r] = n]
    BY <1>3, <2>2, Zenon
  <2>. QED
    BY <2>2, <2>3, <2>4, Zenon
<1>10. moved["basis"] = book["basis"] /\ moved["alloc"] = book["alloc"]
  BY <1>1, <1>6, <1>7, <1>9 DEF Amounts
<1>11. received = book[r] + Pays(t)
  BY <1>8 DEF received
<1>12. moved.basis = book.basis /\ moved.alloc = book.alloc
  BY <1>2, <1>9, <1>10, BookFields
<1>. QED
  BY <1>9, <1>11, <1>12 DEF r

LEMMA Settled ==
  ASSUME MarketInv, NEW t \in Live, Executes(t), NEW new, new = Settle(t)
  PROVE  /\ new \in Book
         /\ t.action # "setup" => new[Received(t)] = book[Received(t)] + Pays(t)
         /\ t.alloc = book.alloc => new.alloc = book.alloc
<1>1. book \in Book /\ t.alloc \in Allocations /\ Size \in Nat /\ t.opens \in BOOLEAN
      /\ t.action \in Actions
  BY PanelAssumption DEF MarketInv, Live, Reviewed
<1>2. CASE t.action = "setup"
  BY <1>1, <1>2 DEF Settle, Book
<1>3. CASE t.action # "setup"
  <2>1. PICK moved : moved = [book EXCEPT ![Spent(t)] = @ - Size, ![Received(t)] = @ + Pays(t)]
    OBVIOUS
  <2>2. book[Spent(t)] >= Size
    BY <1>3 DEF Executes
  <2>3. /\ moved \in Book /\ moved[Received(t)] = book[Received(t)] + Pays(t)
        /\ moved.basis = book.basis /\ moved.alloc = book.alloc
    BY <1>3, <2>1, <2>2, MovedBook
  <2>4. /\ Received(t) \in Amounts \ {"basis"}
        /\ t.action \in {"sell", "redeem"} => Spent(t) = "pt"
    BY <1>3, Balances
  <2>5. book.basis \in Nat /\ book["pt"] = book.pt
    BY <1>1, BookFields DEF Amounts
  <2>6. CASE t.action = "buy"
    <3>1. new = [moved EXCEPT !.basis = @ + Size, !.alloc = IF t.opens THEN t.alloc ELSE @]
      BY <2>1, <2>6 DEF Settle
    <3>2. new[Received(t)] = moved[Received(t)]
      BY <2>3, <2>4, <3>1 DEF Book, Amounts
    <3>3. PICK a \in Allocations : /\ a = t.alloc \/ a = moved.alloc
                                   /\ a = IF t.opens THEN t.alloc ELSE moved.alloc
      BY <1>1, <2>3 DEF Book
    <3>4. new = [moved EXCEPT !.basis = moved.basis + Size, !.alloc = a]
      BY <3>1, <3>3
    <3>5. moved.basis + Size \in Nat
      BY <1>1, <2>3, <2>5
    <3>6. new \in Book /\ new.alloc = a
      BY <2>3, <3>4, <3>5 DEF Book
    <3>. QED
      BY <2>3, <3>2, <3>3, <3>6
  <2>7. CASE t.action \in {"sell", "redeem"}
    <3>1. new = [moved EXCEPT !.basis = @ - exitBasis]
      BY <2>1, <2>7 DEF Settle
    <3>2. exitBasis \in 0 .. book.basis
      BY <2>2, <2>4, <2>5, <2>7, ExitBasisType
    <3>3. new[Received(t)] = moved[Received(t)]
      BY <2>3, <2>4, <3>1 DEF Book, Amounts
    <3>4. new \in Book /\ new.alloc = moved.alloc
      BY <2>3, <2>5, <3>1, <3>2 DEF Book
    <3>. QED
      BY <2>3, <3>3, <3>4
  <2>8. CASE t.action \notin {"buy", "sell", "redeem", "setup"}
    BY <2>1, <2>3, <2>8 DEF Settle
  <2>. QED
    BY <1>3, <2>6, <2>7, <2>8
<1>. QED
  BY <1>2, <1>3

(* What a step of the panel, the chain or the market may do to the trades. *)
LEMMA LandsKeeps ==
  ASSUME TradeInv, NEW i \in Trades, Lands(i), use' = use
  PROVE  TradeInv'
<1>1. trade[i] \in Live
  BY DEF Lands, TradeInv, TradesInv, Landed, NoTrade
<1>2. UNCHANGED <<market, form>>
  BY DEF Lands
<1>3. book' \in Book
  BY <1>1, Settled DEF Lands, TradeInv, MarketInv
<1>4. trade' \in [Trades -> Live \cup Landed \cup {NoTrade}]
  BY DEF Lands, TradeInv, TradesInv, Landed
<1>. QED
  BY <1>2, <1>3, <1>4 DEF TradeInv, MarketInv, TradesInv, FormInv

LEMMA MarketKeeps ==
  ASSUME TradeInv, RateMoves \/ ClockTicks \/ SaveAllocation, use' = use
  PROVE  TradeInv'
<1>1. UNCHANGED <<trade, form>>
  BY DEF RateMoves, ClockTicks, SaveAllocation
<1>2. market' \in [rate : Rates, now : 0 .. LastTime]
  BY PanelAssumption DEF RateMoves, ClockTicks, SaveAllocation, TradeInv, MarketInv
<1>3. book' \in Book
  BY DEF RateMoves, ClockTicks, SaveAllocation, TradeInv, MarketInv, Book
<1>. QED
  BY <1>1, <1>2, <1>3 DEF TradeInv, MarketInv, TradesInv, FormInv, Follows

LEMMA NoFormFits == NoForm \in Forms /\ NoForm.busy = "no"
BY PanelAssumption DEF NoForm, Forms, Actions

LEMMA ClicksKeep ==
  ASSUME TradeInv, ExClicks, use' = use
  PROVE  TradeInv'
<1>1. UNCHANGED <<market, book, trade>>
  BY DEF ExClicks, Choose, GetQuote, PrepareTrade, SignTrade, Stay
<1>2. form' \in Forms /\ Follows(form')
  <2>1. form \in Forms
    BY DEF TradeInv, FormInv
  <2>2. CASE Choose
    <3>1. form' \in Forms /\ form'.busy = "no"
      BY <2>2, NoFormFits DEF Choose, Forms, Assets
    <3>. QED
      BY <3>1 DEF Follows
  <2>3. CASE GetQuote \/ PrepareTrade
    <3>1. 0 \in 0 .. MaxTrades
      BY PanelAssumption
    <3>2. PICK busy \in {"quote", "prepare"} :
            /\ form' = [form EXCEPT !.prepared = NoTrade, !.sent = 0, !.busy = busy]
            /\ busy = "prepare" /\ IsTrade(form.action) => form.quote # NoQuote
      BY <2>3 DEF GetQuote, PrepareTrade
    <3>3. /\ form' \in Forms /\ form'.busy = busy /\ form'.action = form.action
          /\ form'.quote = form.quote
      BY <2>1, <3>1, <3>2 DEF Forms
    <3>. QED
      BY <3>2, <3>3 DEF Follows
  <2>4. CASE SignTrade
    <3>1. /\ form' \in Forms /\ form'.busy = "wallet" /\ form'.prepared # NoTrade
      BY <2>1, <2>4 DEF SignTrade, Forms
    <3>. QED
      BY <3>1 DEF Follows
  <2>. QED
    BY <2>2, <2>3, <2>4 DEF ExClicks
<1>. QED
  BY <1>1, <1>2 DEF TradeInv, MarketInv, TradesInv, FormInv

LEMMA QuoteArrivesKeeps ==
  ASSUME TradeInv, QuoteArrives, use' = use
  PROVE  TradeInv'
<1>1. UNCHANGED <<market, book, trade>> /\ form \in Forms
  BY DEF QuoteArrives, Stay, TradeInv, FormInv
<1>2. PICK q \in Quotes \cup {NoQuote} : form' = [form EXCEPT !.busy = "no", !.quote = q]
  <2>1. Quotable(form.action) => Quote(form.action, form.asset) \in Quotes
    BY QuoteType DEF TradeInv
  <2>. QED
    BY <2>1 DEF QuoteArrives
<1>3. form' \in Forms /\ form'.busy = "no"
  BY <1>1, <1>2 DEF Forms
<1>. QED
  BY <1>1, <1>3 DEF TradeInv, MarketInv, TradesInv, FormInv, Follows

LEMMA PrepareArrivesKeeps ==
  ASSUME TradeInv, PrepareArrives, use' = use
  PROVE  TradeInv'
<1>1. UNCHANGED <<market, book, trade>> /\ form \in Forms
  BY DEF PrepareArrives, Stay, TradeInv, FormInv
<1>2. form.action \in Actions /\ form.asset \in {"USDC", "ONYC"} /\ form.quote \in Quotes \cup {NoQuote}
  BY <1>1 DEF Forms
<1>3. \A t \in unsignedPlain : ~IsTrade(form.action) => t \in Ready
  BY <1>2, PlainFits DEF unsignedPlain, TradeInv
<1>4. ASSUME NEW t \in unsignedTransaction(form.quote), IsTrade(form.action), form.quote \in Quotes
      PROVE  t \in Ready
  <2>1. PICK fresh \in Quotes :
          Quotable(form.action) /\ fresh = Quote(form.action, form.asset)
    BY <1>4, QuoteType DEF unsignedTransaction, TradeInv
  <2>2. t = Transaction("panel", form.action, form.asset, form.quote, fresh)
    BY <1>4, <2>1 DEF unsignedTransaction
  <2>3. form.action \in {"buy", "sell", "redeem"}
    BY <1>4 DEF IsTrade
  <2>. QED
    BY <1>2, <1>4, <2>2, <2>3, TransactionFits DEF TradeInv
<1>5. form' \in Forms /\ form'.busy = "no"
  <2>1. CASE form' = [form EXCEPT !.busy = "no"]
    BY <1>1, <2>1 DEF Forms
  <2>2. CASE \E t \in Ready : form' = [form EXCEPT !.busy = "no", !.prepared = t]
    BY <1>1, <2>2 DEF Forms
  <2>3. ASSUME NEW t \in IF IsTrade(form.action) THEN unsignedTransaction(form.quote)
                           ELSE unsignedPlain
        PROVE  t \in Ready
    <3>1. CASE IsTrade(form.action) /\ form.quote # NoQuote
      BY <1>2, <1>4, <2>3, <3>1
    <3>2. CASE ~IsTrade(form.action)
      BY <1>3, <2>3, <3>2
    <3>3. CASE IsTrade(form.action) /\ form.quote = NoQuote
      BY <3>3 DEF PrepareArrives, TradeInv, FormInv, Follows
    <3>. QED
      BY <3>1, <3>2, <3>3
  <2>. QED
    BY <2>1, <2>2, <2>3 DEF PrepareArrives
<1>. QED
  BY <1>1, <1>5 DEF TradeInv, MarketInv, TradesInv, FormInv, Follows

LEMMA LeastMember ==
  ASSUME NEW N \in Nat, NEW S, S \subseteq 0 .. N, S # {}
  PROVE  \E m \in S : \A x \in S : m <= x
<1>1. SUFFICES ASSUME \A m \in S : \E x \in S : ~(m <= x) PROVE FALSE
  OBVIOUS
<1>. DEFINE P == {n \in 0 .. N : \A x \in S : x > n}
<1>2. 0 \in P
  BY <1>1
<1>3. ASSUME NEW n \in 1 .. N, n - 1 \in P PROVE n \in P
  BY <1>1, <1>3
<1>. HIDE DEF P
<1>4. 0 .. N \subseteq P
  BY <1>2, <1>3, UpTo
<1>5. PICK x \in S : x \in 0 .. N
  OBVIOUS
<1>6. \A y \in S : y > x
  BY <1>4, <1>5 DEF P
<1>. QED
  BY <1>5, <1>6

LEMMA FirstFree ==
  ASSUME TradeInv, CanTrade
  PROVE  NextTrade \in Trades /\ trade[NextTrade] = NoTrade
<1>. DEFINE Free == {i \in Trades : trade[i] = NoTrade}
<1>1. use.trades \in 0 .. MaxTrades /\ MaxTrades \in Nat
  BY StartAssumption, PanelAssumption DEF TradeInv, MarketInv
<1>2. Free # {} /\ Free \subseteq 0 .. MaxTrades
  BY <1>1 DEF CanTrade, Trades
<1>3. \E m \in Free : \A x \in Free : m <= x
  BY <1>1, <1>2, LeastMember
<1>4. NextTrade \in Free
  BY <1>3 DEF NextTrade, Min
<1>. QED
  BY <1>4

LEMMA SentKeeps ==
  ASSUME TradeInv, CanTrade, NEW t \in Live, trade' = [trade EXCEPT ![NextTrade] = t]
  PROVE  TradesInv'
BY DEF TradeInv, TradesInv

LEMMA WalletSignsKeeps ==
  ASSUME TradeInv, WalletSigns, use' = use
  PROVE  TradeInv'
<1>1. /\ UNCHANGED <<market, book>> /\ form \in Forms
      /\ form.prepared \in Ready
  BY DEF WalletSigns, TradeInv, FormInv, Follows, Forms
<1>2. CASE /\ form.sent = 0 /\ CanTrade
           /\ trade' = [trade EXCEPT ![NextTrade] = [form.prepared EXCEPT !.st = "live"]]
           /\ form' = [form EXCEPT !.busy = "poll", !.sent = NextTrade]
  <2>1. [form.prepared EXCEPT !.st = "live"] \in Live
    BY <1>1, SignedFits DEF Ready
  <2>2. TradesInv'
    BY <1>2, <2>1, SentKeeps
  <2>3. NextTrade \in 0 .. MaxTrades
    BY <1>2, FirstFree, PanelAssumption DEF Trades
  <2>4. form' \in Forms /\ form'.busy = "poll"
    BY <1>1, <1>2, <2>3 DEF Forms
  <2>. QED
    BY <1>1, <2>2, <2>4 DEF TradeInv, MarketInv, FormInv, Follows
<1>3. CASE UNCHANGED trade /\ (form' = [form EXCEPT !.busy = "poll"] \/ form' = [form EXCEPT !.busy = "no"])
  <2>1. form' \in Forms /\ form'.busy \notin {"wallet", "prepare"}
    BY <1>1, <1>3 DEF Forms
  <2>. QED
    BY <1>1, <1>3, <2>1 DEF TradeInv, MarketInv, TradesInv, FormInv, Follows
<1>. QED
  BY <1>2, <1>3 DEF WalletSigns

LEMMA PollEndsKeeps ==
  ASSUME TradeInv, PollEnds, use' = use
  PROVE  TradeInv'
<1>1. UNCHANGED <<market, book, trade>> /\ form \in Forms /\ 0 \in 0 .. MaxTrades
  BY PanelAssumption DEF PollEnds, Stay, TradeInv, FormInv
<1>2. form' \in Forms /\ form'.busy = "no"
  <2>1. CASE form' = [form EXCEPT !.busy = "no"]
    BY <1>1, <2>1 DEF Forms
  <2>2. CASE form' = [form EXCEPT !.busy = "no", !.quote = NoQuote, !.prepared = NoTrade, !.sent = 0]
    BY <1>1, <2>2 DEF Forms
  <2>. QED
    BY <2>1, <2>2 DEF PollEnds
<1>. QED
  BY <1>1, <1>2 DEF TradeInv, MarketInv, TradesInv, FormInv, Follows

LEMMA PlanKeeps ==
  ASSUME TradeInv, NEW t \in Ready, Plan(t), use' = use
  PROVE  TradeInv'
<1>1. [t EXCEPT !.st = "live"] \in Live
  BY SignedFits DEF Ready
<1>2. TradesInv' /\ UNCHANGED <<market, book, form>>
  BY <1>1, SentKeeps DEF Plan
<1>. QED
  BY <1>2 DEF TradeInv, MarketInv, FormInv, Follows

LEMMA MobileKeeps ==
  ASSUME TradeInv, MobileSetup \/ MobileTrade, use' = use
  PROVE  TradeInv'
<1>1. CASE MobileSetup
  <2>1. Plain("setup") \in Ready
    <3>1. PICK t : t = Plain("setup")
      OBVIOUS
    <3>. QED
      BY <3>1, PlainFits DEF TradeInv, Actions, IsTrade
  <2>. QED
    BY <1>1, <2>1, PlanKeeps DEF MobileSetup
<1>2. CASE MobileTrade
  <2>1. PICK client \in {"safe", "wallet"}, action \in {"buy", IF Matured THEN "redeem" ELSE "sell"} :
          /\ Quotable(action)
          /\ Plan(Transaction(client, action, "USDC", Quote(action, "USDC"), Quote(action, "USDC")))
    BY <1>2 DEF MobileTrade
  <2>2. PICK q \in Quotes : q = Quote(action, "USDC")
    BY <2>1, QuoteType DEF TradeInv
  <2>3. PICK t : t = Transaction(client, action, "USDC", q, q)
    OBVIOUS
  <2>4. t \in Ready
    BY <2>3, TransactionFits DEF TradeInv
  <2>5. Plan(t)
    BY <2>1, <2>2, <2>3
  <2>. QED
    BY <2>4, <2>5, PlanKeeps
<1>. QED
  BY <1>1, <1>2

-----------------------------------------------------------------------------
LEMMA ExStepKeeps ==
  ASSUME TradeInv, ExNext, use' = use
  PROVE  TradeInv'
BY ClicksKeep, QuoteArrivesKeeps, PrepareArrivesKeeps, WalletSignsKeeps, PollEndsKeeps, MobileKeeps,
   MarketKeeps, LandsKeeps DEF ExNext, ExSteps

LEMMA ExStutterKeeps ==
  ASSUME TradeInv, UNCHANGED exVars, use' = use
  PROVE  TradeInv'
BY DEF TradeInv, MarketInv, TradesInv, FormInv, exVars

LEMMA ExInitHolds ==
  ASSUME Init
  PROVE  TradeInv
<1>1. use \in Uses /\ market = [rate |-> Max(Rates), now |-> 0] /\ book = Start("setup" \in use.parts)
      /\ trade = [i \in Trades |-> NoTrade] /\ form = NoForm
  BY DEF Init, JobsInit, ExInit
<1>2. Max(Rates) \in Rates
  <2>1. \E most \in Rates : \A r \in Rates : most >= r
    BY PanelAssumption
  <2>. QED
    BY <2>1 DEF Max
<1>3. book \in Book
  <2>1. CASE "setup" \in use.parts
    <3>1. ("setup" \in use.parts) = TRUE
      BY <2>1
    <3>. QED
      BY <1>1, <3>1, StartAssumption, Zenon
  <2>2. CASE "setup" \notin use.parts
    <3>1. ("setup" \in use.parts) = FALSE
      BY <2>2
    <3>. QED
      BY <1>1, <3>1, StartAssumption, Zenon
  <2>. QED
    BY <2>1, <2>2
<1>4. 0 \in 0 .. LastTime
  BY PanelAssumption
<1>. QED
  BY <1>1, <1>2, <1>3, <1>4, NoFormFits DEF TradeInv, MarketInv, TradesInv, FormInv, Follows

LEMMA TradeStepKeeps ==
  ASSUME TradeInv, [Next]_vars
  PROVE  TradeInv'
<1>1. UNCHANGED exVars \/ ExNext
  BY DEF Next, vars
<1>. QED
  BY <1>1, UseKept, ExStepKeeps, ExStutterKeeps

TradeKept ==
  \A i \in Trades :
    trade[i].st = "live" /\ trade'[i].st = "done" =>
      LET t == trade[i]
          paid == IF t.action = "setup" THEN 0 ELSE book'[Received(t)] - book[Received(t)]
      IN  /\ paid >= t.accepted /\ paid >= t.floor
          /\ t.alloc = book.alloc => book'.alloc = book.alloc

(* Only Lands turns a live transaction into a done one, and only its own.  *)
LEMMA OnlyLandsEnds ==
  ASSUME TradeInv, [Next]_vars, NEW i \in Trades, trade[i].st = "live", trade'[i].st = "done"
  PROVE  Executes(trade[i]) /\ book' = Settle(trade[i])
<1>1. CASE UNCHANGED trade
  BY <1>1
<1>2. CASE \E j \in Trades : Lands(j)
  <2>1. PICK j \in Trades : Lands(j)
    BY <1>2
  <2>2. j = i
    BY <2>1 DEF Lands, TradeInv, TradesInv
  <2>. QED
    BY <2>1, <2>2 DEF Lands, TradeInv, TradesInv
<1>3. CASE \E t : trade' = [trade EXCEPT ![NextTrade] = [t EXCEPT !.st = "live"]]
  BY <1>3 DEF TradeInv, TradesInv
<1>4. \/ UNCHANGED trade \/ \E j \in Trades : Lands(j)
      \/ \E t : trade' = [trade EXCEPT ![NextTrade] = [t EXCEPT !.st = "live"]]
  <2>1. CASE ExNext
    <3>1. CASE WalletSigns
      BY <3>1 DEF WalletSigns
    <3>2. CASE MobileSetup \/ MobileTrade
      BY <3>2 DEF MobileSetup, MobileTrade, Plan
    <3>3. CASE ExClicks \/ QuoteArrives \/ PrepareArrives \/ PollEnds \/ SaveAllocation
               \/ RateMoves \/ ClockTicks
      BY <3>3 DEF ExClicks, Choose, GetQuote, PrepareTrade, SignTrade, QuoteArrives, PrepareArrives,
                  PollEnds, SaveAllocation, RateMoves, ClockTicks, Stay
    <3>. QED
      BY <2>1, <3>1, <3>2, <3>3 DEF ExNext, ExSteps
  <2>2. CASE UNCHANGED exVars
    BY <2>2 DEF exVars
  <2>. QED
    BY <2>1, <2>2 DEF Next, vars
<1>. QED
  BY <1>1, <1>2, <1>3, <1>4

LEMMA LandedAsReviewed ==
  ASSUME TradeInv, [Next]_vars
  PROVE  TradeKept
<1>. SUFFICES ASSUME NEW i \in Trades, trade[i].st = "live", trade'[i].st = "done",
                     NEW t, t = trade[i], NEW paid,
                     paid = IF t.action = "setup" THEN 0 ELSE book'[Received(t)] - book[Received(t)]
              PROVE  /\ paid >= t.accepted /\ paid >= t.floor
                     /\ t.alloc = book.alloc => book'.alloc = book.alloc
  BY DEF TradeKept
<1>1. t \in Live
  BY DEF TradeInv, TradesInv, Landed, NoTrade
<1>2. Executes(t) /\ book' = Settle(t)
  BY OnlyLandsEnds
<1>3. /\ t.action # "setup" => book'[Received(t)] = book[Received(t)] + Pays(t)
      /\ t.alloc = book.alloc => book'.alloc = book.alloc
  BY <1>1, <1>2, Settled DEF TradeInv
<1>4. /\ t.accepted \in Nat /\ t.floor \in Nat /\ t.min \in Nat
      /\ t.accepted <= t.min /\ t.floor <= t.min /\ (t.action = "setup" => t.min = 0)
  BY <1>1 DEF Live, Reviewed, Enforces
<1>5. CASE t.action = "setup"
  BY <1>3, <1>4, <1>5
<1>6. CASE t.action # "setup"
  <2>1. Pays(t) >= t.min
    BY <1>2, <1>6 DEF Executes
  <2>2. Received(t) \in Amounts /\ Pays(t) \in Nat /\ book \in Book
    BY <1>1, <1>6, Balances, PaysType DEF TradeInv, MarketInv
  <2>3. book[Received(t)] \in Nat
    BY <2>2, BookFields
  <2>. QED
    BY <1>3, <1>4, <1>6, <2>1, <2>2, <2>3
<1>. QED
  BY <1>5, <1>6

LEMMA TradesKept == Spec => []TradeInv
<1>1. Init => TradeInv
  BY ExInitHolds
<1>. QED
  BY <1>1, TradeStepKeeps, PTL DEF Spec

(* What lands pays at least the minimum and the floor that were accepted   *)
(* and leaves the allocation alone, for any rates, sizes and slippage, any *)
(* number of trades and however late a quote, a transaction or a signature *)
(* arrives (quote, unsignedTransaction, exponentOwnerAllocation).          *)
THEOREM TradesAreAsReviewed == Spec => TradeIsAsReviewed
<1>1. TradeInv /\ [Next]_vars => [TradeKept]_vars
  BY LandedAsReviewed
<1>2. TradeIsAsReviewed <=> [][TradeKept]_vars
  BY DEF TradeIsAsReviewed, TradeKept
<1>. QED
  BY <1>1, <1>2, TradesKept, PTL DEF Spec

-----------------------------------------------------------------------------
(* The cards and the chat: their invariants. *)

(* What a card or the chat may ask for.                                    *)
PlainJobs == [kind : {"lend", "borrow", "repay_all", "repay", "withdraw_collateral", "stake",
                      "unstake", "convert_all", "rebalance", "swap", "pay_out_usdc"}, n : Nat]
TokenJobs ==
  [kind : {"sell", "pay_in", "pay_out"}, token : {"usdc", "tok", "coll"}, n : Nat]
Jobs == PlainJobs \cup {j \in TokenJobs : j.kind = "sell" => j.token # "usdc"}

Calls == [job : Jobs, st : Answers \cup {"asked"}, note : BOOLEAN]
Fields == {"usdc", "tok", "coll", "lent", "debt", "shares", "wallet", "wtok", "wcoll"}

JobsInv ==
  /\ use \in Uses /\ safe \in Safe /\ shown \in [Fields \cup {"row"} -> Nat]
  /\ calls \in [Callers -> Calls \cup {NoCall}]
  /\ late \in SUBSET Jobs /\ disturbed \in SUBSET Callers
  /\ budget \in [clicks : Nat, mishaps : Nat]
  /\ budget.clicks <= use.clicks /\ budget.mishaps <= use.mishaps

-----------------------------------------------------------------------------
(* The idea cards. *)

Running(k) == [i \in 1..3 |-> IF i < k THEN "done" ELSE IF i = k THEN "running" ELSE "pending"]

Earns == [doing : {"none", "loop", "deposit"}, steps : {NoSteps} \cup [1..3 -> Stages],
          coll : Nat, loan : Nat, from : Safe, said : {"nothing", "activated", "deposited", "error"}]

(* The Safe after k steps of the activation.                               *)
Activated(e, k) ==
  [e.from EXCEPT !.coll = IF k >= 1 THEN 0 ELSE @, !.lent = IF k >= 1 THEN @ + e.coll ELSE @,
                 !.debt = IF k >= 2 THEN @ + e.loan ELSE @,
                 !.usdc = IF k = 2 THEN @ + e.loan ELSE @,
                 !.shares = IF k = 3 THEN @ + e.loan ELSE @]

(* While step k is under way its job is asked for, and unless something    *)
(* crossed it the Safe is where k - 1 steps lead, or k once it succeeded.  *)
EarnFollows ==
  \E k \in 1..3 :
    /\ earn.steps = Running(k) /\ earn.said = "nothing"
    /\ calls["earn"] # NoCall /\ calls["earn"].job = ActivationJob(earn, k)
    /\ "earn" \notin disturbed /\ earn.coll = earn.from.coll =>
         /\ calls["earn"].st = "asked" => safe = Activated(earn, k - 1)
         /\ calls["earn"].st = "success" => safe = Activated(earn, k)

EarnInv ==
  /\ earn \in Earns
  /\ earn.doing = "none" => calls["earn"] = NoCall
  /\ earn.doing = "deposit" => earn.said = "nothing"
  /\ earn.doing = "loop" => EarnFollows
  /\ ActivationReportIsTrue

-----------------------------------------------------------------------------
(* The loop card. *)

Loops == [busy : BOOLEAN, steps : {NoSteps} \cup [1..3 -> Stages], shares : Nat, from : Safe,
          notes : [1..3 -> BOOLEAN]]

(* What holds of the Safe once k steps of the deactivation are done.       *)
Deactivated(k, note2, note3) ==
  /\ safe.shares = loop.from.shares - (IF k >= 1 THEN loop.shares ELSE 0)
  /\ k >= 2 /\ ~note2 => safe.debt = 0
  /\ k >= 3 /\ ~note3 => safe.lent = 0 /\ safe.debt = 0
  /\ safe.coll + safe.lent = loop.from.coll + loop.from.lent

LoopFollows ==
  \E k \in 1..3 :
    /\ loop.steps = Running(k)
    /\ calls["loop"] # NoCall /\ calls["loop"].job = DeactivationJob(loop, k)
    /\ "loop" \notin disturbed =>
         LET note == calls["loop"].note
             note2 == IF k = 2 THEN note ELSE loop.notes[2]
         IN  /\ calls["loop"].st = "asked" => Deactivated(k - 1, loop.notes[2], FALSE)
             /\ calls["loop"].st = "success" => Deactivated(k, note2, note)

LoopInv ==
  /\ loop \in Loops
  /\ ~loop.busy => calls["loop"] = NoCall
  /\ loop.busy => LoopFollows
  /\ DeactivationReportIsTrue

-----------------------------------------------------------------------------
(* The buttons. *)

ButtonRecords ==
  [rebalancing : BOOLEAN, converting : {NoLabel, "tok", "coll"}, label : Jobs \cup {NoJob},
   by : ButtonCalls, result : Answers \cup {"none"}, alone : BOOLEAN, from : Safe]

ButtonKinds == {"sell", "borrow", "repay", "repay_all", "withdraw_collateral", "rebalance"}

(* What a button's job, done by itself, did to the Safe.                   *)
ButtonClaim(job, from, s) ==
  CASE job.kind = "sell" -> s = [from EXCEPT ![job.token] = @ - job.n, !.usdc = @ + job.n]
    [] job.kind = "borrow" -> s = [from EXCEPT !.debt = @ + job.n, !.usdc = @ + job.n]
    [] job.kind = "repay" -> s = [from EXCEPT !.debt = @ - job.n, !.usdc = @ - job.n]
    [] job.kind = "withdraw_collateral" /\ from.debt = 0 ->
         s = [from EXCEPT !.lent = 0, !.coll = @ + from.lent]
    [] OTHER -> s.lent + s.coll = from.lent + from.coll

ButtonFollows ==
  /\ \A d \in ButtonCalls \ {buttons.by} : calls[d] = NoCall
  /\ calls[buttons.by] # NoCall =>
       calls[buttons.by].job = buttons.label /\ buttons.result = "none"
       /\ buttons.label.kind \in ButtonKinds
  /\ buttons.by \notin disturbed =>
       /\ calls[buttons.by].st = "asked" => safe = buttons.from
       /\ calls[buttons.by].st = "success" \/ buttons.result = "success" =>
            ButtonClaim(buttons.label, buttons.from, safe)

ButtonInv == buttons \in ButtonRecords /\ (buttons.alone => ButtonFollows)

-----------------------------------------------------------------------------
(* The transfer card and the chat. *)

CardInv ==
  card \in [step : CardSteps, txPending : BOOLEAN, usdc : [TransferCalls -> Nat],
            doing : [TransferCalls -> Doings]]

Requests == [text : Words \cup {"none", "confirm"}, action : JobKinds \cup {NoProposal},
             enabled : BOOLEAN, params : BOOLEAN]

Chats == [status : {"ready", "busy", "error"}, stage : {"idle", "server", "job", "model", "tool"},
          proposal : JobKinds \cup {NoProposal}, n : Nat, req : Requests, jobs : 0..MaxTools]

(* The request handled stems from the proposal shown; execution without    *)
(* its button was enabled by a yes to a swap.                              *)
ChatInv ==
  /\ chat \in Chats
  /\ chat.proposal \in {"rebalance", "convert_all"} => chat.n = 0
  /\ chat.stage = "server" =>
       /\ chat.jobs = 0
       /\ IF chat.req.action = NoProposal THEN ~chat.req.enabled /\ ~chat.req.params
          ELSE chat.req.text = "confirm" /\ chat.req.action = chat.proposal
               /\ (chat.proposal = "swap" => chat.req.params)
  /\ chat.stage \in {"model", "tool"} /\ chat.req.enabled =>
       chat.proposal = "swap" /\ chat.req.text = "yes"

AppInv == JobsInv /\ EarnInv /\ LoopInv /\ ButtonInv /\ CardInv /\ ChatInv

-----------------------------------------------------------------------------
(* The Safe and what a job does to it. *)

LEMMA SafeAsFunction == Safe = [Fields -> Nat]
<1>1. ASSUME NEW s \in Safe PROVE s \in [Fields -> Nat]
  BY DEF Safe, Fields
<1>2. ASSUME NEW s \in [Fields -> Nat] PROVE s \in Safe
  <2>1. s = [usdc |-> s["usdc"], tok |-> s["tok"], coll |-> s["coll"], lent |-> s["lent"],
             debt |-> s["debt"], shares |-> s["shares"], wallet |-> s["wallet"],
             wtok |-> s["wtok"], wcoll |-> s["wcoll"]]
    BY DEF Fields
  <2>2. \A f \in Fields : s[f] \in Nat
    OBVIOUS
  <2>. QED
    BY <2>1, <2>2 DEF Safe, Fields
<1>. QED
  BY <1>1, <1>2

(* Two fields of the Safe changed.                                         *)
LEMMA SafeWith ==
  ASSUME NEW s \in Safe, NEW f \in Fields, NEW g \in Fields, f # g, NEW a \in Nat, NEW b \in Nat
  PROVE  /\ [s EXCEPT ![f] = a, ![g] = b] \in Safe
         /\ [s EXCEPT ![f] = a, ![g] = b][f] = a /\ [s EXCEPT ![f] = a, ![g] = b][g] = b
         /\ \A h \in Fields \ {f, g} : [s EXCEPT ![f] = a, ![g] = b][h] = s[h]
BY SafeAsFunction

LEMMA SafeFields ==
  ASSUME NEW s \in Safe
  PROVE  /\ s.usdc \in Nat /\ s.tok \in Nat /\ s.coll \in Nat /\ s.lent \in Nat /\ s.debt \in Nat
         /\ s.shares \in Nat /\ s.wallet \in Nat /\ s.wtok \in Nat /\ s.wcoll \in Nat
BY DEF Safe

OutcomeRecords == [safe : Safe, st : {"success", "error"}, note : BOOLEAN]

LEMMA MovesOutcome ==
  ASSUME safe \in Safe, NEW from \in Fields, NEW to \in Fields, from # to, NEW n \in Nat,
         NEW o \in Moves(from, to, n)
  PROVE  /\ o \in OutcomeRecords
         /\ o.st = "success" => /\ n <= safe[from] /\ o.note = FALSE
                                /\ o.safe = [safe EXCEPT ![from] = safe[from] - n, ![to] = safe[to] + n]
         /\ o.st = "error" => o.safe = safe
<1>1. safe[from] \in Nat /\ safe[to] \in Nat
  BY SafeAsFunction
<1>2. CASE o = Failure
  <2>1. o \in OutcomeRecords /\ o.st = "error" /\ o.safe = safe
    BY <1>2 DEF Failure, Answer, OutcomeRecords
  <2>. QED
    BY <2>1
<1>3. CASE n <= safe[from] /\ o = Success([safe EXCEPT ![from] = @ - n, ![to] = @ + n])
  <2>1. PICK a \in Nat, b \in Nat : a = safe[from] - n /\ b = safe[to] + n
    BY <1>1, <1>3
  <2>2. [safe EXCEPT ![from] = a, ![to] = b] \in Safe
    BY <2>1, SafeWith
  <2>3. [safe EXCEPT ![from] = @ - n, ![to] = @ + n] = [safe EXCEPT ![from] = a, ![to] = b]
    BY <2>1
  <2>4. o.safe = [safe EXCEPT ![from] = a, ![to] = b] /\ o.st = "success" /\ o.note = FALSE
        /\ o = [safe |-> o.safe, st |-> "success", note |-> FALSE]
    BY <1>3, <2>3 DEF Success, Answer
  <2>. QED
    BY <1>3, <2>1, <2>2, <2>4 DEF OutcomeRecords
<1>4. \/ o = Failure
      \/ n <= safe[from] /\ o = Success([safe EXCEPT ![from] = @ - n, ![to] = @ + n])
  BY <1>1 DEF Moves
<1>5. Failure.st = "error" /\ Failure.safe = safe /\ Failure \in OutcomeRecords
  BY DEF Failure, Answer, OutcomeRecords
<1>. QED
  BY <1>2, <1>3, <1>4, <1>5

LEMMA FailureType == Failure.st = "error" /\ Failure.safe = safe /\ (safe \in Safe => Failure \in OutcomeRecords)
BY DEF Failure, Answer, OutcomeRecords

LEMMA SuccessType ==
  ASSUME NEW s \in Safe
  PROVE  /\ Success(s) \in OutcomeRecords /\ Success(s).safe = s /\ Success(s).st = "success"
         /\ Success(s).note = FALSE
         /\ Noted(s) \in OutcomeRecords /\ Noted(s).safe = s /\ Noted(s).st = "success"
         /\ Noted(s).note = TRUE
BY DEF Success, Noted, Answer, OutcomeRecords

LEMMA LendOutcome ==
  ASSUME safe \in Safe, NEW n \in Nat, NEW o \in Lend(n)
  PROVE  /\ o \in OutcomeRecords
         /\ o.st = "success" /\ n = safe.coll =>
              o.safe = [safe EXCEPT !.coll = 0, !.lent = safe.lent + n]
<1>1. PICK m \in Nat : m = Smaller(n, safe.coll) /\ m <= safe.coll /\ (n = safe.coll => m = n)
  BY DEF Smaller, Safe
<1>2. PICK s : s = [safe EXCEPT !.coll = @ - m, !.lent = @ + m]
  OBVIOUS
<1>3. s \in Safe /\ (n = safe.coll => s = [safe EXCEPT !.coll = 0, !.lent = safe.lent + n])
  <2>1. PICK a \in Nat, b \in Nat : a = safe.coll - m /\ b = safe.lent + m /\ (n = safe.coll => a = 0)
    BY <1>1, SafeFields
  <2>2. s = [safe EXCEPT !.coll = a, !.lent = b]
    BY <1>2, <2>1
  <2>. QED
    BY <1>1, <2>1, <2>2 DEF Safe
<1>4. o = Failure \/ o = Success(s)
  BY <1>1, <1>2 DEF Lend
<1>. QED
  BY <1>3, <1>4, FailureType, SuccessType

LEMMA BorrowOutcome ==
  ASSUME safe \in Safe, NEW n \in Nat, NEW o \in Borrow(n)
  PROVE  /\ o \in OutcomeRecords
         /\ o.st = "success" => o.safe = [safe EXCEPT !.debt = safe.debt + n, !.usdc = safe.usdc + n]
<1>1. PICK s : s = [safe EXCEPT !.debt = safe.debt + n, !.usdc = safe.usdc + n]
  OBVIOUS
<1>2. s \in Safe
  <2>1. PICK a \in Nat, b \in Nat : a = safe.debt + n /\ b = safe.usdc + n
    BY SafeFields
  <2>2. s = [safe EXCEPT !.debt = a, !.usdc = b]
    BY <1>1, <2>1
  <2>. QED
    BY <2>2 DEF Safe
<1>3. o = Failure \/ o = Success(s)
  BY <1>1 DEF Borrow
<1>. QED
  BY <1>1, <1>2, <1>3, FailureType, SuccessType

LEMMA RepayAllOutcome ==
  ASSUME safe \in Safe, NEW o \in RepayAll
  PROVE  /\ o \in OutcomeRecords
         /\ o.st = "success" =>
              /\ o.safe.shares = safe.shares /\ o.safe.coll = safe.coll /\ o.safe.lent = safe.lent
              /\ o.note = FALSE => o.safe.debt = 0
<1>1. safe.debt \in Nat /\ safe.usdc \in Nat /\ RESIDUE \in Nat
  BY JobsAssumption DEF Safe
<1>2. CASE o \in {Success(safe), Noted(safe)} /\ (o = Success(safe) => safe.debt = 0)
  BY <1>2, SuccessType
<1>3. CASE o = Failure
  BY <1>3, FailureType
<1>4. CASE /\ safe.debt > RESIDUE /\ safe.debt - RESIDUE <= safe.usdc
           /\ o = Noted([safe EXCEPT !.usdc = @ - (safe.debt - RESIDUE), !.debt = RESIDUE])
  <2>1. PICK s : s = [safe EXCEPT !.usdc = @ - (safe.debt - RESIDUE), !.debt = RESIDUE]
    OBVIOUS
  <2>2. s \in Safe /\ s.shares = safe.shares /\ s.coll = safe.coll /\ s.lent = safe.lent
    <3>1. PICK a \in Nat, b \in Nat : a = safe.usdc - (safe.debt - RESIDUE) /\ b = RESIDUE
      BY <1>1, <1>4
    <3>2. s = [safe EXCEPT !.usdc = a, !.debt = b]
      BY <2>1, <3>1
    <3>. QED
      BY <3>2 DEF Safe
  <2>3. o = Noted(s)
    BY <1>4, <2>1
  <2>. QED
    BY <2>2, <2>3, SuccessType
<1>5. \/ o \in {Success(safe), Noted(safe)} /\ (o = Success(safe) => safe.debt = 0)
      \/ o = Failure
      \/ /\ safe.debt > RESIDUE /\ safe.debt - RESIDUE <= safe.usdc
         /\ o = Noted([safe EXCEPT !.usdc = @ - (safe.debt - RESIDUE), !.debt = RESIDUE])
  <2>1. Success(safe) # Noted(safe)
    BY SuccessType
  <2>2. CASE safe.debt = 0
    BY <2>2 DEF RepayAll
  <2>3. CASE safe.debt # 0 /\ safe.debt <= RESIDUE
    BY <2>1, <2>3 DEF RepayAll
  <2>4. CASE ~(safe.debt <= RESIDUE)
    BY <1>1, <2>1, <2>4 DEF RepayAll
  <2>. QED
    BY <2>2, <2>3, <2>4
<1>. QED
  BY <1>2, <1>3, <1>4, <1>5

LEMMA RepayOutcome ==
  ASSUME safe \in Safe, NEW n \in Nat, NEW o \in Repay(n)
  PROVE  /\ o \in OutcomeRecords
         /\ o.st = "success" => o.safe = [safe EXCEPT !.usdc = safe.usdc - n, !.debt = safe.debt - n]
<1>1. CASE o = Failure
  BY <1>1, FailureType
<1>2. CASE n <= safe.usdc /\ n <= safe.debt
           /\ o = Success([safe EXCEPT !.usdc = @ - n, !.debt = @ - n])
  <2>1. PICK s : s = [safe EXCEPT !.usdc = safe.usdc - n, !.debt = safe.debt - n]
    OBVIOUS
  <2>2. s \in Safe
    <3>1. PICK a \in Nat, b \in Nat : a = safe.usdc - n /\ b = safe.debt - n
      BY <1>2, SafeFields
    <3>2. s = [safe EXCEPT !.usdc = a, !.debt = b]
      BY <2>1, <3>1
    <3>. QED
      BY <3>2 DEF Safe
  <2>. QED
    BY <1>2, <2>1, <2>2, SuccessType
<1>. QED
  BY <1>1, <1>2 DEF Repay, Smaller, Safe

(* A part, rounded up, is at most the whole.                               *)
LEMMA CeilPart ==
  ASSUME NEW a \in Nat, NEW b \in Nat \ {0}
  PROVE  (a + b - 1) \div b \in 0 .. a
<1>1. PICK q \in Int : q = (a + b - 1) \div b
  OBVIOUS
<1>2. q >= 0 /\ b * q <= a + b - 1
  BY <1>1
<1>3. ASSUME q >= a + 1 PROVE FALSE
  <2>1. b * q >= b * (a + 1)
    BY <1>3
  <2>2. b * (a + 1) >= a + b
    OBVIOUS
  <2>3. b * (a + 1) \in Int /\ b * q \in Int
    OBVIOUS
  <2>. QED
    BY <1>2, <2>1, <2>2, <2>3
<1>. QED
  BY <1>1, <1>2, <1>3

LEMMA WithdrawOutcome ==
  ASSUME safe \in Safe, NEW o \in WithdrawCollateral
  PROVE  /\ o \in OutcomeRecords
         /\ o.st = "success" =>
              /\ o.safe.shares = safe.shares /\ o.safe.debt = safe.debt
              /\ o.safe.coll + o.safe.lent = safe.coll + safe.lent
              /\ o.note = FALSE => o.safe.lent = 0 /\ o.safe.debt = 0
              /\ safe.debt = 0 => o.safe = [safe EXCEPT !.lent = 0, !.coll = safe.coll + safe.lent]
<1>1. PICK stays \in 0 .. safe.lent : stays = (safe.lent + BUFFER - 1) \div BUFFER
  BY CeilPart, JobsAssumption DEF Safe
<1>2. CASE o = Failure
  BY <1>2, FailureType
<1>3. CASE safe.debt = 0 /\ o = Success([safe EXCEPT !.coll = @ + safe.lent, !.lent = 0])
  <2>1. PICK s : s = [safe EXCEPT !.lent = 0, !.coll = safe.coll + safe.lent]
    OBVIOUS
  <2>2. /\ s \in Safe /\ s.shares = safe.shares /\ s.debt = safe.debt /\ s.lent = 0
        /\ s.coll + s.lent = safe.coll + safe.lent
        /\ s = [safe EXCEPT !.coll = safe.coll + safe.lent, !.lent = 0]
    <3>1. PICK a \in Nat : a = safe.coll + safe.lent
      BY SafeFields
    <3>2. s = [safe EXCEPT !.lent = 0, !.coll = a]
      BY <2>1, <3>1
    <3>3. /\ s \in Safe /\ s.shares = safe.shares /\ s.debt = safe.debt /\ s.lent = 0 /\ s.coll = a
          /\ s = [safe EXCEPT !.coll = a, !.lent = 0]
      BY <3>2 DEF Safe
    <3>. QED
      BY <3>1, <3>3
  <2>. QED
    BY <1>3, <2>1, <2>2, SuccessType
<1>4. CASE safe.debt # 0 /\ o = Noted([safe EXCEPT !.coll = @ + (safe.lent - stays), !.lent = stays])
  <2>1. PICK s : s = [safe EXCEPT !.coll = safe.coll + (safe.lent - stays), !.lent = stays]
    OBVIOUS
  <2>2. /\ s \in Safe /\ s.shares = safe.shares /\ s.debt = safe.debt
        /\ s.coll + s.lent = safe.coll + safe.lent
    <3>1. PICK a \in Nat, b \in Nat : a = safe.coll + (safe.lent - stays) /\ b = stays
      BY <1>1, SafeFields
    <3>2. s = [safe EXCEPT !.coll = a, !.lent = b]
      BY <2>1, <3>1
    <3>3. s \in Safe /\ s.shares = safe.shares /\ s.debt = safe.debt /\ s.lent = b /\ s.coll = a
      BY <3>2 DEF Safe
    <3>. QED
      BY <1>1, <3>1, <3>3, SafeFields
  <2>. QED
    BY <1>4, <2>1, <2>2, SuccessType
<1>. QED
  BY <1>1, <1>2, <1>3, <1>4 DEF WithdrawCollateral

LEMMA ConvertAllOutcome ==
  ASSUME safe \in Safe, NEW o \in ConvertAll
  PROVE  o \in OutcomeRecords
<1>1. PICK sold \in 0 .. safe.tok :
        o = Answer([safe EXCEPT !.usdc = @ + sold, !.tok = @ - sold],
                   IF sold = safe.tok THEN "success" ELSE "error")
  BY DEF ConvertAll
<1>2. [safe EXCEPT !.usdc = @ + sold, !.tok = @ - sold] \in Safe
  <2>1. PICK a \in Nat, b \in Nat : a = safe.usdc + sold /\ b = safe.tok - sold
    BY SafeFields
  <2>2. [safe EXCEPT !.usdc = @ + sold, !.tok = @ - sold] = [safe EXCEPT !.usdc = a, !.tok = b]
    BY <2>1
  <2>. QED
    BY <2>2 DEF Safe
<1>. QED
  BY <1>1, <1>2 DEF Answer, OutcomeRecords

LEMMA RebalanceOutcome ==
  ASSUME safe \in Safe, NEW o \in Rebalance
  PROVE  o \in OutcomeRecords /\ o.safe.lent = safe.lent /\ o.safe.coll = safe.coll
<1>1. PICK sum \in Nat, half \in Nat : sum = safe.usdc + safe.tok /\ half = sum \div 2 /\ half <= sum
  BY DEF Safe
<1>2. PICK s : s = [safe EXCEPT !.tok = half, !.usdc = sum - half]
  OBVIOUS
<1>3. s \in Safe /\ s.lent = safe.lent /\ s.coll = safe.coll
  <2>1. PICK b \in Nat : b = sum - half
    BY <1>1
  <2>2. s = [safe EXCEPT !.tok = half, !.usdc = b]
    BY <1>2, <2>1
  <2>. QED
    BY <2>2 DEF Safe
<1>4. o = Success(s)
  BY <1>1, <1>2 DEF Rebalance
<1>. QED
  BY <1>3, <1>4, SuccessType

LEMMA OutcomesType ==
  ASSUME safe \in Safe, NEW job \in Jobs, NEW o \in Outcomes(job)
  PROVE  o \in OutcomeRecords
<1>1. CASE job \in PlainJobs
  <2>1. job.n \in Nat /\ {"usdc", "tok", "wallet", "shares"} \subseteq Fields
    BY <1>1 DEF PlainJobs, Fields
  <2>2. CASE job.kind = "lend"
    BY <2>1, <2>2, LendOutcome DEF Outcomes
  <2>3. CASE job.kind = "borrow"
    BY <2>1, <2>3, BorrowOutcome DEF Outcomes
  <2>4. CASE job.kind = "repay_all"
    BY <2>4, RepayAllOutcome DEF Outcomes
  <2>5. CASE job.kind = "repay"
    BY <2>1, <2>5, RepayOutcome DEF Outcomes
  <2>6. CASE job.kind = "withdraw_collateral"
    BY <2>6, WithdrawOutcome DEF Outcomes
  <2>7. CASE job.kind = "stake"
    BY <2>1, <2>7, MovesOutcome DEF Outcomes, Stake
  <2>8. CASE job.kind = "unstake"
    BY <2>1, <2>8, MovesOutcome DEF Outcomes, Unstake
  <2>9. CASE job.kind = "convert_all"
    BY <2>9, ConvertAllOutcome DEF Outcomes
  <2>10. CASE job.kind = "rebalance"
    BY <2>10, RebalanceOutcome DEF Outcomes
  <2>11. CASE job.kind = "swap"
    BY <2>1, <2>11, MovesOutcome DEF Outcomes, Swap
  <2>12. CASE job.kind = "pay_out_usdc"
    BY <2>1, <2>12, MovesOutcome DEF Outcomes, withdrawUsdc
  <2>. QED
    BY <1>1, <2>2, <2>3, <2>4, <2>5, <2>6, <2>7, <2>8, <2>9, <2>10, <2>11, <2>12 DEF PlainJobs
<1>2. CASE job \in TokenJobs /\ (job.kind = "sell" => job.token # "usdc")
  <2>1. /\ job.n \in Nat /\ job.token \in Fields /\ Purse[job.token] \in Fields
        /\ "usdc" \in Fields /\ Purse[job.token] # job.token
    BY <1>2 DEF TokenJobs, Fields, Purse
  <2>2. CASE job.kind = "sell"
    BY <1>2, <2>1, <2>2, MovesOutcome DEF Outcomes, Sell
  <2>3. CASE job.kind = "pay_in"
    BY <2>1, <2>3, MovesOutcome DEF Outcomes, depositSpl
  <2>4. CASE job.kind = "pay_out"
    BY <2>1, <2>4, MovesOutcome DEF Outcomes, withdrawSpl
  <2>. QED
    BY <1>2, <2>2, <2>3, <2>4 DEF TokenJobs
<1>. QED
  BY <1>1, <1>2 DEF Jobs

-----------------------------------------------------------------------------
(* What the steps of others leave of a caller's affairs: its call is as it *)
(* was, and unless it counts as disturbed so is the Safe.                  *)
Passes(c) ==
  /\ calls'[c] = calls[c]
  /\ c \in disturbed => c \in disturbed'
  /\ c \in disturbed' \/ safe' = safe

StepOf(c) == \A d \in Callers \ {c} : Passes(d)

LEMMA JobsTypes ==
  ASSUME JobsInv
  PROVE  /\ use \in Uses /\ safe \in Safe /\ shown \in [Fields \cup {"row"} -> Nat]
         /\ calls \in [Callers -> Calls \cup {NoCall}]
         /\ late \in SUBSET Jobs /\ disturbed \in SUBSET Callers
         /\ budget \in [clicks : Nat, mishaps : Nat]
         /\ use.clicks \in Nat /\ use.mishaps \in Nat
BY UsesAssumption DEF JobsInv

LEMMA NoCallIsNone == NoCall.st = "none" /\ NoCall \notin Calls
BY DEF NoCall, Calls, Answers

LEMMA WaitingCalls ==
  ASSUME JobsInv, NEW c \in Callers, Waiting(c) \/ Answered(c)
  PROVE  calls[c] \in Calls /\ calls[c].job \in Jobs
BY JobsTypes, NoCallIsNone DEF Waiting, Answered, Answers, Calls

LEMMA ServeStep ==
  ASSUME JobsInv, NEW c \in Callers, Serve(c)
  PROVE  /\ JobsInv' /\ StepOf(c) /\ (c \in disturbed' <=> c \in disturbed)
         /\ \E o \in Outcomes(calls[c].job) :
              /\ o \in OutcomeRecords /\ safe' = o.safe
              /\ calls'[c] = [job |-> calls[c].job, st |-> o.st, note |-> o.note]
<1>1. calls[c] \in Calls /\ calls[c].job \in Jobs
  BY WaitingCalls DEF Serve
<1>2. PICK o \in Outcomes(calls[c].job) :
        /\ safe' = o.safe /\ disturbed' = Crossed(c, o.safe)
        /\ calls' = [calls EXCEPT ![c].st = o.st, ![c].note = o.note]
  BY DEF Serve
<1>3. o \in OutcomeRecords
  BY <1>1, <1>2, OutcomesType, JobsTypes
<1>4. UNCHANGED <<use, shown, late, budget>>
  BY DEF Serve
<1>5. calls' = [calls EXCEPT ![c] = [job |-> calls[c].job, st |-> o.st, note |-> o.note]]
  <2>1. PICK asked : asked = [calls EXCEPT ![c].st = o.st]
    OBVIOUS
  <2>2. calls' = [asked EXCEPT ![c].note = o.note]
    BY <1>2, <2>1
  <2>3. asked = [calls EXCEPT ![c] = [job |-> calls[c].job, st |-> o.st, note |-> calls[c].note]]
    <3>1. calls[c] = [job |-> calls[c].job, st |-> calls[c].st, note |-> calls[c].note]
      BY <1>1 DEF Calls
    <3>2. [calls[c] EXCEPT !.st = o.st] = [job |-> calls[c].job, st |-> o.st, note |-> calls[c].note]
      BY <3>1
    <3>3. asked = [calls EXCEPT ![c] = [calls[c] EXCEPT !.st = o.st]]
      BY <2>1
    <3>. QED
      BY <3>2, <3>3
  <2>4. asked[c] = [job |-> calls[c].job, st |-> o.st, note |-> calls[c].note]
    BY <2>3, JobsTypes
  <2>5. [asked[c] EXCEPT !.note = o.note] = [job |-> calls[c].job, st |-> o.st, note |-> o.note]
    BY <2>4
  <2>6. calls' = [asked EXCEPT ![c] = [job |-> calls[c].job, st |-> o.st, note |-> o.note]]
    BY <2>2, <2>5
  <2>. QED
    BY <2>3, <2>6, JobsTypes
<1>6. [job |-> calls[c].job, st |-> o.st, note |-> o.note] \in Calls
  BY <1>1, <1>3 DEF Calls, OutcomeRecords, Answers
<1>7. calls' \in [Callers -> Calls \cup {NoCall}]
  BY <1>5, <1>6, JobsTypes
<1>8. safe' \in Safe /\ disturbed' \in SUBSET Callers
  BY <1>2, <1>3, JobsTypes DEF OutcomeRecords, Crossed
<1>9. JobsInv'
  BY <1>4, <1>7, <1>8, JobsTypes DEF JobsInv
<1>10. StepOf(c)
  BY <1>2, <1>5, JobsTypes DEF StepOf, Passes, Crossed
<1>11. c \in disturbed' <=> c \in disturbed
  BY <1>2, JobsTypes DEF Crossed
<1>12. calls'[c] = [job |-> calls[c].job, st |-> o.st, note |-> o.note]
  BY <1>5, JobsTypes
<1>. QED
  BY <1>2, <1>3, <1>9, <1>10, <1>11, <1>12

LEMMA RefusedStep ==
  ASSUME JobsInv, NEW c \in Callers, TurnAway(c) \/ LoseAnswer(c)
  PROVE  /\ JobsInv' /\ StepOf(c) /\ disturbed' = disturbed /\ safe' = safe
         /\ calls[c].st = "asked" /\ calls'[c].job = calls[c].job
         /\ calls'[c] \in Calls /\ calls'[c].st \in {"error", "needs_whitelist"}
<1>1. calls[c] \in Calls /\ calls[c].job \in Jobs /\ calls[c].st = "asked"
  BY WaitingCalls DEF TurnAway, LoseAnswer, Waiting
<1>2. PICK st \in {"error", "needs_whitelist"} : calls' = [calls EXCEPT ![c].st = st]
  BY DEF TurnAway, LoseAnswer, Refusals
<1>3. /\ calls' = [calls EXCEPT ![c] = [calls[c] EXCEPT !.st = st]]
      /\ [calls[c] EXCEPT !.st = st] \in Calls
  BY <1>1, <1>2 DEF Calls, Answers
<1>4. UNCHANGED <<use, safe, shown, disturbed>>
  BY DEF TurnAway, LoseAnswer
<1>5. late' \in SUBSET Jobs
  BY <1>1, JobsTypes DEF TurnAway, LoseAnswer
<1>6. budget' \in [clicks : Nat, mishaps : Nat] /\ budget'.clicks <= use.clicks
      /\ budget'.mishaps <= use.mishaps
  <2>1. budget \in [clicks : Nat, mishaps : Nat] /\ budget.clicks <= use.clicks
        /\ budget.mishaps <= use.mishaps /\ use.mishaps \in Nat
    BY JobsTypes DEF JobsInv
  <2>2. CASE budget.mishaps < use.mishaps /\ budget' = [budget EXCEPT !.mishaps = @ + 1]
    BY <2>1, <2>2
  <2>. QED
    BY <2>1, <2>2 DEF TurnAway, LoseAnswer
<1>7. calls' \in [Callers -> Calls \cup {NoCall}] /\ calls'[c] = [calls[c] EXCEPT !.st = st]
  BY <1>3, JobsTypes
<1>8. JobsInv'
  BY <1>4, <1>5, <1>6, <1>7, JobsTypes DEF JobsInv
<1>9. StepOf(c)
  BY <1>3, <1>4, JobsTypes DEF StepOf, Passes
<1>. QED
  BY <1>1, <1>2, <1>3, <1>4, <1>7, <1>8, <1>9 DEF Calls

AllPass == calls' = calls /\ \A d \in Callers : Passes(d)

LEMMA LateStep ==
  ASSUME JobsInv, LateJobEnds
  PROVE  JobsInv' /\ AllPass
<1>1. PICK job \in late :
        /\ late' = late \ {job}
        /\ \E o \in Outcomes(job) \cup {Failure} :
             safe' = o.safe /\ disturbed' = IF o.safe = safe THEN disturbed ELSE Callers
        /\ UNCHANGED <<use, shown, calls, budget>>
  BY DEF LateJobEnds
<1>2. PICK o \in Outcomes(job) \cup {Failure} :
        safe' = o.safe /\ disturbed' = IF o.safe = safe THEN disturbed ELSE Callers
  BY <1>1
<1>3. o \in OutcomeRecords
  BY <1>1, <1>2, JobsTypes, OutcomesType, FailureType
<1>4. safe' \in Safe /\ late' \in SUBSET Jobs /\ disturbed' \in SUBSET Callers
  BY <1>1, <1>2, <1>3, JobsTypes DEF OutcomeRecords
<1>. QED
  BY <1>1, <1>2, <1>4, JobsTypes DEF JobsInv, AllPass, Passes

LEMMA SeenType ==
  ASSUME safe \in Safe
  PROVE  Seen(safe) \in [Fields \cup {"row"} -> Nat]
<1>1. DOMAIN safe = Fields /\ "usdc" \in Fields /\ \A f \in Fields : safe[f] \in Nat
  BY SafeAsFunction DEF Fields
<1>2. safe.usdc \in Nat
  BY SafeFields
<1>. QED
  BY <1>1, <1>2 DEF Seen

LEMMA RefreshStep ==
  ASSUME JobsInv, Refresh
  PROVE  JobsInv' /\ AllPass
<1>1. PICK fields :
        /\ shown' = [f \in DOMAIN shown |-> IF f \in fields THEN Seen(safe)[f] ELSE shown[f]]
        /\ UNCHANGED <<use, safe, calls, late, disturbed, budget>>
  BY DEF Refresh, useVault, useVaultAssets, useWalletAssets, useJupiterBorrowPositions,
         useKaminoKvaultPositions, Reread
<1>2. shown' \in [Fields \cup {"row"} -> Nat]
  BY <1>1, SeenType, JobsTypes
<1>. QED
  BY <1>1, <1>2, JobsTypes DEF JobsInv, AllPass, Passes

(* A click is counted; whoever begins is undisturbed from there.           *)
LEMMA ClickCounts ==
  ASSUME JobsInv, Click
  PROVE  /\ budget' \in [clicks : Nat, mishaps : Nat]
         /\ budget'.clicks <= use.clicks /\ budget'.mishaps <= use.mishaps
<1>1. budget \in [clicks : Nat, mishaps : Nat] /\ budget.clicks <= use.clicks
      /\ budget.mishaps <= use.mishaps /\ use.clicks \in Nat
  BY JobsTypes DEF JobsInv
<1>. QED
  BY <1>1 DEF Click

LEMMA AskingType ==
  ASSUME NEW job \in Jobs
  PROVE  /\ Asking(job) \in Calls /\ Asking(job).job = job /\ Asking(job).st = "asked"
         /\ Asking(job).note = FALSE /\ Asking(job) # NoCall
BY NoCallIsNone DEF Asking, Calls

LEMMA AskStep ==
  ASSUME JobsInv, NEW c \in Callers, NEW job \in Jobs, Ask(c, job),
         UNCHANGED <<use, safe, shown, late>>, Begin(c) \/ UNCHANGED <<disturbed, budget>>
  PROVE  JobsInv' /\ StepOf(c) /\ calls'[c] = Asking(job) /\ (Begin(c) => c \notin disturbed')
<1>1. calls' \in [Callers -> Calls \cup {NoCall}] /\ calls'[c] = Asking(job)
  BY JobsTypes, AskingType DEF Ask
<1>2. disturbed' \in SUBSET Callers /\ \A d \in Callers \ {c} : d \in disturbed' <=> d \in disturbed
  BY JobsTypes DEF Begin
<1>3. /\ budget' \in [clicks : Nat, mishaps : Nat]
      /\ budget'.clicks <= use.clicks /\ budget'.mishaps <= use.mishaps
  BY ClickCounts, JobsTypes DEF Begin, JobsInv
<1>4. JobsInv'
  BY <1>1, <1>2, <1>3, JobsTypes DEF JobsInv
<1>5. StepOf(c)
  BY <1>2, JobsTypes DEF StepOf, Passes, Ask
<1>. QED
  BY <1>1, <1>4, <1>5 DEF Begin

LEMMA HangUpStep ==
  ASSUME JobsInv, NEW c \in Callers, HangUp(c),
         UNCHANGED <<use, safe, shown, late>>, Begin(c) \/ UNCHANGED <<disturbed, budget>>
  PROVE  JobsInv' /\ StepOf(c) /\ calls'[c] = NoCall
<1>1. calls' \in [Callers -> Calls \cup {NoCall}] /\ calls'[c] = NoCall
  BY JobsTypes DEF HangUp
<1>2. disturbed' \in SUBSET Callers /\ \A d \in Callers \ {c} : d \in disturbed' <=> d \in disturbed
  BY JobsTypes DEF Begin
<1>3. /\ budget' \in [clicks : Nat, mishaps : Nat]
      /\ budget'.clicks <= use.clicks /\ budget'.mishaps <= use.mishaps
  BY ClickCounts, JobsTypes DEF Begin, JobsInv
<1>4. JobsInv'
  BY <1>1, <1>2, <1>3, JobsTypes DEF JobsInv
<1>5. StepOf(c)
  BY <1>2, JobsTypes DEF StepOf, Passes, HangUp
<1>. QED
  BY <1>1, <1>4, <1>5

-----------------------------------------------------------------------------
(* The steps of an activation or a deactivation. *)

LEMMA StakeOutcome ==
  ASSUME safe \in Safe, NEW n \in Nat, NEW o \in Stake(n), o.st = "success"
  PROVE  o.safe = [safe EXCEPT !["usdc"] = safe["usdc"] - n, !["shares"] = safe["shares"] + n]
<1>1. o # Failure
  BY DEF Failure, Answer
<1>2. o = Success([safe EXCEPT !["usdc"] = safe["usdc"] - n, !["shares"] = safe["shares"] + n])
  BY <1>1, Zenon DEF Stake, Moves
<1>. QED
  BY <1>2 DEF Success, Answer

LEMMA UnstakeOutcome ==
  ASSUME safe \in Safe, NEW n \in Nat, NEW o \in Unstake(n), o.st = "success"
  PROVE  /\ o.safe.shares = safe.shares - n /\ o.safe.coll = safe.coll /\ o.safe.lent = safe.lent
         /\ o.note = FALSE
<1>1. o # Failure
  BY DEF Failure, Answer
<1>2. o = Success([safe EXCEPT !["shares"] = safe["shares"] - n, !["usdc"] = safe["usdc"] + n])
  BY <1>1, Zenon DEF Unstake, Moves
<1>3. o.safe = [safe EXCEPT !["shares"] = safe["shares"] - n, !["usdc"] = safe["usdc"] + n]
      /\ o.note = FALSE
  BY <1>2 DEF Success, Answer
<1>. QED
  BY <1>3 DEF Safe

LEMMA RunningSteps ==
  ASSUME NEW k \in 1..3
  PROVE  /\ Running(k) \in [1..3 -> Stages] /\ ~AllDone(Running(k))
         /\ At(Running(k)) = k
         /\ k < 3 => After(Running(k)) = Running(k + 1)
         /\ After(Running(k)) \in [1..3 -> Stages]
         /\ k = 3 => AllDone(After(Running(k)))
         /\ Broken(Running(k)) \in [1..3 -> Stages] /\ ~AllDone(Broken(Running(k)))
<1>1. Running(k) \in [1..3 -> Stages] /\ Len(Running(k)) = 3
  BY DEF Running, Stages
<1>2. Running(k)[k] = "running" /\ \A i \in 1..3 : Running(k)[i] = "running" => i = k
  BY DEF Running
<1>3. At(Running(k)) = k
  BY <1>1, <1>2 DEF At
<1>4. After(Running(k)) = [i \in 1..3 |-> IF i = k THEN "done" ELSE IF i = k + 1 THEN "running"
                                          ELSE Running(k)[i]]
  BY <1>1, <1>3 DEF After
<1>5. After(Running(k)) \in [1..3 -> Stages]
  BY <1>1, <1>4 DEF Stages
<1>6. ASSUME k < 3 PROVE After(Running(k)) = Running(k + 1)
  BY <1>4, <1>6 DEF Running
<1>7. ASSUME k = 3 PROVE AllDone(After(Running(k)))
  <2>1. \A i \in 1..3 : After(Running(k))[i] = "done"
    BY <1>4, <1>7 DEF Running
  <2>2. Len(After(Running(k))) = 3 /\ After(Running(k)) # NoSteps
    BY <1>4 DEF NoSteps
  <2>. QED
    BY <2>1, <2>2 DEF AllDone
<1>8. Broken(Running(k)) \in [1..3 -> Stages] /\ Broken(Running(k))[k] = "error"
      /\ Len(Broken(Running(k))) = 3
  BY <1>1, <1>3 DEF Broken, Stages
<1>9. ~AllDone(Running(k)) /\ ~AllDone(Broken(Running(k)))
  BY <1>1, <1>2, <1>8 DEF AllDone
<1>. QED
  BY <1>1, <1>3, <1>5, <1>6, <1>7, <1>8, <1>9

-----------------------------------------------------------------------------
(* The idea cards. *)

LEMMA ActivatedSafe ==
  ASSUME NEW e \in Earns
  PROVE  /\ Activated(e, 0) = e.from
         /\ Activated(e, 1) = [e.from EXCEPT !.coll = 0, !.lent = e.from.lent + e.coll]
         /\ Activated(e, 2) = [Activated(e, 1) EXCEPT !.debt = Activated(e, 1).debt + e.loan,
                                                      !.usdc = Activated(e, 1).usdc + e.loan]
         /\ Activated(e, 3) = [Activated(e, 2) EXCEPT !["usdc"] = Activated(e, 2)["usdc"] - e.loan,
                                                      !["shares"] = Activated(e, 2)["shares"] + e.loan]
         /\ Activated(e, 3) = [e.from EXCEPT !.coll = 0, !.lent = @ + e.coll,
                                             !.debt = @ + e.loan, !.shares = @ + e.loan]
<1>1. e.from \in Safe /\ e.coll \in Nat /\ e.loan \in Nat
  BY DEF Earns
<1>2. PICK l \in Nat, d \in Nat, u \in Nat, s \in Nat :
        l = e.from.lent + e.coll /\ d = e.from.debt + e.loan /\ u = e.from.usdc + e.loan
        /\ s = e.from.shares + e.loan
  <2>1. /\ e.from.lent + e.coll \in Nat /\ e.from.debt + e.loan \in Nat
        /\ e.from.usdc + e.loan \in Nat /\ e.from.shares + e.loan \in Nat
    BY <1>1, SafeFields
  <2>. QED
    BY <2>1
<1>3. Activated(e, 0) =
        [e.from EXCEPT !.coll = e.from.coll, !.lent = e.from.lent, !.debt = e.from.debt,
                       !.usdc = e.from.usdc, !.shares = e.from.shares]
  <2>1. /\ (IF 0 >= 1 THEN 0 ELSE e.from.coll) = e.from.coll
        /\ (IF 0 >= 1 THEN e.from.lent + e.coll ELSE e.from.lent) = e.from.lent
        /\ (IF 0 >= 2 THEN e.from.debt + e.loan ELSE e.from.debt) = e.from.debt
        /\ (IF 0 = 2 THEN e.from.usdc + e.loan ELSE e.from.usdc) = e.from.usdc
        /\ (IF 0 = 3 THEN e.from.shares + e.loan ELSE e.from.shares) = e.from.shares
    BY <1>2
  <2>. QED
    BY <2>1, Zenon DEF Activated
<1>4. Activated(e, 1) =
        [e.from EXCEPT !.coll = 0, !.lent = l, !.debt = e.from.debt,
                       !.usdc = e.from.usdc, !.shares = e.from.shares]
  <2>1. /\ (IF 1 >= 1 THEN 0 ELSE e.from.coll) = 0
        /\ (IF 1 >= 1 THEN e.from.lent + e.coll ELSE e.from.lent) = l
        /\ (IF 1 >= 2 THEN e.from.debt + e.loan ELSE e.from.debt) = e.from.debt
        /\ (IF 1 = 2 THEN e.from.usdc + e.loan ELSE e.from.usdc) = e.from.usdc
        /\ (IF 1 = 3 THEN e.from.shares + e.loan ELSE e.from.shares) = e.from.shares
    BY <1>2
  <2>. QED
    BY <2>1, Zenon DEF Activated
<1>5. Activated(e, 2) =
        [e.from EXCEPT !.coll = 0, !.lent = l, !.debt = d, !.usdc = u, !.shares = e.from.shares]
  <2>1. /\ (IF 2 >= 1 THEN 0 ELSE e.from.coll) = 0
        /\ (IF 2 >= 1 THEN e.from.lent + e.coll ELSE e.from.lent) = l
        /\ (IF 2 >= 2 THEN e.from.debt + e.loan ELSE e.from.debt) = d
        /\ (IF 2 = 2 THEN e.from.usdc + e.loan ELSE e.from.usdc) = u
        /\ (IF 2 = 3 THEN e.from.shares + e.loan ELSE e.from.shares) = e.from.shares
    BY <1>2
  <2>. QED
    BY <2>1, Zenon DEF Activated
<1>6. Activated(e, 3) =
        [e.from EXCEPT !.coll = 0, !.lent = l, !.debt = d, !.usdc = e.from.usdc, !.shares = s]
  <2>1. /\ (IF 3 >= 1 THEN 0 ELSE e.from.coll) = 0
        /\ (IF 3 >= 1 THEN e.from.lent + e.coll ELSE e.from.lent) = l
        /\ (IF 3 >= 2 THEN e.from.debt + e.loan ELSE e.from.debt) = d
        /\ (IF 3 = 2 THEN e.from.usdc + e.loan ELSE e.from.usdc) = e.from.usdc
        /\ (IF 3 = 3 THEN e.from.shares + e.loan ELSE e.from.shares) = s
    BY <1>2
  <2>. QED
    BY <2>1, Zenon DEF Activated
<1>7. Activated(e, 0) = e.from
  BY <1>1, <1>3 DEF Safe
<1>8. Activated(e, 1) = [e.from EXCEPT !.coll = 0, !.lent = l]
      /\ Activated(e, 1).debt = e.from.debt /\ Activated(e, 1).usdc = e.from.usdc
  BY <1>1, <1>4 DEF Safe
<1>9. Activated(e, 2) = [Activated(e, 1) EXCEPT !.debt = d, !.usdc = u]
  BY <1>1, <1>4, <1>5 DEF Safe
<1>10. Activated(e, 2)["usdc"] = u /\ Activated(e, 2)["shares"] = e.from.shares
       /\ u - e.loan = e.from.usdc
  <2>1. Activated(e, 2).usdc = u /\ Activated(e, 2).shares = e.from.shares
    BY <1>1, <1>5 DEF Safe
  <2>2. u - e.loan = e.from.usdc
    BY <1>1, <1>2, SafeFields
  <2>. QED
    BY <2>1, <2>2
<1>11. Activated(e, 3) = [Activated(e, 2) EXCEPT !["usdc"] = e.from.usdc, !["shares"] = s]
  BY <1>1, <1>5, <1>6 DEF Safe
<1>12. Activated(e, 3) = [e.from EXCEPT !.coll = 0, !.lent = l, !.debt = d, !.shares = s]
  BY <1>1, <1>6 DEF Safe
<1>13. Activated(e, 1) = [e.from EXCEPT !.coll = 0, !.lent = e.from.lent + e.coll]
  BY <1>2, <1>8
<1>14. Activated(e, 2) = [Activated(e, 1) EXCEPT !.debt = Activated(e, 1).debt + e.loan,
                                                !.usdc = Activated(e, 1).usdc + e.loan]
  BY <1>2, <1>8, <1>9
<1>15. Activated(e, 3) = [Activated(e, 2) EXCEPT !["usdc"] = Activated(e, 2)["usdc"] - e.loan,
                                                !["shares"] = Activated(e, 2)["shares"] + e.loan]
  BY <1>2, <1>10, <1>11
<1>16. Activated(e, 3) = [e.from EXCEPT !.coll = 0, !.lent = @ + e.coll,
                                       !.debt = @ + e.loan, !.shares = @ + e.loan]
  BY <1>2, <1>12
<1>. QED
  BY <1>7, <1>13, <1>14, <1>15, <1>16

LEMMA EarnUntouched ==
  ASSUME EarnInv, UNCHANGED earn, Passes("earn")
  PROVE  EarnInv'
<1>1. calls'["earn"] = calls["earn"] /\ earn' = earn
      /\ ("earn" \notin disturbed' => "earn" \notin disturbed /\ safe' = safe)
  BY DEF Passes
<1>2. ActivationReportIsTrue'
  BY <1>1 DEF EarnInv, ActivationReportIsTrue
<1>3. ASSUME EarnFollows PROVE EarnFollows'
  <2>1. PICK k \in 1..3 :
          /\ earn.steps = Running(k) /\ earn.said = "nothing"
          /\ calls["earn"] # NoCall /\ calls["earn"].job = ActivationJob(earn, k)
          /\ "earn" \notin disturbed /\ earn.coll = earn.from.coll =>
               /\ calls["earn"].st = "asked" => safe = Activated(earn, k - 1)
               /\ calls["earn"].st = "success" => safe = Activated(earn, k)
    BY <1>3 DEF EarnFollows
  <2>. QED
    BY <1>1, <2>1 DEF EarnFollows
<1>. QED
  BY <1>1, <1>2, <1>3 DEF EarnInv

LEMMA ActivationJobs ==
  ASSUME NEW e \in Earns, NEW k \in 1..3
  PROVE  ActivationJob(e, k) \in Jobs
BY DEF ActivationJob, Job, Jobs, PlainJobs, Earns

LEMMA EarnServed ==
  ASSUME JobsInv, EarnInv, Serve("earn"), UNCHANGED earn
  PROVE  EarnInv'
<1>1. PICK o \in Outcomes(calls["earn"].job) :
        /\ o \in OutcomeRecords /\ safe' = o.safe
        /\ calls'["earn"] = [job |-> calls["earn"].job, st |-> o.st, note |-> o.note]
  BY ServeStep DEF Callers
<1>2. ("earn" \in disturbed' <=> "earn" \in disturbed) /\ safe \in Safe
  BY ServeStep, JobsTypes DEF Callers
<1>3. calls["earn"].st = "asked" /\ earn' = earn /\ earn \in Earns /\ calls["earn"] # NoCall
  BY NoCallIsNone DEF Serve, Waiting, EarnInv
<1>4. CASE earn.doing = "deposit"
  BY <1>3, <1>4 DEF EarnInv, ActivationReportIsTrue
<1>5. CASE earn.doing = "loop"
  <2>1. PICK k \in 1..3 :
          /\ earn.steps = Running(k) /\ earn.said = "nothing"
          /\ calls["earn"].job = ActivationJob(earn, k)
          /\ "earn" \notin disturbed /\ earn.coll = earn.from.coll => safe = Activated(earn, k - 1)
    BY <1>3, <1>5 DEF EarnInv, EarnFollows
  <2>2. calls'["earn"] # NoCall /\ calls'["earn"].job = ActivationJob(earn, k)
        /\ calls'["earn"].st = o.st /\ o.st # "asked"
    BY <1>1, <2>1, NoCallIsNone DEF OutcomeRecords
  <2>3. ASSUME o.st = "success", "earn" \notin disturbed, earn.coll = earn.from.coll
        PROVE  safe' = Activated(earn, k)
    <3>. earn.coll \in Nat /\ earn.loan \in Nat /\ earn.from \in Safe
      BY <1>3 DEF Earns
    <3>1. CASE k = 1
      <4>1. o \in Lend(earn.coll)
        BY <1>1, <2>1, <3>1 DEF Outcomes, ActivationJob, Job
      <4>2. safe = earn.from
        <5>1. k - 1 = 0 /\ safe = Activated(earn, k - 1)
          BY <2>1, <2>3, <3>1
        <5>. QED
          BY <1>3, <5>1, ActivatedSafe
      <4>. QED
        BY <1>1, <1>2, <1>3, <2>3, <3>1, <4>1, <4>2, LendOutcome, ActivatedSafe
    <3>2. CASE k = 2
      <4>1. o \in Borrow(earn.loan)
        BY <1>1, <2>1, <3>2 DEF Outcomes, ActivationJob, Job
      <4>2. safe = Activated(earn, 1)
        BY <2>1, <2>3, <3>2
      <4>. QED
        BY <1>1, <1>2, <1>3, <2>3, <3>2, <4>1, <4>2, BorrowOutcome, ActivatedSafe
    <3>3. CASE k = 3
      <4>1. o \in Stake(earn.loan)
        BY <1>1, <2>1, <3>3 DEF Outcomes, ActivationJob, Job
      <4>2. safe = Activated(earn, 2)
        BY <2>1, <2>3, <3>3
      <4>3. o.safe = [safe EXCEPT !["usdc"] = safe["usdc"] - earn.loan,
                                  !["shares"] = safe["shares"] + earn.loan]
        BY <1>2, <2>3, <4>1, StakeOutcome
      <4>. QED
        BY <1>1, <1>3, <3>3, <4>2, <4>3, ActivatedSafe
    <3>. QED
      BY <3>1, <3>2, <3>3
  <2>4. EarnFollows'
    BY <1>2, <1>3, <2>1, <2>2, <2>3 DEF EarnFollows, Activated, ActivationJob
  <2>5. earn'.said = "nothing"
    BY <1>3, <2>1
  <2>. QED
    BY <1>3, <1>5, <2>4, <2>5 DEF EarnInv, ActivationReportIsTrue
<1>. QED
  BY <1>3, <1>4, <1>5 DEF EarnInv, Earns

LEMMA EarnRefused ==
  ASSUME JobsInv, EarnInv, TurnAway("earn") \/ LoseAnswer("earn"), UNCHANGED earn
  PROVE  EarnInv'
<1>1. /\ disturbed' = disturbed /\ safe' = safe /\ earn' = earn
      /\ calls["earn"].st = "asked" /\ calls'["earn"].job = calls["earn"].job
      /\ calls'["earn"] \in Calls /\ calls'["earn"].st \in {"error", "needs_whitelist"}
  BY RefusedStep DEF Callers
<1>2. calls["earn"] # NoCall /\ calls'["earn"] # NoCall /\ earn.doing # "none"
  BY <1>1, NoCallIsNone DEF EarnInv
<1>3. ActivationReportIsTrue'
  BY <1>1 DEF EarnInv, ActivationReportIsTrue
<1>4. ASSUME EarnFollows PROVE EarnFollows'
  BY <1>1, <1>2, <1>4 DEF EarnFollows, Activated, ActivationJob
<1>. QED
  BY <1>1, <1>2, <1>3, <1>4 DEF EarnInv

LEMMA ActivateLoopKeeps ==
  ASSUME JobsInv, EarnInv, ActivateLoop
  PROVE  JobsInv' /\ EarnInv' /\ StepOf("earn") /\ loop' = loop
<1>. DEFINE e == [doing |-> "loop", steps |-> <<"running", "pending", "pending">>, coll |-> shown.coll,
                  loan |-> Loan(shown.coll), from |-> safe, said |-> "nothing"]
<1>1. /\ Begin("earn") /\ earn' = e /\ Ask("earn", ActivationJob(e, 1))
      /\ UNCHANGED <<use, safe, shown, late, loop>>
  BY DEF ActivateLoop
<1>2. shown.coll \in Nat /\ safe \in Safe
  BY JobsTypes DEF Fields
<1>3. Loan(shown.coll) \in Nat
  <2>1. PICK p \in Nat : p = LTV_PCT - 1
    BY LoopAssumption
  <2>2. shown.coll * p \in Nat
    BY <1>2, <2>1
  <2>. QED
    BY <2>1, <2>2 DEF Loan
<1>4. e \in Earns
  BY <1>2, <1>3 DEF Earns, Stages, NoSteps
<1>5. e.steps = Running(1) /\ e.said = "nothing" /\ e.doing = "loop" /\ e.from = safe
  BY DEF Running
<1>. HIDE DEF e
<1>6. JobsInv' /\ StepOf("earn") /\ calls'["earn"] = Asking(ActivationJob(e, 1))
  BY <1>1, <1>4, ActivationJobs, AskStep DEF Callers
<1>7. calls'["earn"] # NoCall /\ calls'["earn"].job = ActivationJob(e, 1) /\ calls'["earn"].st = "asked"
  <2>1. ActivationJob(e, 1) \in Jobs
    BY <1>4, ActivationJobs
  <2>. QED
    BY <1>6, <2>1, AskingType
<1>8. safe' = Activated(e, 0)
  BY <1>1, <1>4, <1>5, ActivatedSafe
<1>9. EarnFollows'
  BY <1>1, <1>5, <1>7, <1>8 DEF EarnFollows, Activated, ActivationJob
<1>. QED
  BY <1>1, <1>4, <1>5, <1>6, <1>9 DEF EarnInv, ActivationReportIsTrue

LEMMA ActivationStepKeeps ==
  ASSUME JobsInv, EarnInv, ActivationStep
  PROVE  JobsInv' /\ EarnInv' /\ StepOf("earn") /\ loop' = loop
<1>1. /\ earn.doing = "loop" /\ Answered("earn") /\ earn \in Earns
      /\ UNCHANGED <<use, safe, shown, late, disturbed, budget, loop>>
  BY DEF ActivationStep, EarnInv
<1>2. PICK k \in 1..3 :
        /\ earn.steps = Running(k) /\ earn.said = "nothing"
        /\ "earn" \notin disturbed /\ earn.coll = earn.from.coll =>
             (calls["earn"].st = "success" => safe = Activated(earn, k))
  BY <1>1 DEF EarnInv, EarnFollows
<1>3. CASE calls["earn"].st # "success"
  <2>1. HangUp("earn") /\ earn' = [earn EXCEPT !.doing = "none", !.steps = Broken(@), !.said = "error"]
    BY <1>3 DEF ActivationStep, Accepted
  <2>2. JobsInv' /\ StepOf("earn") /\ calls'["earn"] = NoCall
    BY <1>1, <2>1, HangUpStep DEF Callers
  <2>3. earn' \in Earns /\ earn'.doing = "none" /\ earn'.said = "error"
    BY <1>1, <1>2, <2>1, RunningSteps DEF Earns
  <2>. QED
    BY <1>1, <2>2, <2>3 DEF EarnInv, ActivationReportIsTrue
<1>4. CASE calls["earn"].st = "success" /\ k < 3
  <2>1. Ask("earn", ActivationJob(earn, k + 1)) /\ earn' = [earn EXCEPT !.steps = Running(k + 1)]
    BY <1>2, <1>4, RunningSteps DEF ActivationStep, Accepted
  <2>2. k + 1 \in 1..3
    BY <1>4
  <2>3. /\ earn' \in Earns /\ earn'.doing = "loop" /\ earn'.said = "nothing" /\ earn'.steps = Running(k + 1)
        /\ earn'.coll = earn.coll /\ earn'.loan = earn.loan /\ earn'.from = earn.from
    BY <1>1, <1>2, <2>1, <2>2, RunningSteps DEF Earns
  <2>4. JobsInv' /\ StepOf("earn") /\ calls'["earn"] = Asking(ActivationJob(earn, k + 1))
    BY <1>1, <2>1, <2>2, ActivationJobs, AskStep DEF Callers
  <2>5. calls'["earn"] # NoCall /\ calls'["earn"].job = ActivationJob(earn, k + 1)
        /\ calls'["earn"].st = "asked"
    BY <1>1, <2>2, <2>4, ActivationJobs, AskingType
  <2>6. ActivationJob(earn', k + 1) = ActivationJob(earn, k + 1) /\ Activated(earn', k) = Activated(earn, k)
    BY <2>3 DEF ActivationJob, Activated
  <2>7. k + 1 - 1 = k
    OBVIOUS
  <2>8. EarnFollows'
    BY <1>1, <1>2, <1>4, <2>2, <2>3, <2>5, <2>6, <2>7 DEF EarnFollows
  <2>. QED
    BY <1>1, <2>3, <2>4, <2>8 DEF EarnInv, ActivationReportIsTrue
<1>5. CASE calls["earn"].st = "success" /\ ~(k < 3)
  <2>1. HangUp("earn") /\ earn' = [earn EXCEPT !.doing = "none", !.steps = After(@), !.said = "activated"]
    BY <1>2, <1>5, RunningSteps DEF ActivationStep, Accepted
  <2>2. JobsInv' /\ StepOf("earn") /\ calls'["earn"] = NoCall
    BY <1>1, <2>1, HangUpStep DEF Callers
  <2>3. /\ earn' \in Earns /\ earn'.doing = "none"
        /\ earn'.coll = earn.coll /\ earn'.loan = earn.loan /\ earn'.from = earn.from
    BY <1>1, <1>2, <2>1, RunningSteps DEF Earns
  <2>4. ASSUME "earn" \notin disturbed', earn'.coll = earn'.from.coll
        PROVE  safe' = [earn'.from EXCEPT !.coll = 0, !.lent = @ + earn'.coll,
                                          !.debt = @ + earn'.loan, !.shares = @ + earn'.loan]
    <3>1. k = 3 /\ safe' = Activated(earn, k)
      BY <1>1, <1>2, <1>5, <2>3, <2>4
    <3>2. safe' = [earn.from EXCEPT !.coll = 0, !.lent = @ + earn.coll,
                                    !.debt = @ + earn.loan, !.shares = @ + earn.loan]
      BY <1>1, <3>1, ActivatedSafe
    <3>. QED
      BY <2>3, <3>2
  <2>. QED
    BY <1>1, <2>2, <2>3, <2>4 DEF EarnInv, ActivationReportIsTrue
<1>. QED
  BY <1>3, <1>4, <1>5

LEMMA DepositIdeaKeeps ==
  ASSUME JobsInv, EarnInv, DepositIdea
  PROVE  JobsInv' /\ EarnInv' /\ StepOf("earn") /\ loop' = loop
<1>1. /\ Begin("earn") /\ Ask("earn", Job("stake", shown.row))
      /\ earn' = [earn EXCEPT !.doing = "deposit", !.said = "nothing"]
      /\ UNCHANGED <<use, safe, shown, late, loop>>
  BY DEF DepositIdea
<1>2. shown.row \in Nat
  BY JobsTypes
<1>3. Job("stake", shown.row) \in Jobs
  BY <1>2 DEF Job, Jobs, PlainJobs
<1>4. earn' \in Earns /\ earn'.doing = "deposit" /\ earn'.said = "nothing"
  BY <1>1 DEF EarnInv, Earns
<1>5. JobsInv' /\ StepOf("earn")
  BY <1>1, <1>3, AskStep DEF Callers
<1>. QED
  BY <1>1, <1>4, <1>5 DEF EarnInv, ActivationReportIsTrue

LEMMA DepositIdeaEndsKeeps ==
  ASSUME JobsInv, EarnInv, DepositIdeaEnds
  PROVE  JobsInv' /\ EarnInv' /\ StepOf("earn") /\ loop' = loop
<1>1. PICK said \in {"deposited", "error"} : earn' = [earn EXCEPT !.doing = "none", !.said = said]
  BY DEF DepositIdeaEnds
<1>2. HangUp("earn") /\ UNCHANGED <<use, safe, shown, late, disturbed, budget, loop>>
  BY DEF DepositIdeaEnds
<1>3. earn' \in Earns /\ earn'.doing = "none" /\ earn'.said # "activated"
  BY <1>1 DEF EarnInv, Earns
<1>4. JobsInv' /\ StepOf("earn") /\ calls'["earn"] = NoCall
  BY <1>2, HangUpStep DEF Callers
<1>. QED
  BY <1>2, <1>3, <1>4 DEF EarnInv, ActivationReportIsTrue

-----------------------------------------------------------------------------
(* The loop card. *)

LEMMA LoopUntouched ==
  ASSUME LoopInv, UNCHANGED loop, Passes("loop")
  PROVE  LoopInv'
<1>1. calls'["loop"] = calls["loop"] /\ loop' = loop
      /\ ("loop" \notin disturbed' => "loop" \notin disturbed /\ safe' = safe)
  BY DEF Passes
<1>2. DeactivationReportIsTrue'
  BY <1>1 DEF LoopInv, DeactivationReportIsTrue
<1>3. ASSUME LoopFollows PROVE LoopFollows'
  BY <1>1, <1>3 DEF LoopFollows, Deactivated, DeactivationJob
<1>. QED
  BY <1>1, <1>2, <1>3 DEF LoopInv

LEMMA DeactivationJobs ==
  ASSUME NEW l \in Loops, NEW k \in 1..3
  PROVE  DeactivationJob(l, k) \in Jobs
BY DEF DeactivationJob, Job, Jobs, PlainJobs, Loops

LEMMA LoopServed ==
  ASSUME JobsInv, LoopInv, Serve("loop"), UNCHANGED loop
  PROVE  LoopInv'
<1>1. PICK o \in Outcomes(calls["loop"].job) :
        /\ o \in OutcomeRecords /\ safe' = o.safe
        /\ calls'["loop"] = [job |-> calls["loop"].job, st |-> o.st, note |-> o.note]
  BY ServeStep DEF Callers
<1>2. ("loop" \in disturbed' <=> "loop" \in disturbed) /\ safe \in Safe
  BY ServeStep, JobsTypes DEF Callers
<1>3. calls["loop"].st = "asked" /\ loop' = loop /\ loop \in Loops /\ calls["loop"] # NoCall
  BY NoCallIsNone DEF Serve, Waiting, LoopInv
<1>4. loop.busy
  BY <1>3 DEF LoopInv
<1>5. PICK k \in 1..3 :
        /\ loop.steps = Running(k)
        /\ calls["loop"].job = DeactivationJob(loop, k)
        /\ "loop" \notin disturbed => Deactivated(k - 1, loop.notes[2], FALSE)
  BY <1>3, <1>4 DEF LoopInv, LoopFollows
<1>6. /\ calls'["loop"] # NoCall /\ calls'["loop"].job = DeactivationJob(loop, k)
      /\ calls'["loop"].st = o.st /\ o.st # "asked" /\ calls'["loop"].note = o.note
  BY <1>1, <1>5, NoCallIsNone DEF OutcomeRecords
<1>7. ASSUME o.st = "success", "loop" \notin disturbed
      PROVE  /\ safe'.shares = loop.from.shares - loop.shares
             /\ k >= 2 /\ ~(IF k = 2 THEN o.note ELSE loop.notes[2]) => safe'.debt = 0
             /\ k >= 3 /\ ~o.note => safe'.lent = 0 /\ safe'.debt = 0
             /\ safe'.coll + safe'.lent = loop.from.coll + loop.from.lent
  <2>. loop.from \in Safe /\ loop.shares \in Nat /\ o.note \in BOOLEAN /\ o.safe \in Safe
    BY <1>1, <1>3 DEF Loops, OutcomeRecords
  <2>1. CASE k = 1
    <3>1. o \in Unstake(loop.shares)
      BY <1>1, <1>5, <2>1 DEF Outcomes, DeactivationJob, Job
    <3>2. k - 1 = 0
      BY <2>1
    <3>3. safe.shares = loop.from.shares - 0 /\ safe.coll + safe.lent = loop.from.coll + loop.from.lent
      BY <1>5, <1>7, <3>2 DEF Deactivated
    <3>4. o.safe.shares = safe.shares - loop.shares /\ o.safe.coll = safe.coll /\ o.safe.lent = safe.lent
      BY <1>2, <1>7, <3>1, UnstakeOutcome
    <3>. QED
      BY <1>1, <1>2, <2>1, <3>3, <3>4, SafeFields
  <2>2. CASE k = 2
    <3>1. o \in RepayAll
      BY <1>1, <1>5, <2>2 DEF Outcomes, DeactivationJob, Job
    <3>2. k - 1 = 1
      BY <2>2
    <3>3. safe.shares = loop.from.shares - loop.shares
          /\ safe.coll + safe.lent = loop.from.coll + loop.from.lent
      BY <1>5, <1>7, <3>2 DEF Deactivated
    <3>4. o.safe.shares = safe.shares /\ o.safe.coll = safe.coll /\ o.safe.lent = safe.lent
          /\ (o.note = FALSE => o.safe.debt = 0)
      BY <1>2, <1>7, <3>1, RepayAllOutcome
    <3>. QED
      BY <1>1, <1>2, <2>2, <3>3, <3>4, SafeFields
  <2>3. CASE k = 3
    <3>1. o \in WithdrawCollateral
      BY <1>1, <1>5, <2>3 DEF Outcomes, DeactivationJob, Job
    <3>2. k - 1 = 2
      BY <2>3
    <3>3. /\ safe.shares = loop.from.shares - loop.shares
          /\ safe.coll + safe.lent = loop.from.coll + loop.from.lent
          /\ ~loop.notes[2] => safe.debt = 0
      BY <1>5, <1>7, <3>2 DEF Deactivated
    <3>4. o.safe.shares = safe.shares /\ o.safe.debt = safe.debt
          /\ o.safe.coll + o.safe.lent = safe.coll + safe.lent
          /\ (o.note = FALSE => o.safe.lent = 0 /\ o.safe.debt = 0)
      BY <1>2, <1>7, <3>1, WithdrawOutcome
    <3>. QED
      BY <1>1, <1>2, <2>3, <3>3, <3>4, SafeFields
  <2>. QED
    BY <2>1, <2>2, <2>3
<1>8. LoopFollows'
  <2>1. k >= 1
    OBVIOUS
  <2>. QED
    BY <1>2, <1>3, <1>5, <1>6, <1>7, <2>1 DEF LoopFollows, Deactivated, DeactivationJob
<1>9. DeactivationReportIsTrue'
  BY <1>3, <1>5, RunningSteps DEF DeactivationReportIsTrue
<1>. QED
  BY <1>3, <1>4, <1>8, <1>9 DEF LoopInv

LEMMA LoopRefused ==
  ASSUME JobsInv, LoopInv, TurnAway("loop") \/ LoseAnswer("loop"), UNCHANGED loop
  PROVE  LoopInv'
<1>1. /\ disturbed' = disturbed /\ safe' = safe /\ loop' = loop
      /\ calls["loop"].st = "asked" /\ calls'["loop"].job = calls["loop"].job
      /\ calls'["loop"] \in Calls /\ calls'["loop"].st \in {"error", "needs_whitelist"}
  BY RefusedStep DEF Callers
<1>2. calls["loop"] # NoCall /\ calls'["loop"] # NoCall /\ loop.busy
  BY <1>1, NoCallIsNone DEF LoopInv
<1>3. DeactivationReportIsTrue'
  BY <1>1 DEF LoopInv, DeactivationReportIsTrue
<1>4. ASSUME LoopFollows PROVE LoopFollows'
  BY <1>1, <1>2, <1>4 DEF LoopFollows, DeactivationJob
<1>. QED
  BY <1>1, <1>2, <1>3, <1>4 DEF LoopInv

LEMMA DeactivateLoopKeeps ==
  ASSUME JobsInv, LoopInv, DeactivateLoop
  PROVE  JobsInv' /\ LoopInv' /\ StepOf("loop") /\ earn' = earn
<1>0. PICK first \in 1..2 : first = (IF shown.shares > 0 THEN 1 ELSE 2)
  OBVIOUS
<1>. DEFINE l == [busy |-> TRUE, shares |-> shown.shares, from |-> safe,
                  steps |-> IF first = 1 THEN <<"running", "pending", "pending">>
                                         ELSE <<"done", "running", "pending">>,
                  notes |-> [i \in 1..3 |-> FALSE]]
<1>1. /\ Begin("loop") /\ loop' = l /\ Ask("loop", DeactivationJob(l, first))
      /\ UNCHANGED <<use, safe, shown, late, earn>>
  BY <1>0 DEF DeactivateLoop
<1>2. shown.shares \in Nat /\ safe \in Safe
  BY JobsTypes DEF Fields
<1>3. l.steps = Running(first)
  BY DEF Running
<1>4. l \in Loops
  <2>1. l.steps \in [1..3 -> Stages]
    BY <1>3, RunningSteps
  <2>. QED
    BY <1>2, <2>1 DEF Loops
<1>5. l.busy /\ l.from = safe /\ l.shares = shown.shares /\ l.notes[2] = FALSE
  OBVIOUS
<1>. HIDE DEF l
<1>6. JobsInv' /\ StepOf("loop") /\ calls'["loop"] = Asking(DeactivationJob(l, first))
      /\ DeactivationJob(l, first) \in Jobs
  BY <1>1, <1>4, DeactivationJobs, AskStep DEF Callers
<1>7. /\ calls'["loop"] # NoCall /\ calls'["loop"].job = DeactivationJob(l, first)
      /\ calls'["loop"].st = "asked" /\ calls'["loop"].note = FALSE
  BY <1>6, AskingType
<1>8. /\ safe.shares = l.from.shares - (IF first - 1 >= 1 THEN l.shares ELSE 0)
      /\ safe.coll + safe.lent = l.from.coll + l.from.lent
  BY <1>0, <1>2, <1>5, SafeFields
<1>9. ~(first - 1 >= 2) /\ ~(first - 1 >= 3) /\ first \in 1..3
  OBVIOUS
<1>10. LoopFollows'
  BY <1>1, <1>3, <1>7, <1>8, <1>9 DEF LoopFollows, Deactivated, DeactivationJob
<1>11. DeactivationReportIsTrue'
  BY <1>1, <1>3, <1>9, RunningSteps DEF DeactivationReportIsTrue
<1>. QED
  BY <1>1, <1>4, <1>5, <1>6, <1>10, <1>11 DEF LoopInv

LEMMA DeactivationStepKeeps ==
  ASSUME JobsInv, LoopInv, DeactivationStep
  PROVE  JobsInv' /\ LoopInv' /\ StepOf("loop") /\ earn' = earn
<1>1. /\ loop.busy /\ Answered("loop") /\ loop \in Loops
      /\ UNCHANGED <<use, safe, shown, late, disturbed, budget, earn>>
  BY DEF DeactivationStep, LoopInv
<1>2. PICK k \in 1..3 :
        /\ loop.steps = Running(k)
        /\ "loop" \notin disturbed /\ calls["loop"].st = "success" =>
             Deactivated(k, IF k = 2 THEN calls["loop"].note ELSE loop.notes[2], calls["loop"].note)
  BY <1>1 DEF LoopInv, LoopFollows
<1>3. At(loop.steps) = k
  BY <1>2, RunningSteps
<1>4. calls["loop"].note \in BOOLEAN
  BY <1>1, WaitingCalls DEF Calls, Callers
<1>5. CASE calls["loop"].st # "success"
  <2>1. HangUp("loop") /\ loop' = [loop EXCEPT !.busy = FALSE, !.steps = Broken(@)]
    BY <1>5 DEF DeactivationStep, Accepted
  <2>2. JobsInv' /\ StepOf("loop") /\ calls'["loop"] = NoCall
    BY <1>1, <2>1, HangUpStep DEF Callers
  <2>3. loop' \in Loops /\ ~loop'.busy /\ loop'.steps = Broken(loop.steps)
    BY <1>1, <1>2, <2>1, RunningSteps DEF Loops
  <2>4. ~AllDone(loop'.steps)
    BY <1>2, <2>3, RunningSteps
  <2>. QED
    BY <1>1, <2>2, <2>3, <2>4 DEF LoopInv, DeactivationReportIsTrue
<1>6. CASE calls["loop"].st = "success" /\ k < 3
  <2>0. k < 3 /\ (k < 3) = TRUE
    BY <1>6
  <2>1. /\ Ask("loop", DeactivationJob(loop, k + 1))
        /\ loop' = [loop EXCEPT !.busy = k < 3, !.steps = After(@), !.notes[k] = calls["loop"].note]
    BY <1>3, <1>6 DEF DeactivationStep, Accepted
  <2>2. k + 1 \in 1..3
    BY <1>6
  <2>3. PICK notes \in [1..3 -> BOOLEAN] : notes = [loop.notes EXCEPT ![k] = calls["loop"].note]
    BY <1>1, <1>4 DEF Loops
  <2>4. /\ loop' = [loop EXCEPT !.busy = TRUE, !.steps = Running(k + 1), !.notes = notes]
    BY <1>2, <1>6, <2>0, <2>1, <2>3, RunningSteps
  <2>5. /\ loop' \in Loops /\ loop'.busy /\ loop'.steps = Running(k + 1)
        /\ loop'.shares = loop.shares /\ loop'.from = loop.from /\ loop'.notes = notes
    BY <1>1, <2>2, <2>4, RunningSteps DEF Loops
  <2>6. JobsInv' /\ StepOf("loop") /\ calls'["loop"] = Asking(DeactivationJob(loop, k + 1))
        /\ DeactivationJob(loop, k + 1) \in Jobs
    BY <1>1, <2>1, <2>2, DeactivationJobs, AskStep DEF Callers
  <2>7. calls'["loop"] # NoCall /\ calls'["loop"].job = DeactivationJob(loop, k + 1)
        /\ calls'["loop"].st = "asked" /\ calls'["loop"].note = FALSE
    BY <2>6, AskingType
  <2>8. DeactivationJob(loop', k + 1) = DeactivationJob(loop, k + 1)
    BY <2>5 DEF DeactivationJob
  <2>9. notes[2] = (IF k = 2 THEN calls["loop"].note ELSE loop.notes[2])
    BY <1>1, <2>3 DEF Loops
  <2>10. k + 1 - 1 = k /\ ~(k >= 3)
    BY <1>6
  <2>11. ASSUME "loop" \notin disturbed'
         PROVE  /\ safe'.shares = loop'.from.shares - (IF k >= 1 THEN loop'.shares ELSE 0)
                /\ k >= 2 /\ ~notes[2] => safe'.debt = 0
                /\ safe'.coll + safe'.lent = loop'.from.coll + loop'.from.lent
    BY <1>1, <1>2, <1>6, <2>5, <2>9, <2>11 DEF Deactivated
  <2>12. LoopFollows'
    BY <2>2, <2>5, <2>7, <2>8, <2>10, <2>11 DEF LoopFollows, Deactivated
  <2>13. ~AllDone(loop'.steps)
    BY <2>2, <2>5, RunningSteps
  <2>. QED
    BY <1>1, <2>5, <2>6, <2>12, <2>13 DEF LoopInv, DeactivationReportIsTrue
<1>7. CASE calls["loop"].st = "success" /\ ~(k < 3)
  <2>0. k = 3 /\ (k < 3) = FALSE
    BY <1>7
  <2>1. /\ HangUp("loop")
        /\ loop' = [loop EXCEPT !.busy = k < 3, !.steps = After(@), !.notes[k] = calls["loop"].note]
    BY <1>3, <1>7 DEF DeactivationStep, Accepted
  <2>2. JobsInv' /\ StepOf("loop") /\ calls'["loop"] = NoCall
    BY <1>1, <2>1, HangUpStep DEF Callers
  <2>3. PICK notes \in [1..3 -> BOOLEAN] : notes = [loop.notes EXCEPT ![k] = calls["loop"].note]
    BY <1>1, <1>4 DEF Loops
  <2>4. /\ loop' = [loop EXCEPT !.busy = FALSE, !.steps = After(Running(k)), !.notes = notes]
    BY <1>2, <2>0, <2>1, <2>3
  <2>5. /\ loop' \in Loops /\ ~loop'.busy
        /\ loop'.shares = loop.shares /\ loop'.from = loop.from /\ loop'.notes = notes
    BY <1>1, <2>4, RunningSteps DEF Loops
  <2>6. notes[2] = loop.notes[2] /\ notes[3] = calls["loop"].note
    BY <1>1, <2>0, <2>3 DEF Loops
  <2>7. ASSUME "loop" \notin disturbed'
        PROVE  /\ safe'.shares = loop'.from.shares - loop'.shares
               /\ ~notes[2] => safe'.debt = 0
               /\ ~notes[3] => safe'.lent = 0 /\ safe'.debt = 0
               /\ safe'.coll + safe'.lent = loop'.from.coll + loop'.from.lent
    BY <1>1, <1>2, <1>7, <2>0, <2>5, <2>6, <2>7 DEF Deactivated
  <2>8. DeactivationReportIsTrue'
    BY <2>5, <2>7 DEF DeactivationReportIsTrue
  <2>. QED
    BY <1>1, <2>2, <2>5, <2>8 DEF LoopInv
<1>. QED
  BY <1>5, <1>6, <1>7

LEMMA KaminoKeeps ==
  ASSUME JobsInv, KaminoWithdraw \/ KaminoWithdrawEnds
  PROVE  JobsInv' /\ StepOf("kamino") /\ UNCHANGED loopVars
<1>1. CASE KaminoWithdraw
  <2>1. shown.shares \in Nat
    BY JobsTypes DEF Fields
  <2>2. Job("unstake", shown.shares) \in Jobs
    BY <2>1 DEF Job, Jobs, PlainJobs
  <2>. QED
    BY <1>1, <2>2, AskStep DEF KaminoWithdraw, Callers
<1>2. CASE KaminoWithdrawEnds
  BY <1>2, HangUpStep DEF KaminoWithdrawEnds, Callers
<1>. QED
  BY <1>1, <1>2

-----------------------------------------------------------------------------
(* The buttons. *)

LEMMA ButtonsUntouched ==
  ASSUME ButtonInv, UNCHANGED buttons, \A d \in ButtonCalls : Passes(d)
  PROVE  ButtonInv'
<1>1. buttons' = buttons /\ buttons \in ButtonRecords
  BY DEF ButtonInv
<1>2. buttons.by \in ButtonCalls
  BY <1>1 DEF ButtonRecords
<1>3. \A d \in ButtonCalls : calls'[d] = calls[d]
  BY DEF Passes
<1>4. buttons.by \notin disturbed' => buttons.by \notin disturbed /\ safe' = safe
  BY <1>2 DEF Passes
<1>5. ASSUME ButtonFollows PROVE ButtonFollows'
  BY <1>1, <1>2, <1>3, <1>4, <1>5 DEF ButtonFollows
<1>. QED
  BY <1>1, <1>5 DEF ButtonInv

LEMMA SellOutcome ==
  ASSUME NEW token, NEW n, NEW o \in Sell(token, n), o.st = "success"
  PROVE  o.safe = [safe EXCEPT ![token] = @ - n, !.usdc = @ + n]
<1>1. o # Failure
  BY DEF Failure, Answer
<1>2. o = Success([safe EXCEPT ![token] = @ - n, !["usdc"] = @ + n])
  BY <1>1, Zenon DEF Sell, Moves
<1>. QED
  BY <1>2, Zenon DEF Success, Answer

LEMMA ButtonOutcome ==
  ASSUME safe \in Safe, NEW job \in Jobs, job.kind \in ButtonKinds,
         NEW o \in Outcomes(job), o.st = "success"
  PROVE  ButtonClaim(job, safe, o.safe)
<1>0. job.kind # "sell" => job.n \in Nat
  BY DEF Jobs, PlainJobs, TokenJobs
<1>1. CASE job.kind = "sell"
  <2>1. o \in Sell(job.token, job.n)
    BY <1>1 DEF Outcomes
  <2>2. o.safe = [safe EXCEPT ![job.token] = @ - job.n, !.usdc = @ + job.n]
    BY <2>1, SellOutcome
  <2>. QED
    BY <1>1, <2>2 DEF ButtonClaim
<1>2. CASE job.kind = "borrow"
  <2>1. o \in Borrow(job.n)
    BY <1>2 DEF Outcomes
  <2>2. o.safe = [safe EXCEPT !.debt = safe.debt + job.n, !.usdc = safe.usdc + job.n]
    BY <1>0, <1>2, <2>1, BorrowOutcome
  <2>. QED
    BY <1>2, <2>2 DEF ButtonClaim
<1>3. CASE job.kind = "repay"
  <2>1. o \in Repay(job.n)
    BY <1>3 DEF Outcomes
  <2>2. o.safe = [safe EXCEPT !.usdc = safe.usdc - job.n, !.debt = safe.debt - job.n]
    BY <1>0, <1>3, <2>1, RepayOutcome
  <2>3. o.safe = [safe EXCEPT !.debt = safe.debt - job.n, !.usdc = safe.usdc - job.n]
    BY <2>2
  <2>. QED
    BY <1>3, <2>3 DEF ButtonClaim
<1>4. CASE job.kind = "repay_all"
  <2>1. o \in RepayAll
    BY <1>4 DEF Outcomes
  <2>2. o.safe.coll = safe.coll /\ o.safe.lent = safe.lent
    BY <2>1, RepayAllOutcome
  <2>. QED
    BY <1>4, <2>2 DEF ButtonClaim
<1>5. CASE job.kind = "withdraw_collateral"
  <2>1. o \in WithdrawCollateral
    BY <1>5 DEF Outcomes
  <2>2. /\ o.safe.coll + o.safe.lent = safe.coll + safe.lent /\ o.safe \in Safe
        /\ safe.debt = 0 => o.safe = [safe EXCEPT !.lent = 0, !.coll = safe.coll + safe.lent]
    BY <2>1, WithdrawOutcome DEF OutcomeRecords
  <2>3. o.safe.lent + o.safe.coll = safe.lent + safe.coll
    BY <2>2, SafeFields
  <2>. QED
    BY <1>5, <2>2, <2>3 DEF ButtonClaim
<1>6. CASE job.kind = "rebalance"
  <2>1. o \in Rebalance
    BY <1>6 DEF Outcomes
  <2>2. o.safe.coll = safe.coll /\ o.safe.lent = safe.lent
    BY <2>1, RebalanceOutcome
  <2>. QED
    BY <1>6, <2>2 DEF ButtonClaim
<1>. QED
  BY <1>1, <1>2, <1>3, <1>4, <1>5, <1>6 DEF ButtonKinds

LEMMA ButtonServed ==
  ASSUME JobsInv, ButtonInv, NEW c \in ButtonCalls, Serve(c), UNCHANGED buttons
  PROVE  ButtonInv'
<1>0. c \in Callers
  BY DEF Callers
<1>1. PICK o \in Outcomes(calls[c].job) :
        /\ o \in OutcomeRecords /\ safe' = o.safe
        /\ calls'[c] = [job |-> calls[c].job, st |-> o.st, note |-> o.note]
  BY <1>0, ServeStep
<1>2. (c \in disturbed' <=> c \in disturbed) /\ safe \in Safe /\ StepOf(c)
  BY <1>0, ServeStep, JobsTypes
<1>3. calls[c].st = "asked" /\ buttons' = buttons /\ buttons \in ButtonRecords /\ calls[c] # NoCall
      /\ calls[c].job \in Jobs
  BY <1>0, NoCallIsNone, WaitingCalls DEF Serve, Waiting, ButtonInv
<1>4. ASSUME ButtonFollows PROVE ButtonFollows'
  <2>1. buttons.by = c
    BY <1>3, <1>4 DEF ButtonFollows
  <2>2. calls[c].job = buttons.label /\ buttons.result = "none" /\ buttons.label.kind \in ButtonKinds
        /\ (c \notin disturbed => safe = buttons.from)
    BY <1>3, <1>4, <2>1 DEF ButtonFollows, ButtonKinds
  <2>3. calls'[c].job = buttons.label /\ calls'[c].st = o.st /\ o.st # "asked"
    BY <1>1, <2>2 DEF OutcomeRecords
  <2>4. ASSUME c \notin disturbed', o.st = "success"
        PROVE  ButtonClaim(buttons.label, buttons.from, safe')
    <3>1. ButtonClaim(calls[c].job, safe, o.safe)
      BY <1>2, <1>3, <2>2, <2>4, ButtonOutcome
    <3>. QED
      BY <1>1, <1>2, <2>2, <2>4, <3>1
  <2>5. \A d \in ButtonCalls \ {c} : calls'[d] = NoCall
    <3>1. \A d \in ButtonCalls \ {c} : calls[d] = NoCall
      BY <1>4, <2>1 DEF ButtonFollows
    <3>. QED
      BY <1>2, <3>1 DEF StepOf, Passes, Callers
  <2>. QED
    BY <1>3, <2>1, <2>2, <2>3, <2>4, <2>5 DEF ButtonFollows, ButtonKinds
<1>. QED
  BY <1>3, <1>4 DEF ButtonInv

LEMMA ButtonRefused ==
  ASSUME JobsInv, ButtonInv, NEW c \in ButtonCalls, TurnAway(c) \/ LoseAnswer(c), UNCHANGED buttons
  PROVE  ButtonInv'
<1>0. c \in Callers
  BY DEF Callers
<1>1. /\ disturbed' = disturbed /\ safe' = safe /\ buttons' = buttons /\ StepOf(c)
      /\ calls[c].st = "asked" /\ calls'[c].job = calls[c].job
      /\ calls'[c].st \in {"error", "needs_whitelist"}
  BY <1>0, RefusedStep
<1>2. calls[c] # NoCall /\ calls'[c].st # "asked" /\ calls'[c].st # "success"
  BY <1>1, NoCallIsNone
<1>3. ASSUME ButtonFollows PROVE ButtonFollows'
  <2>1. buttons.by = c
    BY <1>2, <1>3 DEF ButtonFollows
  <2>2. calls[c].job = buttons.label /\ buttons.result = "none" /\ buttons.label.kind \in ButtonKinds
    BY <1>2, <1>3, <2>1 DEF ButtonFollows, ButtonKinds
  <2>3. \A d \in ButtonCalls \ {c} : calls'[d] = NoCall
    <3>1. \A d \in ButtonCalls \ {c} : calls[d] = NoCall
      BY <1>3, <2>1 DEF ButtonFollows
    <3>. QED
      BY <1>1, <3>1 DEF StepOf, Passes, Callers
  <2>. QED
    BY <1>1, <1>2, <2>1, <2>2, <2>3 DEF ButtonFollows, ButtonKinds
<1>. QED
  BY <1>1, <1>3 DEF ButtonInv

LEMMA PressKeeps ==
  ASSUME JobsInv, ButtonInv, NEW c \in ButtonCalls, NEW job \in Jobs, job.kind \in ButtonKinds,
         Press(c, job)
  PROVE  JobsInv' /\ ButtonInv' /\ StepOf(c)
<1>0. c \in Callers
  BY DEF Callers
<1>1. Begin(c) /\ Ask(c, job) /\ UNCHANGED <<use, safe, shown, late>>
  BY DEF Press
<1>2. JobsInv' /\ StepOf(c) /\ calls'[c] = Asking(job) /\ c \notin disturbed'
  BY <1>0, <1>1, AskStep
<1>3. PICK alone \in BOOLEAN : alone = (\A d \in ButtonCalls : calls[d] = NoCall)
  BY Zenon
<1>4. PICK converting \in {NoLabel, "tok", "coll"} :
        converting = (IF job.kind = "sell" THEN job.token ELSE buttons.converting)
  BY DEF Jobs, PlainJobs, TokenJobs, ButtonInv, ButtonRecords
<1>5. buttons' = [buttons EXCEPT !.rebalancing = TRUE, !.label = job, !.result = "none", !.from = safe,
                                 !.by = c, !.alone = alone, !.converting = converting]
  BY <1>3, <1>4, Zenon DEF Press
<1>6. safe \in Safe
  BY JobsTypes
<1>7. /\ buttons' \in ButtonRecords
      /\ buttons'.by = c /\ buttons'.label = job /\ buttons'.result = "none" /\ buttons'.from = safe
      /\ buttons'.alone = alone
  BY <1>5, <1>6 DEF ButtonInv, ButtonRecords
<1>8. ASSUME alone PROVE \A d \in ButtonCalls \ {c} : calls'[d] = NoCall
  <2>1. \A d \in ButtonCalls : calls[d] = NoCall
    BY <1>3, <1>8
  <2>. QED
    BY <1>2, <2>1 DEF StepOf, Passes, Callers
<1>9. calls'[c].job = job /\ calls'[c].st = "asked"
  BY <1>2 DEF Asking
<1>10. ASSUME alone PROVE ButtonFollows'
  BY <1>1, <1>2, <1>7, <1>8, <1>9, <1>10 DEF ButtonFollows, ButtonKinds
<1>. QED
  BY <1>2, <1>7, <1>10 DEF ButtonInv

LEMMA ButtonClicksKeep ==
  ASSUME JobsInv, ButtonInv, NEW c \in ButtonCalls,
         \/ rebalance(c) \/ convertAssetToUsdc(c) \/ handleJupiterLendWithdraw(c)
         \/ handleJupiterUsdcBorrow(c) \/ handleJupiterUsdcRepay(c)
  PROVE  JobsInv' /\ ButtonInv' /\ StepOf(c)
<1>1. \E job \in Jobs : job.kind \in ButtonKinds /\ Press(c, job)
  <2>1. CASE rebalance(c)
    <3>1. Job("rebalance", 0) \in Jobs /\ Job("rebalance", 0).kind \in ButtonKinds
      BY DEF Job, Jobs, PlainJobs, ButtonKinds
    <3>. QED
      BY <2>1, <3>1 DEF rebalance
  <2>2. CASE convertAssetToUsdc(c)
    <3>1. PICK token \in {"tok", "coll"} : Press(c, Transfer("sell", token, shown[token]))
      BY <2>2 DEF convertAssetToUsdc
    <3>2. shown[token] \in Nat
      BY JobsTypes DEF Fields
    <3>3. /\ Transfer("sell", token, shown[token]) \in Jobs
          /\ Transfer("sell", token, shown[token]).kind \in ButtonKinds
      BY <3>2 DEF Transfer, Jobs, TokenJobs, ButtonKinds
    <3>. QED
      BY <3>1, <3>3
  <2>3. CASE handleJupiterLendWithdraw(c)
    <3>1. /\ Job("withdraw_collateral", 0) \in Jobs
          /\ Job("withdraw_collateral", 0).kind \in ButtonKinds
      BY DEF Job, Jobs, PlainJobs, ButtonKinds
    <3>. QED
      BY <2>3, <3>1 DEF handleJupiterLendWithdraw
  <2>4. CASE handleJupiterUsdcBorrow(c)
    <3>1. PICK n \in Nat : Press(c, Job("borrow", n))
      BY <2>4, ButtonsAssumption DEF handleJupiterUsdcBorrow
    <3>2. Job("borrow", n) \in Jobs /\ Job("borrow", n).kind \in ButtonKinds
      BY DEF Job, Jobs, PlainJobs, ButtonKinds
    <3>. QED
      BY <3>1, <3>2
  <2>5. CASE handleJupiterUsdcRepay(c)
    <3>1. CASE Press(c, Job("repay_all", 0))
      <4>1. Job("repay_all", 0) \in Jobs /\ Job("repay_all", 0).kind \in ButtonKinds
        BY DEF Job, Jobs, PlainJobs, ButtonKinds
      <4>. QED
        BY <3>1, <4>1
    <3>2. CASE \E n \in Typed : Press(c, Job("repay", n))
      <4>1. PICK n \in Nat : Press(c, Job("repay", n))
        BY <3>2, ButtonsAssumption
      <4>2. Job("repay", n) \in Jobs /\ Job("repay", n).kind \in ButtonKinds
        BY DEF Job, Jobs, PlainJobs, ButtonKinds
      <4>. QED
        BY <4>1, <4>2
    <3>. QED
      BY <2>5, <3>1, <3>2 DEF handleJupiterUsdcRepay
  <2>. QED
    BY <2>1, <2>2, <2>3, <2>4, <2>5
<1>. QED
  BY <1>1, PressKeeps

LEMMA ButtonEndsKeeps ==
  ASSUME JobsInv, ButtonInv, NEW c \in ButtonCalls, ButtonEnds(c)
  PROVE  JobsInv' /\ ButtonInv' /\ StepOf(c)
<1>0. c \in Callers
  BY DEF Callers
<1>1. HangUp(c) /\ Answered(c) /\ UNCHANGED <<use, safe, shown, late, disturbed, budget>>
  BY DEF ButtonEnds
<1>2. JobsInv' /\ StepOf(c) /\ calls'[c] = NoCall
  BY <1>0, <1>1, HangUpStep
<1>3. PICK st \in Answers : st = calls[c].st
  BY <1>1 DEF Answered
<1>4. PICK converting \in {NoLabel, "tok", "coll"} :
        converting = (IF calls[c].job.kind = "sell" THEN NoLabel ELSE buttons.converting)
  BY DEF ButtonInv, ButtonRecords
<1>5. buttons' = [buttons EXCEPT !.rebalancing = FALSE, !.result = st, !.converting = converting]
  BY <1>3, <1>4, Zenon DEF ButtonEnds, handleResult
<1>6. /\ buttons' \in ButtonRecords
      /\ buttons'.by = buttons.by /\ buttons'.label = buttons.label /\ buttons'.from = buttons.from
      /\ buttons'.alone = buttons.alone /\ buttons'.result = st
  BY <1>5 DEF ButtonInv, ButtonRecords
<1>7. calls[c] # NoCall
  BY <1>1, NoCallIsNone DEF Answered, Answers
<1>8. ASSUME ButtonFollows PROVE ButtonFollows'
  <2>1. buttons.by = c /\ \A d \in ButtonCalls \ {c} : calls[d] = NoCall
    BY <1>7, <1>8 DEF ButtonFollows
  <2>2. c \notin disturbed /\ st = "success" => ButtonClaim(buttons.label, buttons.from, safe)
    BY <1>3, <1>8, <2>1 DEF ButtonFollows
  <2>3. \A d \in ButtonCalls : calls'[d] = NoCall
    BY <1>2, <2>1 DEF StepOf, Passes, Callers
  <2>4. NoCall.st = "none"
    BY DEF NoCall
  <2>. QED
    BY <1>1, <1>2, <1>6, <2>1, <2>2, <2>3, <2>4 DEF ButtonFollows
<1>. QED
  BY <1>2, <1>6, <1>8 DEF ButtonInv

-----------------------------------------------------------------------------
(* The transfer card. *)

LEMMA CardTypes ==
  ASSUME JobsInv, CardInv
  PROVE  /\ shown.usdc \in Nat /\ shown.row \in Nat
         /\ \A token \in Tokens : depositAssets[token] \in Nat /\ withdrawAssets[token] \in Nat
         /\ \A c \in TransferCalls : card.usdc[c] \in Nat
<1>1. Tokens = {"usdc", "tok", "coll"} /\ \A token \in Tokens : Purse[token] \in Fields
  BY DEF Tokens, Purse, Fields
<1>2. shown.usdc \in Nat /\ shown.row \in Nat /\ \A f \in Fields : shown[f] \in Nat
  BY JobsTypes DEF Fields
<1>3. \A token \in Tokens : depositAssets[token] \in Nat
  BY <1>1, <1>2 DEF depositAssets
<1>4. \A token \in Tokens : withdrawAssets[token] \in Nat
  BY <1>1, <1>2 DEF withdrawAssets, Fields
<1>5. \A c \in TransferCalls : card.usdc[c] \in Nat
  BY DEF CardInv
<1>. QED
  BY <1>2, <1>3, <1>4, <1>5

LEMMA SubmitKeeps ==
  ASSUME JobsInv, CardInv, NEW c \in TransferCalls, Submit(c)
  PROVE  JobsInv' /\ CardInv' /\ StepOf(c)
<1>1. Begin(c) /\ UNCHANGED <<use, safe, shown, late>> /\ c \in Callers
      /\ card' = [card EXCEPT !.txPending = TRUE, !.doing[c] = "submit"]
  BY DEF Submit, Callers
<1>2. PICK job \in Jobs : Ask(c, job)
  <2>1. PICK token \in Tokens :
       \/ Ask(c, Transfer("pay_in", token, depositAssets[token]))
       \/ token = "usdc" /\ Ask(c, Job("pay_out_usdc", withdrawAssets[token]))
       \/ token # "usdc" /\ Ask(c, Transfer("pay_out", token, withdrawAssets[token]))
    BY DEF Submit
  <2>2. /\ token \in {"usdc", "tok", "coll"}
        /\ depositAssets[token] \in Nat /\ withdrawAssets[token] \in Nat
    BY CardTypes DEF Tokens, Purse
  <2>3. /\ Transfer("pay_in", token, depositAssets[token]) \in Jobs
        /\ Job("pay_out_usdc", withdrawAssets[token]) \in Jobs
        /\ Transfer("pay_out", token, withdrawAssets[token]) \in Jobs
    BY <2>2 DEF Transfer, Job, Jobs, TokenJobs, PlainJobs
  <2>. QED
    BY <2>1, <2>3
<1>3. JobsInv' /\ StepOf(c)
  BY <1>1, <1>2, AskStep
<1>4. CardInv'
  BY <1>1 DEF CardInv, Doings
<1>. QED
  BY <1>3, <1>4

LEMMA WithdrawSeenKeeps ==
  ASSUME JobsInv, CardInv, NEW c \in TransferCalls, NEW usdc \in Nat, WithdrawSeen(c, usdc),
         UNCHANGED <<use, safe, shown, late>>, Begin(c) \/ UNCHANGED <<disturbed, budget>>
  PROVE  JobsInv' /\ CardInv' /\ StepOf(c)
<1>0. c \in Callers
  BY DEF Callers
<1>1. CASE usdc > 0
  <2>1. Ask(c, Job("pay_out_usdc", usdc))
        /\ card' = [card EXCEPT !.step = "withdrawing", !.txPending = TRUE, !.doing[c] = "withdraw"]
    BY <1>1 DEF WithdrawSeen
  <2>2. Job("pay_out_usdc", usdc) \in Jobs
    BY DEF Job, Jobs, PlainJobs
  <2>3. JobsInv' /\ StepOf(c)
    BY <1>0, <2>1, <2>2, AskStep
  <2>4. CardInv'
    BY <2>1 DEF CardInv, Doings, CardSteps
  <2>. QED
    BY <2>3, <2>4
<1>2. CASE ~(usdc > 0)
  <2>1. HangUp(c) /\ card' = [card EXCEPT !.step = "idle", !.doing[c] = "nothing"]
    BY <1>2 DEF WithdrawSeen
  <2>2. JobsInv' /\ StepOf(c)
    BY <1>0, <2>1, HangUpStep
  <2>3. CardInv'
    BY <2>1 DEF CardInv, Doings, CardSteps
  <2>. QED
    BY <2>2, <2>3
<1>. QED
  BY <1>1, <1>2

LEMMA WithdrawAllKeeps ==
  ASSUME JobsInv, CardInv, NEW c \in TransferCalls, WithdrawAll(c)
  PROVE  JobsInv' /\ CardInv' /\ StepOf(c)
<1>1. Begin(c) /\ UNCHANGED <<use, safe, shown, late>> /\ c \in Callers /\ shown.usdc \in Nat
  BY CardTypes DEF WithdrawAll, Callers
<1>2. CASE HasNonUsdcHoldings
  <2>1. Ask(c, Job("convert_all", 0))
        /\ card' = [card EXCEPT !.step = "converting", !.doing[c] = "convert", !.usdc[c] = shown.usdc]
    BY <1>2 DEF WithdrawAll
  <2>2. Job("convert_all", 0) \in Jobs
    BY DEF Job, Jobs, PlainJobs
  <2>3. JobsInv' /\ StepOf(c)
    BY <1>1, <2>1, <2>2, AskStep
  <2>4. CardInv'
    BY <1>1, <2>1 DEF CardInv, Doings, CardSteps
  <2>. QED
    BY <2>3, <2>4
<1>3. CASE ~HasNonUsdcHoldings
  <2>1. WithdrawSeen(c, shown.usdc)
    BY <1>3 DEF WithdrawAll
  <2>. QED
    BY <1>1, <2>1, WithdrawSeenKeeps
<1>. QED
  BY <1>2, <1>3

LEMMA ConversionEndsKeeps ==
  ASSUME JobsInv, CardInv, NEW c \in TransferCalls, ConversionEnds(c)
  PROVE  JobsInv' /\ CardInv' /\ StepOf(c)
<1>1. UNCHANGED <<use, safe, shown, late, disturbed, budget>> /\ c \in Callers /\ card.usdc[c] \in Nat
  BY CardTypes DEF ConversionEnds, Callers
<1>2. ASSUME NEW step \in {"idle", "whitelist_needed"},
             HangUp(c), card' = [card EXCEPT !.step = step, !.doing[c] = "nothing"]
      PROVE  JobsInv' /\ CardInv' /\ StepOf(c)
  <2>1. JobsInv' /\ StepOf(c)
    BY <1>1, <1>2, HangUpStep
  <2>2. CardInv'
    BY <1>2 DEF CardInv, Doings, CardSteps
  <2>. QED
    BY <2>1, <2>2
<1>3. CASE calls[c].st = "error"
  BY <1>2, <1>3 DEF ConversionEnds
<1>4. CASE calls[c].st = "needs_whitelist"
  BY <1>2, <1>4 DEF ConversionEnds
<1>5. CASE calls[c].st \notin {"error", "needs_whitelist"}
  <2>1. WithdrawSeen(c, card.usdc[c])
    BY <1>5 DEF ConversionEnds
  <2>. QED
    BY <1>1, <2>1, WithdrawSeenKeeps
<1>. QED
  BY <1>3, <1>4, <1>5

LEMMA TransferEndsKeeps ==
  ASSUME JobsInv, CardInv, NEW c \in TransferCalls, TransferEnds(c)
  PROVE  JobsInv' /\ CardInv' /\ StepOf(c)
<1>1. JobsInv' /\ StepOf(c)
  BY HangUpStep DEF TransferEnds, Callers
<1>2. PICK step \in CardSteps : step = (IF card.doing[c] = "withdraw" THEN "idle" ELSE card.step)
  BY DEF CardInv, CardSteps
<1>3. card' = [card EXCEPT !.txPending = FALSE, !.doing[c] = "nothing", !.step = step]
  BY <1>2, Zenon DEF TransferEnds, Ended
<1>4. CardInv'
  BY <1>3 DEF CardInv, Doings
<1>. QED
  BY <1>1, <1>4

LEMMA DropKeeps ==
  ASSUME JobsInv, CardInv, DropOnWallet \/ DropOnWalletEnds
  PROVE  JobsInv' /\ CardInv' /\ StepOf("drop")
<1>1. CASE DropOnWallet
  <2>1. Begin("drop") /\ UNCHANGED <<use, safe, shown, late, card>> /\ "drop" \in Callers
    BY <1>1 DEF DropOnWallet, Callers
  <2>2. PICK token \in {"usdc", "tok", "coll"}, n \in Nat : Ask("drop", Transfer("pay_out", token, n))
    <3>1. PICK token \in Tokens :
            Ask("drop", Transfer("pay_out", token, IF token = "usdc" THEN shown.row ELSE shown[token]))
      BY <1>1 DEF DropOnWallet
    <3>2. token \in {"usdc", "tok", "coll"}
      BY DEF Tokens, Purse
    <3>3. (IF token = "usdc" THEN shown.row ELSE shown[token]) \in Nat
      BY <3>2, JobsTypes DEF Fields
    <3>. QED
      BY <3>1, <3>2, <3>3
  <2>3. Transfer("pay_out", token, n) \in Jobs
    BY DEF Transfer, Jobs, TokenJobs
  <2>4. JobsInv' /\ StepOf("drop")
    BY <2>1, <2>2, <2>3, AskStep
  <2>. QED
    BY <2>1, <2>4 DEF CardInv
<1>2. CASE DropOnWalletEnds
  <2>1. JobsInv' /\ StepOf("drop")
    BY <1>2, HangUpStep DEF DropOnWalletEnds, Callers
  <2>. QED
    BY <1>2, <2>1 DEF DropOnWalletEnds, CardInv
<1>. QED
  BY <1>1, <1>2

(* Steps of the card that call nobody.                                     *)
LEMMA CardQuietKeeps ==
  ASSUME JobsInv, CardInv, ResetWithdraw \/ DropOnCard
  PROVE  JobsInv' /\ CardInv' /\ AllPass
<1>1. CardInv'
  BY DEF ResetWithdraw, DropOnCard, CardInv, CardSteps
<1>2. CASE ResetWithdraw
  BY <1>1, <1>2 DEF ResetWithdraw, jobsVars, JobsInv, AllPass, Passes
<1>3. CASE DropOnCard
  BY <1>1, <1>3, ClickCounts DEF DropOnCard, JobsInv, AllPass, Passes
<1>. QED
  BY <1>2, <1>3

-----------------------------------------------------------------------------
(* The chat. *)

(* A job is asked for on the chat's behalf only as it was confirmed.       *)
Confirmed ==
  LET job == calls'["chat"].job
  IN  calls["chat"] = NoCall /\ calls'["chat"] # NoCall =>
        /\ chat.req.text \in {"confirm", "yes"}
        /\ \/ job.kind = chat.proposal /\ job.n = chat.n /\ chat.jobs = 0
           \/ chat.proposal = "swap" /\ chat.req.text = "yes"

LEMMA PostKeeps ==
  ASSUME JobsInv, ChatInv, NEW req \in Requests, Post(req),
         IF req.action = NoProposal THEN ~req.enabled /\ ~req.params
         ELSE /\ req.text = "confirm" /\ req.action = chat.proposal
              /\ (chat.proposal = "swap" => req.params)
  PROVE  JobsInv' /\ ChatInv' /\ StepOf("chat") /\ calls' = calls
<1>1. chat' = [chat EXCEPT !.status = "busy", !.stage = "server", !.req = req, !.jobs = 0]
      /\ Begin("chat") /\ UNCHANGED <<use, safe, shown, calls, late>>
  BY DEF Post
<1>2. /\ chat' \in Chats /\ chat'.stage = "server" /\ chat'.req = req /\ chat'.jobs = 0
      /\ chat'.proposal = chat.proposal /\ chat'.n = chat.n
  <2>1. chat \in Chats /\ 0 \in 0..MaxTools
    BY DEF ChatInv, MaxTools
  <2>. QED
    BY <1>1, <2>1 DEF Chats
<1>3. ChatInv'
  BY <1>2 DEF ChatInv
<1>4. JobsInv'
  <2>1. disturbed' \in SUBSET Callers
    BY <1>1, JobsTypes DEF Begin
  <2>. QED
    BY <1>1, <2>1, ClickCounts DEF Begin, JobsInv
<1>5. StepOf("chat") /\ calls' = calls
  BY <1>1 DEF StepOf, Passes, Begin
<1>. QED
  BY <1>3, <1>4, <1>5

LEMMA ChatClicksKeep ==
  ASSUME JobsInv, ChatInv, ChatClicks
  PROVE  JobsInv' /\ ChatInv' /\ StepOf("chat") /\ calls' = calls
<1>1. CASE SendText
  <2>1. PICK text \in Words : Post([NoRequest EXCEPT !.text = text])
    BY <1>1 DEF SendText
  <2>2. PICK req : req = [NoRequest EXCEPT !.text = text]
    OBVIOUS
  <2>3. req \in Requests /\ req.action = NoProposal /\ ~req.enabled /\ ~req.params
    <3>1. NoRequest \in Requests /\ NoRequest.action = NoProposal
          /\ ~NoRequest.enabled /\ ~NoRequest.params
      BY DEF NoRequest, Requests
    <3>. QED
      BY <2>2, <3>1 DEF Requests
  <2>5. Post(req)
    BY <2>1, <2>2
  <2>. QED
    BY <2>3, <2>5, PostKeeps
<1>2. CASE ConfirmAction
  <2>1. PICK params \in BOOLEAN : params <=> chat.proposal = "swap"
    BY Zenon
  <2>2. params = (chat.proposal = "swap")
    BY <2>1
  <2>3. PICK req : req = [text |-> "confirm", action |-> chat.proposal, enabled |-> TRUE, params |-> params]
    OBVIOUS
  <2>4. chat.proposal \in JobKinds /\ Post(req)
    BY <1>2, <2>2, <2>3, Zenon DEF ConfirmAction, ChatInv, Chats
  <2>5. req \in Requests /\ req.text = "confirm" /\ req.action = chat.proposal
        /\ (chat.proposal = "swap" => req.params) /\ req.action # NoProposal
    BY <2>1, <2>3, <2>4 DEF Requests, JobKinds, NoProposal
  <2>. QED
    BY <2>4, <2>5, PostKeeps
<1>. QED
  BY <1>1, <1>2 DEF ChatClicks

LEMMA RepliedKeeps ==
  ASSUME ChatInv, NEW p \in JobKinds \cup {NoProposal}, NEW n \in Nat, p # "swap" => n = 0,
         Replied(p, n)
  PROVE  ChatInv'
<1>1. chat' = [chat EXCEPT !.status = "ready", !.stage = "idle", !.proposal = p, !.n = n,
                           !.req = NoRequest]
  BY DEF Replied
<1>2. NoRequest \in Requests
  BY DEF NoRequest, Requests
<1>3. chat' \in Chats /\ chat'.stage = "idle" /\ chat'.proposal = p /\ chat'.n = n
  BY <1>1, <1>2 DEF ChatInv, Chats
<1>. QED
  BY <1>3 DEF ChatInv

LEMMA HandleRequestKeeps ==
  ASSUME JobsInv, ChatInv, HandleRequest
  PROVE  JobsInv' /\ ChatInv' /\ StepOf("chat") /\ Confirmed
<1>1. /\ chat.stage = "server" /\ chat \in Chats /\ chat.jobs = 0 /\ chat.req \in Requests
      /\ UNCHANGED <<use, safe, shown, late, disturbed, budget>>
  BY DEF HandleRequest, ChatInv, Chats
<1>2. IF chat.req.action = NoProposal THEN ~chat.req.enabled /\ ~chat.req.params
      ELSE chat.req.text = "confirm" /\ chat.req.action = chat.proposal
           /\ (chat.proposal = "swap" => chat.req.params)
  BY <1>1 DEF ChatInv
<1>. DEFINE Action(inferred) == IF inferred # NoProposal THEN inferred ELSE chat.req.action
<1>3. PICK inferred \in Inferred :
        CASE chat.req.text = "how_much" ->
                  Replied(NoProposal, 0) /\ UNCHANGED calls
             [] chat.req.text # "how_much" /\ Action(inferred) \in {"rebalance", "convert_all"} ->
                  RunDirectly(Job(Action(inferred), 0))
             [] chat.req.text # "how_much" /\ Action(inferred) = "swap" /\ chat.req.params ->
                  RunDirectly(Job("swap", chat.n))
             [] OTHER ->
                  /\ chat' = [chat EXCEPT !.stage = "model",
                                !.req.enabled = @ \/ inferred # NoProposal]
                  /\ UNCHANGED calls
  BY DEF HandleRequest
<1>4. inferred # NoProposal => /\ inferred = chat.proposal /\ chat.req.text = "yes"
                               /\ chat.req.action = NoProposal
  BY DEF Inferred
<1>5. PICK action : action = Action(inferred)
  OBVIOUS
<1>6. /\ action \in JobKinds \cup {NoProposal}
      /\ action # NoProposal => action = chat.proposal /\ chat.req.text \in {"confirm", "yes"}
  <2>1. CASE inferred # NoProposal
    BY <1>1, <1>4, <1>5, <2>1 DEF Chats
  <2>2. CASE inferred = NoProposal
    <3>1. action = chat.req.action /\ chat.req.action \in JobKinds \cup {NoProposal}
      BY <1>1, <1>5, <2>2 DEF Requests
    <3>. QED
      BY <1>2, <3>1
  <2>. QED
    BY <2>1, <2>2
<1>7. ASSUME UNCHANGED calls
      PROVE  JobsInv' /\ StepOf("chat") /\ Confirmed
  <2>1. JobsInv' /\ StepOf("chat")
    BY <1>1, <1>7 DEF JobsInv, StepOf, Passes
  <2>. QED
    BY <1>7, <2>1 DEF Confirmed
<1>8. ASSUME NEW n \in Nat, action \in JobKinds, n = chat.n, RunDirectly(Job(action, n))
      PROVE  JobsInv' /\ ChatInv' /\ StepOf("chat") /\ Confirmed
  <2>1. Ask("chat", Job(action, n)) /\ chat' = [chat EXCEPT !.stage = "job", !.jobs = @ + 1]
    BY <1>8 DEF RunDirectly
  <2>2. Job(action, n) \in Jobs /\ Job(action, n).kind = action /\ Job(action, n).n = n
    BY <1>8 DEF Job, Jobs, PlainJobs, JobKinds
  <2>3. JobsInv' /\ StepOf("chat") /\ calls'["chat"] = Asking(Job(action, n))
    BY <1>1, <2>1, <2>2, AskStep DEF Callers
  <2>4. chat' \in Chats /\ chat'.stage = "job" /\ chat'.proposal = chat.proposal /\ chat'.n = chat.n
    <3>1. chat' = [chat EXCEPT !.stage = "job", !.jobs = 1] /\ 1 \in 0..MaxTools
      BY <1>1, <2>1 DEF MaxTools
    <3>. QED
      BY <1>1, <3>1 DEF Chats
  <2>5. ChatInv'
    BY <2>4 DEF ChatInv
  <2>6. Confirmed
    BY <1>1, <1>6, <1>8, <2>2, <2>3, AskingType DEF Confirmed, JobKinds, NoProposal
  <2>. QED
    BY <2>3, <2>5, <2>6
<1>9. CASE chat.req.text = "how_much"
  <2>1. Replied(NoProposal, 0) /\ UNCHANGED calls
    BY <1>3, <1>9
  <2>. QED
    BY <1>7, <2>1, RepliedKeeps DEF NoProposal
<1>10. CASE chat.req.text # "how_much" /\ action \in {"rebalance", "convert_all"}
  <2>1. RunDirectly(Job(action, 0))
    BY <1>3, <1>5, <1>10
  <2>2. action \in JobKinds /\ chat.n = 0
    BY <1>6, <1>10 DEF JobKinds, NoProposal, ChatInv
  <2>. QED
    BY <1>8, <2>1, <2>2
<1>11. CASE chat.req.text # "how_much" /\ action = "swap" /\ chat.req.params
  <2>1. RunDirectly(Job(action, chat.n))
    BY <1>3, <1>5, <1>11
  <2>2. action \in JobKinds /\ chat.n \in Nat
    BY <1>1, <1>11 DEF JobKinds, Chats
  <2>. QED
    BY <1>8, <2>1, <2>2
<1>12. CASE /\ chat.req.text # "how_much" /\ action \notin {"rebalance", "convert_all"}
            /\ ~(action = "swap" /\ chat.req.params)
  <2>1. /\ chat' = [chat EXCEPT !.stage = "model", !.req.enabled = @ \/ inferred # NoProposal]
        /\ UNCHANGED calls
    BY <1>3, <1>5, <1>12
  <2>2. PICK enabled \in BOOLEAN : enabled <=> chat.req.enabled \/ inferred # NoProposal
    BY Zenon
  <2>3. enabled = (chat.req.enabled \/ inferred # NoProposal)
    BY <2>2
  <2>4. chat' = [chat EXCEPT !.stage = "model", !.req.enabled = enabled]
    BY <2>1, <2>3, Zenon
  <2>5. /\ chat' \in Chats /\ chat'.stage = "model" /\ chat'.proposal = chat.proposal /\ chat'.n = chat.n
        /\ chat'.req.enabled = enabled /\ chat'.req.text = chat.req.text
    BY <1>1, <2>4 DEF Chats, Requests
  <2>6. enabled => chat.proposal = "swap" /\ chat.req.text = "yes"
    BY <1>2, <1>4, <1>5, <1>6, <1>12, <2>2 DEF JobKinds, NoProposal
  <2>7. ChatInv'
    BY <2>5, <2>6 DEF ChatInv
  <2>. QED
    BY <1>7, <2>1, <2>7
<1>. QED
  BY <1>9, <1>10, <1>11, <1>12

LEMMA ModelRunsToolKeeps ==
  ASSUME JobsInv, ChatInv, ModelRunsTool
  PROVE  JobsInv' /\ ChatInv' /\ StepOf("chat") /\ Confirmed
<1>1. /\ chat.stage = "model" /\ chat.req.enabled /\ chat.jobs < MaxTools /\ chat \in Chats
      /\ chat' = [chat EXCEPT !.stage = "tool", !.jobs = @ + 1]
      /\ UNCHANGED <<use, safe, shown, late, disturbed, budget>>
  BY DEF ModelRunsTool, MayExecute, ChatInv
<1>2. PICK kind \in {"rebalance", "convert_all"} : Ask("chat", Job(kind, 0))
  BY DEF ModelRunsTool
<1>3. Job(kind, 0) \in Jobs
  BY DEF Job, Jobs, PlainJobs
<1>4. JobsInv' /\ StepOf("chat")
  BY <1>1, <1>2, <1>3, AskStep DEF Callers
<1>5. PICK jobs \in 0..MaxTools : jobs = chat.jobs + 1
  BY <1>1 DEF Chats, MaxTools
<1>6. chat' = [chat EXCEPT !.stage = "tool", !.jobs = jobs]
  BY <1>1, <1>5
<1>7. chat' \in Chats /\ chat'.stage = "tool" /\ chat'.proposal = chat.proposal
      /\ chat'.n = chat.n /\ chat'.req = chat.req
  BY <1>1, <1>6 DEF Chats
<1>8. chat.proposal = "swap" /\ chat.req.text = "yes"
  BY <1>1 DEF ChatInv
<1>9. ChatInv'
  BY <1>7, <1>8 DEF ChatInv
<1>. QED
  BY <1>4, <1>8, <1>9 DEF Confirmed

LEMMA ChatOnKeeps ==
  ASSUME JobsInv, ChatInv, JobReplied \/ ToolReplied \/ ModelReplied \/ ChatBreaks
  PROVE  JobsInv' /\ ChatInv' /\ StepOf("chat") /\ Confirmed
<1>1. CASE JobReplied
  <2>1. JobsInv' /\ StepOf("chat") /\ calls'["chat"] = NoCall
    BY <1>1, HangUpStep DEF JobReplied, Callers
  <2>2. Replied(NoProposal, 0)
    BY <1>1 DEF JobReplied
  <2>. QED
    BY <2>1, <2>2, RepliedKeeps DEF NoProposal, Confirmed
<1>2. CASE ToolReplied
  <2>1. JobsInv' /\ StepOf("chat") /\ calls'["chat"] = NoCall
    BY <1>2, HangUpStep DEF ToolReplied, Callers
  <2>2. chat' = [chat EXCEPT !.stage = "model"] /\ chat.stage = "tool" /\ chat \in Chats
    BY <1>2 DEF ToolReplied, ChatInv
  <2>3. chat' \in Chats /\ chat'.stage = "model" /\ chat'.proposal = chat.proposal
        /\ chat'.n = chat.n /\ chat'.req = chat.req
    BY <2>2 DEF Chats
  <2>4. ChatInv'
    BY <2>2, <2>3 DEF ChatInv
  <2>. QED
    BY <2>1, <2>4 DEF Confirmed
<1>3. CASE ModelReplied
  <2>1. UNCHANGED jobsVars
    BY <1>3 DEF ModelReplied
  <2>2. JobsInv' /\ StepOf("chat") /\ calls' = calls
    BY <2>1 DEF jobsVars, JobsInv, StepOf, Passes
  <2>3. CASE \E p \in {NoProposal, "rebalance", "convert_all"} : Replied(p, 0)
    <3>1. PICK p \in {NoProposal, "rebalance", "convert_all"} : Replied(p, 0)
      BY <2>3
    <3>2. p \in JobKinds \cup {NoProposal} /\ p # "swap"
      BY DEF JobKinds, NoProposal
    <3>. QED
      BY <2>2, <3>1, <3>2, RepliedKeeps DEF Confirmed
  <2>4. CASE Replied("swap", safe.usdc)
    <3>1. safe.usdc \in Nat /\ "swap" \in JobKinds \cup {NoProposal}
      BY JobsTypes, SafeFields DEF JobKinds
    <3>. QED
      BY <2>2, <2>4, <3>1, RepliedKeeps DEF Confirmed
  <2>. QED
    BY <1>3, <2>3, <2>4 DEF ModelReplied
<1>4. CASE ChatBreaks
  <2>1. /\ HangUp("chat") /\ UNCHANGED <<use, safe, shown, disturbed>>
        /\ chat' = [chat EXCEPT !.status = "error", !.stage = "idle", !.req = NoRequest]
        /\ budget.mishaps < use.mishaps /\ budget' = [budget EXCEPT !.mishaps = @ + 1]
        /\ late' = late \cup (IF Waiting("chat") THEN {calls["chat"].job} ELSE {})
    BY <1>4 DEF ChatBreaks
  <2>2. calls' \in [Callers -> Calls \cup {NoCall}] /\ calls'["chat"] = NoCall
    BY <2>1, JobsTypes DEF HangUp, Callers
  <2>3. late' \in SUBSET Jobs
    BY <2>1, JobsTypes, WaitingCalls DEF Callers
  <2>4. budget' \in [clicks : Nat, mishaps : Nat] /\ budget'.clicks <= use.clicks
        /\ budget'.mishaps <= use.mishaps
    BY <2>1, JobsTypes DEF JobsInv
  <2>5. JobsInv'
    BY <2>1, <2>2, <2>3, <2>4, JobsTypes DEF JobsInv
  <2>6. StepOf("chat")
    BY <2>1, JobsTypes DEF StepOf, Passes, HangUp
  <2>7. NoRequest \in Requests
    BY DEF NoRequest, Requests
  <2>8. chat' \in Chats /\ chat'.stage = "idle" /\ chat'.proposal = chat.proposal /\ chat'.n = chat.n
    BY <2>1, <2>7 DEF ChatInv, Chats
  <2>9. ChatInv'
    BY <2>8 DEF ChatInv
  <2>. QED
    BY <2>2, <2>5, <2>6, <2>9 DEF Confirmed
<1>. QED
  BY <1>1, <1>2, <1>3, <1>4

-----------------------------------------------------------------------------
(* The pages together. *)

LEMMA QuietChat ==
  ASSUME Passes("chat")
  PROVE  Confirmed
BY DEF Passes, Confirmed

(* The step of one caller leaves alone what every other goes by.           *)
LEMMA OthersUntouched ==
  ASSUME NEW c \in Callers, StepOf(c)
  PROVE  /\ c # "earn" => Passes("earn")
         /\ c # "loop" => Passes("loop")
         /\ c \notin ButtonCalls => \A d \in ButtonCalls : Passes(d)
         /\ c # "chat" => Passes("chat")
BY DEF StepOf, Callers

LEMMA AllUntouched ==
  ASSUME AllPass
  PROVE  Passes("earn") /\ Passes("loop") /\ Passes("chat") /\ \A d \in ButtonCalls : Passes(d)
BY DEF AllPass, Callers

LEMMA JobsKeep ==
  ASSUME AppInv, JobsNext, UNCHANGED <<loopVars, buttons, card, chat>>
  PROVE  AppInv' /\ Confirmed
<1>1. /\ JobsInv /\ EarnInv /\ LoopInv /\ ButtonInv /\ CardInv /\ ChatInv
      /\ UNCHANGED <<earn, loop, buttons, card, chat>>
  BY DEF AppInv, loopVars
<1>2. CardInv' /\ ChatInv'
  BY <1>1 DEF CardInv, ChatInv
<1>3. ASSUME AllPass, JobsInv' PROVE AppInv' /\ Confirmed
  <2>1. EarnInv' /\ LoopInv' /\ ButtonInv' /\ Confirmed
    BY <1>1, <1>3, AllUntouched, EarnUntouched, LoopUntouched, ButtonsUntouched, QuietChat
  <2>. QED
    BY <1>2, <1>3, <2>1 DEF AppInv
<1>4. ASSUME NEW c \in Callers, Serve(c) \/ TurnAway(c) \/ LoseAnswer(c)
      PROVE  AppInv' /\ Confirmed
  <2>1. JobsInv' /\ StepOf(c) /\ calls[c] # NoCall
    BY <1>1, <1>4, ServeStep, RefusedStep, NoCallIsNone DEF Serve, Waiting
  <2>2. EarnInv'
    BY <1>1, <1>4, <2>1, OthersUntouched, EarnUntouched, EarnServed, EarnRefused
  <2>3. LoopInv'
    BY <1>1, <1>4, <2>1, OthersUntouched, LoopUntouched, LoopServed, LoopRefused
  <2>4. ButtonInv'
    BY <1>1, <1>4, <2>1, OthersUntouched, ButtonsUntouched, ButtonServed, ButtonRefused
  <2>5. Confirmed
    BY <2>1, OthersUntouched, QuietChat DEF Confirmed
  <2>. QED
    BY <1>2, <2>1, <2>2, <2>3, <2>4, <2>5 DEF AppInv
<1>5. CASE LateJobEnds
  BY <1>1, <1>3, <1>5, LateStep
<1>6. CASE Refresh
  BY <1>1, <1>3, <1>6, RefreshStep
<1>. QED
  BY <1>4, <1>5, <1>6 DEF JobsNext

LEMMA LoopsKeep ==
  ASSUME AppInv, LoopNext, UNCHANGED <<buttons, card, chat>>
  PROVE  AppInv' /\ Confirmed
<1>1. /\ JobsInv /\ EarnInv /\ LoopInv /\ ButtonInv /\ CardInv /\ ChatInv
      /\ UNCHANGED <<buttons, card, chat>>
  BY DEF AppInv
<1>2. CardInv' /\ ChatInv'
  BY <1>1 DEF CardInv, ChatInv
<1>3. ASSUME NEW c \in {"earn", "loop", "kamino"}, StepOf(c), JobsInv'
      PROVE  ButtonInv' /\ Confirmed
  BY <1>1, <1>3, OthersUntouched, ButtonsUntouched, QuietChat DEF Callers, ButtonCalls
<1>4. CASE ActivateLoop \/ ActivationStep \/ DepositIdea \/ DepositIdeaEnds
  <2>1. JobsInv' /\ EarnInv' /\ StepOf("earn") /\ loop' = loop
    BY <1>1, <1>4, ActivateLoopKeeps, ActivationStepKeeps, DepositIdeaKeeps, DepositIdeaEndsKeeps
  <2>2. LoopInv'
    BY <1>1, <2>1, OthersUntouched, LoopUntouched DEF Callers
  <2>. QED
    BY <1>2, <1>3, <2>1, <2>2 DEF AppInv
<1>5. CASE DeactivateLoop \/ DeactivationStep
  <2>1. JobsInv' /\ LoopInv' /\ StepOf("loop") /\ earn' = earn
    BY <1>1, <1>5, DeactivateLoopKeeps, DeactivationStepKeeps
  <2>2. EarnInv'
    BY <1>1, <2>1, OthersUntouched, EarnUntouched DEF Callers
  <2>. QED
    BY <1>2, <1>3, <2>1, <2>2 DEF AppInv
<1>6. CASE KaminoWithdraw \/ KaminoWithdrawEnds
  <2>1. JobsInv' /\ StepOf("kamino") /\ earn' = earn /\ loop' = loop
    BY <1>1, <1>6, KaminoKeeps DEF loopVars
  <2>2. EarnInv' /\ LoopInv'
    BY <1>1, <2>1, OthersUntouched, EarnUntouched, LoopUntouched DEF Callers
  <2>. QED
    BY <1>2, <1>3, <2>1, <2>2 DEF AppInv
<1>. QED
  BY <1>4, <1>5, <1>6 DEF LoopNext, LoopClicks, LoopSteps

LEMMA ButtonsKeep ==
  ASSUME AppInv, ButtonsNext, UNCHANGED <<loopVars, card, chat>>
  PROVE  AppInv' /\ Confirmed
<1>1. /\ JobsInv /\ EarnInv /\ LoopInv /\ ButtonInv /\ CardInv /\ ChatInv
      /\ UNCHANGED <<earn, loop, card, chat>>
  BY DEF AppInv, loopVars
<1>2. CardInv' /\ ChatInv'
  BY <1>1 DEF CardInv, ChatInv
<1>3. PICK c \in ButtonCalls : JobsInv' /\ ButtonInv' /\ StepOf(c)
  <2>1. CASE ButtonClicks
    BY <1>1, <2>1, ButtonClicksKeep DEF ButtonClicks
  <2>2. CASE ButtonSteps
    BY <1>1, <2>2, ButtonEndsKeeps DEF ButtonSteps
  <2>. QED
    BY <2>1, <2>2 DEF ButtonsNext
<1>4. EarnInv' /\ LoopInv' /\ Confirmed
  <2>1. c \in Callers /\ c \notin {"earn", "loop", "chat"}
    BY DEF Callers, ButtonCalls
  <2>. QED
    BY <1>1, <1>3, <2>1, OthersUntouched, EarnUntouched, LoopUntouched, QuietChat
<1>. QED
  BY <1>2, <1>3, <1>4 DEF AppInv

LEMMA CardKeeps ==
  ASSUME AppInv, CardNext, UNCHANGED <<loopVars, buttons, chat>>
  PROVE  AppInv' /\ Confirmed
<1>1. /\ JobsInv /\ EarnInv /\ LoopInv /\ ButtonInv /\ CardInv /\ ChatInv
      /\ UNCHANGED <<earn, loop, buttons, chat>>
  BY DEF AppInv, loopVars
<1>2. ChatInv'
  BY <1>1 DEF ChatInv
<1>3. /\ JobsInv' /\ CardInv'
      /\ AllPass \/ \E c \in TransferCalls \cup {"drop"} : StepOf(c)
  <2>1. CASE \E c \in TransferCalls : Submit(c) \/ WithdrawAll(c)
    BY <1>1, <2>1, SubmitKeeps, WithdrawAllKeeps
  <2>2. CASE \E c \in TransferCalls : ConversionEnds(c) \/ TransferEnds(c)
    BY <1>1, <2>2, ConversionEndsKeeps, TransferEndsKeeps
  <2>3. CASE ResetWithdraw \/ DropOnCard
    BY <1>1, <2>3, CardQuietKeeps
  <2>4. CASE DropOnWallet \/ DropOnWalletEnds
    BY <1>1, <2>4, DropKeeps
  <2>. QED
    BY <2>1, <2>2, <2>3, <2>4 DEF CardNext, CardClicks, CardStepsOn
<1>4. Passes("earn") /\ Passes("loop") /\ Passes("chat") /\ \A d \in ButtonCalls : Passes(d)
  <2>1. ASSUME NEW c \in TransferCalls \cup {"drop"}
        PROVE  c \in Callers /\ c \notin {"earn", "loop", "chat"} \cup ButtonCalls
    BY DEF Callers, TransferCalls, ButtonCalls
  <2>. QED
    BY <1>3, <2>1, OthersUntouched, AllUntouched
<1>5. EarnInv' /\ LoopInv' /\ ButtonInv' /\ Confirmed
  BY <1>1, <1>4, EarnUntouched, LoopUntouched, ButtonsUntouched, QuietChat
<1>. QED
  BY <1>2, <1>3, <1>5 DEF AppInv

LEMMA ChatKeeps ==
  ASSUME AppInv, ChatNext, UNCHANGED <<loopVars, buttons, card>>
  PROVE  AppInv' /\ Confirmed
<1>1. /\ JobsInv /\ EarnInv /\ LoopInv /\ ButtonInv /\ CardInv /\ ChatInv
      /\ UNCHANGED <<earn, loop, buttons, card>>
  BY DEF AppInv, loopVars
<1>2. CardInv'
  BY <1>1 DEF CardInv
<1>3. JobsInv' /\ ChatInv' /\ StepOf("chat") /\ Confirmed
  <2>1. CASE ChatClicks
    BY <1>1, <2>1, ChatClicksKeep DEF Confirmed
  <2>. QED
    BY <1>1, <2>1, HandleRequestKeeps, ModelRunsToolKeeps, ChatOnKeeps DEF ChatNext, ChatSteps
<1>4. EarnInv' /\ LoopInv' /\ ButtonInv'
  BY <1>1, <1>3, OthersUntouched, EarnUntouched, LoopUntouched, ButtonsUntouched
     DEF Callers, ButtonCalls
<1>. QED
  BY <1>2, <1>3, <1>4 DEF AppInv

LEMMA ReloadKeeps ==
  ASSUME AppInv, Reload
  PROVE  AppInv' /\ Confirmed
<1>1. JobsInv /\ EarnInv /\ LoopInv /\ ButtonInv /\ CardInv /\ ChatInv
  BY DEF AppInv
<1>2. /\ calls' = [c \in Callers |-> NoCall] /\ shown' = Seen(safe)
      /\ UNCHANGED <<use, safe, disturbed, budget>>
      /\ late' = late \cup {calls[c].job : c \in {d \in Callers : Waiting(d)}}
  BY DEF Reload
<1>3. \A c \in Callers : calls'[c] = NoCall
  BY <1>2
<1>4. JobsInv'
  <2>1. calls' \in [Callers -> Calls \cup {NoCall}]
    BY <1>2
  <2>2. shown' \in [Fields \cup {"row"} -> Nat]
    BY <1>1, <1>2, SeenType, JobsTypes
  <2>3. late' \in SUBSET Jobs
    BY <1>1, <1>2, WaitingCalls, JobsTypes
  <2>. QED
    BY <1>1, <1>2, <2>1, <2>2, <2>3 DEF JobsInv
<1>5. EarnInv'
  <2>1. earn' \in Earns /\ earn'.doing = "none" /\ earn'.said = "nothing"
    BY <1>1 DEF Reload, EarnInv, Earns
  <2>. QED
    BY <1>3, <2>1 DEF EarnInv, ActivationReportIsTrue, Callers
<1>6. LoopInv'
  <2>1. loop' \in Loops /\ ~loop'.busy /\ loop'.steps = NoSteps
    BY <1>1 DEF Reload, LoopInv, Loops
  <2>. QED
    BY <1>3, <2>1 DEF LoopInv, DeactivationReportIsTrue, AllDone, Callers
<1>7. ButtonInv'
  <2>1. buttons' \in ButtonRecords /\ buttons'.result = "none"
    BY <1>1 DEF Reload, ButtonInv, ButtonRecords
  <2>2. \A d \in ButtonCalls : calls'[d] = NoCall
    BY <1>3 DEF Callers
  <2>3. buttons'.by \in ButtonCalls
    BY <2>1 DEF ButtonRecords
  <2>. QED
    BY <2>1, <2>2, <2>3, NoCallIsNone DEF ButtonInv, ButtonFollows
<1>8. CardInv'
  <2>1. [c \in TransferCalls |-> "nothing"] \in [TransferCalls -> Doings]
    BY DEF Doings
  <2>. QED
    BY <1>1, <2>1 DEF Reload, CardInv, CardSteps
<1>9. ChatInv'
  <2>1. chat' = FreshChat
    BY DEF Reload
  <2>2. NoRequest \in Requests
    BY DEF NoRequest, Requests
  <2>3. chat' \in Chats /\ chat'.stage = "idle" /\ chat'.proposal = NoProposal
    BY <2>1, <2>2 DEF FreshChat, Chats, MaxTools
  <2>. QED
    BY <2>3 DEF ChatInv, NoProposal
<1>10. Confirmed
  BY <1>3 DEF Confirmed, Callers
<1>. QED
  BY <1>4, <1>5, <1>6, <1>7, <1>8, <1>9, <1>10 DEF AppInv

LEMMA AppKeeps ==
  ASSUME AppInv, [Next]_vars
  PROVE  AppInv' /\ Confirmed
<1>1. CASE AppNext
  BY <1>1, JobsKeep, LoopsKeep, ButtonsKeep, CardKeeps, ChatKeeps, ReloadKeeps DEF AppNext
<1>2. CASE UNCHANGED appVars
  <2>1. UNCHANGED <<use, safe, shown, calls, late, disturbed, budget, earn, loop, buttons, card, chat>>
    BY <1>2 DEF appVars, jobsVars, loopVars
  <2>2. JobsInv' /\ CardInv' /\ ChatInv' /\ AllPass
    BY <2>1 DEF AppInv, JobsInv, CardInv, ChatInv, AllPass, Passes
  <2>3. EarnInv' /\ LoopInv' /\ ButtonInv' /\ Confirmed
    BY <2>1, <2>2, AllUntouched, EarnUntouched, LoopUntouched, ButtonsUntouched, QuietChat DEF AppInv
  <2>. QED
    BY <2>2, <2>3 DEF AppInv
<1>. QED
  BY <1>1, <1>2 DEF Next, vars

LEMMA AppStarts == Init => AppInv
<1>. SUFFICES ASSUME Init PROVE AppInv
  OBVIOUS
<1>1. JobsInit /\ LoopInit /\ ButtonsInit /\ CardInit /\ ChatInit
  BY DEF Init
<1>2. safe \in Safe /\ use \in Uses
  BY <1>1, UsesAssumption DEF JobsInit
<1>3. calls = [c \in Callers |-> NoCall] /\ \A c \in Callers : calls[c] = NoCall
  BY <1>1 DEF JobsInit
<1>4. JobsInv
  <2>1. shown \in [Fields \cup {"row"} -> Nat]
    BY <1>1, <1>2, SeenType DEF JobsInit
  <2>2. /\ budget \in [clicks : Nat, mishaps : Nat]
        /\ budget.clicks <= use.clicks /\ budget.mishaps <= use.mishaps
    BY <1>1, <1>2, UsesAssumption DEF JobsInit
  <2>3. late \in SUBSET Jobs /\ disturbed \in SUBSET Callers
    BY <1>1 DEF JobsInit
  <2>. QED
    BY <1>2, <1>3, <2>1, <2>2, <2>3 DEF JobsInv
<1>5. EarnInv
  <2>1. earn \in Earns /\ earn.doing = "none" /\ earn.said = "nothing"
    BY <1>1, <1>2 DEF LoopInit, Earns
  <2>. QED
    BY <1>3, <2>1 DEF EarnInv, ActivationReportIsTrue, Callers
<1>6. LoopInv
  <2>1. loop \in Loops /\ ~loop.busy /\ loop.steps = NoSteps
    BY <1>1, <1>2 DEF LoopInit, Loops
  <2>. QED
    BY <1>3, <2>1 DEF LoopInv, DeactivationReportIsTrue, AllDone, Callers
<1>7. ButtonInv
  <2>1. buttons \in ButtonRecords /\ buttons.result = "none" /\ buttons.by = "button"
    BY <1>1, <1>2 DEF ButtonsInit, ButtonRecords, ButtonCalls, NoLabel
  <2>2. \A d \in ButtonCalls : calls[d] = NoCall
    BY <1>3 DEF Callers
  <2>3. "button" \in ButtonCalls
    BY DEF ButtonCalls
  <2>. QED
    BY <2>1, <2>2, <2>3, NoCallIsNone DEF ButtonInv, ButtonFollows
<1>8. CardInv
  <2>1. /\ [c \in TransferCalls |-> "nothing"] \in [TransferCalls -> Doings]
        /\ [c \in TransferCalls |-> 0] \in [TransferCalls -> Nat]
    BY DEF Doings
  <2>. QED
    BY <1>1, <2>1 DEF CardInit, CardInv, CardSteps
<1>9. ChatInv
  <2>1. chat = FreshChat
    BY <1>1 DEF ChatInit
  <2>2. NoRequest \in Requests
    BY DEF NoRequest, Requests
  <2>3. chat \in Chats /\ chat.stage = "idle" /\ chat.proposal = NoProposal
    BY <2>1, <2>2 DEF FreshChat, Chats, MaxTools
  <2>. QED
    BY <2>3 DEF ChatInv, NoProposal
<1>. QED
  BY <1>4, <1>5, <1>6, <1>7, <1>8, <1>9 DEF AppInv

LEMMA AppKept == Spec => []AppInv
BY AppStarts, AppKeeps, PTL DEF Spec

LEMMA ButtonReports == ASSUME ButtonInv PROVE ButtonReportIsTrue
<1>. SUFFICES ASSUME buttons.result = "success", buttons.alone, buttons.by \notin disturbed
              PROVE  ButtonClaim(buttons.label, buttons.from, safe)
  BY Zenon DEF ButtonReportIsTrue, ButtonClaim
<1>. QED
  BY DEF ButtonInv, ButtonFollows

(* What a card reports at its end is what happened to the Safe, unless     *)
(* another caller's job came between: for any collateral, loan and amounts,*)
(* any ratios and however often answers are lost, pages break and clicks   *)
(* overlap (runLoopActivation, handleDeactivateLoop, useRebalance).        *)
THEOREM CardsTellTheTruth == Spec => []CardReportsAreTrue
<1>1. AppInv => CardReportsAreTrue
  BY ButtonReports DEF AppInv, EarnInv, LoopInv, CardReportsAreTrue
<1>. QED
  BY <1>1, AppKept, PTL

(* The chat asks for a job only after the button of the proposal shown, or *)
(* words that agree to it, and for that job: whatever the model says and   *)
(* however requests, failures and reloads follow on one another (POST of   *)
(* the chat route).                                                        *)
THEOREM ChatActsOnConfirmation == Spec => ChatRunsWhatWasConfirmed
<1>1. AppInv /\ [Next]_vars => [Confirmed]_vars
  BY AppKeeps
<1>. QED
  BY <1>1, AppKept, PTL DEF Spec, ChatRunsWhatWasConfirmed, Confirmed

LEMMA AppTypes ==
  ASSUME AppInv
  PROVE  JobsTypeOK /\ LoopTypeOK /\ ButtonsTypeOK /\ CardTypeOK /\ ChatTypeOK
<1>1. JobsInv /\ EarnInv /\ LoopInv /\ ButtonInv /\ CardInv /\ ChatInv
  BY DEF AppInv
<1>2. JobsTypeOK
  <2>1. \A c \in Callers : calls[c].st \in Answers \cup {"none", "asked"}
    BY <1>1, JobsTypes, NoCallIsNone DEF Calls
  <2>2. budget.clicks \in 0..use.clicks /\ budget.mishaps \in 0..use.mishaps
    BY <1>1, JobsTypes DEF JobsInv
  <2>. QED
    BY <1>1, <2>1, <2>2, JobsTypes DEF JobsTypeOK
<1>3. LoopTypeOK
  BY <1>1 DEF LoopTypeOK, EarnInv, LoopInv, Earns, Loops
<1>4. ButtonsTypeOK
  BY <1>1 DEF ButtonsTypeOK, ButtonInv, ButtonRecords
<1>5. CardTypeOK
  BY <1>1 DEF CardTypeOK, CardInv
<1>6. ChatTypeOK
  BY <1>1 DEF ChatTypeOK, ChatInv, Chats
<1>. QED
  BY <1>2, <1>3, <1>4, <1>5, <1>6

(* Every variable of the pages keeps its type: the Safe and the balances   *)
(* shown, the calls and their answers, the flags, the steps and the forms  *)
(* of every screen, the trades of PT, the caches and the requests.         *)
THEOREM PagesTyped == Spec => []TypeOK
<1>1. TradeInv => ExTypeOK
  BY DEF TradeInv, MarketInv, TradesInv, FormInv, Forms, Live, Reviewed, Landed, NoTrade, ExTypeOK
<1>2. ReadsInv => ReadsTypeOK
  BY DEF ReadsInv
<1>3. AppInv /\ TradeInv /\ ReadsInv => TypeOK
  BY <1>1, <1>2, AppTypes DEF TypeOK
<1>. QED
  BY <1>3, AppKept, TradesKept, ReadsKept, PTL
=============================================================================
