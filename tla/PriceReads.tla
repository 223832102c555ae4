----------------------------- MODULE PriceReads ------------------------------
(***************************************************************************)
(* What the app reads of prices, token data and rates, each through caches *)
(* with a lifetime: web/src/lib/jupiter.ts in every page, before the       *)
(* routes web/src/app/api/jupiter/prices and tokens, before the indexer;   *)
(* and the yield readers web/src/lib/kaminoYield.ts and exponentYield.ts   *)
(* of the mobile API.  Whoever asks for the same as a request under way    *)
(* waits for that one.  A value stands for the time it was current.        *)
(***************************************************************************)
EXTENDS SafeJobs

CONSTANTS
  Mints, Pages,
  TTL,      \* the lifetime of a price in the caches of pages and route
  META_TTL, \* the same of a token's data
  RATE_TTL, \* the lifetime of a yield snapshot
  DELAY     \* a request to the indexer, and an answer to a page, take no longer

ASSUME ReadsAssumption ==
  /\ {TTL, META_TTL, RATE_TTL} \subseteq Nat \ {0} /\ DELAY \in Nat \ {0}
  /\ {"route", "rate"} \cap Pages = {}

VARIABLES
  clock,
  kept,       \* kept[s][m]: what store s, a page's or the route's, last cached of m
  posts,      \* posts[p][k]: the request of page p for the mints k
  upstream,   \* upstream[k]: the route's request to the indexer for the mints k
  rate,       \* the yield reader: its snapshot, the request under way
  reads,      \* how many were begun, which still wait, what was just answered
  lost        \* mints some answer of the behaviour had no value for

readVars == <<clock, kept, posts, upstream, rate, reads, lost>>

Stores == Pages \cup {"route"}
Keys == (SUBSET Mints) \ {{}}
Nothing == [asOf |-> 0, expires |-> 0]
NoPost == [st |-> "none", since |-> 0, need |-> {}, hits |-> {}]
NoFetch == [st |-> "none", since |-> 0, last |-> 0]

(* Values handed on: of which mint, as of when.                            *)
Of(s, ms) == {[mint |-> m, asOf |-> kept[s][m].asOf] : m \in ms}

\* Mutant of Fresh: whatever is cached is served, expired or not.
FreshForEver(s, ms) == {m \in ms : kept[s][m].expires > 0}

Fresh(s, ms) == {m \in ms : kept[s][m].expires > clock}

Keep(s, values, expires) ==
  [kept EXCEPT ![s] = [m \in Mints |->
     IF \E v \in values : v.mint = m
     THEN [asOf |-> (CHOOSE v \in values : v.mint = m).asOf, expires |-> expires] ELSE @[m]]]

(* Prices and token data have caches and routes of their own, alike but    *)
(* for the lifetime; a behaviour reads the ones or the others.             *)
Lifetime == IF "tokens" \in use.parts THEN META_TTL ELSE TTL

CanRead == reads.begun < use.reads
AnswerNow(r) ==
  reads' = [reads EXCEPT !.begun = @ + 1, !.given = {r}]
WaitFor(r) ==
  reads' = [reads EXCEPT !.begun = @ + 1, !.waiting = @ \cup {r}, !.given = {}]
Give(rs, values) ==
  reads' = [reads EXCEPT !.waiting = @ \ rs,
                         !.given = {[r EXCEPT !.hits = @ \cup values] : r \in rs}]
NoneGiven == reads' = [reads EXCEPT !.given = {}]
MayLose == lost = {} /\ use.mishaps > 0   \* bound: at most one answer is lost or short

-----------------------------------------------------------------------------
(* The page. *)

(* What is not fresh is asked for in one request, or waited for.           *)
ReadThrough(p, want) ==
  LET hits == Fresh(p, want)
      key == want \ hits
      r == [from |-> p, want |-> want, key |-> key, hits |-> Of(p, hits), at |-> clock]
  IN  /\ want \subseteq use.mints /\ CanRead
      /\ IF key = {} THEN AnswerNow(r) ELSE WaitFor(r)
      /\ posts' = IF key # {} /\ posts[p][key].st = "none"
                  THEN [posts EXCEPT ![p][key] = [NoPost EXCEPT !.st = "sent"]] ELSE posts
      /\ UNCHANGED <<clock, kept, upstream, rate, lost>>

fetchPrices(p, want) == "prices" \in use.parts /\ ReadThrough(p, want)
fetchTokenMetadata(p, want) == "tokens" \in use.parts /\ ReadThrough(p, want)

(* All that wait get the answer, if it comes, next to what was fresh.      *)
PageGets(p, k) ==
  /\ posts[p][k].st = "back"
  /\ \E values \in {posts[p][k].hits, {}} :
       /\ kept' = Keep(p, values, clock + Lifetime)
       /\ values # posts[p][k].hits => MayLose
       /\ lost' = IF values # posts[p][k].hits THEN lost \cup k ELSE lost
       /\ Give({r \in reads.waiting : r.from = p /\ r.key = k}, values)
  /\ posts' = [posts EXCEPT ![p][k] = NoPost]
  /\ UNCHANGED <<clock, upstream, rate>>

-----------------------------------------------------------------------------
(* The route. *)

RouteGets(p, k) ==
  LET hits == Fresh("route", k)
      need == k \ hits
  IN  /\ posts[p][k].st = "sent"
      /\ posts' = [posts EXCEPT ![p][k] =
           [st |-> IF need = {} THEN "back" ELSE "asked", since |-> clock,
            need |-> need, hits |-> Of("route", hits)]]
      /\ upstream' =
           IF need = {} THEN upstream
           ELSE IF upstream[need].st = "none"
           THEN [upstream EXCEPT ![need] = [st |-> "asked", since |-> clock, last |-> clock]]
           ELSE [upstream EXCEPT ![need].last = clock]
      /\ NoneGiven /\ UNCHANGED <<clock, kept, rate, lost>>

pricesRoute(p, k) == "prices" \in use.parts /\ RouteGets(p, k)
tokensRoute(p, k) == "tokens" \in use.parts /\ RouteGets(p, k)

(* A value is kept for a lifetime from the request that waited for it,     *)
(* the last one if several did.  A failure is an answer without a value.   *)
RouteAnswers(n) ==
  LET Waits(p, k) == posts[p][k].st = "asked" /\ posts[p][k].need = n
  IN  /\ upstream[n].st = "asked"
      /\ \E priced \in SUBSET n :
           LET values == {[mint |-> m, asOf |-> upstream[n].since] : m \in priced}
           IN  /\ priced # n => MayLose
               /\ kept' = Keep("route", values, upstream[n].last + Lifetime)
               /\ lost' = lost \cup (n \ priced)
               /\ posts' = [p \in Pages |-> [k \in Keys |->
                    IF Waits(p, k)
                    THEN [posts[p][k] EXCEPT !.st = "back", !.since = clock, !.hits = @ \cup values]
                    ELSE posts[p][k]]]
      /\ upstream' = [upstream EXCEPT ![n] = NoFetch]
      /\ NoneGiven /\ UNCHANGED <<clock, rate>>

-----------------------------------------------------------------------------
(* The yield readers.  A snapshot says when it expires; the one from a     *)
(* quote expires with it; a failure is an answer without a rate.           *)

readYield ==
  /\ "rates" \in use.parts /\ CanRead
  /\ LET r == [from |-> "rate", want |-> {}, key |-> {}, hits |-> {}, at |-> clock]
     IN  IF rate.expires > clock
         THEN /\ AnswerNow([r EXCEPT !.hits = {[asOf |-> rate.asOf, expires |-> rate.expires]}])
              /\ UNCHANGED rate
         ELSE /\ WaitFor(r)
              /\ rate' = IF rate.pending THEN rate ELSE [rate EXCEPT !.pending = TRUE, !.since = clock]
  /\ UNCHANGED <<clock, kept, posts, upstream, lost>>

YieldArrives ==
  /\ rate.pending
  /\ \E deadline \in {clock, clock + 1, clock + RATE_TTL} :
       LET expires == Smaller(deadline, clock + RATE_TTL)
           valid == expires > clock
           hits == IF valid THEN {[asOf |-> rate.since, expires |-> expires]} ELSE {}
       IN  /\ rate' = IF valid THEN [pending |-> FALSE, since |-> 0,
                                     asOf |-> rate.since, expires |-> expires]
                      ELSE [rate EXCEPT !.pending = FALSE, !.since = 0]
           /\ Give({r \in reads.waiting : r.from = "rate"}, hits)
  /\ UNCHANGED <<clock, kept, posts, upstream, lost>>

-----------------------------------------------------------------------------
InTime(since) == clock < since + DELAY
SecondPasses ==
  /\ clock < use.until /\ clock' = clock + 1
  /\ \A p \in Pages, k \in Keys : posts[p][k].st = "back" => InTime(posts[p][k].since)
  /\ \A k \in Keys : upstream[k].st = "asked" => InTime(upstream[k].since)
  /\ rate.pending => InTime(rate.since)
  /\ NoneGiven /\ UNCHANGED <<kept, posts, upstream, rate, lost>>

ReadsInit ==
  /\ clock = 0 /\ lost = {}
  /\ kept = [s \in Stores |-> [m \in Mints |-> Nothing]]
  /\ posts = [p \in Pages |-> [k \in Keys |-> NoPost]]
  /\ upstream = [k \in Keys |-> NoFetch]
  /\ rate = [pending |-> FALSE, since |-> 0, asOf |-> 0, expires |-> 0]
  /\ reads = [begun |-> 0, waiting |-> {}, given |-> {}]

ReadSteps ==
  \/ \E p \in Pages, k \in Keys : PageGets(p, k) \/ pricesRoute(p, k) \/ tokensRoute(p, k)
  \/ \E k \in Keys : RouteAnswers(k)
  \/ YieldArrives
ReadsNext ==
  \/ \E p \in Pages, want \in Keys : fetchPrices(p, want) \/ fetchTokenMetadata(p, want)
  \/ readYield \/ ReadSteps \/ SecondPasses

-----------------------------------------------------------------------------
Values == [mint : Mints, asOf : Nat]
Snapshots == [asOf : Nat, expires : Nat]
Posts == [st : {"none", "sent", "asked", "back"}, since : Nat, need : SUBSET Mints,
          hits : SUBSET Values]
Reads == [from : Pages \cup {"rate"}, want : SUBSET Mints, key : SUBSET Mints,
          hits : SUBSET (Values \cup Snapshots), at : Nat]

ReadsTypeOK ==
  /\ clock \in Nat /\ lost \in SUBSET Mints
  /\ kept \in [Stores -> [Mints -> Snapshots]]
  /\ posts \in [Pages -> [Keys -> Posts]]
  /\ upstream \in [Keys -> [st : {"none", "asked"}, since : Nat, last : Nat]]
  /\ rate \in [pending : BOOLEAN, since : Nat, asOf : Nat, expires : Nat]
  /\ reads \in [begun : Nat, waiting : SUBSET Reads, given : SUBSET Reads]

(* What a read hands on was current no longer than two lifetimes and three *)
(* delays before the read began, however requests overlap, join and        *)
(* overtake one another, and no mint is left out unless an answer was lost *)
(* or short; a rate is handed on only before it expires (fetchPrices of    *)
(* page and route, createKaminoYieldReader, createExponentYieldReader).    *)
ReadsAreRecent ==
  \A r \in reads.given :
    IF r.from = "rate"
    THEN \A v \in r.hits : v.expires > r.at /\ r.at < v.asOf + RATE_TTL + DELAY
    ELSE /\ \A v \in r.hits : r.at < v.asOf + 2 * Lifetime + 3 * DELAY
         /\ r.want \cap lost = {} => {v.mint : v \in r.hits} = r.want
=============================================================================
