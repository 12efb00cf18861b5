------------------------------ MODULE Matching ------------------------------
(***************************************************************************)
(* How a buyer chooses among quotes: the collection window of              *)
(* agents/buyer_agent.py, the ranking of agents/lib/matching.py, and the   *)
(* two other places that choose by the same formula, the demos that take   *)
(* the head of the ranking (scripts/generate_market_trace.py, run_demo.py) *)
(* and the scan of scripts/serve_trade_playback.py.                        *)
(*                                                                         *)
(* Confidences, success rates and scores are floats.  A float stands here  *)
(* for its number in the order of the floats from 0.0 on (its bits, read   *)
(* as a number, are one), so equal floats have one number and the greater  *)
(* float the greater.  What a product and a quotient are rounded to is     *)
(* left to Score: nothing below depends on the arithmetic.                 *)
(***************************************************************************)
EXTENDS Naturals, Sequences, FiniteSets, SequencesExt

CONSTANTS Offers,    \* [price, confidence, rate, eta]: the quotes sellers may send
          Budget,    \* max_usdc_atomic, in the unit of price
          MinRate,   \* min_reputation_score, a float
          One,       \* the float 1.0
          Floor,     \* the float 0.01
          MaxQuotes, \* bound: quotes that arrive in the window
          Score(_, _, _)  \* confidence * rate / price, a float

Unit == 0 .. One

(* QuoteMessage: what passes its validation.                               *)
Quote == [price : Nat \ {0}, confidence : Unit, rate : Unit, eta : Nat \ {0}]

(* score_quote floors the success rate, the market's scan does not.        *)
score_quote(q) ==
  Score(q.confidence, IF q.rate > Floor THEN q.rate ELSE Floor, q.price)
score(q) == Score(q.confidence, q.rate, q.price)

ASSUME MatchingAssumption ==
  /\ One \in Nat /\ Floor \in Unit
  /\ Offers \subseteq Quote /\ Budget \in Nat /\ MinRate \in Unit
  /\ \A q \in Offers : score_quote(q) \in Nat /\ score(q) \in Nat
  /\ MaxQuotes \in Nat

VARIABLES quotes,  \* the list _consume appends to
          ranked,  \* what rank_quotes returned, once the window is over
          over     \* the window is over

matchingVars == <<quotes, ranked, over>>

MatchingInit == quotes = <<>> /\ ranked = <<>> /\ over = FALSE
---------------------------------------------------------------------------
(* Mistake: the reputation is not looked at.                               *)
violates_hard_constraints_priceOnly(q) == q.price > Budget

violates_hard_constraints(q) == q.price > Budget \/ q.rate < MinRate

(* The sort key (score, -estimated_delivery_ms), largest first.            *)
before(p, q) ==
  \/ score_quote(p) > score_quote(q)
  \/ score_quote(p) = score_quote(q) /\ p.eta < q.eta

(* Mistakes: the newest of equals comes first; the eta alone decides.      *)
insert_newestFirst(sorted, q) ==
  LET n == Cardinality({i \in DOMAIN sorted : before(sorted[i], q)})
  IN  SubSeq(sorted, 1, n) \o <<q>> \o SubSeq(sorted, n + 1, Len(sorted))

insert_byEta(sorted, q) ==
  LET n == Cardinality({i \in DOMAIN sorted : sorted[i].eta <= q.eta})
  IN  SubSeq(sorted, 1, n) \o <<q>> \o SubSeq(sorted, n + 1, Len(sorted))

(* Python's sort is stable, with reverse=True too.                         *)
insert(sorted, q) ==
  LET n == Cardinality({i \in DOMAIN sorted : ~before(q, sorted[i])})
  IN  SubSeq(sorted, 1, n) \o <<q>> \o SubSeq(sorted, n + 1, Len(sorted))

(* One turn of the loop of rank_quotes: an eligible quote is sorted in at  *)
(* once, another is put behind.                                            *)
turn(lists, q) ==
  IF violates_hard_constraints(q)
  THEN [lists EXCEPT !.rejected = Append(@, q)]
  ELSE [lists EXCEPT !.eligible = insert(@, q)]

loop(qs) == FoldLeft(turn, [eligible |-> <<>>, rejected |-> <<>>], qs)

rank_quotes(qs) == loop(qs).eligible \o loop(qs).rejected

select_best(qs) ==
  IF qs = <<>> \/ violates_hard_constraints(Head(rank_quotes(qs))) THEN {}
  ELSE {Head(rank_quotes(qs))}

(* What the demos that rank take for the winner: the head, whatever it is. *)
firstRanked(ranking) == Head(ranking)

(* The market's scan: only a higher score replaces the best.               *)
scan(best, q) ==
  IF ~violates_hard_constraints(q) /\ \A b \in best : score(q) > score(b)
  THEN {q} ELSE best

scanned(qs) == FoldLeft(scan, {}, qs)
---------------------------------------------------------------------------
(* A quote of this rfq with a good signature arrives in the window.        *)
ConsumeQuote ==
  /\ ~over
  /\ Len(quotes) < MaxQuotes
  /\ \E q \in Offers : quotes' = Append(quotes, q)
  /\ UNCHANGED <<ranked, over>>

(* The window is over: wait_for cancels _consume.                          *)
EndOfWindow ==
  /\ ~over
  /\ over' = TRUE
  /\ ranked' = rank_quotes(quotes)
  /\ UNCHANGED quotes

MatchingNext == ConsumeQuote \/ EndOfWindow

MatchingSpec == MatchingInit /\ [][MatchingNext]_matchingVars
---------------------------------------------------------------------------
Eligible(q) == q.price <= Budget /\ q.rate >= MinRate

(* Whatever arrives in whatever order, the ranking keeps every quote as    *)
(* often as it was heard, all the eligible ones come before all others,    *)
(* and its head is an eligible quote no eligible quote scores above, nor   *)
(* matches with a faster delivery; there is none only if none is eligible. *)
BestEligibleWins ==
  over =>
    /\ \A q \in Offers : Cardinality({i \in DOMAIN ranked : ranked[i] = q})
                          = Cardinality({i \in DOMAIN quotes : quotes[i] = q})
    /\ \A i, j \in DOMAIN ranked : i < j /\ Eligible(ranked[j]) => Eligible(ranked[i])
    /\ select_best(quotes) = {} <=> \A q \in ToSet(quotes) : ~Eligible(q)
    /\ \A w \in select_best(quotes), q \in ToSet(quotes) :
         Eligible(w) /\ (Eligible(q) => ~before(q, w))

(* A quote more, late, repeated or ineligible, never changes the choice    *)
(* between the others: the choice stays or falls on the new quote, and     *)
(* then on its merit and not on the time of its arrival.                   *)
LateQuotesWinOnMerit ==
  [][quotes' # quotes =>
       \/ select_best(quotes') = select_best(quotes)
       \/ /\ select_best(quotes') = {Last(quotes')}
          /\ \A w \in select_best(quotes) : before(Last(quotes'), w)]_matchingVars

(* The three implementations of the choice agree: the head of the ranking, *)
(* which the demos take unasked, is the buyer's choice or else no quote is *)
(* eligible, and the market's scan, which knows no floor and no tie-break, *)
(* finds a quote of the same score.                                        *)
ChoosersAgree ==
  over =>
    /\ quotes # <<>> =>
         \/ select_best(quotes) = {firstRanked(ranked)}
         \/ select_best(quotes) = {} /\ \A q \in ToSet(quotes) : ~Eligible(q)
    /\ select_best(quotes) = {} <=> scanned(quotes) = {}
    /\ \A w \in select_best(quotes), v \in scanned(quotes) : score_quote(w) = score_quote(v)
===========================================================================
