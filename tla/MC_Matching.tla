---------------------------- MODULE MC_Matching ----------------------------
(* Matching on the quotes of the demos and quotes that tie with them.  A   *)
(* float of two or three decimals is numbered by its thousandths, a price  *)
(* counts thousands of atomic units.                                       *)
EXTENDS Matching

(* The three quotes of the market trace; run_demo.py ranks the first two.  *)
TraceQuotes ==
  { [price |-> 420, confidence |-> 910, rate |-> 957, eta |-> 2800],
    [price |-> 300, confidence |-> 850, rate |-> 880, eta |-> 4100],
    [price |-> 260, confidence |-> 740, rate |-> 710, eta |-> 2300] }

(* Three that score the same: one dear, one at half the price with half    *)
(* the confidence, one slower.  Two that would score the same if floats    *)
(* were fractions, of which the faster scores below the other.  One over   *)
(* the budget, and one that would win if its reputation were not one       *)
(* thousandth too low.                                                     *)
MCOffers ==
  TraceQuotes \cup
  { [price |-> 300, confidence |-> 1000, rate |-> 800, eta |-> 2800],
    [price |-> 150, confidence |-> 500, rate |-> 800, eta |-> 2800],
    [price |-> 300, confidence |-> 1000, rate |-> 800, eta |-> 4100],
    [price |-> 300, confidence |-> 700, rate |-> 800, eta |-> 1000],
    [price |-> 300, confidence |-> 560, rate |-> 1000, eta |-> 2000],
    [price |-> 501, confidence |-> 1000, rate |-> 1000, eta |-> 2300],
    [price |-> 200, confidence |-> 1000, rate |-> 799, eta |-> 1000] }

(* confidence * rate / price of these offers as Python computes it, in the *)
(* order of the floats; 0.7 * 0.8 is 0.5599999999999999.                   *)
Ascending ==
  << {<<700, 800, 300>>}, {<<560, 1000, 300>>}, {<<1000, 1000, 501>>},
     {<<740, 710, 260>>}, {<<910, 957, 420>>}, {<<850, 880, 300>>},
     {<<500, 800, 150>>, <<1000, 800, 300>>}, {<<1000, 799, 200>>} >>

MCScore(confidence, rate, price) ==
  CHOOSE i \in DOMAIN Ascending : <<confidence, rate, price>> \in Ascending[i]
===========================================================================
