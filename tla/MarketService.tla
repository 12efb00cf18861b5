--------------------------- MODULE MarketService ---------------------------
(***************************************************************************)
(* The demo market of scripts/serve_trade_playback.py: a threading HTTP    *)
(* server whose request threads share the list SELLER_LISTINGS without a   *)
(* lock.  A thread may be switched between any two reads or writes of the  *)
(* list or of a listing; list.insert is atomic.                            *)
(*                                                                         *)
(* A listing is named by its number, the order in which it was put on the  *)
(* list, because its "id" need not be unique: it is the second in which    *)
(* its post was read.                                                      *)
(* Price, capabilities and reputation do not change once posted: they are  *)
(* abstracted to "fit" (within the budget, capable, reputable) and to the  *)
(* rank of confidence * reputation / price.                                *)
(***************************************************************************)
EXTENDS Integers, Sequences, FiniteSets, FiniteSetsExt

CONSTANTS Requests,    \* POST /api/rfqs requests, a thread each
          SeedQuota,   \* quota_available of the seed listings
          Quotas,      \* of a posted listing, at least 1
          Ranks,       \* of a posted listing
          MaxPosts,    \* bound: listings posted
          MaxSeconds   \* bound: seconds of the clock

ASSUME MarketAssumption ==
  /\ IsFiniteSet(Requests)
  /\ SeedQuota \in Nat /\ Quotas \subseteq Nat \ {0} /\ Ranks \subseteq Nat \ {0}
  /\ MaxPosts \in Nat /\ MaxSeconds \in Nat

VARIABLES SELLER_LISTINGS,  \* sequence of listing numbers
          listing,  \* sequence: number -> [id, quota, fit, rank]
          second,   \* time.time(), in seconds
          request,  \* request -> [pc, index, quotes, best, loaded, known]
          posted    \* history: number -> the quota it was posted with

marketVars == <<SELLER_LISTINGS, listing, second, request, posted>>

Seeds == <<
  [id |-> <<"seller-efficient-price", 0>>, quota |-> SeedQuota, fit |-> TRUE, rank |-> 2],
  [id |-> <<"seller-fast-data", 0>>, quota |-> SeedQuota, fit |-> TRUE, rank |-> 1],
  [id |-> <<"seller-research-agent", 0>>, quota |-> SeedQuota, fit |-> FALSE, rank |-> 3] >>

Listing == [id : {s.id : s \in {Seeds[i] : i \in 1 .. Len(Seeds)}}
                   \cup ({"seller"} \X (0 .. MaxSeconds)),
            quota : Nat, fit : BOOLEAN, rank : Nat \ {0}]
Numbers == 1 .. Len(listing)

NoQuote == [number |-> 0, id |-> <<"", 0>>, eligible |-> FALSE, rank |-> 0]

MarketTypeOK ==
  /\ \A i \in Numbers : listing[i] \in Listing
  /\ Len(SELLER_LISTINGS) = Len(listing)
  /\ Numbers = {SELLER_LISTINGS[i] : i \in 1 .. Len(SELLER_LISTINGS)}
  /\ second \in 0 .. MaxSeconds
  /\ Len(listing) <= Len(Seeds) + MaxPosts /\ Len(posted) = Len(listing)
  /\ \A r \in Requests :
       /\ request[r].pc \in {"new", "scan", "execute", "charge", "load", "store", "answered"}
       /\ request[r].index \in 1 .. 2 * (Len(Seeds) + MaxPosts) + 1
       /\ request[r].best.number \in Numbers \cup {0}
       /\ request[r].loaded \in Nat

MarketInit ==
  /\ SELLER_LISTINGS = <<1, 2, 3>>
  /\ listing = Seeds
  /\ second = 0
  /\ request = [r \in Requests |-> [pc |-> "new", index |-> 1, quotes |-> <<>>,
                                    best |-> NoQuote, loaded |-> 0, known |-> 0]]
  /\ posted = [i \in 1 .. Len(Seeds) |-> SeedQuota]
---------------------------------------------------------------------------
(* Mutant of PostListing: appends, and drops the front to bound the list.  *)
PostListing_bounded ==
  /\ Len(listing) < Len(Seeds) + MaxPosts
  /\ \E now \in 0 .. second, quota \in Quotas, fit \in BOOLEAN, rank \in Ranks :
       /\ listing' = Append(listing, [id |-> <<"seller", now>>, quota |-> quota,
                                      fit |-> fit, rank |-> rank])
       /\ posted' = Append(posted, quota)
  /\ SELLER_LISTINGS' = Append(Tail(SELLER_LISTINGS), Len(listing) + 1)
  /\ UNCHANGED <<second, request>>

(* POST /api/listings: _listing_from_body reads the clock, insert(0, ...)  *)
(* comes later: others may have been inserted meanwhile.                   *)
PostListing ==
  /\ Len(listing) < Len(Seeds) + MaxPosts
  /\ \E now \in 0 .. second, quota \in Quotas, fit \in BOOLEAN, rank \in Ranks :
       /\ listing' = Append(listing, [id |-> <<"seller", now>>, quota |-> quota,
                                      fit |-> fit, rank |-> rank])
       /\ posted' = Append(posted, quota)
  /\ SELLER_LISTINGS' = <<Len(listing) + 1>> \o SELLER_LISTINGS
  /\ UNCHANGED <<second, request>>

NextSecond ==
  /\ second < MaxSeconds
  /\ second' = second + 1
  /\ UNCHANGED <<SELLER_LISTINGS, listing, request, posted>>

StartScan(r) ==
  /\ request[r].pc = "new"
  /\ request' = [request EXCEPT ![r].pc = "scan", ![r].known = Len(listing)]
  /\ UNCHANGED <<SELLER_LISTINGS, listing, second, posted>>

Quote(n) ==
  LET l == listing[n] IN
  [number |-> n, id |-> l.id, eligible |-> l.quota > 0 /\ l.fit, rank |-> l.rank]

(* The body of the loop: the iterator is an index into the list as it is.  *)
(* Only a better score replaces the best one.                              *)
ScanListing(r) ==
  LET q == Quote(SELLER_LISTINGS[request[r].index]) IN
  /\ request[r].pc = "scan"
  /\ request[r].index <= Len(SELLER_LISTINGS)
  /\ request' = [request EXCEPT
       ![r].index = @ + 1,
       ![r].quotes = Append(@, q),
       ![r].best = IF q.eligible /\ q.rank > @.rank THEN q ELSE @]
  /\ UNCHANGED <<SELLER_LISTINGS, listing, second, posted>>

EndScan(r) ==
  /\ request[r].pc = "scan"
  /\ request[r].index > Len(SELLER_LISTINGS)
  /\ request' = [request EXCEPT ![r].pc = "execute"]
  /\ UNCHANGED <<SELLER_LISTINGS, listing, second, posted>>

(* The seller's execution, over AXL or from market data, takes its time;   *)
(* whether it succeeds makes no difference to what follows.                *)
Execute(r) ==
  /\ request[r].pc = "execute"
  /\ request' = [request EXCEPT
                   ![r].pc = IF request[r].best = NoQuote THEN "answered" ELSE "charge"]
  /\ UNCHANGED <<SELLER_LISTINGS, listing, second, posted>>

(* Mutant of Charged: looked up in a dictionary made of the list, where    *)
(* the last of two listings with one id replaces the first.                *)
Charged_byId(r) ==
  LET matches == {i \in 1 .. Len(SELLER_LISTINGS) :
                    listing[SELLER_LISTINGS[i]].id = request[r].best.id} IN
  SELLER_LISTINGS[Max(matches)]

(* _consume_selected_seller_capacity charges the first listing of the list *)
(* that has the selected id.                                               *)
Charged(r) ==
  LET matches == {i \in 1 .. Len(SELLER_LISTINGS) :
                    listing[SELLER_LISTINGS[i]].id = request[r].best.id} IN
  SELLER_LISTINGS[Min(matches)]

(* The search is one step, that of its first read: ids never change, and a *)
(* listing inserted while it runs goes in front of what it has passed, so  *)
(* it never comes across one that was not there when it began.             *)
FindListing(r) ==
  /\ request[r].pc = "charge"
  /\ request' = [request EXCEPT ![r].pc = "load", ![r].index = Charged(r)]
  /\ UNCHANGED <<SELLER_LISTINGS, listing, second, posted>>

(* Its quota is read, one less is written back: two steps.                 *)
LoadQuota(r) ==
  /\ request[r].pc = "load"
  /\ request' = [request EXCEPT ![r].pc = "store",
                                ![r].loaded = listing[request[r].index].quota]
  /\ UNCHANGED <<SELLER_LISTINGS, listing, second, posted>>

(* Mutant of StoreQuota: without max(0, ...).                              *)
StoreQuota_unclamped(r) ==
  /\ request[r].pc = "store"
  /\ listing' = [listing EXCEPT ![request[r].index].quota = request[r].loaded - 1]
  /\ request' = [request EXCEPT ![r].pc = "answered"]
  /\ UNCHANGED <<SELLER_LISTINGS, second, posted>>

StoreQuota(r) ==
  /\ request[r].pc = "store"
  /\ listing' = [listing EXCEPT ![request[r].index].quota =
                   IF request[r].loaded > 0 THEN request[r].loaded - 1 ELSE 0]
  /\ request' = [request EXCEPT ![r].pc = "answered"]
  /\ UNCHANGED <<SELLER_LISTINGS, second, posted>>

RequestStep(r) ==
  \/ StartScan(r) \/ ScanListing(r) \/ EndScan(r)
  \/ Execute(r) \/ FindListing(r) \/ LoadQuota(r) \/ StoreQuota(r)

MarketNext == PostListing \/ NextSecond \/ \E r \in Requests : RequestStep(r)

MarketSpec == MarketInit /\ [][MarketNext]_marketVars
---------------------------------------------------------------------------
Scanned(r) == request[r].pc \notin {"new", "scan"}
Quoted(r) == {request[r].quotes[i] : i \in 1 .. Len(request[r].quotes)}

(* A scan sees every listing that was on the market when it began, though  *)
(* listings are inserted in front of the iterator meanwhile, and no        *)
(* eligible quote it saw ranks above the one it selects: the buyer never   *)
(* misses a better offer that was there all along.                         *)
BestOfferWins ==
  \A r \in Requests : Scanned(r) =>
    /\ \A n \in 1 .. request[r].known : \E q \in Quoted(r) : q.number = n
    /\ \A q \in Quoted(r) : q.eligible => q.rank <= request[r].best.rank
    /\ request[r].best # NoQuote => request[r].best \in Quoted(r)

(* Who is charged for a trade.  The charge goes by id, so it need not fall *)
(* on the listing that was selected: of two listings posted in one second, *)
(* perhaps by two sellers, the later one is charged for the trades that    *)
(* selected the earlier one too.  It is charged for no others: a listing   *)
(* loses no more tasks than answered trades selected it or one with its id *)
(* that came before it, so one with an id of its own loses none to a trade *)
(* that selected another.  And the listings of one id together lose one    *)
(* task per trade at most: an update lost in a race errs in the sellers'   *)
(* disfavour only.  (The tasks of a listing are numbered; the ones above   *)
(* its quota have been consumed.)                                          *)
Listed(id) == {n \in Numbers : listing[n].id = id}
Offered(id) == UNION {{n} \X (1 .. posted[n]) : n \in Listed(id)}
Consumed(id) == {task \in Offered(id) : task[2] > listing[task[1]].quota}
Trades(id) == {r \in Requests : request[r].best.id = id /\ Scanned(r)}
Answered(id) == {r \in Trades(id) : request[r].pc = "answered"}

ChargesFollowIds ==
  \A n \in Numbers :
    LET id == listing[n].id IN
    /\ listing[n].quota <= posted[n]
    /\ posted[n] - listing[n].quota
         <= Cardinality({r \in Answered(id) : request[r].best.number <= n})
    /\ Cardinality(Consumed(id)) <= Cardinality(Answered(id))

(* quota_available is the "number of tasks this seller is willing to       *)
(* accept" (docs/agent-integration.md:95): no more are executed.           *)
QuotaLimitsTasks ==
  \A n \in Numbers :
    Cardinality({r \in Trades(listing[n].id) : request[r].pc # "execute"})
      <= Cardinality(Offered(listing[n].id))
===========================================================================
