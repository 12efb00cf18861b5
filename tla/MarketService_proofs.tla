------------------------ MODULE MarketService_proofs ------------------------
(***************************************************************************)
(* The demo market for any number of requests, posts and quotas.  With     *)
(* three requests or more a quota may even rise, when a thread writes back *)
(* what it read long ago; what is charged in all stays bounded by the      *)
(* trades that selected the id, and falls on no other listings.            *)
(***************************************************************************)
EXTENDS MarketService, SequenceTheorems, FiniteSetTheorems, WellFoundedInduction, TLAPS

Ids == {s.id : s \in {Seeds[i] : i \in 1 .. Len(Seeds)}} \cup ({"seller"} \X (0 .. MaxSeconds))
QuoteRecord == [number : Nat \ {0}, id : Ids, eligible : BOOLEAN, rank : Nat \ {0}]
RequestRecord ==
  [pc : {"new", "scan", "execute", "charge", "load", "store", "answered"}, index : Nat \ {0},
   quotes : Seq(QuoteRecord), best : QuoteRecord \cup {NoQuote}, loaded : Nat, known : Nat]

(* Of the listings with one id the newest comes first.                     *)
NewestFirst ==
  \A i, j \in 1 .. Len(SELLER_LISTINGS) :
    i < j /\ listing[SELLER_LISTINGS[i]].id = listing[SELLER_LISTINGS[j]].id
      => SELLER_LISTINGS[i] > SELLER_LISTINGS[j]

(* The list and the listings are permutations of each other.               *)
Market ==
  /\ listing \in Seq(Listing) /\ posted \in Seq(Nat) /\ SELLER_LISTINGS \in Seq(Nat)
  /\ Len(SELLER_LISTINGS) = Len(listing) /\ Len(posted) = Len(listing)
  /\ 3 <= Len(listing) /\ Len(listing) <= 3 + MaxPosts
  /\ \A n \in Numbers : \E i \in 1 .. Len(SELLER_LISTINGS) : SELLER_LISTINGS[i] = n
  /\ \A i \in 1 .. Len(SELLER_LISTINGS) : SELLER_LISTINGS[i] \in Numbers
  /\ second \in 0 .. MaxSeconds
  /\ request \in [Requests -> RequestRecord]

(* What a request has seen of the market, and what is still before it.     *)
Seen(r, n) == \E i \in 1 .. Len(request[r].quotes) : request[r].quotes[i].number = n
Ahead(r, n) == \E i \in request[r].index .. Len(SELLER_LISTINGS) : SELLER_LISTINGS[i] = n

Scans(r) ==
  /\ request[r].index <= Len(listing) + 1
  /\ request[r].pc = "new" => request[r].index = 1 /\ request[r].quotes = <<>>
                              /\ request[r].known = 0
  /\ request[r].known <= Len(listing)
  /\ \A n \in 1 .. request[r].known : Seen(r, n) \/ (request[r].pc = "scan" /\ Ahead(r, n))
  /\ \A i \in 1 .. Len(request[r].quotes) :
       /\ request[r].quotes[i].number \in Numbers
       /\ request[r].quotes[i].id = listing[request[r].quotes[i].number].id
       /\ request[r].quotes[i].eligible => request[r].quotes[i].rank <= request[r].best.rank
  /\ request[r].best # NoQuote
       => \E i \in 1 .. Len(request[r].quotes) : request[r].quotes[i] = request[r].best

(* The requests that have charged listing n.                               *)
Selected(r) == request[r].best # NoQuote
ChargedTo(n) ==
  {r \in Requests : request[r].pc = "answered" /\ Selected(r) /\ request[r].index = n}

(* A charge is of the selected listing or a later one with its id; what a  *)
(* thread has loaded is, like the quota itself, below what was posted by   *)
(* no more than the charges made so far.                                   *)
Charges(r) ==
  /\ request[r].pc \in {"charge", "load", "store"} => Selected(r)
  /\ request[r].pc \in {"load", "store"} \/ (request[r].pc = "answered" /\ Selected(r))
       => /\ request[r].index \in Numbers
          /\ listing[request[r].index].id = request[r].best.id
          /\ request[r].best.number <= request[r].index
  /\ request[r].pc = "store"
       => /\ request[r].loaded <= posted[request[r].index]
          /\ posted[request[r].index] - request[r].loaded
               <= Cardinality(ChargedTo(request[r].index))

Balanced(n) ==
  /\ listing[n].quota <= posted[n]
  /\ posted[n] - listing[n].quota <= Cardinality(ChargedTo(n))

MarketInv ==
  /\ Market /\ NewestFirst
  /\ \A r \in Requests : Scans(r) /\ Charges(r)
  /\ \A n \in Numbers : Balanced(n)

LEMMA SeedFacts ==
  /\ Seeds \in Seq(Listing) /\ Len(Seeds) = 3
  /\ \A i \in 1 .. 3 : Seeds[i].quota = SeedQuota
<1>1. Len(Seeds) = 3
  BY DEF Seeds
<1>2. \A i \in 1 .. 3 : Seeds[i] \in Listing
  <2>1. \A i \in 1 .. 3 : Seeds[i].id \in Ids
    BY <1>1 DEF Ids
  <2>2. SeedQuota \in Nat
    BY MarketAssumption
  <2>3. Listing = [id : Ids, quota : Nat, fit : BOOLEAN, rank : Nat \ {0}]
    BY DEF Listing, Ids
  <2>4. Seeds[1].id \in Ids /\ Seeds[2].id \in Ids /\ Seeds[3].id \in Ids
    BY <2>1
  <2> DEFINE L == [id : Ids, quota : Nat, fit : BOOLEAN, rank : Nat \ {0}]
  <2>5. Seeds[1] \in L /\ Seeds[2] \in L /\ Seeds[3] \in L
    BY <2>2, <2>4 DEF Seeds
  <2> HIDE DEF L
  <2>6. QED
    BY <2>3, <2>5 DEF L
<1>3. \A i \in 1 .. 3 : Seeds[i].quota = SeedQuota
  BY DEF Seeds
<1>4. QED
  BY <1>1, <1>2, <1>3 DEF Seeds

LEMMA NoQuoteIsNone == NoQuote \notin QuoteRecord /\ NoQuote.rank = 0
BY DEF NoQuote, QuoteRecord

(* The numbers of the market are few and the charges countable.            *)
LEMMA ChargesCountable ==
  \A n : IsFiniteSet(ChargedTo(n)) /\ Cardinality(ChargedTo(n)) \in Nat
<1> TAKE n
<1>1. ChargedTo(n) \in SUBSET Requests
  BY DEF ChargedTo
<1>2. QED
  BY <1>1, MarketAssumption, FS_Subset, FS_CardinalityType

LEMMA MarketInitInv == MarketInit => MarketInv
<1> SUFFICES ASSUME MarketInit PROVE MarketInv
  OBVIOUS
<1>1. Len(Seeds) = 3 /\ Seeds \in Seq(Listing) /\ SeedQuota \in Nat /\ MaxPosts \in Nat
      /\ MaxSeconds \in Nat
  BY SeedFacts, MarketAssumption
<1>2. Market
  <2>1. posted \in Seq(Nat) /\ Len(posted) = 3 /\ \A i \in 1 .. 3 : posted[i] = SeedQuota
    BY <1>1 DEF MarketInit
  <2>2. SELLER_LISTINGS \in Seq(Nat) /\ Len(SELLER_LISTINGS) = 3
        /\ \A i \in 1 .. 3 : SELLER_LISTINGS[i] = i
    BY DEF MarketInit
  <2>3. request \in [Requests -> RequestRecord]
    BY DEF MarketInit, RequestRecord
  <2>4. QED
    BY <1>1, <2>1, <2>2, <2>3 DEF MarketInit, Market, Numbers
<1>3. ASSUME NEW r \in Requests PROVE Scans(r) /\ Charges(r)
  BY <1>1 DEF MarketInit, Scans, Charges, Selected, Numbers
<1>4. ASSUME NEW n \in Numbers PROVE Balanced(n)
  <2>1. n \in 1 .. 3 /\ listing = Seeds /\ posted[n] = SeedQuota
    BY <1>1, <1>4 DEF MarketInit, Numbers
  <2>2. listing[n].quota = SeedQuota
    BY <2>1, SeedFacts
  <2>3. QED
    BY <1>1, <2>1, <2>2, ChargesCountable DEF Balanced
<1>5. NewestFirst
  <2>1. Len(SELLER_LISTINGS) = 3 /\ \A i \in 1 .. 3 : SELLER_LISTINGS[i] = i
    BY DEF MarketInit
  <2>2. /\ Seeds[1].id # Seeds[2].id /\ Seeds[1].id # Seeds[3].id
        /\ Seeds[2].id # Seeds[3].id
    BY DEF Seeds
  <2>3. listing = Seeds
    BY DEF MarketInit
  <2>4. ASSUME NEW i \in 1 .. 3, NEW j \in 1 .. 3, i < j
        PROVE  listing[SELLER_LISTINGS[i]].id # listing[SELLER_LISTINGS[j]].id
    <3>1. (i = 1 /\ j = 2) \/ (i = 1 /\ j = 3) \/ (i = 2 /\ j = 3)
      BY <2>4
    <3>2. SELLER_LISTINGS[i] = i /\ SELLER_LISTINGS[j] = j
      BY <2>1
    <3>3. Seeds[i].id # Seeds[j].id
      BY <2>2, <3>1
    <3>4. QED
      BY <2>3, <3>2, <3>3
  <2>5. QED
    BY <2>1, <2>4 DEF NewestFirst
<1>6. QED
  BY <1>2, <1>3, <1>4, <1>5 DEF MarketInv
---------------------------------------------------------------------------
(* A step of one request that makes no charge.                             *)
LEMMA OneRequestKeepsInv ==
  ASSUME MarketInv, NEW r \in Requests, UNCHANGED <<SELLER_LISTINGS, listing, second, posted>>,
         request' \in [Requests -> RequestRecord],
         \A s \in Requests \ {r} : request'[s] = request[s],
         request[r].pc # "answered", ~(request'[r].pc = "answered" /\ Selected(r)'),
         Scans(r)', Charges(r)'
  PROVE  MarketInv'
<1>1. Market'
  BY DEF MarketInv, Market, Numbers
<1>2. \A n : ChargedTo(n)' = ChargedTo(n)
  BY DEF ChargedTo, Selected
<1>3. Numbers' = Numbers
  BY DEF Numbers
<1>4. ASSUME NEW s \in Requests PROVE Scans(s)' /\ Charges(s)'
  <2>1. CASE s = r
    BY <2>1
  <2>2. CASE s # r
    <3>1. request'[s] = request[s] /\ Scans(s) /\ Charges(s)
      BY <2>2 DEF MarketInv
    <3>2. Scans(s)'
      BY <1>3, <3>1 DEF Scans, Seen, Ahead
    <3>3. Charges(s)'
      BY <1>2, <1>3, <3>1 DEF Charges, Selected
    <3>4. QED
      BY <3>2, <3>3
  <2>3. QED
    BY <2>1, <2>2
<1>5. ASSUME NEW n \in Numbers PROVE Balanced(n)'
  BY <1>2, <1>5 DEF MarketInv, Balanced
<1>6. NewestFirst'
  BY DEF MarketInv, NewestFirst
<1>7. QED
  BY <1>1, <1>3, <1>4, <1>5, <1>6 DEF MarketInv

LEMMA StartScanKeepsInv ==
  ASSUME MarketInv, NEW r \in Requests, StartScan(r) PROVE MarketInv'
<1>1. Market /\ Scans(r) /\ Charges(r) /\ request[r] \in RequestRecord
  BY DEF MarketInv, Market
<1> DEFINE q == [request[r] EXCEPT !.pc = "scan", !.known = Len(listing)]
<1>2. /\ request[r].pc = "new"
      /\ request' = [request EXCEPT ![r] = q]
      /\ UNCHANGED <<SELLER_LISTINGS, listing, second, posted>>
  BY DEF StartScan
<1>3. Len(listing) \in Nat
  BY <1>1, LenProperties DEF Market
<1>4. /\ q \in RequestRecord /\ q.pc = "scan" /\ q.known = Len(listing)
      /\ q.index = 1 /\ q.quotes = <<>> /\ q.best = request[r].best
  BY <1>1, <1>2, <1>3 DEF RequestRecord, Scans
<1> HIDE DEF q
<1>5. request' \in [Requests -> RequestRecord] /\ request'[r] = q
      /\ \A s \in Requests \ {r} : request'[s] = request[s]
  BY <1>1, <1>2, <1>4 DEF Market
<1>6. q.best = NoQuote
  <2>1. Len(request[r].quotes) = 0
    BY <1>1, <1>2 DEF Scans
  <2>2. QED
    BY <1>1, <1>4, <2>1 DEF Scans
<1>7. Scans(r)'
  <2>1. \A n \in 1 .. Len(listing) : Ahead(r, n)'
    BY <1>1, <1>2, <1>4, <1>5 DEF Ahead, Market, Numbers
  <2>2. QED
    BY <1>2, <1>3, <1>4, <1>5, <1>6, <2>1 DEF Scans
<1>8. Charges(r)'
  BY <1>4, <1>5 DEF Charges
<1>9. QED
  BY <1>2, <1>4, <1>5, <1>7, <1>8, OneRequestKeepsInv

(* What a listing is quoted as.                                            *)
LEMMA QuoteType ==
  ASSUME Market, NEW n \in Numbers
  PROVE  Quote(n) \in QuoteRecord /\ Quote(n).number = n /\ Quote(n).id = listing[n].id
<1>1. listing[n] \in Listing /\ n \in Nat \ {0}
  BY LenProperties, ElementOfSeq DEF Market, Numbers
<1>2. listing[n].id \in Ids /\ listing[n].quota \in Nat /\ listing[n].fit \in BOOLEAN
      /\ listing[n].rank \in Nat \ {0}
  BY <1>1 DEF Listing, Ids
<1> DEFINE e == listing[n].quota > 0 /\ listing[n].fit
<1>3. e \in BOOLEAN
  OBVIOUS
<1>4. Quote(n) = [number |-> n, id |-> listing[n].id, eligible |-> e, rank |-> listing[n].rank]
  BY DEF Quote
<1> HIDE DEF e
<1>5. QED
  BY <1>1, <1>2, <1>3, <1>4 DEF QuoteRecord

LEMMA ScanListingKeepsInv ==
  ASSUME MarketInv, NEW r \in Requests, ScanListing(r) PROVE MarketInv'
<1>1. Market /\ Scans(r) /\ Charges(r) /\ request[r] \in RequestRecord
  BY DEF MarketInv, Market
<1> DEFINE i == request[r].index
           n == SELLER_LISTINGS[i]
           old == request[r].best
           quotes == request[r].quotes
           new == IF Quote(n).eligible /\ Quote(n).rank > old.rank THEN Quote(n) ELSE old
           q == [request[r] EXCEPT !.index = i + 1, !.quotes = Append(quotes, Quote(n)),
                                   !.best = new]
<1>2. /\ request[r].pc = "scan" /\ i <= Len(SELLER_LISTINGS)
      /\ request' = [request EXCEPT ![r] = q]
      /\ UNCHANGED <<SELLER_LISTINGS, listing, second, posted>>
  BY DEF ScanListing
<1>3. /\ i \in 1 .. Len(SELLER_LISTINGS) /\ Len(listing) \in Nat
      /\ Len(SELLER_LISTINGS) = Len(listing)
      /\ quotes \in Seq(QuoteRecord) /\ old \in QuoteRecord \cup {NoQuote}
  BY <1>1, <1>2, LenProperties DEF Market, RequestRecord
<1>4. n \in Numbers
  BY <1>1, <1>3 DEF Market
<1>5. Quote(n) \in QuoteRecord /\ Quote(n).number = n /\ Quote(n).id = listing[n].id
  BY <1>1, <1>4, QuoteType
<1>6. /\ Append(quotes, Quote(n)) \in Seq(QuoteRecord)
      /\ Len(Append(quotes, Quote(n))) = Len(quotes) + 1 /\ Len(quotes) \in Nat
      /\ \A j \in 1 .. Len(quotes) : Append(quotes, Quote(n))[j] = quotes[j]
      /\ Append(quotes, Quote(n))[Len(quotes) + 1] = Quote(n)
  BY <1>3, <1>5, AppendProperties, LenProperties
<1>7. /\ new \in QuoteRecord \cup {NoQuote}
      /\ old.rank <= new.rank
      /\ Quote(n).eligible => Quote(n).rank <= new.rank
      /\ new = Quote(n) \/ new = old
  <2>1. Quote(n).rank \in Nat /\ old.rank \in Nat
    BY <1>3, <1>5, NoQuoteIsNone DEF QuoteRecord
  <2>2. QED
    BY <1>3, <1>5, <2>1
<1> HIDE DEF new
<1>8. /\ q \in RequestRecord /\ q.pc = "scan" /\ q.known = request[r].known
      /\ q.index = i + 1 /\ q.quotes = Append(quotes, Quote(n)) /\ q.best = new
  <2> DEFINE next == i + 1
             grown == Append(quotes, Quote(n))
             v == [request[r] EXCEPT !.index = next, !.quotes = grown, !.best = new]
  <2>1. q = v
    OBVIOUS
  <2>2. next \in Nat \ {0} /\ grown \in Seq(QuoteRecord)
    BY <1>3, <1>6
  <2> HIDE DEF next, grown
  <2>3. /\ v \in RequestRecord /\ v.pc = request[r].pc /\ v.known = request[r].known
        /\ v.index = next /\ v.quotes = grown /\ v.best = new
    BY <1>1, <1>7, <2>2 DEF RequestRecord
  <2> HIDE DEF v
  <2>4. QED
    BY <1>2, <2>1, <2>3 DEF next, grown
<1> HIDE DEF q
<1>9. request' \in [Requests -> RequestRecord] /\ request'[r] = q
      /\ \A s \in Requests \ {r} : request'[s] = request[s]
  BY <1>1, <1>2, <1>8 DEF Market
<1>10. ASSUME NEW m \in 1 .. request[r].known PROVE Seen(r, m)' \/ Ahead(r, m)'
  <2>1. CASE Seen(r, m)
    <3>1. PICK j \in 1 .. Len(quotes) : quotes[j].number = m
      BY <2>1 DEF Seen
    <3>2. j \in 1 .. Len(q.quotes) /\ q.quotes[j].number = m
      BY <1>6, <1>8, <3>1
    <3>3. QED
      BY <1>9, <3>2 DEF Seen
  <2>2. CASE Ahead(r, m)
    <3>1. PICK j \in i .. Len(SELLER_LISTINGS) : SELLER_LISTINGS[j] = m
      BY <2>2 DEF Ahead
    <3>2. CASE j = i
      <4>1. q.quotes[Len(quotes) + 1].number = m /\ Len(quotes) + 1 \in 1 .. Len(q.quotes)
        BY <1>5, <1>6, <1>8, <3>1, <3>2
      <4>2. QED
        BY <1>9, <4>1 DEF Seen
    <3>3. CASE j # i
      <4>1. j \in q.index .. Len(SELLER_LISTINGS)
        BY <1>3, <1>8, <3>1, <3>3
      <4>2. QED
        BY <1>2, <1>9, <3>1, <4>1 DEF Ahead
    <3>4. QED
      BY <3>2, <3>3
  <2>3. QED
    BY <1>1, <1>10, <2>1, <2>2 DEF Scans
<1>11. ASSUME NEW j \in 1 .. Len(q.quotes)
       PROVE  /\ q.quotes[j].number \in Numbers
              /\ q.quotes[j].id = listing[q.quotes[j].number].id
              /\ q.quotes[j].eligible => q.quotes[j].rank <= q.best.rank
  <2>1. CASE j = Len(quotes) + 1
    BY <1>4, <1>5, <1>6, <1>7, <1>8, <2>1
  <2>2. CASE j # Len(quotes) + 1
    <3>1. j \in 1 .. Len(quotes) /\ q.quotes[j] = quotes[j]
      BY <1>6, <1>8, <2>2
    <3>2. /\ quotes[j].number \in Numbers /\ quotes[j].id = listing[quotes[j].number].id
          /\ quotes[j].eligible => quotes[j].rank <= old.rank
      BY <1>1, <3>1 DEF Scans
    <3>3. quotes[j].rank \in Nat /\ old.rank \in Nat /\ new.rank \in Nat
      <4>1. quotes[j] \in QuoteRecord
        BY <1>3, <3>1, ElementOfSeq
      <4>2. QED
        BY <1>3, <1>7, <4>1, NoQuoteIsNone DEF QuoteRecord
    <3>4. QED
      BY <1>7, <1>8, <3>1, <3>2, <3>3
  <2>3. QED
    BY <2>1, <2>2
<1>12. ASSUME q.best # NoQuote PROVE \E j \in 1 .. Len(q.quotes) : q.quotes[j] = q.best
  <2>1. CASE new = Quote(n)
    <3>1. Len(quotes) + 1 \in 1 .. Len(q.quotes)
      BY <1>6, <1>8
    <3>2. QED
      BY <1>6, <1>8, <2>1, <3>1
  <2>2. CASE new = old
    <3>1. PICK j \in 1 .. Len(quotes) : quotes[j] = old
      BY <1>1, <1>8, <1>12, <2>2 DEF Scans
    <3>2. j \in 1 .. Len(q.quotes) /\ q.quotes[j] = old
      BY <1>6, <1>8, <3>1
    <3>3. QED
      BY <1>8, <2>2, <3>2
  <2>3. QED
    BY <1>7, <2>1, <2>2
<1>13. Scans(r)'
  <2>1. Numbers' = Numbers /\ Len(listing)' = Len(listing)
    BY <1>2 DEF Numbers
  <2>2. q.index <= Len(listing) + 1 /\ q.known <= Len(listing)
    BY <1>1, <1>3, <1>8 DEF Scans
  <2>3. \A m \in 1 .. q.known : Seen(r, m)' \/ (q.pc = "scan" /\ Ahead(r, m)')
    BY <1>8, <1>10
  <2>4. \A j \in 1 .. Len(q.quotes) :
          /\ q.quotes[j].number \in Numbers
          /\ q.quotes[j].id = listing[q.quotes[j].number].id
          /\ q.quotes[j].eligible => q.quotes[j].rank <= q.best.rank
    BY <1>11
  <2>5. listing' = listing /\ request'[r] = q /\ q.pc # "new"
    BY <1>2, <1>8, <1>9
  <2>6. QED
    BY <1>12, <2>1, <2>2, <2>3, <2>4, <2>5 DEF Scans
<1>14. Charges(r)'
  BY <1>8, <1>9 DEF Charges
<1>15. QED
  BY <1>2, <1>8, <1>9, <1>13, <1>14, OneRequestKeepsInv

(* After the scan nothing that was heard is forgotten.                     *)
LEMMA ScansStay ==
  ASSUME MarketInv, NEW r \in Requests, UNCHANGED <<SELLER_LISTINGS, listing>>,
         request'[r].quotes = request[r].quotes, request'[r].best = request[r].best,
         request'[r].known = request[r].known, request'[r].pc # "new",
         request'[r].index <= Len(listing) + 1,
         \A n \in 1 .. request[r].known : Seen(r, n)
  PROVE  Scans(r)'
<1>1. Scans(r)
  BY DEF MarketInv
<1>2. Numbers' = Numbers /\ \A n : Seen(r, n)' = Seen(r, n)
  BY DEF Numbers, Seen
<1>3. QED
  BY <1>1, <1>2 DEF Scans

LEMMA EndScanKeepsInv ==
  ASSUME MarketInv, NEW r \in Requests, EndScan(r) PROVE MarketInv'
<1>1. Market /\ Scans(r) /\ Charges(r) /\ request[r] \in RequestRecord
  BY DEF MarketInv, Market
<1> DEFINE q == [request[r] EXCEPT !.pc = "execute"]
<1>2. /\ request[r].pc = "scan" /\ request[r].index > Len(SELLER_LISTINGS)
      /\ request' = [request EXCEPT ![r] = q]
      /\ UNCHANGED <<SELLER_LISTINGS, listing, second, posted>>
  BY DEF EndScan
<1>3. /\ q \in RequestRecord /\ q.pc = "execute" /\ q.known = request[r].known
      /\ q.index = request[r].index /\ q.quotes = request[r].quotes /\ q.best = request[r].best
  BY <1>1 DEF RequestRecord
<1> HIDE DEF q
<1>4. request' \in [Requests -> RequestRecord] /\ request'[r] = q
      /\ \A s \in Requests \ {r} : request'[s] = request[s]
  BY <1>1, <1>2, <1>3 DEF Market
<1>5. \A n : ~Ahead(r, n)
  <2>1. Len(SELLER_LISTINGS) \in Nat /\ request[r].index \in Nat
    BY <1>1, LenProperties DEF Market, RequestRecord
  <2>2. QED
    BY <1>2, <2>1 DEF Ahead
<1>6. Scans(r)'
  <2>1. \A n \in 1 .. request[r].known : Seen(r, n)
    BY <1>1, <1>5 DEF Scans
  <2>2. request[r].index <= Len(listing) + 1
    BY <1>1 DEF Scans
  <2>3. QED
    BY <1>2, <1>3, <1>4, <2>1, <2>2, ScansStay
<1>7. Charges(r)'
  BY <1>3, <1>4 DEF Charges
<1>8. QED
  BY <1>2, <1>3, <1>4, <1>6, <1>7, OneRequestKeepsInv

LEMMA ExecuteKeepsInv ==
  ASSUME MarketInv, NEW r \in Requests, Execute(r) PROVE MarketInv'
<1>1. Market /\ Scans(r) /\ Charges(r) /\ request[r] \in RequestRecord
  BY DEF MarketInv, Market
<1> DEFINE next == IF request[r].best = NoQuote THEN "answered" ELSE "charge"
           q == [request[r] EXCEPT !.pc = next]
<1>2. /\ request[r].pc = "execute"
      /\ request' = [request EXCEPT ![r] = q]
      /\ UNCHANGED <<SELLER_LISTINGS, listing, second, posted>>
  BY DEF Execute
<1>3. next \in {"answered", "charge"} /\ (next = "answered" <=> request[r].best = NoQuote)
  OBVIOUS
<1> HIDE DEF next
<1>4. /\ q \in RequestRecord /\ q.pc = next /\ q.known = request[r].known
      /\ q.index = request[r].index /\ q.quotes = request[r].quotes /\ q.best = request[r].best
  BY <1>1, <1>3 DEF RequestRecord
<1> HIDE DEF q
<1>5. request' \in [Requests -> RequestRecord] /\ request'[r] = q
      /\ \A s \in Requests \ {r} : request'[s] = request[s]
  BY <1>1, <1>2, <1>4 DEF Market
<1>6. Scans(r)'
  <2>1. \A n \in 1 .. request[r].known : Seen(r, n)
    BY <1>1, <1>2 DEF Scans
  <2>2. request[r].index <= Len(listing) + 1
    BY <1>1 DEF Scans
  <2>3. QED
    BY <1>2, <1>3, <1>4, <1>5, <2>1, <2>2, ScansStay
<1>7. Charges(r)'
  BY <1>3, <1>4, <1>5 DEF Charges, Selected
<1>8. ~(request'[r].pc = "answered" /\ Selected(r)')
  BY <1>3, <1>4, <1>5 DEF Selected
<1>9. QED
  BY <1>2, <1>5, <1>6, <1>7, <1>8, OneRequestKeepsInv

(* A set of naturals that is not empty has a least element.                *)
LEMMA LeastElement ==
  ASSUME NEW S \in SUBSET Nat, S # {}
  PROVE  Min(S) \in S /\ \A y \in S : Min(S) <= y
<1>1. PICK x \in S : \A y \in S : <<y, x>> \notin OpToRel(<, Nat)
  BY NatLessThanWellFounded, WFMin
<1>2. ASSUME NEW y \in S PROVE x <= y
  <2>1. <<y, x>> \in Nat \X Nat /\ <<y, x>> \notin OpToRel(<, Nat)
    BY <1>1
  <2>2. ~(<<y, x>>[1] < <<y, x>>[2])
    BY <2>1 DEF OpToRel
  <2>3. QED
    BY <2>2
<1>3. QED
  BY <1>1, <1>2 DEF Min

(* The listing charged has the selected id, though it may be a later one.  *)
LEMMA ChargedListing ==
  ASSUME MarketInv, NEW r \in Requests, Selected(r)
  PROVE  /\ Charged(r) \in Numbers /\ listing[Charged(r)].id = request[r].best.id
         /\ request[r].best.number <= Charged(r)
<1>1. Market /\ NewestFirst /\ Scans(r)
  BY DEF MarketInv
<1> DEFINE matches == {i \in 1 .. Len(SELLER_LISTINGS) :
                         listing[SELLER_LISTINGS[i]].id = request[r].best.id}
<1>2. PICK j \in 1 .. Len(request[r].quotes) : request[r].quotes[j] = request[r].best
  BY <1>1 DEF Scans, Selected
<1>3. /\ request[r].best.number \in Numbers
      /\ listing[request[r].best.number].id = request[r].best.id
  BY <1>1, <1>2 DEF Scans
<1>4. PICK i \in 1 .. Len(SELLER_LISTINGS) : SELLER_LISTINGS[i] = request[r].best.number
  BY <1>1, <1>3 DEF Market
<1>5. matches # {} /\ matches \in SUBSET Nat /\ i \in matches
  BY <1>3, <1>4
<1>6. Min(matches) \in matches /\ Min(matches) <= i
  <2> HIDE DEF matches
  <2>1. QED
    BY <1>5, LeastElement
<1>7. Charged(r) = SELLER_LISTINGS[Min(matches)]
  BY DEF Charged
<1> DEFINE m == Min(matches)
<1>8. m \in 1 .. Len(SELLER_LISTINGS) /\ listing[SELLER_LISTINGS[m]].id = request[r].best.id
      /\ m <= i
  BY <1>6
<1> HIDE DEF m, matches
<1>9. SELLER_LISTINGS[i] <= SELLER_LISTINGS[m]
  <2>1. SELLER_LISTINGS[i] \in Nat /\ SELLER_LISTINGS[m] \in Nat
    BY <1>1, <1>4, <1>8, ElementOfSeq DEF Market
  <2>2. CASE m = i
    BY <2>1, <2>2
  <2>3. CASE m # i
    <3>1. m < i
      BY <1>4, <1>8, <2>3
    <3>2. SELLER_LISTINGS[m] > SELLER_LISTINGS[i]
      BY <1>1, <1>3, <1>4, <1>8, <3>1 DEF NewestFirst
    <3>3. QED
      BY <2>1, <3>2
  <2>4. QED
    BY <2>2, <2>3
<1>10. QED
  BY <1>1, <1>4, <1>7, <1>8, <1>9 DEF Market, m

LEMMA FindListingKeepsInv ==
  ASSUME MarketInv, NEW r \in Requests, FindListing(r) PROVE MarketInv'
<1>1. Market /\ Scans(r) /\ Charges(r) /\ request[r] \in RequestRecord
  BY DEF MarketInv, Market
<1> DEFINE n == Charged(r)
           q == [request[r] EXCEPT !.pc = "load", !.index = n]
<1>2. /\ request[r].pc = "charge"
      /\ request' = [request EXCEPT ![r] = q]
      /\ UNCHANGED <<SELLER_LISTINGS, listing, second, posted>>
  BY DEF FindListing
<1>3. Selected(r)
  BY <1>1, <1>2 DEF Charges
<1>4. /\ n \in Numbers /\ listing[n].id = request[r].best.id
      /\ request[r].best.number <= n
  BY <1>3, ChargedListing
<1> HIDE DEF n
<1>5. n \in Nat \ {0} /\ n <= Len(listing) + 1
  <2>1. Len(listing) \in Nat
    BY <1>1, LenProperties DEF Market
  <2>2. QED
    BY <1>4, <2>1 DEF Numbers
<1>6. /\ q \in RequestRecord /\ q.pc = "load" /\ q.known = request[r].known
      /\ q.index = n /\ q.quotes = request[r].quotes /\ q.best = request[r].best
  BY <1>1, <1>5 DEF RequestRecord
<1> HIDE DEF q
<1>7. request' \in [Requests -> RequestRecord] /\ request'[r] = q
      /\ \A s \in Requests \ {r} : request'[s] = request[s]
  BY <1>1, <1>2, <1>6 DEF Market
<1>8. Scans(r)'
  <2>1. \A m \in 1 .. request[r].known : Seen(r, m)
    BY <1>1, <1>2 DEF Scans
  <2>2. QED
    BY <1>2, <1>5, <1>6, <1>7, <2>1, ScansStay
<1>9. Charges(r)'
  <2>1. Numbers' = Numbers
    BY <1>2 DEF Numbers
  <2>2. QED
    BY <1>2, <1>3, <1>4, <1>6, <1>7, <2>1 DEF Charges, Selected
<1>10. QED
  BY <1>2, <1>6, <1>7, <1>8, <1>9, OneRequestKeepsInv

LEMMA LoadQuotaKeepsInv ==
  ASSUME MarketInv, NEW r \in Requests, LoadQuota(r) PROVE MarketInv'
<1>1. Market /\ Scans(r) /\ Charges(r) /\ request[r] \in RequestRecord
  BY DEF MarketInv, Market
<1>0. PICK n : n = request[r].index
  OBVIOUS
<1> DEFINE quota == listing[n].quota
           q == [request[r] EXCEPT !.pc = "store", !.loaded = quota]
<1>2. /\ request[r].pc = "load"
      /\ request' = [request EXCEPT ![r] = q]
      /\ UNCHANGED <<SELLER_LISTINGS, listing, second, posted>>
  BY <1>0 DEF LoadQuota
<1>3. /\ Selected(r) /\ n \in Numbers /\ listing[n].id = request[r].best.id
      /\ request[r].best.number <= n
  BY <1>0, <1>1, <1>2 DEF Charges
<1>4. quota \in Nat
  <2>1. listing[n] \in Listing
    BY <1>1, <1>3, ElementOfSeq DEF Market, Numbers
  <2>2. QED
    BY <2>1 DEF Listing
<1>5. quota <= posted[n] /\ posted[n] - quota <= Cardinality(ChargedTo(n))
  BY <1>3 DEF MarketInv, Balanced
<1> HIDE DEF quota
<1>6. /\ q \in RequestRecord /\ q.pc = "store" /\ q.known = request[r].known
      /\ q.index = n /\ q.quotes = request[r].quotes /\ q.best = request[r].best
      /\ q.loaded = quota
  BY <1>0, <1>1, <1>4 DEF RequestRecord
<1> HIDE DEF q
<1>7. request' \in [Requests -> RequestRecord] /\ request'[r] = q
      /\ \A s \in Requests \ {r} : request'[s] = request[s]
  BY <1>1, <1>2, <1>6 DEF Market
<1>8. Scans(r)'
  <2>1. \A m \in 1 .. request[r].known : Seen(r, m)
    BY <1>1, <1>2 DEF Scans
  <2>2. n <= Len(listing) + 1
    BY <1>0, <1>1 DEF Scans
  <2>3. QED
    BY <1>2, <1>6, <1>7, <2>1, <2>2, ScansStay
<1>9. \A m : ChargedTo(m)' = ChargedTo(m)
  BY <1>2, <1>6, <1>7 DEF ChargedTo, Selected
<1>10. Charges(r)'
  <2>1. Numbers' = Numbers
    BY <1>2 DEF Numbers
  <2>2. QED
    BY <1>2, <1>3, <1>5, <1>6, <1>7, <1>9, <2>1 DEF Charges, Selected
<1>11. QED
  BY <1>2, <1>6, <1>7, <1>8, <1>10, OneRequestKeepsInv
---------------------------------------------------------------------------
(* A charge is made: one more than the thread had loaded, of one trade.    *)
LEMMA StoreQuotaKeepsInv ==
  ASSUME MarketInv, NEW r \in Requests, StoreQuota(r) PROVE MarketInv'
<1>1. Market /\ Scans(r) /\ Charges(r) /\ request[r] \in RequestRecord
  BY DEF MarketInv, Market
<1>0. PICK n : n = request[r].index
  OBVIOUS
<1> DEFINE loaded == request[r].loaded
           left == IF loaded > 0 THEN loaded - 1 ELSE 0
           l == [listing[n] EXCEPT !.quota = left]
           q == [request[r] EXCEPT !.pc = "answered"]
<1>2. /\ request[r].pc = "store"
      /\ listing' = [listing EXCEPT ![n] = l]
      /\ request' = [request EXCEPT ![r] = q]
      /\ UNCHANGED <<SELLER_LISTINGS, second, posted>>
  BY <1>0 DEF StoreQuota
<1>3. /\ Selected(r) /\ n \in Numbers /\ listing[n].id = request[r].best.id
      /\ request[r].best.number <= n
      /\ loaded <= posted[n] /\ posted[n] - loaded <= Cardinality(ChargedTo(n))
  BY <1>0, <1>1, <1>2 DEF Charges
<1>4. /\ q \in RequestRecord /\ q.pc = "answered" /\ q.known = request[r].known
      /\ q.index = n /\ q.quotes = request[r].quotes /\ q.best = request[r].best
  BY <1>0, <1>1 DEF RequestRecord
<1>5. /\ loaded \in Nat /\ left \in Nat /\ posted[n] \in Nat /\ Len(listing) \in Nat
      /\ listing[n] \in Listing
  <2>1. n \in 1 .. Len(listing) /\ n \in 1 .. Len(posted)
    BY <1>1, <1>3 DEF Market, Numbers
  <2>2. loaded \in Nat
    BY <1>1 DEF RequestRecord
  <2>3. left \in Nat
    BY <2>2
  <2>4. QED
    BY <1>1, <2>1, <2>2, <2>3, ElementOfSeq, LenProperties DEF Market
<1>6. left <= posted[n] /\ posted[n] - left <= Cardinality(ChargedTo(n)) + 1
  <2> DEFINE card == Cardinality(ChargedTo(n))
             given == posted[n]
  <2>1. card \in Nat /\ given \in Nat /\ loaded <= given /\ given - loaded <= card
    BY <1>3, <1>5, ChargesCountable
  <2> HIDE DEF card, given
  <2>2. left <= given /\ given - left <= card + 1
    BY <1>5, <2>1
  <2>3. QED
    BY <2>2 DEF card, given
<1> HIDE DEF left
<1>7. l \in Listing /\ l.quota = left /\ l.id = listing[n].id
  BY <1>5 DEF Listing
<1> HIDE DEF l, q, loaded
<1>8. /\ listing' \in Seq(Listing) /\ Len(listing') = Len(listing) /\ Numbers' = Numbers
      /\ \A m \in Numbers : listing'[m] = IF m = n THEN l ELSE listing[m]
  <2>1. listing \in Seq(Listing) /\ n \in 1 .. Len(listing) /\ l \in Listing
    BY <1>1, <1>3, <1>7 DEF Market, Numbers
  <2> DEFINE new == [listing EXCEPT ![n] = l]
  <2>2. /\ new \in Seq(Listing) /\ Len(new) = Len(listing)
        /\ \A m \in 1 .. Len(listing) : new[m] = IF m = n THEN l ELSE listing[m]
    BY <2>1, ExceptSeq
  <2>3. listing' = new
    BY <1>2
  <2> HIDE DEF new
  <2>4. QED
    BY <2>2, <2>3 DEF Numbers
<1>9. \A m \in Numbers : listing'[m].id = listing[m].id
  BY <1>7, <1>8
<1>10. request' \in [Requests -> RequestRecord] /\ request'[r] = q
       /\ \A s \in Requests \ {r} : request'[s] = request[s]
  BY <1>1, <1>2, <1>4 DEF Market
<1>11. Market'
  BY <1>1, <1>2, <1>8, <1>10 DEF Market
<1>12. /\ ChargedTo(n)' = ChargedTo(n) \cup {r} /\ r \notin ChargedTo(n)
       /\ \A m : m # n => ChargedTo(m)' = ChargedTo(m)
  BY <1>0, <1>2, <1>3, <1>4, <1>10 DEF ChargedTo, Selected
<1>13. /\ Cardinality(ChargedTo(n)') = Cardinality(ChargedTo(n)) + 1
       /\ \A m : /\ Cardinality(ChargedTo(m)') >= Cardinality(ChargedTo(m))
               /\ Cardinality(ChargedTo(m)') \in Nat
  <2>1. Cardinality(ChargedTo(n)') = Cardinality(ChargedTo(n)) + 1
    BY <1>12, ChargesCountable, FS_AddElement
  <2>2. ASSUME NEW m
        PROVE  /\ Cardinality(ChargedTo(m)') >= Cardinality(ChargedTo(m))
               /\ Cardinality(ChargedTo(m)') \in Nat
    <3>1. CASE m = n
      BY <2>1, <3>1, ChargesCountable
    <3>2. CASE m # n
      BY <1>12, <3>2, ChargesCountable
    <3>3. QED
      BY <3>1, <3>2
  <2>3. QED
    BY <2>1, <2>2
<1>14. ASSUME NEW s \in Requests PROVE Scans(s)'
  <2>1. Scans(s)
    BY DEF MarketInv
  <2>2. /\ request'[s].index = request[s].index /\ request'[s].quotes = request[s].quotes
        /\ request'[s].best = request[s].best /\ request'[s].known = request[s].known
        /\ request'[s].pc = "new" => request[s].pc = "new"
        /\ request[s].pc = "scan" => request'[s].pc = "scan"
    BY <1>0, <1>2, <1>4, <1>10
  <2>3. \A m : Seen(s, m)' = Seen(s, m) /\ Ahead(s, m)' = Ahead(s, m)
    BY <1>2, <2>2 DEF Seen, Ahead
  <2>4. \A j \in 1 .. Len(request[s].quotes) :
          listing'[request[s].quotes[j].number].id = request[s].quotes[j].id
    BY <1>9, <2>1 DEF Scans
  <2>5. QED
    BY <1>8, <2>1, <2>2, <2>3, <2>4 DEF Scans
<1>15. ASSUME NEW s \in Requests PROVE Charges(s)'
  <2>1. CASE s = r
    BY <1>3, <1>4, <1>8, <1>9, <1>10, <2>1 DEF Charges, Selected
  <2>2. CASE s # r
    <3>1. request'[s] = request[s] /\ Charges(s) /\ Selected(s)' = Selected(s)
      BY <1>10, <2>2 DEF MarketInv, Selected
    <3>2. ASSUME request[s].pc = "store"
          PROVE  posted[request[s].index] - request[s].loaded
                   <= Cardinality(ChargedTo(request[s].index))'
      <4>0. PICK m : m = request[s].index
        OBVIOUS
      <4> DEFINE card == Cardinality(ChargedTo(m))
                 cardNew == Cardinality(ChargedTo(m)')
                 owed == posted[m] - request[s].loaded
      <4>1. owed <= card /\ m \in Numbers
        BY <3>1, <3>2, <4>0 DEF Charges
      <4>2. card \in Nat /\ cardNew >= card /\ cardNew \in Nat
        BY <1>13, ChargesCountable
      <4>3. owed \in Int
        <5>1. posted[m] \in Nat
          BY <1>1, <4>1, ElementOfSeq DEF Market, Numbers
        <5>2. request[s].loaded \in Nat
          BY <1>1 DEF Market, RequestRecord
        <5>3. QED
          BY <5>1, <5>2
      <4> HIDE DEF owed, card, cardNew
      <4>4. owed <= cardNew
        BY <4>1, <4>2, <4>3
      <4>5. QED
        BY <4>0, <4>4, <1>10, <2>2 DEF owed, cardNew
    <3>3. QED
      BY <1>2, <1>8, <1>9, <3>1, <3>2 DEF Charges
  <2>3. QED
    BY <2>1, <2>2
<1>16. ASSUME NEW m \in Numbers PROVE Balanced(m)'
  <2>1. CASE m = n
    <3>1. listing'[m].quota = left /\ posted'[m] = posted[n]
      BY <1>2, <1>7, <1>8, <2>1
    <3>2. QED
      BY <1>6, <1>13, <2>1, <3>1 DEF Balanced
  <2>2. CASE m # n
    <3>1. listing'[m] = listing[m] /\ posted'[m] = posted[m] /\ ChargedTo(m)' = ChargedTo(m)
          /\ Balanced(m)
      BY <1>2, <1>8, <1>12, <2>2 DEF MarketInv
    <3>2. QED
      BY <3>1 DEF Balanced
  <2>3. QED
    BY <2>1, <2>2
<1>17. NewestFirst'
  <2>1. SELLER_LISTINGS' = SELLER_LISTINGS /\ NewestFirst
    BY <1>2 DEF MarketInv
  <2>2. \A i \in 1 .. Len(SELLER_LISTINGS) :
          listing'[SELLER_LISTINGS[i]].id = listing[SELLER_LISTINGS[i]].id
    BY <1>1, <1>9 DEF Market
  <2>3. QED
    BY <2>1, <2>2 DEF NewestFirst
<1>18. QED
  BY <1>8, <1>11, <1>14, <1>15, <1>16, <1>17 DEF MarketInv

(* A new listing goes in front: what was ahead of a scan stays ahead.      *)
LEMMA PostListingKeepsInv ==
  ASSUME MarketInv, PostListing PROVE MarketInv'
<1>0. PICK k : k = Len(listing) + 1
  OBVIOUS
<1>1. Market /\ Len(listing) \in Nat /\ k \in Nat /\ MaxPosts \in Nat
  BY <1>0, MarketAssumption, LenProperties DEF MarketInv, Market
<1>2. PICK now \in 0 .. second, quota \in Quotas, fit \in BOOLEAN, rank \in Ranks :
        /\ listing' = Append(listing, [id |-> <<"seller", now>>, quota |-> quota,
                                       fit |-> fit, rank |-> rank])
        /\ posted' = Append(posted, quota)
  BY DEF PostListing
<1> DEFINE l == [id |-> <<"seller", now>>, quota |-> quota, fit |-> fit, rank |-> rank]
<1>3. /\ Len(listing) < 3 + MaxPosts
      /\ SELLER_LISTINGS' = <<k>> \o SELLER_LISTINGS
      /\ UNCHANGED <<second, request>>
  BY <1>0, SeedFacts DEF PostListing
<1>4. l \in Listing /\ quota \in Nat /\ l.quota = quota
  <2>1. <<"seller", now>> \in {"seller"} \X (0 .. MaxSeconds)
    <3>1. second \in 0 .. MaxSeconds /\ MaxSeconds \in Nat
      BY <1>1, MarketAssumption DEF Market
    <3>2. now \in 0 .. MaxSeconds
      BY <3>1
    <3>3. QED
      BY <3>2
  <2>2. QED
    BY <2>1, MarketAssumption DEF Listing
<1> HIDE DEF l
<1>5. /\ listing' \in Seq(Listing) /\ Len(listing') = k
      /\ \A m \in Numbers : listing'[m] = listing[m]
      /\ listing'[k] = l
  <2>1. listing' = Append(listing, l)
    BY <1>2 DEF l
  <2>2. listing \in Seq(Listing)
    BY <1>1 DEF Market
  <2>3. QED
    BY <1>0, <1>4, <2>1, <2>2, AppendProperties DEF Numbers
<1>6. /\ posted' \in Seq(Nat) /\ Len(posted') = k
      /\ \A m \in Numbers : posted'[m] = posted[m]
      /\ posted'[k] = quota
  <2>1. posted' = Append(posted, quota)
    BY <1>2
  <2>2. posted \in Seq(Nat) /\ Len(posted) = Len(listing)
    BY <1>1 DEF Market
  <2>3. QED
    BY <1>0, <1>4, <2>1, <2>2, AppendProperties DEF Numbers
<1>7. /\ SELLER_LISTINGS' \in Seq(Nat) /\ Len(SELLER_LISTINGS') = k
      /\ SELLER_LISTINGS'[1] = k
      /\ \A i \in 1 .. Len(SELLER_LISTINGS) : SELLER_LISTINGS'[i + 1] = SELLER_LISTINGS[i]
      /\ \A i \in 2 .. k : SELLER_LISTINGS'[i] = SELLER_LISTINGS[i - 1]
  <2> DEFINE front == <<k>>
  <2>1. front \in Seq(Nat) /\ Len(front) = 1 /\ front[1] = k
    BY <1>1
  <2> HIDE DEF front
  <2>2. /\ front \o SELLER_LISTINGS \in Seq(Nat)
        /\ Len(front \o SELLER_LISTINGS) = 1 + Len(SELLER_LISTINGS)
        /\ \A i \in 1 .. 1 + Len(SELLER_LISTINGS) : (front \o SELLER_LISTINGS)[i] =
              IF i <= 1 THEN front[i] ELSE SELLER_LISTINGS[i - 1]
    <3>1. SELLER_LISTINGS \in Seq(Nat)
      BY <1>1 DEF Market
    <3>2. /\ front \o SELLER_LISTINGS \in Seq(Nat)
          /\ Len(front \o SELLER_LISTINGS) = Len(front) + Len(SELLER_LISTINGS)
          /\ \A i \in 1 .. Len(front) + Len(SELLER_LISTINGS) : (front \o SELLER_LISTINGS)[i] =
                IF i <= Len(front) THEN front[i] ELSE SELLER_LISTINGS[i - Len(front)]
      BY <2>1, <3>1, ConcatProperties
    <3>3. QED
      BY <2>1, <3>2
  <2>3. SELLER_LISTINGS' = front \o SELLER_LISTINGS
    BY <1>3 DEF front
  <2>4. Len(SELLER_LISTINGS) = Len(listing)
    BY <1>1 DEF Market
  <2>5. Len(SELLER_LISTINGS) \in Nat /\ 1 + Len(SELLER_LISTINGS) = k
    BY <1>0, <1>1, <2>4
  <2>6. \A i \in 1 .. Len(SELLER_LISTINGS) :
          i + 1 \in 1 .. k /\ ~(i + 1 <= 1) /\ (i + 1) - 1 = i
    BY <2>5
  <2>7. \A i \in 1 .. Len(SELLER_LISTINGS) : SELLER_LISTINGS'[i + 1] = SELLER_LISTINGS[i]
    BY <2>2, <2>3, <2>5, <2>6
  <2>8. \A i \in 2 .. k : i \in 1 .. k /\ ~(i <= 1)
    BY <1>1
  <2>9. \A i \in 2 .. k : SELLER_LISTINGS'[i] = SELLER_LISTINGS[i - 1]
    BY <2>2, <2>3, <2>5, <2>8
  <2>10. 1 \in 1 .. k
    BY <1>0, <1>1
  <2>11. QED
    BY <2>1, <2>2, <2>3, <2>5, <2>7, <2>9, <2>10
<1>8. Numbers = 1 .. Len(listing) /\ Numbers' = 1 .. k /\ Numbers' = Numbers \cup {k}
  BY <1>0, <1>1, <1>5 DEF Numbers
<1>9. Market'
  <2>1. \A n \in 1 .. k : \E i \in 1 .. k : SELLER_LISTINGS'[i] = n
    <3> TAKE n \in 1 .. k
    <3>1. CASE n = k
      BY <1>0, <1>1, <1>7, <3>1
    <3>2. CASE n # k
      <4>1. n \in Numbers
        BY <1>8, <3>2
      <4>2. PICK i \in 1 .. Len(SELLER_LISTINGS) : SELLER_LISTINGS[i] = n
        BY <1>1, <4>1 DEF Market
      <4>3. SELLER_LISTINGS'[i + 1] = n
        BY <1>7, <4>2
      <4>4. Len(SELLER_LISTINGS) = Len(listing)
        BY <1>1 DEF Market
      <4>5. i + 1 \in 1 .. k
        BY <1>0, <1>1, <4>2, <4>4
      <4>6. QED
        BY <4>3, <4>5
    <3>3. QED
      BY <3>1, <3>2
  <2>2. \A i \in 1 .. k : SELLER_LISTINGS'[i] \in Numbers'
    <3> TAKE i \in 1 .. k
    <3>1. CASE i = 1
      BY <1>7, <1>8, <3>1
    <3>2. CASE i # 1
      <4>1. i \in 2 .. k /\ i - 1 \in 1 .. Len(SELLER_LISTINGS)
        BY <1>0, <1>1, <3>2 DEF Market
      <4>2. SELLER_LISTINGS[i - 1] \in Numbers
        BY <1>1, <4>1 DEF Market
      <4>3. QED
        BY <1>7, <1>8, <4>1, <4>2
    <3>3. QED
      BY <3>1, <3>2
  <2>3. 3 <= k /\ k <= 3 + MaxPosts
    BY <1>0, <1>1, <1>3 DEF Market
  <2>4. QED
    BY <1>1, <1>3, <1>5, <1>6, <1>7, <1>8, <2>1, <2>2, <2>3 DEF Market
<1>10. \A n : ChargedTo(n)' = ChargedTo(n)
  BY <1>3 DEF ChargedTo, Selected
<1>11. ASSUME NEW s \in Requests PROVE Scans(s)'
  <2>1. Scans(s) /\ request'[s] = request[s] /\ request[s] \in RequestRecord
    BY <1>1, <1>3 DEF MarketInv, Market
  <2>2. request[s].index \in Nat /\ request[s].known \in Nat
    BY <2>1 DEF RequestRecord
  <2>3. request[s].index <= k + 1 /\ request[s].known <= k
    BY <1>0, <1>1, <2>1, <2>2 DEF Scans
  <2>4. ASSUME NEW n, Ahead(s, n) PROVE Ahead(s, n)'
    <3>1. PICK i \in request[s].index .. Len(SELLER_LISTINGS) : SELLER_LISTINGS[i] = n
      BY <2>4 DEF Ahead
    <3>2. i \in 1 .. Len(SELLER_LISTINGS) /\ i + 1 \in request[s].index .. k
      <4>1. request[s].index \in Nat \ {0}
        BY <2>1 DEF RequestRecord
      <4>2. QED
        BY <1>0, <1>1, <3>1, <4>1 DEF Market
    <3>3. SELLER_LISTINGS'[i + 1] = n
      BY <1>7, <3>1, <3>2
    <3>4. QED
      BY <1>7, <2>1, <3>2, <3>3 DEF Ahead
  <2>5. \A n : Seen(s, n)' = Seen(s, n)
    BY <2>1 DEF Seen
  <2>6. \A j \in 1 .. Len(request[s].quotes) :
          /\ request[s].quotes[j].number \in Numbers'
          /\ request[s].quotes[j].id = listing'[request[s].quotes[j].number].id
    BY <1>5, <1>8, <2>1 DEF Scans
  <2>7. \A n \in 1 .. request[s].known :
          Seen(s, n)' \/ (request[s].pc = "scan" /\ Ahead(s, n)')
    BY <2>1, <2>4, <2>5 DEF Scans
  <2>8. Len(listing)' = k
    BY <1>5
  <2>9. QED
    BY <2>1, <2>3, <2>6, <2>7, <2>8 DEF Scans
<1>12. ASSUME NEW s \in Requests PROVE Charges(s)'
  <2>1. Charges(s) /\ request'[s] = request[s]
    BY <1>3 DEF MarketInv
  <2>2. QED
    BY <1>5, <1>6, <1>8, <1>10, <2>1 DEF Charges, Selected
<1>13. ASSUME NEW n \in Numbers' PROVE Balanced(n)'
  <2>1. CASE n = k
    <3>1. listing'[n].quota = quota /\ posted'[n] = quota
      BY <1>4, <1>5, <1>6, <2>1
    <3>2. quota - quota = 0 /\ quota <= quota
      BY <1>4
    <3>3. 0 <= Cardinality(ChargedTo(n))
      BY ChargesCountable
    <3>4. QED
      BY <1>10, <3>1, <3>2, <3>3 DEF Balanced
  <2>2. CASE n # k
    BY <1>5, <1>6, <1>8, <1>10, <1>13, <2>2 DEF MarketInv, Balanced
  <2>3. QED
    BY <2>1, <2>2
<1>14. NewestFirst'
  <2> SUFFICES ASSUME NEW i \in 1 .. k, NEW j \in 1 .. k, i < j,
                      listing'[SELLER_LISTINGS'[i]].id = listing'[SELLER_LISTINGS'[j]].id
               PROVE  SELLER_LISTINGS'[i] > SELLER_LISTINGS'[j]
    BY <1>7 DEF NewestFirst
  <2>1. j \in 2 .. k /\ j - 1 \in 1 .. Len(SELLER_LISTINGS)
    BY <1>0, <1>1 DEF Market
  <2>2. SELLER_LISTINGS'[j] = SELLER_LISTINGS[j - 1] /\ SELLER_LISTINGS[j - 1] \in Numbers
    BY <1>1, <1>7, <2>1 DEF Market
  <2>3. CASE i = 1
    <3>1. SELLER_LISTINGS[j - 1] \in 1 .. Len(listing)
      BY <1>8, <2>2
    <3>2. SELLER_LISTINGS[j - 1] < k
      BY <1>0, <1>1, <3>1
    <3>3. QED
      BY <1>7, <2>2, <2>3, <3>2
  <2>4. CASE i # 1
    <3>1. i \in 2 .. k /\ i - 1 \in 1 .. Len(SELLER_LISTINGS) /\ i - 1 < j - 1
      BY <1>0, <1>1, <2>4 DEF Market
    <3>2. SELLER_LISTINGS'[i] = SELLER_LISTINGS[i - 1] /\ SELLER_LISTINGS[i - 1] \in Numbers
      BY <1>1, <1>7, <3>1 DEF Market
    <3>3. listing[SELLER_LISTINGS[i - 1]].id = listing[SELLER_LISTINGS[j - 1]].id
      BY <1>5, <2>2, <3>2
    <3>4. SELLER_LISTINGS[i - 1] > SELLER_LISTINGS[j - 1]
      BY <2>1, <3>1, <3>3 DEF MarketInv, NewestFirst
    <3>5. QED
      BY <2>2, <3>2, <3>4
  <2>5. QED
    BY <2>3, <2>4
<1>15. QED
  BY <1>9, <1>11, <1>12, <1>13, <1>14 DEF MarketInv

LEMMA MarketInvariant == MarketSpec => []MarketInv
<1>1. MarketInv /\ [MarketNext]_marketVars => MarketInv'
  <2> SUFFICES ASSUME MarketInv, [MarketNext]_marketVars PROVE MarketInv'
    OBVIOUS
  <2>1. ASSUME NEW r \in Requests, RequestStep(r) PROVE MarketInv'
    BY <2>1, StartScanKeepsInv, ScanListingKeepsInv, EndScanKeepsInv, ExecuteKeepsInv,
       FindListingKeepsInv, LoadQuotaKeepsInv, StoreQuotaKeepsInv DEF RequestStep
  <2>2. ASSUME UNCHANGED <<SELLER_LISTINGS, listing, request, posted>>,
               second' \in 0 .. MaxSeconds
        PROVE  MarketInv'
    <3>1. Market'
      BY <2>2 DEF MarketInv, Market, Numbers
    <3>2. Numbers' = Numbers /\ \A n : ChargedTo(n)' = ChargedTo(n)
      BY <2>2 DEF Numbers, ChargedTo, Selected
    <3>3. ASSUME NEW s \in Requests PROVE Scans(s)' /\ Charges(s)'
      <4>1. Scans(s)'
        BY <2>2, <3>2 DEF MarketInv, Scans, Seen, Ahead
      <4>2. Charges(s)'
        BY <2>2, <3>2 DEF MarketInv, Charges, Selected
      <4>3. QED
        BY <4>1, <4>2
    <3>4. \A n \in Numbers : Balanced(n)'
      BY <2>2, <3>2 DEF MarketInv, Balanced
    <3>5. NewestFirst'
      BY <2>2 DEF MarketInv, NewestFirst
    <3>6. QED
      BY <3>1, <3>2, <3>3, <3>4, <3>5 DEF MarketInv
  <2>3. CASE NextSecond
    <3>1. second' \in 0 .. MaxSeconds
      BY <2>3, MarketAssumption DEF NextSecond, MarketInv, Market
    <3>2. QED
      BY <2>2, <2>3, <3>1 DEF NextSecond
  <2>4. CASE UNCHANGED marketVars
    BY <2>2, <2>4 DEF marketVars, MarketInv, Market
  <2>5. QED
    BY <2>1, <2>3, <2>4, PostListingKeepsInv DEF MarketNext
<1>2. QED
  BY <1>1, MarketInitInv, PTL DEF MarketSpec
---------------------------------------------------------------------------
(* Types, and the list as a permutation of the listings.                   *)
THEOREM MarketTypeCorrect == MarketSpec => []MarketTypeOK
<1>1. MarketInv => MarketTypeOK
  <2> SUFFICES ASSUME MarketInv PROVE MarketTypeOK
    OBVIOUS
  <2>1. /\ listing \in Seq(Listing) /\ Len(posted) = Len(listing)
        /\ SELLER_LISTINGS \in Seq(Nat) /\ Len(SELLER_LISTINGS) = Len(listing)
        /\ Len(listing) \in Nat /\ Len(listing) <= 3 + MaxPosts /\ second \in 0 .. MaxSeconds
        /\ request \in [Requests -> RequestRecord]
        /\ MaxPosts \in Nat /\ Len(Seeds) = 3
    BY MarketAssumption, SeedFacts, LenProperties DEF MarketInv, Market
  <2>2. \A i \in Numbers : listing[i] \in Listing
    BY <2>1, ElementOfSeq DEF Numbers
  <2>3. Numbers = {SELLER_LISTINGS[i] : i \in 1 .. Len(SELLER_LISTINGS)}
    BY DEF MarketInv, Market
  <2>4. ASSUME NEW r \in Requests
        PROVE  /\ request[r].pc
                    \in {"new", "scan", "execute", "charge", "load", "store", "answered"}
               /\ request[r].index \in 1 .. 2 * (Len(Seeds) + MaxPosts) + 1
               /\ request[r].best.number \in Numbers \cup {0}
               /\ request[r].loaded \in Nat
    <3>1. request[r] \in RequestRecord /\ Scans(r)
      BY <2>1 DEF MarketInv
    <3>2. request[r].index \in Nat \ {0} /\ request[r].index <= Len(listing) + 1
      BY <3>1 DEF RequestRecord, Scans
    <3>3. request[r].index \in 1 .. 2 * (Len(Seeds) + MaxPosts) + 1
      BY <2>1, <3>2
    <3>4. request[r].best.number \in Numbers \cup {0}
      <4>1. CASE request[r].best = NoQuote
        <5>1. NoQuote.number = 0
          BY DEF NoQuote
        <5>2. QED
          BY <4>1, <5>1
      <4>2. CASE request[r].best # NoQuote
        BY <3>1, <4>2 DEF Scans
      <4>3. QED
        BY <4>1, <4>2
    <3>5. QED
      BY <3>1, <3>3, <3>4 DEF RequestRecord
  <2>5. QED
    BY <2>1, <2>2, <2>3, <2>4 DEF MarketTypeOK
<1>2. QED
  BY <1>1, MarketInvariant, PTL

(* However listings are posted while the list is iterated over, a buyer's  *)
(* scan sees every listing that was there when it began and selects the    *)
(* best eligible quote among what it saw.                                  *)
THEOREM BestOffer == MarketSpec => []BestOfferWins
<1>1. MarketInv => BestOfferWins
  <2> SUFFICES ASSUME MarketInv, NEW r \in Requests, Scanned(r)
               PROVE  /\ \A n \in 1 .. request[r].known : \E q \in Quoted(r) : q.number = n
                      /\ \A q \in Quoted(r) : q.eligible => q.rank <= request[r].best.rank
                      /\ request[r].best # NoQuote => request[r].best \in Quoted(r)
    BY DEF BestOfferWins
  <2>1. Scans(r) /\ request[r].pc # "scan"
    BY DEF MarketInv, Scanned
  <2>2. ASSUME NEW n \in 1 .. request[r].known PROVE \E q \in Quoted(r) : q.number = n
    <3>1. Seen(r, n)
      BY <2>1 DEF Scans
    <3>2. QED
      BY <3>1 DEF Seen, Quoted
  <2>3. \A q \in Quoted(r) : q.eligible => q.rank <= request[r].best.rank
    BY <2>1 DEF Scans, Quoted
  <2>4. request[r].best # NoQuote => request[r].best \in Quoted(r)
    BY <2>1 DEF Scans, Quoted
  <2>5. QED
    BY <2>2, <2>3, <2>4
<1>2. QED
  BY <1>1, MarketInvariant, PTL
---------------------------------------------------------------------------
(* Summing over the listings with one id: the tasks consumed of one        *)
(* listing, and of a set of listings.                                      *)
ConsumedOf(n) == {n} \X (listing[n].quota + 1 .. posted[n])
AllConsumed(T) == UNION {ConsumedOf(n) : n \in T}
AllCharged(T) == {r \in Requests : request[r].pc = "answered" /\ Selected(r)
                                   /\ request[r].index \in T}

LEMMA ConsumedOfOne ==
  ASSUME MarketInv, NEW n \in Numbers
  PROVE  /\ IsFiniteSet(ConsumedOf(n)) /\ Cardinality(ConsumedOf(n)) \in Nat
         /\ Cardinality(ConsumedOf(n)) <= Cardinality(ChargedTo(n))
<1> DEFINE q == listing[n].quota
           p == posted[n]
<1>1. q \in Nat /\ p \in Nat
  <2>1. listing[n] \in Listing /\ p \in Nat
    BY ElementOfSeq DEF MarketInv, Market, Numbers
  <2>2. QED
    BY <2>1 DEF Listing
<1>2. q <= p /\ p - q <= Cardinality(ChargedTo(n))
  BY DEF MarketInv, Balanced
<1> DEFINE I == q + 1 .. p
<1>3. ConsumedOf(n) = {n} \X I
  BY DEF ConsumedOf
<1> HIDE DEF q, p
<1>4. IsFiniteSet(I) /\ Cardinality(I) = p - q
  <2>1. q + 1 \in Int /\ p \in Int
    BY <1>1
  <2>2. IsFiniteSet(I) /\ Cardinality(I) = IF q + 1 > p THEN 0 ELSE p - (q + 1) + 1
    BY <2>1, FS_Interval
  <2> HIDE DEF I
  <2>3. QED
    BY <1>1, <1>2, <2>2
<1> HIDE DEF I
<1>5. IsFiniteSet({n}) /\ Cardinality({n}) = 1
  BY FS_Singleton
<1>6. IsFiniteSet({n} \X I) /\ Cardinality({n} \X I) = 1 * Cardinality(I)
  BY <1>4, <1>5, FS_Product
<1>7. 1 * Cardinality(I) = p - q /\ p - q \in Nat
  BY <1>1, <1>2, <1>4
<1>8. QED
  BY <1>2, <1>3, <1>6, <1>7

(* A non-empty family of subsets of a finite set has a member no proper    *)
(* subset of which is in the family.                                       *)
LEMMA MinimalSubset ==
  ASSUME NEW S, IsFiniteSet(S), NEW B \in SUBSET (SUBSET S), B # {}
  PROVE  \E T \in B : \A U \in B : U \subseteq T => U = T
<1>1. FiniteSubsetsOf(S) = SUBSET S
  BY FS_FiniteSubsetsOfFinite
<1>2. IsWellFoundedOn(StrictSubsetOrdering(S), SUBSET S)
  BY <1>1, FS_StrictSubsetOrderingWellFounded
<1>3. \E T \in B : \A U \in B : <<U, T>> \notin StrictSubsetOrdering(S)
  BY <1>2, WFMin
<1>4. QED
  BY <1>3 DEF StrictSubsetOrdering

(* What a set of listings has lost, it has charged for: were there a set   *)
(* of which this is false, there would be a smallest one.                  *)
LEMMA ConsumedWasCharged ==
  ASSUME MarketInv, NEW S \in SUBSET Numbers
  PROVE  /\ IsFiniteSet(AllConsumed(S)) /\ IsFiniteSet(AllCharged(S))
         /\ Cardinality(AllConsumed(S)) <= Cardinality(AllCharged(S))
<1> DEFINE Right(T) == /\ IsFiniteSet(AllConsumed(T))
                       /\ Cardinality(AllConsumed(T)) <= Cardinality(AllCharged(T))
           B == {T \in SUBSET Numbers : ~Right(T)}
<1>1. \A T : IsFiniteSet(AllCharged(T)) /\ Cardinality(AllCharged(T)) \in Nat
  <2> TAKE T
  <2>1. AllCharged(T) \in SUBSET Requests
    BY DEF AllCharged
  <2>2. QED
    BY <2>1, MarketAssumption, FS_Subset, FS_CardinalityType
<1>2. IsFiniteSet(Numbers)
  <2>1. Len(listing) \in Nat
    BY LenProperties DEF MarketInv, Market
  <2>2. QED
    BY <2>1, FS_Interval DEF Numbers
<1>3. ASSUME B # {} PROVE FALSE
  <2>1. PICK T \in B : \A U \in B : U \subseteq T => U = T
    <3>1. B \in SUBSET (SUBSET Numbers)
      OBVIOUS
    <3> HIDE DEF B
    <3>2. QED
      BY <1>2, <1>3, <3>1, MinimalSubset
  <2>2. T \in SUBSET Numbers /\ ~Right(T)
    BY <2>1
  <2>3. CASE T = {}
    <3>1. AllConsumed({}) = {} /\ AllCharged({}) = {}
      BY DEF AllConsumed, AllCharged
    <3>2. QED
      BY <2>2, <2>3, <3>1, FS_EmptySet
  <2>4. CASE T # {}
    <3>1. PICK n \in T : TRUE
      BY <2>4
    <3> DEFINE U == T \ {n}
    <3>2. Right(U)
      <4>1. U \in SUBSET Numbers /\ U \subseteq T /\ U # T
        BY <2>2, <3>1
      <4>2. U \notin B
        BY <2>1, <4>1
      <4>3. QED
        BY <4>1, <4>2
    <3>3. T = U \cup {n} /\ n \notin U /\ n \in Numbers
      BY <2>2, <3>1
    <3> HIDE DEF U
    <3>4. AllConsumed(T) = AllConsumed(U) \cup ConsumedOf(n)
          /\ AllConsumed(U) \cap ConsumedOf(n) = {}
      <4>1. AllConsumed(T) = AllConsumed(U) \cup ConsumedOf(n)
        BY <3>3 DEF AllConsumed
      <4>2. \A m : \A task \in ConsumedOf(m) : task[1] = m
        BY DEF ConsumedOf
      <4>3. QED
        BY <3>3, <4>1, <4>2 DEF AllConsumed
    <3>5. AllCharged(T) = AllCharged(U) \cup ChargedTo(n)
          /\ AllCharged(U) \cap ChargedTo(n) = {}
      BY <3>3 DEF AllCharged, ChargedTo
    <3> DEFINE a == Cardinality(AllConsumed(U))
               b == Cardinality(ConsumedOf(n))
               c == Cardinality(AllCharged(U))
               d == Cardinality(ChargedTo(n))
    <3>6. IsFiniteSet(AllConsumed(U)) /\ a \in Nat /\ a <= c
      BY <3>2, FS_CardinalityType
    <3>7. IsFiniteSet(ConsumedOf(n)) /\ b \in Nat /\ b <= d
      BY <3>3, ConsumedOfOne
    <3>8. IsFiniteSet(AllCharged(U)) /\ IsFiniteSet(ChargedTo(n)) /\ c \in Nat /\ d \in Nat
      BY <1>1, ChargesCountable
    <3>9. IsFiniteSet(AllConsumed(T)) /\ Cardinality(AllConsumed(T)) = a + b - 0
      BY <3>4, <3>6, <3>7, FS_Union, FS_EmptySet
    <3>10. Cardinality(AllCharged(T)) = c + d - 0
      BY <3>5, <3>8, FS_Union, FS_EmptySet
    <3>11. a + b - 0 <= c + d - 0
      <4> HIDE DEF a, b, c, d
      <4>1. QED
        BY <3>6, <3>7, <3>8
    <3>12. Right(T)
      BY <3>9, <3>10, <3>11
    <3>13. QED
      BY <2>2, <3>12
  <2>5. QED
    BY <2>3, <2>4
<1>4. QED
  BY <1>1, <1>3

(* Whatever the interleaving of the threads that read a quota and write    *)
(* one less back, and however ids collide, a listing is charged for trades *)
(* that selected it or an earlier listing with its id and for no others,   *)
(* and the listings of one id are charged once per trade at most           *)
(* (_consume_selected_seller_capacity, serve_trade_playback.py:273-282).   *)
THEOREM NamesakesPayOnly == MarketSpec => []ChargesFollowIds
<1>1. MarketInv => ChargesFollowIds
  <2> SUFFICES ASSUME MarketInv, NEW n \in Numbers
               PROVE  /\ listing[n].quota <= posted[n]
                      /\ posted[n] - listing[n].quota
                           <= Cardinality({r \in Answered(listing[n].id) :
                                             request[r].best.number <= n})
                      /\ Cardinality(Consumed(listing[n].id))
                           <= Cardinality(Answered(listing[n].id))
    BY DEF ChargesFollowIds
  <2>1. PICK id : id = listing[n].id
    OBVIOUS
  <2> DEFINE answered == Answered(id)
  <2>2. Listed(id) \in SUBSET Numbers
    BY DEF Listed
  <2>3. Consumed(id) = AllConsumed(Listed(id))
    <3>1. ASSUME NEW m \in Numbers PROVE listing[m].quota \in Nat /\ posted[m] \in Nat
      <4>1. listing[m] \in Listing /\ posted[m] \in Nat
        BY <3>1, ElementOfSeq DEF MarketInv, Market, Numbers
      <4>2. QED
        BY <4>1 DEF Listing
    <3>2. ASSUME NEW m \in Numbers
          PROVE  ConsumedOf(m) = {task \in {m} \X (1 .. posted[m]) :
                                    task[2] > listing[task[1]].quota}
      BY <3>1 DEF ConsumedOf
    <3>3. QED
      BY <2>2, <3>2 DEF Consumed, Offered, AllConsumed
  <2>4. IsFiniteSet(answered)
    <3>1. answered \in SUBSET Requests
      BY DEF Answered, Trades
    <3>2. QED
      BY <3>1, MarketAssumption, FS_Subset
  <2>5. AllCharged(Listed(id)) \in SUBSET answered
    <3> SUFFICES ASSUME NEW r \in AllCharged(Listed(id)) PROVE r \in answered
      OBVIOUS
    <3>1. r \in Requests /\ request[r].pc = "answered" /\ Selected(r)
          /\ request[r].index \in Listed(id)
      BY DEF AllCharged
    <3>2. listing[request[r].index].id = request[r].best.id
      BY <3>1 DEF MarketInv, Charges
    <3>3. QED
      BY <3>1, <3>2 DEF Listed, Answered, Trades, Scanned
  <2>6. /\ IsFiniteSet(AllConsumed(Listed(id))) /\ IsFiniteSet(AllCharged(Listed(id)))
        /\ Cardinality(AllConsumed(Listed(id))) <= Cardinality(AllCharged(Listed(id)))
    BY <2>2, ConsumedWasCharged
  <2>7. Cardinality(AllCharged(Listed(id))) <= Cardinality(answered)
    BY <2>4, <2>5, FS_Subset
  <2>8. Cardinality(Consumed(id)) <= Cardinality(answered)
    <3>1. /\ Cardinality(AllConsumed(Listed(id))) \in Nat
          /\ Cardinality(AllCharged(Listed(id))) \in Nat /\ Cardinality(answered) \in Nat
      BY <2>4, <2>6, FS_CardinalityType
    <3> HIDE DEF answered
    <3>2. QED
      BY <2>3, <2>6, <2>7, <3>1
  <2>9. posted[n] - listing[n].quota
          <= Cardinality({r \in answered : request[r].best.number <= n})
    <3> DEFINE payers == {r \in answered : request[r].best.number <= n}
    <3>1. ChargedTo(n) \in SUBSET payers
      <4> SUFFICES ASSUME NEW r \in ChargedTo(n) PROVE r \in payers
        OBVIOUS
      <4>1. r \in Requests /\ request[r].pc = "answered" /\ Selected(r)
            /\ request[r].index = n
        BY DEF ChargedTo
      <4>2. listing[n].id = request[r].best.id /\ request[r].best.number <= n
        BY <4>1 DEF MarketInv, Charges
      <4>3. QED
        BY <2>1, <4>1, <4>2 DEF Answered, Trades, Scanned
    <3>2. IsFiniteSet(payers)
      BY <2>4, FS_Subset
    <3>3. /\ Cardinality(ChargedTo(n)) <= Cardinality(payers)
          /\ Cardinality(ChargedTo(n)) \in Nat /\ Cardinality(payers) \in Nat
      BY <3>1, <3>2, FS_Subset, FS_CardinalityType, ChargesCountable
    <3>4. posted[n] - listing[n].quota \in Int
      <4>1. listing[n] \in Listing /\ posted[n] \in Nat
        BY ElementOfSeq DEF MarketInv, Market, Numbers
      <4>2. QED
        BY <4>1 DEF Listing
    <3>5. posted[n] - listing[n].quota <= Cardinality(ChargedTo(n))
      BY DEF MarketInv, Balanced
    <3>6. \A a \in Int, b, c \in Nat : a <= b /\ b <= c => a <= c
      OBVIOUS
    <3> HIDE DEF payers
    <3>7. posted[n] - listing[n].quota <= Cardinality(payers)
      BY <3>3, <3>4, <3>5, <3>6
    <3>8. QED
      BY <3>7 DEF payers
  <2>10. QED
    BY <2>1, <2>8, <2>9 DEF MarketInv, Balanced
<1>2. QED
  BY <1>1, MarketInvariant, PTL
===========================================================================
