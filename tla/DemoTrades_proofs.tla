-------------------------- MODULE DemoTrades_proofs --------------------------
(***************************************************************************)
(* The demo's trades, for any number of overlapping requests, of bodies    *)
(* from other peers and of faults.  The heart of it is OneTrigger: of the  *)
(* "locked" message of a trade there is never more than one, in the node,  *)
(* in one seller's queue, or in the hands of one seller.                   *)
(***************************************************************************)
EXTENDS DemoTrades, SequenceTheorems, TLAPS

(* A message occurs once in a queue, if at all.                            *)
Once(s, m) == \A i, j \in DOMAIN s : s[i] = m /\ s[j] = m => i = j

LEMMA AppendToQueue ==
  ASSUME NEW S, NEW s \in Seq(S), NEW e \in S
  PROVE  /\ Append(s, e) \in Seq(S) /\ Append(s, e) # <<>>
         /\ ToSet(Append(s, e)) = ToSet(s) \cup {e}
         /\ \A m : Once(s, m) /\ (m \notin ToSet(s) \/ e # m) => Once(Append(s, e), m)
<1> DEFINE t == Append(s, e)
<1>1. /\ t \in Seq(S) /\ Len(s) \in Nat /\ Len(t) = Len(s) + 1
      /\ \A i \in 1 .. Len(s) : t[i] = s[i]
      /\ t[Len(s) + 1] = e
  BY AppendProperties
<1>2. DOMAIN s = 1 .. Len(s) /\ DOMAIN t = 1 .. Len(s) + 1
  BY <1>1
<1> HIDE DEF t
<1>3. ToSet(t) = ToSet(s) \cup {e}
  <2>1. \A i \in DOMAIN t : t[i] \in ToSet(s) \cup {e}
    BY <1>1, <1>2 DEF ToSet
  <2>2. \A i \in DOMAIN s : s[i] \in ToSet(t)
    BY <1>1, <1>2 DEF ToSet
  <2>3. e \in ToSet(t)
    BY <1>1, <1>2 DEF ToSet
  <2>4. QED
    BY <2>1, <2>2, <2>3 DEF ToSet
<1>4. ASSUME NEW m, Once(s, m), m \notin ToSet(s) \/ e # m PROVE Once(t, m)
  <2>1. \A i \in 1 .. Len(s) : s[i] \in ToSet(s)
    BY <1>2 DEF ToSet
  <2>2. QED
    BY <1>1, <1>2, <1>4, <2>1 DEF Once
<1>5. t # <<>>
  BY <1>1
<1>6. QED
  BY <1>1, <1>3, <1>4, <1>5 DEF t

LEMMA TailOfQueue ==
  ASSUME NEW S, NEW s \in Seq(S), s # <<>>
  PROVE  /\ Head(s) \in S /\ Tail(s) \in Seq(S)
         /\ Head(s) \in ToSet(s) /\ ToSet(Tail(s)) \subseteq ToSet(s)
         /\ \A m : Once(s, m) => /\ Once(Tail(s), m)
                                 /\ Head(s) = m => m \notin ToSet(Tail(s))
<1> DEFINE t == Tail(s)
<1>1. /\ Head(s) \in S /\ t \in Seq(S) /\ Len(t) = Len(s) - 1
      /\ \A i \in 1 .. Len(t) : t[i] = s[i + 1]
  BY HeadTailProperties
<1>2. /\ Len(s) \in Nat \ {0} /\ DOMAIN s = 1 .. Len(s) /\ DOMAIN t = 1 .. Len(t)
      /\ Head(s) = s[1]
  BY <1>1, EmptySeq, LenProperties
<1> HIDE DEF t
<1>3. Head(s) \in ToSet(s)
  BY <1>2 DEF ToSet
<1>4. \A i \in DOMAIN t : i + 1 \in DOMAIN s /\ t[i] = s[i + 1] /\ i \in Nat \ {0}
  BY <1>1, <1>2
<1>5. ToSet(t) \subseteq ToSet(s)
  BY <1>4 DEF ToSet
<1>6. ASSUME NEW m, Once(s, m)
      PROVE  Once(t, m) /\ (Head(s) = m => m \notin ToSet(t))
  <2>1. Once(t, m)
    BY <1>4, <1>6 DEF Once
  <2>2. ASSUME Head(s) = m, m \in ToSet(t) PROVE FALSE
    <3>1. PICK i \in DOMAIN t : t[i] = m
      BY <2>2 DEF ToSet
    <3>2. i + 1 = 1
      BY <1>2, <1>4, <1>6, <2>2, <3>1 DEF Once
    <3>3. QED
      BY <1>4, <3>1, <3>2
  <2>3. QED
    BY <2>1, <2>2
<1>7. QED
  BY <1>1, <1>3, <1>5, <1>6 DEF t

LEMMA EmptyQueue ==
  /\ \A S : <<>> \in Seq(S)
  /\ ToSet(<<>>) = {}
  /\ \A m : Once(<<>>, m)
BY EmptySeq DEF ToSet, Once

LEMMA QueueElements ==
  ASSUME NEW S, NEW s \in Seq(S)
  PROVE  /\ ToSet(s) \subseteq S
         /\ s # <<>> => ToSet(s) # {}
<1>1. ToSet(s) \subseteq S
  BY ElementOfSeq, LenProperties DEF ToSet
<1>2. QED
  BY <1>1, TailOfQueue
---------------------------------------------------------------------------
(* The inductive invariant.                                                *)
Bodies == Message \cup {Undecodable}
Buyers == [pc : {"new", "sending", "quotes", "deliveries", "joining", "verified", "failed"},
           heard : Seq(Message)]
Sellers == [pc : {"new", "listening", "working", "done", "raised", "cancelled"},
            rfq : Requests]

DemoTypes ==
  /\ node \in [Sides -> Seq(Bodies)]
  /\ queue \in [Clients -> Seq(Message)]
  /\ poll \in [Clients -> {"off", "on", "dead"}]
  /\ \A c \in Clients : poll[c] = "off" => queue[c] = <<>>
  /\ buyer \in [Requests -> Buyers]
  /\ seller \in [Requests -> Sellers]
  /\ work \subseteq Requests \X Requests
  /\ foreign \in 0 .. MaxForeign /\ faults \in 0 .. MaxFaults

Locked(x) == [kind |-> "locked", rfq |-> x]

InNode(x) == Locked(x) \in ToSet(node["seller"])
InQueue(x, r) == Locked(x) \in ToSet(queue[<<r, "seller">>])
Taken(x, r) == (seller[r].pc = "working" /\ seller[r].rfq = x) \/ <<r, x>> \in work
Early(x) == buyer[x].pc \in {"new", "sending", "quotes"}

(* The trigger of a trade is in one place, once, and nowhere before the    *)
(* buyer has locked.                                                       *)
OneTrigger ==
  \A x \in Requests :
    /\ Once(node["seller"], Locked(x))
    /\ \A r \in Requests : Once(queue[<<r, "seller">>], Locked(x))
    /\ InNode(x) => \A r \in Requests : ~InQueue(x, r) /\ ~Taken(x, r)
    /\ \A r, q \in Requests : InQueue(x, r) => ~Taken(x, q) /\ (InQueue(x, q) => q = r)
    /\ \A r, q \in Requests : Taken(x, r) /\ Taken(x, q) => q = r
    /\ Early(x) => ~InNode(x) /\ \A r \in Requests : ~InQueue(x, r) /\ ~Taken(x, r)

(* A seller that has done a task is done for good.                         *)
SellersWorkOnce ==
  /\ \A r \in Requests : buyer[r].pc = "new" => seller[r].pc = "new"
  /\ \A w \in work : seller[w[1]].pc = "done" /\ seller[w[1]].rfq = w[2]

(* Whoever holds a delivery, the task it is of was run by its sender.      *)
Genuine(m) == m.kind = "delivery" => <<m.by, m.rfq>> \in work

DeliveriesGenuine ==
  /\ \A side \in Sides : \A m \in ToSet(node[side]) : Genuine(m)
  /\ \A c \in Clients : \A m \in ToSet(queue[c]) : Genuine(m)
  /\ \A r \in Requests : \A m \in ToSet(buyer[r].heard) : Genuine(m)

(* A buyer keeps nothing but deliveries of its own rfq, once it has locked.*)
HeardOwn ==
  \A r \in Requests :
    /\ buyer[r].pc \in {"deliveries", "joining", "verified"} =>
         \A m \in ToSet(buyer[r].heard) : m.kind = "delivery" /\ m.rfq = r
    /\ buyer[r].pc \in {"joining", "verified"} => buyer[r].heard # <<>>

DemoInv == DemoTypes /\ OneTrigger /\ SellersWorkOnce /\ DeliveriesGenuine /\ HeardOwn

LEMMA MessageFacts ==
  /\ \A x \in Requests : Locked(x) \in Message /\ Locked(x).kind = "locked"
                         /\ Locked(x).rfq = x
  /\ \A m \in Message : m.rfq \in Requests /\ m # Undecodable
                        /\ (m.kind = "locked" => m = Locked(m.rfq))
  /\ Undecodable.kind = "undecodable"
BY DEF Message, Locked, Undecodable

(* Where no trigger comes to a new place, there is still only one.         *)
TriggersStay ==
  \A x \in Requests :
    /\ Once(node'["seller"], Locked(x))
    /\ \A r \in Requests : Once(queue'[<<r, "seller">>], Locked(x))
    /\ InNode(x)' => InNode(x)
    /\ \A r \in Requests : /\ InQueue(x, r)' => InQueue(x, r)
                           /\ Taken(x, r)' => Taken(x, r)
    /\ Early(x)' => Early(x)

LEMMA NoNewTrigger ==
  ASSUME OneTrigger, TriggersStay
  PROVE  OneTrigger'
<1> SUFFICES ASSUME NEW x \in Requests
             PROVE  /\ Once(node["seller"], Locked(x))'
                    /\ \A r \in Requests : Once(queue[<<r, "seller">>], Locked(x))'
                    /\ InNode(x)' => \A r \in Requests : ~InQueue(x, r)' /\ ~Taken(x, r)'
                    /\ \A r, q \in Requests :
                         InQueue(x, r)' => ~Taken(x, q)' /\ (InQueue(x, q)' => q = r)
                    /\ \A r, q \in Requests : Taken(x, r)' /\ Taken(x, q)' => q = r
                    /\ Early(x)' => /\ ~InNode(x)'
                                    /\ \A r \in Requests : ~InQueue(x, r)' /\ ~Taken(x, r)'
  BY DEF OneTrigger
<1>1. QED
  BY DEF OneTrigger, TriggersStay

(* What a step of one client leaves in the queues.                         *)
LEMMA SendEffect ==
  ASSUME DemoTypes, NEW side \in Sides, NEW m \in Bodies, send(side, m)
  PROVE  /\ node' \in [Sides -> Seq(Bodies)]
         /\ ToSet(node'[side]) = ToSet(node[side]) \cup {m}
         /\ \A o \in Sides \ {side} : node'[o] = node[o]
         /\ \A x : Once(node[side], x) /\ (x \notin ToSet(node[side]) \/ m # x)
                     => Once(node'[side], x)
<1>1. node[side] \in Seq(Bodies) /\ node'[side] = Append(node[side], m)
  BY DEF send, DemoTypes
<1>2. QED
  BY <1>1, AppendToQueue DEF send, DemoTypes

LEMMA NodeTailEffect ==
  ASSUME DemoTypes, NEW side \in Sides, node[side] # <<>>,
         node' = [node EXCEPT ![side] = Tail(@)]
  PROVE  /\ node' \in [Sides -> Seq(Bodies)]
         /\ Head(node[side]) \in Bodies /\ Head(node[side]) \in ToSet(node[side])
         /\ \A o \in Sides : ToSet(node'[o]) \subseteq ToSet(node[o])
         /\ \A o \in Sides \ {side} : node'[o] = node[o]
         /\ \A o \in Sides : \A x : Once(node[o], x) => Once(node'[o], x)
         /\ \A x : Once(node[side], x) /\ Head(node[side]) = x
                     => x \notin ToSet(node'[side])
<1>1. node[side] \in Seq(Bodies) /\ node'[side] = Tail(node[side])
  BY DEF DemoTypes
<1>2. \A o \in Sides \ {side} : node'[o] = node[o]
  BY DEF DemoTypes
<1>3. Tail(node[side]) \in Seq(Bodies)
  BY <1>1, TailOfQueue
<1>4. QED
  BY <1>1, <1>2, <1>3, TailOfQueue DEF DemoTypes

LEMMA QueueTailEffect ==
  ASSUME DemoTypes, NEW c \in Clients, queue[c] # <<>>,
         queue' = [queue EXCEPT ![c] = Tail(@)]
  PROVE  /\ queue' \in [Clients -> Seq(Message)]
         /\ \A d \in Clients \ {c} : queue'[d] = queue[d]
         /\ Head(queue[c]) \in Message /\ Head(queue[c]) \in ToSet(queue[c])
         /\ \A d \in Clients : ToSet(queue'[d]) \subseteq ToSet(queue[d])
         /\ \A d \in Clients : \A x : Once(queue[d], x) => Once(queue'[d], x)
         /\ \A x : Once(queue[c], x) /\ Head(queue[c]) = x => x \notin ToSet(queue'[c])
<1>1. queue[c] \in Seq(Message) /\ queue'[c] = Tail(queue[c])
  BY DEF DemoTypes
<1>2. \A d \in Clients \ {c} : queue'[d] = queue[d]
  BY DEF DemoTypes
<1>3. Tail(queue[c]) \in Seq(Message)
  BY <1>1, TailOfQueue
<1>4. QED
  BY <1>1, <1>2, <1>3, TailOfQueue DEF DemoTypes

(* Closing clients drops what they hold.                                   *)
LEMMA CloseEffect ==
  ASSUME DemoTypes, NEW closed \in SUBSET Clients,
         queue' = [c \in Clients |-> IF c \in closed THEN <<>> ELSE queue[c]],
         poll' = [c \in Clients |-> IF c \in closed THEN "off" ELSE poll[c]]
  PROVE  /\ queue' \in [Clients -> Seq(Message)]
         /\ poll' \in [Clients -> {"off", "on", "dead"}]
         /\ \A c \in Clients : poll'[c] = "off" => queue'[c] = <<>>
         /\ \A c \in Clients : ToSet(queue'[c]) \subseteq ToSet(queue[c])
         /\ \A c \in Clients : \A x : Once(queue[c], x) => Once(queue'[c], x)
<1>1. \A c \in Clients : queue'[c] = <<>> \/ queue'[c] = queue[c]
  OBVIOUS
<1>2. \A c \in Clients : queue'[c] \in Seq(Message)
  BY <1>1, EmptyQueue DEF DemoTypes
<1>3. queue' \in [Clients -> Seq(Message)] /\ poll' \in [Clients -> {"off", "on", "dead"}]
  BY <1>2 DEF DemoTypes
<1>4. \A c \in Clients : poll'[c] = "off" => queue'[c] = <<>>
  BY DEF DemoTypes
<1>5. QED
  BY <1>1, <1>3, <1>4, EmptyQueue

(* A step that adds no trigger, no delivery and no task keeps the rest.    *)
LEMMA QuietStep ==
  ASSUME DemoInv, DemoTypes', HeardOwn', work' = work,
         \A side \in Sides : \A m \in ToSet(node'[side]) :
           m \in ToSet(node[side]) \/ m.kind \notin {"locked", "delivery"},
         \A x \in Requests :
           Once(node["seller"], Locked(x)) => Once(node'["seller"], Locked(x)),
         \A c \in Clients : ToSet(queue'[c]) \subseteq ToSet(queue[c]),
         \A c \in Clients : \A x : Once(queue[c], x) => Once(queue'[c], x),
         \A r \in Requests :
           /\ seller[r].pc = "done" \/ seller'[r].pc = "working" => seller'[r] = seller[r]
           /\ buyer'[r].pc = "new" => buyer[r].pc = "new" /\ seller'[r] = seller[r]
           /\ Early(r)' => Early(r)
           /\ ToSet(buyer'[r].heard)
                \subseteq ToSet(buyer[r].heard) \cup ToSet(queue[<<r, "buyer">>])
  PROVE  DemoInv'
<1>1. \A r \in Requests : <<r, "buyer">> \in Clients /\ <<r, "seller">> \in Clients
  BY DEF Clients, Sides
<1>2. \A x, r \in Requests :
        (InQueue(x, r)' => InQueue(x, r)) /\ (Taken(x, r)' => Taken(x, r))
  BY <1>1 DEF InQueue, Taken
<1>3. \A x \in Requests : InNode(x)' => InNode(x)
  BY MessageFacts DEF InNode, Sides
<1>4. OneTrigger'
  <2>1. \A x \in Requests : /\ Once(node'["seller"], Locked(x))
                            /\ \A r \in Requests : Once(queue'[<<r, "seller">>], Locked(x))
    BY <1>1 DEF DemoInv, OneTrigger
  <2>2. OneTrigger
    BY DEF DemoInv
  <2>3. \A x \in Requests : Early(x)' => Early(x)
    OBVIOUS
  <2>4. TriggersStay
    BY <1>2, <1>3, <2>1, <2>3 DEF TriggersStay
  <2>5. QED
    BY <2>2, <2>4, NoNewTrigger
<1>5. SellersWorkOnce'
  <2>1. \A w \in work : w[1] \in Requests
    BY DEF DemoInv, DemoTypes
  <2>2. SellersWorkOnce
    BY DEF DemoInv
  <2>3. \A r \in Requests : buyer'[r].pc = "new" => seller'[r].pc = "new"
    BY <2>2 DEF SellersWorkOnce
  <2>4. \A w \in work : seller'[w[1]].pc = "done" /\ seller'[w[1]].rfq = w[2]
    BY <2>1, <2>2 DEF SellersWorkOnce
  <2>5. QED
    BY <2>3, <2>4 DEF SellersWorkOnce
<1>6. DeliveriesGenuine'
  <2>1. \A m : Genuine(m) => Genuine(m)'
    BY DEF Genuine
  <2>2. \A m : m.kind # "delivery" => Genuine(m)'
    BY DEF Genuine
  <2>3. DeliveriesGenuine
    BY DEF DemoInv
  <2>4. \A side \in Sides : \A m \in ToSet(node'[side]) : Genuine(m)'
    BY <2>1, <2>2, <2>3 DEF DeliveriesGenuine
  <2>5. \A c \in Clients : \A m \in ToSet(queue'[c]) : Genuine(m)'
    BY <2>1, <2>3 DEF DeliveriesGenuine
  <2>6. \A r \in Requests : \A m \in ToSet(buyer'[r].heard) : Genuine(m)'
    BY <1>1, <2>1, <2>3 DEF DeliveriesGenuine
  <2>7. QED
    BY <2>4, <2>5, <2>6 DEF DeliveriesGenuine
<1>7. QED
  BY <1>4, <1>5, <1>6 DEF DemoInv
---------------------------------------------------------------------------
LEMMA DemoInitInv == ASSUME DemoAssumption, DemoInit PROVE DemoInv
<1>1. /\ \A s \in Sides : node[s] = <<>>
      /\ \A c \in Clients : queue[c] = <<>>
      /\ \A r \in Requests :
           buyer[r].pc = "new" /\ buyer[r].heard = <<>> /\ seller[r].pc = "new"
      /\ work = {}
  BY DEF DemoInit
<1>2. \A r \in Requests : <<r, "buyer">> \in Clients /\ <<r, "seller">> \in Clients
  BY DEF Clients, Sides
<1>3. DemoTypes
  <2>1. <<>> \in Seq(Bodies) /\ <<>> \in Seq(Message)
    BY EmptyQueue
  <2>2. QED
    BY <2>1 DEF DemoInit, DemoTypes, Buyers, Sellers, DemoAssumption
<1>4. OneTrigger
  <2>1. \A x \in Requests : ~InNode(x) /\ Once(node["seller"], Locked(x))
    BY <1>1, EmptyQueue DEF InNode, Sides
  <2>2. \A x, r \in Requests :
          ~InQueue(x, r) /\ ~Taken(x, r) /\ Once(queue[<<r, "seller">>], Locked(x))
    BY <1>1, <1>2, EmptyQueue DEF InQueue, Taken
  <2>3. QED
    BY <2>1, <2>2 DEF OneTrigger
<1>5. SellersWorkOnce
  BY <1>1 DEF SellersWorkOnce
<1>6. DeliveriesGenuine
  BY <1>1, EmptyQueue DEF DeliveriesGenuine
<1>7. HeardOwn
  BY <1>1 DEF HeardOwn
<1>8. QED
  BY <1>3, <1>4, <1>5, <1>6, <1>7 DEF DemoInv

LEMMA FaultTypes ==
  ASSUME DemoTypes, DemoAssumption, Fault \/ NoFault PROVE faults' \in 0 .. MaxFaults
BY DEF DemoTypes, DemoAssumption, Fault, NoFault

(* A failed trade takes with it what its clients held.                     *)
LEMMA AnswerKeepsInv ==
  ASSUME DemoInv, NEW r \in Requests, answer(r, "failed"), UNCHANGED <<node, work, foreign>>,
         faults' \in 0 .. MaxFaults
  PROVE  DemoInv'
<1> DEFINE closed == {c \in Clients : c[1] = r}
<1>1. /\ queue' = [c \in Clients |-> IF c \in closed THEN <<>> ELSE queue[c]]
      /\ poll' = [c \in Clients |-> IF c \in closed THEN "off" ELSE poll[c]]
  BY DEF answer
<1>2. closed \in SUBSET Clients
  OBVIOUS
<1> HIDE DEF closed
<1>3. DemoTypes
  BY DEF DemoInv
<1>4. /\ buyer' \in [Requests -> Buyers]
      /\ buyer'[r] = [pc |-> "failed", heard |-> <<>>]
      /\ \A q \in Requests \ {r} : buyer'[q] = buyer[q]
  <2>1. <<>> \in Seq(Message)
    BY EmptyQueue
  <2>2. QED
    BY <1>3, <2>1 DEF answer, DemoTypes, Buyers
<1>5. /\ seller' \in [Requests -> Sellers]
      /\ seller'[r].pc \in {"cancelled", seller[r].pc}
      /\ seller[r].pc \in {"done"} => seller'[r] = seller[r]
      /\ seller'[r].pc # "working"
      /\ \A q \in Requests \ {r} : seller'[q] = seller[q]
  BY <1>3 DEF answer, DemoTypes, Sellers
<1>6. DemoTypes'
  BY <1>1, <1>2, <1>3, <1>4, <1>5, CloseEffect DEF DemoTypes
<1>7. HeardOwn'
  BY <1>4 DEF DemoInv, HeardOwn
<1>8. /\ \A c \in Clients : ToSet(queue'[c]) \subseteq ToSet(queue[c])
      /\ \A c \in Clients : \A x : Once(queue[c], x) => Once(queue'[c], x)
  BY <1>1, <1>2, <1>3, CloseEffect
<1>9. \A q \in Requests :
        /\ seller[q].pc = "done" \/ seller'[q].pc = "working" => seller'[q] = seller[q]
        /\ buyer'[q].pc = "new" => buyer[q].pc = "new" /\ seller'[q] = seller[q]
        /\ Early(q)' => Early(q)
        /\ ToSet(buyer'[q].heard) \subseteq ToSet(buyer[q].heard)
  BY <1>4, <1>5, EmptyQueue DEF Early
<1>10. QED
  BY <1>6, <1>7, <1>8, <1>9, QuietStep

(* A step that leaves the queues alone.                                    *)
LEMMA SameQueues ==
  ASSUME queue' = queue
  PROVE  /\ \A c \in Clients : ToSet(queue'[c]) \subseteq ToSet(queue[c])
         /\ \A c \in Clients : \A x : Once(queue[c], x) => Once(queue'[c], x)
OBVIOUS

(* A message of another kind than these two changes no trigger.            *)
LEMMA QuietSend ==
  ASSUME DemoTypes, NEW side \in Sides, NEW m \in Bodies,
         m.kind \notin {"locked", "delivery"}, send(side, m)
  PROVE  /\ node' \in [Sides -> Seq(Bodies)]
         /\ \A o \in Sides : \A b \in ToSet(node'[o]) :
              b \in ToSet(node[o]) \/ b.kind \notin {"locked", "delivery"}
         /\ \A x \in Requests :
              Once(node["seller"], Locked(x)) => Once(node'["seller"], Locked(x))
<1>1. \A x \in Requests : m # Locked(x)
  BY MessageFacts
<1>2. "seller" \in Sides
  BY DEF Sides
<1>3. /\ node' \in [Sides -> Seq(Bodies)]
      /\ ToSet(node'[side]) = ToSet(node[side]) \cup {m}
      /\ \A o \in Sides \ {side} : node'[o] = node[o]
      /\ \A x : Once(node[side], x) /\ m # x => Once(node'[side], x)
  BY SendEffect
<1>4. \A o \in Sides : \A b \in ToSet(node'[o]) :
        b \in ToSet(node[o]) \/ b.kind \notin {"locked", "delivery"}
  BY <1>3
<1>5. \A x \in Requests : Once(node["seller"], Locked(x)) => Once(node'["seller"], Locked(x))
  BY <1>1, <1>2, <1>3
<1>6. QED
  BY <1>3, <1>4, <1>5

LEMMA StartTradeKeepsInv ==
  ASSUME DemoInv, NEW r \in Requests, StartTrade(r) PROVE DemoInv'
<1>1. DemoTypes /\ node' = node /\ queue' = queue /\ work' = work
  BY DEF DemoInv, StartTrade
<1>2. /\ buyer' \in [Requests -> Buyers] /\ buyer[r].pc = "new"
      /\ buyer'[r].pc = "sending" /\ buyer'[r].heard = buyer[r].heard
      /\ \A q \in Requests \ {r} : buyer'[q] = buyer[q]
  BY <1>1 DEF StartTrade, DemoTypes, Buyers
<1>3. /\ seller' \in [Requests -> Sellers] /\ seller'[r].pc = "listening"
      /\ \A q \in Requests \ {r} : seller'[q] = seller[q]
  BY <1>1 DEF StartTrade, DemoTypes, Sellers
<1>4. seller[r].pc = "new"
  BY <1>2 DEF DemoInv, SellersWorkOnce
<1>5. /\ poll' \in [Clients -> {"off", "on", "dead"}]
      /\ \A c \in Clients : poll'[c] = "off" => poll[c] = "off"
  BY <1>1 DEF StartTrade, listen, DemoTypes
<1>6. DemoTypes'
  BY <1>1, <1>2, <1>3, <1>5 DEF StartTrade, DemoTypes
<1>7. HeardOwn'
  BY <1>2 DEF DemoInv, HeardOwn
<1>8. \A q \in Requests :
        /\ seller[q].pc = "done" \/ seller'[q].pc = "working" => seller'[q] = seller[q]
        /\ buyer'[q].pc = "new" => buyer[q].pc = "new" /\ seller'[q] = seller[q]
        /\ Early(q)' => Early(q)
        /\ buyer'[q].heard = buyer[q].heard
  BY <1>2, <1>3, <1>4 DEF Early
<1>9. /\ \A side \in Sides : \A m \in ToSet(node'[side]) :
             m \in ToSet(node[side]) \/ m.kind \notin {"locked", "delivery"}
      /\ \A x \in Requests :
             Once(node["seller"], Locked(x)) => Once(node'["seller"], Locked(x))
  BY <1>1
<1>10. QED
  BY <1>1, <1>6, <1>7, <1>8, <1>9, SameQueues, QuietStep

LEMMA SendRfqKeepsInv ==
  ASSUME DemoAssumption, DemoInv, NEW r \in Requests, SendRfq(r) PROVE DemoInv'
<1> DEFINE m == [kind |-> "rfq", rfq |-> r]
<1>1. CASE Fault /\ answer(r, "failed") /\ UNCHANGED node
  <2>1. faults' \in 0 .. MaxFaults
    BY <1>1, FaultTypes DEF DemoInv
  <2>2. UNCHANGED <<node, work, foreign>>
    BY <1>1 DEF SendRfq
  <2>3. QED
    BY <1>1, <2>1, <2>2, AnswerKeepsInv
<1>2. CASE /\ send("seller", m)
           /\ buyer' = [buyer EXCEPT ![r].pc = "quotes"]
           /\ listen(<<r, "buyer">>)
           /\ NoFault /\ UNCHANGED <<queue, seller>>
  <2>1. DemoTypes /\ queue' = queue /\ seller' = seller /\ work' = work
    BY <1>2 DEF DemoInv, SendRfq
  <2>2. "seller" \in Sides /\ m \in Bodies /\ m.kind = "rfq"
    BY DEF Sides, Bodies, Message
  <2> HIDE DEF m
  <2>3. /\ buyer' \in [Requests -> Buyers]
        /\ buyer'[r].pc = "quotes" /\ buyer'[r].heard = buyer[r].heard
        /\ \A q \in Requests \ {r} : buyer'[q] = buyer[q]
    BY <1>2, <2>1 DEF DemoTypes, Buyers
  <2>4. /\ poll' \in [Clients -> {"off", "on", "dead"}]
        /\ \A c \in Clients : poll'[c] = "off" => poll[c] = "off"
    BY <1>2, <2>1 DEF listen, DemoTypes
  <2>5. send("seller", m)
    BY <1>2
  <2>6. node' \in [Sides -> Seq(Bodies)]
    BY <2>1, <2>2, <2>5, QuietSend
  <2>7. UNCHANGED <<foreign, faults>>
    BY <1>2 DEF SendRfq, NoFault
  <2>8. DemoTypes'
    BY <2>1, <2>3, <2>4, <2>6, <2>7 DEF DemoTypes
  <2>9. HeardOwn'
    BY <2>3 DEF DemoInv, HeardOwn
  <2>10. \A q \in Requests :
           /\ buyer'[q].pc = "new" => buyer[q].pc = "new"
           /\ Early(q)' => Early(q)
           /\ buyer'[q].heard = buyer[q].heard
    BY <1>2, <2>3 DEF SendRfq, Early
  <2>11. /\ \A o \in Sides : \A b \in ToSet(node'[o]) :
               b \in ToSet(node[o]) \/ b.kind \notin {"locked", "delivery"}
         /\ \A x \in Requests :
               Once(node["seller"], Locked(x)) => Once(node'["seller"], Locked(x))
    BY <2>1, <2>2, <2>5, QuietSend
  <2>12. QED
    BY <2>1, <2>8, <2>9, <2>10, <2>11, SameQueues, QuietStep
<1>3. QED
  BY <1>1, <1>2 DEF SendRfq

LEMMA DrainKeepsInv ==
  ASSUME DemoInv, NEW r \in Requests, Drain(r) PROVE DemoInv'
<1> DEFINE c == <<r, "buyer">>
           h == Head(queue[c])
<1>1. DemoTypes /\ node' = node /\ seller' = seller /\ work' = work
  BY DEF DemoInv, Drain
<1>2. c \in Clients /\ queue[c] # <<>> /\ queue' = [queue EXCEPT ![c] = Tail(@)]
  BY DEF Drain, Clients, Sides
<1>3. /\ queue' \in [Clients -> Seq(Message)] /\ h \in Message /\ h \in ToSet(queue[c])
      /\ \A d \in Clients : ToSet(queue'[d]) \subseteq ToSet(queue[d])
      /\ \A d \in Clients : \A x : Once(queue[d], x) => Once(queue'[d], x)
      /\ \A d \in Clients \ {c} : queue'[d] = queue[d]
  BY <1>1, <1>2, QueueTailEffect
<1>4. buyer[r] \in Buyers /\ buyer[r].pc \in {"quotes", "deliveries"}
  BY <1>1 DEF Drain, DemoTypes
<1>5. /\ buyer' = [buyer EXCEPT ![r].heard =
                     IF Kept(r, h) THEN Append(@, h) ELSE @]
  BY DEF Drain
<1> HIDE DEF c, h
<1>6. Append(buyer[r].heard, h) \in Seq(Message)
      /\ ToSet(Append(buyer[r].heard, h)) = ToSet(buyer[r].heard) \cup {h}
  BY <1>3, <1>4, AppendToQueue DEF Buyers
<1>7. /\ buyer' \in [Requests -> Buyers] /\ buyer'[r].pc = buyer[r].pc
      /\ buyer'[r].heard = IF Kept(r, h) THEN Append(buyer[r].heard, h) ELSE buyer[r].heard
      /\ \A q \in Requests \ {r} : buyer'[q] = buyer[q]
  BY <1>1, <1>4, <1>5, <1>6 DEF DemoTypes, Buyers
<1>8. \A d \in Clients : poll'[d] = "off" => queue'[d] = <<>>
  BY <1>1, <1>2, <1>3 DEF Drain, DemoTypes
<1>9. DemoTypes'
  BY <1>1, <1>3, <1>7, <1>8 DEF Drain, DemoTypes
<1>10. \/ buyer'[r].heard = buyer[r].heard
       \/ /\ ToSet(buyer'[r].heard) = ToSet(buyer[r].heard) \cup {h}
          /\ buyer[r].pc = "deliveries" => h.kind = "delivery" /\ h.rfq = r
  BY <1>4, <1>6, <1>7 DEF Kept
<1>11. HeardOwn'
  <2>1. HeardOwn
    BY DEF DemoInv
  <2>2. QED
    BY <1>4, <1>7, <1>10, <2>1 DEF HeardOwn
<1>12. \A q \in Requests :
         /\ buyer'[q].pc = buyer[q].pc
         /\ ToSet(buyer'[q].heard) \subseteq ToSet(buyer[q].heard) \cup ToSet(queue[<<q, "buyer">>])
  BY <1>3, <1>7, <1>10 DEF c
<1>13. \A q \in Requests : Early(q)' => Early(q)
  BY <1>12 DEF Early
<1>14. /\ \A side \in Sides : \A m \in ToSet(node'[side]) :
              m \in ToSet(node[side]) \/ m.kind \notin {"locked", "delivery"}
       /\ \A x \in Requests :
              Once(node["seller"], Locked(x)) => Once(node'["seller"], Locked(x))
  BY <1>1
<1>15. QED
  BY <1>1, <1>3, <1>9, <1>11, <1>12, <1>13, <1>14, QuietStep

(* The one action that makes a trigger; it ends the early part.            *)
LEMMA LockMakesOneTrigger ==
  ASSUME DemoInv, NEW r \in Requests, Early(r), send("seller", Locked(r)),
         ~Early(r)', UNCHANGED <<queue, seller, work>>,
         \A q \in Requests \ {r} : buyer'[q] = buyer[q]
  PROVE  OneTrigger'
<1>1. OneTrigger /\ DemoTypes /\ "seller" \in Sides /\ Locked(r) \in Bodies
  BY MessageFacts DEF DemoInv, Sides, Bodies
<1>2. /\ ToSet(node'["seller"]) = ToSet(node["seller"]) \cup {Locked(r)}
      /\ \A m : Once(node["seller"], m) /\ (m \notin ToSet(node["seller"]) \/ Locked(r) # m)
                  => Once(node'["seller"], m)
  BY <1>1, SendEffect
<1>3. \A x, y \in Requests : Locked(x) = Locked(y) => x = y
  BY MessageFacts
<1>4. \A x \in Requests :
        /\ InNode(x)' => InNode(x) \/ x = r
        /\ \A q \in Requests : (InQueue(x, q)' <=> InQueue(x, q)) /\ (Taken(x, q)' <=> Taken(x, q))
        /\ Early(x)' => Early(x) /\ x # r
  BY <1>2, <1>3 DEF InNode, InQueue, Taken, Early
<1>5. ~InNode(r) /\ \A q \in Requests : ~InQueue(r, q) /\ ~Taken(r, q)
  BY <1>1 DEF OneTrigger
<1>6. \A x \in Requests : Once(node'["seller"], Locked(x))
  BY <1>1, <1>2, <1>3, <1>5 DEF OneTrigger, InNode
<1>7. \A x, q \in Requests : Once(queue'[<<q, "seller">>], Locked(x))
  BY <1>1 DEF OneTrigger
<1>8. \A x \in Requests :
        /\ InNode(x)' => \A q \in Requests : ~InQueue(x, q)' /\ ~Taken(x, q)'
        /\ \A p, q \in Requests :
             InQueue(x, p)' => ~Taken(x, q)' /\ (InQueue(x, q)' => q = p)
        /\ \A p, q \in Requests : Taken(x, p)' /\ Taken(x, q)' => q = p
        /\ Early(x)' => ~InNode(x)' /\ \A q \in Requests : ~InQueue(x, q)' /\ ~Taken(x, q)'
  BY <1>1, <1>4, <1>5 DEF OneTrigger
<1>9. QED
  BY <1>6, <1>7, <1>8 DEF OneTrigger

LEMMA EndQuotesKeepsInv ==
  ASSUME DemoAssumption, DemoInv, NEW r \in Requests, EndQuotes(r) PROVE DemoInv'
<1>1. CASE /\ answer(r, "failed")
           /\ \/ buyer[r].heard = <<>> /\ NoFault
              \/ buyer[r].heard # <<>> /\ Fault
           /\ UNCHANGED node
  <2>1. faults' \in 0 .. MaxFaults
    BY <1>1, FaultTypes DEF DemoInv
  <2>2. answer(r, "failed") /\ UNCHANGED <<node, work, foreign>>
    BY <1>1 DEF EndQuotes
  <2>3. QED
    BY <2>1, <2>2, AnswerKeepsInv
<1>2. CASE /\ buyer[r].heard # <<>>
           /\ send("seller", [kind |-> "locked", rfq |-> r])
           /\ buyer' = [buyer EXCEPT ![r] = [pc |-> "deliveries", heard |-> <<>>]]
           /\ NoFault /\ UNCHANGED <<poll, queue, seller>>
  <2>1. /\ DemoTypes /\ OneTrigger /\ SellersWorkOnce /\ DeliveriesGenuine /\ HeardOwn
        /\ UNCHANGED <<poll, queue, seller, work, foreign, faults>>
    BY <1>2 DEF DemoInv, EndQuotes, NoFault
  <2>2. send("seller", Locked(r)) /\ Locked(r) \in Bodies /\ "seller" \in Sides
    BY <1>2, MessageFacts DEF Locked, Bodies, Sides
  <2>3. /\ buyer' \in [Requests -> Buyers]
        /\ buyer[r].pc = "quotes" /\ buyer'[r].pc = "deliveries" /\ buyer'[r].heard = <<>>
        /\ \A q \in Requests \ {r} : buyer'[q] = buyer[q]
    <3>1. <<>> \in Seq(Message)
      BY EmptyQueue
    <3>2. QED
      BY <1>2, <2>1, <3>1 DEF EndQuotes, DemoTypes, Buyers
  <2>4. /\ node' \in [Sides -> Seq(Bodies)]
        /\ ToSet(node'["seller"]) = ToSet(node["seller"]) \cup {Locked(r)}
        /\ \A o \in Sides \ {"seller"} : node'[o] = node[o]
    BY <2>1, <2>2, SendEffect
  <2>5. DemoTypes'
    BY <2>1, <2>3, <2>4 DEF DemoTypes
  <2>6. OneTrigger'
    BY <2>1, <2>2, <2>3, LockMakesOneTrigger DEF Early
  <2>7. SellersWorkOnce'
    BY <2>1, <2>3 DEF SellersWorkOnce
  <2>8. DeliveriesGenuine'
    <3>1. \A m : Genuine(m)' <=> Genuine(m)
      BY <2>1 DEF Genuine
    <3>2. Genuine(Locked(r))
      BY MessageFacts DEF Genuine
    <3>3. \A side \in Sides : \A m \in ToSet(node'[side]) : Genuine(m)'
      BY <2>1, <2>4, <3>1, <3>2 DEF DeliveriesGenuine
    <3>4. \A q \in Requests : \A m \in ToSet(buyer'[q].heard) : Genuine(m)'
      BY <2>1, <2>3, <3>1, EmptyQueue DEF DeliveriesGenuine
    <3>5. \A c \in Clients : \A m \in ToSet(queue'[c]) : Genuine(m)'
      BY <2>1, <3>1 DEF DeliveriesGenuine
    <3>6. QED
      BY <3>3, <3>4, <3>5 DEF DeliveriesGenuine
  <2>9. HeardOwn'
    BY <2>1, <2>3, EmptyQueue DEF HeardOwn
  <2>10. QED
    BY <2>5, <2>6, <2>7, <2>8, <2>9 DEF DemoInv
<1>3. QED
  BY <1>1, <1>2 DEF EndQuotes

LEMMA AcloseEffect ==
  ASSUME DemoTypes, NEW c \in Clients, aclose(c)
  PROVE  /\ queue' \in [Clients -> Seq(Message)]
         /\ poll' \in [Clients -> {"off", "on", "dead"}]
         /\ \A d \in Clients : poll'[d] = "off" => queue'[d] = <<>>
         /\ \A d \in Clients : ToSet(queue'[d]) \subseteq ToSet(queue[d])
         /\ \A d \in Clients : \A x : Once(queue[d], x) => Once(queue'[d], x)
<1>1. queue' = [d \in Clients |-> IF d \in {c} THEN <<>> ELSE queue[d]]
  BY DEF aclose, DemoTypes
<1>2. poll' = [d \in Clients |-> IF d \in {c} THEN "off" ELSE poll[d]]
  BY DEF aclose, DemoTypes
<1>3. {c} \in SUBSET Clients
  OBVIOUS
<1>4. QED
  BY <1>1, <1>2, <1>3, CloseEffect

LEMMA EndDeliveriesKeepsInv ==
  ASSUME DemoInv, NEW r \in Requests, EndDeliveries(r) PROVE DemoInv'
<1>1. DemoTypes /\ buyer[r].pc = "deliveries" /\ UNCHANGED <<node, work, foreign, faults>>
  BY DEF DemoInv, EndDeliveries
<1>2. CASE buyer[r].heard = <<>>
  <2>1. answer(r, "failed")
    BY <1>2 DEF EndDeliveries
  <2>2. faults' \in 0 .. MaxFaults
    BY <1>1 DEF DemoTypes
  <2>3. QED
    BY <1>1, <2>1, <2>2, AnswerKeepsInv
<1>3. CASE buyer[r].heard # <<>>
  <2>1. /\ buyer' = [buyer EXCEPT ![r].pc = "joining"] /\ seller' = seller
        /\ aclose(<<r, "buyer">>) /\ <<r, "buyer">> \in Clients
    BY <1>3 DEF EndDeliveries, Clients, Sides
  <2>2. /\ buyer' \in [Requests -> Buyers]
        /\ buyer'[r].pc = "joining" /\ buyer'[r].heard = buyer[r].heard
        /\ \A q \in Requests \ {r} : buyer'[q] = buyer[q]
    BY <1>1, <2>1 DEF DemoTypes, Buyers
  <2>3. /\ \A c \in Clients : ToSet(queue'[c]) \subseteq ToSet(queue[c])
        /\ \A c \in Clients : \A x : Once(queue[c], x) => Once(queue'[c], x)
    BY <1>1, <2>1, AcloseEffect
  <2>4. /\ queue' \in [Clients -> Seq(Message)]
        /\ poll' \in [Clients -> {"off", "on", "dead"}]
        /\ \A d \in Clients : poll'[d] = "off" => queue'[d] = <<>>
    BY <1>1, <2>1, AcloseEffect
  <2>5. DemoTypes'
    BY <1>1, <2>1, <2>2, <2>4 DEF DemoTypes
  <2>6. HeardOwn'
    BY <1>1, <1>3, <2>2 DEF DemoInv, HeardOwn
  <2>7. \A q \in Requests :
          /\ buyer'[q].pc = "new" => buyer[q].pc = "new"
          /\ Early(q)' => Early(q)
          /\ buyer'[q].heard = buyer[q].heard
    BY <2>2 DEF Early
  <2>8. /\ \A side \in Sides : \A m \in ToSet(node'[side]) :
             m \in ToSet(node[side]) \/ m.kind \notin {"locked", "delivery"}
        /\ \A x \in Requests :
             Once(node["seller"], Locked(x)) => Once(node'["seller"], Locked(x))
    BY <1>1
  <2>9. QED
    BY <1>1, <2>1, <2>3, <2>5, <2>6, <2>7, <2>8, QuietStep
<1>4. QED
  BY <1>2, <1>3

LEMMA JoinKeepsInv ==
  ASSUME DemoInv, NEW r \in Requests, Join(r) PROVE DemoInv'
<1>1. DemoTypes /\ buyer[r].pc = "joining" /\ UNCHANGED <<node, work, foreign, faults>>
  BY DEF DemoInv, Join
<1>2. CASE seller[r].pc = "raised" /\ answer(r, "failed")
  <2>1. faults' \in 0 .. MaxFaults
    BY <1>1 DEF DemoTypes
  <2>2. QED
    BY <1>1, <1>2, <2>1, AnswerKeepsInv
<1>3. CASE /\ seller[r].pc = "done"
           /\ buyer' = [buyer EXCEPT ![r].pc = "verified"]
           /\ UNCHANGED <<poll, queue, seller>>
  <2>1. /\ buyer' \in [Requests -> Buyers]
        /\ buyer'[r].pc = "verified" /\ buyer'[r].heard = buyer[r].heard
        /\ \A q \in Requests \ {r} : buyer'[q] = buyer[q]
    BY <1>1, <1>3 DEF DemoTypes, Buyers
  <2>2. DemoTypes'
    BY <1>1, <1>3, <2>1 DEF DemoTypes
  <2>3. HeardOwn'
    BY <1>1, <2>1 DEF DemoInv, HeardOwn
  <2>4. \A q \in Requests :
          /\ buyer'[q].pc = "new" => buyer[q].pc = "new"
          /\ Early(q)' => Early(q)
          /\ buyer'[q].heard = buyer[q].heard
    BY <2>1 DEF Early
  <2>5. /\ \A side \in Sides : \A m \in ToSet(node'[side]) :
             m \in ToSet(node[side]) \/ m.kind \notin {"locked", "delivery"}
        /\ \A x \in Requests :
             Once(node["seller"], Locked(x)) => Once(node'["seller"], Locked(x))
    BY <1>1
  <2>6. QED
    BY <1>1, <1>3, <2>2, <2>3, <2>4, <2>5, SameQueues, QuietStep
<1>4. QED
  BY <1>2, <1>3 DEF Join

LEMMA HandleRfqKeepsInv ==
  ASSUME DemoAssumption, DemoInv, NEW r \in Requests, HandleRfq(r) PROVE DemoInv'
<1> DEFINE c == <<r, "seller">>
           m == [kind |-> "quote", rfq |-> Head(queue[c]).rfq, by |-> r]
<1>1. DemoTypes /\ seller[r].pc = "listening" /\ UNCHANGED <<poll, buyer, work, foreign>>
  BY DEF DemoInv, HandleRfq
<1>2. c \in Clients /\ queue[c] # <<>> /\ queue' = [queue EXCEPT ![c] = Tail(@)]
  BY DEF HandleRfq, Clients, Sides
<1>3. /\ \/ send("buyer", m) /\ NoFault /\ UNCHANGED seller
         \/ Fault /\ seller' = [seller EXCEPT ![r].pc = "raised"] /\ UNCHANGED node
      /\ Fault \/ NoFault
  BY DEF HandleRfq
<1> HIDE DEF c
<1>4. /\ queue' \in [Clients -> Seq(Message)] /\ Head(queue[c]) \in Message
      /\ \A d \in Clients \ {c} : queue'[d] = queue[d]
  BY <1>1, <1>2, QueueTailEffect
<1>5. /\ \A d \in Clients : ToSet(queue'[d]) \subseteq ToSet(queue[d])
      /\ \A d \in Clients : \A x : Once(queue[d], x) => Once(queue'[d], x)
  BY <1>1, <1>2, QueueTailEffect
<1>6. m \in Bodies /\ m.kind = "quote" /\ "buyer" \in Sides
  BY <1>4, MessageFacts DEF Bodies, Message, Sides
<1> HIDE DEF m
<1>7. /\ node' \in [Sides -> Seq(Bodies)]
      /\ \A o \in Sides : \A b \in ToSet(node'[o]) :
           b \in ToSet(node[o]) \/ b.kind \notin {"locked", "delivery"}
      /\ \A x \in Requests :
           Once(node["seller"], Locked(x)) => Once(node'["seller"], Locked(x))
  <2>1. CASE send("buyer", m)
    BY <1>1, <1>6, <2>1, QuietSend
  <2>2. CASE node' = node
    BY <1>1, <2>2 DEF DemoTypes
  <2>3. QED
    BY <1>3, <2>1, <2>2
<1>8. /\ seller' \in [Requests -> Sellers]
      /\ seller'[r] = seller[r] \/ seller'[r].pc = "raised"
      /\ \A q \in Requests \ {r} : seller'[q] = seller[q]
  <2>1. seller \in [Requests -> Sellers]
    BY <1>1 DEF DemoTypes
  <2>2. CASE seller' = seller
    BY <2>1, <2>2
  <2>3. CASE seller' = [seller EXCEPT ![r].pc = "raised"]
    <3>1. [seller[r] EXCEPT !.pc = "raised"] \in Sellers
      BY <2>1 DEF Sellers
    <3>2. seller'[r].pc = "raised"
      BY <2>1, <2>3 DEF Sellers
    <3>3. QED
      BY <2>1, <2>3, <3>1, <3>2
  <2>4. QED
    BY <1>3, <2>2, <2>3
<1>9. faults' \in 0 .. MaxFaults
  BY <1>1, <1>3, FaultTypes
<1>10. \A d \in Clients : poll'[d] = "off" => queue'[d] = <<>>
  BY <1>1, <1>2, <1>4 DEF DemoTypes
<1>11. DemoTypes'
  BY <1>1, <1>4, <1>7, <1>8, <1>9, <1>10 DEF DemoTypes
<1>12. HeardOwn'
  BY <1>1 DEF DemoInv, HeardOwn
<1>13. buyer[r].pc # "new"
  BY <1>1 DEF DemoInv, SellersWorkOnce
<1>14. \A q \in Requests :
         /\ seller[q].pc = "done" \/ seller'[q].pc = "working" => seller'[q] = seller[q]
         /\ buyer'[q].pc = "new" => buyer[q].pc = "new" /\ seller'[q] = seller[q]
         /\ Early(q)' => Early(q)
         /\ buyer'[q].heard = buyer[q].heard
  BY <1>1, <1>8, <1>13 DEF Early
<1>15. QED
  BY <1>1, <1>5, <1>7, <1>11, <1>12, <1>14, QuietStep

(* The trigger goes from a seller's queue into its hands.                  *)
LEMMA HandleTriggerKeepsInv ==
  ASSUME DemoInv, NEW r \in Requests, HandleTrigger(r) PROVE DemoInv'
<1> DEFINE c == <<r, "seller">>
           y == Head(queue[c]).rfq
<1>1. /\ DemoTypes /\ OneTrigger /\ SellersWorkOnce /\ DeliveriesGenuine /\ HeardOwn
      /\ seller[r].pc = "listening" /\ UNCHANGED <<node, poll, buyer, work, foreign, faults>>
  BY DEF DemoInv, HandleTrigger
<1>2. /\ c \in Clients /\ queue[c] # <<>> /\ queue' = [queue EXCEPT ![c] = Tail(@)]
      /\ seller' = [seller EXCEPT ![r] = [pc |-> "working", rfq |-> y]]
      /\ Head(queue[c]).kind = "locked"
  BY DEF HandleTrigger, Clients, Sides
<1>3. \A q \in Requests : <<q, "seller">> \in Clients /\ (<<q, "seller">> = c => q = r)
  BY DEF Clients, Sides
<1> HIDE DEF c
<1>4. /\ queue' \in [Clients -> Seq(Message)] /\ Head(queue[c]) \in Message
      /\ Head(queue[c]) \in ToSet(queue[c])
      /\ \A d \in Clients \ {c} : queue'[d] = queue[d]
  BY <1>1, <1>2, QueueTailEffect
<1>5. /\ \A d \in Clients : ToSet(queue'[d]) \subseteq ToSet(queue[d])
      /\ \A d \in Clients : \A x : Once(queue[d], x) => Once(queue'[d], x)
      /\ \A x : Once(queue[c], x) /\ Head(queue[c]) = x => x \notin ToSet(queue'[c])
  BY <1>1, <1>2, QueueTailEffect
<1>6. y \in Requests /\ Head(queue[c]) = Locked(y)
  BY <1>2, <1>4, MessageFacts
<1> HIDE DEF y
<1>7. /\ seller' \in [Requests -> Sellers]
      /\ seller'[r].pc = "working" /\ seller'[r].rfq = y
      /\ \A q \in Requests \ {r} : seller'[q] = seller[q]
  BY <1>1, <1>2, <1>6 DEF DemoTypes, Sellers
<1>8. \A d \in Clients : poll'[d] = "off" => queue'[d] = <<>>
  BY <1>1, <1>2, <1>4 DEF DemoTypes
<1>9. DemoTypes'
  BY <1>1, <1>4, <1>7, <1>8 DEF DemoTypes
<1>10. OneTrigger'
  <2>1. InQueue(y, r) /\ \A x : x = y => ~InQueue(x, r)'
    <3>1. InQueue(y, r)
      BY <1>4, <1>6 DEF InQueue, c
    <3>2. Once(queue[c], Locked(y))
      BY <1>1, <1>6 DEF OneTrigger, c
    <3>3. \A x : x = Locked(y) => x \notin ToSet(queue'[c])
      BY <1>5, <1>6, <3>2
    <3>4. QED
      BY <3>1, <3>3 DEF InQueue, c
  <2>2. \A x, q \in Requests : InQueue(x, q)' => InQueue(x, q)
    BY <1>3, <1>5 DEF InQueue
  <2>3. \A x, q \in Requests :
          Taken(x, q)' => Taken(x, q) \/ (x = y /\ q = r)
    BY <1>1, <1>7 DEF Taken
  <2>4. \A x \in Requests : (InNode(x)' <=> InNode(x)) /\ (Early(x)' <=> Early(x))
    BY <1>1 DEF InNode, Early
  <2>5. /\ \A q \in Requests : ~Taken(y, q) /\ (InQueue(y, q) => q = r)
        /\ ~InNode(y) /\ ~Early(y)
    BY <1>1, <1>6, <2>1 DEF OneTrigger
  <2>6. \A x, q \in Requests : x = y => ~InQueue(x, q)'
    BY <2>1, <2>2, <2>5
  <2>7. \A x \in Requests : Once(node'["seller"], Locked(x))
    BY <1>1 DEF OneTrigger
  <2>8. \A x, q \in Requests : Once(queue'[<<q, "seller">>], Locked(x))
    BY <1>1, <1>3, <1>5 DEF OneTrigger
  <2>9. \A x \in Requests :
          /\ InNode(x)' => \A q \in Requests : ~InQueue(x, q)' /\ ~Taken(x, q)'
          /\ \A p, q \in Requests :
               InQueue(x, p)' => ~Taken(x, q)' /\ (InQueue(x, q)' => q = p)
          /\ \A p, q \in Requests : Taken(x, p)' /\ Taken(x, q)' => q = p
          /\ Early(x)' => ~InNode(x)' /\ \A q \in Requests : ~InQueue(x, q)' /\ ~Taken(x, q)'
    BY <1>1, <2>2, <2>3, <2>4, <2>5, <2>6 DEF OneTrigger
  <2>10. QED
    BY <2>7, <2>8, <2>9 DEF OneTrigger
<1>11. SellersWorkOnce'
  <2>1. \A w \in work : w[1] \in Requests
    BY <1>1 DEF DemoTypes
  <2>2. QED
    BY <1>1, <1>7, <2>1 DEF SellersWorkOnce
<1>12. DeliveriesGenuine'
  BY <1>1, <1>5 DEF DeliveriesGenuine, Genuine
<1>13. HeardOwn'
  BY <1>1 DEF HeardOwn
<1>14. QED
  BY <1>9, <1>10, <1>11, <1>12, <1>13 DEF DemoInv

(* The task done, and its delivery sent: what was in a seller's hands is   *)
(* now in the record of the work.                                          *)
LEMMA ExecuteKeepsInv ==
  ASSUME DemoAssumption, DemoInv, NEW r \in Requests, Execute(r) PROVE DemoInv'
<1> DEFINE y == seller[r].rfq
           m == [kind |-> "delivery", rfq |-> y, by |-> r]
<1>1. /\ DemoTypes /\ OneTrigger /\ SellersWorkOnce /\ DeliveriesGenuine /\ HeardOwn
      /\ seller[r].pc = "working" /\ UNCHANGED <<buyer, foreign>>
  BY DEF DemoInv, Execute
<1>2. y \in Requests /\ <<r, "seller">> \in Clients /\ Taken(y, r)
  BY <1>1 DEF DemoTypes, Sellers, Clients, Sides, Taken
<1>3. m \in Bodies /\ m.kind = "delivery" /\ m.rfq = y /\ m.by = r /\ "buyer" \in Sides
  BY <1>2 DEF Bodies, Message, Sides
<1>4. CASE /\ Fault
           /\ seller' = [seller EXCEPT ![r].pc = "raised"]
           /\ UNCHANGED <<node, work, poll, queue>>
  <2>1. /\ seller' \in [Requests -> Sellers] /\ seller'[r].pc = "raised"
        /\ \A q \in Requests \ {r} : seller'[q] = seller[q]
    BY <1>1, <1>4 DEF DemoTypes, Sellers
  <2>2. faults' \in 0 .. MaxFaults
    BY <1>1, <1>4, FaultTypes
  <2>3. DemoTypes'
    BY <1>1, <1>4, <2>1, <2>2 DEF DemoTypes
  <2>4. HeardOwn'
    BY <1>1 DEF HeardOwn
  <2>5. buyer[r].pc # "new"
    BY <1>1 DEF SellersWorkOnce
  <2>6. \A q \in Requests :
          /\ seller[q].pc = "done" \/ seller'[q].pc = "working" => seller'[q] = seller[q]
          /\ buyer'[q].pc = "new" => buyer[q].pc = "new" /\ seller'[q] = seller[q]
          /\ Early(q)' => Early(q)
          /\ buyer'[q].heard = buyer[q].heard
    BY <1>1, <2>1, <2>5 DEF Early
  <2>7. /\ \A side \in Sides : \A b \in ToSet(node'[side]) :
             b \in ToSet(node[side]) \/ b.kind \notin {"locked", "delivery"}
        /\ \A x \in Requests :
             Once(node["seller"], Locked(x)) => Once(node'["seller"], Locked(x))
    BY <1>4
  <2>8. QED
    BY <1>4, <2>3, <2>4, <2>6, <2>7, SameQueues, QuietStep
<1>5. CASE /\ send("buyer", m)
           /\ work' = work \cup {<<r, y>>}
           /\ seller' = [seller EXCEPT ![r].pc = "done"]
           /\ aclose(<<r, "seller">>)
           /\ NoFault
  <2> HIDE DEF m
  <2>1. /\ seller' \in [Requests -> Sellers]
        /\ seller'[r].pc = "done" /\ seller'[r].rfq = y
        /\ \A q \in Requests \ {r} : seller'[q] = seller[q]
    BY <1>1, <1>5 DEF DemoTypes, Sellers
  <2> HIDE DEF y
  <2>2. /\ node' \in [Sides -> Seq(Bodies)]
        /\ ToSet(node'["buyer"]) = ToSet(node["buyer"]) \cup {m}
        /\ \A o \in Sides \ {"buyer"} : node'[o] = node[o]
    BY <1>1, <1>3, <1>5, SendEffect
  <2>3. /\ queue' \in [Clients -> Seq(Message)]
        /\ poll' \in [Clients -> {"off", "on", "dead"}]
        /\ \A d \in Clients : poll'[d] = "off" => queue'[d] = <<>>
    BY <1>1, <1>2, <1>5, AcloseEffect
  <2>4. /\ \A d \in Clients : ToSet(queue'[d]) \subseteq ToSet(queue[d])
        /\ \A d \in Clients : \A x : Once(queue[d], x) => Once(queue'[d], x)
    BY <1>1, <1>2, <1>5, AcloseEffect
  <2>5. work' \subseteq Requests \X Requests /\ work' = work \cup {<<r, y>>}
    BY <1>1, <1>2, <1>5 DEF DemoTypes
  <2>6. DemoTypes'
    BY <1>1, <1>5, <2>1, <2>2, <2>3, <2>5 DEF DemoTypes, NoFault
  <2>7. OneTrigger'
    <3>1. node'["seller"] = node["seller"]
      BY <2>2 DEF Sides
    <3>2. \A q \in Requests : <<q, "seller">> \in Clients
      BY DEF Clients, Sides
    <3>3. \A x, q \in Requests : Taken(x, q)' => Taken(x, q)
      BY <1>2, <2>1, <2>5 DEF Taken
    <3>4. \A x, q \in Requests : InQueue(x, q)' => InQueue(x, q)
      BY <2>4, <3>2 DEF InQueue
    <3>5. \A x \in Requests : (InNode(x)' => InNode(x)) /\ (Early(x)' => Early(x))
      BY <1>1, <3>1 DEF InNode, Early
    <3>6. \A x, q \in Requests :
            Once(node'["seller"], Locked(x)) /\ Once(queue'[<<q, "seller">>], Locked(x))
      BY <1>1, <2>4, <3>1, <3>2 DEF OneTrigger
    <3>7. TriggersStay
      BY <3>3, <3>4, <3>5, <3>6 DEF TriggersStay
    <3>8. QED
      BY <1>1, <3>7, NoNewTrigger
  <2>8. SellersWorkOnce'
    <3>1. \A w \in work : w[1] \in Requests
      BY <1>1 DEF DemoTypes
    <3>2. \A w \in work : w[1] # r
      BY <1>1 DEF SellersWorkOnce
    <3>3. buyer[r].pc # "new"
      BY <1>1 DEF SellersWorkOnce
    <3>4. QED
      BY <1>1, <2>1, <2>5, <3>1, <3>2, <3>3 DEF SellersWorkOnce
  <2>9. DeliveriesGenuine'
    <3>1. \A b : Genuine(b) => Genuine(b)'
      BY <2>5 DEF Genuine
    <3>2. \A b : b = m => Genuine(b)'
      BY <1>3, <2>5 DEF Genuine
    <3>3. \A side \in Sides : \A b \in ToSet(node'[side]) : Genuine(b)'
      BY <1>1, <2>2, <3>1, <3>2 DEF DeliveriesGenuine
    <3>4. \A d \in Clients : \A b \in ToSet(queue'[d]) : Genuine(b)'
      BY <1>1, <2>4, <3>1 DEF DeliveriesGenuine
    <3>5. \A q \in Requests : \A b \in ToSet(buyer'[q].heard) : Genuine(b)'
      BY <1>1, <3>1 DEF DeliveriesGenuine
    <3>6. QED
      BY <3>3, <3>4, <3>5 DEF DeliveriesGenuine
  <2>10. HeardOwn'
    BY <1>1 DEF HeardOwn
  <2>11. QED
    BY <2>6, <2>7, <2>8, <2>9, <2>10 DEF DemoInv
<1>6. QED
  BY <1>4, <1>5 DEF Execute

(* A body goes from a node into the queue of the client that asked.        *)
LEMMA PollKeepsInv ==
  ASSUME DemoInv, NEW c \in Clients, Poll(c) PROVE DemoInv'
<1> DEFINE side == c[2]
           body == Head(node[side])
<1>1. /\ DemoTypes /\ OneTrigger /\ SellersWorkOnce /\ DeliveriesGenuine /\ HeardOwn
      /\ poll[c] = "on" /\ UNCHANGED <<buyer, seller, work, foreign, faults>>
  BY DEF DemoInv, Poll
<1>2. /\ side \in Sides /\ node[side] # <<>> /\ node' = [node EXCEPT ![side] = Tail(@)]
      /\ \A q \in Requests : <<q, "seller">> \in Clients
      /\ \A q \in Requests : c = <<q, "seller">> => side = "seller"
      /\ "seller" \in Sides
  BY DEF Poll, Clients, Sides
<1>3. IF body = Undecodable
      THEN poll' = [poll EXCEPT ![c] = "dead"] /\ UNCHANGED queue
      ELSE queue' = [queue EXCEPT ![c] = Append(@, body)] /\ UNCHANGED poll
  BY DEF Poll
<1> HIDE DEF side
<1>4. /\ node' \in [Sides -> Seq(Bodies)]
      /\ body \in Bodies /\ body \in ToSet(node[side])
      /\ \A o \in Sides : ToSet(node'[o]) \subseteq ToSet(node[o])
  BY <1>1, <1>2, NodeTailEffect
<1>5. /\ \A o \in Sides : \A x : Once(node[o], x) => Once(node'[o], x)
      /\ \A x : Once(node[side], x) /\ body = x => x \notin ToSet(node'[side])
  BY <1>1, <1>2, NodeTailEffect
<1> HIDE DEF body
<1>6. HeardOwn'
  BY <1>1 DEF HeardOwn
<1>7. CASE body = Undecodable
  <2>1. poll' = [poll EXCEPT ![c] = "dead"] /\ queue' = queue
    BY <1>3, <1>7
  <2>2. DemoTypes'
    BY <1>1, <1>4, <2>1 DEF DemoTypes
  <2>3. \A q \in Requests : Early(q)' => Early(q)
    BY <1>1 DEF Early
  <2>4. /\ \A o \in Sides : \A b \in ToSet(node'[o]) :
             b \in ToSet(node[o]) \/ b.kind \notin {"locked", "delivery"}
        /\ \A x \in Requests :
             Once(node["seller"], Locked(x)) => Once(node'["seller"], Locked(x))
    BY <1>2, <1>4, <1>5
  <2>5. QED
    BY <1>1, <1>6, <2>1, <2>2, <2>3, <2>4, SameQueues, QuietStep
<1>8. CASE body # Undecodable
  <2>1. /\ queue' = [queue EXCEPT ![c] = Append(@, body)] /\ poll' = poll
        /\ body \in Message
    BY <1>3, <1>4, <1>8 DEF Bodies
  <2>2. queue[c] \in Seq(Message) /\ queue'[c] = Append(queue[c], body)
    BY <1>1, <2>1 DEF DemoTypes
  <2>3. /\ queue'[c] \in Seq(Message)
        /\ ToSet(queue'[c]) = ToSet(queue[c]) \cup {body}
        /\ \A m : Once(queue[c], m) /\ (m \notin ToSet(queue[c]) \/ body # m)
                    => Once(queue'[c], m)
    BY <2>1, <2>2, AppendToQueue
  <2>4. /\ queue' \in [Clients -> Seq(Message)]
        /\ \A d \in Clients \ {c} : queue'[d] = queue[d]
    BY <1>1, <2>1, <2>3 DEF DemoTypes
  <2>5. \A d \in Clients : poll'[d] = "off" => queue'[d] = <<>>
    BY <1>1, <2>1, <2>4 DEF DemoTypes
  <2>6. DemoTypes'
    BY <1>1, <1>4, <2>1, <2>4, <2>5 DEF DemoTypes
  <2>7. OneTrigger'
    <3>1. \A x, q \in Requests :
            InQueue(x, q)' => \/ InQueue(x, q)
                              \/ body = Locked(x) /\ c = <<q, "seller">>
      BY <1>2, <2>3, <2>4 DEF InQueue
    <3>2. \A x, q \in Requests :
            body = Locked(x) /\ c = <<q, "seller">> => InNode(x)
      BY <1>2, <1>4 DEF InNode
    <3>3. \A x, q \in Requests :
            body = Locked(x) /\ c = <<q, "seller">> => ~InNode(x)'
      BY <1>1, <1>2, <1>5 DEF InNode, OneTrigger
    <3>4. \A x, q \in Requests :
            /\ InNode(x)' => InNode(x)
            /\ Early(x)' => Early(x)
            /\ Taken(x, q)' => Taken(x, q)
      BY <1>1, <1>2, <1>4 DEF InNode, Early, Taken
    <3>5. \A x \in Requests : Once(node'["seller"], Locked(x))
      BY <1>1, <1>2, <1>5 DEF OneTrigger
    <3>6. \A x, q \in Requests : Once(queue'[<<q, "seller">>], Locked(x))
      <4>1. ASSUME NEW x \in Requests, NEW q \in Requests, c = <<q, "seller">>
            PROVE  Once(queue'[c], Locked(x))
        <5>1. Once(queue[c], Locked(x)) /\ (body = Locked(x) => ~InQueue(x, q))
          BY <1>1, <3>2, <4>1 DEF OneTrigger
        <5>2. QED
          BY <2>3, <4>1, <5>1 DEF InQueue
      <4>2. QED
        BY <1>1, <1>2, <2>4, <4>1 DEF OneTrigger
    <3>7. \A p, q \in Requests : <<p, "seller">> = <<q, "seller">> => p = q
      OBVIOUS
    <3>8. \A x \in Requests :
            /\ InNode(x)' => \A q \in Requests : ~InQueue(x, q)' /\ ~Taken(x, q)'
            /\ Early(x)' => ~InNode(x)' /\ \A q \in Requests : ~InQueue(x, q)' /\ ~Taken(x, q)'
            /\ \A p, q \in Requests : Taken(x, p)' /\ Taken(x, q)' => q = p
      BY <1>1, <3>1, <3>2, <3>3, <3>4 DEF OneTrigger
    <3>9. \A x, p, q \in Requests :
            InQueue(x, p)' => ~Taken(x, q)' /\ (InQueue(x, q)' => q = p)
      <4>1. ASSUME NEW x \in Requests, NEW p \in Requests, NEW q \in Requests,
                   InQueue(x, p)'
            PROVE  ~Taken(x, q)' /\ (InQueue(x, q)' => q = p)
        <5>1. CASE body = Locked(x) /\ c = <<p, "seller">>
          BY <1>1, <3>1, <3>2, <3>4, <3>7, <5>1 DEF OneTrigger
        <5>2. CASE InQueue(x, p)
          BY <1>1, <3>1, <3>2, <3>4, <5>2 DEF OneTrigger
        <5>3. QED
          BY <3>1, <4>1, <5>1, <5>2
      <4>2. QED
        BY <4>1
    <3>10. QED
      BY <3>5, <3>6, <3>8, <3>9 DEF OneTrigger
  <2>8. SellersWorkOnce'
    BY <1>1 DEF SellersWorkOnce
  <2>9. DeliveriesGenuine'
    <3>1. \A m : Genuine(m) => Genuine(m)'
      BY <1>1 DEF Genuine
    <3>2. \A m : m = body => Genuine(m)
      BY <1>1, <1>2, <1>4 DEF DeliveriesGenuine
    <3>3. \A o \in Sides : \A m \in ToSet(node'[o]) : Genuine(m)'
      BY <1>1, <1>4, <3>1 DEF DeliveriesGenuine
    <3>4. \A d \in Clients : \A m \in ToSet(queue'[d]) : Genuine(m)'
      BY <1>1, <2>3, <2>4, <3>1, <3>2 DEF DeliveriesGenuine
    <3>5. \A q \in Requests : \A m \in ToSet(buyer'[q].heard) : Genuine(m)'
      BY <1>1, <3>1 DEF DeliveriesGenuine
    <3>6. QED
      BY <3>3, <3>4, <3>5 DEF DeliveriesGenuine
  <2>10. QED
    BY <1>6, <2>6, <2>7, <2>8, <2>9 DEF DemoInv
<1>9. QED
  BY <1>7, <1>8

LEMMA NetworkKeepsInv ==
  ASSUME DemoAssumption, DemoInv, LoseBody \/ ForeignBody PROVE DemoInv'
<1>1. DemoTypes /\ UNCHANGED <<poll, queue, buyer, seller, work>>
  BY DEF DemoInv, LoseBody, ForeignBody
<1>2. HeardOwn'
  BY <1>1 DEF DemoInv, HeardOwn
<1>3. \A q \in Requests : Early(q)' => Early(q)
  BY <1>1 DEF Early
<1>4. /\ node' \in [Sides -> Seq(Bodies)]
      /\ \A o \in Sides : \A b \in ToSet(node'[o]) :
           b \in ToSet(node[o]) \/ b.kind \notin {"locked", "delivery"}
      /\ \A x \in Requests :
           Once(node["seller"], Locked(x)) => Once(node'["seller"], Locked(x))
  <2>1. CASE LoseBody
    <3>1. PICK side \in Sides : node[side] # <<>> /\ node' = [node EXCEPT ![side] = Tail(@)]
      BY <2>1 DEF LoseBody
    <3>2. /\ node' \in [Sides -> Seq(Bodies)]
          /\ \A o \in Sides : ToSet(node'[o]) \subseteq ToSet(node[o])
          /\ \A o \in Sides : \A x : Once(node[o], x) => Once(node'[o], x)
      BY <1>1, <3>1, NodeTailEffect
    <3>3. "seller" \in Sides
      BY DEF Sides
    <3>4. QED
      BY <3>2, <3>3
  <2>2. CASE ForeignBody
    <3>1. PICK side \in Sides : send(side, Undecodable)
      BY <2>2 DEF ForeignBody
    <3>2. Undecodable \in Bodies /\ Undecodable.kind \notin {"locked", "delivery"}
      BY MessageFacts DEF Bodies
    <3>3. QED
      BY <1>1, <3>1, <3>2, QuietSend
  <2>3. QED
    BY <2>1, <2>2
<1>5. faults' \in 0 .. MaxFaults
  BY <1>1, FaultTypes DEF LoseBody, ForeignBody, NoFault
<1>6. foreign' \in 0 .. MaxForeign
  BY <1>1 DEF LoseBody, ForeignBody, DemoTypes, DemoAssumption
<1>7. DemoTypes'
  BY <1>1, <1>4, <1>5, <1>6 DEF DemoTypes
<1>8. QED
  BY <1>1, <1>2, <1>3, <1>4, <1>7, SameQueues, QuietStep
---------------------------------------------------------------------------
LEMMA DemoInvariant == DemoSpec => []DemoInv
<1>1. DemoInit => DemoInv
  BY DemoInitInv, DemoAssumption
<1>2. DemoInv /\ [DemoNext]_demoVars => DemoInv'
  <2> SUFFICES ASSUME DemoInv, [DemoNext]_demoVars PROVE DemoInv'
    OBVIOUS
  <2>1. CASE UNCHANGED demoVars
    BY <2>1 DEF demoVars, DemoInv, DemoTypes, OneTrigger, SellersWorkOnce, DeliveriesGenuine,
                HeardOwn, Genuine, InNode, InQueue, Taken, Early
  <2>2. ASSUME NEW r \in Requests, BuyerStep(r) PROVE DemoInv'
    BY <2>2, DemoAssumption, StartTradeKeepsInv, SendRfqKeepsInv, DrainKeepsInv,
       EndQuotesKeepsInv, EndDeliveriesKeepsInv, JoinKeepsInv DEF BuyerStep
  <2>3. ASSUME NEW r \in Requests, SellerStep(r) PROVE DemoInv'
    BY <2>3, DemoAssumption, HandleRfqKeepsInv, HandleTriggerKeepsInv, ExecuteKeepsInv
       DEF SellerStep
  <2>4. ASSUME NEW c \in Clients, Poll(c) PROVE DemoInv'
    BY <2>4, PollKeepsInv
  <2>5. CASE LoseBody \/ ForeignBody
    BY <2>5, DemoAssumption, NetworkKeepsInv
  <2>6. QED
    BY <2>1, <2>2, <2>3, <2>4, <2>5 DEF DemoNext
<1>3. QED
  BY <1>1, <1>2, PTL DEF DemoSpec

(* Type correctness of the demo's trades.                                  *)
THEOREM DemoTypeCorrect == DemoSpec => []DemoTypeOK
<1>1. DemoInv => DemoTypeOK
  <2> SUFFICES ASSUME DemoInv PROVE DemoTypeOK
    OBVIOUS
  <2>1. DemoTypes
    BY DEF DemoInv
  <2>2. \A s \in Sides : ToSet(node[s]) \subseteq Message \cup {Undecodable}
    BY <2>1, QueueElements DEF DemoTypes, Bodies
  <2>3. \A c \in Clients : ToSet(queue[c]) \subseteq Message
    BY <2>1, QueueElements DEF DemoTypes
  <2>4. \A r \in Requests : ToSet(buyer[r].heard) \subseteq Message
    BY <2>1, QueueElements DEF DemoTypes, Buyers
  <2>5. QED
    BY <2>1, <2>2, <2>3, <2>4 DEF DemoTypes, DemoTypeOK, Buyers, Sellers
<1>2. QED
  BY <1>1, DemoInvariant, PTL

(* However requests overlap, no task is run twice for one trade, and no    *)
(* seller runs two: the trigger of a trade is taken by one seller, and a   *)
(* seller that has done a task is done.                                    *)
THEOREM OneTaskPerTrade == DemoSpec => []WorkIsOneToOne
<1>1. DemoInv => WorkIsOneToOne
  <2> SUFFICES ASSUME DemoInv, NEW v \in work, NEW w \in work,
                      v[1] = w[1] \/ v[2] = w[2]
               PROVE  v = w
    BY DEF WorkIsOneToOne
  <2>1. v \in Requests \X Requests /\ w \in Requests \X Requests
    BY DEF DemoInv, DemoTypes
  <2>2. CASE v[1] = w[1]
    BY <2>1, <2>2 DEF DemoInv, SellersWorkOnce
  <2>3. CASE v[2] = w[2]
    <3>1. <<v[1], v[2]>> \in work /\ <<w[1], v[2]>> \in work
      BY <2>1, <2>3
    <3>2. Taken(v[2], v[1]) /\ Taken(v[2], w[1])
      BY <3>1 DEF Taken
    <3>3. v[1] = w[1]
      BY <2>1, <3>2 DEF DemoInv, OneTrigger
    <3>4. QED
      BY <2>1, <2>3, <3>3
  <2>4. QED
    BY <2>2, <2>3
<1>2. QED
  BY <1>1, DemoInvariant, PTL

(* A response that says "verified" is about a task that was really run for *)
(* this request, by the seller that signed the delivery it was given.      *)
THEOREM VerifiedIsDone == DemoSpec => []VerifiedMeansDone
<1>1. DemoInv => VerifiedMeansDone
  <2> SUFFICES ASSUME DemoInv, NEW r \in Requests, buyer[r].pc \in {"joining", "verified"}
               PROVE  \E m \in ToSet(buyer[r].heard) : <<m.by, r>> \in work
    BY DEF VerifiedMeansDone
  <2>1. buyer[r].heard \in Seq(Message) /\ buyer[r].heard # <<>>
    BY DEF DemoInv, DemoTypes, Buyers, HeardOwn
  <2>2. PICK m \in ToSet(buyer[r].heard) : TRUE
    BY <2>1, QueueElements
  <2>3. m.kind = "delivery" /\ m.rfq = r /\ Genuine(m)
    BY DEF DemoInv, HeardOwn, DeliveriesGenuine
  <2>4. QED
    BY <2>3 DEF Genuine
<1>2. QED
  BY <1>1, DemoInvariant, PTL
===========================================================================
