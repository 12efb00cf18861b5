------------------------- MODULE AxlNetwork_proofs -------------------------
(***************************************************************************)
(* The local AXL network for any nodes, any number of messages and any     *)
(* number of calls given up.  A message is on its way in three stages: in  *)
(* the backlog of its sender's node (Sending), in that of its recipient's  *)
(* node (Delivering), and arrived (Got).  Between two nodes, what is in a  *)
(* later stage was sent before what is in an earlier one.                  *)
(***************************************************************************)
EXTENDS AxlNetwork, SequenceTheorems, TLAPS

Msgs(s, op) == {s[i].msg : i \in {j \in 1 .. Len(s) : s[j].op = op}}
Sending(n) == Msgs(backlog[n], "send")
Delivering(n) == Msgs(backlog[n], "_deliver")
Elements(s) == {s[i] : i \in 1 .. Len(s)}
Got(n) == Elements(received[n]) \cup Elements(inbox[n])

Precedes(e, m) == e.from = m.from /\ e.to = m.to => e.k < m.k
Before(S, T) == \A e \in S, m \in T : Precedes(e, m)
InLine(s, op) == \A i, j \in 1 .. Len(s) :
                   i < j /\ s[i].op = op /\ s[j].op = op => Precedes(s[i].msg, s[j].msg)
Ordered(s) == \A i, j \in 1 .. Len(s) : i < j /\ s[i].from = s[j].from => s[i].k < s[j].k

PollsLive(s) == \A i \in 1 .. Len(s) : s[i].op = "recv" => s[i].live

AxlTypes ==
  /\ peers \in [Nodes -> SUBSET Nodes]
  /\ remaining \in [Nodes -> SUBSET Nodes]
  /\ announcing \in [Nodes -> SUBSET Nodes]
  /\ backlog \in [Nodes -> Seq(Connection)]
  /\ serving \in [Nodes -> Message \cup {NoMessage}]
  /\ inbox \in [Nodes -> Seq(Message)]
  /\ received \in [Nodes -> Seq(Message)]
  /\ outcome \in [Message -> {"unsent", "pending", "ok", "failed"}]
  /\ polling \in [Nodes -> BOOLEAN]
  /\ timeouts \in 0 .. MaxTimeouts
  /\ lost \subseteq Message

(* Where a message may be, and that it was sent.                           *)
Sent(m) == outcome[m] # "unsent"
Routed ==
  /\ \A n \in Nodes : /\ \A m \in Sending(n) : m.from = n /\ Sent(m)
                      /\ \A m \in Delivering(n) : m.to = n /\ Sent(m)
                      /\ \A m \in Got(n) : m.to = n /\ Sent(m)
  /\ \A m \in lost : Sent(m)

SentInOrder == \A e, m \in Message :
  e.from = m.from /\ e.to = m.to /\ e.k < m.k /\ Sent(m) => Sent(e)

Staged ==
  /\ \A n \in Nodes : /\ InLine(backlog[n], "send") /\ InLine(backlog[n], "_deliver")
                      /\ Ordered(received[n] \o inbox[n])
                      /\ Before(Got(n), Delivering(n))
  /\ \A n, x \in Nodes : Before(Got(x) \cup Delivering(x), Sending(n))

Answers ==
  /\ \A m \in Message : outcome[m] = "ok" => m \in Arrived
  /\ lost # {} => timeouts > 0
  /\ timeouts = 0 => \A n \in Nodes : PollsLive(backlog[n])

AxlInv == AxlTypes /\ Routed /\ SentInOrder /\ Staged /\ Answers
---------------------------------------------------------------------------
(* What taking the first connection does to a backlog.                     *)
LEMMA TailFacts ==
  ASSUME NEW s \in Seq(Connection), s # <<>>
  PROVE  /\ Tail(s) \in Seq(Connection) /\ Head(s) \in Connection
         /\ \A op : /\ Msgs(Tail(s), op) \subseteq Msgs(s, op)
                    /\ Head(s).op = op => Head(s).msg \in Msgs(s, op)
                    /\ InLine(s, op) => InLine(Tail(s), op)
                    /\ InLine(s, op) /\ Head(s).op = op
                         => Before({Head(s).msg}, Msgs(Tail(s), op))
         /\ PollsLive(s) => PollsLive(Tail(s)) /\ (Head(s).op = "recv" => Head(s).live)
<1> DEFINE t == Tail(s)
<1>1. /\ t \in Seq(Connection) /\ Len(t) \in Nat /\ Len(s) \in Nat /\ Len(s) = Len(t) + 1
      /\ \A i \in 1 .. Len(t) : t[i] = s[i + 1] /\ i + 1 \in 1 .. Len(s)
      /\ Head(s) = s[1] /\ 1 \in 1 .. Len(s) /\ s[1] \in Connection
  BY HeadTailProperties, EmptySeq, LenProperties
<1> HIDE DEF t
<1>2. ASSUME NEW op
      PROVE  /\ Msgs(t, op) \subseteq Msgs(s, op)
             /\ Head(s).op = op => Head(s).msg \in Msgs(s, op)
             /\ InLine(s, op) => InLine(t, op)
             /\ InLine(s, op) /\ Head(s).op = op => Before({Head(s).msg}, Msgs(t, op))
  <2>1. Msgs(t, op) \subseteq Msgs(s, op)
    BY <1>1 DEF Msgs
  <2>2. Head(s).op = op => Head(s).msg \in Msgs(s, op)
    BY <1>1 DEF Msgs
  <2>3. ASSUME InLine(s, op) PROVE InLine(t, op)
    <3> SUFFICES ASSUME NEW i \in 1 .. Len(t), NEW j \in 1 .. Len(t), i < j,
                        t[i].op = op, t[j].op = op
                 PROVE  Precedes(t[i].msg, t[j].msg)
      BY DEF InLine
    <3>1. t[i] = s[i + 1] /\ t[j] = s[j + 1] /\ i + 1 \in 1 .. Len(s) /\ j + 1 \in 1 .. Len(s)
          /\ i + 1 < j + 1
      BY <1>1
    <3>2. QED
      BY <2>3, <3>1 DEF InLine
  <2>4. ASSUME InLine(s, op), Head(s).op = op PROVE Before({Head(s).msg}, Msgs(t, op))
    <3> SUFFICES ASSUME NEW j \in 1 .. Len(t), t[j].op = op
                 PROVE  Precedes(s[1].msg, t[j].msg)
      BY <1>1 DEF Before, Msgs
    <3>1. t[j] = s[j + 1] /\ j + 1 \in 1 .. Len(s) /\ 1 < j + 1
      BY <1>1
    <3>2. QED
      BY <1>1, <2>4, <3>1 DEF InLine
  <2>5. QED
    BY <2>1, <2>2, <2>3, <2>4
<1>3. PollsLive(s) => PollsLive(t) /\ (Head(s).op = "recv" => Head(s).live)
  BY <1>1 DEF PollsLive
<1>4. QED
  BY <1>1, <1>2, <1>3 DEF t

(* What one more connection does to it.                                    *)
LEMMA AppendFacts ==
  ASSUME NEW s \in Seq(Connection), NEW c \in Connection
  PROVE  /\ Append(s, c) \in Seq(Connection)
         /\ \A op : /\ Msgs(Append(s, c), op) =
                         IF c.op = op THEN Msgs(s, op) \cup {c.msg} ELSE Msgs(s, op)
                    /\ InLine(s, op) /\ (c.op = op => Before(Msgs(s, op), {c.msg}))
                         => InLine(Append(s, c), op)
         /\ PollsLive(s) /\ (c.op = "recv" => c.live) => PollsLive(Append(s, c))
<1> DEFINE t == Append(s, c)
<1>1. /\ t \in Seq(Connection) /\ Len(s) \in Nat /\ Len(t) = Len(s) + 1
      /\ \A i \in 1 .. Len(s) : t[i] = s[i]
      /\ t[Len(s) + 1] = c
  BY AppendProperties, LenProperties
<1> HIDE DEF t
<1>2. 1 .. Len(t) = 1 .. Len(s) \cup {Len(s) + 1} /\ Len(s) + 1 \notin 1 .. Len(s)
  BY <1>1
<1>3. ASSUME NEW op
      PROVE  /\ Msgs(t, op) = IF c.op = op THEN Msgs(s, op) \cup {c.msg} ELSE Msgs(s, op)
             /\ InLine(s, op) /\ (c.op = op => Before(Msgs(s, op), {c.msg})) => InLine(t, op)
  <2>1. Msgs(t, op) = IF c.op = op THEN Msgs(s, op) \cup {c.msg} ELSE Msgs(s, op)
    BY <1>1, <1>2 DEF Msgs
  <2>2. ASSUME InLine(s, op), c.op = op => Before(Msgs(s, op), {c.msg}) PROVE InLine(t, op)
    <3> SUFFICES ASSUME NEW i \in 1 .. Len(t), NEW j \in 1 .. Len(t), i < j,
                        t[i].op = op, t[j].op = op
                 PROVE  Precedes(t[i].msg, t[j].msg)
      BY DEF InLine
    <3>1. i \in 1 .. Len(s) /\ t[i] = s[i]
      BY <1>1
    <3>2. CASE j \in 1 .. Len(s)
      BY <1>1, <2>2, <3>1, <3>2 DEF InLine
    <3>3. CASE j = Len(s) + 1
      <4>1. t[j] = c /\ s[i].msg \in Msgs(s, op)
        BY <1>1, <3>1, <3>3 DEF Msgs
      <4>2. QED
        BY <2>2, <3>1, <4>1 DEF Before
    <3>4. QED
      BY <1>2, <3>2, <3>3
  <2>3. QED
    BY <2>1, <2>2
<1>4. PollsLive(s) /\ (c.op = "recv" => c.live) => PollsLive(t)
  BY <1>1, <1>2 DEF PollsLive
<1>5. QED
  BY <1>1, <1>3, <1>4 DEF t

(* A connection that was given up is still there, with what it carries.    *)
GivenUp(c) == [c EXCEPT !.live = FALSE]

LEMMA GivenUpConnection ==
  ASSUME NEW c \in Connection
  PROVE  /\ GivenUp(c) \in Connection /\ GivenUp(c).op = c.op
         /\ c.op # "recv" => GivenUp(c).msg = c.msg
BY DEF GivenUp, Connection

LEMMA MarkFacts ==
  ASSUME NEW s \in Seq(Connection), NEW t, t = [i \in DOMAIN s |-> t[i]],
         \A i \in DOMAIN s : t[i] = s[i] \/ t[i] = GivenUp(s[i])
  PROVE  /\ t \in Seq(Connection)
         /\ \A op \in {"send", "_deliver"} : Msgs(t, op) = Msgs(s, op)
                                             /\ (InLine(s, op) => InLine(t, op))
         /\ (\A i \in DOMAIN s : s[i].op = "recv" => t[i] = s[i])
              => (PollsLive(s) => PollsLive(t))
<1>1. Len(s) \in Nat /\ DOMAIN s = 1 .. Len(s) /\ \A i \in 1 .. Len(s) : s[i] \in Connection
  BY LenProperties, ElementOfSeq
<1>2. ASSUME NEW i \in 1 .. Len(s)
      PROVE  t[i] \in Connection /\ t[i].op = s[i].op /\ (s[i].op # "recv" => t[i].msg = s[i].msg)
  BY <1>1, GivenUpConnection
<1>3. t \in Seq(Connection) /\ Len(t) = Len(s)
  BY <1>1, <1>2
<1>4. ASSUME NEW op \in {"send", "_deliver"}
      PROVE  Msgs(t, op) = Msgs(s, op) /\ (InLine(s, op) => InLine(t, op))
  BY <1>1, <1>2, <1>3 DEF Msgs, InLine
<1>5. (\A i \in 1 .. Len(s) : s[i].op = "recv" => t[i] = s[i]) => (PollsLive(s) => PollsLive(t))
  BY <1>1, <1>2, <1>3 DEF PollsLive
<1>6. QED
  BY <1>1, <1>3, <1>4, <1>5
---------------------------------------------------------------------------
(* Arrived messages: the next one goes to the end, a prefix stays ordered. *)
LEMMA OrderedAppend ==
  ASSUME NEW r \in Seq(Message), NEW b \in Seq(Message), NEW m \in Message, Ordered(r \o b),
         \A e \in Elements(r) \cup Elements(b) : e.from = m.from => e.k < m.k
  PROVE  /\ Ordered(r \o Append(b, m)) /\ Append(b, m) \in Seq(Message)
         /\ Elements(Append(b, m)) = Elements(b) \cup {m}
<1> DEFINE s == r \o b
           c == Append(b, m)
           t == r \o c
<1>1. /\ s \in Seq(Message) /\ Len(s) = Len(r) + Len(b) /\ Len(r) \in Nat /\ Len(b) \in Nat
      /\ \A i \in 1 .. Len(r) + Len(b) : s[i] = IF i <= Len(r) THEN r[i] ELSE b[i - Len(r)]
  BY ConcatProperties, LenProperties
<1>2. /\ c \in Seq(Message) /\ Len(c) = Len(b) + 1 /\ c[Len(b) + 1] = m
      /\ \A i \in 1 .. Len(b) : c[i] = b[i]
  BY AppendProperties
<1> HIDE DEF s, c
<1>3. /\ Len(t) = Len(r) + Len(c)
      /\ \A i \in 1 .. Len(r) + Len(c) : t[i] = IF i <= Len(r) THEN r[i] ELSE c[i - Len(r)]
  BY <1>2, ConcatProperties
<1> HIDE DEF t
<1>4. /\ Len(t) = Len(s) + 1 /\ Len(s) \in Nat /\ t[Len(s) + 1] = m
      /\ \A i \in 1 .. Len(s) : t[i] = s[i]
  <2>1. Len(t) = Len(s) + 1 /\ Len(s) \in Nat
    BY <1>1, <1>2, <1>3
  <2>2. t[Len(s) + 1] = m
    <3>1. PICK j : j = Len(s) + 1
      OBVIOUS
    <3>2. j \in 1 .. Len(r) + Len(c) /\ ~(j <= Len(r)) /\ j - Len(r) = Len(b) + 1
      BY <1>1, <1>2, <3>1
    <3>3. QED
      BY <1>2, <1>3, <3>1, <3>2
  <2>3. ASSUME NEW i \in 1 .. Len(s) PROVE t[i] = s[i]
    <3>1. i \in 1 .. Len(r) + Len(c) /\ i \in 1 .. Len(r) + Len(b)
      BY <1>1, <1>2
    <3>2. CASE i <= Len(r)
      BY <1>1, <1>3, <3>1, <3>2
    <3>3. CASE ~(i <= Len(r))
      <4>1. i - Len(r) \in 1 .. Len(b)
        BY <1>1, <3>1, <3>3
      <4>2. QED
        BY <1>1, <1>2, <1>3, <3>1, <3>3, <4>1
    <3>4. QED
      BY <3>2, <3>3
  <2>4. QED
    BY <2>1, <2>2, <2>3
<1>5. \A i \in 1 .. Len(s) : s[i] \in Elements(r) \cup Elements(b)
  BY <1>1 DEF Elements
<1>6. Ordered(t)
  <2> SUFFICES ASSUME NEW i \in 1 .. Len(t), NEW j \in 1 .. Len(t), i < j, t[i].from = t[j].from
               PROVE  t[i].k < t[j].k
    BY DEF Ordered
  <2>1. i \in 1 .. Len(s) /\ t[i] = s[i] /\ (j \in 1 .. Len(s) \/ j = Len(s) + 1)
    BY <1>4
  <2>2. CASE j \in 1 .. Len(s)
    BY <1>4, <2>1, <2>2 DEF Ordered, s
  <2>3. CASE j = Len(s) + 1
    BY <1>4, <1>5, <2>1, <2>3
  <2>4. QED
    BY <2>1, <2>2, <2>3
<1>7. Elements(c) = Elements(b) \cup {m}
  <2>1. 1 .. Len(c) = 1 .. Len(b) \cup {Len(b) + 1}
    BY <1>1, <1>2
  <2>2. QED
    BY <1>2, <2>1 DEF Elements
<1>8. QED
  BY <1>2, <1>6, <1>7 DEF c, t

LEMMA OrderedRecv ==
  ASSUME NEW r \in Seq(Message), NEW b \in Seq(Message), Ordered(r \o b)
  PROVE  /\ r \o b \in Seq(Message) /\ Elements(r \o b) = Elements(r) \cup Elements(b)
         /\ Ordered((r \o b) \o <<>>) /\ Ordered(r \o <<>>)
         /\ Elements(<<>>) = {}
<1> DEFINE s == r \o b
<1>1. /\ s \in Seq(Message) /\ Len(s) = Len(r) + Len(b) /\ Len(r) \in Nat /\ Len(b) \in Nat
      /\ \A i \in 1 .. Len(r) + Len(b) : s[i] = IF i <= Len(r) THEN r[i] ELSE b[i - Len(r)]
  BY ConcatProperties, LenProperties
<1> HIDE DEF s
<1>2. s \o <<>> = s /\ r \o <<>> = r
  BY <1>1, ConcatEmptySeq
<1>3. Ordered(r)
  BY <1>1 DEF Ordered, s
<1>4. Elements(s) = Elements(r) \cup Elements(b)
  <2>1. ASSUME NEW i \in 1 .. Len(b) PROVE b[i] \in Elements(s)
    <3>1. PICK j : j = i + Len(r)
      OBVIOUS
    <3>2. j \in 1 .. Len(s) /\ ~(j <= Len(r)) /\ j - Len(r) = i
      BY <1>1, <3>1
    <3>3. s[j] = b[i]
      BY <1>1, <3>2
    <3>4. QED
      BY <3>2, <3>3 DEF Elements
  <2>2. ASSUME NEW i \in 1 .. Len(r) PROVE r[i] \in Elements(s)
    <3>1. i \in 1 .. Len(s) /\ s[i] = r[i]
      BY <1>1
    <3>2. QED
      BY <3>1 DEF Elements
  <2>3. ASSUME NEW i \in 1 .. Len(s) PROVE s[i] \in Elements(r) \cup Elements(b)
    <3>1. CASE i <= Len(r)
      BY <1>1, <3>1 DEF Elements
    <3>2. CASE ~(i <= Len(r))
      <4>1. PICK j : j = i - Len(r)
        OBVIOUS
      <4>2. j \in 1 .. Len(b) /\ s[i] = b[j]
        BY <1>1, <3>2, <4>1
      <4>3. QED
        BY <4>2 DEF Elements
    <3>3. QED
      BY <3>1, <3>2
  <2>4. QED
    BY <2>1, <2>2, <2>3 DEF Elements
<1>5. Elements(<<>>) = {}
  BY DEF Elements
<1>6. QED
  BY <1>1, <1>2, <1>3, <1>4, <1>5 DEF s
---------------------------------------------------------------------------
LEMMA NoMessageIsNone == NoMessage \notin Message
BY DEF NoMessage, Message

LEMMA MessageFields ==
  ASSUME NEW m \in Message
  PROVE  m.from \in Nodes /\ m.to \in Nodes /\ m.from # m.to /\ m.k \in Nat
BY DEF Message

LEMMA MsgsType ==
  ASSUME NEW s \in Seq(Connection)
  PROVE  Msgs(s, "send") \subseteq Message /\ Msgs(s, "_deliver") \subseteq Message
<1>1. \A i \in 1 .. Len(s) : s[i] \in Connection
  BY ElementOfSeq
<1>2. \A c \in Connection : c.op # "recv" => c.msg \in Message
  BY DEF Connection
<1>3. QED
  BY <1>1, <1>2 DEF Msgs

LEMMA ElementsType ==
  ASSUME NEW s \in Seq(Message)
  PROVE  Elements(s) \subseteq Message /\ ToSet(s) = Elements(s)
BY ElementOfSeq, LenProperties DEF Elements, ToSet

LEMMA Stages ==
  ASSUME AxlTypes, NEW n \in Nodes
  PROVE  /\ Sending(n) \subseteq Message /\ Delivering(n) \subseteq Message
         /\ Got(n) \subseteq Message
         /\ Got(n) = ToSet(received[n]) \cup ToSet(inbox[n])
<1>1. backlog[n] \in Seq(Connection) /\ received[n] \in Seq(Message) /\ inbox[n] \in Seq(Message)
  BY DEF AxlTypes
<1>2. QED
  BY <1>1, MsgsType, ElementsType DEF Sending, Delivering, Got

(* The answer to a send changes what its sender knows, if it still waits.  *)
LEMMA AnswerFacts ==
  ASSUME AxlTypes, NEW m \in Message, NEW result \in {"ok", "failed"}, answer(m, result)
  PROVE  /\ outcome' \in [Message -> {"unsent", "pending", "ok", "failed"}]
         /\ \A e \in Message : Sent(e)' <=> Sent(e)
         /\ \A e \in Message : outcome'[e] = "ok" => outcome[e] = "ok" \/ (e = m /\ result = "ok")
BY DEF AxlTypes, answer, Sent

(* A step that sends nothing and lets nothing get ahead.                   *)
LEMMA QuietStep ==
  ASSUME AxlInv, AxlTypes', \A m \in Message : Sent(m)' <=> Sent(m),
         \A n \in Nodes : /\ Sending(n)' \subseteq Sending(n)
                          /\ Delivering(n)' \subseteq Delivering(n)
                          /\ Got(n)' \subseteq Got(n)
                          /\ InLine(backlog[n], "send")' /\ InLine(backlog[n], "_deliver")'
                          /\ Ordered(received[n] \o inbox[n])',
         \A m \in lost' : Sent(m)
  PROVE  Routed' /\ SentInOrder' /\ Staged'
<1>1. Routed'
  <2>1. ASSUME NEW n \in Nodes, NEW m \in Message PROVE Sent(m) => Sent(m)'
    OBVIOUS
  <2>2. lost' \subseteq Message
    BY DEF AxlTypes
  <2>3. QED
    BY <2>2, Stages DEF AxlInv, Routed
<1>2. SentInOrder'
  BY DEF AxlInv, SentInOrder
<1>3. Staged'
  BY DEF AxlInv, Staged, Before
<1>4. QED
  BY <1>1, <1>2, <1>3

(* Answers as far as they are not news.                                    *)
LEMMA AnswersKept ==
  ASSUME AxlInv, AxlTypes', lost' = lost, timeouts' \in {timeouts, timeouts + 1},
         \A n \in Nodes : Got(n) \subseteq Got(n)',
         \A m \in Message : outcome'[m] = "ok" => outcome[m] = "ok" \/ \E n \in Nodes : m \in Got(n)',
         timeouts' = timeouts =>
           \A n \in Nodes : PollsLive(backlog[n]) => PollsLive(backlog[n])'
  PROVE  Answers'
<1>1. timeouts \in Nat /\ timeouts' \in Nat
  BY AxlAssumption DEF AxlInv, AxlTypes
<1>2. Arrived = lost \cup UNION {Got(n) : n \in Nodes}
  <2>1. \A n \in Nodes : Got(n) = ToSet(received[n]) \cup ToSet(inbox[n])
    BY Stages DEF AxlInv
  <2>2. QED
    BY <2>1 DEF Arrived
<1>3. Arrived' = lost' \cup UNION {Got(n)' : n \in Nodes}
  <2>1. \A n \in Nodes : Got(n)' = ToSet(received'[n]) \cup ToSet(inbox'[n])
    <3>1. \A n \in Nodes : received'[n] \in Seq(Message) /\ inbox'[n] \in Seq(Message)
      BY DEF AxlTypes
    <3>2. QED
      BY <3>1, ElementsType DEF Got
  <2>2. QED
    BY <2>1 DEF Arrived
<1>4. \A m \in Message : outcome'[m] = "ok" => m \in Arrived'
  <2> SUFFICES ASSUME NEW m \in Message, outcome'[m] = "ok" PROVE m \in Arrived'
    OBVIOUS
  <2>1. CASE outcome[m] = "ok"
    <3>1. m \in Arrived
      BY <2>1 DEF AxlInv, Answers
    <3>2. QED
      BY <1>2, <1>3, <3>1
  <2>2. CASE \E n \in Nodes : m \in Got(n)'
    BY <1>3, <2>2
  <2>3. QED
    BY <2>1, <2>2
<1>5. lost' # {} => timeouts' > 0
  BY <1>1 DEF AxlInv, Answers
<1>6. timeouts' = 0 => \A n \in Nodes : PollsLive(backlog[n])'
  BY <1>1 DEF AxlInv, Answers
<1>7. QED
  BY <1>4, <1>5, <1>6 DEF Answers
---------------------------------------------------------------------------
(* A step at one backlog that lets nothing get ahead.                      *)
LEMMA QuietAt ==
  ASSUME AxlInv, AxlTypes', NEW n \in Nodes,
         \A x \in Nodes \ {n} : backlog'[x] = backlog[x],
         \A op \in {"send", "_deliver"} : /\ Msgs(backlog'[n], op) \subseteq Msgs(backlog[n], op)
                                          /\ InLine(backlog[n], op) => InLine(backlog'[n], op),
         \A m \in Message : Sent(m)' <=> Sent(m), UNCHANGED <<received, inbox, lost>>
  PROVE  Routed' /\ SentInOrder' /\ Staged'
<1>1. ASSUME NEW x \in Nodes
      PROVE  /\ Sending(x)' \subseteq Sending(x)
             /\ Delivering(x)' \subseteq Delivering(x)
             /\ Got(x)' \subseteq Got(x)
             /\ InLine(backlog[x], "send")' /\ InLine(backlog[x], "_deliver")'
             /\ Ordered(received[x] \o inbox[x])'
  <2>1. /\ InLine(backlog[x], "send") /\ InLine(backlog[x], "_deliver")
        /\ Ordered(received[x] \o inbox[x])
    BY DEF AxlInv, Staged
  <2>2. Got(x)' = Got(x) /\ Ordered(received[x] \o inbox[x])'
    BY <2>1 DEF Got
  <2>3. \A op \in {"send", "_deliver"} : /\ Msgs(backlog'[x], op) \subseteq Msgs(backlog[x], op)
                                         /\ InLine(backlog[x], op) => InLine(backlog'[x], op)
    OBVIOUS
  <2>4. QED
    BY <2>1, <2>2, <2>3 DEF Sending, Delivering
<1>2. \A m \in lost' : Sent(m)
  BY DEF AxlInv, Routed
<1>3. QED
  BY <1>1, <1>2, QuietStep

(* Announcements touch nothing of the messages.                            *)
LEMMA AnnounceKeepsInv ==
  ASSUME AxlInv, NEW n \in Nodes, NEW m \in Nodes, Announce(n, m) \/ AnnounceOnce(n, m)
  PROVE  AxlInv'
<1>1. UNCHANGED <<backlog, serving, inbox, received, outcome, polling, timeouts, lost>>
  BY DEF Announce, AnnounceOnce
<1>2. peers' \in [Nodes -> SUBSET Nodes] /\ remaining' \in [Nodes -> SUBSET Nodes]
      /\ announcing' \in [Nodes -> SUBSET Nodes]
  <2>1. peers \in [Nodes -> SUBSET Nodes] /\ remaining \in [Nodes -> SUBSET Nodes]
        /\ announcing \in [Nodes -> SUBSET Nodes]
    BY DEF AxlInv, AxlTypes
  <2>2. CASE Announce(n, m)
    BY <2>1, <2>2 DEF Announce, register
  <2>3. CASE AnnounceOnce(n, m)
    <3>1. peers' = peers \/ peers' = [peers EXCEPT ![m] = @ \cup {n}]
      BY <2>3 DEF AnnounceOnce
    <3>2. remaining' = remaining
      BY <2>3 DEF AnnounceOnce
    <3>3. PICK without \in [Nodes -> SUBSET Nodes] : without = [announcing EXCEPT ![n] = @ \ {m}]
      BY <2>1
    <3>4. announcing' = without \/ announcing' = [without EXCEPT ![m] = @ \cup {n}]
      BY <2>1, <2>3, <3>3 DEF AnnounceOnce
    <3>5. QED
      BY <2>1, <3>1, <3>2, <3>4
  <2>4. QED
    BY <2>2, <2>3
<1>3. AxlTypes'
  BY <1>1, <1>2 DEF AxlInv, AxlTypes
<1>4. Routed' /\ SentInOrder' /\ Staged'
  <2>1. \A x \in Nodes : backlog'[x] = backlog[x]
    BY <1>1
  <2>2. \A o \in {"send", "_deliver"} : /\ Msgs(backlog'[n], o) \subseteq Msgs(backlog[n], o)
                                        /\ InLine(backlog[n], o) => InLine(backlog'[n], o)
    BY <2>1
  <2>3. \A e \in Message : Sent(e)' <=> Sent(e)
    BY <1>1 DEF Sent
  <2>4. QED
    BY <1>1, <1>3, <2>1, <2>2, <2>3, QuietAt
<1>5. Answers'
  BY <1>1 DEF AxlInv, Answers, Arrived
<1>6. QED
  BY <1>3, <1>4, <1>5 DEF AxlInv

LEMMA PollKeepsInv ==
  ASSUME AxlInv, NEW n \in Nodes, Poll(n) PROVE AxlInv'
<1> DEFINE c == [op |-> "recv", live |-> TRUE]
<1>1. /\ backlog' = [backlog EXCEPT ![n] = Append(backlog[n], c)]
      /\ polling' = [polling EXCEPT ![n] = TRUE]
      /\ UNCHANGED <<peers, remaining, announcing, serving, inbox, received, outcome,
                     timeouts, lost>>
  BY DEF Poll, connect
<1>2. c \in Connection /\ c.op = "recv" /\ c.live /\ backlog[n] \in Seq(Connection)
  BY DEF Connection, AxlInv, AxlTypes
<1> HIDE DEF c
<1>3. /\ Append(backlog[n], c) \in Seq(Connection)
      /\ \A op \in {"send", "_deliver"} :
           /\ Msgs(Append(backlog[n], c), op) = Msgs(backlog[n], op)
           /\ InLine(backlog[n], op) => InLine(Append(backlog[n], c), op)
      /\ PollsLive(backlog[n]) => PollsLive(Append(backlog[n], c))
  BY <1>2, AppendFacts
<1>4. AxlTypes'
  BY <1>1, <1>3 DEF AxlInv, AxlTypes
<1>5. backlog'[n] = Append(backlog[n], c) /\ \A x \in Nodes \ {n} : backlog'[x] = backlog[x]
  BY <1>1 DEF AxlInv, AxlTypes
<1>6. Routed' /\ SentInOrder' /\ Staged'
  BY <1>1, <1>3, <1>4, <1>5, QuietAt DEF Sent
<1>7. Answers'
  <2>1. \A x \in Nodes : PollsLive(backlog[x]) => PollsLive(backlog[x])'
    BY <1>3, <1>5
  <2>2. \A x \in Nodes : Got(x)' = Got(x)
    BY <1>1 DEF Got
  <2>3. timeouts' \in {timeouts, timeouts + 1} /\ lost' = lost /\ outcome' = outcome
    BY <1>1
  <2>4. QED
    BY <1>4, <2>1, <2>2, <2>3, AnswersKept
<1>8. QED
  BY <1>4, <1>6, <1>7 DEF AxlInv

(* A call given up: its connections are marked, nothing else moves.        *)
LEMMA HangUpFacts ==
  ASSUME AxlTypes, NEW n \in Nodes, NEW op \in {"send", "recv"}, hangUp(n, op)
  PROVE  /\ backlog' \in [Nodes -> Seq(Connection)]
         /\ \A x \in Nodes \ {n} : backlog'[x] = backlog[x]
         /\ \A o \in {"send", "_deliver"} : /\ Msgs(backlog'[n], o) = Msgs(backlog[n], o)
                                            /\ InLine(backlog[n], o) => InLine(backlog'[n], o)
<1> DEFINE s == backlog[n]
           t == [i \in DOMAIN s |-> IF s[i].op = op THEN GivenUp(s[i]) ELSE s[i]]
<1>1. backlog' = [backlog EXCEPT ![n] = t]
  BY DEF hangUp, GivenUp
<1>2. s \in Seq(Connection)
  BY DEF AxlTypes
<1>3. t = [i \in DOMAIN s |-> t[i]] /\ \A i \in DOMAIN s : t[i] = s[i] \/ t[i] = GivenUp(s[i])
  OBVIOUS
<1> HIDE DEF t
<1>4. /\ t \in Seq(Connection)
      /\ \A o \in {"send", "_deliver"} : Msgs(t, o) = Msgs(s, o)
                                         /\ (InLine(s, o) => InLine(t, o))
  BY <1>2, <1>3, MarkFacts
<1>5. QED
  BY <1>1, <1>4 DEF AxlTypes

LEMMA TimeoutCounts ==
  ASSUME AxlTypes, Timeout
  PROVE  timeouts' \in 0 .. MaxTimeouts /\ timeouts' = timeouts + 1 /\ timeouts' # timeouts
BY AxlAssumption DEF AxlTypes, Timeout

LEMMA TimeoutKeepsInv ==
  ASSUME AxlInv, NEW n \in Nodes, PollTimeout(n) \/ SendTimeout(n) PROVE AxlInv'
<1>1. PICK op \in {"send", "recv"} : hangUp(n, op)
  BY DEF PollTimeout, SendTimeout
<1>2. /\ Timeout
      /\ UNCHANGED <<peers, remaining, announcing, serving, inbox, received, lost>>
  BY DEF PollTimeout, SendTimeout
<1>3. /\ timeouts' \in 0 .. MaxTimeouts /\ timeouts' \in {timeouts, timeouts + 1}
      /\ timeouts' # timeouts
  BY <1>2, TimeoutCounts DEF AxlInv
<1>4. /\ backlog' \in [Nodes -> Seq(Connection)]
      /\ \A x \in Nodes \ {n} : backlog'[x] = backlog[x]
      /\ \A o \in {"send", "_deliver"} : /\ Msgs(backlog'[n], o) = Msgs(backlog[n], o)
                                         /\ InLine(backlog[n], o) => InLine(backlog'[n], o)
  BY <1>1, HangUpFacts DEF AxlInv
<1>5. /\ outcome' \in [Message -> {"unsent", "pending", "ok", "failed"}]
      /\ polling' \in [Nodes -> BOOLEAN]
      /\ \A m \in Message : Sent(m)' <=> Sent(m)
      /\ \A m \in Message : outcome'[m] = "ok" => outcome[m] = "ok"
  BY DEF PollTimeout, SendTimeout, AxlInv, AxlTypes, Sent
<1>6. AxlTypes'
  BY <1>2, <1>3, <1>4, <1>5 DEF AxlInv, AxlTypes
<1>7. Routed' /\ SentInOrder' /\ Staged'
  BY <1>2, <1>4, <1>5, <1>6, QuietAt
<1>8. Answers'
  <2>1. \A x \in Nodes : Got(x)' = Got(x)
    BY <1>2 DEF Got
  <2>2. lost' = lost
    BY <1>2
  <2>3. QED
    BY <1>3, <1>5, <1>6, <2>1, <2>2, AnswersKept
<1>9. QED
  BY <1>6, <1>7, <1>8 DEF AxlInv
---------------------------------------------------------------------------
(* The next message is later than all that were sent before it.            *)
LEMMA SendKeepsInv ==
  ASSUME AxlInv, NEW n \in Nodes, Send(n) PROVE AxlInv'
<1>1. PICK m \in Message :
        /\ m.from = n /\ outcome[m] = "unsent"
        /\ \A e \in Message : e.from = n /\ e.to = m.to /\ e.k < m.k => outcome[e] # "unsent"
        /\ outcome' = [outcome EXCEPT ![m] = "pending"]
        /\ connect(n, [op |-> "send", msg |-> m, live |-> TRUE])
  BY DEF Send
<1>2. UNCHANGED <<peers, remaining, announcing, serving, inbox, received, polling, timeouts, lost>>
  BY DEF Send
<1> DEFINE c == [op |-> "send", msg |-> m, live |-> TRUE]
           q == Append(backlog[n], c)
<1>3. c \in Connection /\ c.op = "send" /\ c.msg = m /\ backlog[n] \in Seq(Connection)
  BY DEF Connection, AxlInv, AxlTypes
<1>4. backlog' = [backlog EXCEPT ![n] = q]
  BY <1>1 DEF connect
<1> HIDE DEF c
<1>5. /\ \A e \in Message : Sent(e) => Sent(e)'
      /\ \A e \in Message \ {m} : Sent(e)' <=> Sent(e)
      /\ Sent(m)' /\ ~Sent(m)
      /\ \A e \in Message : outcome'[e] = "ok" => outcome[e] = "ok"
      /\ outcome' \in [Message -> {"unsent", "pending", "ok", "failed"}]
  BY <1>1 DEF AxlInv, AxlTypes, Sent
<1>6. \A e \in Message : Sent(e) => Precedes(e, m)
  <2> SUFFICES ASSUME NEW e \in Message, Sent(e), e.from = m.from, e.to = m.to PROVE e.k < m.k
    BY DEF Precedes
  <2>1. ~(m.k < e.k)
    BY <1>5 DEF AxlInv, SentInOrder
  <2>2. e.k # m.k
    <3>1. ASSUME e.k = m.k PROVE e = m
      BY <3>1 DEF Message
    <3>2. QED
      BY <1>5, <3>1
  <2>3. QED
    BY <2>1, <2>2, MessageFields
<1>7. /\ q \in Seq(Connection)
      /\ Msgs(q, "send") = Sending(n) \cup {m} /\ Msgs(q, "_deliver") = Delivering(n)
      /\ InLine(backlog[n], "_deliver") => InLine(q, "_deliver")
      /\ InLine(backlog[n], "send") /\ Before(Sending(n), {m}) => InLine(q, "send")
      /\ PollsLive(backlog[n]) => PollsLive(q)
  <2>1. /\ q \in Seq(Connection)
        /\ \A op : /\ Msgs(q, op) = IF c.op = op THEN Msgs(backlog[n], op) \cup {c.msg}
                                                ELSE Msgs(backlog[n], op)
                   /\ InLine(backlog[n], op) /\ (c.op = op => Before(Msgs(backlog[n], op), {c.msg}))
                        => InLine(q, op)
        /\ PollsLive(backlog[n]) /\ (c.op = "recv" => c.live) => PollsLive(q)
    BY <1>3, AppendFacts
  <2> HIDE DEF q
  <2>2. QED
    BY <1>3, <2>1 DEF Sending, Delivering
<1> HIDE DEF q
<1>8. AxlTypes'
  BY <1>2, <1>4, <1>5, <1>7 DEF AxlInv, AxlTypes
<1>9. backlog'[n] = q /\ \A x \in Nodes \ {n} : backlog'[x] = backlog[x]
  BY <1>4 DEF AxlInv, AxlTypes
<1>10. /\ Sending(n)' = Sending(n) \cup {m}
       /\ \A x \in Nodes \ {n} : Sending(x)' = Sending(x)
       /\ \A x \in Nodes : Delivering(x)' = Delivering(x) /\ Got(x)' = Got(x)
  BY <1>2, <1>7, <1>9 DEF Sending, Delivering, Got
<1>11. \A x \in Nodes : /\ \A e \in Sending(x) : e \in Message /\ Sent(e) /\ e.from = x
                        /\ \A e \in Delivering(x) : e \in Message /\ Sent(e) /\ e.to = x
                        /\ \A e \in Got(x) : e \in Message /\ Sent(e) /\ e.to = x
  BY Stages DEF AxlInv, Routed
<1>12. Routed'
  <2>1. \A e \in lost' : Sent(e)'
    BY <1>2, <1>5 DEF AxlInv, AxlTypes, Routed
  <2>2. QED
    BY <1>1, <1>5, <1>10, <1>11, <2>1 DEF Routed
<1>13. SentInOrder'
  <2> SUFFICES ASSUME NEW e \in Message, NEW g \in Message, e.from = g.from, e.to = g.to,
                      e.k < g.k, Sent(g)'
               PROVE  Sent(e)'
    BY DEF SentInOrder
  <2>1. CASE g = m
    BY <1>1, <1>5, <2>1 DEF Sent
  <2>2. CASE g # m
    BY <1>5, <2>2 DEF AxlInv, SentInOrder
  <2>3. QED
    BY <2>1, <2>2
<1>14. Staged'
  <2>1. Before(Sending(n), {m})
    BY <1>6, <1>11 DEF Before
  <2>2. ASSUME NEW x \in Nodes
        PROVE  InLine(backlog[x], "send")' /\ InLine(backlog[x], "_deliver")'
               /\ Ordered(received[x] \o inbox[x])' /\ Before(Got(x), Delivering(x))'
    <3>1. InLine(backlog[x], "send") /\ InLine(backlog[x], "_deliver")
          /\ Ordered(received[x] \o inbox[x]) /\ Before(Got(x), Delivering(x))
      BY DEF AxlInv, Staged
    <3>2. InLine(backlog'[x], "send") /\ InLine(backlog'[x], "_deliver")
      BY <1>7, <1>9, <2>1, <3>1
    <3>3. QED
      BY <1>2, <1>10, <3>1, <3>2
  <2>3. ASSUME NEW y \in Nodes, NEW x \in Nodes
        PROVE  Before(Got(x) \cup Delivering(x), Sending(y))'
    <3>1. Before(Got(x) \cup Delivering(x), Sending(y))
      BY DEF AxlInv, Staged
    <3>2. Before(Got(x) \cup Delivering(x), {m})
      BY <1>6, <1>11 DEF Before
    <3>3. QED
      BY <1>10, <3>1, <3>2 DEF Before
  <2>4. QED
    BY <2>2, <2>3 DEF Staged
<1>15. Answers'
  <2>1. \A x \in Nodes : PollsLive(backlog[x]) => PollsLive(backlog[x])'
    BY <1>7, <1>9
  <2>2. timeouts' \in {timeouts, timeouts + 1} /\ lost' = lost
    BY <1>2
  <2>3. \A x \in Nodes : Got(x) \subseteq Got(x)'
    BY <1>10
  <2>4. QED
    BY <1>5, <1>8, <2>1, <2>2, <2>3, AnswersKept
<1>16. QED
  BY <1>8, <1>12, <1>13, <1>14, <1>15 DEF AxlInv

(* The forward gives up: the delivery stays in the peer's backlog.         *)
LEMMA ForwardTimeoutKeepsInv ==
  ASSUME AxlInv, NEW n \in Nodes, ForwardTimeout(n) PROVE AxlInv'
<1>1. PICK m : m = serving[n]
  OBVIOUS
<1>2. m \in Message /\ m.to \in Nodes
  BY <1>1, MessageFields DEF ForwardTimeout, Free, AxlInv, AxlTypes
<1> DEFINE x == m.to
           s == backlog[x]
           t == [i \in DOMAIN s |-> IF s[i].op = "_deliver" /\ s[i].msg = m
                                    THEN GivenUp(s[i]) ELSE s[i]]
<1>3. /\ serving' = [serving EXCEPT ![n] = NoMessage]
      /\ backlog' = [backlog EXCEPT ![x] = t]
      /\ answer(m, "failed")
      /\ UNCHANGED <<peers, remaining, announcing, inbox, received, polling, timeouts, lost>>
  BY <1>1 DEF ForwardTimeout, GivenUp
<1>4. /\ outcome' \in [Message -> {"unsent", "pending", "ok", "failed"}]
      /\ \A e \in Message : Sent(e)' <=> Sent(e)
      /\ \A e \in Message : outcome'[e] = "ok" => outcome[e] = "ok"
  BY <1>2, <1>3, AnswerFacts DEF AxlInv
<1>5. s \in Seq(Connection)
  BY <1>2 DEF AxlInv, AxlTypes
<1>6. /\ t = [i \in DOMAIN s |-> t[i]]
      /\ \A i \in DOMAIN s : t[i] = s[i] \/ t[i] = GivenUp(s[i])
      /\ \A i \in DOMAIN s : s[i].op = "recv" => t[i] = s[i]
  OBVIOUS
<1> HIDE DEF t
<1>7. /\ t \in Seq(Connection)
      /\ \A o \in {"send", "_deliver"} : Msgs(t, o) = Msgs(s, o)
                                         /\ (InLine(s, o) => InLine(t, o))
      /\ PollsLive(s) => PollsLive(t)
  BY <1>5, <1>6, MarkFacts
<1>8. /\ backlog' \in [Nodes -> Seq(Connection)] /\ x \in Nodes /\ backlog'[x] = t
      /\ \A y \in Nodes \ {x} : backlog'[y] = backlog[y]
  BY <1>2, <1>3, <1>7 DEF AxlInv, AxlTypes
<1>9. AxlTypes'
  BY <1>3, <1>4, <1>8 DEF AxlInv, AxlTypes
<1>10. Routed' /\ SentInOrder' /\ Staged'
  <2>1. \A o \in {"send", "_deliver"} : /\ Msgs(backlog'[x], o) \subseteq Msgs(backlog[x], o)
                                        /\ InLine(backlog[x], o) => InLine(backlog'[x], o)
    BY <1>7, <1>8
  <2>2. UNCHANGED <<received, inbox, lost>>
    BY <1>3
  <2>3. QED
    BY <1>4, <1>8, <1>9, <2>1, <2>2, QuietAt
<1>11. Answers'
  <2>1. \A y \in Nodes : PollsLive(backlog[y]) => PollsLive(backlog[y])'
    BY <1>7, <1>8
  <2>2. timeouts' \in {timeouts, timeouts + 1} /\ lost' = lost
    BY <1>3
  <2>3. \A y \in Nodes : Got(y) \subseteq Got(y)'
    BY <1>3 DEF Got
  <2>4. QED
    BY <1>4, <1>9, <2>1, <2>2, <2>3, AnswersKept
<1>12. QED
  BY <1>9, <1>10, <1>11 DEF AxlInv
---------------------------------------------------------------------------
(* The connection a free node serves next.                                 *)
LEMMA ServesFacts ==
  ASSUME AxlInv, NEW n \in Nodes, NEW op \in {"send", "recv", "_deliver"}, Serves(n, op)
  PROVE  /\ backlog[n] \in Seq(Connection) /\ backlog[n] # <<>>
         /\ Tail(backlog[n]) \in Seq(Connection)
         /\ Head(backlog[n]) \in Connection /\ Head(backlog[n]).op = op
         /\ \A o : Msgs(Tail(backlog[n]), o) \subseteq Msgs(backlog[n], o)
                   /\ (InLine(backlog[n], o) => InLine(Tail(backlog[n]), o))
         /\ PollsLive(backlog[n]) => PollsLive(Tail(backlog[n]))
         /\ op = "recv" /\ PollsLive(backlog[n]) => Head(backlog[n]).live
         /\ op # "recv" => LET m == Head(backlog[n]).msg IN
              /\ m \in Message /\ m \in Msgs(backlog[n], op) /\ Sent(m)
              /\ InLine(backlog[n], op) => Before({m}, Msgs(Tail(backlog[n]), op))
              /\ op = "send" => m.from = n
              /\ op = "_deliver" => m.to = n
<1>1. backlog[n] \in Seq(Connection) /\ backlog[n] # <<>> /\ Head(backlog[n]).op = op
  BY DEF AxlInv, AxlTypes, Serves
<1> DEFINE s == backlog[n]
           c == Head(s)
           q == Tail(s)
<1>2. /\ q \in Seq(Connection) /\ c \in Connection
      /\ \A o : /\ Msgs(q, o) \subseteq Msgs(s, o)
                /\ c.op = o => c.msg \in Msgs(s, o)
                /\ InLine(s, o) => InLine(q, o)
                /\ InLine(s, o) /\ c.op = o => Before({c.msg}, Msgs(q, o))
      /\ PollsLive(s) => PollsLive(q) /\ (c.op = "recv" => c.live)
  BY <1>1, TailFacts
<1>3. ASSUME op # "recv"
      PROVE  /\ c.msg \in Message /\ c.msg \in Msgs(s, op) /\ Sent(c.msg)
             /\ InLine(s, op) => Before({c.msg}, Msgs(q, op))
             /\ op = "send" => c.msg.from = n
             /\ op = "_deliver" => c.msg.to = n
  <2>1. c.msg \in Msgs(s, op) /\ (InLine(s, op) => Before({c.msg}, Msgs(q, op)))
    BY <1>1, <1>2
  <2>2. CASE op = "send"
    BY <2>1, <2>2, Stages DEF AxlInv, Routed, Sending
  <2>3. CASE op = "_deliver"
    BY <2>1, <2>3, Stages DEF AxlInv, Routed, Delivering
  <2>4. QED
    BY <1>3, <2>1, <2>2, <2>3
<1> HIDE DEF s, c, q
<1>4. QED
  BY <1>1, <1>2, <1>3 DEF s, c, q

(* A forwarded message joins the line of its peer: behind what was sent    *)
(* before it, ahead of what is still at its sender's.                      *)
LEMMA HandleSendKeepsInv ==
  ASSUME AxlInv, NEW n \in Nodes, HandleSend(n) PROVE AxlInv'
<1>1. PICK m : m = Head(backlog[n]).msg
  OBVIOUS
<1>2. PICK q : q = Tail(backlog[n])
  OBVIOUS
<1>3. Serves(n, "send")
  BY DEF HandleSend
<1>4. /\ q \in Seq(Connection) /\ m \in Message /\ m \in Sending(n) /\ Sent(m)
      /\ m.from = n /\ m.to \in Nodes /\ m.to # n
      /\ \A o : Msgs(q, o) \subseteq Msgs(backlog[n], o) /\ (InLine(backlog[n], o) => InLine(q, o))
      /\ PollsLive(backlog[n]) => PollsLive(q)
      /\ InLine(backlog[n], "send") => Before({m}, Msgs(q, "send"))
  <2>1. /\ q \in Seq(Connection)
        /\ \A o : Msgs(q, o) \subseteq Msgs(backlog[n], o)
                  /\ (InLine(backlog[n], o) => InLine(q, o))
        /\ PollsLive(backlog[n]) => PollsLive(q)
    BY <1>2, <1>3, ServesFacts
  <2>2. /\ m \in Message /\ m \in Msgs(backlog[n], "send") /\ Sent(m) /\ m.from = n
        /\ InLine(backlog[n], "send") => Before({m}, Msgs(q, "send"))
    BY <1>1, <1>2, <1>3, ServesFacts
  <2>3. m.to \in Nodes /\ m.to # n
    BY <2>2, MessageFields
  <2>4. QED
    BY <2>1, <2>2, <2>3 DEF Sending
<1>5. UNCHANGED <<peers, remaining, announcing, inbox, received, polling, timeouts, lost>>
  BY DEF HandleSend
<1>6. timeouts' \in {timeouts, timeouts + 1} /\ lost' = lost
      /\ \A y \in Nodes : Got(y)' = Got(y)
  BY <1>5 DEF Got
<1>7. CASE m.to \notin peers[n]
  <2>1. /\ answer(m, "failed") /\ backlog' = [backlog EXCEPT ![n] = q] /\ serving' = serving
    BY <1>1, <1>2, <1>7 DEF HandleSend
  <2>2. /\ outcome' \in [Message -> {"unsent", "pending", "ok", "failed"}]
        /\ \A e \in Message : Sent(e)' <=> Sent(e)
        /\ \A e \in Message : outcome'[e] = "ok" => outcome[e] = "ok"
    BY <1>4, <2>1, AnswerFacts DEF AxlInv
  <2>3. AxlTypes'
    BY <1>4, <1>5, <2>1, <2>2 DEF AxlInv, AxlTypes
  <2>4. backlog'[n] = q /\ \A y \in Nodes \ {n} : backlog'[y] = backlog[y]
    BY <2>1 DEF AxlInv, AxlTypes
  <2>5. Routed' /\ SentInOrder' /\ Staged'
    BY <1>4, <1>5, <2>2, <2>3, <2>4, QuietAt
  <2>6. Answers'
    <3>1. \A y \in Nodes : PollsLive(backlog[y]) => PollsLive(backlog[y])'
      BY <1>4, <2>4
    <3>2. QED
      BY <1>6, <2>2, <2>3, <3>1, AnswersKept
  <2>7. QED
    BY <2>3, <2>5, <2>6 DEF AxlInv
<1>8. CASE m.to \in peers[n]
  <2> DEFINE d == [op |-> "_deliver", msg |-> m, live |-> TRUE]
             x == m.to
             p == Append(backlog[x], d)
  <2>1. /\ serving' = [serving EXCEPT ![n] = m] /\ outcome' = outcome
        /\ backlog' = [backlog EXCEPT ![n] = q, ![x] = p]
    BY <1>1, <1>2, <1>4, <1>8 DEF HandleSend, AxlInv, AxlTypes
  <2>2. d \in Connection /\ d.op = "_deliver" /\ d.msg = m /\ backlog[x] \in Seq(Connection)
    BY <1>4 DEF Connection, AxlInv, AxlTypes
  <2> HIDE DEF d
  <2>3. /\ p \in Seq(Connection)
        /\ \A o : /\ Msgs(p, o) = IF d.op = o THEN Msgs(backlog[x], o) \cup {d.msg}
                                              ELSE Msgs(backlog[x], o)
                  /\ InLine(backlog[x], o) /\ (d.op = o => Before(Msgs(backlog[x], o), {d.msg}))
                       => InLine(p, o)
        /\ PollsLive(backlog[x]) /\ (d.op = "recv" => d.live) => PollsLive(p)
    BY <2>2, AppendFacts
  <2> HIDE DEF p
  <2>4. /\ Msgs(p, "send") = Sending(x) /\ Msgs(p, "_deliver") = Delivering(x) \cup {m}
        /\ InLine(backlog[x], "send") => InLine(p, "send")
        /\ InLine(backlog[x], "_deliver") /\ Before(Delivering(x), {m}) => InLine(p, "_deliver")
        /\ PollsLive(backlog[x]) => PollsLive(p)
    BY <2>2, <2>3 DEF Sending, Delivering
  <2>5. /\ backlog' \in [Nodes -> Seq(Connection)]
        /\ backlog'[n] = q /\ backlog'[x] = p /\ x \in Nodes /\ x # n
        /\ \A y \in Nodes \ {n, x} : backlog'[y] = backlog[y]
    BY <1>4, <2>1, <2>3 DEF AxlInv, AxlTypes
  <2>6. AxlTypes'
    BY <1>4, <1>5, <2>1, <2>5 DEF AxlInv, AxlTypes
  <2>7. /\ \A y \in Nodes : Sending(y)' \subseteq Sending(y)
        /\ \A y \in Nodes \ {x} : Delivering(y)' \subseteq Delivering(y)
        /\ Delivering(x)' = Delivering(x) \cup {m}
        /\ Sending(n)' = Msgs(q, "send")
    BY <1>4, <2>4, <2>5 DEF Sending, Delivering
  <2>8. \A e \in Message : Sent(e)' <=> Sent(e)
    BY <2>1 DEF Sent
  <2>9. \A y \in Nodes : /\ \A e \in Sending(y) : e \in Message /\ Sent(e) /\ e.from = y
                         /\ \A e \in Delivering(y) : e \in Message /\ Sent(e) /\ e.to = y
                         /\ \A e \in Got(y) : e \in Message /\ Sent(e) /\ e.to = y
    BY Stages DEF AxlInv, Routed
  <2>10. Routed'
    <3>1. \A e \in lost' : Sent(e)'
      BY <1>5, <2>8 DEF AxlInv, AxlTypes, Routed
    <3>2. QED
      BY <1>4, <1>6, <2>7, <2>8, <2>9, <3>1 DEF Routed
  <2>11. SentInOrder'
    BY <2>8 DEF AxlInv, SentInOrder
  <2>12. /\ Before(Delivering(x), {m}) /\ Before(Got(x), {m})
         /\ \A y \in Nodes : Before({m}, Sending(y)')
    <3>1. Before(Delivering(x), {m}) /\ Before(Got(x), {m})
      BY <1>4 DEF AxlInv, Staged, Before
    <3>2. Before({m}, Sending(n)')
      BY <1>4, <2>7 DEF AxlInv, Staged
    <3>3. ASSUME NEW y \in Nodes \ {n} PROVE Before({m}, Sending(y)')
      BY <1>4, <2>7, <2>9 DEF Before, Precedes
    <3>4. QED
      BY <3>1, <3>2, <3>3
  <2>13. Staged'
    <3>1. ASSUME NEW y \in Nodes
          PROVE  InLine(backlog[y], "send")' /\ InLine(backlog[y], "_deliver")'
                 /\ Ordered(received[y] \o inbox[y])' /\ Before(Got(y), Delivering(y))'
      <4>1. InLine(backlog[y], "send") /\ InLine(backlog[y], "_deliver")
            /\ Ordered(received[y] \o inbox[y]) /\ Before(Got(y), Delivering(y))
        BY DEF AxlInv, Staged
      <4>2. InLine(backlog'[y], "send") /\ InLine(backlog'[y], "_deliver")
        <5>1. CASE y = n
          BY <1>4, <2>5, <4>1, <5>1
        <5>2. CASE y = x
          BY <2>4, <2>5, <2>12, <4>1, <5>2
        <5>3. CASE y \notin {n, x}
          BY <2>5, <4>1, <5>3
        <5>4. QED
          BY <5>1, <5>2, <5>3
      <4>3. Before(Got(y), Delivering(y))'
        BY <1>6, <2>7, <2>12, <4>1 DEF Before
      <4>4. QED
        BY <1>5, <4>1, <4>2, <4>3
    <3>2. ASSUME NEW y \in Nodes, NEW z \in Nodes
          PROVE  Before(Got(z) \cup Delivering(z), Sending(y))'
      <4>1. Before(Got(z) \cup Delivering(z), Sending(y))
        BY DEF AxlInv, Staged
      <4>2. QED
        BY <1>6, <2>7, <2>12, <4>1 DEF Before
    <3>3. QED
      BY <3>1, <3>2 DEF Staged
  <2>14. Answers'
    <3>1. \A y \in Nodes : PollsLive(backlog[y]) => PollsLive(backlog[y])'
      BY <1>4, <2>4, <2>5
    <3>2. \A e \in Message : outcome'[e] = "ok" => outcome[e] = "ok"
      BY <2>1
    <3>3. QED
      BY <1>6, <2>6, <3>1, <3>2, AnswersKept
  <2>15. QED
    BY <2>6, <2>10, <2>11, <2>13, <2>14 DEF AxlInv
<1>9. QED
  BY <1>7, <1>8

(* A delivered message is later than all that have arrived and earlier     *)
(* than all that are still on their way.                                   *)
LEMMA HandleDeliverKeepsInv ==
  ASSUME AxlInv, NEW n \in Nodes, HandleDeliver(n) PROVE AxlInv'
<1>1. PICK c : c = Head(backlog[n])
  OBVIOUS
<1>2. PICK m : m = c.msg
  OBVIOUS
<1>3. PICK q : q = Tail(backlog[n])
  OBVIOUS
<1>4. Serves(n, "_deliver")
  BY DEF HandleDeliver
<1>5. /\ q \in Seq(Connection)
      /\ \A o : Msgs(q, o) \subseteq Msgs(backlog[n], o)
                /\ (InLine(backlog[n], o) => InLine(q, o))
      /\ PollsLive(backlog[n]) => PollsLive(q)
  BY <1>3, <1>4, ServesFacts
<1>6. /\ m \in Message /\ m \in Msgs(backlog[n], "_deliver") /\ Sent(m) /\ m.to = n
      /\ InLine(backlog[n], "_deliver") => Before({m}, Msgs(q, "_deliver"))
  BY <1>1, <1>2, <1>3, <1>4, ServesFacts
<1>7. m.from \in Nodes /\ m.k \in Nat
  BY <1>6, MessageFields
<1>8. /\ inbox' = [inbox EXCEPT ![n] = Append(inbox[n], m)]
      /\ backlog' = [backlog EXCEPT ![n] = q]
      /\ UNCHANGED <<peers, remaining, announcing, received, polling, timeouts, lost>>
  BY <1>1, <1>2, <1>3 DEF HandleDeliver
<1>9. /\ serving' \in [Nodes -> Message \cup {NoMessage}]
      /\ outcome' \in [Message -> {"unsent", "pending", "ok", "failed"}]
      /\ \A e \in Message : Sent(e)' <=> Sent(e)
      /\ \A e \in Message : outcome'[e] = "ok" => outcome[e] = "ok" \/ e = m
  <2>1. CASE c.live
    <3>1. answer(m, "ok") /\ serving' = [serving EXCEPT ![m.from] = NoMessage]
      BY <1>1, <1>2, <2>1 DEF HandleDeliver
    <3>2. serving' \in [Nodes -> Message \cup {NoMessage}]
      BY <1>7, <3>1 DEF AxlInv, AxlTypes
    <3>3. QED
      BY <1>6, <3>1, <3>2, AnswerFacts DEF AxlInv
  <2>2. CASE ~c.live
    <3>1. serving' = serving /\ outcome' = outcome
      BY <1>1, <2>2 DEF HandleDeliver
    <3>2. QED
      BY <3>1 DEF AxlInv, AxlTypes, Sent
  <2>3. QED
    BY <2>1, <2>2
<1>10. /\ received[n] \in Seq(Message) /\ inbox[n] \in Seq(Message)
       /\ Ordered(received[n] \o inbox[n])
       /\ \A e \in Elements(received[n]) \cup Elements(inbox[n]) :
            e.from = m.from => e.k < m.k
  <2>1. Before(Got(n), Delivering(n)) /\ Ordered(received[n] \o inbox[n])
        /\ received[n] \in Seq(Message) /\ inbox[n] \in Seq(Message)
    BY DEF AxlInv, AxlTypes, Staged
  <2>2. \A e \in Got(n) : e.to = n /\ Precedes(e, m)
    BY <1>6, <2>1 DEF AxlInv, Routed, Before, Delivering
  <2>3. QED
    BY <1>6, <2>1, <2>2 DEF Got, Precedes
<1>11. /\ Ordered(received[n] \o Append(inbox[n], m)) /\ Append(inbox[n], m) \in Seq(Message)
       /\ Elements(Append(inbox[n], m)) = Elements(inbox[n]) \cup {m}
  BY <1>6, <1>10, OrderedAppend
<1>12. /\ inbox' \in [Nodes -> Seq(Message)] /\ inbox'[n] = Append(inbox[n], m)
       /\ \A y \in Nodes \ {n} : inbox'[y] = inbox[y]
       /\ backlog' \in [Nodes -> Seq(Connection)] /\ backlog'[n] = q
       /\ \A y \in Nodes \ {n} : backlog'[y] = backlog[y]
       /\ received' = received
  <2>1. inbox \in [Nodes -> Seq(Message)] /\ backlog \in [Nodes -> Seq(Connection)]
    BY DEF AxlInv, AxlTypes
  <2>2. PICK b \in Seq(Message) : b = Append(inbox[n], m)
    BY <1>11
  <2>3. QED
    BY <1>5, <1>8, <2>1, <2>2
<1>13. AxlTypes'
  BY <1>8, <1>9, <1>12 DEF AxlInv, AxlTypes
<1>14. /\ \A y \in Nodes : Sending(y)' \subseteq Sending(y)
       /\ \A y \in Nodes : Delivering(y)' \subseteq Delivering(y)
       /\ Delivering(n)' = Msgs(q, "_deliver")
       /\ Got(n)' = Got(n) \cup {m}
       /\ \A y \in Nodes \ {n} : Got(y)' = Got(y)
  BY <1>5, <1>11, <1>12 DEF Sending, Delivering, Got
<1>15. \A y \in Nodes : /\ \A e \in Sending(y) : e \in Message /\ Sent(e) /\ e.from = y
                        /\ \A e \in Delivering(y) : e \in Message /\ Sent(e) /\ e.to = y
                        /\ \A e \in Got(y) : e \in Message /\ Sent(e) /\ e.to = y
  BY Stages DEF AxlInv, Routed
<1>16. Routed'
  <2>1. \A e \in lost' : Sent(e)'
    BY <1>8, <1>9 DEF AxlInv, AxlTypes, Routed
  <2>2. QED
    BY <1>6, <1>9, <1>14, <1>15, <2>1 DEF Routed
<1>17. SentInOrder'
  BY <1>9 DEF AxlInv, SentInOrder
<1>18. Before({m}, Delivering(n)') /\ \A y \in Nodes : Before({m}, Sending(y)')
  <2>1. Before({m}, Delivering(n)')
    BY <1>6, <1>14 DEF AxlInv, Staged
  <2>2. ASSUME NEW y \in Nodes PROVE Before({m}, Sending(y)')
    BY <1>6, <1>14 DEF AxlInv, Staged, Before, Delivering
  <2>3. QED
    BY <2>1, <2>2
<1>19. Staged'
  <2>1. ASSUME NEW y \in Nodes
        PROVE  InLine(backlog[y], "send")' /\ InLine(backlog[y], "_deliver")'
               /\ Ordered(received[y] \o inbox[y])' /\ Before(Got(y), Delivering(y))'
    <3>1. InLine(backlog[y], "send") /\ InLine(backlog[y], "_deliver")
          /\ Ordered(received[y] \o inbox[y]) /\ Before(Got(y), Delivering(y))
      BY DEF AxlInv, Staged
    <3>2. InLine(backlog'[y], "send") /\ InLine(backlog'[y], "_deliver")
      BY <1>5, <1>12, <3>1
    <3>3. Ordered(received[y] \o inbox[y])'
      BY <1>11, <1>12, <3>1
    <3>4. Before(Got(y), Delivering(y))'
      BY <1>14, <1>18, <3>1 DEF Before
    <3>5. QED
      BY <3>2, <3>3, <3>4
  <2>2. ASSUME NEW y \in Nodes, NEW z \in Nodes
        PROVE  Before(Got(z) \cup Delivering(z), Sending(y))'
    <3>1. Before(Got(z) \cup Delivering(z), Sending(y))
      BY DEF AxlInv, Staged
    <3>2. QED
      BY <1>14, <1>18, <3>1 DEF Before
  <2>3. QED
    BY <2>1, <2>2 DEF Staged
<1>20. Answers'
  <2>1. \A y \in Nodes : PollsLive(backlog[y]) => PollsLive(backlog[y])'
    BY <1>5, <1>12
  <2>2. \A e \in Message :
          outcome'[e] = "ok" => outcome[e] = "ok" \/ \E y \in Nodes : e \in Got(y)'
    BY <1>9, <1>14
  <2>3. timeouts' \in {timeouts, timeouts + 1} /\ lost' = lost
        /\ \A y \in Nodes : Got(y) \subseteq Got(y)'
    BY <1>8, <1>14
  <2>4. QED
    BY <1>13, <2>1, <2>2, <2>3, AnswersKept
<1>21. QED
  BY <1>13, <1>16, <1>17, <1>19, <1>20 DEF AxlInv

(* The inbox goes to the client, or is lost with the answer to a poll that *)
(* was given up.                                                           *)
LEMMA HandleRecvKeepsInv ==
  ASSUME AxlInv, NEW n \in Nodes, HandleRecv(n) PROVE AxlInv'
<1>1. PICK c : c = Head(backlog[n])
  OBVIOUS
<1>2. PICK q : q = Tail(backlog[n])
  OBVIOUS
<1>3. PICK r : r = received[n]
  OBVIOUS
<1>4. PICK b : b = inbox[n]
  OBVIOUS
<1>5. Serves(n, "recv")
  BY DEF HandleRecv
<1>6. /\ q \in Seq(Connection)
      /\ \A o : Msgs(q, o) \subseteq Msgs(backlog[n], o)
                /\ (InLine(backlog[n], o) => InLine(q, o))
      /\ PollsLive(backlog[n]) => PollsLive(q)
      /\ PollsLive(backlog[n]) => c.live
  BY <1>1, <1>2, <1>5, ServesFacts
<1>7. r \in Seq(Message) /\ b \in Seq(Message) /\ Ordered(r \o b)
  BY <1>3, <1>4 DEF AxlInv, AxlTypes, Staged
<1>8. /\ r \o b \in Seq(Message) /\ Elements(r \o b) = Elements(r) \cup Elements(b)
      /\ Ordered((r \o b) \o <<>>) /\ Ordered(r \o <<>>) /\ Elements(<<>>) = {}
  BY <1>7, OrderedRecv
<1>9. /\ inbox' = [inbox EXCEPT ![n] = <<>>]
      /\ backlog' = [backlog EXCEPT ![n] = q]
      /\ UNCHANGED <<peers, remaining, announcing, serving, outcome, timeouts>>
      /\ \/ /\ c.live /\ received' = [received EXCEPT ![n] = r \o b]
            /\ polling' = [polling EXCEPT ![n] = FALSE] /\ lost' = lost
         \/ ~c.live /\ lost' = lost \cup ToSet(b) /\ received' = received /\ polling' = polling
  BY <1>1, <1>2, <1>3, <1>4 DEF HandleRecv
<1>10. ToSet(b) = Elements(b) /\ Elements(b) \subseteq Message
  BY <1>7, ElementsType
<1>11. /\ inbox' \in [Nodes -> Seq(Message)] /\ inbox'[n] = <<>>
       /\ \A y \in Nodes \ {n} : inbox'[y] = inbox[y]
       /\ backlog' \in [Nodes -> Seq(Connection)] /\ backlog'[n] = q
       /\ \A y \in Nodes \ {n} : backlog'[y] = backlog[y]
  <2>1. inbox \in [Nodes -> Seq(Message)] /\ backlog \in [Nodes -> Seq(Connection)]
    BY DEF AxlInv, AxlTypes
  <2>2. PICK e \in Seq(Message) : e = <<>>
    <3>1. <<>> \in Seq(Message)
      BY EmptySeq
    <3>2. QED
      BY <3>1, Zenon
  <2>3. inbox' = [inbox EXCEPT ![n] = e] /\ backlog' = [backlog EXCEPT ![n] = q]
    BY <1>9, <2>2
  <2>4. /\ inbox' \in [Nodes -> Seq(Message)] /\ inbox'[n] = e
        /\ \A y \in Nodes \ {n} : inbox'[y] = inbox[y]
    BY <2>1, <2>3
  <2>5. QED
    BY <1>6, <2>1, <2>2, <2>3, <2>4
<1>12. /\ received' \in [Nodes -> Seq(Message)]
       /\ received'[n] = IF c.live THEN r \o b ELSE r
       /\ \A y \in Nodes \ {n} : received'[y] = received[y]
       /\ polling' \in [Nodes -> BOOLEAN]
  <2>1. PICK s \in Seq(Message) : s = r \o b
    BY <1>8
  <2>2. received \in [Nodes -> Seq(Message)] /\ polling \in [Nodes -> BOOLEAN]
    BY DEF AxlInv, AxlTypes
  <2>3. CASE c.live
    BY <1>9, <2>1, <2>2, <2>3
  <2>4. CASE ~c.live
    BY <1>3, <1>9, <2>2, <2>4
  <2>5. QED
    BY <2>3, <2>4
<1>13. lost' = (IF c.live THEN lost ELSE lost \cup Elements(b)) /\ lost' \subseteq Message
  BY <1>9, <1>10 DEF AxlInv, AxlTypes
<1>14. AxlTypes'
  BY <1>9, <1>11, <1>12, <1>13 DEF AxlInv, AxlTypes
<1>15. /\ Got(n) = Elements(r) \cup Elements(b)
       /\ Got(n)' = IF c.live THEN Elements(r) \cup Elements(b) ELSE Elements(r)
       /\ \A y \in Nodes \ {n} : Got(y)' = Got(y)
  BY <1>3, <1>4, <1>8, <1>11, <1>12 DEF Got
<1>16. \A m \in Message : Sent(m)' <=> Sent(m)
  BY <1>9 DEF Sent
<1>17. Routed' /\ SentInOrder' /\ Staged'
  <2>1. ASSUME NEW y \in Nodes
        PROVE  /\ Sending(y)' \subseteq Sending(y)
               /\ Delivering(y)' \subseteq Delivering(y)
               /\ Got(y)' \subseteq Got(y)
               /\ InLine(backlog[y], "send")' /\ InLine(backlog[y], "_deliver")'
               /\ Ordered(received[y] \o inbox[y])'
    <3>1. InLine(backlog[y], "send") /\ InLine(backlog[y], "_deliver")
          /\ Ordered(received[y] \o inbox[y])
      BY DEF AxlInv, Staged
    <3>2. CASE y = n
      <4>1. Ordered(received'[n] \o inbox'[n])
        BY <1>8, <1>11, <1>12
      <4>2. QED
        BY <1>6, <1>11, <1>15, <3>1, <3>2, <4>1 DEF Sending, Delivering
    <3>3. CASE y # n
      BY <1>11, <1>12, <1>15, <3>1, <3>3 DEF Sending, Delivering
    <3>4. QED
      BY <3>2, <3>3
  <2>2. \A m \in lost' : Sent(m)
    BY <1>13, <1>15 DEF AxlInv, Routed
  <2>3. QED
    BY <1>14, <1>16, <2>1, <2>2, QuietStep
<1>18. Answers'
  <2>1. \A y \in Nodes : PollsLive(backlog[y]) => PollsLive(backlog[y])'
    BY <1>6, <1>11
  <2>2. CASE c.live
    <3>1. \A y \in Nodes : Got(y) \subseteq Got(y)'
      BY <1>15, <2>2
    <3>2. /\ timeouts' \in {timeouts, timeouts + 1} /\ lost' = lost
          /\ \A m \in Message : outcome'[m] = "ok" => outcome[m] = "ok"
      BY <1>9, <1>13, <2>2
    <3>3. QED
      BY <1>14, <2>1, <3>1, <3>2, AnswersKept
  <2>3. CASE ~c.live
    <3>1. timeouts > 0 /\ timeouts' = timeouts /\ outcome' = outcome
      <4>1. timeouts # 0
        BY <1>6, <2>3 DEF AxlInv, Answers
      <4>2. QED
        BY <1>9, <4>1, AxlAssumption DEF AxlInv, AxlTypes
    <3>2. Arrived = lost \cup UNION {Got(y) : y \in Nodes}
      <4>1. \A y \in Nodes : Got(y) = ToSet(received[y]) \cup ToSet(inbox[y])
        BY Stages DEF AxlInv
      <4>2. QED
        BY <4>1 DEF Arrived
    <3>3. Arrived' = lost' \cup UNION {Got(y)' : y \in Nodes}
      <4>1. ASSUME NEW y \in Nodes PROVE Got(y)' = ToSet(received'[y]) \cup ToSet(inbox'[y])
        <5>1. received'[y] \in Seq(Message) /\ inbox'[y] \in Seq(Message)
          BY <1>14 DEF AxlTypes
        <5>2. QED
          BY <5>1, ElementsType DEF Got
      <4>2. QED
        BY <4>1 DEF Arrived
    <3>4. Arrived \subseteq Arrived'
      BY <1>13, <1>15, <2>3, <3>2, <3>3
    <3>5. timeouts' = 0 => \A y \in Nodes : PollsLive(backlog[y])'
      BY <3>1
    <3>6. QED
      BY <3>1, <3>4, <3>5 DEF AxlInv, Answers
  <2>4. QED
    BY <2>2, <2>3
<1>19. QED
  BY <1>14, <1>17, <1>18 DEF AxlInv
---------------------------------------------------------------------------
LEMMA AxlInitInv == AxlInit => AxlInv
<1> SUFFICES ASSUME AxlInit PROVE AxlInv
  OBVIOUS
<1>1. AxlTypes
  BY AxlAssumption DEF AxlInit, AxlTypes
<1>2. \A n \in Nodes : backlog[n] = <<>> /\ received[n] = <<>> /\ inbox[n] = <<>>
  BY DEF AxlInit
<1>3. \A op : Msgs(<<>>, op) = {} /\ InLine(<<>>, op)
  BY DEF Msgs, InLine
<1>4. Elements(<<>>) = {} /\ Ordered(<<>> \o <<>>) /\ PollsLive(<<>>)
  BY DEF Elements, Ordered, PollsLive
<1>5. \A n \in Nodes : Sending(n) = {} /\ Delivering(n) = {} /\ Got(n) = {}
  BY <1>2, <1>3, <1>4 DEF Sending, Delivering, Got
<1>6. Routed /\ SentInOrder
  BY <1>5 DEF AxlInit, Routed, SentInOrder, Sent
<1>7. Staged
  BY <1>2, <1>3, <1>4, <1>5 DEF Staged, Before
<1>8. Answers
  BY <1>2, <1>4 DEF AxlInit, Answers
<1>9. QED
  BY <1>1, <1>6, <1>7, <1>8 DEF AxlInv

LEMMA AxlInvariant == AxlSpec => []AxlInv
<1>1. AxlInv /\ [AxlNext]_axlVars => AxlInv'
  <2> SUFFICES ASSUME AxlInv, [AxlNext]_axlVars PROVE AxlInv'
    OBVIOUS
  <2>1. ASSUME NEW n \in Nodes, ServerStep(n) PROVE AxlInv'
    BY <2>1, HandleSendKeepsInv, HandleDeliverKeepsInv, HandleRecvKeepsInv,
       ForwardTimeoutKeepsInv DEF ServerStep
  <2>2. ASSUME NEW n \in Nodes, ClientStep(n) PROVE AxlInv'
    BY <2>2, SendKeepsInv, PollKeepsInv, TimeoutKeepsInv DEF ClientStep
  <2>3. ASSUME NEW n \in Nodes, AnnounceStep(n) PROVE AxlInv'
    BY <2>3, AnnounceKeepsInv DEF AnnounceStep
  <2>4. CASE UNCHANGED axlVars
    <3>1. UNCHANGED <<peers, remaining, announcing, backlog, serving, inbox, received,
                      outcome, polling, timeouts, lost>>
      BY <2>4 DEF axlVars
    <3>2. AxlTypes'
      BY <3>1 DEF AxlInv, AxlTypes
    <3>3. \A n : Sending(n)' = Sending(n) /\ Delivering(n)' = Delivering(n) /\ Got(n)' = Got(n)
      BY <3>1 DEF Sending, Delivering, Got
    <3>4. Routed' /\ SentInOrder' /\ Staged'
      BY <3>1, <3>3 DEF AxlInv, Routed, SentInOrder, Staged, Sent
    <3>5. Answers'
      BY <3>1 DEF AxlInv, Answers, Arrived
    <3>6. QED
      BY <3>2, <3>4, <3>5 DEF AxlInv
  <2>5. QED
    BY <2>1, <2>2, <2>3, <2>4 DEF AxlNext
<1>2. QED
  BY <1>1, AxlInitInv, PTL DEF AxlSpec
---------------------------------------------------------------------------
(* Types, and every inbox holding messages to its own agent only.          *)
THEOREM AxlTypeCorrect == AxlSpec => []AxlTypeOK
<1>1. AxlInv => AxlTypeOK
  <2> SUFFICES ASSUME AxlInv PROVE AxlTypeOK
    OBVIOUS
  <2>1. ASSUME NEW n \in Nodes
        PROVE  /\ \A c \in ToSet(backlog[n]) : c \in Connection
               /\ serving[n] \in Message \cup {NoMessage}
               /\ ToSet(inbox[n]) \cup ToSet(received[n]) \subseteq {m \in Message : m.to = n}
    <3>1. backlog[n] \in Seq(Connection) /\ serving[n] \in Message \cup {NoMessage}
      BY DEF AxlInv, AxlTypes
    <3>2. \A c \in ToSet(backlog[n]) : c \in Connection
      BY <3>1, ElementOfSeq, LenProperties DEF ToSet
    <3>3. Got(n) \subseteq {m \in Message : m.to = n}
      BY Stages DEF AxlInv, Routed
    <3>4. QED
      BY <3>1, <3>2, <3>3, Stages DEF AxlInv
  <2>2. QED
    BY <2>1 DEF AxlInv, AxlTypes, AxlTypeOK
<1>2. QED
  BY <1>1, AxlInvariant, PTL

(* Whatever calls time out and whatever handlers are served after their    *)
(* caller has gone, no message arrives twice and none overtakes another    *)
(* between the same two agents.                                            *)
THEOREM ArriveOnceInOrder == AxlSpec => []OnceAndInOrder
<1>1. AxlInv => OnceAndInOrder
  BY DEF AxlInv, Staged, Ordered, OnceAndInOrder
<1>2. QED
  BY <1>1, AxlInvariant, PTL

(* A send answered 200 has arrived, nothing arrives unsent, and an arrived *)
(* message is lost only to a client that has given up a poll.              *)
THEOREM OkIsArrived == AxlSpec => []OkMeansArrived
<1>1. AxlInv => OkMeansArrived
  <2> SUFFICES ASSUME AxlInv PROVE OkMeansArrived
    OBVIOUS
  <2>1. \A m \in Message : outcome[m] = "ok" => m \in Arrived
    BY DEF AxlInv, Answers
  <2>2. \A n \in Nodes : Got(n) = ToSet(received[n]) \cup ToSet(inbox[n])
    BY Stages DEF AxlInv
  <2>3. Arrived = lost \cup UNION {Got(n) : n \in Nodes}
    BY <2>2 DEF Arrived
  <2>4. \A m \in Arrived : outcome[m] # "unsent"
    BY <2>3 DEF AxlInv, Routed, Sent
  <2>5. QED
    BY <2>1, <2>4 DEF AxlInv, Answers, OkMeansArrived
<1>2. QED
  BY <1>1, AxlInvariant, PTL
===========================================================================
