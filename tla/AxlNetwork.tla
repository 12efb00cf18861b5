----------------------------- MODULE AxlNetwork -----------------------------
(***************************************************************************)
(* The local AXL network: the nodes of scripts/axl_mock_node.py and the    *)
(* AxlClient (agents/lib/axl_client.py, api_mode "mock") each agent talks  *)
(* to its own node with.                                                   *)
(*                                                                         *)
(* A node is a single-threaded HTTP server: connections wait in a backlog  *)
(* and are served one by one, and while it serves /send it waits for the   *)
(* peer's answer to /_deliver.  Whoever gives up waiting closes its        *)
(* connection; the request it made stays in the backlog and is served      *)
(* later.  Announcements run in threads of their own.                      *)
(***************************************************************************)
EXTENDS Naturals, Sequences, FiniteSets, SequencesExt

CONSTANTS Nodes,
          Sends,       \* bound: messages from each client to each peer
          TotalSends,  \* bound: messages of all clients
          MaxTimeouts  \* bound: HTTP calls of clients that time out

ASSUME AxlAssumption ==
  IsFiniteSet(Nodes) /\ {Sends, TotalSends, MaxTimeouts} \subseteq Nat

VARIABLES
  peers,      \* node -> the nodes registered with it
  remaining,  \* node -> peer_addrs it has still to announce itself to
  announcing, \* node -> the nodes _announce_once is about to call
  backlog,    \* node -> connections waiting, in order
  serving,    \* node -> the message its handler forwards, or none
  inbox,      \* node -> _inbox of the node
  received,   \* node -> _inbox of its client
  outcome,    \* message -> what its sender knows of it
  polling,    \* node -> its client waits for an answer to /recv
  timeouts,   \* calls timed out so far
  lost        \* history: messages sent in an answer nobody read

axlVars == <<peers, remaining, announcing, backlog, serving, inbox, received,
             outcome, polling, timeouts, lost>>

Message == {m \in [from : Nodes, to : Nodes, k : 1 .. Sends] : m.from # m.to}
NoMessage == [from |-> "none", to |-> "none", k |-> 0]

(* A connection: live while the caller still waits for the answer.         *)
Connection == [op : {"send", "_deliver"}, msg : Message, live : BOOLEAN]
                \cup [op : {"recv"}, live : BOOLEAN]

AxlTypeOK ==
  /\ peers \in [Nodes -> SUBSET Nodes]
  /\ remaining \in [Nodes -> SUBSET Nodes]
  /\ announcing \in [Nodes -> SUBSET Nodes]
  /\ \A n \in Nodes : /\ \A c \in ToSet(backlog[n]) : c \in Connection
                      /\ serving[n] \in Message \cup {NoMessage}
                      /\ ToSet(inbox[n]) \cup ToSet(received[n]) \subseteq
                           {m \in Message : m.to = n}
  /\ outcome \in [Message -> {"unsent", "pending", "ok", "failed"}]
  /\ polling \in [Nodes -> BOOLEAN]
  /\ timeouts \in 0 .. MaxTimeouts
  /\ lost \subseteq Message

AxlInit ==
  /\ peers = [n \in Nodes |-> {}]
  /\ remaining = [n \in Nodes |-> Nodes \ {n}]
  /\ announcing = [n \in Nodes |-> {}]
  /\ backlog = [n \in Nodes |-> <<>>]
  /\ serving = [n \in Nodes |-> NoMessage]
  /\ inbox = [n \in Nodes |-> <<>>]
  /\ received = [n \in Nodes |-> <<>>]
  /\ outcome = [m \in Message |-> "unsent"]
  /\ polling = [n \in Nodes |-> FALSE]
  /\ timeouts = 0
  /\ lost = {}
---------------------------------------------------------------------------
(* Discovery.  /register answers at once; a node seen for the first time   *)
(* is called back once, and a failed call back is only logged.             *)
register(at, peer) ==
  /\ peers' = [peers EXCEPT ![at] = @ \cup {peer}]
  /\ announcing' = IF peer \in peers[at] THEN announcing
                   ELSE [announcing EXCEPT ![at] = @ \cup {peer}]

Free(n) == serving[n] = NoMessage

(* _announce_all_with_retry: tries again what failed.                      *)
Announce(n, m) ==
  /\ m \in remaining[n]
  /\ Free(m)
  /\ register(m, n)
  /\ remaining' = [remaining EXCEPT ![n] = @ \ {m}]
  /\ UNCHANGED <<backlog, serving, inbox, received, outcome, polling, timeouts, lost>>

AnnounceOnce(n, m) ==
  /\ m \in announcing[n]
  /\ \/ /\ Free(m)
        /\ peers' = [peers EXCEPT ![m] = @ \cup {n}]
        /\ announcing' = [announcing EXCEPT
             ![n] = @ \ {m},
             ![m] = IF n \in peers[m] THEN @ ELSE @ \cup {n}]
     \/ ~Free(m) /\ announcing' = [announcing EXCEPT ![n] = @ \ {m}] /\ UNCHANGED peers
  /\ UNCHANGED <<remaining, backlog, serving, inbox, received, outcome, polling,
                 timeouts, lost>>
---------------------------------------------------------------------------
(* The client.  An agent awaits one send before the next one.              *)
connect(n, c) == backlog' = [backlog EXCEPT ![n] = Append(@, c)]

Waiting(n) == \E m \in Message : m.from = n /\ outcome[m] = "pending"

Send(n) ==
  /\ ~Waiting(n)
  /\ Cardinality({m \in Message : outcome[m] # "unsent"}) < TotalSends
  /\ \E m \in Message :
       /\ m.from = n /\ outcome[m] = "unsent"
       /\ \A e \in Message : e.from = n /\ e.to = m.to /\ e.k < m.k => outcome[e] # "unsent"
       /\ outcome' = [outcome EXCEPT ![m] = "pending"]
       /\ connect(n, [op |-> "send", msg |-> m, live |-> TRUE])
  /\ UNCHANGED <<peers, remaining, announcing, serving, inbox, received, polling,
                 timeouts, lost>>

(* _poll_mock_once: asks again once it was answered or has given up.       *)
Poll(n) ==
  /\ ~polling[n]
  /\ polling' = [polling EXCEPT ![n] = TRUE]
  /\ connect(n, [op |-> "recv", live |-> TRUE])
  /\ UNCHANGED <<peers, remaining, announcing, serving, inbox, received, outcome,
                 timeouts, lost>>

(* timeout_secs of the client's calls (the answer to /recv is an           *)
(* httpx.HTTPError for _poll_loop; a send raises).                         *)
hangUp(n, op) ==
  backlog' = [backlog EXCEPT ![n] =
    [i \in DOMAIN @ |-> IF @[i].op = op THEN [@[i] EXCEPT !.live = FALSE] ELSE @[i]]]

Timeout == timeouts < MaxTimeouts /\ timeouts' = timeouts + 1

PollTimeout(n) ==
  /\ polling[n]
  /\ Timeout
  /\ polling' = [polling EXCEPT ![n] = FALSE]
  /\ hangUp(n, "recv")
  /\ UNCHANGED <<peers, remaining, announcing, serving, inbox, received, outcome, lost>>

SendTimeout(n) ==
  /\ Timeout
  /\ \E m \in Message : /\ m.from = n /\ outcome[m] = "pending"
                        /\ outcome' = [outcome EXCEPT ![m] = "failed"]
  /\ hangUp(n, "send")
  /\ UNCHANGED <<peers, remaining, announcing, serving, inbox, received, polling, lost>>
---------------------------------------------------------------------------
(* The node's server takes the next connection when it is free.            *)
Serves(n, op) == Free(n) /\ backlog[n] # <<>> /\ Head(backlog[n]).op = op

answer(m, result) ==
  outcome' = [outcome EXCEPT ![m] = IF @ = "pending" THEN result ELSE @]

(* Mutants of HandleSend: answers before the peer has; posts to itself.    *)
HandleSend_answersEarly(n) ==
  LET m == Head(backlog[n]).msg IN
  /\ Serves(n, "send")
  /\ m.to \in peers[n]
  /\ answer(m, "ok")
  /\ serving' = [serving EXCEPT ![n] = m]
  /\ backlog' = [backlog EXCEPT
       ![n] = Tail(@),
       ![m.to] = Append(@, [op |-> "_deliver", msg |-> m, live |-> TRUE])]
  /\ UNCHANGED <<peers, remaining, announcing, inbox, received, polling, timeouts, lost>>

HandleSend_toSelf(n) ==
  LET m == Head(backlog[n]).msg IN
  /\ Serves(n, "send")
  /\ backlog' = [backlog EXCEPT ![n] =
       Append(Tail(@), [op |-> "_deliver", msg |-> m, live |-> TRUE])]
  /\ UNCHANGED <<peers, remaining, announcing, serving, inbox, received, outcome,
                 polling, timeouts, lost>>

(* POST /send/{peer_id}: an unknown peer is answered 404; otherwise the    *)
(* handler connects to the peer and waits.                                 *)
HandleSend(n) ==
  LET m == Head(backlog[n]).msg IN
  /\ Serves(n, "send")
  /\ IF m.to \in peers[n]
     THEN /\ serving' = [serving EXCEPT ![n] = m]
          /\ backlog' = [backlog EXCEPT
               ![n] = Tail(@),
               ![m.to] = Append(@, [op |-> "_deliver", msg |-> m, live |-> TRUE])]
          /\ UNCHANGED outcome
     ELSE /\ answer(m, "failed")
          /\ backlog' = [backlog EXCEPT ![n] = Tail(@)]
          /\ UNCHANGED serving
  /\ UNCHANGED <<peers, remaining, announcing, inbox, received, polling, timeouts, lost>>

(* POST /_deliver, which lets the forwarding handler answer its client.    *)
HandleDeliver(n) ==
  LET c == Head(backlog[n]) IN
  /\ Serves(n, "_deliver")
  /\ inbox' = [inbox EXCEPT ![n] = Append(@, c.msg)]
  /\ backlog' = [backlog EXCEPT ![n] = Tail(@)]
  /\ IF c.live
     THEN /\ serving' = [serving EXCEPT ![c.msg.from] = NoMessage]
          /\ answer(c.msg, "ok")
     ELSE UNCHANGED <<serving, outcome>>
  /\ UNCHANGED <<peers, remaining, announcing, received, polling, timeouts, lost>>

(* Mutant of ForwardTimeout: urlopen without a timeout.                    *)
ForwardTimeout_never(n) == ~Free(n) /\ FALSE /\ UNCHANGED axlVars

(* The forwarding handler gives up after 3 s: 502.                         *)
ForwardTimeout(n) ==
  LET m == serving[n] IN
  /\ ~Free(n)
  /\ serving' = [serving EXCEPT ![n] = NoMessage]
  /\ backlog' = [backlog EXCEPT ![m.to] =
       [i \in DOMAIN @ |-> IF @[i].op = "_deliver" /\ @[i].msg = m
                           THEN [@[i] EXCEPT !.live = FALSE] ELSE @[i]]]
  /\ answer(m, "failed")
  /\ UNCHANGED <<peers, remaining, announcing, inbox, received, polling, timeouts, lost>>

(* Mutant of HandleRecv: a copy is answered, the inbox is not cleared.     *)
HandleRecv_keeps(n) ==
  LET c == Head(backlog[n]) IN
  /\ Serves(n, "recv")
  /\ backlog' = [backlog EXCEPT ![n] = Tail(@)]
  /\ c.live
  /\ received' = [received EXCEPT ![n] = @ \o inbox[n]]
  /\ polling' = [polling EXCEPT ![n] = FALSE]
  /\ UNCHANGED <<peers, remaining, announcing, serving, inbox, outcome, timeouts, lost>>

(* GET /recv empties the node's inbox, whether or not the answer is read.  *)
HandleRecv(n) ==
  LET c == Head(backlog[n]) IN
  /\ Serves(n, "recv")
  /\ inbox' = [inbox EXCEPT ![n] = <<>>]
  /\ backlog' = [backlog EXCEPT ![n] = Tail(@)]
  /\ IF c.live
     THEN /\ received' = [received EXCEPT ![n] = @ \o inbox[n]]
          /\ polling' = [polling EXCEPT ![n] = FALSE]
          /\ UNCHANGED lost
     ELSE /\ lost' = lost \cup ToSet(inbox[n])
          /\ UNCHANGED <<received, polling>>
  /\ UNCHANGED <<peers, remaining, announcing, serving, outcome, timeouts>>

ServerStep(n) == HandleSend(n) \/ HandleDeliver(n) \/ HandleRecv(n) \/ ForwardTimeout(n)
ClientStep(n) == Send(n) \/ Poll(n) \/ PollTimeout(n) \/ SendTimeout(n)
AnnounceStep(n) == \E m \in Nodes : Announce(n, m) \/ AnnounceOnce(n, m)

AxlNext == \E n \in Nodes : ServerStep(n) \/ ClientStep(n) \/ AnnounceStep(n)
AxlSpec == AxlInit /\ [][AxlNext]_axlVars

(* The server threads run.  Nothing is assumed of the agents, of their     *)
(* poll loops or of their timeouts.                                        *)
AxlFairness == \A n \in Nodes : WF_axlVars(ServerStep(n))
FairAxlSpec == AxlSpec /\ AxlFairness
---------------------------------------------------------------------------
(* However calls time out, a message is never delivered twice, and those   *)
(* of one agent to another arrive in the order they were sent: a send that *)
(* failed at its sender may still arrive, before any later one, but once.  *)
OnceAndInOrder ==
  \A n \in Nodes :
    LET all == received[n] \o inbox[n] IN
    \A i, j \in 1 .. Len(all) :
      i < j /\ all[i].from = all[j].from => all[i].k < all[j].k

(* A send that was answered 200 put the message into the peer's inbox; one *)
(* that was never served did not; and what has arrived is lost on the way  *)
(* to the client only in the answer to a poll the client had given up.     *)
Arrived == lost \cup UNION {ToSet(received[n]) \cup ToSet(inbox[n]) : n \in Nodes}

OkMeansArrived ==
  /\ \A m \in Message : outcome[m] = "ok" => m \in Arrived
  /\ \A m \in Arrived : outcome[m] # "unsent"
  /\ lost # {} => timeouts > 0

(* Two nodes that forward to each other at the same moment each wait for   *)
(* the other; the timeout of the forward gets both going again, so every   *)
(* send of a client is answered.                                           *)
EverySendIsAnswered == \A n \in Nodes : Waiting(n) ~> ~Waiting(n)
===========================================================================
