--------------------------- MODULE TokenHistory ---------------------------
(***************************************************************************)
(* MockUSDC with a history variable: what every approval gave and what its *)
(* spender has drawn since.  The contract keeps the difference only.       *)
(***************************************************************************)
EXTENDS MockUSDC

VARIABLE approval  \* token -> owner -> spender -> [given, drawn]

approvalVars == <<tokenVars, approval>>

ApprovalInit ==
  /\ TokenInit
  /\ approval = [t \in Tokens |-> [a \in Addresses |-> [b \in Addresses |->
                   [given |-> 0, drawn |-> 0]]]]

Limited(t, from, spender) == approval[t][from][spender].given # MaxUint256

DrawWithHistory(t, spender, from, to, amount) ==
  /\ transferFrom(t, spender, from, to, amount)
  /\ approval' = IF Limited(t, from, spender)
                 THEN [approval EXCEPT ![t][from][spender].drawn = @ + amount]
                 ELSE approval

ApproveWithHistory(t, owner, spender, amount) ==
  /\ approve(t, owner, spender, amount)
  /\ approval' = [approval EXCEPT ![t][owner][spender] = [given |-> amount, drawn |-> 0]]

ApprovalNext ==
  \E t \in Tokens, u \in Users, amount \in Amounts :
    \/ \E to \in Recipients :
         \/ (mint(t, to, amount) \/ transfer(t, u, to, amount)) /\ UNCHANGED approval
         \/ \E from \in Addresses : DrawWithHistory(t, u, from, to, amount)
    \/ \E spender \in Spenders : ApproveWithHistory(t, u, spender, amount)

ApprovalSpec == ApprovalInit /\ [][ApprovalNext]_approvalVars
---------------------------------------------------------------------------
(* A spender never draws more in total than the owner's last approval gave *)
(* it, unless that was the unlimited one, and what it may still draw is    *)
(* exactly the rest: however many transferFrom calls, of the owner's own   *)
(* tokens to itself included (MockUSDC.sol:33-39).                         *)
DrawsStayApproved ==
  \A t \in Tokens, owner, spender \in Addresses :
    LET a == approval[t][owner][spender] IN
    /\ Limited(t, owner, spender) => a.drawn <= a.given
    /\ allowance[t][owner][spender] = a.given - a.drawn
===========================================================================
