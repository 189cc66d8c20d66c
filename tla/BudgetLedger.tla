---------------------------- MODULE BudgetLedger ----------------------------
(***************************************************************************)
(* What the AUM service promises about budgets: a target has a permanent   *)
(* limit and sometimes a boost on top of it.  A boost ends by leaving the  *)
(* permanent limit exactly as it was, nobody edits a budget while a boost  *)
(* owns it, and no step touches two targets.                               *)
(***************************************************************************)
EXTENDS Integers

CONSTANTS Budgets, None
VARIABLES permanent, boosted

ledgerVars == <<permanent, boosted>>

Init ==
    /\ permanent \in [Budgets -> Nat]
    /\ boosted = [t \in Budgets |-> None]

Edit(t) ==
    /\ boosted[t] = None
    /\ permanent'[t] \in Nat
    /\ permanent' = [permanent EXCEPT ![t] = permanent'[t]]
    /\ UNCHANGED boosted

StartBoost(t) ==
    /\ boosted[t] = None
    /\ boosted'[t] \in Nat /\ boosted'[t] > permanent[t]
    /\ boosted' = [boosted EXCEPT ![t] = boosted'[t]]
    /\ UNCHANGED permanent

EndBoost(t) ==
    /\ boosted' = [boosted EXCEPT ![t] = None]
    /\ UNCHANGED permanent

Next == \E t \in Budgets : Edit(t) \/ StartBoost(t) \/ EndBoost(t)

Spec == Init /\ [][Next]_ledgerVars
=============================================================================
