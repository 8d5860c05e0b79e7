-------------------------- MODULE MCInvestmentPlan --------------------------
(* Values of InvestmentPlan's constants for TLC: the first plan has the    *)
(* hypothesis, the others have none.                                       *)
EXTENDS InvestmentPlan, TLC

CONSTANTS p1, h1

FirstPlan == h1 :> p1
=============================================================================
