------------------------- MODULE MCAutomaticPlanning -------------------------
(* A small instance of AutomaticPlanning.                                  *)
EXTENDS AutomaticPlanning

(* A week may be written about from the second unit of time on.            *)
SecondDay == [w \in Weeks |-> 2]
===============================================================================
