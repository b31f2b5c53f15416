------------------------------ MODULE PaidWriting ------------------------------
(***************************************************************************)
(* What the generation service promises about money: the calls of a piece  *)
(* of work are bought one by one while the work is open, none is submitted *)
(* twice or after its price became final, a price is final once known, and *)
(* work is delivered only when every call submitted for it is charged.     *)
(* GenerationLedger implements it.                                         *)
(***************************************************************************)
EXTENDS Integers

CONSTANTS Works, Calls, NoPrice

VARIABLES
    outcome,  \* of each work: open, delivered or dropped
    sent,     \* how often each call was submitted
    charge    \* the final price of each call, or NoPrice

vars == <<outcome, sent, charge>>

Init ==
    /\ outcome = [w \in Works |-> "open"]
    /\ sent = [w \in Works |-> [c \in Calls |-> 0]]
    /\ charge = [w \in Works |-> [c \in Calls |-> NoPrice]]

(* Prices become final, each of them once.                                 *)
Charging ==
    /\ charge' \in [Works -> [Calls -> Nat \cup {NoPrice}]]
    /\ \A w \in Works, c \in Calls :
            charge[w][c] # NoPrice => charge'[w][c] = charge[w][c]

Submit(w, c) ==
    /\ outcome[w] = "open" /\ sent[w][c] = 0 /\ charge[w][c] = NoPrice
    /\ sent' = [sent EXCEPT ![w][c] = 1]
    /\ UNCHANGED <<outcome, charge>>

Deliver(w) ==
    /\ outcome[w] = "open" /\ \E c \in Calls : sent[w][c] > 0
    /\ \A c \in Calls : sent[w][c] > 0 => charge[w][c] # NoPrice
    /\ outcome' = [outcome EXCEPT ![w] = "delivered"]
    /\ Charging /\ UNCHANGED sent

Drop(w) ==
    /\ outcome[w] = "open"
    /\ outcome' = [outcome EXCEPT ![w] = "dropped"]
    /\ Charging /\ UNCHANGED sent

Next ==
    \/ \E w \in Works : Deliver(w) \/ Drop(w) \/ \E c \in Calls : Submit(w, c)
    \/ Charging /\ UNCHANGED <<outcome, sent>>

Spec == Init /\ [][Next]_vars
===============================================================================
