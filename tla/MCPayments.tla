----------------------------- MODULE MCPayments ------------------------------
(***************************************************************************)
(* An instance of Payments for TLC, on the groups of MCGroups.             *)
(***************************************************************************)
EXTENDS Payments, MCGroups

CONSTANTS alice, bob, rent, token, huge

TwoRecipients == {alice, bob}
ThreePayments == {rent, token, huge}

TheLabels == 0..2

Spends == [r \in TwoRecipients |-> IF r = alice THEN 3 ELSE 8]
Scans == [r \in TwoRecipients |-> IF r = alice THEN 5 ELSE 6]
Labels == [r \in TwoRecipients |-> IF r = alice THEN {1, 2} ELSE {}]
PaidTo == [p \in ThreePayments |-> IF p = token THEN bob ELSE alice]
PaidLabel == [p \in ThreePayments |-> IF p = rent THEN 2 ELSE 0]
PaidWith == [p \in ThreePayments |-> IF p = rent THEN 7 ELSE IF p = token THEN 9 ELSE 11]
PaidIn == [p \in ThreePayments |-> IF p = token THEN "spl" ELSE "sol"]
PaidAmount == [p \in ThreePayments |-> IF p = huge THEN 9 ELSE IF p = token THEN 2 ELSE 1]
==============================================================================
