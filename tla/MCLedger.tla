------------------------------ MODULE MCLedger ------------------------------
(* Small instances of Ledger, with the checks of what is reckoned from it. *)
EXTENDS MCAnalytics

EnvironmentPricing == [currency |-> "VND", price |-> 1, base |-> 1, free |-> 1]
Symmetry == Permutations(Tasks) \cup Permutations(Receipts)
EitherWorkload == {{"budget"}, {"receipts"}}
=============================================================================
