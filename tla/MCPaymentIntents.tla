----------------------------- MODULE MCPaymentIntents -----------------------------
(* Small instances of PaymentIntents for TLC. Handler slots are            *)
(* interchangeable, and so are the keys of the intents.                    *)
EXTENDS PaymentIntents, TLC

Symmetry == Permutations(Calls) \cup Permutations(Keys)
===============================================================================
