------------------------------- MODULE MCBilling -------------------------------
(* A small instance of Subscriptions for TLC.                                *)
EXTENDS Subscriptions, TLC

CONSTANTS s1, s2, activation, creation, invoice

MCKind == [e \in Events |-> CASE e = activation -> "charge"
                              [] e = creation -> "create"
                              [] e = invoice -> "invoice"]

SessionSymmetry == Permutations(Sessions)
=============================================================================
