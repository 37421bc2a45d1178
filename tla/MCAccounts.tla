----------------------------- MODULE MCAccounts -----------------------------
(* A small instance of Accounts: everybody is about one address. *)
EXTENDS Accounts

OneAddress == [r \in Requests |-> CHOOSE e \in Emails : TRUE]
=============================================================================
