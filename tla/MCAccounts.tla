------------------------------ MODULE MCAccounts ------------------------------
(* Small instances, for TLC, of the auth service and of the logins at a    *)
(* provider.  They share nothing: with the choice "external" the logins    *)
(* step, with another one the auth service.                                *)
EXTENDS MCSupaAuthChoice, ExternalLogin

CONSTANTS b1, b2, l1, l2

Swaps == TwoRequests \cup Permutations({b1, b2}) \cup Permutations({l1, l2})

(* Two spellings of an address, of which the provider vouches for one, and *)
(* an address of a blocked domain.                                         *)
MCNormalized == [a \in Addresses |-> IF a = "z@spam" THEN "z@spam" ELSE "a@home"]
MCBaseName == [a \in Addresses |-> IF a = "A@home" THEN "b" ELSE "a"]
MCClaims == [a \in Addresses |-> CASE a = "a@home" -> "verified" [] a = "A@home" -> "unverified"
                                    [] a = "z@spam" -> "silent"]

AccountsInit ==
  /\ ExternalInit
  /\ ChosenInit \/ (choice = "external" /\ Init)

AccountsNext ==
  \/ choice # "external" /\ ChosenNext /\ UNCHANGED externalVars
  \/ choice = "external" /\ ExternalNext /\ UNCHANGED <<vars, choice>>

AccountsSpec == AccountsInit /\ [][AccountsNext]_<<vars, choice, externalVars>>
=============================================================================
