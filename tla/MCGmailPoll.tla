------------------------------ MODULE MCGmailPoll ------------------------------
(***************************************************************************)
(* An account with two messages, which the API may refuse.                 *)
(***************************************************************************)
EXTENDS GmailPoll

MCAccountOf == [m \in Mail |-> "a"]
ApiDown == {"forward"}
===============================================================================
