------------------------------ MODULE MCMailPoll ------------------------------
(***************************************************************************)
(* Small mailboxes.  poison is never accepted, bad is an address nobody    *)
(* has, and to plain the API may say anything.                             *)
(***************************************************************************)
EXTENDS MailPoll

MCAnswersOf == [m \in Mail |->
    CASE m = "poison" -> {"failed"}
      [] m = "bad" -> {"rejected"}
      [] OTHER -> Answer]
===============================================================================
