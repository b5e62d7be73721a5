------------------------------ MODULE MCInbound ------------------------------
(***************************************************************************)
(* Small deployments of the inbound pipeline.  Identifiers are strings; a  *)
(* configuration picks the messages, the processes and the faults.         *)
(***************************************************************************)
EXTENDS Inbound, TLC

\* l1, l2: LINE messages of one user.  e1: an e-mail; e2: a reply to it, from
\* another sender; d1: an e-mail that reaches two accounts of the company; x1: an
\* e-mail to nobody; b1: a LINE message of the same user to a company with a bot.
ThreadMessages == {"l1", "l2", "e1", "e2"}
LineMessages   == {"l1", "l2"}
TwoAccountMail == {"d1"}

MCAccount  == {"line", "mail", "mail2", "bot"}
MCCustomer == {"user", "sender", "colleague"}
MCCompany  == {"acme", "globex"}

MCChannelOf == [m \in Message |-> IF m \in LineMessages \cup {"b1"} THEN "line" ELSE "email"]
MCCustomerOf == [m \in Message |->
    CASE MCChannelOf[m] = "line" -> "user" [] m = "e2" -> "colleague" [] OTHER -> "sender"]
MCRefsOf == [m \in Message |-> IF m = "e2" THEN {"e1"} \cap Message ELSE {}]
MCAccountsOf == [m \in Message |->
    CASE m \in LineMessages -> {"line"} [] m = "b1" -> {"bot"} [] m = "x1" -> {}
      [] m = "d1" -> {"mail", "mail2"} [] OTHER -> {"mail"}]
MCCompanyOf == [a \in Account |-> IF a = "bot" THEN "globex" ELSE "acme"]

\* Distinct keys on distinct stripes, as far as the stripes of the run go.
MCStripeOf == [k \in Account \X Customer |->
    CASE k[1] \in {"line", "bot"} -> 0 [] k[1] = "mail2" -> 1
      [] OTHER -> IF k[2] = "sender" THEN 2 ELSE 3]

OneProcess  == [r \in Request |-> "api1"]

\* Bound: LINE messages and e-mails never meet in a conversation, so a behaviour has
\* these or those; the reply comes once, and so does b1, which takes the place of l2.
OneChannel ==
    /\ \A m, n \in Message : attempts[m] > 0 /\ attempts[n] > 0 => ChannelOf[m] = ChannelOf[n]
    /\ "e2" \in Message => attempts["e2"] <= 1
    /\ "b1" \in Message => attempts["b1"] <= IF attempts["l2"] = 0 THEN 1 ELSE 0

NoFaults       == {}
AllFaults      == FaultKind
GracefulFaults == {"lookup", "insert", "llm", "answer"}
CrashFault     == {"crash"}
=============================================================================
