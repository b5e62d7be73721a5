------------------------------ MODULE MCPipeline ------------------------------
(***************************************************************************)
(* Small deployments of the whole intake, with the messages and accounts   *)
(* of MCInbound.                                                           *)
(***************************************************************************)
EXTENDS Pipeline, MCInbound, Bags

PipelineMessages == {"l1", "l2", "e1", "e2"}
ProgressMessages == {"l1", "b1", "e1", "x1"}

\* Bound: an e-mail comes once, when no other request is in progress, and no API process
\* dies under it; when a conversation is assessed by hand the worker does not die, and
\* it is the only LINE message there is, which may come twice, or e-mails.
Mailed == {m \in Message : ChannelOf[m] = "email" /\ attempts[m] > 0}

OneByOne ==
    /\ OneChannel
    /\ Mailed # {} => \A q, r \in Request : pc[q] # "idle" /\ pc[r] # "idle" => q = r
    /\ \A m \in Mailed :
          /\ attempts[m] = 1
          /\ answered[m] = "ok" \/ \E r \in Request : pc[r] # "idle" /\ job[r].msg = m
    /\ byHand # {} =>
          /\ retried = EmptyBag /\ archived = {}
          /\ Cardinality({m \in Message : attempts[m] > 0}) = 1 \/ Mailed # {}

\* Bound: a behaviour is about one message: a LINE message that comes up to three times,
\* the e-mail, which comes twice, or one of the others, which come once.
OneMessage ==
    /\ Cardinality({m \in Message : attempts[m] > 0}) <= 1
    /\ attempts["e1"] <= 2 /\ attempts["b1"] <= 1 /\ attempts["x1"] <= 1

DeathOfWorker == {"die"}

AllWorkerFaults == {"assess", "queue", "commit", "post", "reply", "die"}

MCMaxRetry == [k \in {"assess", "ticket"} |-> 1]
===============================================================================
