-------------------------------- MODULE MCTasks --------------------------------
(***************************************************************************)
(* The tasks of the worker: those of the ticket intake, and those that     *)
(* bring a new symptom to its review.  The two share no state, and an      *)
(* initial state lets one of them move.                                    *)
(* A conversation has an opening message and a reply, either of which may  *)
(* have been assessed (the reply by hand), and there is a LINE             *)
(* conversation.  Report 1 has nothing to classify, 2 and 3 name the same  *)
(* new symptom, and the proposal of 2 is refused.                          *)
(***************************************************************************)
EXTENDS Worker, Proposals

Opening == [channel |-> "email", conv |-> 1, row |-> 1]
Reply   == [channel |-> "email", conv |-> 1, row |-> 2]
Line    == [channel |-> "line", conv |-> 2, row |-> 3]

AllJobs == {Opening, Reply, Line}

MCMaxRetry == [k \in Kind |-> 1]

Jam(isNew, confidence) == [name |-> "jam", isNew |-> isNew, confidence |-> confidence]

MCReport  == {1, 2, 3}
MCRefused == {2}
MCAnswers ==
    [r \in Report |-> CASE r = 1 -> {}
                        [] r = 2 -> {Jam(TRUE, 1)}
                        [] r = 3 -> {Jam(TRUE, 1), Jam(FALSE, 1)}]

\* Bound: two tasks wait for the worker at first.
MCInit ==
    /\ Init /\ ProposalsInit
    /\ Cardinality(Tasks) <= 2

NoJobs ==
    /\ assessQ = {} /\ ticketQ = {} /\ tickets = {} /\ archived = {}
    /\ DOMAIN intake = {}

MCNext ==
    \/ (WorkerNext \/ RunBatch) /\ UNCHANGED proposalVars
    \/ NoJobs /\ ProposalsNext /\ UNCHANGED vars

MCSpec ==
    /\ MCInit /\ [][MCNext]_<<vars, proposalVars>>
    /\ \A f \in Flusher : WF_proposalVars(Flush(f))

MCTypeOK == TypeOK /\ ProposalsTypeOK
===============================================================================
