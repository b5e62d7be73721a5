------------------------------ MODULE MCBackground ------------------------------
(***************************************************************************)
(* What runs by itself and must get there in the end: the Gmail poller, and *)
(* the tasks that embed the knowledge base.  The two share no state, and   *)
(* an initial state lets one of them move.                                 *)
(***************************************************************************)
EXTENDS GmailPoll, VectorIndex

(***************************************************************************)
(* Gmail.  Accounts with and without mail; own is a message the system     *)
(* sent.                                                                   *)
(***************************************************************************)
MCAccountOf == [m \in Mail |-> "a"]

-------------------------------------------------------------------------------
(***************************************************************************)
(* The index.  Company c1 has report 1, cut in two pieces, and report 3,   *)
(* of one; company c2 has report 2, of one.                                *)
(***************************************************************************)
MCReport == {1, 2, 3}
MCOwner  == <<"c1", "c2", "c1">>
MCPieces == <<2, 1, 1>>
Tasks(made, i, b, l, r, e, f) ==
    [chunks |-> IF made = 0 THEN <<>> ELSE ChunkRows(made),
     may |-> [ingest |-> i, batch |-> b, collect |-> l, reembed |-> r, edit |-> e, fault |-> f]]
NoTasks == Tasks(0, 0, 0, 0, 0, 0, 0)
MCIndexPlans ==
    {NoTasks,
     Tasks(3, 2, 0, 0, 0, 0, 0), Tasks(2, 1, 0, 0, 0, 0, 1), Tasks(1, 0, 0, 0, 0, 1, 1),
     Tasks(1, 0, 2, 0, 0, 0, 0), Tasks(2, 0, 2, 0, 0, 1, 0), Tasks(2, 0, 1, 2, 0, 1, 0),
     Tasks(2, 0, 1, 2, 0, 0, 1), Tasks(2, 0, 0, 0, 1, 1, 1), Tasks(2, 0, 1, 0, 1, 0, 1)}

-------------------------------------------------------------------------------
IndexRests == chunks = <<>> /\ bounds = NoTasks.may

MCInit == GmailInit /\ IndexInit

MCNext ==
    \/ IndexRests /\ GmailNext /\ UNCHANGED indexVars
    \/ ~IndexRests /\ IndexNext /\ UNCHANGED gmailVars

MCSpec ==
    /\ MCInit /\ [][MCNext]_<<gmailVars, indexVars>>
    /\ WF_gmailVars(IndexRests /\ Poll)
    /\ \A a \in Mailbox : SF_gmailVars(IndexRests /\ AccessToken /\ acc.acct = a /\ TokenRejected)
    /\ \A w \in Runner : WF_indexVars(~IndexRests /\ Step(w))
    /\ \A c \in Company : SF_indexVars(~IndexRests /\ \E w \in Runner : StartRefresh(w, c))

MCTypeOK == GmailTypeOK /\ IndexTypeOK
================================================================================
