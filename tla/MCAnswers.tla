------------------------------- MODULE MCAnswers -------------------------------
(***************************************************************************)
(* What is answered from what the system knows: the graph of the articles  *)
(* and the search, replies to customers, and the chat of employees.  The   *)
(* three share no state here, and an initial state lets one of them move.  *)
(***************************************************************************)
EXTENDS KnowledgeGraph, Reply, Chat

(***************************************************************************)
(* The graph.  "jam" is like "stuck" and "stuck" like "slow", and "jam" is *)
(* not like "slow".                                                        *)
(***************************************************************************)
MCClose ==
    [jam   |-> [jam |-> 3, stuck |-> 2, slow |-> 0],
     stuck |-> [jam |-> 2, stuck |-> 3, slow |-> 1],
     slow  |-> [jam |-> 0, stuck |-> 1, slow |-> 3]]

Mission(names, counts, classes, made, may) ==
    [names |-> names, counts |-> counts, class |-> classes, articles |-> made, may |-> may]
May(classify, merge, article, sync, search, fault) ==
    [classify |-> classify, merge |-> merge, article |-> article,
     sync |-> sync, search |-> search, fault |-> fault]
NoMission == Mission(<<>>, <<>>, <<0, 0, 0>>, <<>>, May(0, 0, 0, 0, 0, 0))
MCMissions ==
    {NoMission,
     Mission(<<"stuck", "slow">>, <<1, 1>>, <<2, 0, 0>>, <<1>>, May(2, 2, 0, 0, 0, 0)),
     Mission(<<"jam", "slow">>, <<1, 1>>, <<1, 2, 0>>, <<3>>, May(2, 0, 0, 2, 1, 0)),
     Mission(<<"jam">>, <<1>>, <<1, 0, 0>>, <<1, 0>>, May(2, 1, 0, 1, 0, 0)),
     Mission(<<"jam", "stuck", "slow">>, <<1, 1, 1>>, <<1, 2, 3>>, <<1>>, May(0, 1, 1, 1, 0, 1)),
     Mission(<<"jam", "stuck">>, <<2, 1>>, <<1, 1, 2>>, <<1, 2>>, May(0, 1, 1, 1, 1, 0)),
     Mission(<<"jam", "stuck", "slow">>, <<1, 2, 1>>, <<1, 2, 3>>, <<1, 2, 3, 0>>, May(0, 1, 0, 2, 0, 0)),
     Mission(<<"jam", "stuck">>, <<1, 1>>, <<1, 2, 0>>, <<1>>, May(1, 0, 1, 1, 0, 1))}

-------------------------------------------------------------------------------
(***************************************************************************)
(* Replies.  Article 1 is the asking company's, article 2 a subsidiary's,  *)
(* article 3 another company's.  Nothing matches the second question.      *)
(***************************************************************************)
MCOwnerOf == <<"us", "sub", "them">>
MCArticleOf == <<1, 1, 3>>
MCParentOf == <<9, 9, 0>>
MCMatches == "known" :> {1, 3} @@ "new" :> {}
MCGrades == {[verdict |-> "relevant", confidence |-> 3], [verdict |-> "partial", confidence |-> 0],
             [verdict |-> "irrelevant", confidence |-> 3], [verdict |-> "partial", confidence |-> 1]}

Asked(questions, modes, states, thresholds) ==
    [question : questions, mode : modes, symptom : states, threshold : thresholds]
Bounds(asked, r, f, x, e, t, b) ==
    [requests |-> asked,
     may |-> [request |-> r, fault |-> f, expire |-> x, edit |-> e, tick |-> t, feedback |-> b]]
NoReplies == Bounds({}, 0, 0, 0, 0, 0, 0)
MCReplyPlans ==
    {NoReplies,
     Bounds(Asked({"known", "new"}, Modes, {"none", "confirmed"}, {1, 3}), 1, 2, 0, 0, 0, 0),
     Bounds(Asked({"known"}, Modes, {"none"}, {3}), 1, 1, 0, 2, 0, 0),
     Bounds(Asked({"known", "new"}, {"", "full_review"}, {"likely", "unlikely"}, {3}), 1, 0, 1, 0, 1, 2),
     Bounds(Asked({"known"}, {"", "full_review"}, {"none"}, {3}), 2, 0, 0, 0, 0, 0),
     Bounds(Asked({"known"}, {"full_review"}, {"none"}, {3}), 2, 0, 0, 0, 1, 0),
     Bounds(Asked({"new"}, {"", "fast_draft"}, {"none"}, {3}), 2, 0, 1, 0, 0, 0)}

-------------------------------------------------------------------------------
(***************************************************************************)
(* The chat.  Two users of one company, a case of each and one of another  *)
(* company, a conversation with the number of a case, and messages that    *)
(* name a case, name a number, refer to a listing or ask a question.       *)
(***************************************************************************)
MCEmployerOf == [u \in User |-> "acme"]

Named    == [NoText EXCEPT !.code = 1, !.status = "doing"]
Numbered == [NoText EXCEPT !.number = 1]
Latest   == [NoText EXCEPT !.ref = "latest"]
MCTexts  == {Named, Numbered, Latest, NoText}

Reader == {"report.view", "portal.view"}
Editor == {"report.view", "portal.view", "report.update", "report.create"}
MCRoles == {Reader}

MCCases == [n \in 1..3 |-> [company |-> IF n = 2 THEN "globex" ELSE "acme", status |-> "open",
                            responsible |-> {IF n = 3 THEN "u2" ELSE "u1"}, from |-> 0]]
MCConversations == [n \in {1} |-> [company |-> "acme", status |-> "pending", report |-> 0]]

Limits(ask, confirm, fault, grant, expire, restart) ==
    [ask |-> ask, confirm |-> confirm, fault |-> fault, grant |-> grant, expire |-> expire, restart |-> restart]
Plan(role, opened, offers, may) ==
    [permitted |-> [u \in {"u1", "u2"} |-> role], cases |-> MCCases, conversations |-> MCConversations,
     sessions |-> opened, offered |-> offers, may |-> may]

Offer(u, t, s) == [user |-> u, tool |-> t, params |-> [target |-> 1, status |-> s]]
MCOffers == <<Offer("u1", "f13_promote_mail", None), Offer("u2", "f13_promote_mail", None),
              Offer("u1", "f8_update_case", "doing"), Offer("u2", "f10_close_case", None)>>
MCSession == <<[user |-> "u1", turns |-> <<<<[kind |-> "case", n |-> 1], [kind |-> "case", n |-> 3]>>>>]>>

\* Bounds: confirmations of four proposals made before; a turn after a listing, and what it
\* proposes; turns of two users who only read.
NoChat == Plan(Reader, <<>>, <<>>, Limits(0, 0, 0, 0, 0, 0))
MCChatPlans ==
    {NoChat,
     Plan(Editor, <<>>, MCOffers, Limits(0, 3, 2, 1, 1, 1)),
     Plan(Editor, MCSession, <<>>, Limits(1, 1, 1, 0, 1, 1)),
     Plan(Reader, MCSession, <<>>, Limits(2, 0, 0, 0, 1, 0))}

-------------------------------------------------------------------------------
GraphRests == symptoms = <<>>
RepliesRest == requests = {}
ChatRests == left = NoChat.may

MCInit ==
    /\ GraphInit /\ ReplyInit /\ ChatInit
    /\ \/ GraphRests /\ RepliesRest
       \/ GraphRests /\ ChatRests
       \/ RepliesRest /\ ChatRests

MCNext ==
    \/ ~GraphRests /\ GraphNext /\ UNCHANGED <<replyVars, chatVars>>
    \/ ~RepliesRest /\ ReplyNext /\ UNCHANGED <<graphVars, chatVars>>
    \/ ChatNext /\ UNCHANGED <<graphVars, replyVars>>

MCSpec == MCInit /\ [][MCNext]_<<graphVars, replyVars, chatVars>>

MCTypeOK == GraphTypeOK /\ ReplyTypeOK /\ ChatTypeOK

Clerks == Permutations(Clerk)
================================================================================
