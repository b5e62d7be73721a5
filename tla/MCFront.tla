------------------------------- MODULE MCFront -------------------------------
(***************************************************************************)
(* What a request meets on its way: the gateway with its token, flags and  *)
(* tenant, the webhook of the channels, the assessment of the mail it      *)
(* brought, the models it asks, and the report of their usage.  The five   *)
(* share no state here, and an initial state lets one of them move.        *)
(***************************************************************************)
EXTENDS Gateway, MailRouting, MailAssessment, ModelAccess, UsageReport

(***************************************************************************)
(* Two companies; a token of each, and one nobody signed.                  *)
(***************************************************************************)
ServiceToken(c, perms, cov, sound, exp) ==
    [cid |-> c, perms |-> perms, cov |-> cov, sound |-> sound, exp |-> exp, nbf |-> 0]
MCToken ==
    {ServiceToken(1, {"ai:reply:create"}, {2}, TRUE, 2),
     ServiceToken(2, {"activity.*"}, {}, TRUE, 0),
     ServiceToken(1, {"*"}, {}, FALSE, 2)}
MCFamily == [family \in {"activity.*"} |-> {"activity.view"}]

MCPolicy == [fallback |-> 1, headroom |-> 1, min |-> 0, max |-> 2]

Deployment(secured, requireAuth, statements, request, job, move, toggle, trouble, tick) ==
    [secured |-> secured, requireAuth |-> requireAuth, statements |-> statements,
     may |-> [request |-> request, job |-> job, move |-> move, toggle |-> toggle, trouble |-> trouble, tick |-> tick]]
NoRequests == Deployment(TRUE, TRUE, 1, 0, 0, 0, 0, 0, 0)
MCGatewayPlans ==
    {NoRequests,
     Deployment(TRUE, TRUE, 1, 2, 0, 0, 1, 0, 3),
     Deployment(TRUE, TRUE, 2, 1, 0, 1, 1, 1, 1),
     Deployment(TRUE, TRUE, 2, 1, 1, 1, 0, 0, 0),
     Deployment(TRUE, TRUE, 2, 0, 2, 2, 0, 1, 0),
     Deployment(FALSE, TRUE, 1, 1, 0, 0, 0, 0, 0),
     Deployment(FALSE, FALSE, 1, 1, 0, 1, 0, 0, 0)}

-------------------------------------------------------------------------------
(***************************************************************************)
(* Two connections; the second credential of a connection lists fewer      *)
(* models.  The routes differ in what they fall back on and whether they   *)
(* allow another model than the one selected.                              *)
(***************************************************************************)
MCConnection == {1, 2}
MCOffered == <<{"m", "n"}, {"n"}>>
Chain(substitution) ==
    [cands |-> <<[conn |-> 1, model |-> "m"], [conn |-> 2, model |-> "n"]>>, max |-> 2,
     fallback |-> {"rate_limit", "error"}, substitution |-> substitution]
MCRoutes == {Chain(TRUE), Chain(FALSE)}

MCPins == {[conn |-> 1, model |-> "m"], [conn |-> 0, model |-> "n"]}

Plan(first, modes, c, e, r, n, f, x, t) ==
    [route |-> first, modes |-> modes,
     may |-> [call |-> c, edit |-> e, route |-> r, connection |-> n, refresh |-> f, fault |-> x,
              tick |-> t]]
NoCalls == Plan(NoRoute, {"off"}, 0, 0, 0, 0, 0, 0, 0)
MCPlans ==
    {NoCalls,
     Plan(NoRoute, {"off"}, 2, 1, 0, 0, 0, 0, 5),
     Plan(NoRoute, {"off"}, 4, 0, 0, 0, 0, 3, 1),
     Plan(NoRoute, {"quota"}, 3, 0, 0, 0, 0, 2, 1),
     Plan(NoRoute, {"error"}, 2, 1, 1, 0, 0, 0, 0),
     Plan(Chain(TRUE), {"off"}, 1, 1, 0, 1, 1, 2, 0),
     Plan(Chain(FALSE), {"off"}, 1, 0, 0, 2, 2, 1, 0)}

-------------------------------------------------------------------------------
(***************************************************************************)
(* The clock of the database starts a tick before midnight.                *)
(***************************************************************************)
Quota(c, r, t, f, ops, companies, asked) ==
    [may |-> [request |-> c, report |-> r, tick |-> t, fault |-> f], ops |-> ops,
     companies |-> companies, asked |-> asked]
NoUsage == Quota(0, 0, 0, 0, {}, {}, {})
MCQuotas ==
    {NoUsage,
     Quota(2, 0, 1, 1, {"generate", "stream"}, {0, 1}, {}),
     Quota(1, 1, 1, 0, {"generate"}, {1}, {1, 3}),
     Quota(2, 1, 0, 0, {"generate"}, {1, 2}, {0}),
     Quota(1, 1, 0, 1, {"generate"}, {1}, {0})}

-------------------------------------------------------------------------------
(***************************************************************************)
(* Account 1 waits for its verification mail and has a routing key and an  *)
(* alias; account 2, of another company, has both in use; accounts 3 and 4 *)
(* are LINE's, with a secret of its own and without.                       *)
(***************************************************************************)
Registry(channel, company, address, key, aliases, code, secret) ==
    [channel |-> channel, company |-> company, address |-> address, key |-> key,
     aliases |-> aliases, code |-> code, secret |-> secret, verified |-> code = ""]
MCRegistered ==
    <<Registry("email", "us", "desk@us", "k1", {"sales@us"}, "C1", ""),
      Registry("email", "them", "desk@them", "k2", {"help@them"}, "", ""),
      Registry("line", "us", "bot", "", {}, "", "s3"), Registry("line", "them", "bot4", "", {}, "", "")>>

To(addr) == [addr |-> addr, key |-> CASE addr = "in+k1" -> "k1" [] addr = "in+k2" -> "k2" [] OTHER -> ""]
Email(id, to) ==
    [channel |-> "email", id |-> id, type |-> "message", sender |-> "ann", to |-> [k \in DOMAIN to |-> To(to[k])],
     code |-> "", confirm |-> "", ref |-> "", case |-> "", files |-> <<>>]
Talk(id, type, sender, destination) ==
    [Email(id, <<destination>>) EXCEPT !.channel = "line", !.type = type, !.sender = sender]

Posted(mail) == [channel |-> "email", signed |-> "webhook", events |-> <<mail>>]
Sent(signed, events) == [channel |-> "line", signed |-> signed, events |-> events]

Verification == Posted([Email("v", <<"in+k1">>) EXCEPT !.code = "C1"])
Confirmation(id, to) == Posted([Email(id, to) EXCEPT !.confirm = id])
Plain == Posted([Email("m", <<"help@them", "in+k1">>) EXCEPT !.files = <<2, 2, 1>>])
Direct == Posted(Email("d", <<"desk@us", "in+k2">>))
Stray == Posted(Email("s", <<"sales@us", "help@them">>))
Opening == Posted([Email("o", <<"desk@them">>) EXCEPT !.case = "REP-1"])
FollowUp == Posted([Email("f", <<"desk@them">>) EXCEPT !.ref = "o"])
Chatter == Sent("s3", <<Talk("l1", "follow", "joe", "bot"), [Talk("l2", "message", "joe", "bot") EXCEPT !.files = <<9>>],
                        Talk("l3", "other", "joe", "bot"), Talk("l4", "message", "", "bot")>>)
Shared == Sent("env", <<Talk("l5", "message", "joe", "bot4"), Talk("l6", "message", "kim", "bot4")>>)
Silent == Sent("s3", <<Talk("l7", "message", "", "bot")>>)
Forged == [Plain EXCEPT !.signed = "other"]
Lost == Posted(Email("x", <<"nobody">>))

MCHooks ==
    {Verification, Confirmation("f1", <<"in+k0", "in+k1">>), Confirmation("f2", <<"in+k2", "in+k1">>), Plain, Direct,
     Stray, Opening, FollowUp, Chatter, Shared, Silent, Forged, Lost}
MCCases == "REP-1" :> [company |-> "them", customer |-> 7]
MCSenderCustomer == <<"them", "ann">> :> 5

Sends(hooks, s, f, c) == [hooks |-> hooks, may |-> [send |-> s, fault |-> f, change |-> c]]
NoWebhooks == Sends({}, 0, 0, 0)
MCRoutingPlans ==
    {NoWebhooks,
     Sends({Verification, Direct, Confirmation("f1", <<"in+k0", "in+k1">>)}, 3, 0, 1),
     Sends({Verification, Confirmation("f2", <<"in+k2", "in+k1">>), Plain}, 2, 2, 0),
     Sends({Plain, Stray}, 2, 1, 1),
     Sends({Opening, FollowUp}, 2, 1, 0),
     Sends({Chatter, Silent}, 2, 1, 0), Sends({Chatter, Forged}, 2, 0, 1),
     Sends({Shared, Lost}, 2, 1, 1)}

-------------------------------------------------------------------------------
(***************************************************************************)
(* All the evidence a mail can give, and all answers of a model, with      *)
(* settings that stay; and a few mails whose company changes its mind.     *)
(***************************************************************************)
Mood(evaluation, rules, ai, auto, threshold) ==
    [evaluation |-> evaluation, rules |-> rules, ai |-> ai, auto |-> auto, threshold |-> threshold, keywords |-> TRUE]
Usual == Mood(TRUE, TRUE, TRUE, TRUE, 0)
Careful == Mood(TRUE, TRUE, TRUE, TRUE, 90)
ByHand == Mood(TRUE, TRUE, TRUE, FALSE, 40)
Lax == Mood(TRUE, FALSE, TRUE, TRUE, 100)
NoModel == Mood(TRUE, TRUE, FALSE, TRUE, 0)
Off == Mood(FALSE, TRUE, TRUE, TRUE, 0)
MCSettings == {Usual, Careful, ByHand, Lax, NoModel, Off}

MCTrees == {<<"robot", "arm", "dock">>, <<"arm">>, <<>>}
MCPath == <<1, 2, 3>>
MCDefinitions ==
    <<{[key |-> "serial", required |-> TRUE]}, {[key |-> "product", required |-> TRUE], [key |-> "site", required |-> FALSE]}, {}>>

Answers(classes, catalogs, products, fields) ==
    [class : classes, catalog : catalogs, product : products, fields : fields]
Readings == Answers({"new_issue", "status_query", ""}, {"yes", "no"}, {"", "dock"}, {{}})
Claims == Answers({"new_issue"}, {"yes"}, {"arm", "robot"}, {{"problem_detail"}})

Letter(evidence, images, words, given) ==
    [evidence |-> evidence, images |-> images, words |-> words, empty |-> FALSE, provider |-> TRUE, answers |-> given]
Headers == {"list_unsubscribe", "auto_submitted", "sender_no_reply", "precedence_bulk", "referenced_case", "has_attachments"}
AllMails ==
    {Letter(headers \union shape, images, words, Readings) :
        headers \in SUBSET Headers, shape \in {{}, {"link_heavy"}}, images \in {TRUE, FALSE},
        words \in {TRUE, FALSE}}
Plainest == Letter({}, FALSE, FALSE, Claims)
FewMails ==
    {Plainest, [Plainest EXCEPT !.provider = FALSE], [Plainest EXCEPT !.empty = TRUE],
     Letter({"auto_submitted", "has_attachments"}, TRUE, TRUE, Claims)}

Mailed(mails, modes, set, saves, errors) ==
    [mails |-> mails, modes |-> modes, settings |-> set, tree |-> <<"robot", "arm", "dock">>, saves |-> saves, errors |-> errors]
NoAssessments == Mailed({Plainest}, {"none"}, Usual, 0, 0)
MCAssessPlans ==
    {NoAssessments,
     Mailed(AllMails, {"inline"}, Usual, 0, 0)}
        \union {Mailed(FewMails, {"inline", "queued"}, set, 1, 1) : set \in MCSettings}

-------------------------------------------------------------------------------
GatewayRests == mode = NoRequests
RoutingRests == sendable = {}
AssessmentRests == \A c \in Conversation : assessing[c].mode = "none"
CallsRest == left = NoCalls.may
UsageRests == quota = NoUsage

MCInit ==
    /\ GatewayInit
    /\ RoutingInit /\ (RoutingRests \/ GatewayRests)
    /\ Init /\ (CallsRest \/ (GatewayRests /\ RoutingRests))
    /\ UsageInit /\ (UsageRests \/ (GatewayRests /\ RoutingRests /\ CallsRest))
    /\ AssessInit
    /\ AssessmentRests \/ (GatewayRests /\ RoutingRests /\ CallsRest /\ UsageRests)

MCNext ==
    \/ ~GatewayRests /\ GatewayNext /\ UNCHANGED <<routingVars, assessVars, vars, usageVars>>
    \/ ~RoutingRests /\ RoutingNext /\ UNCHANGED <<gatewayVars, assessVars, vars, usageVars>>
    \/ ~AssessmentRests /\ AssessNext /\ UNCHANGED <<gatewayVars, routingVars, vars, usageVars>>
    \/ Next /\ UNCHANGED <<gatewayVars, routingVars, assessVars, usageVars>>
    \/ ~UsageRests /\ UsageNext /\ UNCHANGED <<gatewayVars, routingVars, assessVars, vars>>

MCSpec == MCInit /\ [][MCNext]_<<gatewayVars, routingVars, assessVars, vars, usageVars>>

MCTypeOK == GatewayTypeOK /\ RoutingTypeOK /\ AssessTypeOK /\ TypeOK /\ UsageTypeOK

\* Whoever serves a request, receives a webhook or makes a call is one of the same two.
Clerks == Permutations(Server) \union Permutations(Refresher)
==============================================================================
