----------------------------- MODULE ToolSelection -----------------------------
(***************************************************************************)
(* What the tools of the chat can make of a message.  Routing and          *)
(* selection compare embeddings, so any intent and any tool whose          *)
(* conditions hold may come out on top; what is kept is which tools the    *)
(* user's permissions leave, where the parameters of a selection come      *)
(* from, and what the outcome makes of the turn.  Cases and conversations  *)
(* are numbered by two tables, so a number may name one of each.           *)
(***************************************************************************)
EXTENDS Integers, Sequences

None == "none"

\* The deployed tools that write, or whose rows later turns may refer to.
Catalog ==
    [f1_find_cases    |-> [perm |-> "report.view",   write |-> FALSE, needs |-> {}],
     f8_update_case   |-> [perm |-> "report.update", write |-> TRUE,  needs |-> {"target", "status"}],
     f9_assign_case   |-> [perm |-> "report.assign", write |-> TRUE,  needs |-> {"target"}],
     f10_close_case   |-> [perm |-> "report.update", write |-> TRUE,  needs |-> {"target"}],
     f12_inbound_read |-> [perm |-> "portal.view",   write |-> FALSE, needs |-> {}],
     f13_promote_mail |-> [perm |-> "report.create", write |-> TRUE,  needs |-> {"target"}]]

Tool == DOMAIN Catalog
Permission == {Catalog[t].perm : t \in Tool}

\* A message: a case code, a bare number, a status, or words that refer to something
\* listed before.
NoText == [code |-> 0, number |-> 0, status |-> None, ref |-> None]
Reference == {None, "latest", "second", "it"}
Status == {None, "waiting", "doing", "done"}
Text == [code : Nat, number : Nat, status : Status, ref : Reference]
Params == [target : Nat, status : Status]

\* What a reply cites: case codes or conversation ids, in the order shown.
Cite == [kind : {"case", "conversation"}, n : Nat]

ResolveReference(text, candidates) ==
    CASE text.ref = "second" /\ Len(candidates) >= 2 -> candidates[2]
      [] text.ref = "latest" /\ candidates # <<>>    -> candidates[1]
      [] text.ref = "it" /\ Len(candidates) = 1      -> candidates[1]
      [] OTHER -> 0

\* The candidates a parameter's pattern matches: the pattern of a conversation is any
\* number, and the number in the code of a case is one.  A turn cites by one key, so the
\* pattern of a code matches all of its candidates or none.
Numbers(cites) == [i \in DOMAIN cites |-> cites[i].n]
Codes(cites) == IF \A i \in DOMAIN cites : cites[i].kind = "case" THEN Numbers(cites) ELSE <<>>

CodeOf(text, cites) ==
    IF text.code # 0 THEN text.code ELSE ResolveReference(text, Codes(cites))

ConversationOf(text, cites) ==
    CASE text.number # 0 -> text.number
      [] text.code # 0   -> text.code
      [] OTHER -> ResolveReference(text, Numbers(cites))

TargetOf(t, text, cites) ==
    CASE Catalog[t].needs = {}     -> 0
      [] t = "f13_promote_mail"    -> ConversationOf(text, cites)
      [] OTHER                     -> CodeOf(text, cites)

Extract(t, text, cites) ==
    [target |-> TargetOf(t, text, cites), status |-> IF "status" \in Catalog[t].needs THEN text.status ELSE None]

Missing(t, params) ==
    {p \in Catalog[t].needs : IF p = "target" THEN params.target = 0 ELSE params.status = None}

Permitted(perms) == {t \in Tool : Catalog[t].perm \in perms}

\* A selection: a tool, its parameters and what found them, or no tool: which parameters it
\* lacks, and whether a missing permission hid some tool.
Finder == {"patterns", "model"}
Matched(t, params, by) == [tool |-> t, params |-> params, by |-> by, missing |-> {}, filtered |-> FALSE]
Unmatched(missing, filtered) ==
    [Matched(None, [target |-> 0, status |-> None], None) EXCEPT !.missing = missing, !.filtered = filtered]
Failed == [Unmatched({}, FALSE) EXCEPT !.tool = "error"]

\* The embedding selector: a match has all its parameters; it may match nothing, and then
\* say what the best tool lacks.
TierOne(perms, text, cites) ==
    LET params(t) == Extract(t, text, cites)
        lacking(t) == Missing(t, params(t))
        filtered == Permitted(perms) # Tool
    IN  {Matched(t, params(t), "patterns") : t \in {u \in Permitted(perms) : lacking(u) = {}}}
        \union {Unmatched(lacking(t), filtered) : t \in Permitted(perms)}
        \union {Unmatched({}, filtered), Failed}

\* The values a model may give the parameters of a tool.
Declared(t, guesses) ==
    [target : IF "target" \in Catalog[t].needs THEN guesses \union {0} ELSE {0},
     status : IF "status" \in Catalog[t].needs THEN Status ELSE {None}]

\* The model selector: any permitted tool, or none.  The prompt asks it to copy what it
\* names from the message or the transcript; its values are taken as they are, whether the
\* message holds them or not.
TierTwo(perms, guesses) ==
    (UNION {{Matched(t, p, "model") : p \in Declared(t, guesses)} : t \in Permitted(perms)})
    \union {Unmatched({}, FALSE)}

\* The cascade: an unsure or failed first tier gives way to the second, which when it
\* fails gives way back.
Selections(perms, text, cites, guesses) ==
    TierOne(perms, text, cites) \union TierTwo(perms, guesses)

Intent == {"authoritative", "handoff", "social", "off_topic", "support"}

\* What a turn becomes.
KindOf(intent, s) ==
    CASE intent = "social"                      -> "social"
      [] s.tool \in Tool                        -> "tool"
      [] s.missing # {}                         -> "clarify"
      [] intent = "authoritative" /\ s = Failed -> "tool_failed"
      [] intent = "authoritative"               -> IF s.filtered THEN "permission_denied" ELSE "clarify"
      [] intent \in {"handoff", "off_topic"}    -> intent
      [] OTHER                                  -> "generative"
===============================================================================
