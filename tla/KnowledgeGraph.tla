---------------------------- MODULE KnowledgeGraph -----------------------------
(***************************************************************************)
(* The symptoms of one company, the graph of its articles, and the search  *)
(* that uses both.  Classification names a symptom per report, the         *)
(* migrator's symptom-merge makes one of several names canonical, ingest   *)
(* and the migrator's graph-sync copy articles, reports and symptoms into  *)
(* Memgraph call by call, and /v1/search asks the graph for the articles   *)
(* that solve the symptoms of the reports it found.  Nothing makes two of  *)
(* them wait for each other, and the graph only grows.                     *)
(***************************************************************************)
EXTENDS Naturals, FiniteSets, Sequences, FiniteSetsExt, SequencesExt

CONSTANTS
    Case,       \* ids of reports
    Name,       \* what a model calls a symptom
    Close,      \* [Name -> [Name -> Nat]]: how alike two names are, 0 = below the threshold
    Agent,      \* goroutines of the worker and the API, runs of the migrator
    SyncMax,    \* articles of a graph-sync without a limit, 100 in the code
    SyncSlack,  \* articles an ingest syncs besides its own, 16 in the code
    GraphLimit, \* articles per symptom, 8 in the code
    Limit,      \* results of a search
    Missions    \* bounds: the symptoms, classes and articles at first, and how many
                \* classifications, merges, ingests, syncs, searches and faults there may be

ASSUME KnowledgeGraphAssumption ==
    /\ Case \subseteq Nat \ {0} /\ IsFiniteSet(Case)
    /\ Close \in [Name -> [Name -> Nat]]
    /\ {SyncMax, GraphLimit, Limit} \subseteq Nat \ {0} /\ SyncSlack \in Nat
    /\ \A m \in Missions :
          /\ m.names \in Seq(Name) /\ m.counts \in [DOMAIN m.names -> Nat]
          /\ m.class \in [Case -> DOMAIN m.names \union {0}] /\ m.articles \in Seq(Case \union {0})

VARIABLES
    symptoms, \* symptom_nodes by id: name, canonical_id (0 = NULL), occurrence_count
    class,    \* ai_symptom_node_id per case, 0 = not classified
    articles, \* kb_articles by id, in the order they were created: the report they come from, or 0
    graph,    \* Memgraph: nodes and edges
    agent,    \* what an agent does
    traces,    \* merges that did not run alone and to the end, syncs whose reading still holds
    mission   \* what may still happen

graphVars == <<symptoms, class, articles, graph, agent, traces, mission>>

Resting == [pc |-> "resting"]

Undertake(what) ==
    /\ mission[what] > 0
    /\ mission' = [mission EXCEPT ![what] = @ - 1]

Turns(a, task) == agent' = [agent EXCEPT ![a] = task]

\* Symptoms whose reports are classified, or are gone, and nothing is in the graph.
GraphInit ==
    \E m \in Missions :
        /\ symptoms = [i \in DOMAIN m.names |-> [name |-> m.names[i], canon |-> 0, count |-> m.counts[i]]]
        /\ class = m.class
        /\ articles = m.articles
        /\ mission = m.may
        /\ graph = [nodes |-> {}, edges |-> {}]
        /\ agent = [a \in Agent |-> Resting]
        /\ traces = [torn |-> FALSE, exact |-> {}, fresh |-> FALSE]

\* What was read for a sync, and what the graph was made from, is not what the tables hold now.
Outdate == traces' = [traces EXCEPT !.exact = {}, !.fresh = FALSE]

\* COALESCE(canonical_id, id): one step, whatever the row it leads to says.
Canonical(s) == IF s # 0 /\ symptoms[s].canon # 0 THEN symptoms[s].canon ELSE s

SymptomOf(c) == Canonical(class[c])

-----------------------------------------------------------------------------
(***************************************************************************)
(* Classification: the symptom is looked up by name or added, counted, and *)
(* written to the report, in three statements.                             *)
(***************************************************************************)
StartClassify(a, c, n) ==
    /\ agent[a] = Resting /\ class[c] = 0
    /\ Undertake("classify")
    /\ Turns(a, [pc |-> "upsert", case |-> c, name |-> n])
    /\ UNCHANGED <<symptoms, class, articles, graph, traces>>

UpsertSymptom(a) ==
    LET same == {s \in DOMAIN symptoms : symptoms[s].name = agent[a].name} IN
    /\ agent[a].pc = "upsert"
    /\ Turns(a, IF same = {} THEN [pc |-> "add", case |-> agent[a].case, name |-> agent[a].name]
                ELSE [pc |-> "count", case |-> agent[a].case, symptom |-> Canonical(Min(same))])
    /\ UNCHANGED <<symptoms, class, articles, graph, traces, mission>>

\* Another may have added the name since: then it has two rows.
InsertSymptom(a) ==
    /\ agent[a].pc = "add"
    /\ symptoms' = Append(symptoms, [name |-> agent[a].name, canon |-> 0, count |-> 1])
    /\ Turns(a, [pc |-> "write", case |-> agent[a].case, symptom |-> Len(symptoms) + 1])
    /\ UNCHANGED <<class, articles, graph, traces, mission>>

\* Its failure is ignored.
CountOccurrence(a) ==
    /\ agent[a].pc = "count"
    /\ \/ symptoms' = [symptoms EXCEPT ![agent[a].symptom].count = @ + 1] /\ UNCHANGED mission
       \/ Undertake("fault") /\ UNCHANGED symptoms
    /\ Turns(a, [pc |-> "write", case |-> agent[a].case, symptom |-> agent[a].symptom])
    /\ UNCHANGED <<class, articles, graph, traces>>

WriteSymptom(a) ==
    /\ agent[a].pc = "write"
    /\ class' = [class EXCEPT ![agent[a].case] = agent[a].symptom]
    /\ Outdate
    /\ Turns(a, Resting)
    /\ UNCHANGED <<symptoms, articles, graph, mission>>

-----------------------------------------------------------------------------
(***************************************************************************)
(* Symptom merge: the names without a canonical one, the most used first,  *)
(* each given to the closest of those kept so far.                         *)
(***************************************************************************)
\* What a merge looks at: the symptoms, and how often each was counted when they were read.
UnmergedSymptoms ==
    {[id |-> s, count |-> symptoms[s].count] : s \in {t \in DOMAIN symptoms : symptoms[t].canon = 0}}

UsedMore(r, q) == r.count > q.count \/ (r.count = q.count /\ r.id < q.id)

Merging(a) == agent[a].pc \in {"merge", "repoint"}

StartMerge(a) ==
    /\ agent[a] = Resting
    /\ Undertake("merge")
    /\ Cardinality(UnmergedSymptoms) >= 2
    /\ Turns(a, [pc |-> "merge", rows |-> UnmergedSymptoms, kept |-> <<>>])
    /\ traces' = [traces EXCEPT !.torn = @ \/ \E b \in Agent : Merging(b)]
    /\ UNCHANGED <<symptoms, class, articles, graph>>

Alike(s, t) == Close[symptoms[s].name][symptoms[t].name]

\* The closest of the kept, and of those the first.
Closest(s, kept) ==
    LET near == {i \in DOMAIN kept : Alike(s, kept[i]) > 0}
        best == {i \in near : \A j \in near : Alike(s, kept[j]) <= Alike(s, kept[i])}
    IN  IF best = {} THEN 0 ELSE kept[Min(best)]

\* The row is kept, or the first statement of SetCanonical points it to another.
MergeRow(a) ==
    /\ agent[a].pc = "merge"
    /\ \E row \in agent[a].rows :
          LET others == agent[a].rows \ {row}
              canon == Closest(row.id, agent[a].kept)
          IN  /\ \A other \in others : UsedMore(row, other)
              /\ IF canon = 0
                 THEN /\ Turns(a, [pc |-> "merge", rows |-> others, kept |-> Append(agent[a].kept, row.id)])
                      /\ UNCHANGED <<symptoms, traces>>
                 ELSE /\ symptoms' = [symptoms EXCEPT ![row.id].canon = canon]
                      /\ Turns(a, [pc |-> "repoint", rows |-> others, kept |-> agent[a].kept,
                                   row |-> row.id, canon |-> canon])
                      /\ Outdate
    /\ UNCHANGED <<class, articles, graph, mission>>

\* The second: what pointed to the row follows it.
RepointForgotten(a) ==
    /\ agent[a].pc = "repoint"
    /\ Turns(a, [pc |-> "merge", rows |-> agent[a].rows, kept |-> agent[a].kept])
    /\ UNCHANGED <<symptoms, class, articles, graph, traces, mission>>

Repoint(a) ==
    /\ agent[a].pc = "repoint"
    /\ symptoms' = [s \in DOMAIN symptoms |->
          IF symptoms[s].canon = agent[a].row THEN [symptoms[s] EXCEPT !.canon = agent[a].canon]
          ELSE symptoms[s]]
    /\ Turns(a, [pc |-> "merge", rows |-> agent[a].rows, kept |-> agent[a].kept])
    /\ Outdate
    /\ UNCHANGED <<class, articles, graph, mission>>

EndMerge(a) ==
    /\ agent[a].pc = "merge" /\ agent[a].rows = {}
    /\ Turns(a, Resting)
    /\ UNCHANGED <<symptoms, class, articles, graph, traces, mission>>

-----------------------------------------------------------------------------
(***************************************************************************)
(* Graph sync: the articles, oldest first, with the canonical symptom of   *)
(* their report, and one call after the other for each.                    *)
(***************************************************************************)
\* An ingest syncs the articles made since it began.
StartArticle(a, c) ==
    /\ agent[a] = Resting /\ c \notin ToSet(articles)
    /\ Undertake("article")
    /\ Turns(a, [pc |-> "insert", case |-> c, since |-> Len(articles) + 1])
    /\ UNCHANGED <<symptoms, class, articles, graph, traces>>

AddArticle(a) ==
    /\ agent[a].pc = "insert"
    /\ articles' = Append(articles, agent[a].case)
    /\ Turns(a, [pc |-> "read", since |-> agent[a].since, limit |-> 1 + SyncSlack])
    /\ Outdate
    /\ UNCHANGED <<symptoms, class, graph, mission>>

StartGraphSync(a) ==
    /\ agent[a] = Resting
    /\ Undertake("sync")
    /\ Turns(a, [pc |-> "read", since |-> 1, limit |-> SyncMax])
    /\ UNCHANGED <<symptoms, class, articles, graph, traces>>

Node(kind, id) == <<kind, id>>

CallOrderLinkFirst == [report |-> 1, article |-> 2, produced |-> 3, symptom |-> 5, solves |-> 4]

\* The calls for an article, one after the other.
CallOrder == [report |-> 1, article |-> 2, produced |-> 3, symptom |-> 4, solves |-> 5]

\* The calls for article k, with its report and its symptom as they are now.
Calls(k) ==
    LET c == articles[k]
        s == IF c = 0 THEN 0 ELSE SymptomOf(c)
    IN  {[call |-> call, article |-> k, case |-> c, symptom |-> s] :
            call \in {"article"} \union (IF c # 0 THEN {"report", "produced"} ELSE {})
                                 \union (IF s # 0 THEN {"symptom", "solves"} ELSE {})}

Sooner(x, y) ==
    x.article < y.article \/ (x.article = y.article /\ CallOrder[x.call] < CallOrder[y.call])

ArticlesSince(since, limit) == {k \in DOMAIN articles : since <= k /\ k < since + limit}

ReadArticles(a) ==
    LET read == ArticlesSince(agent[a].since, agent[a].limit) IN
    /\ agent[a].pc = "read"
    /\ Turns(a, [pc |-> "sync", todo |-> UNION {Calls(k) : k \in read}])
    /\ traces' = IF read = DOMAIN articles THEN [traces EXCEPT !.exact = @ \union {a}] ELSE traces
    /\ UNCHANGED <<symptoms, class, articles, graph, mission>>

\* MERGE of a node, and of an edge between two nodes that MATCH finds: without them, nothing.
UpsertNode(kind, id) == graph' = [graph EXCEPT !.nodes = @ \union {Node(kind, id)}]
UpsertEdge(type, from, to) ==
    graph' = IF {from, to} \subseteq graph.nodes
             THEN [graph EXCEPT !.edges = @ \union {[type |-> type, from |-> from, to |-> to]}]
             ELSE graph

SyncCall(a) ==
    /\ agent[a].pc = "sync"
    /\ \E now \in agent[a].todo :
          /\ \A later \in agent[a].todo \ {now} : Sooner(now, later)
          /\ \/ now.call = "report"   /\ UpsertNode("report", now.case)
             \/ now.call = "article"  /\ UpsertNode("article", now.article)
             \/ now.call = "produced" /\ UpsertEdge("PRODUCED", Node("report", now.case), Node("article", now.article))
             \/ now.call = "symptom"  /\ UpsertNode("symptom", now.symptom)
             \/ now.call = "solves"   /\ UpsertEdge("SOLVES", Node("article", now.article), Node("symptom", now.symptom))
          /\ Turns(a, [pc |-> "sync", todo |-> agent[a].todo \ {now}])
    /\ UNCHANGED <<symptoms, class, articles, traces, mission>>

EndSync(a) ==
    /\ agent[a].pc = "sync" /\ agent[a].todo = {}
    /\ Turns(a, Resting)
    /\ traces' = [traces EXCEPT !.fresh = @ \/ a \in traces.exact, !.exact = @ \ {a}]
    /\ UNCHANGED <<symptoms, class, articles, graph, mission>>

-----------------------------------------------------------------------------
(***************************************************************************)
(* Search: the reports the vectors are near to, and the articles the graph *)
(* has for their symptoms.                                                 *)
(***************************************************************************)
Types == {"report", "kb"}

StartSearch(a) ==
    /\ agent[a] = Resting
    /\ Undertake("search")
    /\ \E hits \in SUBSET Case, wanted \in {Types, {"kb"}} :
          Turns(a, IF hits = {} THEN Resting ELSE [pc |-> "rows", hits |-> hits, wanted |-> wanted])
    /\ UNCHANGED <<symptoms, class, articles, graph, traces>>

\* The distinct symptoms of the rows, each at the first row that has it.
SymptomsOf(rows) ==
    {[at |-> i, symptom |-> SymptomOf(rows[i])] :
        i \in {j \in DOMAIN rows : /\ SymptomOf(rows[j]) # 0
                                   /\ \A h \in 1..j-1 : SymptomOf(rows[h]) # SymptomOf(rows[j])}}

\* In the order the database gives them, which is not that of their scores.
CasesByIDs(a) ==
    /\ agent[a].pc = "rows"
    /\ \E rows \in SetToSeqs(agent[a].hits) :
          Turns(a, [pc |-> "anchors", rows |-> rows, wanted |-> agent[a].wanted,
                    todo |-> SymptomsOf(rows), found |-> <<>>])
    /\ UNCHANGED <<symptoms, class, articles, graph, traces, mission>>

Solving(s) == {k \in DOMAIN articles : [type |-> "SOLVES", from |-> Node("article", k), to |-> Node("symptom", s)] \in graph.edges}

\* An article is listed once, and not beside the report it was made from.
NewArticlesRepeated(a, top) == {k \in top : articles[k] \notin ToSet(agent[a].rows)}

NewArticles(a, top) ==
    {k \in top : k \notin ToSet(agent[a].found) /\ articles[k] \notin ToSet(agent[a].rows)}

\* At most GraphLimit articles for the next symptom, by a score that any order may come from.
GraphArticles(a) ==
    /\ agent[a].pc = "anchors"
    /\ \E anchor \in agent[a].todo :
          LET solving == Solving(anchor.symptom)
          IN  /\ \A later \in agent[a].todo \ {anchor} : anchor.at < later.at
              /\ \E top \in kSubset(Min({GraphLimit, Cardinality(solving)}), solving) :
                    \E listed \in SetToSeqs(NewArticles(a, top)) :
                       Turns(a, [pc |-> "anchors", rows |-> agent[a].rows, wanted |-> agent[a].wanted,
                                 todo |-> agent[a].todo \ {anchor}, found |-> agent[a].found \o listed])
    /\ UNCHANGED <<symptoms, class, articles, graph, traces, mission>>

Results(type, ids) == {[type |-> type, id |-> ids[i], rank |-> i] : i \in DOMAIN ids}

\* The n-th of each source scores 1/(60+n): the order is by rank in the source, reports first.
Ahead(r, q) == r.rank < q.rank \/ (r.rank = q.rank /\ r.type = "report" /\ q.type = "kb")
Place(r, results) == 1 + Cardinality({q \in results : Ahead(q, r)})

RrfMerge(results) ==
    {[type |-> r.type, id |-> r.id, place |-> Place(r, results)] :
        r \in {q \in results : Place(q, results) <= Limit}}

AnswerSearch(a) ==
    /\ agent[a].pc = "anchors" /\ agent[a].todo = {}
    /\ Turns(a, [pc |-> "answered", rows |-> agent[a].rows, results |->
          RrfMerge((IF "report" \in agent[a].wanted THEN Results("report", agent[a].rows) ELSE {})
                   \union Results("kb", agent[a].found))])
    /\ UNCHANGED <<symptoms, class, articles, graph, traces, mission>>

EndSearch(a) ==
    /\ agent[a].pc = "answered"
    /\ Turns(a, Resting)
    /\ UNCHANGED <<symptoms, class, articles, graph, traces, mission>>

-----------------------------------------------------------------------------
\* A call fails or a process dies, and nothing it did is undone.
Fails(a) ==
    /\ agent[a] # Resting
    /\ Undertake("fault")
    /\ Turns(a, Resting)
    /\ traces' = [traces EXCEPT !.torn = @ \/ agent[a].pc = "repoint", !.exact = @ \ {a}]
    /\ UNCHANGED <<symptoms, class, articles, graph>>

GraphNext ==
    \E a \in Agent :
        \/ \E c \in Case : StartArticle(a, c) \/ \E n \in Name : StartClassify(a, c, n)
        \/ UpsertSymptom(a) \/ InsertSymptom(a) \/ CountOccurrence(a) \/ WriteSymptom(a)
        \/ StartMerge(a) \/ MergeRow(a) \/ Repoint(a) \/ EndMerge(a)
        \/ AddArticle(a) \/ StartGraphSync(a) \/ ReadArticles(a) \/ SyncCall(a) \/ EndSync(a)
        \/ StartSearch(a) \/ CasesByIDs(a) \/ GraphArticles(a) \/ AnswerSearch(a) \/ EndSearch(a)
        \/ Fails(a)

GraphSpec == GraphInit /\ [][GraphNext]_graphVars

-----------------------------------------------------------------------------
GraphTypeOK ==
    /\ \A s \in DOMAIN symptoms :
          symptoms[s].name \in Name /\ symptoms[s].canon \in 0..Len(symptoms) /\ symptoms[s].count \in Nat
    /\ class \in [Case -> 0..Len(symptoms)]
    /\ articles \in Seq(Case \union {0})
    /\ \A e \in graph.edges : {e.from, e.to} \subseteq graph.nodes
    /\ traces \in [torn : BOOLEAN, exact : SUBSET Agent, fresh : BOOLEAN]

(***************************************************************************)
(* One step leads to the canonical symptom, which is all that ArticlesSince*)
(* and CasesByIDs take: no symptom points to one that points on, or to     *)
(* itself, unless merges ran at once or one broke off between its two      *)
(* statements.  Classifications may count and add symptoms meanwhile.      *)
(***************************************************************************)
MergedIsFlat ==
    ~traces.torn /\ (\A a \in Agent : agent[a].pc # "repoint") =>
        \A s \in DOMAIN symptoms : symptoms[s].canon # 0 => symptoms[symptoms[s].canon].canon = 0

(***************************************************************************)
(* After a graph-sync that read every article, and until a table changes,  *)
(* the graph has, for the symptom of a report, every article made from a   *)
(* report of the same symptom: what else was synced at the same time, or   *)
(* broke off before, does not matter.                                      *)
(***************************************************************************)
SyncedIsFound ==
    traces.fresh => \A c \in Case, k \in DOMAIN articles :
        SymptomOf(c) # 0 /\ articles[k] # 0 /\ SymptomOf(articles[k]) = SymptomOf(c) =>
            k \in Solving(SymptomOf(c))

(***************************************************************************)
(* A search lists nothing twice, no article beside the report it was made  *)
(* from, though an article may solve several symptoms by now, and the      *)
(* first of either source within the first two results.                    *)
(***************************************************************************)
ResultsAreDistinct ==
    \A a \in Agent : agent[a].pc = "answered" =>
        LET results == agent[a].results
            articlesIn == {r \in results : r.type = "kb"}
        IN  /\ \A r, q \in results : r.place = q.place \/ (r.type = q.type /\ r.id = q.id) => r = q
            /\ \A r \in results : r.place \in 1..Limit
            /\ \A r \in articlesIn : articles[r.id] \notin ToSet(agent[a].rows)
            /\ articlesIn # {} /\ Limit >= 2 => \E r \in articlesIn : r.place <= 2

(***************************************************************************)
(* The three: from the merged symptoms through the graph to what a search  *)
(* answers, nothing is lost on the way and nothing listed twice.           *)
(***************************************************************************)
SearchIsSound == MergedIsFlat /\ SyncedIsFound /\ ResultsAreDistinct
===============================================================================
