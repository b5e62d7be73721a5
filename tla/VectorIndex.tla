------------------------------ MODULE VectorIndex ------------------------------
(***************************************************************************)
(* The knowledge base and its vectors.  ingest:report turns reports into   *)
(* articles cut in chunks and indexes them, embedding:refresh and the      *)
(* embedder index what is left, online or through batch jobs of the        *)
(* provider, and reembed rebuilds a collection from the reports.  MySQL    *)
(* knows which content of a chunk is embedded (kb_embeddings), Qdrant      *)
(* holds the vectors: no transaction spans the two, so all of these tasks  *)
(* run at once and each may fail between its calls.                        *)
(***************************************************************************)
EXTENDS Naturals, FiniteSets, Sequences, FiniteSetsExt

CONSTANTS
    Company, Report, \* ids
    Owner,           \* [Report -> Company]
    Pieces,          \* [Report -> pieces ChunkText cuts its body into]
    Runner,          \* goroutines of the worker and processes of the embedder
    BatchSize,       \* chunks per embedding call, 64 in the code
    RefreshMax,      \* chunks per embedding:refresh
    WaveSize,        \* chunks embed-batch-run submits at once
    MaxPerJob,       \* chunks per job of embed-batch-submit
    ParentGroup,     \* pieces per parent chunk, 3 in the code
    Stride,          \* point ids per report of reembed, 1000 in the code
    Dim, OtherDim,   \* dimension of the configured embedder and of another
    IndexPlans,      \* bounds: the chunks there are, and how many ingests, batch commands
                     \* that submit or only collect, reembeds, edits of a chunk and faults
                     \* (failing calls and deaths) there may be
    Scopes           \* sets of companies a batch command is given, {} = it only collects

ASSUME VectorIndexAssumption ==
    /\ Report \subseteq Nat \ {0} /\ IsFiniteSet(Report)
    /\ Owner \in [Report -> Company] /\ Pieces \in [Report -> Nat]
    /\ {BatchSize, RefreshMax, WaveSize, MaxPerJob, ParentGroup, Stride, Dim, OtherDim} \subseteq Nat \ {0}
    /\ Dim # OtherDim
    /\ Scopes \subseteq SUBSET Company
    /\ \A p \in IndexPlans : p.chunks \in Seq([report : Report, ver : {1}, kind : {"parent", "child"}])
    /\ \A p \in IndexPlans : p.may \in [{"ingest", "batch", "collect", "reembed", "edit", "fault"} -> Nat]

VARIABLES
    chunks,     \* kb_chunks joined with kb_articles, by id
    embedded,   \* kb_embeddings of the model: content recorded per chunk, 0 = none
    collection, \* Qdrant, per company: dimension (0 = absent) and points by id
    runner,     \* the task of a runner
    jobs,       \* kb_embedding_batches and the provider's jobs
    ghost,      \* chunks of which an old text was embedded, companies reembedded
    bounds      \* what may still happen

indexVars == <<chunks, embedded, collection, runner, jobs, ghost, bounds>>

Absent == [dim |-> 0, points |-> <<>>]
Idle == [pc |-> "idle"]

Id == DOMAIN chunks
CompanyOf(id) == Owner[chunks[id].report]

\* The contents of chunks as they were read: what Embed is given.
Text(ids) == {[id |-> id, ver |-> chunks[id].ver] : id \in ids}
IdsOf(texts) == {t.id : t \in texts}

\* Chunks are numbered one after the other, a parent before its children.
ChunkRows(r) ==
    LET parents == (Pieces[r] + ParentGroup - 1) \div ParentGroup
    IN  [k \in 1..Pieces[r] + parents |->
            [report |-> r, ver |-> 1,
             kind |-> IF (k - 1) % (ParentGroup + 1) = 0 THEN "parent" ELSE "child"]]

\* Some reports have their articles; nothing is embedded.
IndexInit ==
    /\ \E p \in IndexPlans : chunks = p.chunks /\ bounds = p.may
    /\ embedded = [id \in DOMAIN chunks |-> 0]
    /\ collection = [c \in Company |-> Absent]
    /\ runner = [w \in Runner |-> Idle]
    /\ jobs = <<>>
    /\ ghost = [raced |-> {}, reembedded |-> {}]

Become(w, task) == runner' = [runner EXCEPT ![w] = task]

Spend(what) ==
    /\ bounds[what] > 0
    /\ bounds' = [bounds EXCEPT ![what] = @ - 1]

Tables == <<chunks, embedded>>

-----------------------------------------------------------------------------
(***************************************************************************)
(* Qdrant.                                                                 *)
(***************************************************************************)
\* A conflict is no error: a collection keeps the dimension it was made with.
EnsureCollection(coll, dim) == IF coll.dim = 0 THEN [coll EXCEPT !.dim = dim] ELSE coll

RecreateCollection(dim) == [dim |-> dim, points |-> <<>>]

\* A point of the same id is replaced.
WithPointsKept(coll, new) ==
    [coll EXCEPT !.points = [id \in DOMAIN coll.points \union DOMAIN new |->
        IF id \in DOMAIN coll.points THEN coll.points[id] ELSE new[id]]]

WithPoints(coll, new) ==
    [coll EXCEPT !.points = [id \in DOMAIN coll.points \union DOMAIN new |->
        IF id \in DOMAIN new THEN new[id] ELSE coll.points[id]]]

\* Vectors of another dimension are refused.
Upsert(c, dim, new) ==
    LET coll == EnsureCollection(collection[c], dim)
    IN  /\ coll.dim = dim
        /\ collection' = [collection EXCEPT ![c] = WithPoints(coll, new)]

\* The points of texts, by chunk id, each with kb_chunk_id in its payload.
ChunkPoints(texts) ==
    [id \in IdsOf(texts) |-> [kind |-> "chunk", ver |-> (CHOOSE t \in texts : t.id = id).ver]]

-----------------------------------------------------------------------------
(***************************************************************************)
(* The Bootstrapper: one article per report, cut in parent and child       *)
(* chunks.  The article is looked for before it is inserted.               *)
(***************************************************************************)
ReportsOf(c) == {r \in Report : Owner[r] = c}

\* A report without a body is skipped.  Reports are taken in the order of their ids.
ReadReports(c) == {r \in ReportsOf(c) : Pieces[r] > 0}
Foremost(reports) == {r \in reports : \A q \in reports : r <= q}

StartIngest(w, c) ==
    /\ runner[w] = Idle
    /\ Spend("ingest")
    /\ Become(w, [pc |-> "article", company |-> c, todo |-> ReadReports(c)])
    /\ UNCHANGED <<Tables, collection, jobs, ghost>>

HasArticle(r) == \E id \in Id : chunks[id].report = r

\* A run of the Indexer.  limit = 0 is no limit.
IndexRun(c, limit) ==
    [pc |-> "next", company |-> c, after |-> 0, limit |-> limit, done |-> 0, texts |-> {}]

FindArticle(w) ==
    /\ runner[w].pc = "article"
    /\ \/ runner[w].todo = {} /\ Become(w, IndexRun(runner[w].company, 0))
       \/ \E r \in Foremost(runner[w].todo) :
             Become(w, IF HasArticle(r) THEN [runner[w] EXCEPT !.todo = @ \ {r}]
                       ELSE [runner[w] EXCEPT !.pc = "insert"])
    /\ UNCHANGED <<Tables, collection, jobs, ghost, bounds>>

InsertArticle(w) ==
    /\ runner[w].pc = "insert"
    /\ \E r \in Foremost(runner[w].todo) :
          /\ chunks' = chunks \o ChunkRows(r)
          /\ embedded' = embedded \o [k \in DOMAIN ChunkRows(r) |-> 0]
          /\ Become(w, [runner[w] EXCEPT !.pc = "article", !.todo = @ \ {r}])
    /\ UNCHANGED <<collection, jobs, ghost, bounds>>

-----------------------------------------------------------------------------
(***************************************************************************)
(* The Indexer: batches of chunks whose content is not the embedded one.   *)
(***************************************************************************)
Unembedded(c) ==
    {id \in Id : chunks[id].kind = "child" /\ CompanyOf(id) = c /\ embedded[id] # chunks[id].ver}

\* The first n of ids, in the order of ids.
First(ids, n) == {id \in ids : Cardinality({i \in ids : i <= id}) <= n}

NextChunksUnseen(c, after, n) == First({id \in Unembedded(c) : id > after /\ embedded[id] = 0}, n)

NextChunks(c, after, n) == First({id \in Unembedded(c) : id > after}, n)

\* Every six hours the scheduler enqueues this for each company; a refresh that
\* finds nothing changes nothing and is left out.
StartRefresh(w, c) ==
    /\ runner[w] = Idle
    /\ Unembedded(c) # {}
    /\ Become(w, IndexRun(c, RefreshMax))
    /\ UNCHANGED <<Tables, collection, jobs, ghost, bounds>>

ReadLimit(run) ==
    IF run.limit > 0 THEN Min({BatchSize, run.limit - run.done}) ELSE BatchSize

NextBatch(w) ==
    /\ runner[w].pc = "next"
    /\ LET batch == NextChunks(runner[w].company, runner[w].after, ReadLimit(runner[w]))
       IN  Become(w, IF batch = {} THEN Idle
                     ELSE [runner[w] EXCEPT !.pc = "upsert", !.texts = Text(batch)])
    /\ UNCHANGED <<Tables, collection, jobs, ghost, bounds>>

IndexUpsertUnchecked(w) ==
    /\ runner[w].pc = "upsert"
    /\ \/ Upsert(runner[w].company, Dim, ChunkPoints(runner[w].texts)) /\ UNCHANGED bounds
       \/ Spend("fault") /\ UNCHANGED collection
    /\ Become(w, [runner[w] EXCEPT !.pc = "mark"])
    /\ UNCHANGED <<Tables, jobs, ghost>>

IndexUpsert(w) ==
    /\ runner[w].pc = "upsert"
    /\ Upsert(runner[w].company, Dim, ChunkPoints(runner[w].texts))
    /\ Become(w, [runner[w] EXCEPT !.pc = "mark"])
    /\ UNCHANGED <<Tables, jobs, ghost, bounds>>

\* The hash recorded is the one the chunk has now.
Mark(ids) ==
    embedded' = [id \in DOMAIN embedded |-> IF id \in ids THEN chunks[id].ver ELSE embedded[id]]

IndexMark(w) ==
    /\ runner[w].pc = "mark"
    /\ LET ids == IdsOf(runner[w].texts)
       IN  /\ Mark(ids)
           /\ Become(w, [IndexRun(runner[w].company, runner[w].limit)
                           EXCEPT !.after = Max(ids), !.done = runner[w].done + Cardinality(ids)])
    /\ UNCHANGED <<chunks, collection, jobs, ghost, bounds>>

-----------------------------------------------------------------------------
(***************************************************************************)
(* Batch jobs of the provider.  embed-batch-run collects the jobs that are *)
(* done and, when none is in flight, submits the chunks that are left;     *)
(* embed-batch-collect and embed-batch-submit are its two halves, and the  *)
(* first can be given the name of one job.                                 *)
(***************************************************************************)
\* Neither ingested nor failed, as far as the rows say.
ListActive == {k \in DOMAIN jobs : jobs[k].row = "active"}

\* A job given by its name is collected whatever its row says, also for the second time.
LoadBatchJobs(cs, collects) ==
    CASE ~collects -> {{}}
      [] collects /\ cs # {} -> {ListActive}
      [] collects /\ cs = {} -> {ListActive} \union {{k} : k \in DOMAIN jobs}

StartBatch(w, cs, collects) ==
    /\ runner[w] = Idle
    /\ cs # {} \/ collects
    /\ Spend(IF cs = {} THEN "collect" ELSE "batch")
    /\ \E loaded \in LoadBatchJobs(cs, collects) :
          Become(w, [pc |-> "poll", busy |-> FALSE, scope |-> cs, wave |-> collects,
                     todo |-> loaded, job |-> 0, left |-> {}, texts |-> {}])
    /\ UNCHANGED <<Tables, collection, jobs, ghost>>

\* The job of a finished poll, and the texts the file of its results has vectors of.
Collect(run, k) == [run EXCEPT !.pc = "ingest", !.job = k, !.left = jobs[k].texts]

\* The chunks that were edited since the texts of a job were read: nobody compares them.
Outdated(k) == IdsOf({t \in jobs[k].texts : t.ver # chunks[t.id].ver})

\* What a failed job held is not embedded and is submitted again.
PollJob(w, k) ==
    /\ runner[w].pc = "poll" /\ k \in runner[w].todo
    /\ Become(w, CASE jobs[k].provider = "pending" ->
                        [runner[w] EXCEPT !.todo = @ \ {k}, !.busy = TRUE]
                   [] jobs[k].provider = "failed" -> [runner[w] EXCEPT !.todo = @ \ {k}]
                   [] jobs[k].provider = "succeeded" -> Collect(runner[w], k))
    /\ jobs' = IF jobs[k].provider = "failed" THEN [jobs EXCEPT ![k].row = "failed"] ELSE jobs
    /\ ghost' = IF jobs[k].provider = "succeeded" THEN [ghost EXCEPT !.raced = @ \union Outdated(k)]
                ELSE ghost
    /\ UNCHANGED <<Tables, collection, bounds>>

\* The loop over the jobs goes on after this one.
NextJob(w) ==
    [runner[w] EXCEPT !.pc = "poll", !.todo = @ \ {runner[w].job}, !.job = 0, !.left = {}, !.texts = {}]

IngestUpsert(w, c) ==
    /\ runner[w].pc = "ingest"
    /\ LET mine == {t \in runner[w].left : CompanyOf(t.id) = c}
       IN  /\ mine # {}
           /\ Upsert(c, Dim, ChunkPoints(mine))
           /\ Become(w, [runner[w] EXCEPT !.pc = "ingested", !.texts = mine, !.left = @ \ mine])
    /\ UNCHANGED <<Tables, jobs, ghost, bounds>>

IngestMark(w) ==
    /\ runner[w].pc = "ingested"
    /\ Mark(IdsOf(runner[w].texts))
    /\ Become(w, [runner[w] EXCEPT !.pc = "ingest", !.texts = {}])
    /\ UNCHANGED <<chunks, collection, jobs, ghost, bounds>>

MarkIngested(w) ==
    /\ runner[w].pc = "ingest" /\ runner[w].left = {}
    /\ jobs' = [jobs EXCEPT ![runner[w].job].row = "ingested"]
    /\ Become(w, NextJob(w))
    /\ UNCHANGED <<Tables, collection, ghost, bounds>>

\* The row of a job is active, whatever it was, unless this statement fails too.
UpdateState(k) == jobs' \in {jobs, [jobs EXCEPT ![k].row = "active"]}

\* A poll or an ingest that fails leaves the job active: it is collected again.
JobFails(w) ==
    /\ Spend("fault")
    /\ \/ /\ runner[w].pc \in {"ingest", "ingested"}
          /\ UpdateState(runner[w].job)
          /\ Become(w, NextJob(w))
       \/ /\ runner[w].pc = "poll"
          /\ \E k \in runner[w].todo :
                UpdateState(k) /\ Become(w, [runner[w] EXCEPT !.todo = @ \ {k}])
    /\ UNCHANGED <<Tables, collection, ghost>>

\* embed-batch-run submits a wave and waits for it; embed-batch-submit, everything there is.
CollectRequests(w) ==
    /\ runner[w].pc = "poll" /\ runner[w].todo = {}
    /\ LET left == UNION {Unembedded(c) : c \in runner[w].scope}
           ids == IF runner[w].wave THEN First(left, WaveSize) ELSE left
       IN  Become(w, IF runner[w].busy \/ ids = {} THEN Idle
                     ELSE [pc |-> "submit", texts |-> Text(ids), wave |-> runner[w].wave])
    /\ UNCHANGED <<Tables, collection, jobs, ghost, bounds>>

\* The requests of the next job.
ChunkRequests(run) ==
    IF run.wave THEN run.texts
    ELSE LET ids == First(IdsOf(run.texts), MaxPerJob) IN {t \in run.texts : t.id \in ids}

(***************************************************************************)
(* The file is uploaded and the job created, up to four times if the       *)
(* provider is busy: a job whose answer was lost is nobody's.              *)
(***************************************************************************)
CreateEmbedBatch(w) ==
    /\ runner[w].pc = "submit"
    /\ Become(w, [runner[w] EXCEPT !.pc = "record"])
    /\ UNCHANGED <<Tables, collection, jobs, ghost, bounds>>

Submitted(run) == [run EXCEPT !.pc = "submit", !.texts = @ \ ChunkRequests(run)]
Submitting(run) == IF run.texts = {} THEN Idle ELSE run

\* The row of the job.  A job that is not recorded is nobody's either, and the next is submitted.
InsertJob(w) ==
    /\ runner[w].pc = "record"
    /\ \/ /\ jobs' = Append(jobs, [texts |-> ChunkRequests(runner[w]), provider |-> "pending", row |-> "active"])
          /\ UNCHANGED bounds
       \/ Spend("fault") /\ UNCHANGED jobs
    /\ Become(w, Submitting(Submitted(runner[w])))
    /\ UNCHANGED <<Tables, collection, ghost>>

\* The provider ends a job; some of its keys may have failed.
Results(texts) == SUBSET texts

ProviderEnds(k) ==
    /\ jobs[k].provider = "pending"
    /\ \/ \E done \in Results(jobs[k].texts) :
             jobs' = [jobs EXCEPT ![k].texts = done, ![k].provider = "succeeded"]
       \/ jobs' = [jobs EXCEPT ![k].provider = "failed"]
    /\ UNCHANGED <<Tables, collection, runner, ghost, bounds>>

-----------------------------------------------------------------------------
(***************************************************************************)
(* Reembed: the collection of a company is made again if its dimension is  *)
(* another, and filled from the reports, past the tables.                  *)
(***************************************************************************)
StartReembed(w, c, dim) ==
    /\ runner[w] = Idle
    /\ Spend("reembed")
    /\ Become(w, [pc |-> "inspect", company |-> c, dim |-> dim, todo |-> {}])
    /\ UNCHANGED <<Tables, collection, jobs, ghost>>

InspectDimension(w) ==
    /\ runner[w].pc = "inspect"
    /\ LET now == collection[runner[w].company].dim
       IN  Become(w, [runner[w] EXCEPT !.pc =
               IF now \notin {0, runner[w].dim} THEN "recreate" ELSE "ensure"])
    /\ UNCHANGED <<Tables, collection, jobs, ghost, bounds>>

ReconcileDimension(w) ==
    /\ runner[w].pc \in {"recreate", "ensure"}
    /\ LET c == runner[w].company
       IN  /\ collection' = [collection EXCEPT ![c] =
                 IF runner[w].pc = "recreate" THEN RecreateCollection(runner[w].dim)
                 ELSE EnsureCollection(@, runner[w].dim)]
           /\ Become(w, [runner[w] EXCEPT !.pc = "report", !.todo = ReadReports(c)])
           /\ ghost' = [ghost EXCEPT !.reembedded = @ \union {c}]
    /\ UNCHANGED <<Tables, jobs, bounds>>

ReembedPointID(r, idx) == r * Stride + idx

ReportPoints(r) ==
    [id \in {ReembedPointID(r, idx) : idx \in 0..Pieces[r] - 1} |-> [kind |-> "report", ver |-> 0]]

ReembedReport(w) ==
    /\ runner[w].pc = "report"
    /\ \/ runner[w].todo = {} /\ Become(w, Idle) /\ UNCHANGED collection
       \/ \E r \in Foremost(runner[w].todo) :
             /\ Upsert(runner[w].company, runner[w].dim, ReportPoints(r))
             /\ Become(w, [runner[w] EXCEPT !.todo = @ \ {r}])
    /\ UNCHANGED <<Tables, jobs, ghost, bounds>>

-----------------------------------------------------------------------------
(***************************************************************************)
(* A chunk is edited, a call fails, a process dies.                        *)
(***************************************************************************)
\* The texts a runner is embedding or about to mark.
TextsOf(run) ==
    (IF run.pc \in {"upsert", "mark", "ingested"} THEN run.texts ELSE {})
        \union (IF run.pc \in {"ingest", "ingested"} THEN run.left ELSE {})
TextsOut == UNION {TextsOf(runner[w]) : w \in Runner}

Edit(id) ==
    /\ chunks[id].kind = "child"
    /\ Spend("edit")
    /\ chunks' = [chunks EXCEPT ![id].ver = @ + 1]
    /\ ghost' = IF id \in IdsOf(TextsOut) THEN [ghost EXCEPT !.raced = @ \union {id}] ELSE ghost
    /\ UNCHANGED <<embedded, collection, runner, jobs>>

\* The task ends with an error; asynq or an operator starts another.
Abort(w) ==
    /\ runner[w] # Idle
    /\ Spend("fault")
    /\ Become(w, Idle)
    /\ UNCHANGED <<Tables, collection, jobs, ghost>>

\* Vectors of a dimension the collection does not have end the task.
UpsertRefused(w) ==
    /\ \/ runner[w].pc = "upsert" /\ collection[runner[w].company].dim \notin {0, Dim}
       \/ runner[w].pc = "report" /\ collection[runner[w].company].dim \notin {0, runner[w].dim}
    /\ Become(w, Idle)
    /\ UNCHANGED <<Tables, collection, jobs, ghost, bounds>>

\* An upsert of which a part arrived, and then an error.
UpsertTorn(w) ==
    /\ runner[w].pc = "upsert"
    /\ Spend("fault")
    /\ \E part \in SUBSET runner[w].texts :
          part # {} /\ Upsert(runner[w].company, Dim, ChunkPoints(part))
    /\ Become(w, Idle)
    /\ UNCHANGED <<Tables, jobs, ghost>>

Step(w) ==
    \/ FindArticle(w) \/ InsertArticle(w)
    \/ NextBatch(w) \/ IndexUpsert(w) \/ IndexMark(w) \/ UpsertRefused(w)
    \/ \E k \in DOMAIN jobs : PollJob(w, k)
    \/ \E c \in Company : IngestUpsert(w, c)
    \/ IngestMark(w) \/ MarkIngested(w) \/ CollectRequests(w) \/ CreateEmbedBatch(w) \/ InsertJob(w)
    \/ InspectDimension(w) \/ ReconcileDimension(w) \/ ReembedReport(w)

IndexNext ==
    \/ \E w \in Runner :
          \/ Step(w)
          \/ JobFails(w) \/ Abort(w) \/ UpsertTorn(w)
          \/ \E c \in Company :
                \/ StartIngest(w, c) \/ StartRefresh(w, c)
                \/ \E dim \in {Dim, OtherDim} : StartReembed(w, c, dim)
          \/ \E cs \in Scopes, collects \in BOOLEAN : StartBatch(w, cs, collects)
    \/ \E k \in DOMAIN jobs : ProviderEnds(k)
    \/ \E id \in Id : Edit(id)

IndexSpec == IndexInit /\ [][IndexNext]_indexVars

(***************************************************************************)
(* A goroutine does its next step, and the scheduler's refresh of a        *)
(* company, which asynq keeps in its queue, gets a goroutine in its turn.  *)
(***************************************************************************)
IndexFairSpec ==
    /\ IndexSpec
    /\ \A w \in Runner : WF_indexVars(Step(w))
    /\ \A c \in Company : SF_indexVars(\E w \in Runner : StartRefresh(w, c))

-----------------------------------------------------------------------------
(***************************************************************************)
(* The retriever takes the id of a point for that of a chunk.              *)
(***************************************************************************)
ChunkIdFromHit(id) == id

Retrievable(c) ==
    {id \in Id : id \in {ChunkIdFromHit(p) : p \in DOMAIN collection[c].points} /\ CompanyOf(id) = c}

IndexTypeOK ==
    /\ chunks \in Seq([report : Report, ver : Nat \ {0}, kind : {"parent", "child"}])
    /\ embedded \in [Id -> Nat]
    /\ \A c \in Company :
          /\ collection[c].dim \in {0, Dim, OtherDim}
          /\ collection[c].dim = 0 => collection[c].points = <<>>
    /\ \A w \in Runner : runner[w].pc = "insert" => runner[w].todo # {}
    /\ \A k \in DOMAIN jobs :
          /\ IdsOf(jobs[k].texts) \subseteq Id
          /\ jobs[k].row \in {"ingested", "failed"} =>
                jobs[k].provider = IF jobs[k].row = "failed" THEN "failed" ELSE "succeeded"

(***************************************************************************)
(* What kb_embeddings calls embedded can be retrieved: its point is in the *)
(* collection of its company, unless that company was reembedded.  Nobody  *)
(* else disturbs it: not a task of another company, not one that fails     *)
(* between Upsert and Mark, not a batch job collected twice.               *)
(***************************************************************************)
MarkedIsIndexed ==
    \A id \in Id : embedded[id] # 0 /\ CompanyOf(id) \notin ghost.reembedded =>
        /\ id \in Retrievable(CompanyOf(id))
        /\ collection[CompanyOf(id)].points[id].kind = "chunk"

(***************************************************************************)
(* The vector of a chunk whose recorded hash is its hash was made from its *)
(* present content, unless the chunk was edited while a text of it was     *)
(* being embedded or ingested, or a batch job was collected that had read  *)
(* it before an edit.  Other jobs may be collected by name as often as one *)
(* likes, beside a refresh or after it.                                    *)
(***************************************************************************)
MarkedIsCurrent ==
    \A id \in Id \ ghost.raced :
        embedded[id] = chunks[id].ver /\ CompanyOf(id) \notin ghost.reembedded =>
            /\ id \in Retrievable(CompanyOf(id))
            /\ collection[CompanyOf(id)].points[id].ver = chunks[id].ver

(***************************************************************************)
(* A chunk is embedded in the end, whatever failed before, unless its      *)
(* company was reembedded, perhaps in another dimension.                   *)
(***************************************************************************)
EverythingEmbedded ==
    \A c \in Company : []<>(c \in ghost.reembedded \/ Unembedded(c) = {})

(***************************************************************************)
(* Both: a mark means a vector, and a current mark a current vector.       *)
(***************************************************************************)
MarksAreTrue == MarkedIsIndexed /\ MarkedIsCurrent
===============================================================================
