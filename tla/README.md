# Formal models of kb-retv-services

TLA+ models of this repository's services: the ticket intake from the mailbox to the
ticket, the review of what the models propose, the knowledge base and its vectors, and
the requests that answer from them; the TLC configurations that check the models; and
the theorems about them that TLAPS checks. Everything is translated from the Go source;
PROJECT.json names, for every definition, the lines it stands for.

1. [The system](#1-the-system)
2. [What is hard, and what must hold](#2-what-is-hard-and-what-must-hold)
3. [The modules](#3-the-modules)
4. [The runs](#4-the-runs)
5. [Bounds and fairness](#5-bounds-and-fairness)
6. [What is proved](#6-what-is-proved)
7. [Where the code and its documents disagree](#7-where-the-code-and-its-documents-disagree)
8. [What is not modelled](#8-what-is-not-modelled)
9. [What is left](#9-what-is-left)

## 1. The system

The services take customers' messages (e-mail and LINE) for the companies of a ticket
system, decide which of them call for a ticket, and answer questions from a knowledge
base. The main application (Laravel) owns the database schema and the tickets; the
services share its MySQL tables and talk to it over HTTP.

Seven processes are built from `src/cmd`:

| process | what it does |
| --- | --- |
| `cmd/api` | HTTP: inbound events, the intake assessed by hand, chat, search, tools |
| `cmd/worker` | an asynq server with ten handler goroutines and nine task types |
| `cmd/scheduler` | enqueues `outbox:flush` every minute and `embedding:refresh` every six hours |
| `cmd/mailpoll` | polls one IMAP mailbox and posts its messages to the API |
| `cmd/gmailpoll` | the same for Gmail accounts, over the history API |
| `cmd/embedder` | embeds the whole knowledge base once |
| `cmd/migrator` | copies the knowledge base between databases, by hand |

### Components, their state and their operations

| component | state | operations |
| --- | --- | --- |
| inbound pipeline (`workflows/omnichannel`, `repositories/channels`, `handlers/inbound.go`) | tables `conversations` and `messages`; striped conversation locks of the process | `Receive`, `Run` and the statements under it |
| IMAP poller (`cmd/mailpoll`, `internal/mailpoll`) | cursor and failure count in a state file; the mailbox and its `\Seen` flags | `pollOnce`, `skipUID`, `saveState` |
| Gmail poller (`internal/gmailconn`) | history id per account in MySQL; the set of seen ids in memory | `pollAccount`, `History`, `fallbackRecent` |
| worker (`cmd/worker`) | asynq tasks in redis with their retries | one handler per task type |
| intake assessment (`workflows/intake`) | `conversations.intake_*` | extraction by a model, confidence, completeness |
| review outbox (`services/reviewoutbox`, `repositories/review`) | table of pending pushes with attempts | `Enqueue`, `Flush`, mark sent, mark failed |
| review promotion (`workflows/promote`) | review items and the nodes they activate | promote or reject a subject, a symptom, an article |
| vector index (`services/vectorindex`, `repositories/kb`) | `kb_embeddings` (content hash per chunk), Qdrant collections | index a batch, mark, recreate on a new dimension, re-embed |
| LLM access (`infra/llm`) | circuit breaker, provider chain, company settings | complete, fail over, open, half-open, close |
| budget and caches (`ai/budget`, `infra/memcache`, `application/entitlements`) | counters and entries with expiry | allow, get, set, set if absent |
| action confirmation (`application/skeleton`) | pending confirmations with expiry | ask, consume, execute |
| tenant routing (`infra/tenant`) | a pool of connections per company | get or open |
| classification, ingestion, bootstrap (`workflows/classify`, `workflows/ingest`, `services/kbbootstrap`) | reports, articles, chunks, subjects | batch jobs over the knowledge base |
| classification and symptom merge (`workflows/classify`, `cmd/migrator`) and graph sync (`infra/memgraph`) | symptom nodes, classes of reports, Memgraph | classify, merge, sync, search |
| reply (`workflows/reply`, `ai/rag`) | one request; counter of the company's calls; gaps and feedback | retrieve, grade, draft, criticise, second pass |
| chat (`workflows/chat`, `application/toolselection`) | sessions, cached answers | turn, confirmation |
| webhooks (`handlers/inbound.go`, `workflows/omnichannel`) | channel accounts, files, customer hints | receive, verify, confirm a forwarding |
| front door of `/v1` (`transport/http`, `application/entitlements`, `infra/tenant`) | flags in memory, pool of databases | token, permission, feature, route |
| model call log (`infra/llm/recorder`, `repositories/ai`) | `ai_request_logs` | record, report |

### How they interact

* **Pollers to API.** A poller posts a message and waits up to 15 s for the answer. A
  2xx settles the message, a 4xx other than 408 and 429 refuses it, anything else is
  tried again. `Receive` answers 200 even when `Run` failed; only an unknown receiver
  is a 404.
* **API to worker.** `Run` leaves `intake:assess` and `ticket:create` tasks in redis.
  Asynq keeps a task until its handler has returned nil, counts failures and expired
  leases as retries, and archives a task that has no retries left.
* **Worker to main application.** `ticket:create` posts a ticket with the idempotency
  key `ai:channel:conversation:message`; the main application makes one ticket of all
  posts with one key.
* **Everybody to MySQL.** Requests of several API processes, the worker and the main
  application write the same `conversations`. There is no transaction around `Run`:
  every statement commits by itself.
* **Operators.** `POST /v1/intake/assess` enqueues the newest message of a pending
  conversation for assessment again.

## 2. What is hard, and what must hold

| hazard | what must hold |
| --- | --- |
| one message is delivered twice at once (slow request, two pollers, LINE retries) | it is stored once, in one conversation (`StoredOncePerLock`, and `StoredOnce` where it holds) |
| `Run` is five to ten separate statements, and any of them may fail | no message without its conversation (`NoOrphanMessage`), no conversation left without a message (`NoAbandonedConversation`) |
| the clean-up after a failed insert meets another run of the same customer | `NoOrphanMessage` |
| who asks for the ticket: the run that opened the conversation, the worker after an assessment, a retry of either | one job, one ticket per conversation (`OneJobPerConversation`, `OneTicketPerThread`) |
| redis or the main application does what it was asked and the reply is lost | the same |
| the worker dies between the assessment and the ticket job | `PromotedIsTicketed`, `TicketTaskSettles` |
| a run leaves a conversation lock locked; a task always fails | `EverythingSettles`, `OpeningIsTicketed` |
| a webhook with several events fails half-way and is sent again; accounts change between the lookups of one message | `RedeliveryIsHarmless`, `RoutedByPriority` |
| an assessment reads settings, threshold, products and definitions in separate statements while they are edited | `AssessmentIsGrounded` |
| the poller's cursor and the mailbox drift apart: truncated or lost state file, UIDVALIDITY, deletion during a tick, a batch limit | `NothingPassedOver`, `EveryMessageSettled` of MailPoll |
| a history id is stored although a message of the batch failed; a fallback lists less than it passes; the seen set is full; one account fails at every tick | `NothingPassedOver` and `AcceptedOnce` of GmailPoll, `EveryAccountServed` |
| a new symptom, its proposal and its classification are three writes | `NewSymptomIsProposed` |
| two flushes overlap, answers are lost, a row is refused for ever | `ReviewIsFaithful`, `ProposalsReachReview` |
| approvals and rejections of one item overlap and break off | `ReviewIsFaithful`, `DecisionStands` |
| MySQL says which content of a chunk is embedded, Qdrant holds the vectors, and no transaction spans the two | `MarksAreTrue`, `EverythingEmbedded` |
| symptoms are merged while reports are classified, and the graph is copied call by call | `SearchIsSound` |
| a budget or a critic fails after the draft was written; articles are archived meanwhile | `ReplyIsSound`, `BudgetIsKept` |
| a confirmation is sent twice, by another user, after a restart, or for a conversation that changed; the model names a case the user never mentioned; answers are cached without their conversation | `WritesAreConfirmed`, `UsersAreApart` |
| a company moves while its statements run; two requests open one database; a slow reader stores flags that were turned off | `RowsAreOwn`, `OneHandle`, `StaleAtMost` |
| two lookups fill one cache entry; every caller passes a half-open breaker; a discovered catalog is saved after its credential was rotated | `ServedAsConfigured`, `CooldownIsKept`, `CatalogIsCurrent` |
| the reads of a usage report are no snapshot, and rows are written by goroutines of their own | `UsageIsCounted` |

PROJECT.json lists every hazard at its line, with the one no property covers.

## 3. The modules

    TicketIntake       what the intake of one company promises (abstract)
        ^ implemented by
    Pipeline           API processes + worker + assessment by hand
     |        \
    Inbound    Worker          the two halves, each checked by itself too

    MailRouting        the webhook around Inbound: signature, account, files
    MailAssessment     the assessment Inbound and Worker see the outcome of
    MailPoll, GmailPoll        the two senders of e-mail
    Proposals          classification, outbox and review of new symptoms
    KnowledgeGraph     symptoms, merges, graph sync and search
    VectorIndex        ingest, indexing and embeddings
    Reply              suggested replies
    Chat -> ToolSelection      turns, proposed actions and confirmations
    Gateway            token, permission, feature, tenant database
    ModelAccess        resolving a model, breakers, retries, catalogs
    UsageReport        the log of model calls and its report

The `*Proofs` modules hold the theorems (section 6): those about MailPoll and Chat have a
module of their own; `IntakeProofs` is about Inbound and Pipeline, `TasksProofs` about Worker
and Proposals, `BackgroundProofs` about GmailPoll and VectorIndex, `AnswerProofs` about Reply
and KnowledgeGraph, `FrontProofs` about Gateway, MailRouting and MailAssessment, and
`ModelAccessProofs` about ModelAccess and UsageReport. Four of them extend the `MC*` module of
their components, and so speak of these beside each other too.

The `MC*` modules give small instances. Components that share no state share a run:
`MCTasks`, `MCBackground`, `MCAnswers` and `MCFront` take several of them, the initial
states choose which one moves, and a property of such a run speaks of one component (a
combined one is a conjunction of named parts).

### Inbound

One action per database, queue or HTTP call of `Run` (`workflow.go:295-406`) and of
`Receive` (`handlers/inbound.go`). A request `r` is a goroutine: `pc[r]` is the call it
is about to make, `job[r]` its local variables. The tables are sets of rows
(`convs`, `rows`) with their AUTO_INCREMENT counters, `lock` is `convLocks` of every
process, `assessQ` and `ticketQ` are the tasks in redis.

| step `pc` | action | code |
| --- | --- | --- |
| resolve | `ResolveAccount` | `resolveAccount` |
| lock | `AcquireLock` | `conversationLock`, `mu.Lock` |
| dedup | `FindExisting` | `findExisting` |
| thread | `ResolveThread` | `resolveThreadConversation` |
| select, create | `SelectPending`, `CreateConversation` | `UpsertConversation` |
| store | `StoreMessage` | `InsertMessage` |
| cleanup | `CleanupConversation` | `DeleteConversationIfEmpty` |
| assess | `AssessIntake` | `assessIntake`, `WriteCompleteness` |
| ticket | `EnqueueTicket` | `enqueueTicket` |
| respond | `Respond` | `Receive` |

The constant `Faults` selects what may go wrong: a failing lookup, insert or delete, an
insert (of a message, `commit`, or of a conversation, `create`) or an enqueue that reports
an error and is done all the same, flags that cannot be read, a refused job, a
failing assessment, a cancelled request context, a crash, a lost answer. Each kind is a
disjunct of the action it hits (`Cancel` and `Crash` are actions).

Abstractions: a message is a model value with its channel, its sender, its references
and the accounts its addresses may resolve to. The outcome of an assessment is one of
promote, disabled and hold, or a failure; how it comes about is the subject of `MailAssessment`. The order of references is abstracted to a choice among those stored. A row
carries the lock under which it was written (`via`), for the properties only. Lookup and
insert of `InsertMessage` are one step because the unique key of the table, with the
fallback of the code, makes them one. The schema is the main application's, so whether
a foreign key refuses the row of a deleted conversation is a choice.

### Worker

The handlers of `intake:assess` (`cmd/worker/intake.go`) and `ticket:create`
(`cmd/worker/ticket.go`), one action per call, over the tasks in redis. Asynq is modelled
from how the code uses it: a task stays in redis while it runs and is removed when the
handler returns nil (`Done`); an error or the death of the worker costs a retry (`Fail`);
`MaxRetry` is 5 for an assessment (`intakeassess/enqueuer.go`) and asynq's default of 25
for a ticket. Tasks with equal payloads are one task, which loses nothing: they lead to
one idempotency key. A task is not taken while another goroutine has it; asynq extends
the lease of a task that is running.

### Pipeline and TicketIntake

`Pipeline` composes the two: they share the queues and `conversations.intake_*`, and the
API gains the endpoint that assesses a pending conversation by hand (`Reassess`).
`TicketIntake` says what this is for, without processes, locks, queues or failures:
messages open or join threads, a thread is ticketed for its opening message, and for
others only when asked. `OneTicketPerThread` states that `Pipeline` implements it, for
the company `Tenant`. The mapping: a thread is the rows of a conversation, its opening
the oldest row, a ticket the channel, the conversation and the message its idempotency key
names. The channel matters: the endpoint writes whatever it finds down as an e-mail, so the
opening of a LINE conversation that has its ticket under `ai:line:c:m` gets a second one
under `ai:email:c:m` when it is assessed by hand and promoted. `TicketIntake` says so
(`TicketAsked`): what is asked for by hand is ticketed at most once per message, always as
an e-mail; nobody else's ticket names anything but the opening and its own channel.
A conversation counts as asked once it was assessed by hand, which the history variable
`byHand` records. `TicketIntake` names no set of conversations: any value may name a new one.

### MailPoll

One tick of `pollOnce` is a sequence of actions, one per effect that others can see or
that can fail: `Select` (load the state file, SELECT), `Search`, `Forward` (fetch and
post one message), `MarkSeen`, `SaveState`, `Finish`. `Stop` ends a tick anywhere. The
mailbox is the environment: mail arrives, its owner reads or deletes it, the server
renumbers it. `WriteFile` is not atomic, so the process may die and leave a file that
does not parse, which `loadState` reads as a zero state.

### GmailPoll

A tick lists the accounts with the history id and refresh token they have at that moment
(`ListAccounts`), and polls one after the other: `AccessToken`, `History` or `FallbackRecent`
and `Profile`, `Forward` for each message, `SaveHistoryID`. A history id is a position in
the inbox of the account; a history of several pages is one step. Which messages a
fallback finds is a choice (those of a day, at most `RecentCap`). The seen set drops its
oldest entry, and is empty after `Stop`. An access token that is still cached may work
after the consent was withdrawn; a refresh token that was replaced is rejected. The state
that the main application shows is `state`. `Forward` does not tell a refusal, a failure and
a lost answer apart, because `pollAccount` does not.

### Proposals

The way of a new symptom: `Classify(c)` is a task of `extract:batch`
(`workflows/classify`, `repositories/classify`), `Flush(f)` one of `outbox:flush`
(`services/reviewoutbox`, `repositories/review/mysql/outbox.go`), `Promote(p)` an approval
(`workflows/promote`), `MarkRejected` a rejection. Each action is one SQL statement, model
call or HTTP call; an error ends the report, the flush or the approval as the code does,
and for inserts and pushes it may have taken effect. `nodes`, `outbox` and `review` are the
tables. What a model says of a report is one of `Answers`; two classifications of a report
may differ. That the main application keeps one item for one hash is assumed: the hash is
sent for nothing else. Left out: subjects, problem types and severities of a report, merged
symptoms, occurrence counts, payloads an operator edits.

### MailRouting

`Receive` and what `Run` does beside storing: the LINE signature with the account's secret
or the environment's, the lookups of the account by routing key, alias and address (three
statements, each of which may fail and fall through), mails that verify an account or carry
a forwarding confirmation and never reach a conversation, deduplication, attachments handed
to the main application, and the customer suggested for a conversation. A webhook carries
one or several events and is answered once. Accounts change between the statements; a
request during whose lookups one changed is `Muddled` and left out of `RoutedByPriority`.
Storing a message is one step (Inbound has the steps of it).

### MailAssessment

The assessment of a mail that opens a conversation, by the API inline or by the worker with
retries: settings and threshold, the product tree, the definitions of the path of the
company, the signals and their score, the fields a model answers, the confidence and what
is written. The model may answer anything; the settings and the tree are edited between the
reads, and every read may fail. `SpecFor` and the configuration are one step each.

### VectorIndex

MySQL knows which content of a chunk is embedded (`kb_embeddings`), Qdrant holds the
vectors. `ingest:report`, `embedding:refresh`, the embedder with its batch jobs and
`reembed` run at once on any number of runners, each call a step: an upsert may be torn, a
batch may never have its row written, a runner may die between any two calls, and chunks
are edited meanwhile. A content is a number, an edit a new one. A batch command starts from
the active jobs or, with `-batch`, from one job by its name, whatever became of it: a job that
was ingested long ago may be collected again (`LoadBatchJobs`), and what the provider reports
is written over the state of its row (`UpdateState`).

### KnowledgeGraph

The symptoms of one company, the classes of its reports, its articles and their copy in
Memgraph. Classifying, merging, ingesting, syncing and searching are sequences of calls of
an agent; the graph only grows. The order of `created_at` stands for the clock.

### Reply

A request for a suggested reply: the budget of a pass and of the company's window, the
three retrievers and their fusion, grading, drafting, criticism, the second pass of a weak
reply, the recorded gaps, actions and feedback. Scores only order candidates. `Acquire`
reads and writes the counter in two calls, as the code does.

### Chat and ToolSelection

`ToolSelection` has what the tools can make of a message without state: which the
permissions leave, where parameters come from, what a reference resolves to. The patterns take
a number out of the message or the transcript; the model may answer any number there is
(`Guesses`) and any status, since nothing compares its parameters with what was said. `Chat`
has the turns, sessions, cached answers, pending proposals, confirmations, the audit before each
write and the four writes, with grants, expiries and restarts of the process.

### Gateway

How a request or a job comes to the rows of a company: deadline, token, permission, the
flag of the feature from memory or from the database, then per statement the route, the pool
and the database. Companies move and features are turned off meanwhile; reads past the
deadline fail open, as the reader does.

### ModelAccess

Resolving the provider of a task: by an active route and its candidates, or by the agent
that an in-process cache keeps together with its breakers and its backup. Calls are
admitted, attempted, retried and failed over; agents, routes, connections, credentials and
catalogs are edited meanwhile.

### UsageReport

One row per call, written by a goroutine of its own after the call ended (or never); the
nine reads of a report, between which rows are written and midnight passes. A tick is a
second of the database clock.

## 4. The runs

| run | what it shows |
| --- | --- |
| `inbound_deliveries` | Two messages of a conversation, two requests of one process, every kind of fault: `StoredOncePerLock`, `NoOrphanMessage`, `OneJobPerConversation`, `TypeOK`. |
| `inbound_two_accounts` | Expected violation of `StoredOnce`. |
| `inbound_crashed` | Expected violation of `OpeningMessageTicketed`. |
| `pipeline_intake` | `OneTicketPerThread`: the composition implements `TicketIntake`. |
| `pipeline_progress` | Without crashes, cancellation, failing clean-ups, unreadable flags and lost database or queue replies of the API: `NoAbandonedConversation`, and under fairness `EverythingSettles`, `OpeningIsTicketed`. |
| `worker_tasks` | The worker: two goroutines, every worker fault: `PromotedIsTicketed`, `TicketTaskSettles`. Or the proposals: three reports, two overlapping flushes, two reviewers: `NewSymptomIsProposed`, `ReviewIsFaithful`, `DecisionStands`, and under fairness `ProposalsReachReview`. |
| `mailpoll_mailbox` | `NothingPassedOver`, with and without a batch limit, and under fairness `EveryMessageSettled`. |
| `mailpoll_cursor` | Expected violation of `CursorNeverMovesBack`. |
| `background_tasks` | The Gmail poller, two accounts: `AcceptedOnce`, `NothingPassedOver`, under fairness `EveryAccountServed`. Or the vector index, two runners and two companies: `MarksAreTrue`, under fairness `EverythingEmbedded`. |
| `gmail_lost` | Expected violation of `HistoryIsProcessed`. |
| `answer_requests` | Search during merges and syncs: `SearchIsSound`. Or two suggested replies at once: `ReplyIsSound`, `BudgetIsKept`. Or turns and confirmations of two users: `WritesAreConfirmed`, `UsersAreApart`. |
| `front_requests` | Gateway: `OneHandle`, `RowsAreOwn`, `StaleAtMost`. MailRouting: `RedeliveryIsHarmless`, `RoutedByPriority`. MailAssessment: `AssessmentIsGrounded`. ModelAccess: `ServedAsConfigured`, `CooldownIsKept`, `CatalogIsCurrent`. UsageReport: `UsageIsCounted`. |

`inbound_deliveries` has about 1.16 million distinct states, `mailpoll_mailbox` 823,000,
`answer_requests` 745,000, `pipeline_intake` 672,000, `front_requests` 645,000, the others
fewer. The runs over several components check one type invariant, `MCTypeOK`, made of those
of the components.

Every property of a passing run has a mutant: a definition of the model changed the way
a plausible bug would change the code (a lock that is not waited for, a clean-up that
does not look, a task removed when it is taken), under which TLC finds the property
violated. The mutated forms stand beside the definitions they replace
(`AcquireLockShared` beside `AcquireLock`).

The properties have preconditions that matter, and each was found by running the property
without it:

* `NoOrphanMessage` holds within one API process. With two, the clean-up of one process
  deletes a LINE conversation that the other has selected and not yet written to, because
  the lock is a variable of the process.
* `NoAbandonedConversation` needs a request context that lives and a clean-up that
  succeeds: after a cancellation the clean-up runs on the same context and fails too. It
  also needs that no INSERT of a conversation reports an error and is committed (the fault
  `create`): `Run` returns there without a clean-up, and does not know what it would delete.
* `OpeningMessageTicketed` needs in addition that no process dies between the message and
  its job, that redis takes the job, that an insert that fails did not commit, that the
  feature flags of the company can be read (the fault `flags`: without them `Enabled` says
  yes, the company counts as one with a bot, and `enqueueTicket` returns), and that one
  process serves the deliveries: with two, the second joins the conversation that the first
  has just opened and writes its opening message, which nobody tickets.
* `OneTicketPerThread` fails, as `NoOrphanMessage` does, with two API processes, and for
  mail that resolves to two accounts.
* `NewSymptomIsProposed` leaves out reports whose proposal could not be written: the code
  logs the error and classifies them all the same.
* `NothingPassedOver` of GmailPoll leaves out messages that were tried in vain (which
  `gmail_lost` refutes without the exception) and those a fallback did not list.
* `MarksAreTrue` leaves out chunks that were edited while a text of theirs was out, and those
  of which a text read before an edit is collected after it (`ghost.raced`: `Mark` stores the
  hash of the content of that moment, so the old vector counts as current for good; a job that
  is collected by its name brings back the text of its day, however old). It also leaves out
  companies that were reembedded (`dimension.go` recreates the collection while `kb_embeddings`
  keeps its marks). For each the code has the fault.
* `SearchIsSound` leaves out what merges at once, or broken off, left behind: chains of two
  steps and symptoms that are their own canonical ones, which no later merge looks at.
* `StaleAtMost` bounds a flag by its lifetime and the longest budget of a request, because a
  reader that read before the change may store after it.
* `BudgetIsKept` leaves out the windows in which two requests held the counter at once. In
  those the code bounds nothing: each write may put the counter back to where its request had
  read it, and what the others were granted in between is forgotten. What is checked is that
  nothing but that overlap lets a window overrun, in particular no failing cache call.
* `CooldownIsKept` lets a breaker be closed within its cooldown by the answer of a call that
  was admitted before it opened: `recordSuccess` closes it whatever its state. Without that
  exception TLC finds the late answer.
* `UsersAreApart` says that a reference is the user's own only of parameters the patterns found.
  Of what the model answers it says where a write may reach (`ReachIsKept`): a case of the
  user's company that the user may act on.
* `CatalogIsCurrent` speaks of the credential. Of two discoveries with one credential the one
  that is saved last wins, whichever began first.
* `RoutedByPriority` leaves out requests during whose lookups an account changed, and a lookup
  that failed: the code goes on to the next one and may so choose a less preferred account.

## 5. Bounds and fairness

All machines may stop (messages run out, faults run out), so the runs do not check
deadlock; what must not stop is stated as liveness.

| bound | value | why it is enough |
| --- | --- | --- |
| messages (Inbound) | two per conversation (opening and follow-up, or mail and reply) | every interleaving of Run is between two runs of a conversation; a third repeats the second |
| requests (Inbound) | 2 | the same |
| `MaxAttempts` (Inbound) | 2 deliveries, 3 for progress | a redelivery, and one that waits for a lock the redelivery kept |
| `OneChannel` | LINE messages or e-mails in a behaviour | they never share a conversation or a lock of this instance |
| `OneByOne` (`pipeline_intake`) | crashes and redeliveries for LINE; e-mails one at a time, with a worker that may die; after an assessment by hand no retries, and one LINE message or the e-mails | the product of all is out of reach; `inbound_deliveries` checks the same interleavings without the worker, and the refinement is proved (section 6) |
| `OneMessage` (`pipeline_progress`) | one message in a behaviour, LINE up to three times, e-mail twice, others once | what must end is a delivery, and a lock is kept from its own redelivery |
| `MaxRetry` | 1 | a task fails, is retried, fails again and is archived |
| handler goroutines | 2 (`worker_tasks`), 1 (`pipeline_*`) | two tasks of a conversation at once |
| mail (MailPoll) | 2, one of them poison | one behind the other in a batch |
| `MaxFaults`, `MaxValidity`, `Limits` (MailPoll) | 2, 2, {0, 1} | a fault in a tick and another in the tick that repairs it; one renumbering; no limit, and one that cuts a batch of two |
| accounts, mail (GmailPoll) | 2 accounts, one mail and one the poller ignores | one account that fails before the other; one message behind the other |
| `SeenCap`, `RecentCap` | 1 | the second message already pushes the first out |
| `MaxFaults`, `MaxRevokes` (GmailPoll) | 1, 1 | failures and stops; a withdrawn consent beside one of them |
| reports, companies, runners (VectorIndex) | 3 reports of 2, 1 and 1 pieces, 2 companies, 2 runners | two batches of one report; two runners on one chunk; what one company suffers and the other must not |
| `AttemptLimit`, `FlushLimit`, `BatchLimit` (Proposals) | 2, 1, 3 | a refused row in front of another uses up its attempts; a batch with a report that fails in front |
| classifiers, flushers, reviewers; `MaxFaults` | 1, 2, 2; 1 | flushes and approvals overlap; two batches would only add the doubled symptom, about which no property is stated |
| reports, symptoms, agents (KnowledgeGraph) | 3, 3, 2 | a merge of a symptom that was merged; a merge against a sync or a search |
| clerks, chunks, budgets (Reply) | 2, 3, 3 calls a pass and a window | the budget ends in front of the grader, the critic or the second pass; two requests hold the counter at once |
| `Guesses` (Chat) | all the cases of the instance and a number no case has | what the model may name: a case of the user, of another one, of another company, none |
| users, handlers (Chat) | 2, 2 | a confirmation against another, by the same user or not |
| servers, companies, `Ttl`, budget (Gateway) | 2, 2, 1, up to 3 | two requests miss one database; a slow reader against a fast one |
| callers, refreshers, `TTL`, `Delay`, `Cooldown`, `Threshold`, `MaxRetries` (ModelAccess) | 2, 2, 1, 1, 1, 2, 1 | lookups that overlap; a breaker that opens, half-opens and opens again, or is closed by a late answer, within the ticks and the four calls there are |
| `DayLength` (UsageReport) | 2, starting a tick before midnight | midnight passes between any two reads |
| `IndexPlans`, `Missions`, `ReplyPlans`, `ChatPlans`, `GatewayPlans`, `Plans`, `RoutingPlans`, `AssessPlans`, `Quotas` | sets of records in the MC modules | a behaviour takes one: how often each kind of thing (request, edit, fault, tick) may happen in it |

Symmetry is used where goroutines are model values that no constant tells apart (`Clerks`
of MCAnswers and MCFront; these runs check no liveness).

`pipeline_progress` has a state constraint, which is safe there: it cuts off behaviours in
which a second message is delivered or one is delivered too often, and nothing obliges a
sender to deliver, so every behaviour that remains is a fair one of its own.

Fairness:

* `Run(r)` is weakly fair: every SQL statement, HTTP call and model call has a timeout, so
  a request that can take a step takes one. Its waiting for the mutex is strongly fair: a
  Go mutex hands itself to a waiter that has starved for a millisecond
  (`sync.Mutex`, starvation mode), so it cannot be overtaken for ever.
* `Handle(w)` of the worker is weakly fair, for the same reason. `Die` is not fair, and may
  happen again and again until retries run out.
* `Poll` of both pollers is weakly fair: the ticker fires for ever. Faults are bounded, so a
  poller that never again has a session is excluded.
* Of GmailPoll, a rejected refresh token is noticed in the end (strong fairness of
  `TokenRejected`): cached access tokens expire within the hour.
* `Flush(f)` is weakly fair: the scheduler asks for a flush every minute, and its calls have
  timeouts. Batches and decisions are not fair: a batch is asked for after a ticket
  (`cmd/worker/ticket.go`), decisions are made by people.
* Of VectorIndex, `Step(w)` is weakly fair, and for every company a refresh is started again
  and again (strong fairness of `StartRefresh`): the scheduler enqueues one every six hours,
  and a runner takes other tasks in between. Batch commands are given by hand and not fair.

## 6. What is proved

Eight modules prove the theorems below for every value of the constants: any number of
messages, goroutines, processes, companies and rows, every bound, and every set of faults.
The assumptions are the named `ASSUME` of each module, which give the constants their types
(and, for Inbound, that LINE messages have no references); TLC evaluates each in the runs.
Two theorems about Inbound and the refinement have hypotheses of their own, `SingleProcess`
and `SingleAccounts`: they are the conditions whose absence the run `inbound_two_accounts`
and the first of the preconditions in section 4 exhibit. `CleanupsSucceed` is the second,
`RunsAreServed` the third.

Few of the safety properties are inductive. TLC checked each inductive invariant on the
instance of the runs before it was proved; what it adds to the property is the reason why
the property holds.

| module | theorem | states |
| --- | --- | --- |
| IntakeProofs | `TypeCorrect` | `Spec => []TypeOK` |
| | `MessagesStoredOncePerLock` | `Spec => []StoredOncePerLock` |
| | `MessagesStoredOnce` | `Spec => []StoredOnce`, for `SingleProcess` and `SingleAccounts` |
| | `MessagesKeepTheirConversation` | `Spec => []NoOrphanMessage`, for one process |
| | `OneJobLeavesRun` | `Spec => []OneJobPerConversation` |
| | `IntakeIsImplemented` | `PipelineSpec => OneTicketPerThread`, the refinement of `TicketIntake`, for `SingleProcess` and `SingleAccounts` |
| | `ConversationsAreNotAbandoned` | `PipelineSpec => []NoAbandonedConversation`, for `CleanupsSucceed` and any number of processes |
| | `OpeningsAreTicketed` | `Spec => []OpeningMessageTicketed`, for `SingleProcess` and `RunsAreServed` |
| MailPollProofs | `TypeCorrect`, `CursorPassesNothing` | `[]TypeOK`, `[]NothingPassedOver` |
| BackgroundProofs | `GmailTypeCorrect`, `MessagesAreAcceptedOnce`, `HistoryPassesNothingUnseen` | of GmailPoll: `[]GmailTypeOK`, `[]AcceptedOnce`, `[]NothingPassedOver` |
| | `MarksStayTrue`, `IndexTypeCorrect` | of VectorIndex: `[]MarksAreTrue`, `[]IndexTypeOK` |
| | `BackgroundTypeCorrect` | of the two in one run: `[]MCTypeOK` |
| TasksProofs | `WorkerTypeCorrect`, `PromotionIsNotForgotten`, `TicketTasksSettle` | of Worker: `[]TypeOK`, `[]PromotedIsTicketed`, `TicketTaskSettles` (an action property) |
| | `ProposalsTypeCorrect`, `NewSymptomsAreProposed`, `ReviewStaysFaithful`, `DecisionsStand` | of Proposals: `[]ProposalsTypeOK`, `[]NewSymptomIsProposed`, `[]ReviewIsFaithful`, `DecisionStands` (an action property) |
| | `TasksTypeCorrect` | of the two in one run: `[]MCTypeOK` |
| FrontProofs | `GatewayTypeCorrect`, `DatabaseOpenedOnce`, `RequestsSeeOwnRows`, `FlagsAreBoundedlyStale` | of Gateway: `[]GatewayTypeOK`, `[]OneHandle`, `[]RowsAreOwn`, `[]StaleAtMost` |
| | `RedeliveriesAreHarmless`, `MailsReachTheirAccount`, `RoutingTypeCorrect` | of MailRouting: `[]RedeliveryIsHarmless`, `[]RoutedByPriority`, `[]RoutingTypeOK` |
| | `AssessmentsAreGrounded`, `AssessTypeCorrect` | of MailAssessment: `[]AssessmentIsGrounded`, `[]AssessTypeOK` |
| | `FrontTypeCorrect` | of the five of `front_requests` in one run: `[]MCTypeOK` |
| AnswerProofs | `RepliesAreSound`, `BudgetsAreKept`, `ReplyTypeCorrect` | of Reply: `[]ReplyIsSound`, `[]BudgetIsKept`, `[]ReplyTypeOK` |
| | `SearchesAreSound`, `GraphTypeCorrect` | of KnowledgeGraph: `[]SearchIsSound`, `[]GraphTypeOK` |
| | `AnswersTypeCorrect` | of the two and the chat in one run: `[]MCTypeOK` |
| ChatProofs | `ChatTypeCorrect`, `WritesStayConfirmed`, `UsersStayApart` | `[]ChatTypeOK`, `[]WritesAreConfirmed`, `UsersAreApart` (of which `ReferenceIsOwn` and `ReachIsKept` are action properties) |
| ModelAccessProofs | `ModelAccessTypeCorrect`, `CooldownsAreKept`, `CallsAreServedAsConfigured`, `CatalogsAreCurrent` | `[]TypeOK`, `[]ServedAsConfigured`, `CooldownIsKept` and `CatalogIsCurrent` (action properties) |
| | `UsageTypeCorrect`, `CallsAreLoggedOnce`, `UsageAddsUp` | of UsageReport: `[]UsageTypeOK`, `[]LoggedOnce`, `[]UsageIsCounted` |

With these every invariant and action property a passing run checks is proved; only what is
stated under fairness is not.

### Components in one run

The runs over several components take their steps one at a time: a step of `MCTasks`,
`MCBackground`, `MCAnswers` or `MCFront` is a step of one component and leaves the variables of
the others alone, or of none (`TasksStayApart`, `BackgroundStaysApart`, `AnswersStayApart`,
`RequestsMeetEach`). So every theorem about a component holds of what the run steps through,
and the conjunction of the type invariants is the run's (`MCTypeOK`).

### Inbound

`StoredOncePerLock` rests on `DedupInv`: a request past the lock holds it (`HoldsLock`);
identifiers below the AUTO_INCREMENT counters are the only ones in use
(`FreshConversations`), so a row cannot be adopted by a conversation created later; a request
that joins a conversation joins one of its own company (`JoinsOwnCompany`); and between its
lookup and its insert nothing that was written under the lock of a request is its message
(`StillUnstored`), which is the fact the lock protects. A step of another request under the
same lock is impossible by `HoldsLock`; one under another lock writes rows that carry another
`via`.

`StoredOnce` follows from it where every row of a message for a company was written under
one lock: a run works for an account its message resolves to (`AccountsResolved`), and a row
was written under the lock of such an account of its company (`RowsByAccount`), of which
there is one by `SingleAccounts` and, by `SingleProcess`, in one process.

`OneJobPerConversation` rests on `JobInv`: a conversation is opened by at most one request at
a time and for ever (`OneOpener`), and the jobs there are for it are the payload of its
opener (`JobsOfOpeners`).

`NoOrphanMessage` rests on `OrphanInv`: the conversation a run is about to write to, or to
clean up, exists, and has a row or belongs to the account and the customer of the run
(`RunsOwn`); every row has its conversation (`RowsHaveConversations`). A clean-up deletes
only an empty conversation, so the run that would be orphaned by it has the account and
customer of the run that cleans up; in one process the two need one mutex, and by
`HoldsLock` they are one. The hypothesis is needed: with several processes the conversation
disappears under the second run.

`NoAbandonedConversation` is inductive with the types, of the pipeline as a whole: the run
that opened a conversation stores its message or goes on to the clean-up, and a clean-up that
succeeds leaves only a conversation that has a message, or is closed. Its hypothesis is that no
INSERT of a conversation reports an error and commits (`create`), no clean-up fails, no request
context ends and no process dies; TLC finds an abandoned conversation for each of the four
(`delete` together with `insert`). Every other fault may happen, the insert of a *message* that
reports an error and commits among them.

`OpeningMessageTicketed`, which `inbound_crashed` violates, holds where a run comes to its end
and what it is told of its inserts and jobs is true (`RunsAreServed`), in one process. It
rests on `OpeningInv`: `OrphanInv`, rows in the order of their identifiers (`RowsInOrder`),
`NoAbandonedConversation`, and that a run which reuses a conversation comes behind a message
(`JoinersFollow`). The last is where the mutex counts: an empty conversation that is pending
is in the hands of the run that opened it, and a run that would reuse it has the same account
and customer, so it waits. Whoever stores the first row is therefore the opener, of the
company of its conversation, and at the ticket the job is due (`OpeningsInHand`). TLC finds a
lost ticket as soon as one of the faults `crash`, `cancel`, `queue`, `commit`, `create` and
`flags` is let in alone, `delete` together with `insert`, or a second process; so no hypothesis
is idle.

### The refinement

`IntakeIsImplemented` shows that each initial state of `Pipeline` maps to one of
`TicketIntake`, and each step to a step or a stutter: a row to `Keep`, a ticket to `Serve`,
an assessment by hand to `Ask`. The invariant `IntakeInv` adds to those of Inbound what ties
the two halves together: rows are numbered in the order they come, so a conversation has one
oldest row (`RowsInOrder`); a request that opened a conversation stores its first message, and
asks for a ticket with that row and that message (`OpenersStoreFirst`); every job in a queue or in the hands of
a goroutine names the oldest row of its conversation and the channel of its message, or it
calls its message an e-mail and its conversation was assessed by hand (`JobsAreDue`); tickets name rows (`TicketsNameRows`), conversations assessed by hand have
them (`AskedHaveRows`). `OpenersStoreFirst` is where one process is needed: an empty
conversation belongs to one run, so nobody stores a row in front of its opener's. The proof
does not depend on what the worker's retries, deaths or lost answers do to a task: they only
move jobs between the queues, the goroutines and the archive.

### Worker

`Inv` adds that goroutines hold well-formed tasks (`Held`), that no two hold one task
(`Apart`), and `PromotedIsRemembered`: a conversation whose assessment promotes has a ticket,
an archived task, a ticket task, or an assessment task that has not come to its last step. The
last is what a death between the assessment and the ticket job would otherwise lose.

### MailPoll

`Inv` says what a cursor of the present numbering means. UIDs are unique and below
`uidNext` (`Numbered`); `\Seen` is only set by the owner or after an acceptance
(`SeenIsSettled`); the state on disk, and that of a running tick, pass only messages that are
settled or left unread, and count no failures that did not happen (`Current`, `Faithful`); the
cursor of a tick is of the present numbering (`InTick`); what the cursor is about to pass is in
the rest of the batch or settled (`BatchIsWhole`, `Marking`). The batch is processed in the
order of UIDs, which the proof uses through the minimum of a finite set.

### GmailPoll

The history ids in use cover only what they may pass (`IdsAreCovered`), the batch of a tick
leaves out nothing below the id the tick is going to store (`BatchIsWhole`), and what a batch
skips as seen is handled (`SeenIsHandled`). `AcceptedOnce` rests on `SentIsSeen`: a message
that was sent is in the seen set, or more messages of its account came after it than the set
holds.

### VectorIndex

`IndexInv` follows every text that is being embedded or ingested, or is about to be marked: it
is what its chunk says, or the chunk is one of those the property leaves out (`Current`); who is
about to mark a chunk has its vector in the collection, made from a current text (`Vectored`);
and no mark is ahead of its chunk, so that an edit of a chunk with no text out leaves it
unmarked. The texts of a job need not be current, only of chunks there are (`JobsListed`): what
is old in them is left out at the moment the job is collected, because a job stays collectable
by its name for ever. TLC refuted the two earlier forms, in which a text counted as out while
its job was active, or listed by a runner: a collection by name embeds the old text once more
and marks the chunk as current. The types need more than the types of
each call (`IndexTyped`): the vectors of a collection have one size, since a new size makes the
collection again; and a batch whose row says that it failed or was ingested has ended that way
at the provider, whatever runner reads it, and the provider does not go back (`JobsGoOn`).

### Proposals

`IInv` says of every stage what its next write relies on: who is about to write a
classification has the proposal in the outbox (`Proposed`), who is about to mark a row as sent
has its item in the review (`Delivered`), who is about to record an approval has activated the
symptom (`Activation`); beside that every reference leads to a row (`Known`), a payload has one
item (`OneItem`), and overlapping flushes add an attempt each at most (`AttemptsAreBounded`,
with the cardinality of the flushes that hold a row).

### Gateway

A statement knows the homes its company had since it began, and its own database is one of
them (`RoutedHome`); what a request shows, a token of its company allows (`Vouched`); a flag in
a hand or in memory that is on, while the feature is off, was read by a request that began
before (`AnswerIsRecent`, `EntriesAreRecent`), and the request's budget bounds how long ago
that was (`AskedInTime`); a database is open exactly when it is in the pool (`OpenIsPooled`).

### ModelAccess

An entry of the cache is one lifetime and one lookup behind the active agent at most, one
with a provider twice that (`CacheIsRecent`), because `ResolveFor` reads the entry `AgentFor`
stored; a call asks a provider that was recent when the call began, and has only candidates
that fit its selection (`GoodCalls`). `CooldownIsKept` rests on `BreakersRest`: within the
cooldown of its latest opening, unless a late answer has ended it, a breaker is open, bears the
time of that opening, and has let nobody through. So every failure that comes back in the
cooldown is that of a call from before it, which counts but neither closes the breaker nor lets
anybody in, and begins the cooldown anew where `recordFailure` stamps it.

### UsageReport

`Tracked` says of the log, of the entries on their way to it and of the calls given up that no
two entries are about one call, that the three have no call in common, and that their calls are
exactly those that ended. Each end of a call sends one entry, and an entry leaves its goroutine
for the log or for nothing; both change one of the three by one call, of which `LoggedOnce`
counts the rows.

The parts of a report add up (`ReportAddsUp`) because of `ReportInv`: each number that was read
is held against a later one once that is read, and until then against what it would be if it
were read now. What is written in between only makes that larger, and is remembered, so that
without a row in between the two are equal. A sum over rows is the
cardinality of a set of pairs of a row and a unit of what it counts; that the parts of a
partition by day, model, vendor or status add up to the whole is then a bijection, and that a
later read counts no less is monotonicity. Days are held against the window by the bounds of
`DayOf`, and the p50 against the p95 by the ranks of the two among the sorted latencies.

### MailRouting

`RoutingInv`: a request that stored a message has an event it counts as processed, or is still
at work on the message (`Counted`), so `NotFound` cannot hold of it; a file a request still has
to hand over was not handed over (`Unhanded`), and a row is in the hands of one request, the
one that inserted it; a company has one row of a message (`TablesTrue`). The last follows from
the duplicate check of `StoreMessage`, which here is one step with the insert: `IntakeProofs`
says for whom it is.

`RoutedByPriority` rests on `WayInv`, which follows the lookups of one message: what was tried
and answered found no account in use, as long as no account changed since (`AllOnTheirWay`),
and comes before all that is left in the order of preference, because the next one tried is the
least of a set of what is left. An account that a lookup finds is therefore one the most
preferred of the recipients with an account names. The same invariant gives the types: a
request that is still to look has something left to look up.

### MailAssessment

`GroundedInv` follows a job through its queries: the threshold was parsed from settings the
company had since the job began, and where the rules are on, the evidence of the mail is part
of the reasons (`Weighed`); the products a model was shown are those of some tree
(`Grounded`); a result that is ready names a product of some tree, from the answer of the model
to the completeness row (`NamesProduct`). `ConfidenceIs` bounds the confidence of junk without
a named case by 50, which with the lower end of the threshold gives `JunkIsHeld`. A failed run
begins again with the settings of that moment, so that nothing older is mixed in. The types
(`AssessTypeOK`) say that no score or confidence leaves 5 to 95: the score is a sum of at most
ten weights (`ScoreIs`), the confidence one of the parts `ConfidenceIs` adds.

### Reply

`ReplyInv`: before a pass has graded its candidates it has no draft and would escalate
(`Vetted`), a draft was written from relevant passages (`Core`), and behind the grading a pass
without candidates has noted its question or failed to (`Noted`); the candidates of a pass are of companies
in the coverage and, unless the retriever does not ask, of articles that were published when it
began (`Visible`); a second pass keeps a sound first one to fall back on (`Good`). A pass asks
for every call it is granted (`Within`). `CounterIsTrue` is what makes the budget of a company
hold: in a window in which one request at most holds the counter, the counter counts what was
granted. The assumption that the asking company is in its own coverage is what
`ctxkey.NormalizeCoverage` ensures (`ctxkey.go:95`).

That a pass holds no more candidates than a reply cites, once they are chosen, is the part of the
types that needs an argument (`ReplyTyped`): each retriever, the fusion, the graph and the
expansion to parents adds candidates, and the rerank or its fallback chooses among them. The
cardinality of a choice is known only if what it chooses from is finite, so the proof follows
finiteness through every stage (images of finite sets), from the assumption that the tables of
articles and chunks are finite; and the first pass, which a second one falls back on, keeps
what it had chosen.

### KnowledgeGraph

`GraphInv` has three parts for the three promises of `SearchIsSound`. While merges run alone
and to their end, a symptom points to a canonical one, or to the row the running merge has just
merged and whose followers it repoints next (`MergesAreOrderly`). A sync that read every article, and during which no
table changed, has a call left for each node and edge that is missing (`SyncsAreExact`), so
that none is missing at its end (`GraphIsFresh`). A search lists rows without repetition because each
stage takes one element per key: the lists are functions on a prefix of the numbers, and the
place of an element is counted as the cardinality of what is ahead of it, which bounds how far
the articles merged in can push each other back.

### Chat

`ChatInv` says where a proposal can be. Its identifier is pending, or in the hands of one
confirmation, or among the writes that were made, and in each place it is what was offered, to
the user it was offered to (`PendingAsOffered`, `RunningAsOffered`, `DoneAsOffered`): the
confirmation that takes it removes the entry in the same step, so a second one finds nothing.
`AuditCounts` compares numbers of rows: what was executed or is past its audit has a row each,
and so has what was offered or is about to be put in the store, because the audit precedes the
write. A request about to write a case has found it in the company of its user, who may act on it, and
holds the permission of its tool; one about to promote has found the conversation there
(`Sound`, with `Reached`). This does not depend on where the proposal came from, so that a number
the model invented reaches no further (`ReachIsKept`). A promoted conversation has its case
(`PromotedHasItsCase`). For `UsersAreApart` the
session a reply names is the asking user's, the key an answer is cached by is too, and so is
the session in an entry of the cache under that key (`Private`, `CacheIsOwn`): a hit therefore
hands out a session of the user who asks.

### What is not proved

* Liveness under fairness (`EverythingSettles`, `OpeningIsTicketed`, `ProposalsReachReview`,
  `EveryMessageSettled`, `EveryAccountServed`, `EverythingEmbedded`) and everything about
  ENABLED are beyond the proof system and stay with TLC, and so does what a recursive
  definition computes for every input (induction over data).
* `OpeningMessageTicketed` is false of the full set of faults, which `inbound_crashed` shows;
  what is proved of it has hypotheses.
* What a fold, a recursive definition or a sort computes for every input is not proved. Where a
  property needs it the models say the same without one: a sum of a report is the cardinality of a set
  of pairs, the score of a mail names its ten signals, the first of a list is the least of a set.

## 7. Where the code and its documents disagree

* **`inbound_two_accounts`.** The lookup that recognises a duplicate is per company, the lock
  around it per account and customer. A mail that resolves to two accounts of a company and
  is delivered twice at once is stored twice, although `workflow_test.go:86` wants no second
  conversation of a duplicate. Two API processes do the same with one account.
* **`inbound_crashed`.** The row commits before the job is enqueued, and the redelivery stops
  at the duplicate check: after a crash in between, "inbound messages produce a
  `ticket:create` job" (`tickets/enqueuer.go:1-3`) is not so.
* **`mailpoll_cursor`.** A bootstrap tick saves the UidNext of its SELECT as the cursor at its
  end, below the UID of a message that arrived meanwhile and was skipped:
  the skip does not "survive" (`poison_test.go:36`). Only the failure count of a poison
  message is lost, it is skipped again later (`EveryMessageSettled` holds).

* **`gmail_lost`.** `pollAccount` stores the new history id after a batch in which a forward
  failed, although it is the "last Gmail historyId processed for this account"
  (`gmailconn/reader.go:25`): the message is not listed again. The IMAP poller retries.

Not run, but seen while modelling: a rejection between the load and the activation of a
review item leaves a rejected item with an active symptom (`review/mysql/repository.go:54`
updates no row and reports nothing); `UpsertSubject` adds proposed subjects for which no
review item is ever written; an assessment of the opening message that is retried may
overwrite the newer inline assessment of a reply (`repository.go:481` writes
unconditionally); a reply whose inline assessment promotes never makes a ticket, because
only the run that opened the conversation asks for one (`workflow.go:550`). Two confirmed promotions
of one conversation may both make a case, because both read it as pending
(`reports/mysql/promote.go:72`). The retrievers by full text
and by graph do not look at `status`, so a reply may rest on an archived article
(`fts_retriever.go:204`). `rag/types.go:15` says a low confidence means "hand off; log knowledge
gap", and the code logs one only for the verdict irrelevant (`pipeline_decision.go:105`). Feedback
that is repeated unchanged is answered "not found", because the update touches no row.

## 8. What is not modelled

* **Inbound and MailRouting.** The activity log, `TouchInbound` (`last_inbound_at`), messages
  without an external id, MIME parsing, webhooks without events; a file of an account is handed
  over at most once for each row; a follow-up overwrites `referenced_case`, which no other step
  reads.
* **Worker.** The return of running tasks to redis at an orderly shutdown.
* **MailPoll, Proposals.** A batch is the set of what is left, taken smallest first.
* **Proposals.** Subjects, problem types and severities of a report, occurrence counts, and
  payloads an operator edits.
* **VectorIndex.** One embedding model (after a switch of models the marks of the old one stay);
  the points `reembed` writes carry no `kb_chunk_id`; a run over every company (`-company=0`)
  always stops at the tenant router; a chunk the provider always refuses blocks those behind it,
  which `EverythingEmbedded` excludes by bounding faults.
* **KnowledgeGraph.** One company; the status of a symptom is the subject of Proposals; the five
  seconds of slack of a sync are left out; the reports near a question are any existing ones.
* **Reply.** One asking company. The cache of results and the symptom anchorer exist in the code
  and are not wired. The budget of a pass begins anew in the second pass, as in the code.
* **Chat.** Scores, limits and filters of listings, draft codes, transcription, debug traces and
  the audit of turns; one API process; the proposals of an initial state are ones that turns
  reach.
* **ModelAccess.** One company and one task; the log of attempts; retries go on although the
  breaker opened meanwhile, as in the code; `Delay` bounds a lookup.
* **MailAssessment.** Instructions only go into the prompt; a product is kept although the fields of
  the company do not include one (the code drops it); one assessment of a conversation at a
  time.
* **Gateway.** The pool is never closed; the number of statements of a request is in its plan.
* **UsageReport.** Input and output tokens are one number, averages, time zones and the usage
  meter are left out; one report is read at a time.

Instructions and case drafting are one prompt and one answer of a model: nothing is kept. The
external services (main application, LINE, Qdrant, Memgraph, redis, the providers) appear as
what the modelled components see of them. SQL of single statements is atomic. Components and
the reason of each status are listed in PROJECT.json.

## 9. What is left

The components of the plan are modelled and model-checked, and their safety properties are
proved. Subjects in Proposals and case drafting in Chat would be the next to model.
