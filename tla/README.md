# AssayBank: TLA+ models and proofs

AssayBank is an assessment platform: an API (`apps/api`), a background worker
(`apps/worker`), a collaboration service (`apps/collab`), two web applications
(`apps/web`, `apps/candidate`) and the packages they share, over PostgreSQL and
Redis (BullMQ). This directory holds TLA+ modules translated from that code, the
TLC configurations that check them on small instances, and TLAPS proofs of what
holds for every instance. `PROJECT.json` is the index: components, runs, mutants,
the map from definitions to source lines, findings, hazards and theorems.

    tlc -workers 2 -config MCRedemption.cfg MCRedemption
    tlapm Redemption_proofs.tla

The modules fall in three groups: protocols with runs of their own (redemption,
invitations, bank jobs, the question bank), smaller processes that share one run
(`MCComponents`, `MCLiveness`), and components that are functions, whose laws are
evaluated over bounded inputs (`Laws`).

## Inventory

| component | state it keeps | operations | talks to |
|---|---|---|---|
| invitation redemption (`apps/api/src/credentials`) | `invitations`, `attempts`, audit rows, a metric | `redeem()` over a Postgres gateway | tokens signed for the candidate application |
| invitation issue and publishing (`apps/api/src/assessments`) | `assessments.status`, `candidates`, `job_openings`, `applications`, `invitations` | publish, invite a pasted list, list | the bank's supply; redemption consumes what it issues |
| question bank (`apps/api/src/questions`, `packages/db`, `packages/core-domain`) | `questions`, `question_versions` and their children | create, patch, archive, new version, edit version, publish version | composition draws from it; import writes it |
| bank import and export (`apps/api/src/bank-jobs`, `apps/worker/src/jobs`) | `bank_jobs` row with checkpoint and counts; a queue entry | submit, relay, run, retry, finish, fail | BullMQ; the question bank |
| job queues, idempotency, dead letters (`apps/worker/src`) | queue entries, markers in Redis, DLQ entries | enqueue, process, retry, dead-letter, replay | Redis |
| scheduled jobs and statistics (`apps/worker/src/jobs`) | `question_stats`, a lease per schedule | sample, recompute | attempts, the bank |
| websocket tickets (`packages/auth`, `apps/collab`) | a clock per process, an in-memory set of used tickets | mint, verify, claim, sweep | API to browser to collaboration service |
| collaboration rooms (`apps/collab/src`) | rooms, sockets, awareness | join, relay, heartbeat, drain | tickets |
| sessions and sign-in (`apps/api/src/auth`) | session rows and cache, sign-in throttles | sign in, refresh, revoke | every staff route |
| authorisation, CSRF, rate limits (`apps/api/src`) | a decision table, counters | decide per request | every route |
| organisation settings, taxonomy, roles | settings document, skills, roles | patch, merge, archive | composition |
| composition, drawing, shuffling (`packages/core-domain`) | none: pure functions of a seed | compose, draw, shuffle | assessments |
| attempt state, deadlines, skill scores (`packages/core-domain`) | none: pure transition functions | transition, extend, score | attempts (routes not in the repository yet) |
| grading (`packages/grading`) | none: pure functions | compare, aggregate, psychometrics | statistics |
| candidate application | countdown and its clock offset, connection state | tick, resynchronise | API |
| audit trail and tenancy (`apps/api/src/audit.ts`, `packages/db/src/client.ts`) | `audit_log`, the `withOrg` transaction | audited mutation | every route |
| interchange formats (`apps/worker/src/interchange`) and dataset importers | none: conversions between a bank item, a document, a QTI package and third-party files | read, write, split | import and export jobs |
| contracts, configuration, markdown, UI, observability | none shared | conversion, parsing, rendering | |

**What is hard here.** Every mutation is a multi-statement transaction at READ
COMMITTED, so another request runs between any two statements unless a row lock
stops it. A commit may take effect and its acknowledgement be lost. A worker may
die, or lose the queue's lock without noticing. Two clocks decide about one
ticket. A browser's tabs share a cookie jar and answers cross. A page sleeps while its
countdown runs. Every one of these is an action of a module below.

**What makes each part correct** is stated as the properties under *Runs*.

## Modules

**`Redemption`** (abstract: **`Sittings`**). State: the invitation, attempt and
audit rows as committed, the row lock, and for each request its place in `redeem()`,
what its SELECT read, its count, its uncommitted rows and its answer. One action per
await: `FindOrgByTokenHash` is the first transaction; `SelectInvitation` and
`LockInvitation` are one `SELECT ... FOR UPDATE`, split because the joined assessment
is read when the statement begins and the row when its lock is granted;
`CountSittings`, `Refuse` or `CreateAttempt`, `RecordRedemption`, `Commit`.
`CommitUnacknowledged` and `Rollback` are the failures; the clock, revocation and
withdrawal are the environment. `Sittings` says only that each invitation has a
bounded number of sittings, taken one at a time and never given back.

**`InvitationIssue`**. Two handlers: publishing (read, ask the bank, conditional
UPDATE, commit) and inviting a batch (read the live addresses once, then per address
skip, or upsert the candidate and insert, then audit and commit). Candidate rows are
locked by the upsert until the end of the transaction, so batches may wait for each
other; `BreakDeadlock` is PostgreSQL's detector.

**`BankJobs`** (abstract: **`BankLedger`**). The row, the relay, the queue entry and
the worker. Each worker step is one transaction; `AdvanceImport` is the checkpoint
that moves in the commit writing the item. BullMQ is external and modelled from how
the worker configures it: attempts, stalled count, job id, retention. Failures are
crashes, failed statements, lost acknowledgements and lapsed locks, each counted and
bounded. `BankLedger` says that the items of a file are settled once each, in order,
and the job then ends once.

**`WsTicket`**. Two clocks that differ by a fixed `drift`; `verifyWsTicket` and
`TicketStore.claim` read the service's clock separately, up to `pause` apart. A
signature is the equality of two keys. The set of used tickets is lost on restart.

**`KindContent`** and **`QuestionBank`**. `KindContent` is the pure part: what each
kind may and must carry, and how a patch is laid over a version. Texts are model
values and collections are counts, as in the code's own `KindContentShape`.
`QuestionBank` is one question with its versions. A request waits for the row
(`RequireQuestion`), reads and decides (`ReadVersion` and its refusals), writes and
commits (`PatchQuestion`, `DeleteQuestion`, `CreateVersion`, `UpdateVersion`,
`PublishVersion`); any of them may fail and roll back. The statements of a status
patch are one action, because they touch only the locked row. `ImportQuestion` is
`importOne` behind `checkBankItem`. `intended` is a history variable: what each
committed request made of its version.

**`JobQueue`**, over **`QueuePolicy`**. One queue consumed by
several processes: delivery, `idempotent()` step by step (look up, work, record), retry
within a budget, `handleJobFailure` and the dead letter, drain, forced close and
restart. `excuse` is a history variable: the keys for which a repeat has a reason the
code names. `QueuePolicy` is the registry, the decisions made from it and the business
keys that job ids are made of.

**`CollabRooms`** and **`CollabWire`**. One room with its sockets, each a queue of frames
up and one down: sync, awareness, odd frames, heartbeat, drain, replacement of the
process. A document is a set of edits (Yjs is external). `CollabWire` is the byte format
and the answers to plain HTTP and to an upgrade.

**`StaffAccess`** and **`HttpPolicy`**. One browser, its cookie jar and its tabs; a staff
request is identified, authorised, checked for its CSRF token and run in separate
steps, and its answer arrives when it does. `HttpPolicy` is the decisions: permissions,
routes, CSRF, rate-limit windows, error envelopes.

**`Taxonomy`**, **`JobRoles`**, **`OrgSettings`**. Overlapping transactions, one action per
statement, with the row locks PostgreSQL takes; writes are visible at commit.
`Taxonomy` also has the coverage report; the id of a new skill is generated once and
never given again, as `gen_random_uuid()` does. **`Organisation`** is the settings and the
roles of one organisation changing side by side, and what their audit rows say together.

**`TenantPool`**. Connections that carry `app.current_org` for a transaction and for a
session; `withOrg` and `withElevated` on them. **`AuditTrail`** is what becomes a row of
`audit_log` and when audited work commits.

**`CandidateShell`**. Countdown, connection monitor and the two announcing regions with
their timers. **`QuestionListing`**: keyset pages, each the
set of ids it shows, while others write. **`QuestionEditor`**:
two authors' forms over the API's versions. **`StaffConsole`**: what the other screens
decide, as functions.

**`Papers`**, **`Scoring`**, **`AttemptRules`**, **`QuestionContract`**, **`Configuration`**: pure
operators. **`Interchange`** is the bank document, the archive and the QTI package, written
and read back, with XML text as a sequence of classes of characters (the parser is
external); **`Datasets`** is the line scanner that cuts third-party test blocks into
cases, and the readers of JSONL rows and Exercism tracks. **`Laws`** enumerates their inputs and states what must hold. **`Absent`**
declares the one value used for what is not there.

The `MC` modules give constants; the `_proofs` modules hold the theorems.
`MCComponents` and `MCLiveness` put components that share no state side by side: a
behaviour chooses one of them in its initial state (`part`) and only that one moves, so
the state space is the sum of theirs and not the product.

## Runs

States are distinct states of the run as configured.

| run | what it checks | instance |
|---|---|---|
| `redemption` | never more sittings than the allowance; audit rows number the sittings 1, 2, ... without gap or repeat; an answer agrees with the table; a sitting is dated inside its window although the request waited for a lock; refinement of `Sittings`; every routed request is answered | 3 requests, 2 invitations (two sittings; no candidate), clock to 2; 439k |
| `bank_jobs` | counts of a job that succeeded add up; refinement of `BankLedger` | an import with a refused item and a parse problem, a failing export, 2 workers, 2 crashes, 1 failed statement; 1456k |
| `bank_jobs_live` | no item written twice unless a lock lapsed; none skipped unreported; every submitted job settles | one import, 2 workers, one of every failure; 869k |
| `bank_jobs_overlap` | *violated*: no item is written twice | one lapsed lock |
| `invitation_issue` | duplicates only from overlapping transactions; audit counts; one publish; every batch answered | 2 batches with the same people in opposite orders, 2 publishers; 213k |
| `invitation_two_links` | *violated*: one live link per person | 2 batches |
| `components` | tickets: admitted once, "replayed" only if somebody was admitted, the store forgets; rooms: synced peers agree; staff: what was withdrawn is refused, the CSRF token follows the session; taxonomy: merges keep the bank unless overtaken; settings and roles: audit rows chain; pools: work stays in its organisation; candidate's page: no threshold missed, the newest message stands; listing: pages tile; editor: untouched fields kept; laws: encodings, documents and packages round trip, datasets are cut only between statements and give drafts for review, grading and papers are fair, access is sound | as in `MCComponents.cfg`; 1153k |
| `liveness` | an effect repeats only for a named reason; a job that gave up is seen; every waiting job concludes; silent peers leave and a drain ends | 1 key, 2 processes, budget 2, 3 faults; 2 clients, 2 sockets, one replacement; 101k |
| `ws_ticket_wiring` | *violated*: a minted ticket is not refused for its signature | keys as wired |
| `taxonomy_overlap` | *violated*: the taxonomy is two levels deep | 1 merge beside 1 create |
| `question_bank` | the lifecycle agrees with the versions and an exported question imports again; status moves along edges; published versions are frozen; edits survive; the audit trail replays | 3 requests out of 18, an sql question, created or imported; 503k |
| `question_bank_import` | *violated*: an import meets the API's publish bar | an item with a blank fixture |

**Bounds.** Two requests make every race in the redemption and bank protocols; the
third lets an allowance of two be exceeded, or a third party act between two others.
Two items put the checkpoint before, between and after them, and one of them is
refused. `Attempts = 2` gives a first and a final attempt, which is all the code tells
apart. A clock bound of two passes both edges of a window. The sql kind is used because
it exercises every field of a coding spec.

In `components`: the tickets' drift exceeds the skew on both sides and the clock runs
past the retention of a ticket minted at 0; a second connection lets each client come
back with edits made while it was away; three staff requests are a sign-in and two that
cross it, and a session lasts one tick so that it expires in between; four skills are
the fewest in which a merge can make a third level; two patches or three role edits are
a first, one that overlaps it and one after both; two connections shared by two callers
of two organisations are handed on, lost and left scoped; the countdown jumps over one
and over several thresholds, and is extended; three rows with a page of one put an edge
between rows of one instant; two authors save over each other's version, one answer
being lost. In `liveness` three faults cover a crash, a lapsed lock and a failed write in
one life of a job. Inputs of the laws are small sets chosen per operator. The audit writer
is asked at and one past its limits of reason, depth and bytes, the last with and without
the members the writer adds; grading with negative and zero marks, maxima and weights, with
what the code throws on as its own outcome (`Missing`). Other inputs are representatives
of the cases an operator tells apart; the schemas' limits of length are not reached.

**Fairness.** `Redemption`: the event loop drives a request that has started, and
PostgreSQL grants a free lock. `InvitationIssue`: the same for batches, and the
deadlock detector acts. `BankJobs`: the relay's timer, the clock, the queue's
delivery and stalled check, and a running worker. `JobQueue`: the event loop runs what is
pending, BullMQ promotes delayed jobs, the container runtime restarts a process that is
down, and, strongly, BullMQ delivers or finds stalled a job that again and again could
be, since processes come and go. `CollabRooms`: timers fire (heartbeat, the end of the
drain) and close events and frames that have arrived are handled. No fairness is assumed
of callers, browsers, staff or failures: a fault may happen at any step up to its bound,
and need not happen.

**Deadlock** is not checked: in every module all requests end and the clock reaches
its bound, so the system may stop. That nobody waits for ever is the liveness property
of the runs that have one.

**Conditions inside properties** name what the code does not keep otherwise:
`NoDoubleImport` (no lapsed lock), `NothingVanishes` (no lost acknowledgement, no lapsed
lock), `JobsSettle` (one failure at most), `AdmittedOnce` (`PauseCovered`),
`MergesKeepTheBank` (no edit overtook a merge), `TokenFollowsSession` (answers that set
cookies did not cross), `NewestStands` (no timer ran so late that a newer message got
past it).

## Findings

Each is shown by a run and quoted in `PROJECT.json`.

1. **Overlapping workers import twice** (`bank_jobs_overlap`). `advanceImport` does not
   compare the checkpoint, so a worker whose lock lapsed and its successor both write.
2. **Two live links** (`invitation_two_links`). The live addresses are read without a
   lock and nothing in the schema backs the rule.
3. **Tickets do not verify as wired** (`ws_ticket_wiring`). The API signs with a derived
   key, the collaboration service verifies with the secret itself. The passing ticket
   run gives both processes one key, which is the intent both comments state.
4. **Blank fixture** (`question_bank_import`). The importer does not trim `fixture_sql`
   before it judges it and the API does. The passing question bank run has no such item.
   A coding question is where the two bars differ the other way too: a fixture of white
   space is none to the API and one too many to the importer, so a coding question the
   API accepted may not import again. `OneBank` is therefore proved for every other kind.
5. **A third level of skills** (`taxonomy_overlap`). `mergeSkills` decides on rows it read
   without a lock; a child committed under the source before the children are moved
   ends up under a skill that has a parent.

Seen while modelling, and not given a run:

*Bank jobs and queues*
- `startBankJob` runs outside `runBankJob`'s `try` (`bank-job.ts:275`). If it fails on
  the last attempt after an earlier attempt set the row running, the row stays running,
  although lines 24-25 say no job is left so. It takes two failures.
- An item whose commit was not acknowledged is in the bank and also reported with
  "nothing from it was saved" (`bank-transfer.ts:306`).
- A lost acknowledgement of `finishBankJob` on the final attempt turns a succeeded job
  into a failed one.
- A job's attempts are fixed when it is enqueued; `handleJobFailure` compares with the
  budget of the deploy that runs. After a change of budget a job may be dead-lettered
  early or not at all.
- The maintenance queue's concurrency of one is per process, not per deployment.
- The worker's `stop` does not await a relay pass that is under way, and a boot that
  fails midway leaves the handles it had opened.

*Invitations and tickets*
- Two first batches each insert an opening for the role (`db/src/invitations.ts:118`),
  and a candidate on both lists has two applications, where line 106 says
  "created if this candidate has none".
- The bank's supply is asked before the assessment is published
  (`assessments/invitations.ts:175`) and a question retired in between makes the paper
  infeasible; the check is advisory, as the draw reads the bank again.
- When the service's clock trails by the whole skew, an entry may lapse between the
  clock reads of `verifyWsTicket` and `claim`; the window is about a millisecond.
- A restart of the collaboration service forgets which tickets were used
  (`ticket-store.ts:71`), which the code documents.

*Questions*
- `publishVersion` moves the pointer to the version published last in time, the import
  to the one with the highest number. A question whose versions were published out of
  order serves another version after an export and import.
- A read of a draft version loads its children in separate statements, so a concurrent
  edit can be seen in part.
- The editor shows `current_version`, which is null until the first publish and published
  from then on. A draft is therefore never shown: each save appends another version, and
  the buttons that send a draft for review and publish it are not offered.
- Editor: a row of options or cases that is sent loses what the form does not hold
  (rationale, score delta); a newly published version arriving replaces unsaved typing.

*Staff and settings*
- Extending a session in the store is not relayed to the browser's cookie. A sign-in that
  fails after the session was made leaves it in the store. `revokeStaffSessions` has no
  caller. Archived users are not filtered by `readProfile` or the permission set.
- The CORS list of methods in `apps/api/src/server.ts` omits PUT, and there are PUT routes.
- `client.ts` of `packages/db` says the leak check fails "the one request that noticed";
  the connection goes back to the pool and the next caller notices again.
- A settings section that does not parse is served as its defaults, and the next patch of
  it writes those defaults back. A patch of a role cannot set a field to null.
- A tag added between a merge's copy and its delete is lost with the source; two merges
  in opposite directions can delete both skills. The contract's comment says merging
  archives the source; it is deleted.
- Console: a failed query for roles reads as "no roles", a failed coverage query as ready;
  `api/client.ts` says nothing else escapes, and a response its schema refuses throws
  another error.

*Papers, grading and the candidate's page*
- The default duration of a long paper exceeds the eight hours a caller may ask for.
- `countAvailable` ignores recently seen questions and pools that overlap.
- Partial credit without negative marking gives full marks for selecting everything.
- Statistics of a version whose attempts were all voided are not refreshed.
- `thresholdsCrossed` compares with the last snapshot that was rendered, which an update
  within the same second leaves as it was (`countdown.ts:313-321`): the half-time
  threshold, which may fall inside a second, is announced again by each update until the
  second ends. A threshold is also announced again after the estimate climbed back over
  it, and half-time twice when it coincides with a fixed one. `NoThresholdMissed` asks that
  each is offered to the announcer at least once, no more.
- A buffered write noted before the effects ran swallows the "offline" announcement; when
  online the page says the work is saved although writes are pending.

*Interchange and datasets*
- A line that ends in a backslash leaves `scanLine`'s depth at one for the rest of the
  block (`assertions.ts:92`), so every later assertion or method is folded into the same
  case, which runs; lines 21-26 say that a wrong boundary is loud. For such a block the law
  claims only what holds: no cut inside a statement and no line lost. That every boundary
  is found is claimed of the blocks without such a line.
- A HumanEval row keeps `def check(candidate):` in its preamble without a body, followed by
  unindented lines (`jsonl.ts:113`), so each emitted case is a syntax error. No law says
  that the source of an imported case runs.
- `jsonl.ts:173` says of a single case that "the publish bar refuses it until somebody adds
  a second", as does `datasets.test.ts:265`; the bar asks for a hidden case
  (`kind-content.ts:153`) and one is enough. The law of rows therefore claims nothing about
  publishing a question with a single case, only that the case is hidden.
- `splitTestMethods`: "the first class wins", but methods of later classes are taken too;
  `setUp` and helpers inside the class are dropped, and a line after a test that is not
  part of it goes alone into the preamble of every case.
- The dataset readers do not call `checkBankItem`: repeated references and a blank
  statement pass. A practice and a concept exercise of one slug are merged.
- `locale` is the one free text a package puts in an attribute, where a parser changes
  white space; `xml.ts:18` says free text never goes there. The law's locales hold none.

## Proofs

Every theorem holds for all values of the constants that satisfy the named assumptions
beside their declarations, which TLC evaluates on the runs' instances: columns and bounds
have their types, nulls differ from values, and what a schema refuses before the code
runs is not an input (`OpsWellFormed`: a PATCH cannot name "published"; `ItemsWellFormed`:
an item's versions are numbered; `SettingsConstants`: every setting has a default among
its legal values; `ListingConstants`: ids are ordered and a page is not empty).
`PolicyConstants`, `AuditConstants`, `ScoringConstants` and `JobRoleConstants` say that a value that is not
there differs from those that are. No theorem assumes anything of timing or fairness.
Specifications in proofs have the form `Init /\ [][Next]_vars`; the smaller components
have their own (`StaffSpec`, `CollabSpec`, `PoolSpec`, `JobSpec`, `ShellSpec`,
`EditorSpec`, `TaxonomySpec`, `OrganisationSpec`, `ListingSpec`) with the `Init` and `Next` that `MCComponents` and `MCLiveness` put side by
side. None of the invariants is inductive as the runs check it; what is added, and why,
is the content of each proof.

**`Redemption_proofs`.** `IndInv` adds to the allowance that a request between its lock
and its end holds the lock (`LockDiscipline`), that what a holder counted is still the
number of sittings (`CountStaysTrue`), and that the row drafted is the one the insert is
for (`DraftStaysTrue`).
- `TypeCorrect`, `AllowanceNeverExceeded`, and `RefinesSittings` (the abstract
  allowance): a commit adds one element to a finite set, every other step leaves it alone.
- `AuditIsComplete`: the audit rows of an invitation number its sittings 1 to n. The next
  number is the size of the set, which only the holder of the lock can change.
- `AnswersMatchTheTable`: needs `Unanswered`, that only a request that is done has an
  answer; a sitting whose acknowledgement was lost is in the table and in nobody's answer.
- `SittingsAreInTime`: needs `DecidedInTime`, because the decision is made at one instant
  and the row written at a later one: the date written is the one decided with, and the
  token minted with it lasts for the sitting.

**`BankJobs_proofs`.** While no lock has lapsed, a busy worker is the one the queue names
(`SoleRunner`), its position is the checkpoint (`AtCheckpoint`), and exactly the items
below the checkpoint are settled (`SettledBelow`). `lockLosses` and `lostAcks` only grow,
so arguments under a condition are made on the prefix before the first loss.
- `TypeCorrect`; `ImportedOnce` (`NoDoubleImport`).
- `EveryItemSettled` (`NoItemLost`): without any condition. A worker's position, and a
  row's checkpoint, have only settled items below them (`CoverInv`), lost locks or not,
  since no step moves a position past an item it did not write or report.
- `TheFileIsAccountedFor` (`NothingVanishes`): the counts are cardinalities of what was
  written and reported (`CountInv`); the parser's problems are counted once because the
  first run is recognised from the row.
- `RefinesLedger`: assumes `MaxLostAcks = MaxLockLosses = 0`. The hypothesis is what the
  code needs and not a convenience: finding 1 is a lapsed lock, and an item whose commit
  was not acknowledged is both written and reported. The run of the refinement has the
  same bounds; crashes and failed statements are unrestricted.

**`QuestionBank_proofs`.** `ReadsHold`: from lock to end a request holds the row, the row
is as it read it, and a publish decided on is still legal. `DecisionsHold` says the same
of the version it decided on.
- `DecisionsAreNeverStale`, `LifecycleKept` (an action property).
- `NoEditIsLost` (`EditsSurvive`) and `PublishedIsFrozen` (`FrozenForever`, an action
  property), from `BankInv`: the number a request writes to is still the draft it read.
- `AuditLogReplays`: each audit row starts where the last one of its field ended.
- `OneBank` (`LifecycleMatchesVersions`): assumes `Kind # "coding"`, for the reason given
  with finding 4; sql, the kind the run uses, and the other kinds are covered.

**`InvitationIssue_proofs`.**
- `OnePublish`: an audit row, the published status and one winner come together.
- `CountsAreTrue`: `ListInv` says that what a batch has done is what its place on the
  list says (each address met for the first time was issued or skipped), `Filed` that
  what is in the tables was put there by a batch that came to the end of its list.
- `OverlapIsTheOnlyWay` (`DuplicatesOnlyFromOverlap`): `ReadInv` says that an invitation
  committed before another batch's read is among what that batch passes over, or was no
  longer live, which neither the clock nor a sitting undoes. Two live links to one person
  therefore come from two batches that each read before the other committed.

**`Organisation_proofs`.**
- `ScopeIsKept` (`TenantScopeHolds`): a caller in a transaction has exactly one
  connection (`OneConnection`), `withOrg`'s work runs on one with no session setting and
  its own organisation (`Scoped`), and an elevated piece of work that committed has its
  row, committed with it (`WorkFits`).
- `MergesAreSound` (`MergesKeepTheBank`), from `TaxonomyInvariance`. The locks of a foreign
  key and of a delete keep a parent in place (`ParentsHeld`) and an id means one skill
  (`IdsOnce`), without any condition. As long as nothing was overtaken, what a create
  checked (`CreateSound`) and what a merge read at each of its statements (`MergeSound`:
  its source, its target, the tags it copied, the children it moves) is still so when it
  commits. An edit that undoes one of these puts the skill in `overtaken`, which is
  finding 5.
- `AuditRowsJoinUp` (`AuditChains`): the lock is why a row read is the row written over.
  `PatchesHeld` says it of the settings document, `RoleHeld` of a role or of a code's place
  in the unique index before the role exists; `TrailChained` and `HistoryWhole` say what
  the trail is at every step between.
- `PagesDivideTheList` (`PagesTile`): a keyset cursor divides what was found into the page
  and the rest. `WalkDivides`: what was shown lies before the next cursor, no two pages
  share a row, and a row that matched all along was shown or lies behind the cursor.
  `created_at` never changes, so no write moves a row across it.

**`Access_proofs`.** The tickets, and the functions of `Laws` for every input.
- `TicketsAreSingleUse` (`AdmittedOnce`): `RememberedWhileValid`, an admitted ticket is
  remembered until it can no longer verify, with the pause to spare. Retention is a life
  and a skew, and a ticket may be admitted a skew before it is dated: that is where the
  arithmetic is tight.
- `ReplaysAreReal`, `SweepsForget`: every entry of the store was earned by an admission,
  and the last sweep is not in the future of the service's clock.
- `AccessIsAlwaysSound` (`AccessIsSound`): every law of access holds of every input that is
  `WellFormedInput`, the types a request, a principal, a record or an environment has once
  the code's own validation has passed it. The inputs of the `components` run satisfy it
  (listed as one more `INVARIANT` of that run it holds). Its parts are theorems of their
  own: `CallersAreDeclared`, `WorkIsRecorded`, `AnswersStayHidden`, `WhatBootsIsSound`, and
  lemmas about the console's advice, the coverage report and retries. `WorkIsRecorded` also
  says that the address a client claims never decides whether the work commits: it was
  parsed before it reached the writer that would refuse it. Each follows the
  code from its answer back to the checks it must have passed.
- `DeadlinesAreFair`, `EventsKeepToEdges`: the arithmetic of extra time for every length
  and percentage the schema allows, and the transition table for every event.
- `StricterImpliesLooser`, `ShortAnswersAreFair`, `ChoicesAreFair`: three of the laws of
  `GradingIsFair`. Short answers are graded for every maximum and key score, the negative
  ones on which the code throws included. A numeric answer's verdict does not depend on which token is looked at
  first (`NumericPasses`). Full marks are told from less than full marks although a mark
  is rounded to six places, as long as a question has at most `MAX_PARTS` right options,
  which is where one option's part of a mark would round away; the contract allows 26.

**`JobQueue_proofs`.** `RepeatsHaveReasons` (`RepeatsExplained`): while nothing excuses a
repeat, one process has the key in flight and a done effect is recorded or about to be.
`FailureIsSeen` (`GivingUpIsSeen`): the event of a last failure is undecided, has raised
the alarm, or died with its process.

**`Clients_proofs`.**
- `WithdrawalHolds` (`WithdrawnMeansRefused`): the invariant says of every request in
  flight what its next check could still find, given the tokens that open a session now
  and the users who hold the permission now (`Fits`).
- `TokensMatch` (`TokenFollowsSession`): without crossing answers one request at most is
  about to set cookies, and it was sent with the cookie the jar still holds.
- `PeersConverge` (`SyncedPeersAgree`): until a side's opening question is read, the other
  may hold anything; from then on an edit one side has and the other lacks is in a frame
  on its way (`Level`), and no frame carries an edit its sender does not have (`Honest`).
- `EveryThresholdIsSpoken` (`NoThresholdMissed`): the rendered snapshot lags behind the
  estimate, so both must have been spoken for, each at least once.
- `LastWordStands` (`NewestStands`): a waiting message is newer than what its region says,
  and the newest of all is said or waiting, through up to four announcements in one update.
- `NoSaveUndoesAnother` (`UntouchedFieldsKept`): the version a form was read from is
  published and cannot change, so a field its author did not touch does not differ from it
  and is not sent. Its lemma `ButtonsCreate` is the observation about drafts above.

**Only model-checked.** Liveness (`EveryRequestAnswered`, `EveryBatchAnswered`,
`JobsSettle`, `JobsConclude`, `SilentPeersLeave`): fairness and `ENABLED` are beyond the
prover. `EncodingsRoundTrip` as a whole: it is about what folds and scans over sequences
of any length compute, which takes induction over data. `GradingIsFair` as a whole: its
laws of comparing, short answers and choices are proved for every input (above), those of
deadlines and events too; papers (allocation by weight, draws and shuffles), item
statistics, weighted means and skill scores are sums over sequences and sorted sequences, and stay with
TLC.

## Not modelled

Row-level security, constraint checking and deadlock detection are PostgreSQL's,
delivery is BullMQ's, sessions are Better Auth's and merging of documents is Yjs's: each
appears as this code uses it and is marked external in the map. Cryptography is
equality. Of the interchange formats, the spelling of XML and the schemas' length limits
are left out. The OpenAPI document is generated from the schemas. Markdown,
the component library, layout, wording, logging and metrics are left out. Weights and
marks are floating point in the code and exact integers here, so rounding is modelled
only where the code rounds. Seeding, migration and repository scripts are not part of
the running system. The components table in `PROJECT.json` gives the reason for each part.

## Plan

What a further step would take up, in order of weight.

1. `QuestionListing` and `QuestionBank` composed, so that the rows that appear in pages
   are those the question routes write.
2. The sums of `Scoring`, `Papers` and `AttemptRules` as recursive functions with their
   recursion equations stated as lemmas, so that bounds on them can be proved for papers
   and sections of a fixed length.
