# CashCo verification project

TLA+ models, TLC checks and TLAPS proofs for CashCo, the partner-settlement
application in `src/` (Python, Streamlit, SQLite, Google Drive and Gmail,
Cloudflare R2). Paths below are relative to the repository; the application's
package is `src/src/`.

## 1. The system

Every half month (a *period*, `2026-06-P1`) CashCo turns delivery orders into
one settlement, three PDF documents, one email and one bank payment per
partner restaurant:

    Invoice Scope -> restaurant registry (+ Partner Legal Master) -> Admin
    Earnings orders -> settlement -> review, overrides -> documents -> archive
    -> email packages -> Admin authorization -> send -> period lock
                                     settlement -> payment batch -> reconciliation

The application has no server process of its own: each browser session (and
each Streamlit rerun) runs the page's Python code in a thread, the scripts run
beside them, and they meet in SQLite files, in Drive, in R2 and at Gmail.
Almost every repository method opens a connection, runs one transaction and
closes it. So **one repository or provider call is the unit of atomicity**, and
everything a handler does across two calls can interleave with other sessions,
raise half way, or be cut by a restart. That is where the hazards of this code
are, and what the models describe.

### Inventory

| Component | State it keeps | Operations | Hard part | What makes it correct |
|---|---|---|---|---|
| Email workflow (`emails/workflow_service`, `workflow_repository`, `phase10_authorization`, `period_locking`, `packages`, `readiness`) | SQLite: locks, modes, authorizations, send attempts, audit; Gmail's mailbox | preview, create_draft, send, send_batch, authorize, set_safe_mode, lock, reopen | claim/send/record over three systems; lock and authorization read long before they are used | one delivery per package; outcome rows agree with the mailbox; nothing sent without a matching authorization; a closed period is really sent |
| Email Center and pages (`emails/runtime`, `pages/06`, `pages/09`) | cached snapshot | build snapshot, offer actions | snapshot older than the state it is used on; loading it can stale an authorization | a page offers what the services will accept |
| Sandbox drafts (`emails/sandbox`, `emails/gmail_adapter`) | PENDING/CREATED/FAILED rows | create_draft | crash between claim and outcome | one draft per key; a failed one can be retried |
| Phase-1 email services (`emails/service`, `emails/authorization`, `emails/registry`) | in-memory authorizations, upsert registry | authorize, execute, send_test | check, send, upsert | SENT is not overwritten |
| Document archive (`documents/archive`, `r2_storage`, `publishing`, repair script) | append-only publication rows, R2 objects, Drive files | publish, retry_failed, validate storage, repair | supersede and append are two transactions; versions are read then written | one current version; versions grow; a current row's object holds its bytes |
| Document engine (`documents/phase8`, `legal_readiness`, `service`, `registry`) | phase-1 registry | candidates, readiness, generate | status order | only settled, legal, validated documents are ready |
| Settlement (`settlement/phase5_*`, `financial_rules`, `cashco_legacy_v1`) | none | evaluate a period | many filters that must partition the orders | every included order counted once; totals agree |
| Overrides (`settlement/overrides`) | append-only rows | create, list | lock check, read, append | one chain per order; none in a locked period |
| Formula certification (`settlement/legacy_validation`) | none | parity report, certification gate | - | only a certified policy computes money |
| Phase-1 engine (`settlement/engine`, `rules`, `workflow`, `periods`, `adjustments`) | in-memory | process, transitions, reclassify | transition table | LOCKED is final; periods tile the calendar |
| Payments (`payments/*`) | payments, batches, locks | readiness, state machine, batch, validate, reconcile, lock | one payment in two batches, greedy matching | a payment is validated and matched once |
| Ingestion (`ingestion/phase3_service`, `deduplication`, `processed_store`) | six Drive artifacts | run, publish, restore | six updates, no transaction; folders that change while they are read | every row of every file is accounted for; a failed publication changes nothing |
| Legacy eligibility, conflict diagnostics (`ingestion/payment_scope*`, `admin_earnings`, `eligibility_runtime`, `conflict_diagnostics*`) | scope snapshots | read three tables, judge orders, classify conflicts | blank and unreadable cells through several filters | only uncontested, scoped orders are eligible; nothing a reviewer must see is called resolvable |
| Source discovery (`ingestion/phase2_discovery`, `registry`) | manifest rows | discover, register, mark missing/inaccessible | several passes | a missing file is reported, an unreadable folder is not "missing" |
| Restaurant registry (`restaurants/*`) | none | build, match | duplicate and conflicting rows | no restaurant matched to two, conflicts never ready |
| Partner Legal Master (`restaurants/legal_master`) | process-local cache | load, expire, force | refresh failure, age | a stale source is marked stale |
| Operations (`operations/*`) | review events, billing rows | transition, build queue, evaluate go-live | issue identity | a waiver applies to the issue it was given for |
| Roles, audit, config, adapters, pages, scripts | - | - | - | used by the others |

`PROJECT.json` lists the same components with what is modelled of each, and the
hazards of the code at their lines.

### How they interact

Settlement reads the artifacts ingestion wrote (two separate downloads), the
registry and the overrides. The document engine reads the settlement; the
archive publishes its candidates; the Email Center builds packages from
settlement, registry and current publications, and hands packages, readiness
and counts to the email services, which read and write the workflow database.
Loading the Email Center writes too: `is_current` marks an authorization STALE
when the rebuilt hashes differ. Payments read settlement and documents. The two
period locks, the email workflow's and the payments', are separate tables.

## 2. The modules

Each row is a specification or a library of operators; the `MC` modules hold the
small instances TLC runs. A column "on" says which module a part extends: parts
that share state or data are composed that way, and a variable (`desk`, `open`,
`team`), chosen in the initial state and never changed, says which part of a
composed model a behaviour is about when the parts do not interact.

| Module | On | Models |
|---|---|---|
| `EmailWorkflow` | | sending, authorization, mode, lock and reopen of one period |
| `SendLedger`, `EmailLedger` | | abstract: what happens to one send key; and the refinement mapping |
| `EmailCenter` | `EmailWorkflow` | the Admin Control page |
| `DocumentArchive` | | publication of documents to object storage, and the packages that attach them |
| `Decimals`, `FinancialRules` | | decimal arithmetic; order rules, commission rates, the certified money chain, periods |
| `ScopeRegistry` | | the restaurant registry made of the Invoice Scope and the RST list |
| `Settlement` | the last three | evaluation of a period, financial overrides, the page's cache |
| `Billing` | | validation, lock and reopening of a billing period over a cached evaluation |
| `Payments` | `Billing` | readiness, batches, payment history, bank reconciliation |
| `Review` | `Payments` | the Review Center's issues and decisions |
| `Ingestion` | | a run over the Admin Earnings folder and the publication of its artifacts |
| `Manifests` | `Ingestion` | source discovery and the manifest registry |
| `LegalMaster` | | the Partner Legal Master: rules and the shared cache |
| `Documents` | `LegalMaster` | document candidates and their publication on Drive |
| `SandboxDrafts` | | drafts for the sandbox mailbox |
| `FirstPhase` | `SandboxDrafts` | the phase-1 document, authorization and email services |
| `LegacySources` | | the legacy eligibility and its snapshots |
| `ConflictDiagnostics` | | classification of conflicting duplicates |
| `LegacyFormula` | `FinancialRules` | reconstruction of settled periods, certification |
| `Analysis` | the last three | one request after another to them |
| `EmailProofs`, `DocumentArchiveProofs`, `SettlementProofs`, `ReviewProofs`, `ManifestsProofs`, `DocumentsProofs`, `FirstPhaseProofs`, `AnalysisProofs` | the last module of what they are about | the theorems (section 4) |

### EmailWorkflow

One period: every table row is keyed by the period code and no operation reads
two periods. A *session* is a caller; `pc[s]` names the repository or Gmail call
it makes next and `req[s]` holds the handler's local variables.

| Variable | Code |
|---|---|
| `locked`, `mode` | `email_period_state`, `email_period_modes` |
| `authStatus`, `authMode`, `authPackages` | one `period_authorizations` row per id: the status column, and from the payload the mode and the package set the three hashes were taken of |
| `nextAuth` | the order of `authorized_at`, which is taken before the row is saved |
| `latest` | status of the last `send_attempts` row of each send key (rows are only appended, the last one is what every reader looks at) |
| `started` | the number of SEND_STARTED audit rows per key |
| `deliveries` | messages Gmail accepted per key: the mailbox, which the code cannot read |
| `snapshot` | which package set the period's data gives now |
| `closure` | what PERIOD_LOCKED recorded of the close: manual or complete |
| `faults` | exceptions and crashes so far |

Abstractions. A send key is `<<partner, document version>>`: the code hashes
the period, the restaurant, the document versions and the package version and
leaves out recipient and amounts, so two data sets that share the document
versions share the key. A package is `<<partner, document version,
content>>`, where `Content` numbers everything else the three snapshot hashes
cover (settlement, recipient, message); the hashes are equal exactly when the
sets of packages are. Configuration flags that refuse everything (production mode
off, drafts off) are on. Every session is an Admin's. A typed confirmation that
does not match ends the handler before it touches anything, as do missing
reasons; these attempts are left out. The audit rows written after a completed
change are left out except SEND_STARTED, whose failure decides what happens.

| Actions | Handler |
|---|---|
| `BeginSend` ... `SendReadAuth`, `SendInvalidate` | the checks of `send`, in the order of the code; `is_current` writes STALE when the hashes differ |
| `SendClaim` | `claim_send`, one `BEGIN IMMEDIATE` transaction |
| `SendAuditStarted`, `ProviderAccepts`, `ProviderRaises`, `RecordSent`, `AuditSent`, `RecordRaises`, `RecordFailed` | the audit before the `try`, the `try` and its one `except` |
| `BeginBatch`, `SendNext`, `Continue` | `send_batch`: a returned attempt continues, a raised check ends the batch |
| `BeginAuthorize`, `AuthorizeReadLock`, `SaveAuthorization`, `AuthorizeSetMode` | `authorize`, a transaction per step |
| `BeginSafeMode`, `SafeModeReadLock`, `SafeModeSet` | `set_safe_mode` |
| `BeginLock`, `LockCountSends`, `LockSet`, `LockReadActive`, `LockMarkUsed` | `lock` |
| `BeginReopen`, `ReopenCheck`, `ReopenUnlock`, `ReopenReadLatest`, `ReopenMarkStale`, `ReopenSetOff` | `reopen` |
| `ChangeData` | settlement, documents or contacts change under the sessions |
| `Interrupt` | a call raises outside any `try`, or the process dies: the session is gone, what it wrote stays |

`ProviderRaises` may or may not have delivered the message: a timeout after the
request was served looks to the code like a refusal. `lock` is given the number
of intended sends by its caller; the module gives it one per partner, as the
tests do. The number the Admin page passes is another one and belongs to
`EmailCenter`. `create_draft` (no claim, no record, no idempotency) is not an
action.

### SendLedger and EmailLedger

`SendLedger` is what a reader should have in mind of one send key: a caller takes
a free key, or a failed one on a retry; while it holds it nobody else does; it
announces, delivers, and records SENT or FAILED, or vanishes and leaves the key
held for ever. It knows nothing of modes, locks, authorizations or batches.
`EmailLedger` maps the positions of the sessions to the holders of the keys, and
`ImplementsLedger` says that `EmailWorkflow` behaves so.

### EmailCenter

The page reads the state in several transactions and hands what it read to the
services. `page[t]` is the current rerun of tab `t`: how far it has read
(`step`), which button caused it (`click`), and what it has read (`snap` the
settlement, `auth` the newest ACTIVE row, `sent`, `locked`, `ready` once the
publications are read, `current` the verdict of `is_current`).

| Actions | Code |
|---|---|
| `Rerun` | the page is opened, reloaded (in the middle of a rerun too) or one of its enabled buttons is clicked |
| `LoadData`, `LoadAuthorization`, `LoadSends`, `LoadLock`, `LoadDocuments` | the reads of `build_email_center_snapshot`, in its order |
| `CheckAuthorization` | `is_current` with the packages that are ready, and STALE when it says no |
| `Show`, `PageAuthorize`, `PageLock` | the rest of the rerun: widgets, or the call the click asked for |
| `ServiceStep` | the steps of `EmailWorkflow`; a tab starts reopen and safe mode from a page it shows, and never sends |

Abstractions. `Ready[n]` are the partners with no blocker of their own in data
`n`, `Documents[n]` those whose documents are READY; the blockers that depend on
this state (sent, locked, authorization) are computed. Documents are taken to be
stored in R2, the setting under which publications are read separately. Streamlit
runs the whole page again on a click: the button's enabling is that of the
previous rerun, the data that of the new one. Phrases and reasons are typed
correctly, or nothing happens. No page of the repository calls `send` or
`send_batch`, so other sessions do.

What the page authorizes is therefore the data of the click's own rerun, not of
the page the Admin looked at when confirming "I reviewed this exact immutable
period snapshot" (`src/pages/09_Admin_Control.py:235`). The model says so in its
actions; no property is stated about it.

### DocumentArchive

A *publisher* is a process that runs `DocumentArchiveService`; a *package* is a
process that builds the references of an email package (`build_email_center_snapshot`)
and then loads them (`PublicationAttachmentLoader`).

| Variable | Code |
|---|---|
| `latest` | of `document_publications`, the last row per publication key: `history` and `list_latest_for_period`, through which the archive and the Email Center read the table, keep no other |
| `objects` | what the bucket holds under the object key of each version |
| `source` | the document the period's data gives now |
| `run[p]` | the publisher's candidates (`cand`), those still to do, and for the one under way the locals of `_publish_one`: the current publication it read (`prior`), `version`, the attempts of the upload, the error; and the results of the batch |
| `mail[m]` | the package's candidates, the documents still to read, and what was attached |

| Actions | Code |
|---|---|
| `BeginPublish`, `BeginRetry` | candidates are built from the data; `retry_failed_publications` selects |
| `AlreadyPublished`, `Prepare` | `current`, the comparison of hashes, the next version, rendering and validation |
| `RecordPublishing`, `Publish`, `Fail`, `Supersede` | the appends |
| `Upload`, `UploadRaises` | one `put_pdf`, returning or raising, with the object stored or not; `_upload_with_retry` around it |
| `Verify`, `VerifyRaises` | `head`, `download`, `_verify_storage` |
| `Finish`, `Abort` | the batch result; a crash, or an exception nothing catches (botocore's own errors are none of the caught types) |
| `BeginPackage`, `ReadRef` | candidates, `current` per document, `published_refs` and the three-documents rule |
| `LoadRef`, `FetchObject`, `EndPackage` | the loader's registry read, its download and hash check |
| `ChangeSource` | new orders, overrides or legal data |

Abstractions. A document's pages are a value `Rendering[c]` of its content; the
version line is printed on the pages, so a rendered document, and its
`document_hash`, is the pair `<<version, pages>>`, and the publication key is that
pair for one document. The object key has the version only, so two renderings of
the same version share an object. `content_hash` is of the content as it was built,
with version 1. Head, download and comparison are one step: nobody else writes the
object in the runs, which have one publisher, and the proofs that need it say so.
The bytes under a key are rendered pages or `"corrupt"`, anything else. Contents in
`Drafts` are refused before the upload. Documents are stored in R2. Documents do
not share rows or objects, so one document and one package are the instance that
matters; the proofs cover any number.

### Decimals, FinancialRules, ScopeRegistry, Settlement

`Settlement` is one period. An evaluation is four downloads followed by a
computation; a reviewer decides on what an earlier evaluation showed.

| Variable | Code |
|---|---|
| `source` | the published orders, the invalid-amount issues and the two sheets |
| `overrides` | the `financial_overrides` table, in the order of the appends |
| `locked` | what `period_locked` answers |
| `clock` | `datetime.now`; every reading is later than the one before |
| `cache` | the page's cached workspace |
| `session[e]`, `dialog[r]` | an evaluation under way; a reviewer's dialog and how far `create` is |

| Actions | Code |
|---|---|
| `ReadOrders`, `ReadIssues`, `ReadRegistry`, `ReadOverrides`, `FinishEvaluation`, `AbortEvaluation` | `load_phase5_workspace` and `Phase5SettlementService.evaluate`, which fails as a whole on an override for another restaurant |
| `OpenDialog`, `CheckLock`, `ReadHistory`, `Stamp`, `SaveOverride`, `CloseDialog` | the page and `FinancialOverrideService.create`, a repository call per step |
| `ClearCache`, `SourceChanges`, `LockChanges` | expiry; a new publication or sheet; lock and reopen |

`Evaluate` is the whole computation as one operator: which orders are in the
period and of whom, each order's decision (`SettlementOrder`, over `Classify`), the
issues and the status of each restaurant (`RestaurantSettlement`), and the
certified chain (`Certified`). Statuses and reasons are the classes the code's
tables divide normalised texts into. `Decimals` rounds every operation half-even
to a context of `Precision` digits, as Python does with 28: the sums and
differences of rounded amounts are what the exact comparisons of the document
engine test. TLC computes with four digits, the proofs hold for any number of them;
the only condition is `TotalsAreShort`: the total of any of the orders leaves the
context a digit to spare (in the code, fewer than 28 digits). What only the display
of a registry row needs is one field, `detail`.

### Billing, Payments, Review

| Variable | Code |
|---|---|
| `evaluation`, `cache` | what an evaluation would give now; `st.cache_data` of it |
| `events` | `billing_period_events` |
| `page[s]` | the click under way: the action, the figures it was shown, whether it has read the latest event |
| `registry`, `batch`, `history`, `held[o]` | RIBs and reviews; the batch in preparation; `payment_history`; the version an officer read |
| `statement` | the last bank reconciliation |
| `workspace`, `kept`, `failing` | what issues are built from, its cached copy, the publications that failed |
| `reviewEvents`, `screen[s]` | `review_status_events`; the issues on a reviewer's page and the click under way |

| Actions | Code |
|---|---|
| `Click`, `Check`, `AppendEvent` | a button of the Billing page; the reading half and the appending half of `validate`, `lock`, `reopen` |
| `MakeBatch`, `ValidateBatch`, `StoreItem`, `TakePayment`, `AppendTransition` | `PaymentBatchService.preview` and `validate`, `PaymentRepository.append`, and `PaymentStateMachine.transition` on a version read earlier |
| `ReconcileStatement` | `PaymentReconciliationService.reconcile` as one operator over the payments and the lines, in their order |
| `ShowIssues`, `SaveStatus`, `TransitionIssue` | a rerun of the Review page, the click, and the append of the status |
| `ExpireCache`, `SourceChanges`, `RegistryChanges`, `RefreshSources`, `IssuesChange` | the surroundings |

An event has its actor, which a lock's history is told by.
The fingerprint of an evaluation is its figures restaurant by restaurant, whose totals
need not reconcile (`Difference`); the hash of a record the figures
it covers, and an issue's identity the triple of restaurant, type and text; amounts
are integers, in tenths of a centime for payments, so that they can fall between
two amounts a bank can pay. The Payments page calls readiness and preview only, as
a dry run; the batch, history and reconciliation services are used here as their
tests use them. `open` says which sessions, two at a time, are at work.

### Ingestion, Manifests

A run of `Phase3AdminEarningsService` lists the folder, reads and normalises
file by file, removes duplicates, and overwrites the artifacts one by one, with
nothing keeping two runs apart.

| Variable | Code |
|---|---|
| `folder`, `processed`, `usable` | the contents of the Admin Earnings folder and of the artifacts; the artifacts with one writable copy |
| `run[r]` | the locals of the run: listing, frames, result, previous contents, how many are updated and verified |
| `overlapped`, `uncovered` | history variables: runs another publication met; runs stopped half way, or failed in a way a restoration cannot undo |
| `drive`, `places`, `manifests` | the source folders, their access, `source_manifests` |
| `check[c]` | a discovery: the scan it is at, the listing, the row it read, what it reported and answered |

| Actions | Code |
|---|---|
| `List`, `ReadSource`, `AttemptFails`, `Build` | `run`, the reader with its attempts, the result with duplicates, conflicts and issues |
| `Resolve`, `KeepPrevious`, `Update`, `Verify`, `Restore`, `Raise`, `CallFails` | `ProcessedAdminEarningsStore.publish` and `_restore` |
| `CheckLocations`, `ListFolder`, `ReadManifest`, `WriteManifest`, `FindMissing`, `MarkMissing`, `MarkInaccessible`, `Answer` | the phase-2 discovery and, with other scans, the legacy one |
| `Import`, `RecordIngestion` | the legacy import, which writes the same registry |
| `Crash`, `SessionEnds`, `ListingFails`, `FolderChanges`, `SourcesChange` | failures and the outside |

One financial field stands for the eight, whose treatment is the same; of the six
artifacts the runs have three. A cell is a value, blank, unreadable, or a Boolean,
which only workbooks have and which the normaliser raises on.

### LegalMaster, Documents

| Variable | Code |
|---|---|
| `versions`, `replaced`, `clock` | the contents the sheet had, when each was replaced, `time.monotonic` |
| `entry`, `holder`, `calls[c]` | the cache's entry, its lock, the loads under way and their answers |
| `drive`, `publications` | Drive's objects by identifier; `document_publications` |
| `runs[p]` | a script: the document, folder and file it is at |
| `lost`, `raced` | history variables: files no row can name; documents two scripts had in hand at once |

| Actions | Code |
|---|---|
| `Hit`, `Miss`, `Fetch`, `Store`, `LoaderRaises` | `PartnerLegalMasterCache.load` under its lock |
| `Start`, `ListProbe`, `CreateProbe` | the script and the write probe, which lists and creates in two calls |
| `ReadLatest`, `Claim`, `FindFolder`, `MakeFolder`, `CreateFile`, `Record` | `DocumentPublishingService._publish_one`: the latest row, the PUBLISHING row, `ensure_folder` level by level, `create_file`, the outcome |
| `ProviderRaises`, `Crash`, `Expire`, `SheetChanges`, `Tick` | a call that raises with or without its effect; the outside |

`Enriched` is `PartnerLegalRegistryEnricher` and `LegalStatus` the
`DocumentLegalPolicy`, for the fields the rules tell apart; the others go the same
way. A document is the candidate it renders, and its digest is the candidate. The
figures of a settlement are exact, in `Unit`-ths of a centime, and on those the engine
checks that they add up (`Reconciles`); what a document shows is each of them rounded
half-even on its own (`Presented`). `ProviderRaises` is the exception of any Drive call;
one that creates something, the probe, a folder or the file, may have done so.

### SandboxDrafts, FirstPhase

| Variable | Code |
|---|---|
| `rows`, `audit`, `mailbox`, `script[p]` | `sandbox_drafts`, its audit events, the drafts at Gmail, a process |
| `figures` | how many settlements the restaurant has had; the n-th is a version of its figures |
| `documents`, `numbers`, `auths`, `records` | the tables of the phase-1 services |
| `outbox` | what Gmail did for the partner |
| `clerk[c]` | a caller of the services and what it has read |

| Actions | Code |
|---|---|
| `CreateDraft`, `ClaimFree`, `ClaimTaken`, `Announce`, `GmailCreates`, `GmailFails`, `Unbuildable`, `RecordDraft`, `Confirm` | `create_draft` of the sandbox, a transaction or call per step |
| `Generate`, `NextNumber`, `SaveDocument`, `CompareDocuments`, `MarkStale` | `DocumentService.generate` and `invalidate_if_changed` |
| `Authorize`, `Invalidate` | `AutomationAuthorizationService` |
| `Execute`, `Validate`, `ReadActive`, `ReadStatus`, `Deliver`, `DeliveryFails`, `RecordDelivery`, `RecordFails`, `RecordFailure` | `EmailExecutionService.execute`, with its reads apart |
| `Recalculate`, `ScriptCrash`, `ClerkStops` | the outside |

`GoogleGmailService` turns every failure of the call into a
`DriveConnectionError`, which `create_draft` does not catch: the claim stays
PENDING. Only a message that cannot be built is recorded FAILED.

### LegacySources, ConflictDiagnostics, LegacyFormula, Analysis

These parts answer questions and keep nothing but the snapshots of the scope
registry, so they are operators over tables, conflicts and cases, and `Analysis`
is a session that asks one after another: an answer stands, with its inputs, until
its caller is done with it (`AskEligibility`, `AskWithoutSources`, `AskEnrichment`,
`AskDiagnosis`, `AskCertification`, `Done`). The properties compare an answer with
a definition of their own over the inputs: an order's rows in the raw tables, the
pairwise differences of a conflict's versions, the chain of `FinancialRules` over a
period's orders. A heading is its normal form with its text; the order's date,
amount and status, required and parsed one after another, are one field. What the
code keeps in a list only to read it from one end, or to count it, is a set with its
order said apart: `First` and `Latest` are the ends of the stable sort by
`_occurrence_key`, where versions of one place keep the order of the list (`Follows`).
Of a case's `settlement_context` the model has `sales_ttc`, which the commission is
taken of before the orders are (`CommissionBase`); every other key that the chain reads
it writes first. The bands, behaviours and impact of a diagnosis are computed and have
no property of their own: they are sums and lists a report prints.

## 3. The runs

Two actors are enough for every race between two handlers; each goes back to idle
and starts again, so a run also covers sequences of requests. Actors of one kind
are interchangeable where a symmetry set says so (no run with a liveness property
has one).

| Run | Instance | Shows |
|---|---|---|
| `email_delivery` | 2 sessions, 2 partners, 2 data sets; 1 fault, or 2 authorizations | SENT means delivered; a second delivery only in a request that asked for a retry; every step is one of `SendLedger`; interleaved authorizations leave one ACTIVE; a complete close misses a partner only where another was sent two versions |
| `center_view` | 1 tab, 1 sender, 2 data sets, 2 authorizations | SEND follows an earlier authorization; none that ended comes back; a claimed package is one a SEND authorization covers |
| `archive_publish` | 1 publisher, 1 package, 1 document, 4 contents, 2 changes | a PUBLISHED row names what is stored; a batch's successes are current; attachments are the pages the references were taken of; a row is withdrawn for a stored successor that says something else; every batch ends |
| `settle_period` | 2 orders, 2 restaurants, a catalogue of rows and sheets, 2 reviewers | no order is paid twice; a READY settlement accounts for every order after rounding; the deciding override was replaced by none |
| `ingest_sources` | 2 runs or 2 checks, 2 files, 3 artifacts, 1 fault | each row of a result is in one place; a publication is entire or undone; no version enters the registry unreported; READY leaves no known file out |
| `operations` | 2 sessions of the Billing page that may do everything, or 2 officers, or 2 reviewers | what is locked reconciles and is a validation's, figure by figure, with only the work of others in between; a validated batch pays what the records show; a payment's history follows its own versions; a statement settles nothing twice and leaves open what is missing; no decision falls on an issue nobody saw |
| `documents_drive` | 2 sessions or 2 scripts, 2 restaurants, 3 sheets, 4 runs, 2 faults | old content does not pass for fresh; PUBLISHED rows have their file and every file its row or counted failure; two files of a document only after a lost reply or a race; published names are undisputed; published figures add up but for a centime |
| `first_phase` | 2 scripts or 2 clerks, 1 fault | one draft of a key at most, and what is told of it is true; documents invalidated are stale; what a partner gets was approved; a second send has a race or a failure behind it |
| `analysis` | tables with blank and unreadable cells, conflicts of every kind, settled periods | eligibility rests on uncontested orders and written restaurants; an enrichment on rows that agree; a diagnosis adds up and calls nothing resolvable that is a reviewer's; a certificate stands for its history |
| `email_duplicate` | 1 fault | (violation) the same key delivered twice |
| `center_close` | 2 ready partners | (violation) the page closes the period as complete with one partner unsent |
| `archive_offered` | 2 contents, 2 versions | (violation) a document published as version 2 from today's data is not offered to the Email Center |

The negative runs are sentences of the documentation, a docstring and an error message
that the code does not keep;
`PROJECT.json` "findings" quotes them. Section 5 has the others.

Three runs have a constraint, `Followed`, that chooses between two kinds of behaviour, as
both at once would be too many states. `email_delivery` has a fault with one
authorization, where it follows the second data set, in which every document is
republished, while nothing is claimed; or two authorizations without a fault, where the
documents are republished at any time: between two sends, and between the count and the
lock. That is what a close is about: it counts send keys, so a partner sent twice counts
twice. What can be promised of a close is therefore `CompleteCloseAddsUp`: it has reached
every partner, or some partner was sent its package under two document versions (the
theorem has neither constraint nor hypothesis). Requests without a fault are followed
without the retry flag and manual closes, which change nothing there. `operations` has for
the Billing page evaluations of equal totals and some that do not reconcile, over one
registry, and for payments others and one change. `documents_drive` has two runs and a
fault for every document and sheet, or four runs and two faults for one document.

`center_view` changes its data at any time; its data 2 brings a blocker back, so that a
change between the reads of a rerun shows. `archive_publish` has one publisher because only the activation script
(`src/scripts/validate_activation6a_real.py`) publishes, by hand; two at once break
`CurrentIsStored`, and nothing in the code prevents them. Of its contents, `c3` has
the pages of `c1` and other figures, `c4` is a draft.

Exceptions that a property makes are the code's own, and each is a state the run
reaches. `PublishesAllOrNothing` leaves out runs that overlapped another
publication, and those that stopped half way, failed on an update that took effect
all the same, or failed in the restoration; `PublishedOnce` counts the files on Drive
and leaves out those no row can name, whose reply was lost (`lost`), and documents two
scripts had in hand at once (`raced`); `LockedFiguresWereValidated` allows the events of
others between the validation a lock has read and the lock itself; `ResendIsExplained` names the ways in
which a repeated send can come about without a reason; `DecidedIssuesWereSeen` is
about issues with a restaurant (see below).

### Bounds

All are named constants.

| Bound | Why it is enough |
|---|---|
| `MaxFaults` = 1 (one exception or crash, at any call of any actor) | a fault leaves a claim, a row or a file behind, and the next run meets it; in the email workflow the theorems hold for every number of faults, in the sandbox too |
| `Followed` of `email_delivery`, `operations`, `documents_drive` | see above |
| `MaxAuths` = 2 | any order of two stamps and two saves (two sessions authorize at once in `email_delivery`; the page's run has one tab and is about what the tab remembers) |
| `MaxChanges`, `MaxEdits`, `MaxVersions` (1 or 2) | a change while a handler is under way, and in the archive one more |
| `MaxVersion` = 3, `MaxRetries` = 1 | a version, its successor and the successor's; the code's default is 2 retries, one shows an attempt over what the first left |
| `MaxOverrides` = 3, `MaxClock` = 4, `MaxEvaluations` = 2, `Followed` | two overrides that replace the same one and a later one; the catalogue of sources is evaluated in full, and reviewers and changes are followed on the two sources of `Followed`, where the order they decide moves to another restaurant |
| `MaxEvents` = 4, `MaxHistory` = 3, `MaxDecisions` = 2 | validate, lock, reopen and the event of a session that was under way; a prepared payment and two transitions written from it; a decision and the next |
| `TTL` = 2, `MaxClock` = 4 | two lifetimes, so that a stale answer is itself renewed |
| `MaxRows` = 4 | a claim, its failure, a second claim and its record |
| `MaxRuns` = 4, `MaxFaults` = 2 in `documents_drive` | two runs that fail, each in its own way, and two more that publish over what they left |
| `Unit` = 4 | figures in quarters of a centime: below, at and above a half; the theorems hold for every `Unit` |
| `MaxFigures`, `MaxDocuments`, `MaxAuthorizations`, `MaxMessages`, `MaxRecords` = 2 | one and its successor |
| `Attempts` = 3 | the reader's own number |
| `Precision` = 4 | rounding happens at every step of the chain with amounts of three digits; the theorems hold for every precision |

`started` and `deliveries` of the email workflow need no bound: each delivery beyond
the first of a key costs a fault.

### Fairness

`archive_publish` uses `FairSpec` of `DocumentArchive`: weak fairness of each
publisher's `Progress`. A storage call returns or raises, and a Python thread that
is not interrupted goes on. It asks nothing of those who start a run and nothing of
faults; a run may be aborted at any time, which also ends it. `BatchEnds` is the only
liveness property: elsewhere nothing in the code resolves what a fault leaves behind
(a claim stays SENDING, a draft PENDING) and no document says it would be.

The runs with `CHECK_DEADLOCK FALSE` stop when their bounds are used up.

### Mutants

Every property of a passing run is also shown able to fail: `PROJECT.json` names
for each a mutant of one definition (a claim that ignores SENDING, a restoration
that skips the first artifact, a batch validated against its own figures, ...)
under which TLC finds it violated. The mutants stand next to the definitions they
change.

## 4. The proofs

The theorems hold for every value of the constants under the modules' named
assumptions (`ConstantsAssumption`, `ArchiveAssumption`, `SettlementAssumption`,
`BillingAssumption`, `PaymentAssumption`, `IngestionAssumption`,
`ManifestsAssumption`, `SandboxAssumption`, `FirstPhaseAssumption`, `AnalysisAssumption`, ...), which give
the shape of the constants and are evaluated by TLC in every run. They are about any
number of sessions, processes, files, rows, orders, digits and faults, and the bounds of
section 3 are arbitrary constants in them. Each proof has an initial step, one step
per action, and temporal steps by PTL.

### Emails

* `EmailProofs!TypeCorrect`: `Spec => []TypeOK`.
* `EmailProofs!DeliveryInvariant`: `Spec => []DeliveryInv`. None of the
  delivery properties is inductive. `SentMeansDelivered` needs to know that a
  session about to write SENT has delivered; `DuplicateNeedsFault` needs that a
  FAILED row leaves a fault for each delivery so far, and that between claim
  and outcome nobody else delivers for the key; `ClaimExclusive` needs that the
  row of a key in flight keeps claimers out. `DeliveryInv` states these:
  `SenderInv` (what a position in the handler says of the key), `OutcomeInv`
  (what a row says of the mailbox), and the properties themselves. From it
  follow `ClaimIsExclusive`, `SentWasDelivered`, `DeliveriesAreAudited`,
  `DuplicatesNeedFaults` and the action properties `SentStaysSent` (`SentIsFinal`)
  and `DuplicatesAreRetries` (`NoSilentDuplicate`).
* `EmailProofs!CloseIsAccountedFor`: `Spec => []CompleteCloseAddsUp`, with no
  hypothesis on the data. The close compares the number of SENT keys with the number of
  partners, and a key is a partner and a document version. As many SENT keys as partners
  either map one to one into the partners, and then a subset of a finite set with as many
  elements is the whole set, or two of them are of one partner (`CountedIsAccounted`).
  `CloseInv` keeps what the session learned until it writes: messages are never taken
  back, so what was accounted for when counted is so when locked (`AccountedStays`),
  whatever is sent or re-published in between.
* `EmailProofs!AuthorizationInvariant`:
  `Spec => []AuthorizationInv`. `UniqueActive` alone needs that a row is
  inserted once, by the request that took its stamp, so that no late insert
  revives an ended row; and that whoever writes a status writes one of a row
  that exists. From it follow `ActiveIsUnique`, `SendsAreAuthorized` and the
  action property `EndedStaysEnded`.
* `EmailProofs!CenterInvariant`: the services' invariants hold under the
  Admin Control page (`CenterSpec`), whose tabs end authorizations and hand
  remembered ones to `authorize` and `lock`. `CenterInv` adds that the row a tab
  remembers exists, and that a request for SEND was made where a row had been seen,
  stamped before its own. From it follow `SendNeedsAnother`
  (`SendFollowsAuthorization`), `CenterIsAuthorized` and `CenterEndsForGood`
  (`NeverReactivated`).
* `EmailProofs!ImplementsSendLedger`: `Spec => ImplementsLedger`. Each
  action is matched with the ledger's step or a stutter; the claim exclusion and
  the types of the invariants above are what makes the holder of a key unique.

### Documents

* `DocumentArchiveProofs!ArchiveTypes`: `Spec => []TypeOK`, and `Attachments`:
  `Spec => []AttachmentsMatch`, both for any number of publishers. The second is
  worth having because the registry invariant below fails with two of them: a
  package compares the downloaded bytes with the reference it holds, and that
  alone makes it right.
* `DocumentArchiveProofs!Registry`, under `OnePublisher` (no two publishers):
  `Spec => []ArchiveInv`. `CurrentIsStored` is not inductive: that the upload of the
  next version does not overwrite a published object needs that the run works on
  the version after the only published one, or on version 1 with none published,
  and that this stays so until the row is superseded; `RunInv` states it. From
  the invariant follow `StoredDocuments`, `OneCurrent` and the action property
  `Withdrawal`. `ReportedIsCurrent` (`BatchIsCurrent`) adds `ReportInv`: a published row
  says under its hash what its content looks like, the candidate in hand is still on
  the list, and what is reported has left it.
* `DocumentsProofs!CacheIsHonest`: `Spec => []AnswersAreFreshOrFlagged`. `CacheInv`: a
  content was the sheet's own at some time, and was replaced no earlier than the load
  that read it began; what is marked CONNECTED expires a lifetime after it was stored.
  Loads wait for the lock, fail, or return after the clock moved; each keeps its own
  beginning.
* `DocumentsProofs!PublishedFilesAreHeld` (`PublishedRowsHoldTheirFile`). `DriveInv`: a
  run past its look at the table has a ready candidate, goes down the two folders of
  its restaurant (`RunOK`), and a file about to be recorded is nobody else's
  (`OwnFiles`); every document file is a row's, a run's that is about to record it, or
  lost, and what is lost is nobody's (`Kept`).
* `DocumentsProofs!PublishedFiguresAreNear` (`PublishedFiguresAddUp`), for every `Unit`
  and all figures. A rounded figure is half a centime from the exact one at most
  (`CentimesAreNear`), so three that add up exactly are less than two centimes apart when
  each is rounded, hence one at most (`SumsAreNear`); that a published row is of a ready
  candidate (`DriveInv`) carries it from the candidate (`CandidateFigures`) to the row. More cannot be said: 10.00 + 90.04 of
  100.05 is published.
* `DocumentsProofs!PublishedPartnersAreUndisputed` (`PublishedNamesAreUndisputed`): the
  name on a candidate is the registry's, or that of the only row of its restaurant in
  a content the sheet had; a candidate is never changed after it was built.
* `DocumentsProofs!OnePublicationEach` (`PublishedOnce`): of the files on Drive, not of
  the rows. `OnceInv`: once a file of a document is there that a reply named, its last
  row says so and no run is past the look, unless two were at once (`raced`). A file whose
  reply was lost is the other way to a second one.

### Settlement, billing, payments, review

* `SettlementProofs!DecidingStands`: `Spec => []DecidingOverrideStands`, for any
  number of reviewers, orders and overrides and whatever the evaluation shows. Two
  reviewers can read the same last override and both replace it, so the chain is
  not a line; what saves the property is that `create` takes the time after reading
  the history. `OverridesInv` states it: an entry was stamped in the past and after
  the one it replaces, and so will be the one a dialog is about to append. The entry
  that decides is the latest of its order, hence replaced by none.
* `SettlementProofs!BlockedIsNeverPaid` (`BlockedIdentityIsNeverPaid`) and
  `OrdersArePaidOnce` (`PaidOnce`). `WorkspaceInv`: the cached workspace is one
  evaluation over the registry of some sheets, and of the registry a session read,
  although its reads are steps of their own. What is READY is then a fact of the
  operators (`ReadySettlement`): a READY row is ready in the registry, its id occurs
  once among the ready ones, and its orders name it; two READY settlements with an
  order in common have one id, hence are one.
* `SettlementProofs!ReadyIsAccountedFor` (`ReadyAccountsForEveryOrder`): in every READY
  settlement of the cached workspace each order has an amount and a decision, the
  eligible, excluded and compensation totals add up to the gross, and the money chain
  gives the sales back exactly. `ReadsInv`: the orders a session read are those of some
  publication, and the overrides it read are the first ones of the table, the latest of
  which decides with a decision; a settlement with an undecided order or one without an
  amount is not READY. The totals are folds over sets of orders. What the fold of a
  finite set is worth is shown by its smallest counterexample (`SumIsFold`, `SumStep`,
  `SumOfParts`): the same well-foundedness of `<` replaces the induction theorems, which
  no installed prover can instantiate. It needs the orders of a publication to be finitely
  many (`SettlementAssumption`).
* `SettlementProofs!CertifiedAddsUp`, the arithmetic under it, for every precision: each
  line of `CertifiedFinancialCalculator.calculate` is rounded half-even, yet net payable
  and invoice add up to the sales, and commission and tax to the invoice. The recursive
  functions `Ten` and `Length` exist and are unique (`RecursionExists`,
  `RecursionIsUnique`, by least counterexample); at one common exponent every operation is
  an integer operation followed by `Kept`, what the context keeps of a coefficient
  (`PlusAligned`, `MinusAligned`, `TimesAligned`). Three facts carry the theorem. `Kept`
  commutes with the scale (`KeptScale`) and does not pass a bound that the context can
  hold (`KeptWithin`), so no line of the chain is longer than the sales (`TimesRate`,
  `DividedWithin`). And what a difference loses in its rounding, the sum that undoes it
  loses again (`SumBack`): if S has a digit to spare and D is no longer than S, then
  Kept(Kept(S - D) + D) = S. The digit to spare is needed: with a context of 4 digits,
  sales of 1015 at 1.33 per cent have a net of 1002 and an invoice of 13.50, which add
  up to 1016. `TotalsAreShort` states it of the orders of `Settlement`; TLC evaluates it.
* `ReviewProofs!LocksWereValidated`: `ReviewSpec => []LockedFiguresWereValidated`,
  for any number of sessions, restaurants, evaluations and events. The property
  speaks of recorded events only; the induction needs what a session between its
  two transactions holds: a lock about to be appended has read a VALIDATED event
  with the fingerprint of the figures it was shown (`Backed`), restaurant by restaurant.
  The table only grows, so that event stays, and what is appended meanwhile is not this
  session's, which is busy; equal fingerprints have equal totals
  (`FingerprintFixesImpact`), and `validate` refuses totals that do not reconcile. That
  the others may have locked and reopened the period in between is left (section 5).
* `ReviewProofs!HistoriesExplainThemselves` (`HistoryExplainsItself`). `PaymentInv`: what
  an officer holds is an entry of the history, and an entry follows one before it. Two
  officers may write from the same version: both entries then follow the same one.
* `ReviewProofs!ReconciliationsAreSound` (`ReconciliationIsSound`), for every statement.
  Of two lines that settle one payment, or count one bank reference, the later finds
  the earlier among the lines before it; a line that names a payment by its internal
  id finds no other. What is left open is exactly what is missing of the amount owed
  when both are in centimes, in both directions, and as the two are rounded apart, less
  than a centime from it as the amounts are (`LeavesWhatIsMissing`).
* `ReviewProofs!ValidationPaysWhatIsShown` (action property): `validate` compares the
  snapshot hash, which covers the net, and the RIB of each item with the records now,
  and the total a batch carries is that of its items (`BatchOK`), whichever step made it.
* `ReviewProofs!DecisionsWereMade` (`DecidedIssuesWereSeen`). `ReviewInv`: the id of an
  event is that of the issue its reviewer was shown; the id of an issue with a
  restaurant fixes its type and text, and these fix its severity.

### Ingestion and sources

* `ManifestsProofs!WholePublications` (action property `PublishesAllOrNothing`).
  `PublicationInv`: two runs that publish at once are both on record as overlapping;
  of one that is not, the folder has what the run's position says: the artifacts
  up to the one in hand are new, the rest as found, and restoring goes back over
  exactly those it has written.
* `ManifestsProofs!RowsAccounted` (`EveryRowAccountedFor`). `RowsInv`: the files listed
  are those read, those that failed and those to read, and the records and issues so far
  are, row by row, those of the files read (`Accounts`). Each row is in one of
  orders, conflicts and issues because the occurrences of an id are either all
  identical or a conflict (`OnePlace`, `OrderAgrees`), and the one that is retained is
  the first of them (`RetainedIsFirst`).
* `ManifestsProofs!ManifestsInvariant`: `SourcesSpec => []DeskInv`, for any number of
  concurrent checks over the one registry: what a check has seen and not yet
  written, and what it is about to mark missing, is in the registry; a version in the
  registry is among those found new (`FoundNew`). From it follow `VersionsAreReported`
  and `ReadyIsComplete`. The latter showed a statement of the model wrong: a file can
  be of Admin Earnings when the check begins, become a Payment Scope file through
  another check, and be one of Admin Earnings again when the answer is given, without
  this check having had to see it; `ReadyMeansSeen` is about files that were of Admin
  Earnings ever since the check began, and the history variable `began` follows that.

### The first phase

* `FirstPhaseProofs!OneDraft`: `Spec => []OneDraftPerKey`, for any number of processes,
  settings, failures and crashes. `DraftInv`: the last row of a key lets a process in
  only when the key has no draft; a process between its claim and its record is the
  only one of its key, since the row it wrote keeps the others out; and until its
  call went through the mailbox has no draft of the key. `DraftAnswers`
  (`DraftAnswersAreTrue`) adds `TruthInv`: a row CREATED, a process past the call and an
  answer that counts have a draft, and the call is made once the package is announced.
* `FirstPhaseProofs!ChangedFiguresLeaveNoDocument` (`InvalidatedDocumentsAreStale`),
  `ApprovedFiguresOnly` (`DeliveredFiguresWereApproved`) and `ResendsAreExplained`
  (`ResendIsExplained`), from one invariant, `FirstInv`: documents keep their figures
  and stay STALE, an authorization keeps its mode and figures and only the last can be
  ACTIVE, the records of a communication only grow. So what a caller has read stays true
  of what it read, whatever the others do after it.

### Analysis

* `AnalysisProofs!EligibilityIsSound` (`EligibleIsScopedAndUncontested`), for any tables,
  column maps and periods. What is hard is that a stored snapshot is used for another
  request with the same key, which leaves the column map out: `EligibilityInv` says of
  each snapshot that its ids are written somewhere in the scope table its key is the
  digest of (`SnapshotsOK`), and merging two such snapshots keeps that
  (`SnapshotSaved`). A result that is not blocked has warnings only, so every stage has
  kept every row (`FileRead`, `OrdersAccounted`).
* `AnalysisProofs!EnrichmentsAgree` (`EnrichedFromAgreeingRows`), for any RST list and
  column map. The list is read row by row and a bad row only becomes an issue; an
  enrichment that succeeded had none (`CleanList`), so the one partner of an eligible
  order is what every row of its restaurant makes (`EnrichedHolds`).
* `AnalysisProofs!DiagnosesAddUp` (`DiagnosisAddsUp`), for any number of conflicts. That
  the chain of categories and the test for potentially automatic agree is
  `AutomaticCategory`. That the distance of the first week from the last is zero only
  when all versions are of one week (`OneWeek`) needs both that the two ends of a finite
  set exist in the order of weeks (`FirstExists`) and that no week of a file name is
  beyond 53, the number of weeks `_week_distance` gives a year: a week 54 before a year's
  first would be no distance away.
* `AnalysisProofs!ResolvableIsHarmless` (`AutoResolvableIsHarmless`). The greatest and the
  least amount differ by the tolerance at most, and every version has one, so any two
  versions do (`WithinTolerance`, `Extremes`); the versions whose reasons decide are one that was
  modified before no other and one that none was modified after (`FirstStands`,
  `LatestStands`): the first has no reason where they differ, the last has one. Two
  versions therefore lose none; the code does not compare those in between, and neither
  does the statement.
* `AnalysisProofs!CertificatesStand` (`CertificateStandsForHistory`), for any histories,
  evidence, flags, amounts and precision, and all six figures of a case. Commission and
  invoice are taken of the sales in the case's context where it has any, else of the paid
  orders, and the net always of the paid orders (the two can differ, section 5). Two cases are two entries of the list: the same one twice counts, as in the
  code. Three arguments meet. The branches of `certify`
  are ordered, so CERTIFIED excludes every earlier one (`CertifiedDemands`). A parity of
  MATCH is a difference that was rounded to zero, and only that of equal figures is
  (`NoDifference`, listed on its own: rounding to significant digits never makes a zero,
  and equal values have one form, `NormalUnique`). And the amount the reconstruction
  starts from, a fold that passes over orders that are not eligible, is the fold over the
  paid orders alone (`AmountOfEligible`, by the smallest set of which it would not hold),
  although rounded additions are not associative: both add in the order of the list.

### Assumptions and limits

That a set of naturals has a least or a last element (the file read next, the version
of a payment, the latest row of a key) comes from the well-foundedness of `<`
(`WFMin`), which needs no operator parameter.

The assumptions say of the constants what the code's types do: bounds are naturals,
catalogues are sets of records of the fields that are read, the artifacts are a
non-empty list of file names (`IngestionAssumption`), the row number of a cell is a
natural, a listed file has a modified time, a missing manifest row is no row
(`ManifestsAssumption`), the rows of a data frame have its headings, and a conflict has at
least one version, read from a file whose name says a week of 1 to 53
(`src/src/ingestion/admin_earnings_filename.py`), with amounts that are numbers where
they are given; the totals, sales, rates and settled figures of a historical case are
numbers where there are any, and no number is the missing one (`AnalysisAssumption`). `TotalsAreShort` is the one condition on
quantities (see `CertifiedAddsUp`). `OnePublisher` is a hypothesis of the archive theorems, not of
`ArchiveTypes` and `Attachments`: with two `CurrentIsStored` fails (section 3).

Every invariant and action property of the passing runs is a theorem; `DeliveriesAudited`
and `BlockedIdentityIsNeverPaid` are theorems that no run repeats. Model-checked
only: `BatchEnds`, a liveness property, as is anything with `ENABLED`; and the three
runs that show a sentence of the documents violated.

## 5. Where code and documents differ

Three differences are runs (section 3). The following were met while modelling;
they are design decisions or have no sentence precise enough to be checked, and the
models contain the behaviour.

* A claim that an exception or a restart leaves SENDING stays so, and nobody may
  supersede it; `src/README.md:164` calls failures "independently retryable".
* After the first send of a period the rebuilt package set leaves out the sent
  package, its hashes differ, and loading the Admin page marks the authorization
  STALE, although no package changed (`src/README.md:162`: "Any material change
  invalidates it").
* The close counts the SENT send keys of the period (`src/src/emails/period_locking.py:38`).
  A package whose documents were re-published after it was sent has a second key; sent
  again, its two keys make up the number of intended sends, and the period closes with
  another partner unsent, although the refusal says "All intended production sends must
  complete before lock" (line 45). One Admin and no fault are enough.
* `_publish_one` creates a file without looking for one: when `create_file` raises after
  Drive made it, the row says FAILED and the next run makes a second file of the document
  (`src/src/documents/publishing.py:648`; line 535 says "Immutable, idempotent document
  publication boundary").
* The lock of a billing period reads VALIDATED in one transaction and appends LOCKED in
  another (`src/src/operations/billing.py:227-238`): when somebody else locks and reopens
  the period in between, the reopened period is locked without another validation.
* A historical case may bring `sales_ttc` in its settlement context, which comes before its
  orders (`src/src/settlement/cashco_legacy_v1.py:181-183`), so a history can be certified
  whose invoice its paid orders do not make (`src/src/settlement/legacy_validation.py:200`:
  "Historical OLD CashCo result plus the exact orders needed to reproduce it").
* `retry_failed_publications` matches failed rows with candidates by the hash of the
  version they were built with; a failed version 2 never matches again.
* An override, an authorization or a send that has read the lock just before it was
  set still takes effect (`src/README.md:166`: "A locked period rejects financial
  overrides, document mutation, authorization changes, and sending").
* Review issues without a restaurant id share an identity when their texts agree, so
  one decision covers them all (`src/pages/04_Review_Queue.py:640`: "Issues never
  disappear silently.").
* `validate` does not look at the period's status, so a locked period can be validated
  again without being reopened (`src/pages/02_Settlements.py:422`: "Controlled reopen is
  required").
* An override whose order is later published under another restaurant fails the
  evaluation of every restaurant of the period; overrides are append-only.
* The document engine checks figures that are not rounded
  (`src/src/documents/phase8.py:340-346`) and publishes each rounded on its own (433-449):
  sales of 100.05 at 10 per cent are shown as an invoice of 10.00 and a net of 90.04.
* Of three versions of an order, an intermediate cancellation reason may be replaced by
  another one and the conflict is AUTO_RESOLVABLE: only the first and the last are
  compared (`src/src/ingestion/conflict_diagnostics.py:233-236`).
* The certification counts two historical cases by the length of the list; the same case
  given twice is enough.
* The diagnosis gives every year 53 weeks (`src/src/ingestion/conflict_diagnostics.py:110-113`):
  2025-W52 and 2026-W01 count as separated.
* A Boolean in a money column of one row fails its whole file.
* The id of a payment-scope snapshot leaves out the column map it was read with.

## 6. Plan

1. A composition of `Settlement` with `Ingestion`'s publication, so that an evaluation
   meets the artifacts of two runs; `Settlement` takes them as changes of its source.
2. `create_draft` of the email workflow, which has neither claim nor record.
3. The phase-1 settlement and payment library, if anything but tests comes to use it.

## 7. Not modelled

HTTP and SQL text, PDF and HTML layout, similarity scores (advisory), turning
workbook bytes into rows, Streamlit rendering, read-only reports and validation
scripts, the go-live checklist (a verdict nothing else reads), the role table (the
models have the sets of sessions that may take each operation), the one-time repair
script of the archive, `force=True` of the legal cache (no caller), the PREVIEW and
PRODUCTION modes of the Drive publisher (they write no file), and the phase-1
settlement and payment library, which only its tests call. `PROJECT.json` says of
each component what is left out.
