# LUGAR: a TLA+ verification of the site

LUGAR is a public site, a CMS, a CRM and a WhatsApp outbox over one PostgreSQL
database. Two programs write that database: the Next.js server (public forms,
the admin panel's server actions, Meta's webhook) and the outbox worker, a
process with a polling loop. Nothing is locked across a request: a server
action typically reads a row, decides, and writes in a later transaction, at
READ COMMITTED. Most of the hard behaviour of this system is in the gap between
that read and that write, in processes that die between two commits, in the two
stores next to the database (object storage, the Next.js cache), and in browser
tabs that show what was true when they loaded.

Paths below are relative to `src/src/` unless they start with `docs/`;
`_actions/` is `app/(admin)/admin/_actions/`.

## 1. Inventory

| Component | State | Operations | Hard behaviour | What makes it correct |
|---|---|---|---|---|
| WhatsApp outbox (`worker/outbox-worker.ts`, `_actions/whatsapp.ts`) | `whatsapp_outbox` rows: status, attempt_count, lease, next_attempt_at; a worker's batch in memory | claim, window check, send, settle, email fallback; requeue and cancel by the owner | several workers, leases, crashes, lost answers, retries, admin races | no unexplained duplicate, bounded attempts, every message settles, a lead alert surfaces |
| WhatsApp webhook (`api/whatsapp/webhook/route.ts`, `lib/whatsapp/webhook.ts`) | `whatsapp_webhook_events`; the list of new rows a request holds in memory | store, answer 200, apply, mark processed | redelivered and overlapping envelopes, failure halfway, death after the 200 | durable before 200, applied once, nothing pruned unapplied |
| Housekeeping (`runMaintenance`) | old rows | prune events and rate limits, heartbeat | pruning what is still work | only processed rows go |
| CMS documents (`_actions/content.ts`, `_actions/removal.ts`) | documents, revisions, per-locale publication | save, SEO, publish, roll back, unpublish, archive, restore, purge | stale draft pointer, racing publications, long sequences of removals | one open draft, published means frozen, history is never purged, system pages stay up |
| Portfolio (`_actions/portfolio.ts`) | project columns beside a document | create, edit, archive | as for documents | as for documents |
| Redirects and slugs (`_actions/content.ts` updateSlug, `_actions/redirects.ts`, `lib/redirects.ts`, `lib/routes.ts`) | slugs, rules from path to path | rename, create, switch, delete a rule, follow | chains longer than the hop limit, a loop test apart from its write, renames back | following ends, a former address leads to its page |
| Public cache (`data/cache-*.ts`, `lib/cache-invalidation.ts`, `data/public/`) | tagged entries in a process | read through, expire a tag | an entry made from rows read before the commit, death before the expiry | what is stale is about to be expired or ages out |
| Lead intake (`features/leads/`) | a dialog with its key and token; counters; contacts, submissions, leads, an outbox row | open, submit, retry; submitLead | double clicks, lost answers, rate limits, concurrent intakes of one phone | one lead per key, thanks mean a lead, an error means none |
| CRM leads and tasks, contacts, pipeline (`_actions/leads.ts`, `contacts.ts`, `pipeline.ts`) | rows and their stage | status, removal levels, merge, stages, default stage | merge and archive against intake | no lead without a live stage and card, an entry point |
| Media (`_actions/media.ts`, `lib/media/`, `lib/storage/`) | rows, stored objects, usage | upload, replace, delete, restore, purge | one of two stores fails, two rows with the same bytes, references taken meanwhile | what a page shows has its bytes |
| Users, roles, invitations (`_actions/users.ts`, `lib/auth/`) | users, roles, invitations, sessions | invite, revoke, accept, change role, ban, set password | acceptance without a transaction, two demotions at once, sign-ins under way | an owner remains, old sessions end, one token per address |
| Consent, attribution, analytics (`features/`) | cookies, sessionStorage, tags in a page | choose, render, track | tabs that differ in what they know | nothing before consent, a choice is heard |
| Block editor (`features/admin/block-editor.tsx`, `use-action.ts`) | a copy of the blocks, an unsaved mark, calls under way | edit, save, publish, unpublish, restore | calls queued behind each other, two tabs on one page, lost answers | clean means stored, live was confirmed |
| Navigation and pipeline order (`_actions/navigation.ts`, `pipeline.ts`) | `sort_order` | create, move, remove | positions computed from a list read earlier | moves land, no ties |
| Settings, audit log, email, i18n routing, health, exports, seeding | small tables or none | upserts, output | little, or run alone | - |

Interactions. Lead intake and the panel insert outbox rows (`Enqueue`). The
worker's settlement creates the `whatsapp_messages` row that the webhook's
delivery reports update (`RecordSent`, `ApplyStatus`). The webhook writes
contacts and lead cards that the CRM shows and `last_inbound_at`, which decides
whether the worker may send free text (`WindowShut`). The worker prunes the
webhook's events. The block editor calls the document actions, one at a time
per tab; those write media usage and expire cache tags; a rename writes
redirects, which the resolver follows where no page lives.

`PROJECT.json` lists every component with its status and the hazards of the
code with their lines.

## 2. Modules

| Module | Models | Run | Proofs |
|---|---|---|---|
| `Outbox` | the outbox table, all workers, the two admin actions, the clocks | `outbox_exclusive`, `outbox_slow` | `OutboxProofs` |
| `WorkQueue` | the abstract queue: an item is out to one taker at a time | refined in `outbox_exclusive` | refinement proved in `OutboxProofs` |
| `Webhook` | POST handlers, the event table, Meta, `applyEvent`, pruning | `webhook` | `WebhookProofs` |
| `Inbox` | the abstract webhook: an event is taken in once, done once, and acknowledged only when held | refined in `webhook` | refinement proved in `WebhookProofs` |
| `Content` | one document with its revisions, publications and removals | `content` | `DocumentsProofs` |
| `Crm` | the transaction of lead intake, and what the panel does meanwhile to leads, stages and contacts | `crm` | `CrmProofs` |
| `Intake` | the abstract intake: a form becomes one lead or none, and nobody is told otherwise | refined in `crm` and `lead_form` | refinements proved in `CrmProofs`, `PublicSiteProofs` |
| `LeadForm` | the enquiry form around that transaction: browser, token, limiter, answers | `lead_form` | `PublicSiteProofs` |
| `Media` | the image library, object storage and what refers to images | `media` | `MediaProofs` |
| `Accounts` | accounts, invitations, sessions | `accounts` | `AccountsProofs` |
| `Addresses` | slugs, redirect rules, and which page an address shows | `addresses` | `DocumentsProofs` |
| `PublicCache` | one cached read against every action that changes what it read | `cache` | `PublicSiteProofs` |
| `Consent` | one visitor's tabs and cookies | `consent` | `PublicSiteProofs` |
| `Panel` | the block editor in several tabs, with its server actions | in `AdminScreens` | `AdminScreensProofs` |
| `Ordering` | lists put in order by hand | in `AdminScreens` | `AdminScreensProofs` |
| `AdminScreens` | `Panel` and an instance of `Ordering`, side by side | `admin_screens` | `AdminScreensProofs` |
| `MC...` | values of the constants for TLC, and symmetry | | |

### Outbox

`status`, `attempts`, `lease`, `due` are the columns of a row. Timestamps are
reduced to what the queries compare with `now()`: `due` is
`next_attempt_at <= now()`, `lease` is `claimed_until` in the future or the past.
`batch[w][j]` is the snapshot worker `w` holds of job `j`, by its
`attempt_count` (the only field the settlement reads back); `stage`, `cur`,
`result` are its place in `processJob`. `intent` is what an admin decided on.

| Action | Code |
|---|---|
| `Enqueue` | the insert in `submitLead` (and in the panel's manual sends) |
| `Claim` | `claimBatch`: one UPDATE, due or lapsed rows, counts the attempt, SKIP LOCKED |
| `WindowShut`, `Send` | `processJob`; the answers of `provider.send`, and whether the phone got the message regardless |
| `Settle` | `settle`, found by id alone, exhaustion judged on the snapshot |
| `Email` | `emailFallback`, after that commit |
| `Throw` | the catch in `drainOnce`: the job is left to its lease |
| `Crash` | the death of the process at any point |
| `BackoffElapses`, `LeaseLapses` | time |
| `RequeueReads/Writes`, `CancelReads/Writes` | `requeueOutboxMessage`, `cancelOutboxMessage`: check, then a write that does not look again |

`delivered`, `untracked`, `lapses`, `contested`, `fallback` are history the code
does not store. A job is `contested` from the moment its lease runs out, or a
requeue goes through, while a worker has it in hand, until nobody has. "sent" as
the fate of an email means that the call returned: the code does not inspect the
error field of Resend's answer.

`SlowBatches` separates two regimes. The lease is 120 s, a batch has up to ten
jobs and each provider call may take 15 s, so a batch *can* outlast its lease.
With `SlowBatches = FALSE` (and one admin at a time, `Exclusive`) the lease
holds what it is meant to guarantee; with `TRUE` two live workers may hold one
job and the later of their settlements overwrites the earlier, a "sent" by a
"dead" included (section 6). What still holds then is
`SentUndoneOnlyIfContested`: that happens to contested jobs and to no other,
however many workers claim, die and settle around them.

### Webhook

`row[e]` is an event's row, `pc`/`env`/`next`/`stored` a request and the list
it remembers. Meta (`meta`) posts an envelope until it sees a 200 and
sometimes again. `Store` is one insert, `StoreFails` an insert that throws
(committed or not), `Answer` the 200 and the hand-over to `after()`, `Apply` one
`applyEvent` with its `processed_at`, `ApplyFails` the catch around it, `Crash`
the end of the server under a request, `Prune` the worker's housekeeping.
`orphans` is history: the events whose request was lost to a failure. The
signature check and the subscription handshake change nothing and are left out.

### Content

One document. `frozen[r]` is `is_draft = false`, `content[r]` the blocks and the
`meta` of a revision (SEO per language), `status`/`pointer` the row of each
locale, `place` is `archived_at` or the deletion of the row. Revisions are
identified by `revision_number`. Every server action that reads outside the
transaction it writes in is split in two: `SaveReads/SaveWrites`,
`SeoReads/SeoLoads/SeoWrites`, `PublishReads/PublishCommits`,
`ArchiveReads/ArchiveWrites`, `RestoreReads/RestoreWrites`,
`PurgeReads/PurgeWrites`. `PublishFails` is the refusal by
`one_draft_per_document_uq`. `Unpublish` and `Rollback` are one transaction
over what they read. `ArchiveProject` is `archiveProject`: every locale of any
document whose id it is given, without the test of `is_system` that
`unpublishDocument` makes; only the panel's project form calls it
(`features/admin/portfolio-forms.tsx:378`). `OnSite` is what `resolvePage` shows, `handler`
the server actions under way.

### Crm

`Attempts` are POSTs of the form; `KeyOf` and `PhoneOf` give the idempotency key
and the phone each carries, so a retry is another attempt with the same key.
`lead[a]` is the lead that attempt made, `gate` the submission row of a key
(`held` while its transaction is open), `tx` what that transaction has read.
There is one card per phone (`contacts_phone_uq`). `entry` is one value because
`lead_statuses_default_entry_uq` lets one row have the flag.

| Action | Code |
|---|---|
| `Refuse` | the rate limiter, before anything is written; its counters are in `LeadForm` |
| `Gate`, `Replay` | `INSERT ... ON CONFLICT DO NOTHING` on the key: it waits for an open transaction with that key, then conflicts |
| `Upsert` | the contact upsert; its row lock (`Locks`, `CardFree`) lasts to the end of the transaction |
| `ReadEntry`, `ReadRecent` | the SELECTs of the entry stage (the transaction throws if there is none) and of a recent lead |
| `Commit`, `Abort` | the end of the transaction; after a commit the answer may still be lost |
| `ArchiveLead`, `RestoreLead` | single actions: they test and write one column, and what a late write does to a deleted lead is seen by nobody |
| `Decide...` and the action after it | the reads of a panel action, and its transaction, which writes by id |
| `MoveLeads`, `MergeContacts` | the first statement of a merge, with the leads its snapshot holds, and its commit, which needs the rows of both cards |
| `FirstMessage` | the card `applyEvent` makes for an unknown number |
| `GiveUp` | a panel action that fails: its transaction leaves nothing |

All leads are taken to be younger than the 30 days of the duplicate search.
Of the eight tables a merge moves only `leads` is modelled. Consents, files,
attribution, tasks, notes and assignment are left out. The alert row is inserted
by the same transaction as the lead, so it exists exactly when the lead does.

`misplaced`, `stranded`, `misentered`, `carried` are history. The code does not
keep leads and the entry point on the board, nor open leads on existing cards,
in all interleavings (section 6); the properties say exactly which overlaps are
to blame: something was put on a stage or a card that had left or that somebody
had already decided to remove. Everything else must keep the promise.

### LeadForm

`panel`, `key`, `token` are a visitor's dialog, `calls` the submissions under
way, `leads` what was stored by key, `used` the counters of `rate_limits`. The
transaction that `Crm` takes apart is the one step `StoreLead` here: a key seen
before stores nothing and is answered like the first time.

| Action | Code (`features/leads/`) |
|---|---|
| `Open`, `TokenAges`, `Close` | `lead-dialog.tsx`: a key and a dwell token per dialog; `dwell-token.ts`: too fresh, ripe, too old |
| `Submit` | `handleSubmit`, with the key the dialog already has |
| `Filter` | the schema, the honeypot and the token in `submitLead`: what looks like a bot is thanked and not stored |
| `Admit`, `LimiterFails`, `WindowEnds` | `consumeRateLimit` for the address, then the phone, before the key is looked at |
| `StoreLead`, `Fails`, `FailsAfterwards` | the transaction commits, fails, or commits and the action throws after it |
| `Receive`, `Breaks` | the answer reaches the form, or does not |

### Media

Storage is no part of a transaction, and keys are made of the checksum, so rows
with the same bytes share objects. `store` is what the bucket holds, `file` what
a row points at; `draft`, `frozen`, `live`, `cover` are what refers to rows.
`robbed` and `spilled` are history: bytes a twin's purge took, and objects that
a failure or a replacement left behind.

| Action | Code |
|---|---|
| `UploadStores/Finds/Inserts` | `uploadMedia`: objects stored, checksum looked up, row inserted |
| `ReplaceStores/Writes` | `replaceMedia` |
| `DeleteReads/Writes`, `Restore` | `deleteMedia` (usage read, then `deleted_at` set), `restoreMedia` |
| `PurgeReads`, `PurgeDeletes`, `Sweep` | `purgeMedia`: references checked, row deleted, objects deleted after |
| `GiveUp` | any statement or storage call of these fails |
| `SaveDraft`, `Publish`, `Rollback`, `Unpublish`, `SetCover` | `syncMediaUsage` in `_actions/content.ts`; `updateProjectMeta` |

The usage table has foreign keys without cascade, so a purge fails while a
reference exists; the settings' logo and share image have none and are left out.

### Accounts

An e-mail address and the account it may get are one element of `People`.
Actions are split where the code leaves a transaction: `RoleReads/Writes`,
`BanReads/Writes`, `PasswordReplaced/Sweeps` (`setUserPassword` is two
transactions), `InviteReads/Revokes/Commits`, `AcceptReads/Creates/Links/Marks`
(`acceptInvitation` is none), with `Unban`, `RevokeInvitation`, `Expires`, and
`GiveUp` for a failure in between. `SignInChecks`, `SignInOpens` and
`SessionEnds` are better-auth's, as far as this code relies on them. Changing
one's own password and the reset by mail are better-auth's and left out.

### Addresses

One language. `slug`, `up` are a page's; `rule`, `on` a redirect row by its
`from_path`. `PathOf` is `documentPath` (a project lives under the slug of the
index), `Follow` is `followRedirect` and `WouldLoop` is `wouldLoop`, as recursive
functions of the hops left. `SlugReads/Writes` is `updateSlug` with the rules it
writes and removes, `CreateReads/Writes` and `EnableReads/Writes` test for a
loop before the transaction that writes, `Disable`, `Drop`, `Toggle` (publish
and unpublish) are single writes. `Lands` is what `PublicPage` does with an
address: a page, else a redirect, else 404. The home page has no slug to change
and is left out.

### PublicCache

Entries do not depend on each other, so one read is watched, chosen at the
start among all of them: a page by path, a document, the index, the cards, a
menu, the settings, the list of paths, the sitemap. An action commits
(`Publish`, `Unpublish`, `Touch`, `UpdateSlug`, `ArchiveProject`,
`UpdateProjectMeta`, `Write`, `RemovalReads/Commits`), then `Collect`s the rows
its tags are computed from and `Expire`s them, or dies before (`Crash`). The
cache is Next.js' and external: `Miss` begins an entry from what is true now,
`Store` keeps it unless its tag expired meanwhile, `Lapse` is its age
(`cacheLife`), which may or may not come in time, `Drop` eviction.
`ArchiveProject` may be given either document and expires what it does for a
project. One replica, as deployed
(`.railway/railway.ts:43`); the module is written for several.

### Consent

`cookie` is shared by the tabs; `banner`, `snapshot`, `heard`, `tags`,
`lastTouch` are a tab's. `Load` opens a page, `Render` is
`useSyncExternalStore` reading the cookie again, `Choose` and `Reopen` the
banner, `Focus` the listener that looks again, `ConsentLapses` the end of the
cookie's life, `Track` an event. `Deaf` until its first event, `track` then keeps a copy
that only an event of its own tab changes (`features/analytics/analytics.ts`).

### Panel

`text`, `dirty`, `props`, `busyKey` are the editor's React state; `calls` the
server actions its tab has asked for. `Edit`, `Save`, `Publish`, `Unpublish`,
`Restore` are clicks, each starting a run of `useAction` with the text on the
screen; `Start`/`Call` ask for the next server action, `Serve` is one of
`SaveDraft`, `PublishDocument`, `UnpublishDocument`, `RollbackDocument` on the
server, `Continue`, `End`, `Throw` are the run going on, `Hear` the refresh.
`Reload` opens the page anew. Next.js sends a tab's server actions one at a time
(external). The races inside one server action are those of `Content`, so each
is one step here, on a page that is not a system page.

### Ordering and AdminScreens

`order` is `sort_order`, counted in steps of 10 (menus) or 100 (stages).
`CreateReads`, `RestoreReads`, `Aim` (`moveStage`), `Nudge` (the menu editor's
arrows), `MoveItemReads`/`MoveItemMissing`, `RemoveReads` read the list;
`MoveStage`, `Write`, `Remove`, `Fail` are what follows. The guard on the entry
point is `Crm`'s. `AdminScreens` puts the two screens side by side (`open`):
they share no table and no browser state, so no product of them is explored.

## 3. What the runs show

| Run | Bounds | Shows |
|---|---|---|
| `outbox_exclusive` | 2 messages (an alert, a text), 2 workers, 1 admin, max_attempts 2, 2 mishaps, 1 requeue, leases hold | `DuplicatesExplained`, `AttemptsAccounted`, `AlertBackstopped`, `SentUndoneOnlyByStaleAdmin`, and `Outbox` implements `WorkQueue` |
| `outbox_slow` | the same, batches may outlast leases, no admin, fairness | `SentUndoneOnlyIfContested`; `EveryMessageSettles`, `AlertSurfaces` (or was dropped by a death or throw) |
| `webhook` | 2 messages, a report, a notice in 2 overlapping envelopes, 2 requests, 2 mishaps, 1 spurious redelivery, fairness | `OnCardOnce`, `UnprocessedIsOwned` (and never pruned), `DeliverySettles`, and `Webhook` implements `Inbox` |
| `content` | 2 locales, 2 texts, 2 sessions, 3 revisions, 2 saves | `OneDraft`, `LiveIsFrozen`, `PurgeSparesHistory`, `FrozenWrittenOnlyByEarlyReaders` |
| `crm` | a form sent twice and a second form of the same customer, another customer, 3 stages, 2 server actions at a time, 3 decisions | `Crm` implements `Intake`; `RepeatIsMarked`; stages, entry point and cards are lost by the named overlaps only (`BoardHoldsWork`, `LeadHasCard`) |
| `lead_form` | 2 visitors behind one address, 2 wishes, 2 dialogs, limit 2, 3 submissions | `ThanksMeansLead`, `ErrorMeansNoLead`, `LimitHolds`, and `LeadForm` implements `Intake` |
| `media` | 3 rows, 2 contents, 2 people, 5 actions, 3 edits | `ImagesRender` (but for a twin's purge), `OrphansExplained` |
| `accounts` | 2 people, 2 invitations, 2 actions at a time, 4 in all | `OwnerRemains`, `OldSessionsEnd`, `OneToken`, `AccountsAreWhole`, each but for the overlaps it names |
| `addresses` | the index and a project, 2 slugs (one the fallback `raboty`), hop limit 1, 2 people, 3 actions | `NoShortCircle`, `FormerAddressLands` |
| `cache` | the index and a project, 2 slugs, 2 revisions, 2 actions, 1 death | `StaleIsExplained` |
| `consent` | 3 tabs, 2 campaigns, 5 decisions, pages or lapses | `OwnChoiceIsHeard`, `NothingBeforeConsent` |
| `admin_screens` | 2 tabs, texts seeded, edited and refused, 3 runs, 2 edits, 2 frozen revisions; 4 rows of which 3 seeded, 2 people, 4 moves | `CleanMeansStored`, `LiveIsConfirmed`, `RestoreStands`; `TiesComeFromOverlap`, `MovesLand` |

**History variables.** Where the code does not keep a promise in every
interleaving, the property says exactly which overlap or failure is to blame,
and a history variable records it: `contested` (Outbox), `stranded`,
`misplaced`, `misentered` (Crm),
`robbed`, `spilled` (Media), `overlapped`, `resigned`, `late`, `crossed`,
`broken` (Accounts), `late` (Addresses, Panel), `unheard` (LeadForm), `strays`
(Consent), `tangled` (Ordering). Everything else must keep the promise. What
those overlaps do is section 6.

**Why the bounds are enough.** Every rule of the outbox concerns one row and at
most two parties: two workers, a worker and an admin. Two jobs are needed for a
batch longer than one and for an alert beside a text. Two mishaps are what a
duplicate after an exhausted retry or a lapse followed by a death needs, and
max_attempts 2 distinguishes first, last and one too many. The webhook needs two
requests whose envelopes share an event; a third event behind the shared one
makes a loop left early visible. A document needs the revision being frozen, its
clone and one more; two sessions are a reader and the one that overtakes it,
and since single-statement actions interleave freely a third party is there as
well. For `crm`, three attempts are a retry and a rival, three stages are the
one archived, the one its leads go to and one that stays, and three decisions
are two racing actions and what prepares them. An image needs a twin of its
bytes and a replacement by other bytes. A former address needs a rename, a
rename back or of the parent, and somebody editing rules. A stale cache entry
needs one action overtaken by a read and another between its commit and its
expiry. A withdrawal needs the tab that makes it, one that does not hear, and a
third whose copy is older still. A tie in a list needs two writers and a row
between their neighbours. Every safety property
and refinement of the table is moreover proved for all values of the constants
(section 5), those of `Outbox`, but for `AlertBackstopped` and
`SentUndoneOnlyIfContested`, under the condition named there; only the three
liveness properties rest on these bounds alone. `outbox_slow` has no admins,
whose requeues would take it past the time a run may have; that
`SentUndoneOnlyIfContested` holds with them is what its theorem shows.

`OneLeadPerKey` and `AcceptedHasLead` (Crm), `AcknowledgedIsDurable` (Webhook) are
consequences of the refinements and not checked apart from them: `Take` wants
a key without a lead, `Tell` one with it, `Acknowledge` events that were taken in,
and nothing in `Intake` or `Inbox` goes back. They are proved on their own.

Counters are bounded by the constants whose names begin with `Max` and, in
`LeadForm`, by `Keys`; each stands in the guard of the action that counts.
Deadlock is not checked: all of these systems may come to rest (an empty queue,
no more envelopes, nobody editing), and the liveness properties say that they
rest in the right state.

**Symmetry** over workers, sessions, people and the like is used only in runs
without liveness properties.

## 4. Fairness

`Outbox!FairSpec`: `main` polls for ever and `drainOnce` awaits each job, so a
worker that can step does (weak fairness of `WorkerStep`, one disjunction, since
a worker does one thing at a time); backoffs and leases end because time passes.
Nothing is assumed of crashes, answers or admins. A process that dies is
restarted by its supervisor (`docker-compose.yml`), which is why `Crash` returns
the worker to polling. `Webhook!FairSpec`: a request that is not killed runs to
its end, and Meta delivers what it has no 200 for (documented in `route.ts`,
"up to seven days"). The other modules have no fairness: their users owe the
system nothing.

## 5. What is proved

Every theorem holds for all values of the constants that its module's named
ASSUME admits (sizes are natural numbers, the "nothing" values are not members,
and the like); nothing else is assumed. A proof module extends the components it
is about, so that a theorem states the very property a run checks; components
that share one have names of their own for their `Init`, `Next` and `Spec`.

**Outbox** (`OutboxProofs`). `TypeCorrect`; under `Exclusive` (leases outlast
batches, one admin at a time) `ExclusiveOneHolder`, `ExclusiveAttempts`,
`ExclusiveDuplicates`. The inductive invariant is
`TypeOK /\ HolderInv /\ AttemptsInv /\ DeliveryInv`. `OneHolder` alone is not
inductive: one must also know that a held row is `claimed`, that a worker about
to settle holds the job it settles, and that a requeue in flight was decided on
a row nobody holds, which stays so because only `Claim` makes holders and a
parked row cannot be claimed. `AttemptsInv` adds that a row that can be claimed
has an attempt left, `DeliveryInv` where a delivery that is still tracked can
be. `Backstopped` holds in every regime, for the email stage is entered in the
very step that parks the row. `ClaimsDistinct`: without admins, no two workers
hold one job under one attempt number even when leases lapse under live workers;
the number counted at the claim would therefore fence a late settlement, if
`settle` compared it. `SentUndoneExplained` assumes no regime either: a sent row
is overwritten only by an admin who decided before the send or while the job is
contested. Its `WriterInv` says that a held job which is not contested is
`claimed` (or cancelled), under a lease that runs, in one worker's hands (`UncontestedInv`), and
that a worker about to settle holds its job (`SettlingInv`): a settlement that
finds a sent row can therefore only be of a contested job. Under `Exclusive`
nothing is ever contested, which leaves the stale admin as the only culprit
(`ExclusiveSentUndone`). `QueueImplemented`: under `Exclusive` every behaviour of
`Outbox` is one of `WorkQueue`; each action takes, returns, loses, finishes or
withdraws an item, or is invisible.

**Webhook** (`WebhookProofs`). `TypeCorrect`, `CardWrittenOnce`,
`AnswerComesLast`, `OneRequestPerEvent`. The invariant follows an event: what
a request has passed has a row (`PassedInv`), what it remembers nobody else
remembers (`WonInv`), a row is unprocessed exactly while a request remembers it
or a failure took that request away (`OwnedInv`), an envelope Meta is done with
is in no request and a pruned event in no other envelope (`OverInv`), and a line
on a card means a row that is past that stage (`CardInv`). `InboxImplemented`:
every behaviour of `Webhook` is one of `Inbox`. What has become of an event
(`Fate`) is read off its row and off `orphans`: `Store` keeps it or finds it kept,
a marked `Apply` does it, a failure or a death loses what the request
remembered, the 200 acknowledges; pruning is invisible. The step that needs
the whole invariant is `Apply`: that the row is still there, unprocessed and not
lost is `WonInv` with `OwnedInv`.

**Content** (`DocumentsProofs`). `ContentTypes`, `AlwaysOneDraft`,
`PublishedIsFrozen`, `HistorySpared`, `SystemPagesStay`, `FrozenOnlyEarly`.
`SystemPagesStay`: a locale of a system page leaves the site by `archiveProject`
and by nothing else, for which `SystemInv` keeps such a page out of the archive,
and so from every purge.
`ContentInv` adds what a handler may still believe when it writes (`EditorInv`),
that unused numbers are not frozen (`FreshInv`), and that a document with a past
still shows it in a pointer (`ReleasedInv`), which is what makes purge's test
sufficient.

**Addresses** (`DocumentsProofs`). `AddressTypes`, `CirclesAreLongOrLate`,
`FormerAddressesLand`, for any number of projects, slugs, people, rules and any
hop limit. What following rules leads to is the least set closed under them
(`Trail`), so most lemmas say how it changes when a rule is set, replaced or
deleted: `Trail...` for the set, `Ways...` for what a former address leads to.
Circles: a rule that is written after `wouldLoop` looked can close one only if
the search stopped at the hop limit, so that the circle has more than
MAX_HOPS + 1 addresses, or if somebody wrote in between; a rename takes rules off
the address it moves to, so nothing leads on from there. Former addresses:
`WayInv` says that the way from an address still owed ends at the document's
address, runs over addresses the document itself may have had, and meets no
other document's. Without the last part it is not inductive: another document on
the way would delete the rule there when renamed. The hop limit and the
iterated sets are functions on 0..n; the module proves the two facts it needs of
them, induction and definition by recursion up to n, for sets and functions
(`Induction`, `Recursion`), which avoids the operator parameter of the library's
theorems.

**Crm** (`CrmProofs`). `TypeCorrect`, `KeysMakeOneLead`, `AcceptedAreStored`,
`RepeatsAreMarked`, `WorkStaysOnBoard`, `LeadsKeepCards`. Four invariants over
one another: `GateInv` (an open attempt holds its gate, one per key; a taken key
has its lead), `RepeatInv` (one attempt per phone holds the row lock, and what
it read of recent leads is still so when it commits), `BoardInv` and `CardInv`
(who is about to leave the board or a card, and which leads it may leave there).
`StageMove`, `CardMove`, `LeadMove`, `SessionMove` sum up what a step may do, so
that each part is shown once and not once per action. `IntakeImplemented`: every
behaviour of `Crm` is one of `Intake`; the commit is `Take`, a replay is `Tell`,
the rest of the transaction and the whole panel are invisible. `GateInv` is what
makes both steps possible: whoever commits holds the gate, so its key has no
lead, and a taken gate has one.

**LeadForm** (`PublicSiteProofs`). `FormTypes`, `ThanksAreHonest`,
`ErrorsAreHonest`, `LimitIsKept`: a call's key is that of its visitor's dialog
or an older one (`KeyInv`), an answer that never arrived is on record
(`HeardInv`, `SettledInv`), and a counter is never behind what it let through
(`PassedInv`). `FormImplementsIntake`: the same promise from the browser's side;
only who sent a ripe token counts as told, for bots are thanked, too.

**Media** (`MediaProofs`). `TypeCorrect`, `PagesNeverLoseRows`,
`LibraryHasNoTwins`, `ImagesHaveBytes`, `ImagesAlwaysRender`,
`StorageIsExplained`.

**Accounts** (`AccountsProofs`). `TypeCorrect`, `LastOwnerIsSafe`,
`OldSessionsAreEnded`, `TokensAreSingle`, `AcceptedAccountsAreWhole`.

**Consent** (`PublicSiteProofs`). `ConsentTypes`, `OwnChoiceHeard`,
`ConsentComesFirst`; the invariant adds that the tab that decided knows what it
decided (`AuthorInv`) and that the cookie holds nothing that was never
granted (`GrantInv`).

**PublicCache** (`PublicSiteProofs`). `CacheTypes`, `StalenessIsExplained`, for any
number of replicas, actions and deaths. `CacheInv` is the property itself with
what each session carries (`SessionInv`: idle, committed, with tags noted before
its commit, or expiring some) and two facts on the shape of the state
(`Shape`). The work is in `Collect`: an action that has committed owes the tags
of its kind, and what it computes from the rows as it then finds them must
cover that debt, although a second action may have changed the same rows since;
where it does not, the property names the omission. An entry in the making is
treated like one that is kept, because `Store` looks at the tags again.

**Panel and Ordering** (`AdminScreensProofs`). `EditorTypes`,
`CleanScreenIsStored`, `RestorationStands`, `PublicationIsConfirmed` rest on
`PanelInv`: a tab's queue holds one server action being served and others that
wait (`CallInv`), a restoration is first in its queue and younger runs wait
behind it (`RestoreInv`), a tab without late edits has stored what it shows or
has it under way unchanged (`ScreenInv`), and a publication confirmed by its save
finds that text in the draft unless somebody saved since (`ConfirmInv`).
`TiesNeedOverlap` and `MovesLandWhereAimed` rest on `ListInv`: what an action has
read and nobody has overtaken still fits the list (`OverlapInv`): a new row goes
behind all others, and a move numbers the rows one to n with its own at its goal
and the others in the order they had, for lists of any length.

**Only model-checked.** The three liveness properties (`EveryMessageSettles`,
`AlertSurfaces`, `DeliverySettles`): TLAPS has no fairness reasoning
beyond LS4's propositional logic, nor ENABLED. No module has a RECURSIVE operator.

## 6. Where the code differs from what it says

Each of these was met while modelling, is reachable in the module named, and is
kept out of the properties by a history variable or by stating them more weakly.
The definition in brackets states the broken promise and is left in the module
for whoever changes the code; no configuration checks it.

Outbox
- "each row goes to exactly one of them" (`worker/outbox-worker.ts:70`) and "the
  worst outcome is a delayed or duplicated message" (`:29`): ten jobs at up to 15 s
  each outlast a lease of 120 s, another worker then claims and sends the rest
  of the batch, and `settle` finds its row by id alone (`:229`). The late worker
  writes "dead" or "failed_retryable" over the other's "sent" (the message then
  goes out again, or the panel shows a delivered one as failed), or the reverse
  (`OneHolder`, `SentUndoneOnlyByStaleAdmin`, both false with slow batches).
- The comment at `worker/outbox-worker.ts:74` expects counting at the claim to
  stop a message that crashes its worker; nothing compares the count before a
  claim (`AttemptsCapped`).
- `sent` "is refused outright" (`_actions/whatsapp.ts:227`), on a status read
  before the transaction: a stale cancel overwrites it (`SentIsFinal`).
- The email promised by `docs/architecture.md` §7 is owed by the memory of one
  process and lost with it (`AlertNeverDropped`).

Webhook
- Stored events "can be replayed", but no code does (`StoredIsApplied`).
- A delivery report that overtakes the worker's settlement is lost;
  `last_inbound_at` takes the time of the event applied last.

Content
- "a site with no home page is not a state the CMS should be able to reach"
  (`_actions/content.ts:319`): `archiveProject`, given the id of a system page,
  takes it off the site (`SystemStaysUp`).
- "Immutable once frozen" is not a condition of any UPDATE (`FrozenIsImmutable`).
- A document published while archived does not "come back unpublished"
  (`RestoreExposesNothing`).
- People editing two languages "must not overwrite each other"
  (`_actions/content.ts:496`); the merge is over a `meta` read without a lock
  (`OtherLanguagesKeepTheirSeo`).
- A publication clones the blocks it read before it held the row;
  `purgeDocument` tests outside the transaction that deletes.

Crm
- "Exactly one status is the entry point for new leads" (`db/schema/crm.ts:119`):
  `archiveStage` reads `is_default_entry`, `setDefaultEntry` makes the stage the
  entry point, the archive then clears it, and every `submitLead` throws until
  somebody sets one.
- "Leads sitting on the stage must be given somewhere to go first"
  (`_actions/pipeline.ts:277`): a lead that arrives between the count and the
  write stays on the archived stage.
- "there is no window where a lead belongs to a contact that has already been
  deleted" (`_actions/contacts.ts:144`): the upsert finds a deleted card by its
  phone and leaves it deleted, no overlap needed; and an open intake escapes the
  merge's first statement.

LeadForm
- `lead-dialog.tsx` opens with "so every enquiry lands in the CRM": one sent
  without a ripe token is thanked and not stored (`EveryEnquiryLands`).
- Retries are counted by the limiter before the key is looked at, so a stored
  enquiry can be answered with "too many".

Media
- "Файл никуда не делся" (`features/admin/media-manager.tsx:97`): the purge of a
  row with the same bytes deletes the objects a removed or restored row still
  needs (`_actions/media.ts:417`; `RemovedKeepsFile`). `purgeMedia` does not look
  at `deleted_at` again.
- The comment at `_actions/media.ts:221` expects the foreign key to refuse the
  removal of an image in use; an UPDATE of `deleted_at` triggers none.
- A replaced file's old objects stay in storage.

Accounts
- "Refuses to remove the last owner." (`_actions/users.ts:149`): two demotions at
  once each see the other's owner, and the count includes owners who are banned
  or have no password (`LastOwnerStays`).
- Two concurrent invitations of one address leave two tokens
  (`_actions/users.ts:66`).
- An invitation "is consumed in the same transaction that creates the account"
  (`_actions/users.ts:319`): there is none, the account is made by better-auth
  and the rest follows statement by statement; an invitation revoked after it
  was read is still accepted.

Addresses
- A rename decided under an index that was renamed or hidden meanwhile writes its
  rule from and to addresses with the old parent, and deletes the rule at that
  old-parent address, not at the one the project takes: an address that led over
  the address it takes now ends at this project. `FormerAddressLands` excuses
  it; that it must was found when the proof of `WayInv` did not go through.
- `followRedirect` walks through a path where a page lives, which
  `data/public/redirects.ts:15` says redirects never shadow. Only a visitor who
  starts elsewhere is affected.
- Renaming the index moves the address of every project without redirects; the
  property excuses exactly those.

PublicCache
- `updateSlug` does not expire the old path, against `data/cache-tags.ts:11`
  (`PathsAreInvalidated`); `archiveProject` leaves the page and the menus until
  they lapse. Tags for taxonomy and revisions are expired by nobody, and scripts
  cannot expire any.

Consent
- `track`'s copy is refreshed by events of its own tab only
  (`features/analytics/analytics.ts:10`): after a withdrawal in one tab another
  keeps sending (`NothingLeavesUnasked`). Loaded tags and stored touches stay.

Panel and Ordering
- The dialog at `features/admin/block-editor.tsx:556` says that the current draft
  is replaced; `rollbackDocument` never touches it (`RestoreReplacesDraft`).
- `liveFor` ignores the locale's status, against `data/admin/documents.ts:202`
  (`LiveForIsServed`): a withdrawn version is still marked as live.
- Text typed while a save is in flight is marked saved (`late`); of two tabs the
  later save wins without a word; "unpublish" clicked while the tab's own
  publication is under way runs between its two calls and is undone by it.
- "contiguous numbering means the stored order always matches what was on"
  screen (`_actions/navigation.ts:182`) holds neither after a removal nor under
  overlap (`NumberingIsContiguous`). Two stages with
  one position are swapped to no effect for ever; a menu heals at the next move.

## 7. Not modelled

- **The audit log and error reporting**: append-only output nobody decides on.
- **Rendering, styles, legal texts, seed data, block schemas and most of the
  panel's screens**: about half of the code lines. They keep no state, or are
  forms over actions that are modelled. This is why the map covers
  18 % of the implementation.
- **Admin lists, filters, exports** (`data/admin/`): read-only. Seen in passing:
  `data/admin/leads.ts:137`, `audit.ts:88` and `contacts.ts:80` pass a `Date` into
  a raw SQL fragment, which a comment in the same file says fails at runtime;
  a page cursor keeps milliseconds of a column that has microseconds, so rows of
  one millisecond may be skipped or shown twice.
- **Seeding and migrations**: run alone, once. A rerun of the seed is not
  idempotent in all cases (a page renamed onto a seeded slug makes the insert
  throw; deleted menu items come back).
- **Files, consents, attribution rows, tasks, notes, assignment, captions**:
  written with or beside what is modelled, and read by no decision.
- **better-auth, Next.js' cache and action queue, Meta, the mail provider, object
  storage**: external, modelled by what this code relies on, and marked so.

## 8. What is left to do

1. With fairness: a form sent again until it is answered gets its lead
   (`Intake` says what may happen to it, not that something does).
2. An abstract specification of a document with its publications that `Content`
   implements, and of the image library for `Media`.
3. Of `Outbox`, with slow batches or two admins at once: how often a message can
   then be delivered (`DuplicatesExplained` needs `Exclusive`).
4. The cursor of the admin lists as a pure algorithm against the list it pages
   through.
5. A rerun of the seed against a site that has been edited.
