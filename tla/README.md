# SpeakerOps: a verification project

SpeakerOps runs the speakers of a conference: a public call for papers, its
review, the decisions, a portal for the speakers, the schedule, the mails and
the projection of all this into other services. It is one TypeScript Worker
(`src/apps/api`) over one database (Cloudflare D1). This directory holds TLA+
models of the parts of it where requests, drains and deaths can meet in an order
nobody wrote a test for, the TLC configurations that check them on small
instances, and TLAPS proofs for instances of any size.

## The system

### What is atomic

The Worker keeps nothing in memory between requests; D1 is the only system of
record. A command is an `async` function that awaits one D1 call after another,
so **the unit of atomicity is one SQL statement, or one `db.batch([...])`**,
which D1 runs as a transaction. Between two of them anything may happen: another
request, a drain, the death of the isolate. Every model takes one database call
as one action and keeps what the function has read in per-request variables.
(`AssignDesk` is the exception: it is about a computation and takes a whole
request as one action; the same request is in `Review`, call by call.)

Concurrent actors are HTTP requests, the queue consumer and the cron (every
minute, `src/apps/api/src/index.ts` `queue`, `scheduled`). Drains run from both
and overlap. Defences the code uses are compare-and-set on a `version` column,
unique indexes, leases with a deadline, batches whose statements repeat the
check (`WHERE EXISTS ...`), and idempotency keys.

### Components

| component | state | operations | talks to | what is hard | what makes it correct |
|---|---|---|---|---|---|
| Comms outbox drain (`workers/emailConsumer.ts`) | `comms_outbox`, `message_jobs`, `message_recipients`, `delivery_events` | claim a row, claim or resume a recipient, send, record, settle, release | mail provider, queue, cron | leases that run out under a drain, death between send and record | nobody forgotten, copies only after a death or an overrun, a truthful verdict |
| Comms send (`modules/comms`) | jobs, templates, idempotency keys, invites | send, preview, confirmations, triggers on decisions, calendar invites | Decisions, call for papers, outbox | replay of a key, two sends at once, one SEQUENCE for two invites | one mailing per key and per preview, invites in order |
| Decisions (`modules/decisions`) | submissions, decisions, sessions, links, participations, tasks, audit | record a decision, create a direct session | portal, schedule, comms, auth | ten or more statements after the claim, shared speakers, repair of what died | an answer of ok means all of it |
| Call for papers (`modules/publicCfp`) | submissions, answers, submission speakers, guard rows | submit, edit, withdraw | forms, decisions, comms | check then act on two limits, a form that changes under the visitor | the limits, answers that fit the version, a confirmation |
| Schedule (`modules/schedule`) | placements, room and speaker reservations | place, move, unschedule | Decisions (links) | advice that is stale when the batch runs | no double booking, one winner per version |
| Search (`modules/search`) | documents, `search_index_state` | announce a write, rebuild under a lease, reindex | every writing command, cron | late rebuilds, lost announcements | fresh means right |
| Portal (`modules/portal`) | participations, tasks | complete a task, save a profile | Decisions | lost compare-and-set | no lost withdrawal |
| Evaluation (`modules/eval`) | rounds, criteria, assignments, scores | rubric, score, abstain, assign, bulk assign | auth (roles) | score and status are separate writes; a plan over an estate that changes | reviews are honest and stay, a preview is carried out once, plans respect caps |
| Auth (`modules/auth`) | users, links, sessions, memberships | request and redeem a link, invite, change roles | mail, Decisions, evaluation | single use, first and last administrator | one session per link, the newest link works, an administrator remains |
| Events (`modules/events`) | events, their announcements | create, update | Airtable | an update and its announcement | each version announced once |
| Airtable (`modules/airtable`, `workers/airtableConsumer.ts`) | `outbox_events`, `projection_records`, the base | drain | the base | lost answers, two drains | one record per event |
| Programme (`modules/programme`) | `programme_publications` | compose, publish | Accelevents, public pages | composed before the version is read | no publication forgotten |
| Accelevents (`modules/accelevents`, its consumer) | connections, identities, `outbox_events`, the service | save and verify a connection, enqueue, project | the service | generations, coalescing, failures per item | one copy each, ids stay in their event |
| Forms (`modules/forms`) | draft, versions with snapshot, fields and rules | save the draft, publish, show the public form | call for papers | publication in many statements, none of them a batch | nobody is held to half a version |
| Design, files | designs, uploads | publish, claim an upload | public pages | death between claim and upload | uploads can be repeated |
| Keys, saved views, portal forms, readiness | small tables | one statement each | | | |
| Middleware, shared schemas, CLI, SDK, web | none of their own | | | | |

`PROJECT.json` lists every component with its status, and under `hazards` every
place where the code can go wrong in a way tests hardly reach.

## The modules

| module | models | note |
|---|---|---|
| `Delivery` | what the drain of mails promises | abstract specification |
| `CommsOutbox` | `processCommsOutbox` and the store calls it makes | implements `Delivery` |
| `Decisions` | `recordDecision`, `materializeAccept`, `dematerializeAccept`, `createDirectSession`, the portal's writes | |
| `SubmissionCap` | `createSubmission` as far as its limits go | extended by `Intake` |
| `Forms` | `updateDraftFields`, `publishForm`, the store calls they make | extended by `Intake` |
| `Sending` | `sendComms`, `icsForPlacementCommand` | extended by `Intake` |
| `Intake` | the public page, all of `createSubmission`, the confirmation | composition of the three above |
| `Calendar` | what the schedule promises | abstract specification |
| `Schedule` | place, move, unschedule, with the decisions that link and unlink speakers | implements `Calendar` |
| `SearchIndex` | announcements, drain, rebuild | |
| `Accounts` | links, sessions, invitations, provisioning, roles | extended by `Review` |
| `AssignPlan` | the plan of a bulk assignment, a pure function | used by `Review`, `AssignDesk` |
| `Review` | rubric, scores, abstentions, assignments, bulk commit, composed with `Accounts` | one pool of requests |
| `AssignDesk` | plans one after the other, over every estate they lead to | reference definition of a good plan |
| `Outbox` | the table, the claim and the lease two drains share | extended by the next two |
| `Projection` | events, their announcements, the Airtable drain | |
| `Publication` | programme, connection, coalescing, the Accelevents drain | |
| `Outward` | both of these under one invocation of the Worker | composition |
| `CommsOutboxProofs`, `DecisionsProofs`, `IntakeProofs`, `ScheduleProofs`, `SearchIndexProofs`, `ReviewProofs`, `AssignDeskProofs`, `OutwardProofs` | theorems | |
| `MC...` | constants of the small instances | |

### How state and actions correspond

A table is a function from ids to a row or `None`; a unique index is a guard; a
column that no property depends on is left out. A request or drain has a program
counter `pc` that names the next database call, and one variable per local it
carries over an `await`. Where the code loops over rows the order of which
nothing fixes, the model takes any of those left. A request that fails in a way
the code does not catch ends with the answer "error", one whose isolate dies
with "lost"; what it has written stays. `PROJECT.json` maps every definition to
its lines.

Operators named `Slip_...` belong to no behaviour. Each is a plausible mistake in
the operator below it, kept so that a check can be seen to fail.

**CommsOutbox.** `List` is the listing of due rows, `Claim` the compare-and-set on
`claim_token` and `claimed_until`, `ReadJob`, `ReadRecipients`, `ReadDeliveries`
what a drain reads before it starts; per recipient `ClaimRecipient`,
`ResumeRecipient` or `PassOver`, then `Send`, `RecordDelivery`, `SetStatus`; at
the end `Review`, and either `Release` or `ReadLatest`, `UpdateJob`,
`MarkProcessed`. Time is two booleans per row, whether the lease is live and
whether it ran out under its drain (`late`).

**Decisions.** `Record` and `CreateDirect` start a request; each statement of the
two materializing helpers is an action. A request holds its work as sets of
speakers and tasks still to be looked at. `Die` ends a request at any statement.
Users, memberships, invitations (these are in `Accounts`) and profile fields, the
seeding of default templates and the audit row of a direct session are left out.

**SubmissionCap.** The two counts of a request (`CountRows`, `CountGuards`) are
separate reads in either order of `Promise.all`; `Claim` is the guarded insert,
whose conflict leads to another count. Turnstile and the opening window come
before all this and are left out.

**Forms.** `draft` is version 0, which is edited in place; a published version has
the name of the request that publishes it, with its number and frozen snapshot in
`issue`, its rows of `form_fields` in `asked` and of `form_rules` in `routed`.
`ClearFields` to `EndUpdate` are the deletes and inserts of a save, `Publish` to
`OpenForm` the reads, the insert of the version, its fields and rules row by row,
and the status of the form. Every field is taken as required and visible, and a
rule is named by the field its condition looks at; types, options and texts are
left out, as are `createForm`, windows and limits.

**Sending.** A preview is a job; `Send` to `ReadAgain` are the calls of
`sendComms`, with `CommitSend` the batch of `enqueueSendAtomic`, whose INSERTs
look for the stamp its UPDATE has left. `ReadInvite` and `WriteInvite` are the
invite of a placement: a read, then an insert under a unique index or a
compare-and-set. How a preview comes to be is left out.

**Intake.** `Visit`, `ShowFields`, `ShowRules` are the page as it is fetched, in the
three reads it takes; `Submit` is the check that the version named is the latest
one. Then `CheckCaps` (all of `SubmissionCap` before the claim), `ReadFields` and
`ReadRules` with the checks of required answers and category, `FindPerson` and
`InsertPerson` for each speaker named, `Write` (the claim and what follows), and
`FindTemplate`, `InsertTemplate`, `Enqueue` for the confirmation, unless the event
wants none (`notify`, as each request has read it). `ConfirmationFails` is an error
in any call of comms, which is logged and forgotten. A visitor answers all he is shown and sends the category his page
derives. `Judge` is a decision on a submission, `Edit` a step of `Forms`, `Post`
one of `Sending`. `early` (history) is who read a version whose publisher had not
finished. The total limit counts all submissions, as if of one version; the run
that edits the form has one visitor, so it cannot tell. Persons made by others than
visitors (direct sessions, imports) are left out.

**Schedule.** The checks of a command are actions of their own, as stale as the
code's; `Insert`, `Update`, `Delete` are the batches that repeat them. A decision
is two or more statements on links and session status that never look at
placements. Times are intervals, half open as in `intervalsOverlap`.

**SearchIndex.** A document is the version of its source row. `requested` and
`built` are the two generations, `lease` and `live` the token and its deadline.
A rebuild reads the tables in any order, one at a time, while commands write.
`processIndexEvent` hands `db.batch` what `db.run()` returned, which the schedule's
store says executes at once and cannot be batched (`schedule/store.ts:499-502`).
Which of the two a build does depends on the library, so both are modelled:
`Commit` is the transaction; `TakeApart` sends the statements on their own, and
`Delete`, `Insert`, `Complete` run in any order, each under its own look at the
token, until `AllRan`, or until a death loses the rest. A third possibility, that
the batch is refused before any statement has run, is assumed away: then nothing
is ever built. `spoilt` (history) is what such statements removed, or passed over,
and did not put back, `shown` the version a reader last saw. What bounds the
forced rebuilds is the environment: near the bound `Sweep` and `Reindex` start
only where none can be forced (`Hesitant`); a started rebuild does what the code does.

**Accounts.** `req` says what a request was sent with. A link is named by the
request that issued it and is live, used or expired. `AskForLink` to `Mail` is
`requestMagicLink` with its first administrator; `Provision` is what an accepted
decision does for a speaker's account, `Invite` the members' route, `ChangeRole`
to `UpdateRole` is `setMemberRole`, `Redeem` to `InsertSession`
`exchangeMagicLink`. The policy is "controlled". History variables say which
requests ran together (`met`) and who last made somebody a speaker (`demoter`).

**Review.** It extends `Accounts` and runs its requests in the same pool, as who
may be assigned and who may score depends on roles, and `setMemberRole` looks at
the assignments (`GuardDemotion`). An assignment is known by the request that
inserted it, so that a row removed and made again is another row, and scores hang
on the old one. Rubric, score, abstention, assignment and bulk assignment have
one action per statement. Scores and criteria are sent as lists that no schema
wants to be free of duplicates (`packages/shared/src/eval.ts:95`, `:153`), up to 50
entries, and go into one multi-row `INSERT` under a unique key, after a `DELETE` that
is committed by then: `fits` says whether a list gets through it, with each entry
once and no more than D1's 100 parameters allow (20 scores, 16 criteria). `BulkAssign` starts with a preview made at that moment
or with the one of an earlier request; the hash of an estate is the estate.
`Commit` is the batch of `commitBulkAssignAtomic`: key, deletions, additions.

**AssignPlan, AssignDesk.** The plan goes through the submissions in the order of
their ids, with the evaluators' counters and the round-robin cursor. What a plan
must be is said without that order: `Proper`, `WithinCap`, `Thorough`, `Even`.

**Outbox, Projection, Publication, Outward.** A row of `outbox_events` has the
name of the request that enqueued it. `Claim`, `MarkProcessed`, `MarkError`
write as the statements both stores have in common. `Projection` has the
compare-and-set of an update in one batch with its announcement, and the drain
that looks for the record by id, POSTs or PATCHes, and finds and writes its row of
`projection_records`. `Publication` has the four reads and writes of publishing,
the coalescing of `enqueueAcceleventsJob`, the two statements of saving or
verifying a connection, and the projection of a snapshot item by item, with each
call of the service able to be refused, to time out, or to happen and lose its
answer. A listing of the service is matched as the code does: speakers by address,
sessions by title and start (`Face`), whatever session the record was made for
(`Matches`). `Outward` empties one topic after the other, as an invocation does.

## What is checked

| run | question | instance |
|---|---|---|
| `comms_outbox_safe` | can a recipient be forgotten, mailed without need, or a verdict be wrong? | 2 drains, a job of 2 recipients, an unreadable row, 1 crash, 1 overrun |
| `comms_outbox_live` | is every row retired in the end? | 2 drains, a job with and one without recipients, 1 crash, 1 overrun |
| `decisions_raced` | what do two racing requests leave, and does a lone one repair it? | 3 requests on 1 submission, accept and reject, with or without a version, 1 death, 1 portal write |
| `decisions_serial` | is a sequence of decisions right, with shared speakers, two reasons and retries? | 4 requests on 2 submissions of one speaker, direct sessions, 1 death |
| `intake_kept` | are caps kept, do answers fit the form, does each submission end with its confirmation, does a mailing go out once? | 4 mixes: 3 visitors, cap 2, confirmations off; 2 visitors with a new person in common, an earlier submission without guard, decisions, no template; 1 visitor and 2 editors, before or after a first publication; 3 senders, 2 previews, 2 keys, 1 placement; 1 death in each |
| `schedule_raced` | do rooms, speakers, versions and reservations stay right? | 3 requests, 2 sessions, 2 rooms, 2 overlapping slots, 1 shared speaker, 2 decisions |
| `search_kept` | does fresh mean right, and does the index catch up? | 2 rebuilds, 1 write, 1 lost announcement, 1 forced rebuild, 1 death, 1 overrun, with and without a transaction |
| `review_kept` | do links, roles and reviews survive each other? | 3 requests in 4 mixes, 2 people, 1 submission, 2 criteria, 6 states to start from, 1 death |
| `outward_kept` | does what is published arrive, once, in the right place? | 11 mixes of 2 or 3 requests, 1 or 2 invocations, 1 speaker, 2 sessions that may be alike, 2 events of the service, 1 mishap |
| `assign_desk` | is every plan sound, over every estate plans lead to? | 3 submissions, 2 evaluators, 72 questions |

The passing properties worth a word:

* `CopiesPaidFor` counts messages: a recipient gets one copy, plus at most one for
  each crash and each overrun. `HonestVerdict` and `VerdictIsFinal` hold as long
  as no lease runs out under its drain, and say so.
* `AnsweredMeansApplied` is about a request that had the system to itself from
  start to answer (`solo`), after anything at all. It is what the repair branch
  of `recordDecision` is for. An acceptance answered ok has its session,
  speakers and tasks, whatever died before it. A rejection or a waitlisting answered
  ok has unconfirmed the session and removed the links, and every speaker *it
  found linked* (`freed`) is withdrawn with his tasks cancelled, or stands on
  another confirmed session. Of speakers an earlier attempt unlinked before it
  died it promises nothing: the code does not find them (see below).
  `AcceptancesAddUp` has no such condition: when all that races are acceptances,
  every one answered ok is complete.
* `NobodyLeftBehind` and `AuthorsStand` look at serial histories without deaths:
  after a death a rejection that is sent again may find nobody to free, and under
  races the loser's work remains. What an acceptance and a rejection leave that
  cross, and a check of other sessions that is stale when it is used, are seen in
  the models and promised by nothing in the code, so no property is about them.
* `CapKept` leaves out submitters with an unguarded submission decided meanwhile;
  with them the cap breaks (see below).
* `AnswersFitForm` relates a submission to the snapshot of the version it names,
  although page, caps, fields and rules are read call after call while the form is
  edited. Its excuse, a read of a version in the making (`early`), is itself
  limited: only a re-publication can be read like that, since the first version
  is hidden until it is whole.
* `EverySubmissionEnds` is the promise of the bounded loop and of comms that never
  fail a submission, together: a request that runs on is refused, or stands with
  its speakers and its confirmation, also when two of them seed the template. The
  confirmation may be missing if the event wants none or comms met an error. One
  more end is in the code and so in the property: a request fails, and leaves
  nothing but persons, when another has made a person it was about to insert
  (`Beaten`).
* `SentOnce` covers replays under one key, one preview sent under two keys, two
  previews under one key, and what senders are told. `InvitesOrdered` is about the
  number by which a calendar tells the newer of two invites.
* `SpeakerNeverDoubleBooked` is about sessions nobody has decided on since they
  got their speakers; without that it fails (`schedule_double_book`).
* `FreshMeansTrue` excuses writes on their way to being announced, those
  whose announcement was lost, and documents that a batch taken apart spoilt;
  with the transaction there are none of the last kind.
* `EventuallyBuilt` is said of each generation, as rebuilds that find the index
  fresh ask for one more: whatever was announced is built, or something later is.
* `OrphanOnlyByRace` names the pair that makes an orphan possible: the request
  that inserted the assignment and the one that took the role away, both in
  progress at once. One after the other in either order, `setMemberRole` or
  `assignEvaluators` refuses.
* `HonestReview` excuses rows whose scores two requests wrote together, or one
  left half written because it died or its `INSERT` failed and it was answered 500.
  The excuse ends with the next request that has the row to itself: it clears the
  row first, and once it is answered ok status and scores agree whatever was left to
  it (`Afresh` drops the earlier writers). A rubric change and a bulk replacement
  are no excuse of their own.
* `LastLinkWorks` is about links requested one after the other. `AdminRemains`
  is an action property; its one excuse is a provisioning that wrote over a
  membership made since it looked (`overwritten`).
* `CommittedOnce` rests on the key being inserted first in the batch of the
  commit; `ReviewedStays` on the status being repeated in its DELETE.
* `EachVersionAnnounced` says that announcements and versions are the same
  numbers, each once, whoever lost: the INSERT of the announcement looks for the
  stamp of its own attempt.
* `OneRecordPerEvent` and `OneCopyEach` name every cause of a second record made
  for an item: two
  drains on one topic at once (`met`), a listing that failed (`blind`), or an item
  edited between the creation of a record and its being forgotten (a change of the
  connection forgets all records; one that it crosses may take it back).
* `NothingForgotten` is what coalescing must not break: at rest, either the
  service mirrors the programme or a row is still to be projected. Two kinds of
  sessions are excused. One that goes by the record of another (`Shared`): both had
  one title and start when the second was looked for, so the record shows what was
  projected last, or nothing once one of them is gone. And one that matched
  several records when last looked for (`unsure`): `projectSession` throws, and the
  row is processed with the session missing. The first kind is in the run, the
  second takes many moves of the connection to and fro, with edits in between, more
  than a run holds; the theorem covers both.
* `PlanSound` compares every plan with a definition that knows no order, and
  requires that a plan carried out and asked for again has nothing left to do.

### Disagreements between code and documentation

Two runs check a promise of a document and find it broken.

| run | promise | what happens |
|---|---|---|
| `schedule_double_book` | no silent double book (`docs/sections/6.1-schedule-conflicts.md:83`) | speakers linked after the placement are not reserved |
| `foreign_ids` | changing the external event increments the generation so that old ids are never PUT into the wrong event (`docs/ACCELEVENTS.md:10`) | two saves that cross give two events one generation |

The models hold more of them; each can be seen by checking the sentence as an
invariant of the module named.

* *Decisions.* A concurrent loser never materializes a session, says
  `decisions/commands.ts:586`: an acceptance overtaken after its claim goes on to
  confirm the session. Retries complete the remaining artifacts, says line 594: a
  rejection that died after deleting the links (`decisions/commands.ts:451`) and is
  sent again is answered ok, and leaves the speakers accepted with live tasks.
* *SubmissionCap.* Concurrent submits admit at most the cap, says
  `docs/sections/3.3-public-cfp.md:109`: a decision shrinks the count the slot
  numbers start from, and one more gets in.
* *Intake.* A submission has its "required visible fields present"
  (`publicCfp/commands.ts:142`): against a version that is being published again,
  whose row is the latest before its fields are there, it is accepted with as few
  as none (`forms/commands.ts:748`).
* *Sending.* A retry under one key gets the stored response (`J04`): one that
  crosses the first finds the key in the job but not yet in its own read of
  `idempotency_keys`, and its insert fails with 500 (`comms/commands.ts:811`).
  Nothing is sent twice.
* *CommsOutbox.* The lease keeps two drains from sending to the same recipient,
  says `emailConsumer.ts:10`: a drain never looks at its lease again; after it
  has run out, a second drain resumes the recipient being sent to.
* *AssignPlan.* The cap holds under replacement as well, says
  `eval/commands.ts:1027`: a kept pending assignment is counted only when the loop
  comes to its submission, after earlier ones have used the room up.
* *Review.* Aggregates stay honest, says `eval/commands.ts:671`: a scored review
  that is scored again with two values for one criterion, or with more than 20, is
  answered 500 after its scores are deleted (`eval/store.ts:899`), by one living
  request with nobody else at work, and stays "scored" without any. A rubric that
  names a criterion twice, or has more than 16, is left empty in the same way
  (`eval/store.ts:616`), and nothing can be scored until it is put again. Bulk
  replacement clears scores by the ids it has read
  (`eval/store.ts:831`); one scored since keeps its row, as
  `docs/sections/3.4-evaluation.md:113` has it, and loses its scores. Two previews
  of one estate can both be committed if nothing they compare changes in between.
  The guard of the rubric compares how many criteria are named, not which.
* *Projection.* The drain is "safe to re-run" (`airtableConsumer.ts:50`): two
  drains that find no record both POST. The rows are not ordered: an older
  announcement can be sent after a newer one (`airtableConsumer.ts:148`).

Met while modelling, present in the models, and without a run of their own:

* The double booking needs no race: place a session, reject it, move it (its
  speakers are unlinked, so the move drops their reservations), place another
  session of the speaker over it in another room, accept the first again.
  A rejected session keeps its placement.
* A drain that dies after the provider has answered and before
  `insertDeliveryEvent` causes a second copy. `CopiesPaidFor` allows it.
* A request with a stale version whose decision value matches is taken for a
  retry and overwrites the recorded reason (`decisions/commands.ts:685`).
* The portal's save bumps a participation's version; a withdrawal that meets it
  loses its compare-and-set silently (`decisions/commands.ts:485`).
* `createDirectSession` takes up a withdrawn participation and cancelled tasks
  as they are (`decisions/commands.ts:979`).
* Speakers are looked up, then inserted under `UNIQUE(org_id, email)`, and the
  conflict is caught nowhere (`publicCfp/commands.ts:679`): of two proposals that
  name the same new speaker at once, one ends with 500 and must be sent again.
* The total limit is counted, then the row inserted (`publicCfp/commands.ts:251`):
  as many requests as run together may pass it.
* A publisher that dies after inserting the version leaves it with part of its
  fields for good, and after a first publication visitors are shown that part.
* Publishing while the draft is being saved copies a draft whose fields are half
  deleted or whose rules are the old ones (`forms/commands.ts:610`); the snapshot
  keeps it.
* A move reads its row back after its batch; an unscheduling in between makes it
  answer 409 for a move that was committed (`schedule/store.ts:760`).
* The last statement of a rebuild advances the generation and releases the lease
  under one condition (`search/store.ts:572`). A rebuild that makes no progress
  keeps the lease for up to two minutes although it is over; the comment in
  `index.ts:1492` hopes for a minute. `EventuallyBuilt` holds all the same.
* The batch of a rebuild, taken apart, can complete before its inserts have run:
  the index is then empty, or old, and reports itself fresh (`search/store.ts:574`).
* Two sweeps that overlap make the second one force a rebuild of an index the
  first has just made fresh (`search/commands.ts:72`).
* A failed announcement is swallowed (`search/commands.ts:306`); the index then
  reports itself fresh and is not, until the next write.
* Two requests for a link that cross each invalidate the other's; both mails carry
  dead links (`auth/commands.ts:318`).
* `upsertMembership` of a provisioning updates whatever row it finds: a membership
  made since it looked is demoted, though `decisions/commands.ts:266` says "never
  demote".
* A founder whose request dies between the creation of his user and the grant is
  not new the next time, and is not granted anything (`auth/commands.ts:261`).
* `markOutboxError` and `markOutboxProcessed` write by id: a drain whose lease has
  run out ends the claim of the one that took the row over.
* The update of `programme_publications` compares nothing, whatever
  `programme/store.ts:23` says of a CAS: a snapshot composed earlier can be stored
  over one composed later (`programme/commands.ts:229`).
* A request that dies between storing the publication and enqueueing its row
  leaves it unprojected until the next one; so does a missing key at that moment.
* A publication coalesces with a row whose lease has run out under its drain; that
  drain goes on with the older snapshot and then retires the row.
* Sessions are looked for by title and start alone
  (`accelevents/project.ts:214`): two of one title and start go by one record, with
  no failure anywhere; moving one moves the other, hiding one hides both.
* Errors of single items are swallowed and the row is processed; a listing that is
  refused is taken for an empty one; the listing of sessions is not paged.
* A verification writes back the connection it has read
  (`acceleventsConsumer.ts:205`), over a save made meanwhile.
* A connection changed to another event and back has a new generation and no
  identities; an item edited meanwhile is made a second time.

### Bounds, and why they are enough

Every bound is a constant with `Max` in its name, the size of a set, or a `Menu`
of what may be asked for together. Two drains or requests in flight are what
every interleaving hazard of this code needs, since each compare-and-set, lease
or guard row is fought for by pairs. A third request acts after two have raced:
as the one that repairs (`decisions_raced`), as the one that takes the last
number (`intake_kept`), or as the one that finds the tables changed
(`schedule_raced`, `review_kept`). One crash and one overrun reach the states in
which each alone and both together matter. One write is enough in `search_kept`:
one rebuild reads what is older, the other what is newer. Two overlapping slots and two rooms give every relation of two
blocks the code distinguishes, and one shared speaker every conflict of persons.
One entity is enough in `search_kept` as the properties are about one entity at a
time and a rebuild's queries interleave with writes to it anyhow; the proofs cover
any number. The retries in `SubmissionCap` are the code's own 25; with three
requests fewer than 25 can be used up, and the mutant with one attempt shows that
the bound is looked at. The mixes of `intake_kept` put together what shares a
table: visitors with each other; visitors with earlier submissions, decisions and
the template; a visitor with a publisher and a second one or a save. Two fields
make a version that is half there, two rules two categories. `Drafts` bounds what
a save may write: one other draft, with fewer fields and another rule. Three
senders, two previews and two keys give every way for key and preview to agree or
differ, with a third request that comes after two have raced. Events share nothing, so each model has one.

The mixes of `review_kept` put together the operations that share a table: those
that issue links with a redemption; two redemptions with a request for a link;
scores and abstentions with a bulk assignment or a rubric; roles, invitations and
provisioning with assignments. Two people are an administrator and another one, or
the founder and another one; the states to start from are an empty installation
with and without a list, and a review that is not there, pending or done, by an
evaluator or an administrator. One submission is enough for what happens between
requests; how plans treat several is the business of `assign_desk`, whose three
submissions and two evaluators give each cap, turn and shortage (three evaluators
with two submissions hold as well).

The mixes of `outward_kept` put two updates of an event against each other and
two drains; publications against each other, an edit, a save or a verification,
drained by one invocation or two. A speaker without a session and two sessions, one
of which can take the face of the other, are enough: items are projected one by one
and share the connection and, when alike, a record.
One mishap is a death, a failed call or an overrun, at any call.

Requests, and where it is sound drains, recipients and rooms, are symmetric. Runs
that check liveness use no symmetry.

Deadlock is not checked, except in `assign_desk`: each system rests once
everything is drained, answered or built and the bounds are used up.

### Fairness

* `CommsOutbox!FairSpec`, `SearchIndex!FairSpec`: weak fairness of every drain's
  `Step`, and of leases running out when their holder is gone. The cron starts
  drains every minute and the runtime keeps running what was started; deadlines
  are wall-clock times that pass. Nothing is forced to crash or overrun, nor to
  write or to announce.
* `Outward!FairSpec`: the same for each invocation (`Drained`) and for the leases
  of dead ones (`DeadLease`). No command is forced, no service has to answer well.
* `Intake!IntakeLive`: a request that has come in goes on running (`Handle`).
  Nobody has to open the page or to submit; editors, senders and decisions are
  not forced either, so a publisher may stop at any row.

No other run assumes any.

## What is proved

TLAPS proves the following for any number of drains, rows, requests, sessions,
rooms, speakers, submitters, rebuilds and entities, and any bounds on crashes. The only
assumptions are the named `ASSUME`s of each module: `None` is not a row, and the
constants have their types (rows of jobs share no recipient, slots end after they
begin, names of rows and of statuses differ, requests and submissions have different
names and the requests are finitely many where they are counted, a proposal names
its primary speaker, nobody is both a speaker and a session). TLC evaluates them in every run.

**CommsOutbox** (`CommsOutboxProofs`): `TypeCorrect`, `Exclusive`, `Retired`,
`NoneStranded`, `KeepsPromise`, `CopiesPaid`, `Honest`, `GivenOnce`. `RetiredMeansDelivered` is not inductive: a drain
marks a row several calls after it has looked. The invariant adds that from
`settle` on every delivery of the row is there (`SettledAfterDelivery`; delivery
rows are never removed, lemma `DeliveredGrows`), and that a status turns final
only after the delivery row (`StatusAfterRecord`). `Exclusive` needs to know
where a live claim can be (`HoldsLease`). `KeepsPromise` maps each step to a step
of `Delivery` or a stutter.

`CopiesPaid` is an argument about debts. A late drain that may still send to a
recipient owes a copy (`LateSenders`); among the drains that are not late at most
one can, the one in the row (`OneRecorder`, from `Exclusive`). The invariant
`CopyInv` says that what was sent and what is owed is at most one more than the
crashes and overruns there were, and no more than these while somebody else is
still going to send (`SendOpen`). Sending moves a copy from one side to the other
(`SendEffect`), a crash raises the limit before the row can be taken again
(`OpenStep`), an overrun turns its drain into one that owes (`LateChanges`). The
same is done for outcomes, where a crash leaves the recipient with its one outcome
or with none, and so pays for nothing.

`Honest` is proved together with `GivenOnce`, under `overruns = 0`. A drain
has counted every failure of its row since it listed the deliveries (`Tallied`),
and has no recipient before it who has an outcome (`NotTwice`); nobody else is in
the row to add any. So what `UpdateJob` writes is what the deliveries say
(`HonestWrite`), and over a verdict that is honest it writes the same one.

**Decisions** (`DecisionsProofs`): `InOrder`, `AddsUp`, `MeansApplied`,
`OneAfterTheOther`, `StageKept`. All the properties are about requests that have
finished, while a request takes a dozen kinds of statements and repeats some per
speaker and task; so the invariants say at every label what is done so far and
what is still in `todo`. `Order` is what holds of each request whatever the others
do: rows are never deleted (`Keeps`), and what it works on is of its own
submission. `Progress` is what an acceptance has achieved when nobody works against it:
the speakers and tasks it is done with are in place (`Cast`, `Tasked`), and a row
it has read is the row that is there or one that needs no change. It holds of a
request that has had the system to itself (`Alone`), and of all of them as long as
only acceptances are asked for, since then no statement takes anything away
(`OnwardTables`, `Grows`): that is `AcceptancesAddUp`, with any number of requests at
once and any number of deaths. What only a request by itself can rely on is
`SoloNoted` (the decision it has read is the one there, and no audit row is of a
later time) and `SoloTaken` (what a rejection removed is gone).

`AnsweredMeansApplied` is kept by the other requests for two reasons. Whoever still
works on the submission makes its newest request share the system
(`Succession`), so nobody writes it (`Elsewhere`). And a request that takes away works on
other submissions, but on the same people: it withdraws a speaker only after it
has looked through the sessions, so one who is on the confirmed session is passed
over (`Spares`, the check of "participationStillOnConfirmedSession"). Whom the
newest rejection freed stays freed, or is taken up by a later acceptance and so on a
stage (`Spent`).

`NobodyLeftBehind` and `AuthorsStand` are about histories without overlap. `Tidy`
accounts for every speaker during a request: he is on a stage, or holds nothing,
or the request is about to see to him (`Pending`), and what it has read is exact
(`Exact`). `OneAfterTheOther` and `StageKept` take the lack of overlap from the
history, as the properties do, so they cover servers that could run more.

**Schedule** (`ScheduleProofs`): `TypeCorrect`, `Matching`, `RoomsSafe`,
`OneWinner`, `SpeakersSafe`, `KeepsCalendar`. The tables change in three actions
only (`OnlyBatches`); the lemmas `InsertEffect`, `UpdateEffect`, `DeleteEffect`
say how. The invariant of the tables is that reservations match placements and
that none of them clash (`NoClash`), which gives rooms. `OneWinner` needs that a
committed version is spent (`VersionSpent`). `SpeakersSafe` needs that the
speakers of a session nobody decided on are the ones a request has read
(`CrewRead`) and the ones its placement reserves (`CrewReserved`).

**SubmissionCap** (`IntakeProofs`): `CapIsKept`, `CappedMeansFull`, from
the assumptions that requests and earlier submissions are finitely many. The
guards of a submitter are numbered without a gap, after as many numbers as he has
unguarded submissions (`NoGap`). What a request has counted is still there
(`CountedRows`, `CountedGuards`), so its count lies between what it has seen and
what is there (lemma `EffectiveBounds`), and the number it goes for is the first
free one or one taken since (`Chosen`): a claim that wins has a number within the
cap. Each number is tried once (`Tried`), so the bound on the attempts refuses
nobody. The step of a decision (`DecideStep`) shows where `shrunk` is needed.

**Sending** (`IntakeProofs`): `Sent`, `Ordered`. A job leaves its preview once:
unqueued it has version 1, queued version 2 and its key (`Versions`), so of the
attempts that have read version 1 only the first updates. Who has posted is in
the job (`InJob`) and a stored key belongs to somebody who has posted (`Keyed`),
hence what a replay is told is true. For the invites, a SEQUENCE issued is one
that the placement has reached (`Reached`).

**Intake** (`IntakeProofs`): `ImplementsCaps` and `ImplementsMails` map each step of
the composition to a step or a stutter of `SubmissionCap` and of `Sending`, so
that what is proved of those holds of whole submissions (`CapKeptInIntake`,
`CappedInIntake`, `SentInIntake`, `OrderedInIntake`). `FormIsAnswered` follows the
versions: a version has nothing before its insert (`Unborn`), then what is not
still to be written (`Growing`), numbers are unique and one is the highest
(`Numbered`), and an open form has a version that is whole (`Opened`). A published
version never changes and stays done (`Lasting`). Then the requests: what a
visitor names is published and, unless it is a later version, whole, and what he
is shown is of it (`Named`); what he has stored is the version's own, since fewer
answers than it asks, or another category, are refused (`Stored`). It needs no
assumption about who reads what at once, and none on deaths.

**SearchIndex** (`SearchIndexProofs`): `TypeCorrect`, `FreshIndex`, `NeverBack`.
`FreshMeansTrue` is about the index; the invariant says the same of what each
rebuild has read, with the generation it read first in place of the one built
(`ReadIsExcused`), and that the holder's generation is not behind the one built
(`Generations`). `Ordered` carries the index never going back. While the statements
of a batch run on their own, a document of the holder's is as he read it or counts as
spoilt (`Placed`), and what is not shown is remembered (`Remembered`).

**Review** with its accounts (`ReviewProofs`): `OneSession`, `AdminStays`,
`ReviewsStay`, `CommitOnce`, `NewestLink`, `Honesty`, `OrphansNeedARace`. A link is put by the request
that issues it before its mail can be redeemed, so it is nobody's when it is made
live, and one that was used stays so (`Issuing`, `LinkInv`); who consumes one finds
it unused, so nobody holds a session by it (`Holds`). Two that run at once have met
(`Overlap`); hence in a series in which no two issuers met, the link put last works
until the next one is put, since superseding spares none but it (`LastInv`, with
`PurposeInv` for the purposes). For administrators the three statements that
write memberships are looked at one by one: an upsert replaces one only by
overwriting it, an invitation none, a change looks for another administrator in
its own WHERE clause. Assignments are written by three statements, too, and none
of them touches one that is reviewed.

An honest review (`Honesty`) is one whose scores are all of one request unless
two that wrote for it met, or one died or failed. Who clears a row that stands
starts it afresh; a writer is forgotten then only if it has not met the one that
clears, hence never while it is at work (`Recalled`). The names of rows are used once (`NamesInv`), a row
carries who has written for it (`WroteInv`), a committer about to take away a row
that is no longer pending has met a writer of it (`SpokenFor`), and where no
writers met the scores are where the one at work has got to (`Between`), which is
what is promised once nobody is at work (`Sound`). Of the plan of a bulk
assignment only one thing is used here: it removes pending rows (`PlannedToGo`).

Orphans (`OrphansNeedARace`) are followed from both sides. A request about to
assign somebody has found him a member who may review, and if he is none any
more then whoever changed that has met it (`Vetted`, with `Fit`); of a plan this
takes that it adds only evaluators it was asked about, which is `ProperPlan` of
`AssignDeskProofs`, instantiated with the evaluators of `Review` (`SamePlan`,
`PlanAsked`). A request about to make somebody a speaker has found none of his
reviews pending, or no membership and so no assignment (`Employed`), and those
assigned since are by requests it has met (`Sworn`).

**AssignDesk** (`AssignDeskProofs`): `PlansAreSound`, for any sets of submissions
and evaluators, any question and any estate the desk can lead to. The plan is
made by two recursive functions over the numbers, the rounds of a submission and
the submissions of a question; that such functions exist and what holds of all
their values is derived from the well-foundedness of `<` (`LeastNat`, `ByNat`,
`Recursion`). A round is looked at for what it does whoever's turn it is
(`PickIs`, `Rounds`), all-to-all and round-robin then have one description
(`Visited`): the submission gets some of those who are below the cap, and if it
stays short nobody is left who is. `Upto` says what holds when the submissions
up to a number have been visited, by everything `PlanSound` asks for: counters
count the kept and the added (`Loads`), who is short is reported (`Reported`)
and then everybody who could is at the cap (`Exhausted`), nobody who got
something is above it (`Capped`), nobody gets more reviewers than asked
(`Enough`). Evenness needs to know whose turn it was: from nothing, round-robin
gives those up to the last one more than those behind him (`Rota`), and it is
never the turn of one who has the submission before one who does not (`Behind`);
all-to-all gives everybody the same (`Level`). That a plan carried out leaves nothing to do (`SettledPlan`)
compares the plan with the next one: what is added is kept then (`KeptThen`) and
counted (`CountedThen`), so each submission finds the same capacity as before,
and it had exhausted that.

**Outward** (`OutwardProofs`): `VersionsAnnounced`, `RecordsAlone`, `CopiesNamed`,
`NothingIsForgotten`. Whether a
base with two records is met only after two drains have met depends on what each
drain is in the middle of. The invariant `Places` says, for each place in the drain, what
kind of row it holds; `Apart` that drains that have not met are not both at
announcements; `FirstPost` that a drain about to POST, when none have met, has an
empty base before it: what an earlier POST made, `Found` finds, with its link or
without.
For the announcements it needs that a request has a row only when it is over
(`Finished`), so that no row is put over another.

`CopiesNamed` is `OneCopyEach`, from an invariant of three layers. The first lemmas say
what each step changes (`IdentifyDoes` to `ReportDoes`) and are all that later ones
use. `Struct` is what is so whatever goes wrong: a drain holds items of its
snapshot and records of its item (`Holds`), a request that will write the
connection has one that follows the one it read (`Asks`), and a generation is a
save, so there are no more than have been asked for (`Bounded`). A listing
may give a drain a record made for another session, so what is held is a record of
the same kind (`Kindred`). Then,
while no two drains have met, one at most is at a projection (`Alone`), so nobody
stores an identity between its look-up and the creation (`Fresh`) nor makes a
record between the listing and it (`Unseen`); a connection that no write
crossed has only identities of its event or of older generations (`Sited`). The
two ways to be excused are the two last parts. As long as no item was edited,
every copy of it there is has the face it had at the start (`Unedited`), so a
listing finds what was made, whatever died or was moved: a second one made for it
means a blind listing (`Single`). As long as nothing died, failed or moved,
every record has its identity, or a drain about to store it (`Settled`), and
edits do no harm. An item of which there are two has lost both excuses.

`NothingIsForgotten` is `NothingForgotten`, which is about states at rest and says
nothing of how they are reached. `Remembered` is what is so in between, as long as
things are `Unharmed`: somebody owes a projection (`Owed`: a request
that has changed something and has no row yet, or that died first, or a row
undone that no drain has read the connection for), or a drain is at a projection
of what is published now (`Current`), or the service shows that and no drain
can undo it (`Mirrored`). The three are needed together: a publication that
coalesces hands what it owes to the row it found, the drain that claims that row
keeps it until it has read the connection and the programme, and one that dies
gives it back. `Current` says, for each place in `Project`, which sessions are
already as published (`Copied`), which are still to do (`ToDo`) and which of
those taken back are hidden (`Hidden`), each unless `Excused`; `Known` says whose
records are hidden, so that hiding one touches another session only if they share
it. Another drain could undo this, so the
proof uses `Alone`, and `Holders`: without an overrun, a row that a drain is at is
leased to it and not done, so that nobody else retires it or claims it. As
`Ready` comes and goes, each step is looked at with it: a
connection that becomes ready is one a request has just written, and owes. A
request that dies between its writes and its row is not at rest ever after.

Only model-checked: liveness (`EveryRowRetired`, `EverySubmissionEnds`,
`EventuallyBuilt`, `EveryRowProcessed`), which is out of the prover's reach.

## What is not modelled

* The creation of previews and templates, and the mails a decision triggers:
  inserts of the tables `Sending` and `CommsOutbox` start from, whose initial
  states are jobs as they leave them.
* Drafts, edits and withdrawals of submissions, uploads, rate limits, Turnstile.
* `createForm`, windows and limits of a version; types, options and conditions of
  fields beyond which field they look at.
* Design and files: the upload itself is outside the repository. An upload is
  claimed before it is stored (`design/store.ts:683`); a death in between leaves the
  file claimed for good.
* The open policies of auth, logout, cookies, cryptography.
* The queue of an evaluator, aggregates, exports, readiness: they only read.
* Import from Airtable and what else is enqueued for it: one insert each.
* Search ranking, the text of documents, templates and mails, ICS content.
* API keys, settings, saved views, portal forms, resources: one statement or one
  batch per operation, with nothing to interleave.
* Middleware, routing, the web application, the learning site, CLI and SDK:
  stateless, or clients.

## Plan

1. Outbox drain, decisions, caps, schedule, search; review, accounts, plans;
   both projections and publication; forms, submissions from the page to the
   confirmation, mailings and invites: done, with proofs as above.
2. The mails a decision triggers, composed with `Decisions` and `CommsOutbox`;
   drafts, edits and withdrawals of submissions.
3. Design and uploads.
