# SQ Hub: verification project

TLA+ models, TLC runs and TLAPS proofs for SQ Hub, the identity and messaging
hub in `src/`. The models follow the code of `src/apps/api` and of the Keycloak
providers in `src/infra/keycloak/providers`, and of the four pages of
`src/apps/web` whose own state decides what is asked of the API; the documents
under `src/docs` only supply the promises the code is compared with.

Contents: 1 the system, 2 what is modelled, 3 the runs, 4 the proofs,
5 abstractions and what the models also show, 6 what is not modelled, 7 what is
left to do.

## 1. The system

SQ Hub is one Fastify process (`server.ts`) over PostgreSQL, in front of two
Keycloak realms, with a React front end. Several copies may run at once. It has
three groups of parts.

### Kirim SQ (`modules/kirim`)

WhatsApp for all the foundation's applications ("pemakai", consumers). It owns
the WhatsApp numbers ("nomor", `kirim_devices`), reached through an engine
(JalurPesan) over HTTP.

| Part | State | Operations | Talks to |
| --- | --- | --- | --- |
| acceptance (`service.ts`, `routes-internal.ts`) | `kirim_messages`, `kirim_outbox`, `kirim_conversations` | accept a message under an idempotency key; read its status; upload media | the outbox, the owner's webhooks |
| send queue and worker (`worker.ts`, `policy.ts`) | `kirim_outbox` rows: status, attempts, next attempt, expiry; one round in the memory of each process | expire, claim with a lease, send, apply the result | the engine |
| administration (`admin.ts`, `cards.ts`, `business.ts`) | `kirim_devices`: connection, paused; routes, quotas, opt-outs | retry and cancel a row, pause, connect, disconnect and deactivate a number, routes | engine, outbox |
| ingest (`ingest.ts`, `message-refs.ts`, `message-state.ts`) | `kirim_events` and its cursor; inbound messages, receipts, edits, deletions, reactions | webhook notification, pull pages, process one event, refresh statuses | engine, webhooks |
| consumer webhooks (`webhooks.ts`) | `kirim_webhook_outbox` | enqueue in the transaction of the change; claim, deliver, back off | the consumers |
| conversations (`conversations.ts`, `actions.ts`, `photos.ts`) | conversations, read marks, actions on messages, small profile photos (rows and encrypted files) | reply, assign, edit, delete, react; fetch photos by round and on demand | outbox, engine |
| history and groups (`history-import.ts`, `groups-admin.ts`) | imported history, group membership | import in pages, keep groups in step | engine |

What is hard: several workers on one queue; a process that stops between a claim
and a result; an engine that times out but sends; receipts that overtake the
answer of the send they belong to; administrators who cancel or retry what is
being sent; retries with the same key by callers; a rolling rate limit and a
daily quota read outside the transaction they guard; leases shorter than the work they cover.

What makes it correct: a row has one sender at a time, and every attempt shows the
engine the row's own key, by which it sends a message once; attempts are bounded; every accepted message ends
in an outcome; a status never moves back; one key is one message; no event is
missed; a webhook event is delivered at least once or given up after eight tries.

### Hub (`modules/hub-auth`, `application-access`, `platform-admin`, `staff-lifecycle`, `organ-membership`, `role-administration`, `organization-directory`, `governance`)

| Part | State | Operations |
| --- | --- | --- |
| hub sessions (`hub-auth`) | login transactions (10 min, one shot), sessions (8 h idle, 12 h), encrypted refresh tokens | begin and complete a login, replace a session, refresh, revoke |
| application access | applications, grants per identity and application, audit | grant, revoke, check |
| platform administrators | memberships, proposals, audit | propose, confirm (four eyes), cancel, revoke; bootstrap grant by command line |
| staff lifecycle | one operation per identity under an advisory lock; Keycloak identities | provision, invite from HCIS, enable, offboard in steps with a final verification |
| organ membership | memberships of the foundation's organs | add (path A staff, path B new identity), change, end |
| role administration | nothing of its own; HCIS owns the roles | grant and revoke through a channel, with one fresh assertion per change |
| organization directory | the last good snapshot and tombstones | synchronise under an advisory lock |
| governance | summaries cached for 60 s | fetch with a token exchange |

What is hard: rules checked against rows that another transaction changes; an
authorization read before the transaction it allows; a partial failure of a
many-step operation and its retry; a change whose answer is lost; a concurrent
refresh of one rotating token; a stale pull that ends after a newer one.

What makes it correct: nobody becomes platform administrator through the Hub on
one person's word; a completed offboarding leaves nothing active; a change at
HCIS is applied at most once per request; a revoked session stays revoked.

The pages of the own account (`web/src/AccountPage.tsx` over `account-self-service`),
of the roles at HCIS (`HcisRolesPage.tsx`), of the organ memberships
(`OrganMembershipPage.tsx`) and of Ringkasan Yayasan have several
requests under way at once, whose answers come in any order.

### Keycloak providers (`infra/keycloak/providers`)

| Part | State | Operations |
| --- | --- | --- |
| karir-identity | a one-time code in the session notes, sliding-window counters in memory, verified numbers on the user | login by NIK, register, verify a WhatsApp number, reset by code |
| trusted-device | at most ten signed device records per user | issue, validate and rotate |

What is hard: a code outlives the number it was sent to; counters that a new
code resets; two requests that rotate one device record.

## 2. What is modelled

| Module | Models |
| --- | --- |
| `KirimPolicy` | `policy.ts`: send window, the decision of a claim, attempts, rate, status order |
| `KirimOutbox` | the send queue: acceptance, every step of a worker round, the engine, receipts, administrators, crashes, time |
| `MessageLifecycle` | what a sender is promised of one message (abstract specification) |
| `KirimOutboxLifecycle` | the refinement mapping from `KirimOutbox` to `MessageLifecycle` |
| `KirimAccept` | `acceptMessage` and the officers' replies: idempotency keys, opt-outs, quota, racing requests |
| `KirimWebhooks` | the webhook sender: batch claims under a lease, posts, backoff, giving up, stops, time |
| `KirimPull` | pulls of a number's events: timer, webhooks, pages, the cursor, stops |
| `KirimChats` | the chats of one person with two WhatsApp addresses and of one group: lookup and creation, unread counts, calls and their corrections, reading |
| `KirimActions` | edits, deletes and reactions on one message: API requests, the phone, the engine's echoes |
| `KirimPhotos` | the profile photos: rounds and fetches on demand of several processes, the rows and the files they name |
| `KirimImport` | the import of old messages, from the engine's copy and from the phone |
| `KirimNumbers` | numbers, engine tenants, owners, routes, cards; pairing, reconnecting, disconnecting, status |
| `KirimGroups` | reservations of additions, the creation of a group under a key, what is stored of the engine's answers, the refresh |
| `StaffAccess` | what one person may use, and the offboarding that takes it away, beside everything that gives and takes |
| `ApplicationAccess` | the registry of applications and who may use which; extended by the next two |
| `OrganMembers` | both paths of an organ membership, the provision of staff, the Akun SQ at Keycloak |
| `Governance` | a page of Ringkasan Yayasan: the cards, the cache of a process, the time limits |
| `PlatformAdmin` | propose, confirm, cancel, revoke with their row locks; the command line; revocation by an offboarding |
| `HubSessions` | logins, sessions and their replacement, the rotating account token |
| `HcisRoles` | grants and revocations at HCIS, the page's requestIds, lost and late answers |
| `OrgDirectory` | the synchronizations of several instances, the copy, the pages consumers read |
| `AccountPage` | the page of the own account over the account routes and Keycloak |
| `OrganPage` | the page Organ Yayasan: the list, the form, the details, the change and the end of a membership, with several runs under way |
| `OtpCodes`, `TrustedDevices` | the two Keycloak providers with state of their own |
| `KirimOutboxProofs`, `KirimAcceptProofs`, `KirimInboundProofs`, `KirimChatProofs`, `PlatformAdminProofs`, `AccessProofs`, `HcisProofs`, `AccountProofs` | the theorems |
| `MCKirimOutbox`, `MCKirimAccept`, `MCKirimImportDevice`, `MCOtpCodes` | TLC instances of one module |
| `MCKirimInbound`, `MCKirimRounds`, `MCAdministration`, `MCAccess`, `MCPeople` | TLC instances of several modules that share no variable |

In every module one transaction, or one statement outside a transaction, is one
action, and so is one call of a remote service; what a process has in memory
between two of them is a variable of that process. Anybody else may act between
them. A definition whose comment begins with "Mutant" is not part of the
specification: it is a plausible bug that one of the properties was seen to catch.

A composed instance has a variable `part`, chosen in the initial state, that says
which of its modules moves; the others stay as they began, and the `VIEW Moving`
tells states apart by the part that moves alone. So each run checks each of its
modules by itself, at the cost of one start of TLC: nothing is said of two of them
moving together, and they have nothing in common that could make a difference.
Modules that do share state are one specification: `OrganMembers` and
`Governance` extend `ApplicationAccess`, `KirimOutbox` extends `KirimPolicy`, and
`StaffAccess` holds the parts of the other services that an offboarding meets.

### KirimOutbox

The variables `status` to `created` are the columns of a `kirim_outbox` row and
of its message; `connection` and `paused` are those of its number; `pc` to
`served` are the local variables and the configuration of `runOnce` in each
process; `pending` and `sent` stand for the engine, which keeps a request it has
not looked at and remembers the keys it has sent; `recorded` is the part of
`kirim_events` that holds receipts.

`ExpireDue`, `ListDevices`, `CheckRate` or `SkipDevice`, `Claim`, then
`ReleaseLease`, `RejectLocally` or `CallEngine`, then `EngineAnswer` or
`Timeout`, then one of the `Apply...` actions, are one trip through `runOnce`, in
its order. `Forget` is the end of the loop body. `Crash` can happen at any step
and loses only what the process had in memory: the lease in the row is what
survives. `EngineSend` is apart from `EngineAnswer` because JalurPesan may act on
a request after the caller gave up on it. A process restarts with one of the
configurations in `Configuration`: a number it has no provider for is claimed
and released (`ReleaseLease`).

`MessageLifecycle` has one variable for the state of each message and one for
what WhatsApp was given. `KirimOutboxLifecycle` maps the ten columns and the
engine to these two; the run and the theorem `Implementation` say that each
step of the queue is one of the lifecycle's, or none.

### KirimAccept

`pc` goes through the checks of `acceptMessage` and `queueReply` in their order:
replay, number, opt-out, (for automatic messages) the day and the quota, media,
insert. Each check is a query of its own. Only `Insert` is a transaction, and the
unique index on (consumer, key) sends its loser to `Raced`, which answers with
the row of the winner. `found` remembers which message a key had when the
request came, so that `RetryFindsIt` can speak of retries.

### KirimWebhooks

The row's `next_attempt_at` is `dueIn`, relative to the present, so the clock needs
no bound. A process holds its `batch` with the attempts it read at the claim, and
stores the outcome of a post by the row's id alone. `Tick` passes while processes
wait, and during a post until its timeout. `outlived` is history: the events that a round
holds, or still held when it was stored, past the end of their lease, which another process may have
claimed too; it forgets an event that no round holds any more.

### PlatformAdmin

A request is authorised first (`Authorize`), outside the transaction that it
allows. `LockProposal` is `SELECT ... FOR UPDATE`, `LockRow` takes the locks of
`lockMemberships` one after the other in the order of identities, and `Activate`,
`Cancel`, `Revoke` check again under the locks. The command line's grant
(`CliGrant`) and the offboarding's revocation (`RevokeOutside`) take the row in
one statement. The lapse of a proposal's seven days and stops are actions of their
own. A session must be younger than its administrator's grant; since a login gives
one at any time and does nothing else, that guard is left out of `Authorize`.

### StaffAccess

`state` holds, for one person, every access, the Platform Administrator role, the
organ membership and whether the Akun SQ is enabled. An offboarding reads,
revokes and reads back each in turn, then reads all of them once more; each of
these is a step that may fail, before or after its effect. The operation's row is
written by the database session that has the advisory lock (`CanWrite`), and that
session may be lost (`LoseSession`) while the request goes on revoking through
others. Ends of a membership (`EndMembership`, `InspectForEnd`) and HCIS
invitations (`Invite`, `ReadForInvite`, `GrantForInvite`) read and act in
separate steps; `Give`, `Take`, `LinkEmployee` and `MarkExistingStaff` are what
administrators and the provision of a hired member do. `since` is history: what
was given since a final verification began.

### KirimPull

`pull` and `again` are the two promises of `KirimIngest` (`pulling` and
`pullAgain`): a caller is given the pull under way only while that has not read
past what the caller may have seen (`JoinRunning`, `JoinQueued`). `ReadDevice`,
`ReadCursor`, `FetchPage`, then for each event `SkipSeen`, or `CopyMedia` and
`StoreEvent`, are one trip through `pullDevice`; `StoreEvent` is the transaction that
records the event's id and lets it take effect. `Fail` and `StopPuller` can happen
at each of them. `Move` gives the number another tenant, `Hold` an older number the same phone.

### KirimChats, KirimActions

In `KirimChats` one `Lookup` finds or creates the chat of an event by its address,
and the `Store...` action that follows stores the event in it; `OpenLookup` and
`OpenCreate` are the module's own opening of a chat, whose two statements may have
the lookup between them. Items are numbered in the order in which they are stored, which for
messages is that of their times. A call is stored at its end but with its beginning
(`start`), which may lie before items that are stored already and before what was read; its
correction compares that with the read mark, as the code does. `waiting` is what really waits
for a reply, `overtaken` is history: the calls whose correction was kept from taking them off
by something as late as their beginning that had been read. In `KirimActions` the message is, by
`place`, the number's own or the contact's in a chat of two, or the number's own or another
member's in a group. `admins` are the group's administrators, `listed` what the last refresh
stored of them (`RefreshRoles`), by which the events are judged. A
request is checked (`EditMessage`, `RemoveMessage`, `ReactTo`), taken by the engine,
and recorded by a transaction; the engine's echo (`ApplyEngine...`) may be applied
before or after. `tangled` marks the behaviours in which a change began before an
earlier one had settled, `dropped` those in which a process stopped in between, `misjudged`
those in which a deletion was judged by another role than the one WhatsApp judged it by:
`ShownAndNamed` says nothing of the first and the last, and no name of the second. Section 5
says what happens then.

### KirimPhotos

A `fetch` is the one round of a process, or its `inFlight` of a subject. It asks the
engine (`PhotoAnswer`), reads the row (`Compare`), and then renews its date (`Touch`)
or writes a file under a new id (`WriteFile`), and then the row: `ReplaceRow` is the
transaction that locks a row, after which the old file is removed (`RemoveFile`);
`FindNoRow` and `InsertRow` are the transaction that found no row to lock, between
whose two statements another fetch may insert. `Breaks` is an exception or a stop.
A viewer reads the row (`AskPhoto`), starts or joins a fetch (`FetchNow`), looks again
and reads the file. `lost` is history: the files that nobody will remove.

### KirimImport, KirimNumbers, KirimGroups

`KirimImport` has one round per process, whose steps are the statements of
`stepStored` and of `step` (the phone import). Whether the number has a message is read
(`LookUp`) before the transaction that stores it (`StoreMessage`). Of a chat only the pages
that are read are copied (`Wanted`, `CopyLimit`: 100 pages of 100 messages in the code). `crossed`
and `twice` are history: the chats two processes were at together, and those with a message stored twice. In `KirimNumbers` everything that asks the
engine first is a `Begin...` by an administrator, one or more engine steps, and a
`Store...` of the answer, with any of the one-transaction changes between; `Typed` are the
tenants an administrator may type for a new number, which nothing compares with those in use; `Fill`
and `MarkDisconnected` are what ingest and the worker write. In `KirimGroups`
`Reserve` is the transaction under the number's row lock, and the engine does what
it is asked whether or not its answer arrives (`EngineDoes`, `AnswerLost`).

### HubSessions

A login goes from `StartLogin` or `StartAction` (which names the session it will
replace) over `CompleteLogin` to `CreateSession`, which replaces it under its row
lock. An account request (`AskAccount`) has read its session's token before it asks
Keycloak (`RefreshAccess`) and stores the new one unless the session has been revoked,
whatever token the row has by then (`StoreToken`). `OneUse` is Keycloak's setting for refresh tokens; the
proofs are for both values. `cut` is history: the sessions whose new token was lost
by a stop.

### HcisRoles, OrgDirectory

A `press` of a button is one request of the page, with its path through SQ Hub
(authorization, the look-up of the person, the call with its one resend) and HCIS
(`Carries`, `Replays`, `Refuses`, `WantsAnother`, `Fails`). `flying` are the changes
that left SQ Hub and may be carried out however late. In `OrgDirectory` the
snapshot is versioned by `edit`, the number of changes at HCIS, of which the code
sees only date and revision; `Apply` is the transaction with `assertNoRegression`,
`LoseConnection` takes the advisory lock away with the connection that holds it.

### OrganMembers, Governance

`ask` is how far each request of `organ-membership` or `staff-lifecycle` is. What a
request has read of Keycloak it keeps in its row, and each write at Keycloak is a
step that may fail or be the last one. `akun.by` is history: who made the Akun SQ.
In `Governance` each page asks every application it lists together; an answer
(`ApplicationAnswers`) and its receipt (`Receive`) are apart, and the time limit is
`FetchFails`.

### OrganPage

An `action` is one `run` of the page, or its `load`: up to three requests, whose
answers may come when the page shows something else. There is one busy flag, which the first
run to end clears (`Finish`). `mounted` says whether the component that
pressed is still there: `Mount` is React's key, by which the details of another
membership are a new component, and `Unmounted` what becomes of the answers to the old one.
A person stands for one membership, so who joins again is another. `shown` is
history: whose steps stood on the page when an end was pressed.

### AccountPage, OtpCodes, TrustedDevices

A page's `fetch` goes from the browser to Keycloak and back, and a page may have
several; `Elsewhere` is what other devices, Keycloak's own pages and
administrators do to the account. In `OtpCodes` a tab is one authentication
session with its notes, and the numbers of an account are a sequence, each of them a channel of
the reset; `counted` and `resets` are the windows of `AbuseGuard`. `moved` is history: the
numbers of the account have changed since the code of that tab was sent. In
`TrustedDevices` a request reads the attribute whole at its beginning and writes it
whole at its end.

## 3. The runs

| Run | Instance | Shows |
| --- | --- | --- |
| `outbox_two_workers` | 2 processes, 1 row, 1 number, a day of 4 ticks | one sender at a time, only the lifecycle's changes, and the message leaves the queue |
| `accept_two_requests` | 2 requests at a time, 3 keys, 3 messages, quota 1, 2 days | one message per key, true answers, retries find their message, overshoot of the quota bounded |
| `inbound` | pull: 2 tenants, 2 processes, 1 caller; chats: 2 addresses, 3 items, 1 call; actions: 2 officers, 2 changes, a chat or a group with its roles; numbers: 2 modules, 2 numbers, 2 tenants; groups: 2 creations, 1 edit; photos: 1 process, 2 subjects, 1 viewer, 2 files | events once and in order, fresh answers, one chat a person, unread counts, the stored text is WhatsApp's with its author while the stored roles are, cards a module may send through, one group per key, a row's photo is on the disk and no file is forgotten |
| `rounds` | webhooks: 2 events, 1 process that may stop or 2 that do not; pull: 2 processes; import: 2 processes, 2 chats; numbers: 2 administrators; groups: 2 edits | each event ends for good, each event of the engine arrives, stored imports end and store nothing twice after a restart, statuses and groups catch up, a success stands unless a round outlived its lease |
| `administration` | 3 people, 2 proposals, 2 requests; portal: 2 browsers of 2 people, 1 application | four eyes, decisions stand, no deadlock; a card is an application's answer to the person who sees it |
| `access` | offboarding: 1 person, 1 application, 2 requests; sessions: 3 logins, 2 account requests; codes: 2 tabs, 2 numbers; devices: 2 browsers | an offboarding is completed with nothing left active and stands; one session of a login, with a live token; codes counted by the hour, numbers verified by the code that went to them but for the two cases that `NumberProved` names; trust earned |
| `people` | roles: 2 people, 3 presses, 2 ids; members: 2 requests, 1 candidate; directory: 2 instances, 1 reader, 2 people; account: 1 page, 2 fetches; organ page: 2 people, 2 runs; queue: 1 process with or without a provider, 2 rows, 1 number that stays on | what is told of a press happened; members need a second factor, path B acts on its own accounts; the copy goes forward, pages are of one version; what the account page says and shows agrees; the membership that is ended is the one whose steps were shown; one process keeps the rolling rate |
| `unread_lost` | finding, `KirimChats` | the correction of a call takes an unread message off the count |
| `device_import_stuck` | finding, `KirimImport` | a phone import that met an unavailable engine is never looked at again |
| `two_numbers_one_tenant` | finding, `KirimNumbers` | a moved number and a new one come to run on one tenant |
| `two_tabs_one_code` | finding, `OtpCodes` | two sign-ins have a code of one number; the second marks the next number as verified by it |
| `second_assignment` | finding, `HcisRoles` | after an unknown outcome, a search renews the requestId and HCIS assigns twice |

The findings quote the document or comment that says otherwise in `PROJECT.json`.

### Why the bounds are enough

- Queue: a day of four ticks with a window of two has all four cases of the
  window decision (before, in and after it, and an expiry before the next
  opening), and one retry delay gives two attempts, the first that may be retried
  and the last that may not. Two processes and one row are enough for exclusion,
  because a row's state involves other rows only through the order in which a
  claim looks at them; two rows are in the rate's part of `people`, and any number in the
  proofs. That part keeps to the states in which the number is on and no receipt has come
  (`NumberStaysOn`): a number that is off sends nothing, and a receipt changes nothing that the
  rate is counted from. The process has a provider for the number or has none, before and after a restart.
- Acceptance: two requests race for one key, a third key lets a retry come after
  both; two bodies per key make a conflict possible; a quota of one is used up by
  either.
- Webhooks: a batch of two events, the second of which waits for the first; two
  tries, one that is retried and the last. A lease is as long as one post may take, so
  that a batch outlives it, as 20 posts of 10 s outlive 60 s in the source, and another
  process claims what the first still holds. One stop, of a process that is alone:
  the two that race do not stop.
- Import: pages of two messages in all and a chat of three, so that one is longer than what is
  read; the other is empty. Two processes, one stop or unavailable engine.
- Pulls: pages of one event and two pages a pull make a pull end before the last
  event, so that another follows; two processes overlap, one pull can be queued,
  one failure or stop, two tenants for a move. Three items are enough for a
  message before, with and after a call's correction, and both addresses of a person with the group.
- Numbers: two modules and two numbers are the fewest with a card, a route and an
  owner that differ; the liveness instance has two administrators, whose jobs cross.
- Sessions: three logins are a session, the one that replaces it and one that tries to
  replace either; two account requests exchange one token together; a tick is as
  long as a login may take and as a session may idle. The absolute end of a
  session is beyond the run's clock and is covered by the proof.
- Roles: the third press repeats one of two that crossed; two requestIds, so that one
  can be renewed. Directory: two instances, two days, two revisions, pages of one person.
- Codes: two numbers, the second of which is next when the first is verified; two tabs,
  each of which can hold a code of the same number; in `access` also a change of the numbers and ticks past the window.
- Actions: two changes are one and the next, which overtakes it or does not. In the group with
  the number's own message the roles stay: the module does not ask for them there.
- Account page: two fetches of one page, and a change from elsewhere between.
- Photos: the round and a fetch on demand of one process cross at one subject, as two
  processes would; two files are the old one and its replacement. What two first fetches
  leave is met with the same two.
- Organ page: two people are two memberships, one for the organ alone; two runs are an
  action and the details of another membership that come back meanwhile. A behaviour uses the
  form or the details, which share the list and the flag alone.
- Platform administrators: two administrators and one other person are the
  fewest with which a confirmation can be right, and two requests the fewest
  that can wait for each other.
- Offboarding: two requests race for the lock, one that has lost its session
  against one that takes it next; one grant can undo a step, or come after the
  part of the verification that reads it.

Most of these properties are proved for instances of any size as well (section 4).

`accept_two_requests`, `administration` and `access` use symmetry of
interchangeable requests, keys, messages or proposals, and the views of `access` and
`people` do not tell apart which of two like requests has come how far. The view of `inbound`
does not tell apart like processes or modules, nor which message of a chat waits where no
step asks, and takes all states of which `ShownAndNamed` says nothing, nor of what
comes after them, as one. None of these
checks a liveness property. The views leave out histories that no step reads (`revokedSince`
of `PlatformAdmin`, `visit` of a press) and the name typed on the account page, of which no property of their run speaks.
The composed runs and the findings set `CHECK_DEADLOCK FALSE`: all their parts really may stop, when
their bounds are used up or nobody can ask for anything any more (for example
everybody revoked and the command line's grant spent). A wait of two requests for each other is the
invariant `NoDeadlock`. The other runs check for deadlock.

### Fairness

- `KirimOutbox`: `module.ts` starts a worker round from a timer for as long as the
  process lives, and every call to the engine has a timeout of 15 s, so a step of
  a worker that can happen does (`WF_vars(WorkerStep(p))`), and time passes
  (`WF_vars(Tick)`). Nothing is assumed of the engine, of administrators or of
  callers. `Settles` rests on the code alone: expiry empties the queue.
- `KirimWebhooks`: the same of each sender's steps, whose post is given up after
  10 s, and of time.
- `KirimPull`: the timer's rounds and the steps of a pull (`PullFairness`);
  `KirimImport`: the steps of each process' rounds; `KirimGroups`: the refresh every
  15 minutes.
- `KirimNumbers`: the steps of a job that began, weakly, and the status refresh of
  each number, strongly (`NumbersFairness`): the timer asks every number in turn, although
  an administrator's job may be under way each time it is looked at.
- Failures and stops have no fairness and are bounded (`MaxStops`, `MaxFaults`,
  `MaxBreaks`, `MaxLost`): a process that stops in each round gets nothing done.
- The other modules state safety only and need no fairness.

## 4. The proofs

All theorems are for any values of the constants, under the named assumptions of
the modules, which TLC evaluates in the runs. "Typed" theorems say that every variable has its type; they
are part of each inductive invariant. Each module below has one such invariant, which TLC
was let check first, with one lemma for the actions that write the same rows.

| Theorem | States | Rests on |
| --- | --- | --- |
| `ExclusiveSend`, `BoundedAttempts`, `NothingMadeUp` | `SendExclusive`, `AttemptsBounded`, `ConfirmedWasSent` | `IInv` |
| `Implementation` | `KirimOutbox` implements `MessageLifecycle` | `IInv` |
| `RateOvershoot`, `RateOfOneWorker` | `RateShared`, `RateRespected` | `IInv`, `RateShared` |
| `AcceptedOnce`, `AnswersAreTrue`, `RetriesFindTheirMessage`, `OvershootBounded` | the properties of acceptance | rows and requests; `QuotaRoom` |
| `EventsInOrderOnce`, `AnswersAreFresh` | `AppliedInOrderOnce`, `FreshAnswers` | `PullInvariant` |
| `CardsReachable` | `CardsReach` | `CardsInvariant` |
| `KeyMakesOneGroup` | `OneGroupPerKey` | `GroupsInvariant` |
| `CrossingConfirmations`, `TwoAdministrators`, `AloneAddsNobody`, `DecisionsStand` | `NoDeadlock`, `FourEyes`, `DecidedForGood` | `Invariance` |
| `OneChatPerPerson`, `UnreadNeverTooMany` | `OneChat`, `UnreadCounts` | `ChatsInvariant` |
| `StoredIsShownAndNamed` | `ShownAndNamed` | `ActionsInvariant` |
| `PhotosStayOnDisk` | `PhotosOnDisk` | `PhotosInvariant` |
| `ImportExpandedOnce`, `ImportedIsWhole`, `ImportCopiedOnce` | a request is expanded once; a done chat has every message of the pages that are read; `CopiedOnce` | `ImportInvariant` |
| `TriesEnd`, `DeliveredForGood` | the bound of the tries, `SuccessStands` | `WebhookInv`, `HeldByOne` |
| `LockGivenUp`, `OffboardingCompletes` | the lock of an offboarding, `CompletedIsSound` | `Held`, `Verified` |
| `LoginHasOneSession`, `LatestTokenKept` | `OneSessionPerLogin`, `TokenKept` | `SessionsInvariant` |
| `FiveCodesPerHour`, `NumbersAreProved` | `FiveCodesAnHour`, `NumberProved` | `CodesInvariant` |
| `TrustHasBeenEarned` | `TrustIsEarned` | `TrustInvariant` |
| `ToldIsTrue` | `ToldWhatHappened` | `RolesInvariant` |
| `PagesComplete`, `CopyMovesForward` | `PagesOfOneVersion`, `DirectoryMovesForward` | `DirectoryInvariant` |
| `CardsAreTheirOwn` | `CardsAreOnesOwn` | `PortalInvariant` |
| `SecondFactorAsked`, `PathBActsOnItsOwn` | `MembersNeedTotp`, `ActsOnItsOwn` | `MembersInvariant` |
| `SaidIsShown` | `SaidAndShown` | `AccountInvariant` |
| `EndsOnlyWhatWasShown` | `EndsWhatWasShown` | `OrganPageInvariant` |

`KirimOutboxProofs`. The assumption that matters is `LeaseAssumption`: a live
process takes less than a lease from its claim to its result. The code has a lease of 60 s
(`worker.ts:10`) over an upload and a send that time out after 15 s each. The
inductive invariant `IInv` is `TypeOK /\ Held /\ Rows`. Exclusion alone is not
inductive: a row that some process holds is not due before that process'
deadline, or has left the queue since and may have come back through a retry with
attempts reset (`Held`). `Rows` says what a status tells about attempts and
hand-over. That the engine sends a key once is what is assumed of it and is no
theorem. With several processes the
rate does not hold, since each reads it before its claim; `RateOvershoot` says what does: for a finite
number of processes, what a number handed over in a rolling minute, with the
processes that have passed the rate check and not stored their result
(`OnTheirWay`), stays below the rate plus the number of processes. So n processes overshoot
by at most n - 1 messages, and one does not overshoot at all. The counting is in a
few lemmas on cardinalities.

`KirimAcceptProofs`. The first theorems need the rows and
the requests only. The bound of the overshoot needs an invariant that counts:
the automatic messages of today, with the requests that have passed the quota
check and not yet inserted, are at most the quota and one less than the requests
under way (`QuotaRoom`), because a request passes the check only while the
messages stored leave room, and each of the others can have passed it at most once.

`KirimInboundProofs`. Of the pulls, that events take effect in order is not
inductive: `Reading` says that no pull is past the first event that has not taken
effect, although another pull may have passed it meanwhile, and `Asked` that
the pull a caller was given will have read what that caller could see (the
reason of `JoinRunning`'s guard). `CardsReach` is inductive with the types.
`OneGroupPerKey` needs who holds the key: at most one creation has a reservation, and as long
as every answer of the engine was heard a group that was made keeps its own
(`OneKey`, `Heard`). `ImportInv` says where a round may be of a chat: never further than what is
copied (`RoundIs`), and where only one process is at the chat exactly there when it stores a message, which
is why nothing is stored twice unless two were there (`CrossingsSeen`). For the webhooks, `TriesLeft` holds of any number of processes: a row that is open has a
try left, and so had each row of a claim. `DeliveredForGood` needs that an event is held by one
round, is open and has not come due, until its lease is over (`HeldByOne`); from then on it is in
`outlived`, whatever the lengths of posts, batches and leases are. So it speaks of the source's own numbers and
of any number of processes, and says what it does not cover: an event that a round holds past its lease. Of the backoff the prover knows only that it
is an integer; that `dueIn` is natural stays with TLC.

`KirimChatProofs`. `OneChat` needs that the chat of the last event with both
addresses knows both (`HomeKnows`); `UnreadCounts` is inductive with the ranges of what waits (`WaitingIs`): each step changes the
count and the set of what waits, or was overtaken, by the same item, with lemmas on how a set of items changes by one.
`ActionsInv` has two parts. Types and who may change what hold always; while no two changes are
tangled and none was misjudged, one is on its way at a time (`OneAtATime`) and it is the one WhatsApp shows
(`Latest`), and what is stored is what WhatsApp shows or its event is still to come (`Follows`), with the
same of the name unless a request was dropped (`NameFollows`). `PhotosInv` says whose a file
is: one in the hand of a fetch is no row's and no other fetch's (`FetchIs`), so that its
removal takes nothing from a row (`RowIs`), and a file in nobody's hand is in a row or lost (`FileKept`).

`PlatformAdminProofs`. The invariant `Inv`
says which rows a request has locked at each step (`Locking`, `InOrder`), that
no two requests have one row (`RowsExclusive`, `ProposalsExclusive`), and that
what a request has read of a locked row is still so (`SeenTrue`). The absence
of deadlocks follows from the order of the locks: of two requests, the one that
waits for a row has only rows before it.

`AccessProofs`. Of an offboarding the invariant says that while a request has the lock it is in
its offboarding, and from its begin on the operation is not completed (`Held`);
and that what a final verification has read, and is active now, was given after
it began (`Verified`). Of the sessions, `Owned` says whose a session and the token in it are, and that a
login which has a session is over. `TokenKept` is not inductive where tokens are used once: a request
may hold a token that another has used up. `Latest` says that no token in a row or a
request is newer than Keycloak's, and that of the requests of one session at most one
is about to store a token, which is the newest, while the row and all others have older ones.
Where tokens can be used again every token is accepted and nothing more is needed. For the codes, `LimitInv` counts the two logs of
an account from their ends: all but the last five entries of the counter are old (`Bounded`), and what
left is, as far as it is of the window, no later than what was counted in the same place (`Covered`).
`NotesInv` says that a code that is out went to what a right answer would mark, unless the
account's numbers have changed since, or the number it went to is verified already
(`Meant`); what is verified in one tab keeps this for the codes of the others (`FirstStays`, `StillMeant`). `TrustInv` needs nothing of the attribute that two requests
may overwrite: what a device holds is itself a proof of the credentials its OTP was entered with, and of the
day.

`HcisProofs`. `Flights` says that a change on its way belongs to a press that
waits, or that gave up and was told "unknown", and that HCIS carries each
requestId out once; `SaysTrue` that what SQ Hub passes on is what HCIS said. For the
directory `HoldsLock` says that whoever pulls under the lock knows the copy as
it is, and `Edits` that its answer is at least as late; the pages need the
invariant `Pages` on what a reader passed, with lemmas on least and greatest
members of finite sets, since a page is given by its last person. For the portal
`CacheIs` and `PageIs` carry, from the application's answer over the cache to the page, whose a
summary is and when it was made.

`AccountProofs`. `MembersInv` says for each point of a request what it has seen to
already (`Rightful`), and that this stays so while others move; `AccountInv` that
a notice and each fetch are of a change no later than what the page will show next.
`OrganPageInv` says that a run whose component is still there is of the membership that is shown (`RunIs`),
which the guard `mounted` of its answers then keeps (`OfOne`).

Every safety property of the passing runs is stated by one of these theorems. What only TLC checks:

- Liveness (`Settles`, `SettlesForGood`, `EventsArrive`, `StoredImportsEnd`,
  `StatusCatchesUp`, `GroupsCatchUp`): the prover has no rules for fairness that
  would carry these, and ENABLED is out of its reach.
- The findings: TLC shows that a statement does not hold.
- That the views and symmetries of the runs are sound: an argument, given in section 3.

## 5. Abstractions and what the models also show

- Time is counted in ticks; that of the queue stops at `MaxNow`, and a row is
  accepted only when it expires before that.
- `FOR UPDATE SKIP LOCKED` is not visible: a transaction is one action, so a
  locked row is never met. The claim's `LIMIT 20` is left out, as is the limit of
  `expireDue`; both only matter with more rows than that. Row locks are modelled
  in `PlatformAdmin`, where transactions have several steps.
- The random gap between two sends of a process is the choice between
  `CheckRate` and `SkipDevice`.
- The engine may answer anything; it answers yes only for a key it has sent. A
  refusal may leave the request with the engine.
- Text, media and mentions are left out; a row whose media is gone is rejected
  by `RejectLocally`.
- One consumer in `KirimAccept`, one person in `StaffAccess`: others share no state
  but the opt-outs.
- `KirimPull`, `KirimChats` and `KirimActions` split what one event does: the first
  has its order, the second the chat it is stored in, the third the message it
  changes. An event's effect is atomic in all three, as its transaction is.
- Every constant whose name begins with `Max` bounds what would make the state
  infinite; each is named in its module's head.
- The audit is written in the transaction of the change, or before and after a
  remote one, and is left out.

### What the models also show

Some behaviours are deliberate, or contradict no sentence of the repository, and
have no run of their own:

- a row that is cancelled, or expires, while a process is sending it is sent all
  the same; its later status is the cancelled or failed one;
- n processes may exceed the rate of a number by n - 1 messages (`RateOvershoot`);
- a receipt that overtakes the send's own result is never applied (`DeliveryShown`,
  `KirimOutbox`), an officer's reply uses the quota of automatic messages
  (`RepliesKeepQuota`), an opt-out does not stop what is queued
  (`OptoutStopsMessages`, both `KirimAccept`), a webhook process that outlives its lease
  stores its failure over the other's success, and the event is posted again
  (`SuccessStands` without `outlived`), and a proposal that outlived a grant and a revocation reactivates its
  person (`ReactivationNeedsNewProposal`, `PlatformAdmin`): TLC finds each of these statements violated;
- racing requests exceed a quota by fewer messages than there are requests;
- a process that stops during a webhook post leaves that post uncounted, so an
  event may be posted once more for each stop;
- the end of a membership reads that its person is no employee, and then disables
  the Akun SQ although a provision has linked the person in between;
- an HCIS invitation reads that access was never granted, and then grants it
  although it was granted and revoked in between;
- what is given after the part of a final verification that reads it survives a
  completed offboarding.
- overlapping edits of one message can leave the stored text another than
  WhatsApp's; the echo of a first quick edit, come late, records the second as made
  on the phone; a process that stops after the engine took a change leaves it without an
  officer's name; a group administrator's delete of the number's own
  message is not applied (`ingest.ts:668`), although a comment there says it may be, and of another
  member's message it is judged by the roles of the last refresh;
- a call that is logged after something as late as its beginning was read counts as unread
  even when it turns out to have been answered, until the chat is read again;
- two processes that import one chat at once may store a message twice, and a
  message that is imported and then pulled gets a second row; a chat of which the engine has more than
  10,000 messages is marked done without the newest;
- a disconnection logs the engine's session out after a check without a lock; a
  reconnection picks its tenant before the engine is called;
- an engine answer that is lost releases the reservation and its key, so a repeated
  creation makes a second group; a stop after the reservation leaves the key in
  progress; answers of two edits are stored in reverse until the next refresh, and a
  refresh begun earlier marks a group just created as left;
- when a device's session is ended at Akun SQ, the Hub session of that device lives
  on until its own end;
- a member may take the own second factor off; a stop between the creation of
  an organ identity and its audit row leaves the e-mail in use; the setting of
  required actions reads and writes the list, and may bring back one that was done;
  a provision that stopped before its last step is refused as a duplicate later;
- a number that was changed between the sending and the entry of its code is
  marked verified by the code of the old one (that this also happens without a change,
  with two tabs, is the finding `two_tabs_one_code`);
- two requests of trusted devices that read the attribute together can bring a used
  record back;
- two first fetches of one contact's photo, by the round and on demand or by two processes, leave
  the file of one of them for good, because a row that is not there is locked by no
  `SELECT ... FOR UPDATE`; so does a removal that fails, and a stop (`lost`), although
  `service.ts:414` says that a replaced photo leaves no file behind;
- on the page Organ Yayasan the first of several runs to end clears the flag that says
  the page is busy, and the buttons can be pressed again while the others are under way;
- on the account page an older load's answer may overwrite a newer one when two
  changes were pressed at once, an error notice may be overwritten by a success, and a
  quiet reload that fails shows an error although the change is done.

## 6. What is not modelled

`PROJECT.json` lists every component and every hazard, with the reason where no
property covers it. Not modelled: the HTTP layer, configuration, encryption,
deployment and the Keycloak themes, which hold no rule of their own; of Kirim, the
content of messages, media, group settings, invite links and pictures, and the
registration of a consumer (`service.ts:102`, which an advisory lock serialises); of the Hub, listings and searches; of the providers, sign-in by NIK or
number and registration; of the web application, the pages that only show what the API answers.

## 7. What is left to do

- A refinement of an abstract log of events by `KirimPull`, whose invariant has
  what its steps need.
- That a webhook's success stands without exception would need the outcome of a post to be stored
  only where the lease is still the process' own; until the code does that, it does not hold.
- Imports beside live events: the message that is imported and pulled at once is not modelled, nor are an
  import from the phone and one from the stored copy of one chat.
- Members of a group under two WhatsApp identities, of which the roles know one.
- Media, invite links and group settings of Kirim, and the sign-in and registration of the Keycloak provider,
  are the largest parts with rules of their own that no module has.
