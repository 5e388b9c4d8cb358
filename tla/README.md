# A verification development for JackTheButler

JackTheButler is a hotel's AI butler: guests write over WhatsApp, SMS, Telegram
or a web chat; a pipeline of stages identifies the guest, translates,
classifies, verifies bookings against the property management system (PMS),
answers with an AI model and routes requests to staff as tasks; staff watch and
take part through a dashboard.  This directory holds TLA+ models of the parts
of that program whose correctness depends on the order in which things happen,
the TLC configurations that check them, and TLAPS proofs.

Paths below are relative to the repository root (`src/` in `PROJECT.json` is
that root).

## 1. How the program runs, and what one action is

The backend is one Node.js process over SQLite through `better-sqlite3`, a
synchronous driver (`src/db/index.ts`, lines 28-66).  `await db.select()...`
therefore resolves in a microtask: a chain of awaits that only touches the
database runs to its end before any timer, socket or other request is served.
Handlers interleave only where one of them waits for real I/O:

* an AI call (language detection, translation, classification, extraction,
  generation, embedding);
* a PMS adapter call;
* a channel call (sending, the WhatsApp read receipt);
* password hashing and token signing, and the first dynamic `import()` of a
  module.

So **one action is everything between two such waits**, with all the database
writes and synchronous events in it, and a handler's program counter names the
I/O it is waiting for.  Two things follow that the models use everywhere: a
read-modify-write of a row inside one action is safe, and one that spans a wait
works on a snapshot.  Where several handlers are started in the same turn of
the event loop (several WebSocket frames read at once) their microtasks can
interleave more finely; that is not modelled.

The event bus (`src/events/index.ts`) is an in-process `EventEmitter`:
subscribers run synchronously inside the emitting action, and a restart loses
what they had not finished.  Errors of the database itself are not modelled.

## 2. Inventory

| Component | State it keeps | Operations | Talks to | What makes it correct |
|---|---|---|---|---|
| Message pipeline (`src/pipeline`, `packages/pipeline`) | a context per run | the stages, in order; failure path | AI, PMS, conversation rows | a message is saved once, answered at most once and after it was saved; every run ends |
| Conversations (`src/services/conversation.ts`) | `conversations`, `messages` | findOrCreate, update, addMessage, moveMessages | pipeline, staff, web chat, idle job | a written-to conversation is open; links change only when a booking says so |
| Channel webhooks (`src/gateway/routes/webhooks`) | none | acknowledge, handle later, send, apologise | pipeline, channel APIs | an acknowledged message is answered or apologised for; replies in order |
| Staff routes (`src/gateway/routes/conversations.ts`) | none | set the state, reply | conversations, channels | a reply is in the history before it is sent |
| Guest verification (`src/services/verification.ts`, `check-verification.ts`) | `metadata.verification` | collect credentials, look up, link | PMS | the cap on failed attempts holds; credentials add up over messages |
| Scheduler (`src/scheduler/index.ts`) | timers, `isRunning`, `lastSyncTime` | idle timeout, PMS sync, session cleanup, log retention | conversations, PMS sync | no job overlaps itself; quiet conversations close; no change is missed by the sync |
| Web chat (`src/apps/channels/webchat`, `src/services/webchat-*.ts`) | `webchat_sessions`, sockets | connect, message, verify, restore, clean up | pipeline, conversations, PMS | a verified guest finds the earlier conversation again |
| Tasks (`src/services/task.ts`) | `tasks` | create, claim, update, complete, reopen | staff, pipeline | status, assignee and timestamps agree |
| PMS synchronisation (`src/services/pms-sync.ts`) | `guests`, `reservations`, pending refreshes | sync, webhook upsert, refresh when stale | PMS, scheduler, guest context | the copy converges; transitions are announced once |
| Guest memory (`src/services/memory*.ts`) | `guest_memories` | extract on close, insert without duplicates, backfill embeddings | AI, conversations | no duplicate facts, nothing lost between extraction and insert |
| App registry (`src/apps`) | `app_configs`, app instances | save, toggle, delete, test, load at start | every adapter user, setup wizard | what runs is what is stored; 'connected' means that this configuration was checked |
| Authentication (`src/auth`, `src/gateway/routes/auth.ts`) | tokens, verification links, settings | log in, refresh, register, verify the email | staff | nobody is signed in before approval; sessions catch up with the account |
| Staff and roles (`src/services/staff.ts`) | `staff` | create, update, deactivate, activate, approve, reject, delete | authentication, setup wizard | an administrator remains; nobody approved and verified stays locked out; a deactivation stands |
| Dashboard WebSocket (`src/gateway/websocket*.ts`) | sockets | subscribe, heartbeat, broadcast | event bus | no dead socket stays registered |
| Setup wizard (`src/services/setup.ts`, `apps/dashboard/src/features/setup`) | `setup_state`, what a tab shows | the steps, skip, resume | apps, staff, knowledge | there is one way to sign in; questions come in order; a completed setup stays completed |
| Knowledge and site scraper | `knowledge_base`, jobs | scrape, import, embed | AI | text processing; not a protocol |

Hard behaviours: overlapping handlers of one conversation (nothing serialises
them), a staff member or a timer writing the same row between two waits of a
handler, failing AI, PMS and channel calls, a crash between acknowledgement and
answer, and work computed from a snapshot that is stale when it is written.
`PROJECT.json` lists each hazard at its line with the properties that cover it.

## 3. Modules

| Module | Models |
|---|---|
| `Conversation` | one row of `conversations` and what `ConversationService`, the verification stage and the idle query do to it: an operator per write |
| `MessagePipeline` | the message path as a state machine: webhook, stages, channel send, staff, idle job, crash; extends `Conversation` |
| `ThreadContract` | abstract: what the message path promises about a conversation's history |
| `PipelineRefinement` | the refinement mapping from `MessagePipeline` to `ThreadContract` |
| `WebChatSession` | one row of `webchat_sessions` and what `WebChatSessionService` does to it |
| `WebChat` | sockets, guest messages, verification forms, the restore, staff replies, expiry and cleanup; extends `WebChatSession` |
| `PmsSync` | the local copy of the PMS: sync job, manual sync, webhooks, refresh, lookups |
| `SetupWizard` | the wizard end to end: browser tabs, calls in flight, the routes' guard, the server's steps, the takeover of the seeded administrator |
| `StaffAccounts` | staff accounts and sessions: login, refresh, registration, verification, approval, and what administrators change |
| `Apps` | the stored configuration of the apps, what of them runs, and the checks of their connection |
| `MCMessagePipeline`, `MCWebChat`, `MCPmsSync`, `MCSetupWizard`, `MCStaffAccounts`, `MCApps` | TLC instances |
| `MessagePipeline_proofs`, `ThreadContract_proofs`, `WebChat_proofs`, `WebChatHistory_proofs`, `PmsSync_proofs`, `SetupWizard_proofs`, `StaffAccounts_proofs`, `Apps_proofs` | TLAPS proofs |

Definitions named after another one with a suffix (`Touch_KeepsExpiry`,
`MayVerify_CapPlusOne`, ...) are plausible bugs of the code that definition
models.  No specification uses them; each is there to show that a property
notices (`mutants` in `PROJECT.json`).

### The message path

`pc[m]` is the wait message `m`'s handler is in:

    unsent -> accepted -> detecting [-> translatingIn] -> classifying
           [-> extracting [-> lookingUp]] -> generating [-> translatingOut]
           -> sending -> answered

with `apologising`, `apologised`, `undelivered` for the failure path of the
webhooks, `dropped` for a WhatsApp message whose read receipt fails and `lost`
for a crash.  `ctx[m]` is what a run carries across waits: the guest it
resolved, its snapshot of `metadata.verification`, the language.  `conv[c]` is
the most recent row of a channel address (`findOrCreate` reads only that one),
`thread[c]` its rows in `messages`, `delivered[c]` what the guest's device got.
A row's timestamps matter only to the idle job, so a stamp is
`null`, `fresh` or `old` (past the four-hour cutoff).

Named abstractions: AI answers are any member of small sets, a low-confidence
classification is the intent `chat`; the PMS lookup answers with any guest or
fails; all messages of a channel kind behave like WhatsApp (phone, read
receipt), and an address that names nobody stands for Telegram and web chat.
Language detection may fail: a staff reply to a guest whose language is unknown
is then translated or not, since the code falls back to English, which may be
the property's language.
Not modelled here: the PATCH of assignment, intent and metadata; redelivered
webhooks (each is one more message); delivery-status callbacks, which update no
row because messages are saved without a channel id
(`src/pipeline/adapters.ts`, lines 94-98).

### The web chat

A session's conversation is named by the session that opened it, because the
pipeline finds a web-chat conversation by `channelId = session id`; a session
that was restored is *linked* to another session's conversation
(`session[s].conversation`).  `recent` orders the conversations by `updatedAt`,
as pairs "no later than" (what `findByGuestAndChannel` sorts on), `thread` holds what was saved where.
A guest message waits three times at most for what matters here: before it is
saved (`thinking`), after (`saved`), and after a booking lookup in the chat
matched (`verified`).  A verification form (`Requests`) is a slot a guest uses
again and again; `reqPc` is the method it waits on, `reqConv` the conversation
of the session row that `execute()` read before the wait and writes the result
to after it.  Instants are days: `AnonymousTTL`, `PreArrivalTTL` and
`CheckoutBuffer` keep the order of 24 hours, 7 days and 24 hours.

Left out: rate limits on connections and messages and the limit of codes per
address (any code request may be refused), the widget key and origin checks,
locale, broadcasts other than staff replies.

### The PMS synchronisation

A booking is the sequence of its revisions in the PMS (`history`); an answer or
a webhook names the revision that was current when it was made.  A revision has
what `upsertReservation` compares (`status`, and `stay` for room and dates) and
what it only writes along (`details`).  A reservation without a room
(`Roomless`) always counts as changed: its room is null in the row and undefined
in the answer.  A notice also has a status of its own (`says`): an event of a
cancellation, check-in or check-out is stored with the status it stands for,
whatever the reservation in it says (`Said`, `processEventWebhook`).  Instants are not kept: `sinceSync` is the set of bookings changed
since `lastSyncTime`, `lastDay` the set changed within the 24 hours that are the
window without one, and a row is stale or not.  `fetched`, `refresh` and
`lookup` are answers not yet stored.  `configured` says whether a PMS app is
active, `scheduled` whether one was when the scheduler started.

`missed` is a history variable: why a change is in no later window -- an answer
made before the change was stored after it (`overlap`), its record could not be
stored (`error`), an event gave it a status its reservation does not have
(`event`), or there was no app or no successful sync in time (`outage`).
The PMS, the network and the app's administrator are external.

Left out: guest records and their matching (`upsertGuest`), the check-in and
check-out events an upsert emits, the providers' parsing and paging.

### The setup wizard

`tab[t].at` is the step a browser tab shows (`SetupAssistant.tsx`,
`useSetupSteps.ts`) and `tab[t].found` its checklist; `closed`, `loading`,
`at_login` and `login` are the pages around the wizard.  A call in flight is a
slot of `call`: what it asks for (`op`), where it is (`sent` before the routes'
guard, `admitted` after it, `working` and `hashing` while the server waits for
an AI provider, a scraped site or a password hash, `taking_over`, `answered`),
whether a tab still waits for it (`live`), and what the closure that sent it
held (`found`, `saw`, `entries`).  The tab goes on when the answer arrives, with
the values of the closure and not those it shows by then; only the inputs the
code disables while it waits are disabled.  A broken connection or a reload
makes a call nobody's; the server carries it on.  `row` is `setup_state`,
`admins` and `defaultAdmin` are the accounts that can sign in.  `knowledge` is
the categories with an entry that search can find, one with its embedding.  An
import stores any part of the entries it is sent: without an embedding provider
it refuses all of them, an entry whose title is taken in any category is
skipped, and one that fails is logged and left; the tab counts all of them as
found (`importKnowledge` does not look at the answer).  `finished` and
`turnedAway` (the categories of such entries) are history variables.

Left out: `POST /reset` (refused in production), the hotel profile and its
synchronisation, the AI's reading of free-text answers, the normalisation of
email addresses (an email is a value), wording and languages.

### Staff accounts

`account[a]` is the row of one email address, `link[a]` whether a verification
link works, `overdue[a]` whether its grace period is over, `policy` the two
settings that decide about a registration.  A session is what its tokens
claim: `access[a]` the roles claimed by access tokens that have not expired,
`refreshable[a]` whether there is a refresh token; `requireAuth` looks nothing
up, so an action of an administrator asks only for such a token.  What a token
claims is what the role and the row's own permissions allow (`Power`,
`getUserPermissions`): the wizard gives its administrator the wildcard in the
row, where nothing takes it away, so the founder is an administrator in every
token whatever its role has become.  A request
waits while a password is hashed or compared, an email is sent or tokens are
signed, and uses after the wait what it read before.  `benched` and `bypassed`
are history variables: an administrator deactivated the account last, and a
PATCH (which the code does not count) took an administrator away or made one of
an account that is not approved.

Left out: passwords and reset links, the editing of roles and of what they
permit, `registrationEnabled` (registration may come at any time), another
default role than staff, an email registered again after its account was
deleted, references that keep an account from being deleted.  `refresh` does
not look at the grace period, and neither does the model.

### Apps

`row[a]` is the row of `app_configs`, `running[a]` the configuration the active
instance was created with.  Only the check of a connection waits; it is of the
instance it began with, and its result is written to whatever row there is when
it arrives.  `left`, `passed` and `foreign` are history variables: it runs
because of a test or a save of a disabled row, which configurations passed a
check, and whether the status shown is of another configuration.

Left out: the web chat channel's own activation at start, the log, the fields a
form masks one by one (a masked form keeps what is stored), the choice of the
channel and the PMS among active apps.

## 4. Runs

| Run | Configuration | Shows |
|---|---|---|
| `pipeline_phone` | 3 interchangeable messages of a phone guest, at most 2 in flight, 2 guests, cap 2 | types; tasks that need an identity stay on linked conversations; the stored attempt count never passes the cap; a linked conversation changes guest only by a booking lookup; the idle job spares a conversation whose saved message is being answered |
| `pipeline_thread` | 2 messages and a staff reply, 1 crash, fairness | what is delivered was saved, and arrives once though a failing send may have delivered; a task leads to the saved message that raised it; no handler goes back to a wait it has passed; the pipeline implements `ThreadContract`; accepted messages settle; quiet conversations close, except in 'new' |
| `webchat_restore` | 2 browsers with a message and a booking form each, 1 crash | types; moving messages between conversations while one is being answered loses and duplicates none; a session is moved only to a conversation of its own guest, and leaves it only when a message of its own is answered or it verifies again |
| `webchat_session` | 1 browser, 2 bookings of 2 guests, 2 forms at a time by every method, 5 days, a message and a staff reply, fairness | the cap on attempts is passed by no more than what was under way; the cleanup spares active sessions; nothing shortens the stay-long validity; a session verified during the stay is admitted on every day of it; expired rows go |
| `pms_sync` | 1 booking, 3 revisions of two contents that differ in every part, a webhook or event at a time, job and manual sync, 1 restart, app off and on | types; a lagging copy is in the next window or excused by name; a copy is never a mix of two revisions; a refresh is as current as its question |
| `setup` | 2 interchangeable tabs, 2 calls at a time, 2 loads, 1 broken connection, one required category, one email | types; one way in; questions in order; a completed checklist is covered by what was imported or turned away; the end is shown only with an administrator behind it; only a request that was in the door reopens a completed setup |
| `accounts` | the founder and one more account, 2 settings, a request at a time, fairness | types; nobody signed in before approval; nobody stranded; an administrator remains; sessions catch up; a deactivated account comes back without an administrator only by the first verification of its email |
| `apps` | the local AI and OpenAI, a right, a wrong and a blank configuration, 2 interchangeable checks at a time | types; the registry runs what a restart would start; 'connected' was checked |
| `restore_undone`, `setup_resume`, `deactivation_undone`, `cloud_completes` | violations | one documented claim each that the code does not keep (section 6) |

Bounds.  Two overlapping handlers are enough for every pairwise race of the
message path and of the forms; a third message is there for a count that must
exceed a cap of two.  `MaxInFlight` bounds what one guest has outstanding and
`MaxCrashes` the crashes.  In the web chat two sessions are what a restore
needs, `MaxDay = 5` covers an anonymous day, two stays and the buffers around
them, and form slots are used again, so attempts are not bounded by them.
Bookings of the PMS do not interact, so one is enough; three revisions let an
old answer overwrite a newer one that had overwritten the first.
`MaxWebhooks` and `MaxSwitches` bound the notifications under way at once and
the switches of the app.  In the wizard two tabs with two calls between them are
what a step done twice, a takeover during a hash and a stale closure need; a
load per tab and a broken connection leave calls without a tab.  Two accounts
let administrators remove each other, and one request at a time is enough there
because the race is with the administrators' actions, which do not wait; the
proofs hold for any number.  A second check of an app is there for a result
that arrives after another one's.  `pipeline_thread` has no phone guest, so no
booking lookup: liveness is checked for the waits it has, and the lookup is one
more wait of the same kind.  There a guest's language is foreign, or is not
detected when the call fails; in `pipeline_phone` it is never detected, so a
staff reply there is translated or not.  Staff set 'new', 'escalated' and
'resolved' in `pipeline_thread`: 'new' is the one state of the dashboard the
idle query leaves out, and 'active' and 'closed', which they could set too,
occur without them, as the state a row is opened in and the one the idle job
leaves.  With all five `PatchableStates` the run passes as well (428,000
distinct states, twice as long).  The first booking of
`webchat_session` begins on day 0, 1 or 2, so that a guest verifies before,
during or after a stay, and the second one later.  The PMS run has two
contents (`MCRevisions`) that differ in status, room and details, so that a
mixture of them shows; the proofs hold for any.  Deadlock checking is off, except for the apps: the
finite supply of messages, replies, revisions, days and loads runs out, and a
table whose only administrator signs in no more may rest.

Fairness.  `WF(Handle(m))` for each message: the provider clients answer or
throw, so the wait ends one way or the other, and TLC checks all of them.
`WF(IdleTimeout)` and `WF(Cleanup)`: interval timers.  `WF(Server(c))` and
`WF(Arrives(c))`: the setup server answers and the answer arrives.  `WF(Goes(r))`: hashing and signing end.  `WF(AccessExpires)` and
`WF(RefreshExpires)`: tokens expire after 15 minutes and after a day (30 days
when remembered), whatever else happens.  Staff, guests, operators, crashes and
the passage of time are otherwise not fair.  `FourHoursPass`, `NextDay` and
`DayPasses` assume that no outstanding call lasts that long.

## 5. Proofs

`MessagePipeline_proofs` proves for every value of the constants:

* `TypeCorrect`: `Spec => []TypeOK`;
* `AttemptsStayBounded`: `Spec => []AttemptsBound`.  The property is not
  inductive: the count is written from a run's snapshot.  The invariant adds
  that every snapshot is within the cap and that a run that is extracting or
  looking up started below it.
* `OnlyLookupsRelink`, `TasksKeepTheirGuest` and `IdleSpares`
  (`RelinkOnlyByLookup`, `IdentityTasksLinked`, `IdleSparesAnswering`).
  `RowsStep` says what a step may do to a row that is there: keep its guest and
  its fresh stamp, age while nothing is outstanding, or relink it by a lookup.
  With it, `Linked` (a run that knows the guest is on a linked conversation)
  and `Fresh` (a run past its save is on a fresh one) are inductive.
* `WhatWasSentIsSaved`: `Spec => []SentWasSaved`, from `OnRecord`, which adds
  the replies that are on their way.
* `PipelineKeepsContract`: `Spec => KeepsContract`, the refinement of
  `ThreadContract`.  `Told` says that an answer or a staff reply is saved only
  by the step that puts it on its way; then every save maps to `Record`,
  `Answer` or `StaffWrites` (`InboundIsRecorded`, `OutboundIsAnswer`,
  `StaffReplyIsWritten`) and every other step to `Abandon` or a stutter
  (`UnsavedStep`).
* `HandlersGoForward` (`HandlersAdvance`): every step that moves a handler raises
  the `Rank` of its wait and keeps a handler past its save there (`Onward`).
* `TasksAreTraceable` (`TasksTraceable`): `Traced` says that a message past its
  save is in the history of its conversation, and that the message a task names
  is past its classification and wrote on the task's channel, which is what
  keeps it from raising another one.
* `NothingReceivedTwice` (`ReceivedOnce`): `Received` says that a reply on a
  guest's device is past its send, so the send that would repeat it is over; a
  send that fails after delivering has gone to the failure path, which does not
  send the reply again.
* `HistorySaysOnce`, `HistoryAnswersFollow` and `AnswersReceivedHaveQuestions`:
  the theorems of the contract, instantiated with the refinement mapping, speak
  of the rows in `messages`; with `SentWasSaved` they also speak of what the
  guest received.

`ThreadContract_proofs` proves `NothingSaidTwice` and `AnswersComeAfter` of the
abstract contract, under the hypothesis `Addressed` that every message and
reply has a conversation.  The invariant `TInv` ties every line of a
conversation to the phase of the exchange it belongs to: a guest line means the
exchange has left `open`, an answer means `answered`, so a line about to be
written is not there yet.  No run checks the contract by itself; that the
pipeline implements it is checked by the run `pipeline_thread` and proved by
`PipelineKeepsContract`.

`PmsSync_proofs` proves `PmsTypeCorrect` and `SafetyNet`
(`Spec => []MissedKnowingly`).  The property speaks of the next window, which is
`sinceSync` or, after a restart, `lastDay`.  The invariant splits this: `Net`
says that a copy that lags changed since `lastSyncTime` or is excused, whatever
the window is, and `Fallback` that without a `lastSyncTime` every such change
is in `lastDay` or is excused.  `InHistory` and `Changed` say that every
answer under way is a revision of the booking it names and that a sync holds
one answer per booking, which is what makes a stored answer either the current
revision or an overwritten one (`StoringKeepsNet`, `StoreStep`).
It also proves `RefreshesAreCurrent` (`Spec => RefreshIsCurrent`): the answer a
refresh stores was current while the refresh was under way.  The invariant's
part `Timely` says that an answer under way is no older than the booking was
when the refresh began.
An event may store a status its reservation does not have; `WebhookStep` excuses
the booking then (`StoringKeepsNet`).
`CopiesAreWhole` (`Spec => []CopyIsOneRevision`) proves that room, dates and
details of a copied reservation are those of one revision the PMS had, and the
status too unless an event gave it, although an upsert that finds nothing
changed writes nothing: by `InHistory` every snapshot names a revision, `Told`
says that a notice says its status or an event's, and `UpsertCopies` that an
upsert writes all of what it is given or only clears the stale mark.

`WebChat_proofs` proves `AttemptsStayWithinOverlap`
(`Spec => []AttemptsWithinOverlap`).  The attempts are checked before the PMS
call and counted after it, so the bound alone is not inductive: several forms
may have passed the check.  `AInv` counts a form under way as an attempt already:
attempts plus the forms of the session under way stay below the cap plus the
forms of the session.  A form that starts needs an idle one
(`IdleFormLeavesRoom`), an answered one moves its unit from the second term to
the first (`AnswerStep`), and a restart only loses units (`CrashStep`).
`RowWrites` and `MarkKeeps` say that no other write raises the count or revives a
deleted row.

`WebChatHistory_proofs` proves `TypesHold`, `NoMessageIsLost`
(`Spec => []MessagesKept`), `RestoresAreOwn`, `RestoresLeaveByReply`,
`CleanupIsPatient`, `StayIsKept` and `StaysAreCovered`
(`Spec => []ValidThroughStay`).  That a message is in exactly one conversation is not inductive by
itself: an answer could already be somewhere before it is saved.  `Traced` says
for each stage of a message which of its two lines are nowhere yet and which
are in one place, and `MovePreserves` that moving a conversation's messages
changes neither.  The four action properties follow from `Rewritten`, which
lists what a step may do to a session's row: nothing that matters (`Quiet`),
delete it once expired, link it to its own conversation, or verify it
(`Verifies`, which uses that `PreviousOf` finds only conversations of the guest).
`Timed` ties an
anonymous row's expiry to its last activity, and says that a verified row
expires either after the check-out or less than `PreArrivalTTL` after the
check-in; in the second case it was verified before the arrival.

`SetupWizard_proofs` proves `SetupTypeCorrect`, `AlwaysOneWayIn`,
`QuestionsInOrder`, `KnowledgeIsComplete` and `ReopenedOnlyByAdmitted`.  What a
tab asks depends on an answer, which depends on a call, which depends on what a
tab showed when it was sent; so the invariant says of every call in flight what
it vouches for.  `CallSound` says which of its found categories have a
findable entry or were turned away, or will be when its own entries are
imported, and, as long as setup was
never completed, that the question it belongs to and the one its answer leads to
were asked in order (`Vouched`).  `Grows` is why other calls keep their vouchers:
no step of the server takes back what is stored.  `ServerStep`, `ClientStep` and
`SendsStep` then carry each action.
`EndHasAnAdministrator` (`CompleteMeansAdmin`) is a second induction on top of
that one: `EndsWell` is the property for the tabs, `Credited` says of an answer
under way that would lead a tab there that the account exists, and `CrownStays`
that no step takes it away.

`StaffAccounts_proofs` proves `AccountsTypeCorrect`, `PendingHoldsNoToken`,
`ApprovedAndVerifiedIsActive` and `AnAdminRemains`.  An approval is never taken
back, so a request that read an approved row may sign tokens however long it
waited: `Cleared` says that whoever holds a token, or is about to be given one,
is approved or deleted by now.  `AdminsKept` adds to the property that no
pending account is an administrator, because rejecting one would take it away;
`NotLastLeavesOne` is the counting step of deactivation and deletion.
`DeactivatedReturnOnce` (`OnlyFirstVerificationReturns`) bounds what the finding
`deactivation_undone` can do: `LinksUnspent` says that a link that works belongs
to an account never verified, so verification can bring an account back once.

`Apps_proofs` proves `AppsTypeCorrect`, `RegistryMatchesTable` and
`ConnectedIsChecked`.  The three together are inductive; `OneApp` reduces every
action but the restart to the one app it writes.

Assumptions used: the bounds are natural numbers, the forms of the web chat and
the staff accounts are finite in number, the absent values are not
members of the sets they stand beside, and the addresses, phone guests and what
an app accepts are functions of the expected types (the `ASSUME`s of the
modules, evaluated by the runs).

Only model-checked: liveness (`AcceptedSettles`, `QuietConversationsClose`,
`ExpiredRowsGo`, `SessionsCatchUp`), because the prover has no rules for
fairness.

## 6. Findings

Four statements of the repository that the code does not keep; each has a
violation run whose trace is the scenario, and `PROJECT.json` quotes the
statement.

* `restore_undone`: the first message after a restore links the session back
  to its emptied conversation.
* `setup_resume`: after a second tab repeated an earlier step of the wizard, a
  reload is sent from the wizard to the login page and back for ever.
* `deactivation_undone`: a verification link reactivates an account that an
  administrator deactivated before its email was verified.
* `cloud_completes`: with the local AI and OpenAI both active, as the wizard
  leaves them, completions go to the local one, which was discovered first.

Seen while modelling, included in the models and not stated as properties,
because a property could only be refuted: a failing WhatsApp read receipt drops
the message without an apology (`whatsapp.ts`, line 260); replies of one
conversation are sent concurrently and can overtake each other; a conversation
reactivated by a message keeps its old `last_message_at` until the message is
saved, so the idle job may close it in between; overlapping failed
verifications are counted once; a conversation that staff set to `new` is never
closed by the idle job (`scheduler/index.ts`, line 210), which
`QuietConversationsClose` therefore exempts; a session verified before arrival is not prolonged by
activity (`touch`), although the comment at `verify` (`webchat-session.ts`, line
142) calls its seven days "rolling on activity"; a staff reply in a restored conversation goes to the session that
opened it, and the result of the verification that restores it is saved into
the one just emptied; a change in the PMS made while a sync is under way falls
between two windows, and a refresh that finds status, room and dates unchanged
drops the rest of the answer; a PMS app activated after the start is not polled
until a restart; a request of the wizard that throws leaves its inputs disabled
until a reload; a PATCH of a staff member is not counted against the last
administrator; testing a disabled app starts it; the founder's wildcard outlives a demotion, because
every refresh merges the row's own permissions into the token
(`auth/index.ts`, lines 240-246), so `SessionsCatchUp` counts the founder as entitled; the
wizard's checklist counts an entry as found that the import skipped for its
title or failed to embed (`site-scraper.ts`, lines 352 and 404); an event's
status is stored with the reservation it came with, and a sync corrects it only
while the booking's change is in the window; a failed try of a key in the
wizard disables the app even when another try has stored a good key since.

## 7. What is left

1. Tasks: claim, complete and reopen by two staff members; check-in and
   check-out events of the PMS copy and what listens to them.
2. Guest memory (extraction on close, duplicates, backfill), the dashboard's
   WebSocket bookkeeping, the site scraper's jobs.

Not modelled, and why: the provider packages are HTTP clients whose answers and
failures are inputs of the models; guests and reservations are edited by single
statements without a protocol; activity log, audit and analytics append and
aggregate; most of the dashboard and the website is presentation -- of it only
the wizard and the login page's redirect keep a protocol with the server.
