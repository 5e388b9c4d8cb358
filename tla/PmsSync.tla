------------------------------- MODULE PmsSync -------------------------------
(***************************************************************************)
(* The local copy of the property management system's bookings: the        *)
(* pms-sync job and its window, manual syncs, webhooks, refresh of a stale *)
(* reservation, and the lookups of guest verification                      *)
(* (src/services/pms-sync.ts, src/services/verification.ts,                *)
(* src/gateway/routes/webhooks/pms.ts, src/scheduler/index.ts).            *)
(*                                                                         *)
(* The PMS is external: a booking is the sequence of its revisions, and    *)
(* every answer or webhook carries the revision current when it was made,  *)
(* an event's status apart.                                                *)
(* Instants are not kept: a change is in the window of the next sync or    *)
(* not, a row is stale or not.                                             *)
(***************************************************************************)
EXTENDS Integers, Sequences, FiniteSets

CONSTANTS
    Bookings,
    Statuses,      \* what upsertReservation compares: the status,
    Stays,         \* and room and dates
    Roomless,      \* the stays without a room number
    Details,       \* what it does not: guest, rate, requests
    Revisions,     \* what the PMS may say of a booking
    Overrides,     \* the statuses an event stands for
    MaxRevisions, MaxWebhooks, MaxCrashes, MaxSwitches

ASSUME PmsBoundsAssumption ==
    /\ MaxRevisions \in Nat \ {0} /\ MaxWebhooks \in Nat
    /\ MaxCrashes \in Nat /\ MaxSwitches \in Nat

ASSUME PmsDataAssumption ==
    /\ Revisions \subseteq [status : Statuses, stay : Stays, details : Details]
    /\ Roomless \subseteq Stays /\ Overrides \subseteq Statuses

VARIABLES
    history,     \* the PMS: each booking's revisions
    webhooks,    \* notifications under way
    row,         \* the reservations table
    synced,      \* lastSyncTime is set
    sinceSync,   \* bookings changed since lastSyncTime
    lastDay,     \* bookings changed within the last 24 hours
    fetched,     \* what a running sync got from the PMS
    refresh,     \* pendingRefreshes
    lookup,      \* the answer a verification is about to store
    configured,  \* a PMS app is active
    scheduled,   \* one was when the scheduler started
    missed,      \* history: why no later sync will ask for a booking's change
    crashes, switches

pmsVars == <<history, sinceSync, lastDay>>
callVars == <<fetched, refresh, lookup>>
appVars == <<configured, scheduled, crashes, switches>>
vars == <<pmsVars, callVars, appVars, webhooks, row, synced, missed>>

Snapshots == [of : Bookings, number : 1 .. MaxRevisions]
Notices == [of : Bookings, number : 1 .. MaxRevisions, says : Statuses]
Rows == [status : Statuses, stay : Stays, details : Details, stale : BOOLEAN]
NoRow == [stale |-> FALSE]
Syncs == {"job", "manual"}
NotRunning == {<<>>}
NoAnswer == 0
NoRefresh == [asked |-> NoAnswer, answer |-> NoAnswer]
Causes == {"none", "overlap", "outage", "error", "event"}

Latest(b) == [of |-> b, number |-> Len(history[b])]
Known == {b \in Bookings : history[b] # <<>>}
Current(b) == history[b][Len(history[b])]
Content(snap) == history[snap.of][snap.number]
Outdated(snap) == snap.number < Len(history[snap.of])

Missing(bookings, cause) ==
    [b \in Bookings |-> IF b \in bookings /\ missed[b] = "none" THEN cause ELSE missed[b]]
Overwritten(snaps) == {snap.of : snap \in {s \in snaps : Outdated(s)}}

-----------------------------------------------------------------------------
HasChanges_StatusKept(stored, revision) == stored = NoRow

\* upsertReservation: does the stored row differ?  A room that is not assigned
\* is null in the row and undefined in the answer, and counts as a change.
HasChanges(stored, revision) ==
    \/ stored = NoRow \/ revision.stay \in Roomless
    \/ stored.status # revision.status \/ stored.stay # revision.stay

Fresh_NotSynced(revision) ==
    [status |-> revision.status, stay |-> revision.stay, details |-> revision.details]

Fresh(revision) ==
    [status |-> revision.status, stay |-> revision.stay, details |-> revision.details,
     stale |-> FALSE]

Upserted_StatusOnly(stored, revision) ==
    IF stored = NoRow THEN Fresh(revision)
    ELSE [stored EXCEPT !.status = revision.status, !.stale = FALSE]

\* syncedAt is set even when nothing changed.
Upserted(stored, revision) ==
    IF HasChanges(stored, revision) THEN Fresh(revision)
    ELSE [stored EXCEPT !.stale = FALSE]

\* The bookings a sync asks for.
Window(p) == IF p = "job" /\ synced THEN sinceSync ELSE lastDay

Init ==
    /\ history = [b \in Bookings |-> <<>>]
    /\ webhooks = {}
    /\ row = [b \in Bookings |-> NoRow]
    /\ synced = FALSE
    /\ sinceSync = {}
    /\ lastDay = {}
    /\ fetched = [p \in Syncs |-> NotRunning]
    /\ refresh = [b \in Bookings |-> NoRefresh]
    /\ lookup = [b \in Bookings |-> NoAnswer]
    /\ configured \in BOOLEAN
    /\ scheduled = configured
    /\ missed = [b \in Bookings |-> "none"]
    /\ crashes = 0 /\ switches = 0

-----------------------------------------------------------------------------
\* The PMS creates or changes a booking and may notify: of the reservation, or
\* of an event, which stands for a status whatever the reservation in it has.
PmsChanges(b, revision) ==
    /\ Len(history[b]) < MaxRevisions
    /\ history[b] # <<>> => revision # Current(b)
    /\ history' = [history EXCEPT ![b] = Append(@, revision)]
    /\ sinceSync' = sinceSync \cup {b}
    /\ lastDay' = lastDay \cup {b}
    /\ \/ UNCHANGED webhooks
       \/ /\ Cardinality(webhooks) < MaxWebhooks
          /\ \E status \in {revision.status} \cup Overrides :
                webhooks' = webhooks \cup
                               {[of |-> b, number |-> Len(history'[b]), says |-> status]}
    /\ missed' = [missed EXCEPT ![b] = "none"]
    /\ UNCHANGED <<callVars, appVars, row, synced>>

\* What a webhook has stored: the status is the event's.
Said(notice) == [Content(notice) EXCEPT !.status = notice.says]

\* A webhook arrives, once or more, and is stored.
WebhookArrives(notice) ==
    LET b == notice.of IN
    /\ notice \in webhooks
    /\ webhooks' \in {webhooks, webhooks \ {notice}}
    /\ row' = [row EXCEPT ![b] = Upserted(@, Said(notice))]
    /\ missed' = IF notice.says # Content(notice).status THEN Missing({b}, "event")
                 ELSE Missing(Overwritten({notice}), "overlap")
    /\ UNCHANGED <<pmsVars, callVars, appVars, synced>>

WebhookLost(notice) ==
    /\ notice \in webhooks
    /\ webhooks' = webhooks \ {notice}
    /\ UNCHANGED <<pmsVars, callVars, appVars, row, synced, missed>>

-----------------------------------------------------------------------------
(***************************************************************************)
(* The sync.  The job exists only if a PMS app was active at the start and *)
(* does not run beside itself (isRunning); a manual sync runs beside it.   *)
(***************************************************************************)
CanSync(p) == fetched[p] = NotRunning /\ (p = "job" => scheduled)

\* The job sets lastSyncTime to the instant its sync ended.
Advanced(p) ==
    IF p = "job" THEN synced' = TRUE /\ sinceSync' = {} ELSE UNCHANGED <<synced, sinceSync>>

\* Without an adapter the sync returns as if there were nothing to do.
SyncSkipped(p) ==
    /\ CanSync(p) /\ ~configured
    /\ Advanced(p)
    /\ missed' = IF p = "job" THEN Missing(sinceSync, "outage") ELSE missed
    /\ UNCHANGED <<history, lastDay, callVars, appVars, webhooks, row>>

\* getModifiedReservations answers.
SyncFetches(p) ==
    /\ CanSync(p) /\ configured
    /\ fetched' = [fetched EXCEPT ![p] = {Latest(b) : b \in Window(p)}]
    /\ UNCHANGED <<pmsVars, appVars, webhooks, row, synced, refresh, lookup, missed>>

\* The records are upserted one by one; one that fails is counted and left.
SyncStores(p, failing) ==
    LET stored == {snap \in fetched[p] : snap.of \notin failing}
        overlapped == {b \in sinceSync : p = "job" /\ Latest(b) \notin fetched[p]} IN
    /\ fetched[p] # NotRunning
    /\ failing \subseteq {snap.of : snap \in fetched[p]}
    /\ fetched' = [fetched EXCEPT ![p] = NotRunning]
    /\ row' = [b \in Bookings |->
                 IF \E snap \in stored : snap.of = b
                 THEN Upserted(row[b], Content(CHOOSE snap \in stored : snap.of = b))
                 ELSE row[b]]
    /\ Advanced(p)
    /\ missed' = [b \in Bookings |->
                    IF p = "job" /\ b \in failing /\ missed[b] = "none" THEN "error"
                    ELSE Missing(Overwritten(stored) \cup overlapped, "overlap")[b]]
    /\ UNCHANGED <<history, lastDay, appVars, webhooks, refresh, lookup>>

AfterFailure_Advanced(p) == Advanced(p)

\* The fetch fails: lastSyncTime stays.
AfterFailure(p) == UNCHANGED <<synced, sinceSync>>

SyncFails(p) ==
    /\ fetched[p] # NotRunning
    /\ fetched' = [fetched EXCEPT ![p] = NotRunning]
    /\ AfterFailure(p)
    /\ UNCHANGED <<history, lastDay, appVars, webhooks, row, refresh, lookup, missed>>

-----------------------------------------------------------------------------
(***************************************************************************)
(* A guest's context is built: a stale reservation is fetched, one call at *)
(* a time (refreshIfStale, doRefresh).                                     *)
(***************************************************************************)
Idle(b) == refresh[b].asked = NoAnswer

RefreshAsks(b) ==
    /\ row[b] # NoRow /\ row[b].stale
    /\ configured /\ Idle(b)
    /\ refresh' = [refresh EXCEPT ![b].asked = Len(history[b])]
    /\ UNCHANGED <<pmsVars, appVars, webhooks, row, synced, fetched, lookup, missed>>

RefreshAnswered(b) ==
    /\ ~Idle(b) /\ refresh[b].answer = NoAnswer
    /\ refresh' = [refresh EXCEPT ![b].answer = Len(history[b])]
    /\ UNCHANGED <<pmsVars, appVars, webhooks, row, synced, fetched, lookup, missed>>

\* No answer, or "not found": the stale row is used.
RefreshFails(b) ==
    /\ ~Idle(b) /\ refresh[b].answer = NoAnswer
    /\ refresh' = [refresh EXCEPT ![b] = NoRefresh]
    /\ UNCHANGED <<pmsVars, appVars, webhooks, row, synced, fetched, lookup, missed>>

RefreshStores(b) ==
    LET snap == [of |-> b, number |-> refresh[b].answer] IN
    /\ refresh[b].answer # NoAnswer
    /\ refresh' = [refresh EXCEPT ![b] = NoRefresh]
    /\ row' = [row EXCEPT ![b] = Upserted(@, Content(snap))]
    /\ missed' = Missing(Overwritten({snap}), "overlap")
    /\ UNCHANGED <<pmsVars, appVars, webhooks, synced, fetched, lookup>>

-----------------------------------------------------------------------------
(***************************************************************************)
(* A verification looks the booking up and stores the answer with an       *)
(* upsert of its own, which compares nothing.                              *)
(***************************************************************************)
LookupAnswered(b) ==
    /\ configured
    /\ b \in Known /\ lookup[b] = NoAnswer
    /\ lookup' = [lookup EXCEPT ![b] = Len(history[b])]
    /\ UNCHANGED <<pmsVars, appVars, webhooks, row, synced, fetched, refresh, missed>>

LookupStores(b) ==
    LET snap == [of |-> b, number |-> lookup[b]] IN
    /\ lookup[b] # NoAnswer
    /\ lookup' = [lookup EXCEPT ![b] = NoAnswer]
    /\ row' = [row EXCEPT ![b] = Fresh(Content(snap))]
    /\ missed' = Missing(Overwritten({snap}), "overlap")
    /\ UNCHANGED <<pmsVars, appVars, webhooks, synced, fetched, refresh>>

-----------------------------------------------------------------------------
\* The row passes the staleness threshold.
GoesStale(b) ==
    /\ row[b] # NoRow /\ ~row[b].stale
    /\ row' = [row EXCEPT ![b].stale = TRUE]
    /\ UNCHANGED <<pmsVars, callVars, appVars, webhooks, synced, missed>>

\* A day goes by; no call lasts that long.
DayPasses ==
    /\ lastDay # {}
    /\ \A p \in Syncs : fetched[p] = NotRunning
    /\ \A b \in Bookings : Idle(b) /\ lookup[b] = NoAnswer
    /\ lastDay' = {}
    /\ missed' = IF synced THEN missed ELSE Missing(lastDay, "outage")
    /\ UNCHANGED <<history, sinceSync, callVars, appVars, webhooks, row, synced>>

\* The PMS app is switched on or off.
Switch ==
    /\ switches < MaxSwitches
    /\ switches' = switches + 1
    /\ configured' = ~configured
    /\ UNCHANGED <<pmsVars, callVars, scheduled, crashes, webhooks, row, synced, missed>>

\* lastSyncTime and pendingRefreshes are in memory.
Restart ==
    /\ crashes < MaxCrashes
    /\ crashes' = crashes + 1
    /\ scheduled' = configured
    /\ synced' = FALSE
    /\ fetched' = [p \in Syncs |-> NotRunning]
    /\ refresh' = [b \in Bookings |-> NoRefresh]
    /\ lookup' = [b \in Bookings |-> NoAnswer]
    /\ missed' = Missing(sinceSync \ lastDay, "outage")
    /\ UNCHANGED <<pmsVars, configured, switches, webhooks, row>>

Next ==
    \/ \E b \in Bookings, revision \in Revisions : PmsChanges(b, revision)
    \/ \E notice \in webhooks : WebhookArrives(notice) \/ WebhookLost(notice)
    \/ \E p \in Syncs : SyncSkipped(p) \/ SyncFetches(p) \/ SyncFails(p)
    \/ \E p \in Syncs, failing \in SUBSET Bookings : SyncStores(p, failing)
    \/ \E b \in Bookings : RefreshAsks(b) \/ RefreshAnswered(b) \/ RefreshFails(b)
                           \/ RefreshStores(b)
    \/ \E b \in Bookings : LookupAnswered(b) \/ LookupStores(b) \/ GoesStale(b)
    \/ DayPasses \/ Switch \/ Restart

Spec == Init /\ [][Next]_vars

-----------------------------------------------------------------------------
(***************************************************************************)
(* Properties.                                                             *)
(***************************************************************************)
\* The type invariant.
TypeOK ==
    /\ history \in [Bookings -> Seq(Revisions)]
    /\ \A b \in Bookings : Len(history[b]) <= MaxRevisions
    /\ webhooks \subseteq Notices
    /\ row \in [Bookings -> Rows \cup {NoRow}]
    /\ synced \in BOOLEAN
    /\ sinceSync \subseteq Bookings
    /\ lastDay \subseteq Bookings
    /\ fetched \in [Syncs -> (SUBSET Snapshots) \cup {NotRunning}]
    /\ refresh \in [Bookings -> [asked : 0 .. MaxRevisions, answer : 0 .. MaxRevisions]]
    /\ lookup \in [Bookings -> 0 .. MaxRevisions]
    /\ configured \in BOOLEAN /\ scheduled \in BOOLEAN
    /\ missed \in [Bookings -> Causes]
    /\ crashes \in Nat /\ switches \in Nat

\* The copy of a booking is not what the PMS says.
Agrees(stored, revision) == stored.status = revision.status /\ stored.stay = revision.stay
Lags(b) == b \in Known /\ (row[b] = NoRow \/ ~Agrees(row[b], Current(b)))

\* Polling is the safety net for missed webhooks: whatever is lost, fails or
\* restarts, a booking whose copy lags is asked for by the next sync, unless
\* its change crossed an answer under way, its record failed to be stored,
\* an event gave it a status its reservation does not have, or there was an
\* outage: no app active, or no sync for a day (runPMSSync, syncReservations).
MissedKnowingly ==
    \A b \in Bookings : Lags(b) => b \in Window("job") \/ missed[b] # "none"

\* A refresh that gets an answer leaves the booking as the PMS had it when
\* the guest's context asked, or later, whatever webhooks and syncs stored
\* meanwhile (refreshIfStale).
RefreshIsCurrent ==
    [][\A b \in Bookings :
         RefreshStores(b) =>
           \E n \in refresh[b].asked .. Len(history[b]) : Agrees(row'[b], history[b][n])]_vars

\* A copied reservation is never a mix of two revisions: room, dates and details
\* are those of one revision the PMS had, and so is the status, unless an event
\* gave it (upsertReservation, processEventWebhook).
CopyIsOneRevision ==
    \A b \in Bookings : row[b] # NoRow =>
        \E n \in DOMAIN history[b] :
            /\ row[b].stay = history[b][n].stay /\ row[b].details = history[b][n].details
            /\ row[b].status \in {history[b][n].status} \cup Overrides
=============================================================================
