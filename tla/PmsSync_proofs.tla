--------------------------- MODULE PmsSync_proofs ---------------------------
(***************************************************************************)
(* The safety net of the PMS synchronisation, for any number of bookings,  *)
(* revisions, webhooks, restarts and switches of the app.                  *)
(***************************************************************************)
EXTENDS PmsSync, TLAPS

-----------------------------------------------------------------------------
(***************************************************************************)
(* The inductive invariant.                                                *)
(***************************************************************************)
\* A refresh is answered no earlier than it asked.
Timely(call, latest) ==
    /\ call.asked <= latest /\ call.answer <= latest
    /\ call.answer # NoAnswer => call.asked # NoAnswer /\ call.asked <= call.answer

\* What is under way was in the PMS when it was asked for.
InHistory ==
    /\ \A s \in webhooks : s.number \in 1 .. Len(history[s.of])
    /\ \A p \in Syncs : fetched[p] # NotRunning =>
         /\ \A s \in fetched[p] : s.number \in 1 .. Len(history[s.of])
         /\ \A s, t \in fetched[p] : s.of = t.of => s = t
    /\ \A b \in Bookings : Timely(refresh[b], Len(history[b]))
    /\ \A b \in Bookings : lookup[b] <= Len(history[b])

Changed == \A b \in sinceSync \cup lastDay : Len(history[b]) > 0

Excused(b) == missed[b] # "none"

\* A copy that lags changed since lastSyncTime, or its change is excused.
Net == \A b \in Bookings : Lags(b) => b \in sinceSync \/ Excused(b)

\* Without a lastSyncTime the last day holds what it would have held.
Fallback == ~synced => \A b \in sinceSync : b \in lastDay \/ Excused(b)

IInv == TypeOK /\ InHistory /\ Changed /\ Net /\ Fallback

-----------------------------------------------------------------------------
(***************************************************************************)
(* Rows.                                                                   *)
(***************************************************************************)
LEMMA RowIsNotNoRow ==
    ASSUME NEW r \in Rows
    PROVE  r # NoRow
  <1>1. "stay" \in DOMAIN r
    BY DEF Rows
  <1>2. "stay" \notin DOMAIN NoRow
    BY DEF NoRow
  <1>3. QED BY <1>1, <1>2

\* What the PMS, or a webhook, may say of a booking.
Contents == [status : Statuses, stay : Stays, details : Details]

LEMMA RevisionsAreContents == Revisions \subseteq Contents
  BY PmsDataAssumption DEF Contents

\* Both upserts leave a row with the status and the stay they were given.
LEMMA UpsertedRow ==
    ASSUME NEW stored \in Rows \cup {NoRow}, NEW revision \in Contents
    PROVE  /\ Upserted(stored, revision) \in Rows
           /\ Agrees(Upserted(stored, revision), revision)
           /\ Fresh(revision) \in Rows
           /\ Agrees(Fresh(revision), revision)
  <1>1. Fresh(revision) \in Rows /\ Agrees(Fresh(revision), revision)
    BY DEF Fresh, Rows, Contents, Agrees
  <1>2. CASE HasChanges(stored, revision)
    BY <1>1, <1>2 DEF Upserted
  <1>3. CASE ~HasChanges(stored, revision)
    <2>1. stored \in Rows /\ Agrees(stored, revision)
      BY <1>3 DEF HasChanges, Agrees
    <2>2. Upserted(stored, revision) = [stored EXCEPT !.stale = FALSE]
      BY <1>3 DEF Upserted
    <2>3. QED BY <1>1, <2>1, <2>2 DEF Rows, Agrees
  <1>4. QED BY <1>2, <1>3

LEMMA MissingIsTyped ==
    ASSUME missed \in [Bookings -> Causes], NEW bs, NEW cause \in Causes
    PROVE  Missing(bs, cause) \in [Bookings -> Causes]
  BY DEF Missing

\* An excuse is never taken back, and is given to whoever needs one.
LEMMA MissingExcuses ==
    ASSUME missed \in [Bookings -> Causes], NEW bs, NEW cause \in Causes,
           cause # "none", NEW b \in Bookings
    PROVE  /\ Missing(bs, cause)[b] # "none" <=> (Excused(b) \/ b \in bs)
  BY DEF Missing, Excused

\* One stored snapshot overwrites its booking's change, if it is outdated.
LEMMA OverwrittenOne ==
    ASSUME NEW s
    PROVE  Overwritten({s}) = IF Outdated(s) THEN {s.of} ELSE {}
  <1>1. {t \in {s} : Outdated(t)} = IF Outdated(s) THEN {s} ELSE {}
    OBVIOUS
  <1>2. QED BY <1>1 DEF Overwritten

\* A snapshot is stored: the copy is current, or the change is excused, as it
\* is when an event's status was stored.
LEMMA StoringKeepsNet ==
    ASSUME IInv, NEW b \in Bookings, NEW n \in 1 .. Len(history[b]), NEW r \in Rows,
           row' = [row EXCEPT ![b] = r],
           \/ /\ Agrees(r, history[b][n])
              /\ missed' = Missing(Overwritten({[of |-> b, number |-> n]}), "overlap")
           \/ missed' = Missing({b}, "event"),
           UNCHANGED <<pmsVars, synced>>
    PROVE  Net' /\ Fallback' /\ missed' \in [Bookings -> Causes] /\ row' \in [Bookings -> Rows \cup {NoRow}]
  <1> DEFINE snap == [of |-> b, number |-> n]
  <1>1. missed \in [Bookings -> Causes] /\ row \in [Bookings -> Rows \cup {NoRow}]
        /\ history \in [Bookings -> Seq(Revisions)]
    BY DEF IInv, TypeOK
  <1>2. {"overlap", "event"} \subseteq Causes \ {"none"}
    BY DEF Causes
  <1>3. missed' \in [Bookings -> Causes]
    BY <1>1, <1>2, MissingIsTyped
  <1>4. \A a \in Bookings : Excused(a) => Excused(a)'
    BY <1>1, <1>2, MissingExcuses DEF Excused
  <1>5. n < Len(history[b]) \/ ~Agrees(r, history[b][n]) => Excused(b)'
    <2>1. n < Len(history[b]) => b \in Overwritten({snap})
      <3>1. snap.of = b /\ snap.number = n
        OBVIOUS
      <3>2. n < Len(history[b]) => snap \in {s \in {snap} : Outdated(s)}
        BY <3>1 DEF Outdated
      <3>3. Overwritten({snap}) = {s.of : s \in {s \in {snap} : Outdated(s)}}
        BY DEF Overwritten
      <3> HIDE DEF snap
      <3>4. QED BY <3>1, <3>2, <3>3
    <2>2. CASE missed' = Missing({b}, "event")
      <3>1. "event" \in Causes /\ "event" # "none"
        BY <1>2
      <3>2. Missing({b}, "event")[b] # "none"
        BY <1>1, <3>1, MissingExcuses
      <3>3. QED BY <2>2, <3>2 DEF Excused
    <2>3. CASE missed' # Missing({b}, "event")
      <3>1. Agrees(r, history[b][n]) /\ missed' = Missing(Overwritten({snap}), "overlap")
        BY <2>3
      <3>2. "overlap" \in Causes /\ "overlap" # "none"
        BY <1>2
      <3> HIDE DEF snap
      <3>3. b \in Overwritten({snap}) => Missing(Overwritten({snap}), "overlap")[b] # "none"
        BY <1>1, <3>2, MissingExcuses
      <3>4. QED BY <2>1, <3>1, <3>3 DEF Excused
    <2>4. QED BY <2>2, <2>3
  <1>6. ASSUME NEW a \in Bookings, Lags(a)'
        PROVE  a \in sinceSync' \/ Excused(a)'
    <2>1. CASE a # b
      <3>1. Lags(a)
        BY <1>1, <1>6, <2>1 DEF Lags, Known, Current, pmsVars
      <3>2. QED BY <1>4, <3>1 DEF IInv, Net, pmsVars
    <2>2. CASE a = b
      <3>1. row'[b] = r /\ r # NoRow
        BY <1>1, RowIsNotNoRow
      <3>2. n # Len(history[b]) \/ ~Agrees(r, history[b][n])
        BY <1>6, <2>2, <3>1 DEF Lags, Known, Current, pmsVars
      <3>3. QED BY <1>1, <1>5, <2>2, <3>2
    <2>3. QED BY <2>1, <2>2
  <1>7. Fallback'
    BY <1>1, <1>4 DEF IInv, Fallback, TypeOK, pmsVars
  <1>8. QED BY <1>1, <1>3, <1>6, <1>7 DEF Net
-----------------------------------------------------------------------------
(***************************************************************************)
(* The initial state and the steps.                                        *)
(***************************************************************************)
LEMMA InitHolds == Init => IInv
  <1> SUFFICES ASSUME Init PROVE IInv
    OBVIOUS
  <1>1. TypeOK
    <2>1. /\ history \in [Bookings -> Seq(Revisions)]
          /\ \A b \in Bookings : Len(history[b]) <= MaxRevisions
      BY PmsBoundsAssumption DEF Init
    <2>2. row \in [Bookings -> Rows \cup {NoRow}]
      BY DEF Init
    <2>3. fetched \in [Syncs -> (SUBSET Snapshots) \cup {NotRunning}]
      BY DEF Init
    <2>4. /\ refresh \in [Bookings -> [asked : 0 .. MaxRevisions, answer : 0 .. MaxRevisions]]
          /\ lookup \in [Bookings -> 0 .. MaxRevisions]
      BY PmsBoundsAssumption DEF Init, NoRefresh, NoAnswer
    <2>5. missed \in [Bookings -> Causes]
      BY DEF Init, Causes
    <2>6. QED BY <2>1, <2>2, <2>3, <2>4, <2>5 DEF Init, TypeOK
  <1>2. InHistory
    BY DEF Init, InHistory, NoRefresh, NoAnswer, Timely
  <1>3. Changed /\ Net /\ Fallback
    BY DEF Init, Changed, Net, Fallback, Lags, Known
  <1>4. QED BY <1>1, <1>2, <1>3 DEF IInv

\* A change appends a revision and puts the booking in every window.
LEMMA ChangeStep ==
    ASSUME IInv, NEW b \in Bookings, NEW revision \in Revisions, PmsChanges(b, revision)
    PROVE  IInv'
  <1> USE DEF IInv, TypeOK, PmsChanges, callVars, appVars
  <1>0. \A p \in Syncs : fetched[p] = NotRunning \/ fetched[p] \subseteq Snapshots
    <2>1. fetched \in [Syncs -> (SUBSET Snapshots) \cup {NotRunning}]
      OBVIOUS
    <2>2. QED BY ONLY <2>1
  <1>1. /\ history' \in [Bookings -> Seq(Revisions)]
        /\ \A a \in Bookings : Len(history'[a]) <= MaxRevisions
        /\ \A a \in Bookings : Len(history'[a]) >= Len(history[a])
        /\ Len(history'[b]) = Len(history[b]) + 1
        /\ \A a \in Bookings \ {b} : history'[a] = history[a]
    BY PmsBoundsAssumption
  <1>2. TypeOK'
    <2>1. webhooks' \subseteq Notices
      <3>1. revision.status \in Statuses /\ Overrides \subseteq Statuses
        BY RevisionsAreContents, PmsDataAssumption DEF Contents
      <3>2. QED BY <1>1, <3>1, PmsBoundsAssumption DEF Notices
    <2>2. missed' \in [Bookings -> Causes]
      BY DEF Causes
    <2>3. QED BY <1>1, <2>1, <2>2
  <1>3. InHistory'
    <2>1. \A s \in webhooks' : s.number \in 1 .. Len(history'[s.of])
      BY <1>1 DEF InHistory, Notices
    <2>2. ASSUME NEW p \in Syncs, fetched[p] # NotRunning
          PROVE  \A s \in fetched[p] : s.number \in 1 .. Len(history'[s.of])
      <3>1. fetched[p] \subseteq Snapshots
        BY <2>2, <1>0
      <3>2. QED BY <1>1, <2>2, <3>1 DEF InHistory, Snapshots
    <2>3. \A a \in Bookings : Timely(refresh[a], Len(history'[a]))
                              /\ lookup[a] <= Len(history'[a])
      BY <1>1 DEF InHistory, Timely
    <2>4. QED BY <2>1, <2>2, <2>3 DEF InHistory
  <1>4. Changed'
    BY <1>1 DEF Changed
  <1>5. Net'
    BY <1>1 DEF Net, Lags, Known, Current, Excused
  <1>6. Fallback'
    BY DEF Fallback, Excused
  <1>7. QED BY <1>2, <1>3, <1>4, <1>5, <1>6

LEMMA SaidIsContent ==
    ASSUME TypeOK, InHistory, NEW notice \in webhooks
    PROVE  /\ notice.of \in Bookings /\ notice.number \in 1 .. Len(history[notice.of])
           /\ notice.says \in Statuses
           /\ Content(notice) \in Revisions /\ Said(notice) \in Contents
           /\ Said(notice) = [Content(notice) EXCEPT !.status = notice.says]
  <1>1. /\ notice.of \in Bookings /\ notice.says \in Statuses
        /\ notice.number \in 1 .. Len(history[notice.of])
    BY DEF TypeOK, InHistory, Notices
  <1>2. Content(notice) \in Revisions
    BY <1>1 DEF TypeOK, Content
  <1>3. Content(notice) \in Contents
    BY <1>2, RevisionsAreContents
  <1>4. QED BY <1>1, <1>2, <1>3 DEF Said, Contents

\* A reservation's webhook stores what it says; an event's leaves an excuse.
LEMMA WebhookStep ==
    ASSUME IInv, NEW notice \in webhooks, WebhookArrives(notice)
    PROVE  IInv'
  <1> DEFINE b == notice.of
             n == notice.number
             r == Upserted(row[b], Said(notice))
  <1>1. /\ b \in Bookings /\ n \in 1 .. Len(history[b])
        /\ Content(notice) \in Contents /\ Content(notice) = history[b][n]
        /\ Said(notice) \in Contents /\ Said(notice) = [Content(notice) EXCEPT !.status = notice.says]
    BY SaidIsContent, RevisionsAreContents DEF IInv, Content
  <1>2. r \in Rows /\ Agrees(r, Said(notice))
    BY <1>1, UpsertedRow DEF IInv, TypeOK
  <1>3. /\ row' = [row EXCEPT ![b] = r]
        /\ UNCHANGED <<pmsVars, synced>>
        /\ notice.says # Content(notice).status => missed' = Missing({b}, "event")
        /\ notice.says = Content(notice).status => missed' = Missing(Overwritten({notice}), "overlap")
    BY DEF WebhookArrives
  <1>4. notice.says = Content(notice).status => Agrees(r, history[b][n])
    BY <1>1, <1>2 DEF Agrees, Contents
  <1>5. Overwritten({notice}) = Overwritten({[of |-> b, number |-> n]})
    <2>1. PICK snap : snap = [of |-> b, number |-> n]
      OBVIOUS
    <2>2. snap.of = notice.of /\ (Outdated(snap) <=> Outdated(notice))
      BY <2>1 DEF Outdated
    <2>3. Overwritten({snap}) = Overwritten({notice})
      BY <2>2, OverwrittenOne
    <2>4. QED BY <2>1, <2>3
  <1>6. Net' /\ Fallback' /\ missed' \in [Bookings -> Causes]
        /\ row' \in [Bookings -> Rows \cup {NoRow}]
    <2> HIDE DEF b, n, r
    <2>1. QED BY <1>1, <1>2, <1>3, <1>4, <1>5, StoringKeepsNet
  <1>7. TypeOK' /\ InHistory' /\ Changed'
    BY <1>6 DEF IInv, TypeOK, InHistory, Changed, WebhookArrives, pmsVars, callVars, appVars
  <1>8. QED BY <1>6, <1>7 DEF IInv

LEMMA RefreshStep ==
    ASSUME IInv, NEW b \in Bookings, RefreshStores(b)
    PROVE  IInv'
  <1> DEFINE n == refresh[b].answer
             r == Upserted(row[b], history[b][n])
  <1>1. /\ n \in 1 .. Len(history[b])
        /\ row[b] \in Rows \cup {NoRow} /\ history[b] \in Seq(Revisions)
    BY DEF IInv, TypeOK, InHistory, Timely, RefreshStores, NoAnswer
  <1>2. history[b][n] \in Contents
    BY <1>1, RevisionsAreContents
  <1>3. r \in Rows /\ Agrees(r, history[b][n])
    BY <1>1, <1>2, UpsertedRow
  <1>4. /\ row' = [row EXCEPT ![b] = r]
        /\ missed' = Missing(Overwritten({[of |-> b, number |-> n]}), "overlap")
        /\ UNCHANGED <<pmsVars, synced>>
    BY DEF RefreshStores, Content
  <1>5. Net' /\ Fallback' /\ missed' \in [Bookings -> Causes]
        /\ row' \in [Bookings -> Rows \cup {NoRow}]
    <2> HIDE DEF n, r
    <2>1. QED BY <1>1, <1>3, <1>4, StoringKeepsNet
  <1>6. \A a \in Bookings : Len(history[a]) \in Nat
    BY DEF IInv, TypeOK
  <1>7. refresh' \in [Bookings -> [asked : 0 .. MaxRevisions, answer : 0 .. MaxRevisions]]
    BY PmsBoundsAssumption DEF IInv, TypeOK, RefreshStores, NoRefresh, NoAnswer
  <1>8. \A a \in Bookings : Timely(refresh'[a], Len(history[a]))
    BY <1>6 DEF IInv, TypeOK, InHistory, RefreshStores, NoRefresh, NoAnswer, Timely
  <1>9. TypeOK' /\ InHistory' /\ Changed'
    BY <1>5, <1>7, <1>8 DEF IInv, TypeOK, InHistory, Changed, RefreshStores, pmsVars, appVars
  <1>10. QED BY <1>5, <1>9 DEF IInv

LEMMA LookupStep ==
    ASSUME IInv, NEW b \in Bookings, LookupStores(b)
    PROVE  IInv'
  <1> DEFINE n == lookup[b]
             r == Fresh(history[b][n])
  <1>1. /\ n \in 1 .. Len(history[b])
        /\ row[b] \in Rows \cup {NoRow} /\ history[b] \in Seq(Revisions)
    BY DEF IInv, TypeOK, InHistory, LookupStores, NoAnswer
  <1>2. history[b][n] \in Contents
    BY <1>1, RevisionsAreContents
  <1>3. r \in Rows /\ Agrees(r, history[b][n])
    BY <1>1, <1>2, UpsertedRow
  <1>4. /\ row' = [row EXCEPT ![b] = r]
        /\ missed' = Missing(Overwritten({[of |-> b, number |-> n]}), "overlap")
        /\ UNCHANGED <<pmsVars, synced>>
    BY DEF LookupStores, Content
  <1>5. Net' /\ Fallback' /\ missed' \in [Bookings -> Causes]
        /\ row' \in [Bookings -> Rows \cup {NoRow}]
    <2> HIDE DEF n, r
    <2>1. QED BY <1>1, <1>3, <1>4, StoringKeepsNet
  <1>6. \A a \in Bookings : Len(history[a]) \in Nat
    BY DEF IInv, TypeOK
  <1>7. lookup' \in [Bookings -> 0 .. MaxRevisions]
    BY PmsBoundsAssumption DEF IInv, TypeOK, LookupStores, NoAnswer
  <1>8. \A a \in Bookings : lookup'[a] <= Len(history[a])
    BY <1>6 DEF IInv, TypeOK, InHistory, LookupStores, NoAnswer
  <1>9. TypeOK' /\ InHistory' /\ Changed'
    BY <1>5, <1>7, <1>8 DEF IInv, TypeOK, InHistory, Changed, LookupStores, pmsVars, appVars
  <1>10. QED BY <1>5, <1>9 DEF IInv

\* Without an adapter the job takes every pending change out of its window.
LEMMA SkipStep ==
    ASSUME IInv, NEW p \in Syncs, SyncSkipped(p)
    PROVE  IInv'
  <1> USE DEF SyncSkipped, callVars, appVars
  <1>1. CASE p = "job"
    <2>1. synced' = TRUE /\ sinceSync' = {} /\ missed' = Missing(sinceSync, "outage")
      BY <1>1 DEF Advanced
    <2>2. missed \in [Bookings -> Causes] /\ "outage" \in Causes
      BY DEF IInv, TypeOK, Causes
    <2>3. missed' \in [Bookings -> Causes]
      BY <2>1, <2>2, MissingIsTyped
    <2>4. \A b \in Bookings : (Excused(b) \/ b \in sinceSync) => Excused(b)'
      BY <2>1, <2>2, MissingExcuses DEF Excused
    <2>5. TypeOK' /\ InHistory' /\ Changed'
      BY <2>1, <2>3 DEF IInv, TypeOK, InHistory, Changed
    <2>6. Net' /\ Fallback'
      BY <2>1, <2>4 DEF IInv, Net, Lags, Known, Current, Fallback
    <2>7. QED BY <2>5, <2>6 DEF IInv
  <1>2. CASE p # "job"
    <2>1. UNCHANGED <<synced, sinceSync, missed>>
      BY <1>2 DEF Advanced
    <2>2. QED
      BY <2>1 DEF IInv, TypeOK, InHistory, Changed, Net, Lags, Known, Current, Fallback, Excused
  <1>3. QED BY <1>1, <1>2

LEMMA FetchStep ==
    ASSUME IInv, NEW p \in Syncs, SyncFetches(p)
    PROVE  IInv'
  <1> USE DEF SyncFetches, pmsVars, appVars
  <1> DEFINE got == {Latest(b) : b \in Window(p)}
  <1>1. Window(p) \subseteq sinceSync \cup lastDay /\ Window(p) \subseteq Bookings
    BY DEF Window, IInv, TypeOK
  <1>2. \A b \in Window(p) : Latest(b).of = b /\ Latest(b).number = Len(history[b])
                             /\ Len(history[b]) \in 1 .. MaxRevisions
    <2> TAKE b \in Window(p)
    <2>1. b \in Bookings /\ Len(history[b]) > 0
      BY <1>1 DEF IInv, Changed
    <2>2. Len(history[b]) \in Nat /\ Len(history[b]) <= MaxRevisions
      BY <2>1 DEF IInv, TypeOK
    <2>3. QED BY <2>1, <2>2, PmsBoundsAssumption DEF Latest
  <1>3. got \subseteq Snapshots
    BY <1>1, <1>2 DEF Snapshots, Latest
  <1>4. /\ \A s \in got : s.number \in 1 .. Len(history[s.of])
        /\ \A s, t \in got : s.of = t.of => s = t
    BY <1>1, <1>2
  <1>5. fetched' = [fetched EXCEPT ![p] = got]
    OBVIOUS
  <1> HIDE DEF got
  <1>6. TypeOK'
    BY <1>3, <1>5 DEF IInv, TypeOK
  <1>7. InHistory'
    BY <1>4, <1>5 DEF IInv, TypeOK, InHistory
  <1>8. Changed' /\ Net' /\ Fallback'
    BY DEF IInv, Changed, Net, Lags, Known, Current, Fallback, Excused
  <1>9. QED BY <1>6, <1>7, <1>8 DEF IInv

\* A sync ends: what it stored is current or overwritten, what it did not
\* store changed meanwhile, failed, or is still in the window.
LEMMA StoreStep ==
    ASSUME IInv, NEW p \in Syncs, NEW failing \in SUBSET Bookings, SyncStores(p, failing)
    PROVE  IInv'
  <1> DEFINE stored == {snap \in fetched[p] : snap.of \notin failing}
             overlapped == {b \in sinceSync : p = "job" /\ Latest(b) \notin fetched[p]}
             bs == Overwritten(stored) \cup overlapped
             the(b) == CHOOSE snap \in stored : snap.of = b
             in(b) == \E snap \in stored : snap.of = b
  <1>1. /\ fetched[p] \subseteq Snapshots
        /\ \A s \in fetched[p] : s.number \in 1 .. Len(history[s.of])
        /\ \A s, t \in fetched[p] : s.of = t.of => s = t
    BY DEF IInv, TypeOK, InHistory, SyncStores
  <1>2. /\ missed \in [Bookings -> Causes] /\ row \in [Bookings -> Rows \cup {NoRow}]
        /\ history \in [Bookings -> Seq(Revisions)]
    BY DEF IInv, TypeOK
  <1>3. /\ row' = [b \in Bookings |-> IF in(b) THEN Upserted(row[b], Content(the(b))) ELSE row[b]]
        /\ missed' = [b \in Bookings |->
                        IF p = "job" /\ b \in failing /\ missed[b] = "none" THEN "error"
                        ELSE Missing(bs, "overlap")[b]]
        /\ fetched' = [fetched EXCEPT ![p] = NotRunning]
        /\ UNCHANGED <<history, lastDay, appVars, webhooks, refresh, lookup>>
        /\ Advanced(p)
    BY DEF SyncStores
  <1>4. ASSUME NEW b \in Bookings, in(b)
        PROVE  /\ the(b) \in fetched[p] /\ the(b).of = b
               /\ the(b).number \in 1 .. Len(history[b])
               /\ row'[b] \in Rows /\ Agrees(row'[b], history[b][the(b).number])
    <2>1. the(b) \in stored /\ the(b).of = b
      BY <1>4
    <2>2. the(b) \in fetched[p] /\ the(b).number \in 1 .. Len(history[b])
      BY <1>1, <2>1
    <2>3. Content(the(b)) \in Contents /\ Content(the(b)) = history[b][the(b).number]
      BY <1>2, <2>1, <2>2, RevisionsAreContents DEF Content
    <2>4. row'[b] = Upserted(row[b], Content(the(b))) /\ row[b] \in Rows \cup {NoRow}
      BY <1>2, <1>3, <1>4
    <2> HIDE DEF the, in, stored
    <2>5. QED BY <2>1, <2>2, <2>3, <2>4, UpsertedRow
  <1>5. Missing(bs, "overlap") \in [Bookings -> Causes]
        /\ \A b \in Bookings : Missing(bs, "overlap")[b] # "none" <=> (Excused(b) \/ b \in bs)
    <2>1. "overlap" \in Causes /\ "overlap" # "none"
      BY DEF Causes
    <2> HIDE DEF bs
    <2>2. QED BY <1>2, <2>1, MissingIsTyped, MissingExcuses
  <1>6. missed' \in [Bookings -> Causes]
    BY <1>3, <1>5 DEF Causes
  <1>7. \A b \in Bookings : (Excused(b) \/ b \in bs) => Excused(b)'
    BY <1>3, <1>5 DEF Excused
  <1>8. \A b \in Bookings : p = "job" /\ b \in failing => Excused(b)'
    BY <1>3, <1>5 DEF Excused
  <1>9. row' \in [Bookings -> Rows \cup {NoRow}]
    <2>1. \A b \in Bookings : row'[b] \in Rows \cup {NoRow}
      <3> TAKE b \in Bookings
      <3>1. CASE in(b)
        BY <1>4, <3>1
      <3>2. CASE ~in(b)
        BY <1>2, <1>3, <3>2
      <3>3. QED BY <3>1, <3>2
    <2> HIDE DEF in, the, bs
    <2>2. QED BY <1>3, <2>1
  <1>10. TypeOK' /\ InHistory' /\ Changed'
    <2>1. CASE p = "job"
      <3>1. synced' = TRUE /\ sinceSync' = {}
        BY <1>3, <2>1 DEF Advanced
      <3> HIDE DEF in, the, bs
      <3>2. QED BY <1>3, <1>6, <1>9, <3>1 DEF IInv, TypeOK, InHistory, Changed, appVars
    <2>2. CASE p # "job"
      <3>1. UNCHANGED <<synced, sinceSync>>
        BY <1>3, <2>2 DEF Advanced
      <3> HIDE DEF in, the, bs
      <3>2. QED BY <1>3, <1>6, <1>9, <3>1 DEF IInv, TypeOK, InHistory, Changed, appVars
    <2>3. QED BY <2>1, <2>2
  <1>11. ASSUME NEW b \in Bookings, Lags(b)'
         PROVE  b \in sinceSync' \/ Excused(b)'
    <2>1. CASE in(b)
      <3>1. the(b).number < Len(history[b])
        <4>1. history' = history /\ row'[b] # NoRow
          BY <1>3, <1>4, <2>1, RowIsNotNoRow
        <4>2. ~Agrees(row'[b], history[b][Len(history[b])])
          BY <1>11, <4>1 DEF Lags, Current
        <4>3. /\ the(b).number \in 1 .. Len(history[b])
              /\ Agrees(row'[b], history[b][the(b).number])
          BY <1>4, <2>1
        <4>4. Len(history[b]) \in Nat
          BY <1>2
        <4> HIDE DEF the
        <4>5. QED BY <4>2, <4>3, <4>4
      <3>2. the(b) \in stored /\ the(b).of = b
        BY <2>1
      <3>3. Outdated(the(b))
        BY <3>1, <3>2 DEF Outdated
      <3>4. b \in Overwritten(stored)
        BY <3>2, <3>3 DEF Overwritten
      <3>5. QED BY <1>7, <3>4
    <2>2. CASE ~in(b)
      <3>1. row'[b] = row[b]
        BY <1>3, <2>2
      <3>2. Lags(b)
        BY <1>3, <1>11, <3>1 DEF Lags, Known, Current
      <3>3. b \in sinceSync \/ Excused(b)
        BY <3>2 DEF IInv, Net
      <3>4. CASE p = "job" /\ b \in sinceSync
        <4>1. CASE b \in failing
          BY <1>8, <3>4, <4>1
        <4>2. CASE b \notin failing
          <5>1. Latest(b) \notin fetched[p]
            BY <2>2, <4>2 DEF Latest
          <5>2. QED BY <1>7, <3>4, <5>1
        <4>3. QED BY <4>1, <4>2
      <3>5. CASE p # "job"
        BY <1>3, <1>7, <3>3, <3>5 DEF Advanced
      <3>6. QED BY <1>7, <3>3, <3>4, <3>5
    <2>3. QED BY <2>1, <2>2
  <1>12. Fallback'
    BY <1>2, <1>3, <1>7 DEF IInv, TypeOK, Fallback, Advanced
  <1>13. QED BY <1>10, <1>11, <1>12 DEF IInv, Net

\* A refresh's record of what it asked for and was answered.
LEMMA RefreshRecord ==
    ASSUME NEW k \in Nat, NEW n \in 0 .. k, NEW r \in [asked : 0 .. k, answer : 0 .. k],
           Timely(r, n)
    PROVE  /\ r.answer = NoAnswer => [r EXCEPT !.asked = n] \in [asked : 0 .. k, answer : 0 .. k]
                                    /\ Timely([r EXCEPT !.asked = n], n)
           /\ [r EXCEPT !.answer = n] \in [asked : 0 .. k, answer : 0 .. k]
           /\ r.asked # NoAnswer => Timely([r EXCEPT !.answer = n], n)
           /\ NoRefresh \in [asked : 0 .. k, answer : 0 .. k] /\ Timely(NoRefresh, n)
  BY DEF NoRefresh, NoAnswer, Timely

\* Excuses only spread, and a step that neither stores nor syncs keeps the net.
LEMMA ExcusesSpread ==
    ASSUME IInv, NEW bs, missed' = missed \/ missed' = Missing(bs, "outage"),
           UNCHANGED <<history, sinceSync, row>>
    PROVE  /\ missed' \in [Bookings -> Causes]
           /\ \A b \in Bookings : Excused(b) => Excused(b)'
           /\ missed' = Missing(bs, "outage") => \A b \in Bookings \cap bs : Excused(b)'
           /\ Net'
  <1>1. missed \in [Bookings -> Causes] /\ "outage" \in Causes
    BY DEF IInv, TypeOK, Causes
  <1>2. missed' \in [Bookings -> Causes]
    BY <1>1, MissingIsTyped
  <1>3. /\ \A b \in Bookings : Excused(b) => Excused(b)'
        /\ missed' = Missing(bs, "outage") => \A b \in Bookings \cap bs : Excused(b)'
    BY <1>1, MissingExcuses DEF Excused
  <1>4. Net'
    BY <1>3 DEF IInv, Net, Lags, Known, Current
  <1>5. QED BY <1>2, <1>3, <1>4

LEMMA DayStep ==
    ASSUME IInv, DayPasses
    PROVE  IInv'
  <1>1. /\ UNCHANGED <<history, sinceSync, fetched, refresh, lookup, configured, scheduled,
                       crashes, switches, webhooks, row, synced>>
        /\ lastDay' = {}
        /\ missed' = missed \/ missed' = Missing(lastDay, "outage")
        /\ ~synced => missed' = Missing(lastDay, "outage")
    BY DEF DayPasses, callVars, appVars
  <1>2. /\ missed' \in [Bookings -> Causes] /\ Net'
        /\ \A b \in Bookings : Excused(b) => Excused(b)'
        /\ ~synced => \A b \in Bookings \cap lastDay : Excused(b)'
    BY <1>1, ExcusesSpread
  <1>3. TypeOK' /\ InHistory' /\ Changed'
    BY <1>1, <1>2 DEF IInv, TypeOK, InHistory, Changed
  <1>4. sinceSync \subseteq Bookings /\ Fallback
    BY DEF IInv, TypeOK
  <1>5. Fallback'
    BY <1>1, <1>2, <1>4 DEF Fallback
  <1>6. QED BY <1>2, <1>3, <1>5 DEF IInv

LEMMA RestartStep ==
    ASSUME IInv, Restart
    PROVE  IInv'
  <1>1. /\ UNCHANGED <<history, sinceSync, lastDay, configured, switches, webhooks, row>>
        /\ fetched' = [p \in Syncs |-> NotRunning]
        /\ refresh' = [b \in Bookings |-> NoRefresh]
        /\ lookup' = [b \in Bookings |-> NoAnswer]
        /\ synced' = FALSE /\ scheduled' = configured /\ crashes' = crashes + 1
        /\ missed' = Missing(sinceSync \ lastDay, "outage")
    BY DEF Restart, pmsVars
  <1>2. /\ missed' \in [Bookings -> Causes] /\ Net'
        /\ \A b \in Bookings \cap (sinceSync \ lastDay) : Excused(b)'
    BY <1>1, ExcusesSpread
  <1>3. /\ refresh' \in [Bookings -> [asked : 0 .. MaxRevisions, answer : 0 .. MaxRevisions]]
        /\ lookup' \in [Bookings -> 0 .. MaxRevisions]
        /\ fetched' \in [Syncs -> (SUBSET Snapshots) \cup {NotRunning}]
    BY <1>1, PmsBoundsAssumption DEF NoRefresh, NoAnswer
  <1>4. TypeOK'
    <2>1. /\ history' \in [Bookings -> Seq(Revisions)]
          /\ \A b \in Bookings : Len(history'[b]) <= MaxRevisions
          /\ webhooks' \subseteq Notices
          /\ row' \in [Bookings -> Rows \cup {NoRow}]
          /\ sinceSync' \subseteq Bookings /\ lastDay' \subseteq Bookings
      BY <1>1 DEF IInv, TypeOK
    <2>2. synced' \in BOOLEAN /\ configured' \in BOOLEAN /\ scheduled' \in BOOLEAN
      BY <1>1, Zenon DEF IInv, TypeOK
    <2>3. crashes' \in Nat /\ switches' \in Nat
      BY <1>1 DEF IInv, TypeOK
    <2>4. QED BY <1>2, <1>3, <2>1, <2>2, <2>3 DEF TypeOK
  <1>5. InHistory'
    <2>1. \A b \in Bookings : Len(history[b]) \in Nat
      BY DEF IInv, TypeOK
    <2>2. /\ \A p \in Syncs : fetched'[p] = NotRunning
          /\ \A b \in Bookings : Timely(refresh'[b], Len(history[b])) /\ lookup'[b] = 0
      BY <1>1, <2>1 DEF NoRefresh, NoAnswer, Timely
    <2>3. QED BY <1>1, <2>1, <2>2 DEF IInv, InHistory
  <1>6. Changed'
    BY <1>1 DEF IInv, Changed
  <1>7. sinceSync \subseteq Bookings
    BY DEF IInv, TypeOK
  <1>8. Fallback'
    BY <1>1, <1>2, <1>7 DEF Fallback
  <1>9. QED BY <1>2, <1>4, <1>5, <1>6, <1>8 DEF IInv

LEMMA OtherSteps ==
    ASSUME IInv, [Next]_vars
    PROVE  \/ IInv'
           \/ \E b \in Bookings, revision \in Revisions : PmsChanges(b, revision)
           \/ \E notice \in webhooks : WebhookArrives(notice)
           \/ \E p \in Syncs : SyncSkipped(p) \/ SyncFetches(p)
           \/ \E p \in Syncs, failing \in SUBSET Bookings : SyncStores(p, failing)
           \/ \E b \in Bookings : RefreshStores(b) \/ LookupStores(b)
  <1> USE DEF IInv, TypeOK, InHistory, Changed, pmsVars, callVars, appVars
  <1>1. ASSUME NEW notice \in webhooks, WebhookLost(notice) PROVE IInv'
    BY <1>1 DEF WebhookLost, Net, Lags, Known, Current, Fallback, Excused
  <1>2. ASSUME NEW p \in Syncs, SyncFails(p) PROVE IInv'
    BY <1>2 DEF SyncFails, AfterFailure, Net, Lags, Known, Current, Fallback, Excused
  <1>3. ASSUME NEW b \in Bookings, RefreshAsks(b) \/ RefreshAnswered(b) \/ RefreshFails(b)
        PROVE  IInv'
    <2>1. \A a \in Bookings : Len(history[a]) \in 0 .. MaxRevisions
      BY PmsBoundsAssumption
    <2>2. \E new \in [asked : 0 .. MaxRevisions, answer : 0 .. MaxRevisions] :
            Timely(new, Len(history[b])) /\ refresh' = [refresh EXCEPT ![b] = new]
      <3> DEFINE New == [asked : 0 .. MaxRevisions, answer : 0 .. MaxRevisions]
                 n == Len(history[b])
      <3>0. MaxRevisions \in Nat
        BY PmsBoundsAssumption
      <3>1. /\ refresh[b] \in New /\ Timely(refresh[b], n)
            /\ n \in 0 .. MaxRevisions /\ refresh \in [Bookings -> New]
        BY <2>1
      <3>2. CASE RefreshAsks(b)
        <4>1. refresh[b].answer = NoAnswer
          BY <3>1, <3>2 DEF RefreshAsks, Idle, Timely
        <4>2. [refresh[b] EXCEPT !.asked = n] \in New
              /\ Timely([refresh[b] EXCEPT !.asked = n], n)
          BY <3>0, <3>1, <4>1, RefreshRecord
        <4>3. refresh' = [refresh EXCEPT ![b] = [refresh[b] EXCEPT !.asked = n]]
          BY <3>1, <3>2 DEF RefreshAsks
        <4>4. QED BY <4>2, <4>3
      <3>3. CASE RefreshAnswered(b)
        <4>1. [refresh[b] EXCEPT !.answer = n] \in New
              /\ Timely([refresh[b] EXCEPT !.answer = n], n)
          BY <3>0, <3>1, <3>3, RefreshRecord DEF RefreshAnswered, Idle
        <4>2. refresh' = [refresh EXCEPT ![b] = [refresh[b] EXCEPT !.answer = n]]
          BY <3>1, <3>3 DEF RefreshAnswered
        <4>3. QED BY <4>1, <4>2
      <3>4. CASE RefreshFails(b)
        <4>1. NoRefresh \in New /\ Timely(NoRefresh, n)
          BY <3>0, <3>1, RefreshRecord
        <4>2. QED BY <3>4, <4>1 DEF RefreshFails
      <3>5. QED BY <1>3, <3>2, <3>3, <3>4
    <2>3. /\ refresh' \in [Bookings -> [asked : 0 .. MaxRevisions, answer : 0 .. MaxRevisions]]
          /\ \A a \in Bookings : Timely(refresh'[a], Len(history[a]))
      BY <2>2
    <2>4. UNCHANGED <<pmsVars, appVars, webhooks, row, synced, fetched, lookup, missed>>
      BY <1>3 DEF RefreshAsks, RefreshAnswered, RefreshFails
    <2>5. QED
      BY <2>3, <2>4 DEF Net, Lags, Known, Current, Fallback, Excused
  <1>4. ASSUME NEW b \in Bookings, LookupAnswered(b) PROVE IInv'
    <2>1. \A a \in Bookings : Len(history[a]) \in 0 .. MaxRevisions
      BY PmsBoundsAssumption
    <2>2. /\ lookup' \in [Bookings -> 0 .. MaxRevisions]
          /\ \A a \in Bookings : lookup'[a] <= Len(history[a])
      BY <1>4, <2>1 DEF LookupAnswered
    <2>3. QED
      BY <1>4, <2>2 DEF LookupAnswered, Net, Lags, Known, Current, Fallback, Excused
  <1>5. ASSUME NEW b \in Bookings, GoesStale(b) PROVE IInv'
    <2>1. row[b] \in Rows
      BY <1>5 DEF GoesStale
    <2>2. [row[b] EXCEPT !.stale = TRUE] \in Rows
          /\ [row[b] EXCEPT !.stale = TRUE].stay = row[b].stay
          /\ [row[b] EXCEPT !.stale = TRUE].status = row[b].status
      BY <2>1 DEF Rows
    <2>3. row' \in [Bookings -> Rows \cup {NoRow}]
      BY <1>5, <2>2 DEF GoesStale
    <2>4. \A a \in Bookings : Lags(a)' => Lags(a)
      BY <1>5, <2>1, <2>2, RowIsNotNoRow DEF GoesStale, Lags, Known, Current, Agrees
    <2>5. QED
      BY <1>5, <2>3, <2>4 DEF GoesStale, Net, Fallback, Excused
  <1>6. ASSUME DayPasses PROVE IInv'
    BY <1>6, DayStep
  <1>7. ASSUME Switch PROVE IInv'
    BY <1>7 DEF Switch, Net, Lags, Known, Current, Fallback, Excused
  <1>8. ASSUME Restart PROVE IInv'
    BY <1>8, RestartStep
  <1>9. CASE UNCHANGED vars
    BY <1>9 DEF vars, Net, Lags, Known, Current, Fallback, Excused
  <1> HIDE DEF IInv, TypeOK, InHistory, Changed, pmsVars, callVars, appVars
  <1>10. QED BY <1>1, <1>2, <1>3, <1>4, <1>5, <1>6, <1>7, <1>8, <1>9 DEF Next

LEMMA StepsHold ==
    ASSUME IInv, [Next]_vars
    PROVE  IInv'
  BY OtherSteps, ChangeStep, WebhookStep, SkipStep, FetchStep, StoreStep, RefreshStep, LookupStep

-----------------------------------------------------------------------------
(***************************************************************************)
(* Theorems.                                                               *)
(***************************************************************************)
LEMMA Inductive == Spec => []IInv
  <1>1. Init => IInv
    BY InitHolds
  <1>2. IInv /\ [Next]_vars => IInv'
    BY StepsHold
  <1>3. QED BY <1>1, <1>2, PTL DEF Spec

\* The copy, the calls under way and the windows keep their types
\* (PMSSyncService, Scheduler.runPMSSync).
THEOREM PmsTypeCorrect == Spec => []TypeOK
  <1>1. IInv => TypeOK
    BY DEF IInv
  <1>2. QED BY <1>1, Inductive, PTL

\* Whatever is lost, fails or restarts, a copy that lags is in the next
\* sync's window, or its change is one of the named exceptions
\* (runPMSSync, syncReservations).
THEOREM SafetyNet == Spec => []MissedKnowingly
  <1>1. IInv => MissedKnowingly
    BY DEF IInv, TypeOK, Net, Fallback, MissedKnowingly, Window, Excused
  <1>2. QED BY <1>1, Inductive, PTL

\* A refresh stores the answer it was given, never an older one, over
\* whatever webhooks and syncs stored meanwhile (refreshIfStale, doRefresh).
THEOREM RefreshesAreCurrent == Spec => RefreshIsCurrent
  <1> DEFINE IsCurrent(b) ==
        RefreshStores(b) =>
          \E n \in refresh[b].asked .. Len(history[b]) : Agrees(row'[b], history[b][n])
  <1>1. ASSUME IInv, NEW b \in Bookings, RefreshStores(b)
        PROVE  \E n \in refresh[b].asked .. Len(history[b]) : Agrees(row'[b], history[b][n])
    <2> DEFINE n == refresh[b].answer
    <2>1. /\ n \in refresh[b].asked .. Len(history[b]) /\ n \in 1 .. Len(history[b])
          /\ row[b] \in Rows \cup {NoRow} /\ history[b] \in Seq(Revisions)
      BY <1>1 DEF IInv, TypeOK, InHistory, Timely, RefreshStores, NoAnswer
    <2>2. history[b][n] \in Contents
      BY <2>1, RevisionsAreContents
    <2>3. row'[b] = Upserted(row[b], history[b][n])
      BY <1>1 DEF RefreshStores, Content, IInv, TypeOK
    <2>4. Agrees(row'[b], history[b][n])
      BY <2>1, <2>2, <2>3, UpsertedRow
    <2>5. QED BY <2>1, <2>4
  <1>2. IInv => [\A b \in Bookings : IsCurrent(b)]_vars
    BY <1>1
  <1>3. QED BY <1>2, Inductive, PTL DEF RefreshIsCurrent

-----------------------------------------------------------------------------
(***************************************************************************)
(* The copy is whole.  Whatever is under way names a revision the booking  *)
(* has, revisions are only appended, an event replaces the status alone,   *)
(* and an upsert that finds nothing changed leaves the details of the      *)
(* revision the row came with.                                             *)
(***************************************************************************)
\* The status of a revision, or one an event stands for, with all the rest.
Tells(content, revision) ==
    /\ content.stay = revision.stay /\ content.details = revision.details
    /\ content.status \in {revision.status} \cup Overrides

Copies(r, revisions) == r # NoRow => \E n \in DOMAIN revisions : Tells(r, revisions[n])

\* What a notice says is its reservation's status, or an event's.
Told ==
    \A s \in webhooks : s.says \in {history[s.of][s.number].status} \cup Overrides

Whole == Told /\ \A b \in Bookings : Copies(row[b], history[b])

LEMMA WholeIsOneRevision == Whole => CopyIsOneRevision
  BY DEF Whole, CopyIsOneRevision, Copies, Tells

LEMMA UpsertCopies ==
    ASSUME NEW revisions \in Seq(Revisions), NEW stored \in Rows \cup {NoRow},
           Copies(stored, revisions), NEW n \in 1 .. Len(revisions),
           NEW content \in Contents, Tells(content, revisions[n])
    PROVE  /\ Copies(Upserted(stored, content), revisions)
           /\ Copies(Fresh(content), revisions)
  <1>1. Copies(Fresh(content), revisions)
    BY DEF Copies, Tells, Fresh
  <1>2. CASE HasChanges(stored, content)
    BY <1>1, <1>2 DEF Upserted
  <1>3. CASE ~HasChanges(stored, content)
    <2>1. stored \in Rows /\ stored # NoRow
      BY <1>3 DEF HasChanges
    <2>2. PICK r : r = [stored EXCEPT !.stale = FALSE]
      OBVIOUS
    <2>3. r.status = stored.status /\ r.stay = stored.stay /\ r.details = stored.details
      BY <2>1, <2>2 DEF Rows
    <2>4. Copies(r, revisions)
      BY <2>1, <2>3 DEF Copies, Tells
    <2>5. QED BY <1>1, <1>3, <2>2, <2>4 DEF Upserted
  <1>4. QED BY <1>1, <1>2, <1>3

\* A revision tells itself.
LEMMA RevisionTells ==
    ASSUME NEW revision \in Revisions
    PROVE  revision \in Contents /\ Tells(revision, revision)
  BY RevisionsAreContents DEF Tells

\* One row is written, from one revision.
LEMMA StoringCopies ==
    ASSUME IInv, Whole, UNCHANGED history, webhooks' \subseteq webhooks,
           NEW b \in Bookings, NEW n \in 1 .. Len(history[b]),
           NEW content \in Contents, Tells(content, history[b][n]),
           NEW r, r = Upserted(row[b], content) \/ r = Fresh(content),
           row' = [row EXCEPT ![b] = r]
    PROVE  Whole'
  <1>1. history[b] \in Seq(Revisions) /\ row[b] \in Rows \cup {NoRow}
    BY DEF IInv, TypeOK
  <1>2. Copies(r, history[b])
    BY <1>1, UpsertCopies DEF Whole
  <1>3. \A a \in Bookings : row'[a] = IF a = b THEN r ELSE row[a]
    BY DEF IInv, TypeOK
  <1>4. \A a \in Bookings : Copies(row'[a], history'[a])
    BY <1>2, <1>3 DEF Whole
  <1>5. Told'
    BY DEF Whole, Told
  <1>6. QED BY <1>4, <1>5 DEF Whole

LEMMA SyncCopies ==
    ASSUME IInv, Whole, NEW p \in Syncs, NEW failing \in SUBSET Bookings,
           SyncStores(p, failing)
    PROVE  Whole'
  <1> DEFINE stored == {snap \in fetched[p] : snap.of \notin failing}
  <1>1. history' = history /\ Told'
    BY DEF SyncStores, Whole, Told
  <1>2. SUFFICES ASSUME NEW b \in Bookings PROVE Copies(row'[b], history[b])
    BY <1>1 DEF Whole
  <1>3. history[b] \in Seq(Revisions) /\ row[b] \in Rows \cup {NoRow} /\ Copies(row[b], history[b])
    BY DEF IInv, TypeOK, Whole
  <1>4. CASE \E snap \in stored : snap.of = b
    <2>1. PICK s : s = CHOOSE snap \in stored : snap.of = b
      OBVIOUS
    <2>2. s \in stored /\ s.of = b
      BY <1>4, <2>1
    <2>3. s.number \in 1 .. Len(history[b])
      BY <2>2 DEF SyncStores, IInv, InHistory
    <2>4. row'[b] = Upserted(row[b], history[b][s.number])
      BY <1>4, <2>1, <2>2 DEF SyncStores, Content
    <2>5. PICK revision \in Revisions : revision = history[b][s.number]
      BY <1>3, <2>3
    <2>6. QED BY <1>3, <2>3, <2>4, <2>5, RevisionTells, UpsertCopies
  <1>5. CASE ~\E snap \in stored : snap.of = b
    BY <1>3, <1>5 DEF SyncStores
  <1>6. QED BY <1>4, <1>5

\* A new revision leaves the earlier ones, and its notice says its status or
\* an event's.
LEMMA ChangeCopies ==
    ASSUME IInv, Whole, NEW b \in Bookings, NEW revision \in Revisions, PmsChanges(b, revision)
    PROVE  Whole'
  <1>1. ASSUME NEW a \in Bookings
        PROVE  /\ DOMAIN history[a] = 1 .. Len(history[a]) /\ Len(history[a]) \in Nat
               /\ DOMAIN history[a] \subseteq DOMAIN history'[a]
               /\ \A n \in DOMAIN history[a] : history'[a][n] = history[a][n]
               /\ history'[b][Len(history'[b])] = revision
    <2>1. history[a] \in Seq(Revisions) /\ history[b] \in Seq(Revisions)
      BY DEF IInv, TypeOK
    <2>2. /\ history'[a] = IF a = b THEN Append(history[b], revision) ELSE history[a]
          /\ history'[b] = Append(history[b], revision)
      BY DEF PmsChanges, IInv, TypeOK
    <2>3. QED BY <2>1, <2>2
  <1>2. \A a \in Bookings : Copies(row'[a], history'[a])
    BY <1>1 DEF PmsChanges, Whole, Copies
  <1>3. Told'
    <2>1. ASSUME NEW s \in webhooks PROVE s.says \in {history'[s.of][s.number].status} \cup Overrides
      <3>1. s.of \in Bookings /\ s.number \in 1 .. Len(history[s.of])
        BY DEF IInv, TypeOK, InHistory, Notices
      <3>2. QED BY <1>1, <3>1 DEF Whole, Told
    <2>2. \/ webhooks' = webhooks
          \/ \E status \in {revision.status} \cup Overrides :
               webhooks' = webhooks \cup {[of |-> b, number |-> Len(history'[b]), says |-> status]}
      BY DEF PmsChanges
    <2>3. QED BY <1>1, <2>1, <2>2 DEF Told
  <1>4. QED BY <1>2, <1>3 DEF Whole

LEMMA CopiesStep ==
    ASSUME IInv, Whole, [Next]_vars
    PROVE  Whole'
  <1>1. ASSUME UNCHANGED <<row, history>>, webhooks' \subseteq webhooks PROVE Whole'
    BY <1>1 DEF Whole, Told
  <1>2. ASSUME NEW b \in Bookings, NEW revision \in Revisions, PmsChanges(b, revision)
        PROVE  Whole'
    BY <1>2, ChangeCopies
  <1>3. ASSUME NEW notice \in webhooks, WebhookArrives(notice)
        PROVE  Whole'
    <2>1. /\ notice.of \in Bookings /\ notice.number \in 1 .. Len(history[notice.of])
          /\ Content(notice) \in Contents /\ Said(notice) \in Contents
          /\ Said(notice) = [Content(notice) EXCEPT !.status = notice.says]
      BY SaidIsContent, RevisionsAreContents DEF IInv
    <2>2. PICK b \in Bookings : b = notice.of
      BY <2>1
    <2>3. PICK n \in 1 .. Len(history[b]) : n = notice.number
      BY <2>1, <2>2
    <2>4. PICK content \in Contents : content = Said(notice)
      BY <2>1
    <2>5. Tells(content, history[b][n])
      <3>1. notice.says \in {Content(notice).status} \cup Overrides /\ Content(notice) = history[b][n]
        BY <2>2, <2>3 DEF Whole, Told, Content
      <3>2. QED BY <2>1, <2>4, <3>1 DEF Tells, Contents
    <2>6. PICK r : r = Upserted(row[b], content)
      OBVIOUS
    <2>7. row' = [row EXCEPT ![b] = r] /\ UNCHANGED history /\ webhooks' \subseteq webhooks
      BY <1>3, <2>2, <2>4, <2>6 DEF WebhookArrives, pmsVars
    <2>8. QED BY <2>5, <2>6, <2>7, StoringCopies
  <1>4. ASSUME NEW b \in Bookings, RefreshStores(b)
        PROVE  Whole'
    <2>1. PICK n \in 1 .. Len(history[b]) : n = refresh[b].answer
      BY <1>4 DEF RefreshStores, IInv, TypeOK, InHistory, Timely, NoAnswer
    <2>2. PICK revision \in Revisions : revision = history[b][n]
      BY DEF IInv, TypeOK
    <2>3. PICK r : r = Upserted(row[b], revision)
      OBVIOUS
    <2>4. row' = [row EXCEPT ![b] = r] /\ UNCHANGED <<history, webhooks>>
      BY <1>4, <2>1, <2>2, <2>3 DEF RefreshStores, Content, pmsVars
    <2>5. QED BY <2>2, <2>3, <2>4, RevisionTells, StoringCopies
  <1>5. ASSUME NEW b \in Bookings, LookupStores(b)
        PROVE  Whole'
    <2>1. PICK n \in 1 .. Len(history[b]) : n = lookup[b]
      BY <1>5 DEF LookupStores, IInv, TypeOK, InHistory, NoAnswer
    <2>2. PICK revision \in Revisions : revision = history[b][n]
      BY DEF IInv, TypeOK
    <2>3. PICK r : r = Fresh(revision)
      OBVIOUS
    <2>4. row' = [row EXCEPT ![b] = r] /\ UNCHANGED <<history, webhooks>>
      BY <1>5, <2>1, <2>2, <2>3 DEF LookupStores, Content, pmsVars
    <2>5. QED BY <2>2, <2>3, <2>4, RevisionTells, StoringCopies
  <1>6. ASSUME NEW b \in Bookings, GoesStale(b)
        PROVE  Whole'
    <2>1. row[b] \in Rows /\ row[b] # NoRow /\ UNCHANGED <<history, webhooks>>
      BY <1>6 DEF GoesStale, IInv, TypeOK, pmsVars
    <2>2. PICK r : r = [row[b] EXCEPT !.stale = TRUE]
      OBVIOUS
    <2>3. r.status = row[b].status /\ r.stay = row[b].stay /\ r.details = row[b].details
      BY <2>1, <2>2 DEF Rows
    <2>4. \A a \in Bookings : row'[a] = IF a = b THEN r ELSE row[a]
      BY <1>6, <2>2 DEF GoesStale, IInv, TypeOK
    <2>5. QED BY <2>1, <2>3, <2>4 DEF Whole, Told, Copies, Tells
  <1>7. ASSUME NEW p \in Syncs, NEW failing \in SUBSET Bookings, SyncStores(p, failing)
        PROVE  Whole'
    BY <1>7, SyncCopies
  <1>8. CASE \/ \E notice \in webhooks : WebhookLost(notice)
             \/ \E p \in Syncs : SyncSkipped(p) \/ SyncFetches(p) \/ SyncFails(p)
             \/ \E b \in Bookings : RefreshAsks(b) \/ RefreshAnswered(b) \/ RefreshFails(b)
                                    \/ LookupAnswered(b)
             \/ DayPasses \/ Switch \/ Restart \/ UNCHANGED vars
    BY <1>1, <1>8 DEF WebhookLost, SyncSkipped, SyncFetches, SyncFails, RefreshAsks, RefreshAnswered,
       RefreshFails, LookupAnswered, DayPasses, Switch, Restart, vars, pmsVars
  <1>9. QED BY <1>2, <1>3, <1>4, <1>5, <1>6, <1>7, <1>8 DEF Next

\* Room, dates and details of a copied reservation are those of one revision
\* the PMS had, and so is its status, or an event gave it, whatever webhooks,
\* syncs, refreshes and lookups overtook each other (upsertReservation,
\* processEventWebhook).
THEOREM CopiesAreWhole == Spec => []CopyIsOneRevision
  <1>1. Init => Whole
    BY DEF Init, Whole, Told, Copies
  <1>2. IInv /\ Whole /\ [Next]_vars => Whole'
    BY CopiesStep
  <1>3. QED BY <1>1, <1>2, Inductive, WholeIsOneRevision, PTL DEF Spec
=============================================================================
