---------------------------- MODULE WebChatSession ----------------------------
(***************************************************************************)
(* One row of `webchat_sessions` and what WebChatSessionService does to it *)
(* (src/services/webchat-session.ts).                                      *)
(*                                                                         *)
(* Instants are days.  A session's conversation is named by the session    *)
(* that opened it: the pipeline finds a web-chat conversation by           *)
(* channelId, which is the session id.                                     *)
(***************************************************************************)
EXTENDS Integers

CONSTANTS
    Sessions,        \* session ids
    NoSession,       \* no conversation linked
    Guests,
    NoGuest,
    Bookings,
    NoBooking,
    GuestOf,         \* the guest a booking names
    Stay,            \* the first and last day of a booking
    AnonymousTTL,    \* 24 hours
    PreArrivalTTL,   \* 7 days
    CheckoutBuffer   \* 24 hours

ASSUME AbsenceAssumption ==
    NoSession \notin Sessions /\ NoGuest \notin Guests /\ NoBooking \notin Bookings
ASSUME BookingAssumption ==
    /\ GuestOf \in [Bookings -> Guests]
    /\ Stay \in [Bookings -> [checkIn : Nat, checkOut : Nat]]
ASSUME TTLAssumption ==
    /\ AnonymousTTL \in Nat \ {0}
    /\ PreArrivalTTL \in Nat \ {0}
    /\ CheckoutBuffer \in Nat

Codes == {"none", "pending", "expired"}

SessionRows ==
    [conversation : Sessions \cup {NoSession}, status : {"anonymous", "verified"},
     guest : Guests \cup {NoGuest}, booking : Bookings \cup {NoBooking},
     attempts : Nat, code : Codes, expiresAt : Nat, lastActivityAt : Nat]

Unborn == [status |-> "unborn"]
Deleted == [status |-> "deleted"]
Stored(row) == row.status \in {"anonymous", "verified"}

NewRow_NoCode(now) ==
    [conversation |-> NoSession, status |-> "anonymous", guest |-> NoGuest,
     booking |-> NoBooking, attempts |-> 0,
     expiresAt |-> now + AnonymousTTL, lastActivityAt |-> now]

NewRow(now) ==
    [conversation |-> NoSession, status |-> "anonymous", guest |-> NoGuest,
     booking |-> NoBooking, attempts |-> 0, code |-> "none",
     expiresAt |-> now + AnonymousTTL, lastActivityAt |-> now]

\* validate(): an expired row is as good as none.
Valid(row, now) == Stored(row) /\ row.expiresAt > now

\* An UPDATE of a row the cleanup has deleted changes nothing.
OnStored(row, changed) == IF Stored(row) THEN changed ELSE row

Touch_AnyStatus(row, now) ==
    OnStored(row, [row EXCEPT !.lastActivityAt = now, !.expiresAt = now + AnonymousTTL])

Touch_KeepsExpiry(row, now) == OnStored(row, [row EXCEPT !.lastActivityAt = now])

\* touch(): only an anonymous session's expiry rolls.
Touch(row, now) ==
    OnStored(row, [row EXCEPT !.lastActivityAt = now,
                              !.expiresAt = IF row.status = "anonymous"
                                            THEN now + AnonymousTTL ELSE @])

LinkConversation(row, c) == OnStored(row, [row EXCEPT !.conversation = c])

\* The last day of the stay counts until its midnight.
EndOfStay(b) == Stay[b].checkOut + 1 + CheckoutBuffer

ExpiryFor_BeforeLastDay(b, now) ==
    IF now < Stay[b].checkIn THEN now + PreArrivalTTL
    ELSE IF now < Stay[b].checkOut THEN EndOfStay(b)
    ELSE now

\* verify(): the expiry depends on where the guest is in the stay.  Its case
\* without dates is not reached: the one caller passes a reservations row,
\* whose dates are NOT NULL.
ExpiryFor(b, now) ==
    IF now < Stay[b].checkIn THEN now + PreArrivalTTL
    ELSE IF now <= Stay[b].checkOut THEN EndOfStay(b)
    ELSE now

MarkVerified(row, b, now) ==
    OnStored(row, [row EXCEPT !.status = "verified", !.guest = GuestOf[b], !.booking = b,
                              !.attempts = 0, !.code = "none",
                              !.expiresAt = ExpiryFor(b, now), !.lastActivityAt = now])

CountAttempt(row) == OnStored(row, [row EXCEPT !.attempts = @ + 1])
SetCode(row, code) == OnStored(row, [row EXCEPT !.code = code])

CleanupDeletes_AnonymousOnly(row, now) == row.status = "anonymous" /\ row.expiresAt < now

\* cleanupExpired() deletes what expired before now.
CleanupDeletes(row, now) == Stored(row) /\ row.expiresAt < now
=============================================================================
