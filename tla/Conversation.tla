---------------------------- MODULE Conversation ----------------------------
(***************************************************************************)
(* One row of the `conversations` table and what ConversationService does  *)
(* to it (src/services/conversation.ts).                                   *)
(*                                                                         *)
(* Data the properties do not tell apart is dropped: ids, timestamps other *)
(* than "is it past the idle cutoff", the intent and the free metadata.    *)
(* A timestamp column is "null", "fresh" or "old" (past the cutoff of the  *)
(* idle job).  verification is metadata.verification: the failed attempts  *)
(* and which of the two credentials have been collected so far.            *)
(***************************************************************************)
EXTENDS Naturals

CONSTANTS
    Guests,       \* guest profiles
    NoGuest,      \* guestId IS NULL
    MaxAttempts   \* MAX_VERIFICATION_ATTEMPTS

ASSUME NoGuestAssumption == NoGuest \notin Guests
ASSUME MaxAttemptsAssumption == MaxAttempts \in Nat \ {0}

\* 'waiting' is only in the idle query (src/scheduler/index.ts:210).
States == {"new", "active", "waiting", "escalated", "resolved", "closed"}

\* What the PATCH route of the dashboard accepts: no 'waiting'.
PatchableStates == States \ {"waiting"}

Stamps == {"null", "fresh", "old"}
Credentials == {"lastName", "confirmationNumber"}
Verification == [attempts : Nat, held : SUBSET Credentials]
NotStarted == [attempts |-> 0, held |-> {}]

Languages == {"system", "foreign"}
NoLanguage == "unknown"

NoConversation == [state |-> "none"]

Rows == [state : States, guest : Guests \cup {NoGuest},
         verification : Verification, language : Languages \cup {NoLanguage},
         lastMessageAt : Stamps, updatedAt : {"fresh", "old"}]

Exists(row) == row.state # "none"

(***************************************************************************)
(* The writes.  update() bumps updatedAt whatever the input; addMessage()  *)
(* bumps both stamps and leaves the state alone.                           *)
(***************************************************************************)
CreateRow(guest) ==
    [state |-> "active", guest |-> guest, verification |-> NotStarted,
     language |-> NoLanguage, lastMessageAt |-> "null", updatedAt |-> "fresh"]

Reactivates(row) == row.state \in {"resolved", "closed"}
LinksGuest(row, guest) == guest # NoGuest /\ row.guest = NoGuest

\* The UPDATE runs only when something besides updatedAt changes.
ReuseRow_Relinks(row, guest) ==
    [row EXCEPT !.state = IF Reactivates(row) THEN "active" ELSE @,
                !.guest = IF guest # NoGuest THEN guest ELSE @,
                !.updatedAt = "fresh"]

ReuseRow(row, guest) ==
    IF Reactivates(row) \/ LinksGuest(row, guest)
    THEN [row EXCEPT !.state = IF Reactivates(row) THEN "active" ELSE @,
                     !.guest = IF LinksGuest(row, guest) THEN guest ELSE @,
                     !.updatedAt = "fresh"]
    ELSE row

FindOrCreate(row, guest) ==
    IF Exists(row) THEN ReuseRow(row, guest) ELSE CreateRow(guest)

UpdateState(row, state) == [row EXCEPT !.state = state, !.updatedAt = "fresh"]

SetLanguage(row, language) ==
    [row EXCEPT !.language = language, !.updatedAt = "fresh"]

StoreVerification_LosesHeld(row, attempts, held) ==
    [row EXCEPT !.verification = [attempts |-> attempts], !.updatedAt = "fresh"]

StoreVerification(row, attempts, held) ==
    [row EXCEPT !.verification = [attempts |-> attempts, held |-> held],
                !.updatedAt = "fresh"]

LinkVerifiedGuest(row, guest) ==
    [row EXCEPT !.guest = guest, !.verification = NotStarted,
                !.updatedAt = "fresh"]

AddMessage_FirstOnly(row) ==
    [row EXCEPT !.lastMessageAt = IF @ = "null" THEN "fresh" ELSE @,
                !.updatedAt = "fresh"]

AddMessage(row) == [row EXCEPT !.lastMessageAt = "fresh", !.updatedAt = "fresh"]

(***************************************************************************)
(* The query of the conversation-idle-timeout job: 'new' and 'closed' rows *)
(* are never picked, and updated_at counts only while no message was saved.*)
(***************************************************************************)
IdleStates_OpenOnly == {"active", "waiting", "escalated"}

IdleStates == {"active", "waiting", "escalated", "resolved"}

IsIdle(row) ==
    /\ Exists(row)
    /\ row.state \in IdleStates
    /\ \/ row.lastMessageAt = "old"
       \/ row.lastMessageAt = "null" /\ row.updatedAt = "old"

\* Four hours pass without a write to the row.
Aged(row) == [row EXCEPT !.updatedAt = "old",
                         !.lastMessageAt = IF @ = "null" THEN "null" ELSE "old"]

=============================================================================
