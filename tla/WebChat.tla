------------------------------- MODULE WebChat -------------------------------
(***************************************************************************)
(* The web chat: sockets of a session, guest messages through the          *)
(* pipeline, booking verification over HTTP with the restore of the        *)
(* guest's earlier conversation, staff replies, session expiry and         *)
(* cleanup (src/apps/channels/webchat, src/services/webchat-*.ts).         *)
(*                                                                         *)
(* One action per stretch between two waits on I/O, as in MessagePipeline, *)
(* whose waits are folded here: before the guest's message is saved        *)
(* ("thinking"), after ("saved") and after a lookup matched ("verified").  *)
(***************************************************************************)
EXTENDS WebChatSession, FiniteSets

CONSTANTS
    Messages,         \* guest messages
    Requests,         \* verification forms that may be under way at once
    Replies,          \* staff replies
    SessionOf,        \* the session a message or a form belongs to
    MaxAttempts,      \* MAX_VERIFICATION_ATTEMPTS
    MaxCodeRequests,  \* MAX_CODE_REQUESTS_PER_HOUR
    Methods,          \* the verification methods guests use
    HasWelcome,       \* a welcome message is configured
    MaxDay, MaxCrashes

ASSUME FormsAssumption == IsFiniteSet(Requests)
ASSUME SessionOfAssumption == SessionOf \in [Messages \cup Requests -> Sessions]
ASSUME WebChatBoundsAssumption ==
    /\ MaxAttempts \in Nat \ {0} /\ MaxCodeRequests \in Nat \ {0}
    /\ MaxDay \in Nat /\ MaxCrashes \in Nat
    /\ HasWelcome \in BOOLEAN /\ Methods \subseteq {"booking", "email", "code"}

VARIABLES
    now,           \* today
    session,       \* webchat_sessions
    online,        \* sessions with an open socket
    owner,         \* conversations.guest_id
    recent,        \* the web-chat conversations by updatedAt: <<d, c>> when
                   \* d was updated no later than c
    thread,        \* messages per conversation
    msgPc,         \* what a guest message's handler is waiting for
    reqPc,         \* what a form's handler is waiting for
    reqConv,       \* the conversation in the session row execute() read
    codeRequests,  \* code requests within the hour, kept in memory
    crashes

sessionVars == <<now, session, online, codeRequests>>
convVars == <<owner, recent, thread>>
vars == <<now, session, online, owner, recent, thread, msgPc, reqPc, reqConv,
          codeRequests, crashes>>

Line(who, x) == [by |-> who, of |-> x]
Lines == [by : {"guest", "ai"}, of : Messages] \cup [by : {"result"}, of : Requests]
         \cup [by : {"staff"}, of : Replies] \cup [by : {"welcome"}, of : Sessions]
Handling == {"thinking", "saved", "verified"}
MsgStages == {"unsent", "answered", "failed", "lost"} \cup Handling
Waiting == {"booking", "email", "code"}
ReqStages == {"idle"} \cup Waiting

Opened(c) == <<c, c>> \in recent

\* c was updated last.
Bump(order, c) ==
    {p \in order : c \notin {p[1], p[2]}}
        \cup {<<d, c>> : d \in {c} \cup {e \in Sessions : <<e, e>> \in order}}

\* conversationService.addMessage
AddLine(c, line) ==
    /\ thread' = [thread EXCEPT ![c] = @ \cup {line}]
    /\ recent' = Bump(recent, c)

\* The one of these conversations updated last, if there is any.
LatestOf(own) ==
    IF own = {} THEN {NoSession} ELSE {c \in own : \A d \in own : <<d, c>> \in recent}

PreviousOf_AnyGuest(g) == LatestOf({c \in Sessions : Opened(c)})

\* findByGuestAndChannel: the guest's web-chat conversation updated last.
PreviousOf(g) == LatestOf({c \in Sessions : Opened(c) /\ owner[c] = g})

Init ==
    /\ now = 0
    /\ session = [s \in Sessions |-> Unborn]
    /\ online = {}
    /\ owner = [s \in Sessions |-> NoGuest]
    /\ recent = {}
    /\ thread = [s \in Sessions |-> {}]
    /\ msgPc = [m \in Messages |-> "unsent"]
    /\ reqPc = [r \in Requests |-> "idle"]
    /\ reqConv = [r \in Requests |-> NoSession]
    /\ codeRequests = [s \in Sessions |-> 0]
    /\ crashes = 0

-----------------------------------------------------------------------------
(***************************************************************************)
(* Connections.  No token, or an expired one, opens a new session; the     *)
(* welcome message opens and links its conversation at once.               *)
(***************************************************************************)
Connect(s) ==
    /\ session[s] = Unborn
    /\ online' = online \cup {s}
    /\ \/ /\ HasWelcome
          /\ session' = [session EXCEPT ![s] = LinkConversation(NewRow(now), s)]
          /\ AddLine(s, Line("welcome", s))
       \/ /\ ~HasWelcome
          /\ session' = [session EXCEPT ![s] = NewRow(now)]
          /\ UNCHANGED <<recent, thread>>
    /\ UNCHANGED <<now, owner, msgPc, reqPc, reqConv, codeRequests, crashes>>

Reconnect(s) ==
    /\ s \notin online
    /\ Valid(session[s], now)
    /\ online' = online \cup {s}
    /\ UNCHANGED <<now, session, owner, recent, thread, msgPc, reqPc, reqConv,
                   codeRequests, crashes>>

\* The session stays in the database.
Disconnect(s) ==
    /\ s \in online
    /\ online' = online \ {s}
    /\ UNCHANGED <<now, session, owner, recent, thread, msgPc, reqPc, reqConv,
                   codeRequests, crashes>>

-----------------------------------------------------------------------------
(***************************************************************************)
(* A guest message.  The open socket is what admits it: the session row    *)
(* is touched, not validated.  The pipeline finds or creates the           *)
(* conversation of channelId = session id.                                 *)
(***************************************************************************)
GuestSays(m) ==
    LET s == SessionOf[m] IN
    /\ s \in online
    /\ msgPc[m] = "unsent"
    /\ msgPc' = [msgPc EXCEPT ![m] = "thinking"]
    /\ session' = [session EXCEPT ![s] = Touch(@, now)]
    /\ recent' = IF Opened(s) THEN recent ELSE Bump(recent, s)
    /\ UNCHANGED <<now, online, owner, thread, reqPc, reqConv, codeRequests, crashes>>

SaveInbound(m) ==
    /\ msgPc[m] = "thinking"
    /\ msgPc' = [msgPc EXCEPT ![m] = "saved"]
    /\ AddLine(SessionOf[m], Line("guest", m))
    /\ UNCHANGED <<now, session, online, owner, reqPc, reqConv, codeRequests, crashes>>

\* checkVerification's lookup matches: the conversation gets the guest, the
\* session row does not.
VerifyInChat(m, g) ==
    LET c == SessionOf[m] IN
    /\ msgPc[m] = "saved"
    /\ msgPc' = [msgPc EXCEPT ![m] = "verified"]
    /\ owner' = [owner EXCEPT ![c] = g]
    /\ recent' = Bump(recent, c)
    /\ UNCHANGED <<now, session, online, thread, reqPc, reqConv, codeRequests, crashes>>

\* The reply is saved, the session linked to the conversation the pipeline
\* used, and the reply sent to the session's sockets.
Reply(m) ==
    LET s == SessionOf[m] IN
    /\ msgPc[m] \in {"saved", "verified"}
    /\ msgPc' = [msgPc EXCEPT ![m] = "answered"]
    /\ AddLine(s, Line("ai", m))
    /\ session' = [session EXCEPT ![s] = LinkConversation(@, s)]
    /\ UNCHANGED <<now, online, owner, reqPc, reqConv, codeRequests, crashes>>

ReplyFails_Links(m) ==
    /\ msgPc[m] \in {"saved", "verified"}
    /\ msgPc' = [msgPc EXCEPT ![m] = "failed"]
    /\ session' = [session EXCEPT ![SessionOf[m]] = LinkConversation(@, SessionOf[m])]
    /\ UNCHANGED <<now, online, owner, recent, thread, reqPc, reqConv, codeRequests, crashes>>

\* The run fails: an error goes to the sockets, nothing is linked.
ReplyFails(m) ==
    /\ msgPc[m] \in {"saved", "verified"}
    /\ msgPc' = [msgPc EXCEPT ![m] = "failed"]
    /\ UNCHANGED <<now, session, online, owner, recent, thread, reqPc, reqConv,
                   codeRequests, crashes>>

-----------------------------------------------------------------------------
(***************************************************************************)
(* Staff reply: saved, then sent to the sockets of the conversation's      *)
(* channelId (which keep nothing of it).                                   *)
(***************************************************************************)
StaffReply(c, x) ==
    /\ Opened(c)
    /\ \A d \in Sessions : Line("staff", x) \notin thread[d]
    /\ AddLine(c, Line("staff", x))
    /\ UNCHANGED <<now, session, online, owner, msgPc, reqPc, reqConv, codeRequests, crashes>>

-----------------------------------------------------------------------------
(***************************************************************************)
(* Verification form: POST /webchat/actions/verify-reservation.  execute() *)
(* validates the token, keeps the session row it read, touches it and      *)
(* dispatches; verifyReservation() checks the attempts before the PMS.     *)
(***************************************************************************)
Submitted(r) == reqPc[r] = "idle" /\ Valid(session[SessionOf[r]], now)

MayTry_CapPlusOne(s) == session[s].attempts <= MaxAttempts

MayTry(s) == session[s].attempts < MaxAttempts

Submit(r, method) ==
    LET s == SessionOf[r]
        rejected == ~MayTry(s) \/ (method = "code" /\ session[s].code # "pending")
    IN  /\ Submitted(r)
        /\ reqPc' = [reqPc EXCEPT ![r] = IF rejected THEN "idle" ELSE method]
        /\ reqConv' = [reqConv EXCEPT ![r] = IF rejected THEN NoSession
                                             ELSE session[s].conversation]
        /\ session' = [session EXCEPT ![s] =
                         IF MayTry(s) /\ method = "code" /\ @.code = "expired"
                         THEN CountAttempt(Touch(@, now)) ELSE Touch(@, now)]
        /\ UNCHANGED <<now, online, owner, recent, thread, msgPc, codeRequests, crashes>>

\* The code is wrong.
WrongCode(r) ==
    LET s == SessionOf[r] IN
    /\ Submitted(r)
    /\ MayTry(s) /\ session[s].code = "pending"
    /\ session' = [session EXCEPT ![s] = CountAttempt(Touch(@, now))]
    /\ UNCHANGED <<now, online, owner, recent, thread, msgPc, reqPc, reqConv,
                   codeRequests, crashes>>

\* The form is answered; the guest may submit another.
Answered(r) ==
    /\ reqPc' = [reqPc EXCEPT ![r] = "idle"]
    /\ reqConv' = [reqConv EXCEPT ![r] = NoSession]

\* No such booking or e-mail, or the name does not match.  A code that
\* matched but finds no booking is not counted.
LookupFails(r) ==
    LET s == SessionOf[r] IN
    /\ reqPc[r] \in Waiting
    /\ Answered(r)
    /\ session' = [session EXCEPT ![s] = IF reqPc[r] = "code" THEN @ ELSE CountAttempt(@)]
    /\ UNCHANGED <<now, online, owner, recent, thread, msgPc, codeRequests, crashes>>

\* The e-mail is known: a code is set unless the session, or the address
\* from other sessions, asked too often within the hour.  The answer is a
\* success and saved as such.
SendCode(r) ==
    LET s == SessionOf[r] IN
    /\ reqPc[r] = "email"
    /\ Answered(r)
    /\ \/ /\ codeRequests[s] < MaxCodeRequests
          /\ codeRequests' = [codeRequests EXCEPT ![s] = @ + 1]
          /\ session' = [session EXCEPT ![s] = SetCode(@, "pending")]
          /\ IF reqConv[r] = NoSession THEN UNCHANGED <<recent, thread>>
             ELSE AddLine(reqConv[r], Line("result", r))
       \/ UNCHANGED <<codeRequests, session, recent, thread>>
    /\ UNCHANGED <<now, online, owner, msgPc, crashes>>

\* moveMessages
Moved_Copied(from, to) == [thread EXCEPT ![to] = @ \cup thread[from]]

Moved(from, to) == [thread EXCEPT ![from] = {}, ![to] = @ \cup thread[from]]

(***************************************************************************)
(* completeVerification, then execute() saves the result message into the  *)
(* conversation of the row it read before the lookup.                      *)
(***************************************************************************)
Completes(r, b, previous) ==
    LET s == SessionOf[r]
        g == GuestOf[b]
        row == MarkVerified(session[s], b, now)
        current == IF Stored(row) THEN row.conversation ELSE NoSession
        restores == NoSession \notin {current, previous} /\ current # previous
        target == IF restores THEN previous ELSE current
        updated == IF target = NoSession THEN recent ELSE Bump(recent, target)
        moved == IF restores THEN Moved(current, previous) ELSE thread
    IN  /\ reqPc[r] \in {"booking", "code"}
        /\ Answered(r)
        /\ session' = [session EXCEPT ![s] = IF restores THEN LinkConversation(row, target)
                                                         ELSE row]
        /\ owner' = IF target = NoSession THEN owner ELSE [owner EXCEPT ![target] = g]
        /\ IF reqConv[r] = NoSession
           THEN thread' = moved /\ recent' = updated
           ELSE /\ thread' = [moved EXCEPT ![reqConv[r]] = @ \cup {Line("result", r)}]
                /\ recent' = Bump(updated, reqConv[r])
        /\ UNCHANGED <<now, online, msgPc, codeRequests, crashes>>

\* The guest's previous conversation is read after the session is verified.
Complete(r, b) == \E previous \in PreviousOf(GuestOf[b]) : Completes(r, b, previous)

-----------------------------------------------------------------------------
\* Ten minutes pass: the code expires.
CodeExpires(s) ==
    /\ Stored(session[s]) /\ session[s].code = "pending"
    /\ session' = [session EXCEPT ![s] = SetCode(@, "expired")]
    /\ UNCHANGED <<now, online, owner, recent, thread, msgPc, reqPc, reqConv,
                   codeRequests, crashes>>

\* A day passes; no PMS or AI call takes that long.
NextDay ==
    /\ now < MaxDay
    /\ \A m \in Messages : msgPc[m] \notin Handling
    /\ \A r \in Requests : reqPc[r] \notin Waiting
    /\ now' = now + 1
    /\ session' = [s \in Sessions |->
                     IF Stored(session[s]) /\ session[s].code = "pending"
                     THEN SetCode(session[s], "expired") ELSE session[s]]
    /\ codeRequests' = [s \in Sessions |-> 0]
    /\ UNCHANGED <<online, owner, recent, thread, msgPc, reqPc, reqConv, crashes>>

\* The webchat-session-cleanup job.
Cleanup ==
    /\ \E s \in Sessions : CleanupDeletes(session[s], now)
    /\ session' = [s \in Sessions |->
                     IF CleanupDeletes(session[s], now) THEN Deleted ELSE session[s]]
    /\ UNCHANGED <<now, online, owner, recent, thread, msgPc, reqPc, reqConv,
                   codeRequests, crashes>>

Crash ==
    /\ crashes < MaxCrashes
    /\ crashes' = crashes + 1
    /\ online' = {}
    /\ codeRequests' = [s \in Sessions |-> 0]
    /\ msgPc' = [m \in Messages |-> IF msgPc[m] \in Handling THEN "lost"
                                    ELSE msgPc[m]]
    /\ reqPc' = [r \in Requests |-> "idle"]
    /\ reqConv' = [r \in Requests |-> NoSession]
    /\ UNCHANGED <<now, session, owner, recent, thread>>

Next ==
    \/ \E s \in Sessions : Connect(s) \/ Reconnect(s) \/ Disconnect(s) \/ CodeExpires(s)
    \/ \E m \in Messages : GuestSays(m) \/ SaveInbound(m) \/ Reply(m) \/ ReplyFails(m)
    \/ \E m \in Messages, g \in Guests : VerifyInChat(m, g)
    \/ \E c \in Sessions, x \in Replies : StaffReply(c, x)
    \/ \E r \in Requests, method \in Methods : Submit(r, method)
    \/ \E r \in Requests : WrongCode(r) \/ LookupFails(r) \/ SendCode(r)
    \/ \E r \in Requests, b \in Bookings : Complete(r, b)
    \/ NextDay \/ Cleanup \/ Crash

Spec == Init /\ [][Next]_vars

\* The cleanup job's timer keeps firing.
FairSpec == Spec /\ WF_vars(Cleanup)

-----------------------------------------------------------------------------
(***************************************************************************)
(* Properties.                                                             *)
(***************************************************************************)
\* The type invariant.
TypeOK ==
    /\ now \in 0 .. MaxDay
    /\ session \in [Sessions -> SessionRows \cup {Unborn, Deleted}]
    /\ online \subseteq Sessions
    /\ owner \in [Sessions -> Guests \cup {NoGuest}]
    /\ recent \subseteq Sessions \X Sessions
    /\ thread \in [Sessions -> SUBSET Lines]
    /\ msgPc \in [Messages -> MsgStages]
    /\ reqPc \in [Requests -> ReqStages]
    /\ reqConv \in [Requests -> Sessions \cup {NoSession}]
    /\ codeRequests \in [Sessions -> Nat]
    /\ crashes \in Nat

InOneConversation(line) ==
    \E c \in Sessions : \A d \in Sessions : line \in thread[d] <=> d = c

\* A saved message and its answer are in exactly one conversation, however
\* verifications move messages between conversations while it is answered
\* (moveMessages).
MessagesKept ==
    \A m \in Messages :
        /\ msgPc[m] \in {"saved", "verified", "answered", "failed"} => InOneConversation(Line("guest", m))
        /\ msgPc[m] = "answered" => InOneConversation(Line("ai", m))

\* A session is moved to another session's conversation only when that
\* conversation belonged to the guest the session is verified as
\* (completeVerification).
RestoresOwnConversation ==
    [][\A s \in Sessions :
         /\ Stored(session[s])
         /\ Stored(session'[s])
         /\ session'[s].conversation \notin {session[s].conversation, s}
         => /\ session'[s].status = "verified"
            /\ owner[session'[s].conversation] = session'[s].guest]_vars

\* The cleanup never deletes an anonymous session that was active within its
\* 24 hours: every message and form rolls the expiry (touch).
CleanupSparesActive ==
    [][\A s \in Sessions :
         /\ Stored(session[s])
         /\ session[s].status = "anonymous"
         /\ session'[s] = Deleted
         => session[s].lastActivityAt + AnonymousTTL < now]_vars

\* A verified session's expiry moves only when it verifies again: nothing a
\* guest does cuts the stay-long validity short (touch, verify).
StayOutlastsActivity ==
    [][\A s \in Sessions :
         /\ Stored(session[s])
         /\ session[s].status = "verified"
         /\ Stored(session'[s])
         /\ session'[s].expiresAt < session[s].expiresAt
         => \E r \in Requests : SessionOf[r] = s /\ reqPc[r] \in Waiting /\ reqPc'[r] = "idle"]_vars

\* A session that verified during the stay is admitted on every day of it: only
\* one that verified before arrival, when its window has run out, is turned
\* away earlier (verify, touch, validate).
ValidThroughStay ==
    \A s \in Sessions :
        /\ Stored(session[s])
        /\ session[s].status = "verified"
        /\ now <= Stay[session[s].booking].checkOut
        /\ ~Valid(session[s], now)
        => session[s].expiresAt < Stay[session[s].booking].checkIn + PreArrivalTTL

\* A session leaves the conversation it was restored to only when it verifies
\* again or when a message of its own is answered: its forms, its failures and
\* every other session leave the link alone (linkConversation).
RestoreLeavesByReply ==
    [][\A s \in Sessions :
         /\ Stored(session[s])
         /\ session[s].conversation \notin {NoSession, s}
         /\ Stored(session'[s])
         /\ session'[s].conversation # session[s].conversation
         => \/ \E r \in Requests : SessionOf[r] = s /\ reqPc[r] \in Waiting /\ reqPc'[r] = "idle"
            \/ \E m \in Messages : /\ SessionOf[m] = s /\ msgPc[m] \in Handling
                                  /\ msgPc'[m] = "answered"]_vars

\* The attempts are checked before the lookup and counted after it: the cap
\* is passed by at most the other forms under way (verifyReservation).
AttemptsWithinOverlap ==
    \A s \in Sessions :
        Stored(session[s]) =>
          session[s].attempts < MaxAttempts + Cardinality({r \in Requests : SessionOf[r] = s})

\* An expired session row goes, unless activity revives it first
\* (cleanupExpired).
ExpiredRowsGo ==
    \A s \in Sessions :
        (Stored(session[s]) /\ session[s].expiresAt < now)
          ~> (~Stored(session[s]) \/ session[s].expiresAt >= now)

\* "When a verified guest returns after session expiry and re-verifies,
\* restore their previous webchat conversation history instead of starting
\* blank": once restored, a session stays on that conversation until it
\* verifies again.
RestoreSticks ==
    [][\A s \in Sessions :
         /\ Stored(session[s])
         /\ session[s].conversation \notin {NoSession, s}
         /\ Stored(session'[s])
         /\ session'[s].conversation # session[s].conversation
         => \E r \in Requests : SessionOf[r] = s /\ reqPc[r] \in Waiting /\ reqPc'[r] = "idle"]_vars
=============================================================================
