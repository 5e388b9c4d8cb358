----------------------- MODULE WebChatHistory_proofs -----------------------
(***************************************************************************)
(* The rows and the histories of the web chat, for any number of sessions, *)
(* messages, forms, guests and days: types, messages kept through the      *)
(* restores, and what activity and the cleanup may do to a session.        *)
(***************************************************************************)
EXTENDS WebChat, TLAPS

-----------------------------------------------------------------------------
(***************************************************************************)
(* The inductive invariant.                                                *)
(***************************************************************************)
AllRows == SessionRows \cup {Unborn, Deleted}

\* An anonymous row expires a day after its last activity; a verified one in
\* its window before arrival, or when the stay is over.
Timed(row) ==
    /\ row.status = "anonymous" => row.expiresAt = row.lastActivityAt + AnonymousTTL
    /\ row.status = "verified" =>
          /\ row.booking \in Bookings
          /\ \/ row.expiresAt < Stay[row.booking].checkIn + PreArrivalTTL
             \/ row.expiresAt > Stay[row.booking].checkOut

SessionsOK ==
    /\ session \in [Sessions -> AllRows]
    /\ \A s \in Sessions : Timed(session[s])

FormsOK ==
    /\ now \in 0 .. MaxDay
    /\ online \subseteq Sessions
    /\ reqPc \in [Requests -> ReqStages]
    /\ reqConv \in [Requests -> Sessions \cup {NoSession}]
    /\ codeRequests \in [Sessions -> Nat]
    /\ crashes \in Nat

ConvsOK ==
    /\ owner \in [Sessions -> Guests \cup {NoGuest}]
    /\ recent \subseteq Sessions \X Sessions
    /\ thread \in [Sessions -> SUBSET Lines]

\* Where a line is in the histories t.
Nowhere(t, line) == \A c \in Sessions : line \notin t[c]
Once(t, line) == \E c \in Sessions : \A d \in Sessions : line \in t[d] <=> d = c

\* What the stage of a message says of the histories t.
Traced(pc, t, m) ==
    /\ pc \in {"unsent", "thinking"} => Nowhere(t, Line("guest", m))
    /\ pc \in {"unsent", "thinking", "saved", "verified"} => Nowhere(t, Line("ai", m))
    /\ pc \in {"saved", "verified", "answered", "failed"} => Once(t, Line("guest", m))
    /\ pc = "answered" => Once(t, Line("ai", m))

HistoryOK ==
    /\ msgPc \in [Messages -> MsgStages]
    /\ \A m \in Messages : Traced(msgPc[m], thread, m)

IInv == SessionsOK /\ FormsOK /\ ConvsOK /\ HistoryOK

-----------------------------------------------------------------------------
(***************************************************************************)
(* Rows.                                                                   *)
(***************************************************************************)
LEMMA RowsAre ==
    /\ Unborn \notin SessionRows /\ Deleted \notin SessionRows
    /\ ~Stored(Unborn) /\ ~Stored(Deleted)
    /\ Timed(Unborn) /\ Timed(Deleted)
    /\ \A row \in AllRows : Stored(row) <=> row \in SessionRows
  <1>1. Unborn.status = "unborn" /\ Deleted.status = "deleted"
    BY DEF Unborn, Deleted
  <1>2. \A row \in SessionRows : row.status \in {"anonymous", "verified"}
    BY DEF SessionRows
  <1>3. QED BY <1>1, <1>2 DEF Stored, Timed, AllRows

\* A write that neither links nor verifies nor deletes.
Quiet(new, old) ==
    /\ Stored(new) <=> Stored(old)
    /\ Stored(old) =>
          /\ new.conversation = old.conversation /\ new.status = old.status
          /\ old.status = "verified" => new.expiresAt = old.expiresAt

LEMMA Writes ==
    ASSUME NEW row \in AllRows, Timed(row), NEW day \in Nat
    PROVE  /\ Touch(row, day) \in AllRows /\ Timed(Touch(row, day)) /\ Quiet(Touch(row, day), row)
           /\ CountAttempt(row) \in AllRows /\ Timed(CountAttempt(row)) /\ Quiet(CountAttempt(row), row)
           /\ \A code \in Codes :
                /\ SetCode(row, code) \in AllRows /\ Timed(SetCode(row, code))
                /\ Quiet(SetCode(row, code), row)
           /\ \A c \in Sessions \cup {NoSession} :
                LinkConversation(row, c) \in AllRows /\ Timed(LinkConversation(row, c))
           /\ Quiet(row, row)
  <1>1. CASE ~Stored(row)
    BY <1>1 DEF Touch, CountAttempt, SetCode, LinkConversation, OnStored, Quiet
  <1>2. CASE Stored(row)
    <2>1. row \in SessionRows
      BY <1>2, RowsAre
    <2>2. Touch(row, day) \in SessionRows /\ Timed(Touch(row, day)) /\ Quiet(Touch(row, day), row)
      <3>1. CASE row.status = "anonymous"
        <4> DEFINE new == [row EXCEPT !.lastActivityAt = day, !.expiresAt = day + AnonymousTTL]
        <4>1. Touch(row, day) = new
          BY <1>2, <3>1 DEF Touch, OnStored
        <4>2. day + AnonymousTTL \in Nat
          BY TTLAssumption
        <4>3. /\ new \in SessionRows /\ new.status = "anonymous"
              /\ new.conversation = row.conversation
              /\ new.expiresAt = day + AnonymousTTL /\ new.lastActivityAt = day
          BY <2>1, <3>1, <4>2 DEF SessionRows
        <4> HIDE DEF new
        <4>4. QED BY <1>2, <3>1, <4>1, <4>3 DEF Timed, Quiet, Stored
      <3>2. CASE row.status # "anonymous"
        BY <1>2, <2>1, <3>2, TTLAssumption
        DEF Touch, OnStored, SessionRows, Timed, Quiet, Stored
      <3>3. QED BY <3>1, <3>2
    <2>3. /\ CountAttempt(row) \in SessionRows /\ Timed(CountAttempt(row))
          /\ Quiet(CountAttempt(row), row)
      BY <1>2, <2>1 DEF CountAttempt, OnStored, SessionRows, Timed, Quiet, Stored
    <2>4. ASSUME NEW code \in Codes
          PROVE  /\ SetCode(row, code) \in SessionRows /\ Timed(SetCode(row, code))
                 /\ Quiet(SetCode(row, code), row)
      BY <1>2, <2>1 DEF SetCode, OnStored, SessionRows, Timed, Quiet, Stored
    <2>5. ASSUME NEW c \in Sessions \cup {NoSession}
          PROVE  LinkConversation(row, c) \in SessionRows /\ Timed(LinkConversation(row, c))
      BY <1>2, <2>1 DEF LinkConversation, OnStored, SessionRows, Timed, Stored
    <2>6. Quiet(row, row)
      BY DEF Quiet
    <2>7. QED BY <2>2, <2>3, <2>4, <2>5, <2>6 DEF AllRows
  <1>3. QED BY <1>1, <1>2

LEMMA QuietTwice ==
    ASSUME NEW a, NEW b, NEW c, Quiet(a, b), Quiet(b, c)
    PROVE  Quiet(a, c)
  BY DEF Quiet

LEMMA Marks ==
    ASSUME NEW row \in AllRows, NEW b \in Bookings, NEW day \in Nat
    PROVE  /\ MarkVerified(row, b, day) \in AllRows
           /\ Timed(row) => Timed(MarkVerified(row, b, day))
           /\ Stored(MarkVerified(row, b, day)) <=> Stored(row)
           /\ Stored(row) =>
                /\ MarkVerified(row, b, day).status = "verified"
                /\ MarkVerified(row, b, day).guest = GuestOf[b]
                /\ MarkVerified(row, b, day).conversation = row.conversation
  <1>1. CASE ~Stored(row)
    BY <1>1 DEF MarkVerified, OnStored
  <1>2. CASE Stored(row)
    <2>1. row \in SessionRows
      BY <1>2, RowsAre
    <2>2. /\ GuestOf[b] \in Guests
          /\ Stay[b].checkIn \in Nat /\ Stay[b].checkOut \in Nat
      BY BookingAssumption
    <2>3. /\ ExpiryFor(b, day) \in Nat
          /\ \/ ExpiryFor(b, day) < Stay[b].checkIn + PreArrivalTTL
             \/ ExpiryFor(b, day) > Stay[b].checkOut
      BY <2>2, TTLAssumption DEF ExpiryFor, EndOfStay
    <2>4. DEFINE new == [row EXCEPT !.status = "verified", !.guest = GuestOf[b], !.booking = b,
                              !.attempts = 0, !.code = "none",
                              !.expiresAt = ExpiryFor(b, day), !.lastActivityAt = day]
    <2>5. MarkVerified(row, b, day) = new
      BY <1>2 DEF MarkVerified, OnStored
    <2>6. /\ new \in SessionRows /\ new.status = "verified" /\ new.guest = GuestOf[b]
          /\ new.conversation = row.conversation
          /\ new.booking = b /\ new.expiresAt = ExpiryFor(b, day)
      BY <2>1, <2>2, <2>3 DEF SessionRows, Codes
    <2> HIDE DEF new
    <2>7. QED BY <2>3, <1>2, <2>5, <2>6 DEF AllRows, Timed, Stored
  <1>3. QED BY <1>1, <1>2

LEMMA FirstRow ==
    ASSUME NEW day \in Nat
    PROVE  NewRow(day) \in AllRows /\ Timed(NewRow(day))
  BY TTLAssumption DEF NewRow, SessionRows, AllRows, Timed, Codes

\* What a step may do to the row of s.
Verifies(s) ==
    /\ Stored(session'[s])
    /\ \E r \in Requests : SessionOf[r] = s /\ reqPc[r] \in Waiting /\ reqPc'[r] = "idle"
    /\ session'[s].conversation # session[s].conversation
       => /\ session'[s].status = "verified"
          /\ owner[session'[s].conversation] = session'[s].guest

Answers(s) ==
    \E m \in Messages : SessionOf[m] = s /\ msgPc[m] \in Handling /\ msgPc'[m] = "answered"

Rewritten(s) ==
    \/ ~Stored(session[s])
    \/ session'[s] = Deleted /\ CleanupDeletes(session[s], now)
    \/ Quiet(session'[s], session[s])
    \/ session'[s] = LinkConversation(session[s], s) /\ Answers(s)
    \/ Verifies(s)

RowsStep == SessionsOK' /\ \A s \in Sessions : Rewritten(s)

LEMMA OneRow ==
    ASSUME SessionsOK, NEW s \in Sessions, NEW row \in AllRows, Timed(row),
           session' = [session EXCEPT ![s] = row],
           session'[s] = row => Rewritten(s)
    PROVE  RowsStep
  <1>1. session'[s] = row /\ \A a \in Sessions \ {s} : session'[a] = session[a]
    BY DEF SessionsOK
  <1>2. SessionsOK'
    BY DEF SessionsOK
  <1>3. ASSUME NEW a \in Sessions \ {s} PROVE Rewritten(a)
    BY <1>1 DEF Rewritten, Quiet
  <1>4. QED BY <1>1, <1>2, <1>3 DEF RowsStep

LEMMA QuietRow ==
    ASSUME SessionsOK, NEW s \in Sessions, NEW row \in AllRows, Timed(row),
           session' = [session EXCEPT ![s] = row], Quiet(row, session[s])
    PROVE  RowsStep
  <1>1. session'[s] = row => Rewritten(s)
    BY DEF Rewritten
  <1>2. QED BY <1>1, OneRow

LEMMA SameRows ==
    ASSUME SessionsOK, session' = session
    PROVE  RowsStep
  BY DEF SessionsOK, RowsStep, Rewritten, Quiet

LEMMA RowOf ==
    ASSUME IInv, NEW s \in Sessions
    PROVE  session[s] \in AllRows /\ Timed(session[s]) /\ now \in Nat
  BY WebChatBoundsAssumption DEF IInv, SessionsOK, FormsOK

-----------------------------------------------------------------------------
(***************************************************************************)
(* Histories.                                                              *)
(***************************************************************************)
LEMMA LinesAre ==
    /\ \A m \in Messages : Line("guest", m) \in Lines /\ Line("ai", m) \in Lines
    /\ \A r \in Requests : Line("result", r) \in Lines
    /\ \A x \in Replies : Line("staff", x) \in Lines
    /\ \A s \in Sessions : Line("welcome", s) \in Lines
    /\ \A who, x, other, y : Line(who, x) = Line(other, y) => who = other /\ x = y
  <1>1. \A who, x : Line(who, x).by = who /\ Line(who, x).of = x
    BY DEF Line
  <1>2. \A who, x, other, y : Line(who, x) = Line(other, y) => who = other /\ x = y
    BY <1>1
  <1>3. QED BY <1>2 DEF Line, Lines

Preserves(t, u, line) ==
    (Nowhere(t, line) => Nowhere(u, line)) /\ (Once(t, line) => Once(u, line))

LEMMA TracedIsKept ==
    ASSUME NEW pc, NEW t, NEW u, NEW m, Traced(pc, t, m),
           Preserves(t, u, Line("guest", m)), Preserves(t, u, Line("ai", m))
    PROVE  Traced(pc, u, m)
  BY DEF Traced, Preserves

LEMMA AddPreserves ==
    ASSUME NEW t \in [Sessions -> SUBSET Lines], NEW c \in Sessions, NEW line, NEW other,
           line # other
    PROVE  Preserves(t, [t EXCEPT ![c] = @ \cup {other}], line)
  <1> DEFINE u == [t EXCEPT ![c] = @ \cup {other}]
  <1>1. \A d \in Sessions : line \in u[d] <=> line \in t[d]
    OBVIOUS
  <1> HIDE DEF u
  <1>2. QED BY <1>1 DEF Preserves, Nowhere, Once

LEMMA MovePreserves ==
    ASSUME ConvsOK, NEW from \in Sessions, NEW to \in Sessions, from # to, NEW line
    PROVE  Preserves(thread, Moved(from, to), line)
  <1> DEFINE u == Moved(from, to)
  <1>1. \A d \in Sessions :
           line \in u[d] <=> \/ d \notin {from, to} /\ line \in thread[d]
                             \/ d = to /\ (line \in thread[from] \/ line \in thread[to])
    BY DEF Moved, ConvsOK
  <1> HIDE DEF u
  <1>2. ASSUME Nowhere(thread, line) PROVE Nowhere(u, line)
    BY <1>1, <1>2 DEF Nowhere
  <1>3. ASSUME Once(thread, line) PROVE Once(u, line)
    <2>1. PICK c \in Sessions : \A d \in Sessions : line \in thread[d] <=> d = c
      BY <1>3 DEF Once
    <2>2. CASE c = from
      <3>1. \A d \in Sessions : line \in u[d] <=> d = to
        BY <1>1, <2>1, <2>2
      <3>2. QED BY <3>1 DEF Once
    <2>3. CASE c # from
      <3>1. \A d \in Sessions : line \in u[d] <=> d = c
        BY <1>1, <2>1, <2>3
      <3>2. QED BY <3>1 DEF Once
    <2>4. QED BY <2>2, <2>3
  <1>4. Preserves(thread, u, line)
    BY <1>2, <1>3 DEF Preserves
  <1>5. QED BY <1>4 DEF u

LEMMA MovedTyped ==
    ASSUME ConvsOK, NEW from \in Sessions, NEW to \in Sessions
    PROVE  Moved(from, to) \in [Sessions -> SUBSET Lines]
  BY DEF Moved, ConvsOK

\* A line that was nowhere is added.
LEMMA AddedOnce ==
    ASSUME NEW t \in [Sessions -> SUBSET Lines], NEW c \in Sessions, NEW line, Nowhere(t, line)
    PROVE  Once([t EXCEPT ![c] = @ \cup {line}], line)
  <1> DEFINE u == [t EXCEPT ![c] = @ \cup {line}]
  <1>1. \A d \in Sessions : line \in u[d] <=> d = c
    BY DEF Nowhere
  <1> HIDE DEF u
  <1>2. Once(u, line)
    BY <1>1 DEF Once
  <1>3. QED BY <1>2 DEF u

LEMMA BumpTyped ==
    ASSUME NEW order \in SUBSET (Sessions \X Sessions), NEW c \in Sessions
    PROVE  Bump(order, c) \in SUBSET (Sessions \X Sessions)
  <1> DEFINE others == {e \in Sessions : <<e, e>> \in order}
  <1>1. {p \in order : c \notin {p[1], p[2]}} \subseteq Sessions \X Sessions
    OBVIOUS
  <1>2. \A d \in {c} \cup others : <<d, c>> \in Sessions \X Sessions
    OBVIOUS
  <1> HIDE DEF others
  <1>3. {<<d, c>> : d \in {c} \cup others} \subseteq Sessions \X Sessions
    BY <1>2
  <1>4. QED BY <1>1, <1>3 DEF Bump, others

LEMMA AddLineTyped ==
    ASSUME ConvsOK, NEW c \in Sessions, NEW line \in Lines, AddLine(c, line), owner' = owner
    PROVE  ConvsOK'
  BY BumpTyped DEF ConvsOK, AddLine

\* No message moves on, and its lines stay as they are.
LEMMA SameMessages ==
    ASSUME HistoryOK, msgPc' = msgPc,
           \A m \in Messages : /\ Preserves(thread, thread', Line("guest", m))
                               /\ Preserves(thread, thread', Line("ai", m))
    PROVE  HistoryOK'
  BY TracedIsKept DEF HistoryOK

LEMMA SameHistory ==
    ASSUME HistoryOK, msgPc' = msgPc, thread' = thread
    PROVE  HistoryOK'
  BY DEF HistoryOK

\* A line of nobody's message is added.
LEMMA OtherLine ==
    ASSUME HistoryOK, ConvsOK, msgPc' = msgPc, NEW c \in Sessions, NEW who, NEW x,
           who \notin {"guest", "ai"}, AddLine(c, Line(who, x))
    PROVE  HistoryOK'
  <1>1. thread' = [thread EXCEPT ![c] = @ \cup {Line(who, x)}]
    BY DEF AddLine
  <1>2. \A m \in Messages : Line("guest", m) # Line(who, x) /\ Line("ai", m) # Line(who, x)
    BY LinesAre
  <1>3. thread \in [Sessions -> SUBSET Lines]
    BY DEF ConvsOK
  <1>4. QED BY <1>1, <1>2, <1>3, AddPreserves, SameMessages

\* One message moves on.
LEMMA OneMessage ==
    ASSUME HistoryOK, NEW m \in Messages, NEW pc \in MsgStages,
           msgPc' = [msgPc EXCEPT ![m] = pc],
           \A n \in Messages \ {m} : /\ Preserves(thread, thread', Line("guest", n))
                                     /\ Preserves(thread, thread', Line("ai", n)),
           Traced(pc, thread', m)
    PROVE  HistoryOK'
  <1>1. msgPc' \in [Messages -> MsgStages] /\ msgPc'[m] = pc
    BY DEF HistoryOK
  <1>2. ASSUME NEW n \in Messages \ {m} PROVE Traced(msgPc'[n], thread', n)
    <2>1. msgPc'[n] = msgPc[n] /\ Traced(msgPc[n], thread, n)
      BY DEF HistoryOK
    <2>2. QED BY <2>1, TracedIsKept
  <1>3. QED BY <1>1, <1>2 DEF HistoryOK

LEMMA Unmoved == \A line : Preserves(thread, thread, line)
  BY DEF Preserves

LEMMA PreservesTwice ==
    ASSUME NEW t, NEW u, NEW v, NEW line, Preserves(t, u, line), Preserves(u, v, line)
    PROVE  Preserves(t, v, line)
  BY DEF Preserves

-----------------------------------------------------------------------------
(***************************************************************************)
(* The steps, one lemma per action.                                        *)
(***************************************************************************)
Kept == RowsStep /\ IInv'

LEMMA KeptIs ==
    ASSUME RowsStep, FormsOK', ConvsOK', HistoryOK'
    PROVE  Kept
  BY DEF Kept, IInv, RowsStep

LEMMA ConnectStep == ASSUME IInv, NEW s \in Sessions, Connect(s) PROVE Kept
  <1>1. NewRow(now) \in AllRows /\ Timed(NewRow(now))
    BY RowOf, FirstRow
  <1>2. LinkConversation(NewRow(now), s) \in AllRows /\ Timed(LinkConversation(NewRow(now), s))
    BY <1>1, RowOf, Writes
  <1>3. RowsStep
    <2>1. ~Stored(session[s])
      BY RowsAre DEF Connect
    <2>2. QED BY <1>1, <1>2, <2>1, OneRow DEF Connect, Rewritten, IInv
  <1>4. FormsOK'
    BY DEF IInv, FormsOK, Connect
  <1>5. ConvsOK' /\ HistoryOK'
    <2>1. CASE AddLine(s, Line("welcome", s))
      BY <2>1, LinesAre, AddLineTyped, OtherLine DEF IInv, Connect
    <2>2. CASE UNCHANGED <<recent, thread>>
      BY <2>2, SameHistory DEF IInv, Connect, ConvsOK
    <2>3. QED BY <2>1, <2>2 DEF Connect
  <1>6. QED BY <1>3, <1>4, <1>5, KeptIs

\* The steps that change sockets only.
LEMMA SocketStep ==
    ASSUME IInv, NEW s \in Sessions, Reconnect(s) \/ Disconnect(s)
    PROVE  Kept
  <1>1. session' = session /\ msgPc' = msgPc /\ thread' = thread /\ owner' = owner /\ recent' = recent
    BY DEF Reconnect, Disconnect
  <1>2. FormsOK'
    BY DEF IInv, FormsOK, Reconnect, Disconnect
  <1>3. RowsStep /\ ConvsOK' /\ HistoryOK'
    BY <1>1, SameRows, SameHistory DEF IInv, ConvsOK
  <1>4. QED BY <1>2, <1>3, KeptIs

LEMMA GuestSaysStep == ASSUME IInv, NEW m \in Messages, GuestSays(m) PROVE Kept
  <1> DEFINE s == SessionOf[m]
  <1>1. s \in Sessions
    BY SessionOfAssumption
  <1>2. RowsStep
    <2>1. session' = [session EXCEPT ![s] = Touch(session[s], now)]
      BY DEF GuestSays
    <2>2. QED BY <1>1, <2>1, RowOf, Writes, QuietRow DEF IInv
  <1>3. FormsOK'
    BY DEF IInv, FormsOK, GuestSays
  <1>4. ConvsOK'
    BY <1>1, BumpTyped DEF IInv, ConvsOK, GuestSays
  <1>5. HistoryOK'
    <2>1. thread' = thread /\ msgPc' = [msgPc EXCEPT ![m] = "thinking"] /\ msgPc[m] = "unsent"
      BY DEF GuestSays
    <2>2. Traced("thinking", thread', m)
      BY <2>1 DEF IInv, HistoryOK, Traced
    <2>3. QED BY <2>1, <2>2, Unmoved, OneMessage DEF IInv, MsgStages, Handling
  <1>6. QED BY <1>2, <1>3, <1>4, <1>5, KeptIs

LEMMA SaveInboundStep == ASSUME IInv, NEW m \in Messages, SaveInbound(m) PROVE Kept
  <1> DEFINE c == SessionOf[m]
             line == Line("guest", m)
  <1>1. c \in Sessions /\ thread \in [Sessions -> SUBSET Lines]
    BY SessionOfAssumption DEF IInv, ConvsOK
  <1>2. RowsStep /\ FormsOK'
    BY SameRows DEF IInv, FormsOK, SaveInbound
  <1>3. ConvsOK'
    BY <1>1, LinesAre, AddLineTyped DEF IInv, SaveInbound
  <1>4. /\ thread' = [thread EXCEPT ![c] = @ \cup {line}]
        /\ msgPc' = [msgPc EXCEPT ![m] = "saved"] /\ msgPc[m] = "thinking"
    BY DEF SaveInbound, AddLine
  <1>5. Nowhere(thread, line) /\ Nowhere(thread, Line("ai", m))
    BY <1>4 DEF IInv, HistoryOK, Traced
  <1>6. Once(thread', line)
    BY <1>1, <1>4, <1>5, AddedOnce
  <1>7. \A n \in Messages : /\ n # m => Line("guest", n) # line
                            /\ Line("ai", n) # line
    BY LinesAre
  <1> HIDE DEF line
  <1>8. Preserves(thread, thread', Line("ai", m))
    BY <1>1, <1>4, <1>7, AddPreserves
  <1>9. ASSUME NEW n \in Messages \ {m}
        PROVE  Preserves(thread, thread', Line("guest", n)) /\ Preserves(thread, thread', Line("ai", n))
    BY <1>1, <1>4, <1>7, AddPreserves
  <1>10. Traced("saved", thread', m)
    BY <1>5, <1>6, <1>8 DEF Traced, Preserves, line
  <1>11. HistoryOK'
    BY <1>4, <1>9, <1>10, OneMessage DEF IInv, MsgStages, Handling
  <1>12. QED BY <1>2, <1>3, <1>11, KeptIs

LEMMA VerifyInChatStep ==
    ASSUME IInv, NEW m \in Messages, NEW g \in Guests, VerifyInChat(m, g)
    PROVE  Kept
  <1>1. SessionOf[m] \in Sessions
    BY SessionOfAssumption
  <1>2. RowsStep /\ FormsOK'
    BY SameRows DEF IInv, FormsOK, VerifyInChat
  <1>3. ConvsOK'
    BY <1>1, BumpTyped DEF IInv, ConvsOK, VerifyInChat
  <1>4. HistoryOK'
    <2>1. thread' = thread /\ msgPc' = [msgPc EXCEPT ![m] = "verified"] /\ msgPc[m] = "saved"
      BY DEF VerifyInChat
    <2>2. Traced("verified", thread', m)
      BY <2>1 DEF IInv, HistoryOK, Traced
    <2>3. QED BY <2>1, <2>2, Unmoved, OneMessage DEF IInv, MsgStages, Handling
  <1>5. QED BY <1>2, <1>3, <1>4, KeptIs

LEMMA ReplyStep == ASSUME IInv, NEW m \in Messages, Reply(m) PROVE Kept
  <1> DEFINE s == SessionOf[m]
             line == Line("ai", m)
  <1>1. s \in Sessions /\ thread \in [Sessions -> SUBSET Lines]
    BY SessionOfAssumption DEF IInv, ConvsOK
  <1>2. RowsStep
    <2>1. session' = [session EXCEPT ![s] = LinkConversation(session[s], s)]
      BY DEF Reply
    <2>2. /\ LinkConversation(session[s], s) \in AllRows
          /\ Timed(LinkConversation(session[s], s))
      BY <1>1, RowOf, Writes
    <2>3. Answers(s)
      BY DEF Reply, Answers, Handling, IInv, HistoryOK
    <2>4. QED BY <1>1, <2>1, <2>2, <2>3, OneRow DEF IInv, Rewritten
  <1>3. FormsOK'
    BY DEF IInv, FormsOK, Reply
  <1>4. ConvsOK'
    BY <1>1, LinesAre, AddLineTyped DEF IInv, Reply
  <1>5. /\ thread' = [thread EXCEPT ![s] = @ \cup {line}]
        /\ msgPc' = [msgPc EXCEPT ![m] = "answered"] /\ msgPc[m] \in {"saved", "verified"}
    BY DEF Reply, AddLine
  <1>6. Nowhere(thread, line) /\ Once(thread, Line("guest", m))
    BY <1>5 DEF IInv, HistoryOK, Traced
  <1>7. Once(thread', line)
    BY <1>1, <1>5, <1>6, AddedOnce
  <1>8. \A n \in Messages : /\ n # m => Line("ai", n) # line
                            /\ Line("guest", n) # line
    BY LinesAre
  <1> HIDE DEF line
  <1>9. Preserves(thread, thread', Line("guest", m))
    BY <1>1, <1>5, <1>8, AddPreserves
  <1>10. ASSUME NEW n \in Messages \ {m}
         PROVE  Preserves(thread, thread', Line("guest", n)) /\ Preserves(thread, thread', Line("ai", n))
    BY <1>1, <1>5, <1>8, AddPreserves
  <1>11. Traced("answered", thread', m)
    BY <1>6, <1>7, <1>9 DEF Traced, Preserves, line
  <1>12. HistoryOK'
    BY <1>5, <1>10, <1>11, OneMessage DEF IInv, MsgStages
  <1>13. QED BY <1>2, <1>3, <1>4, <1>12, KeptIs

LEMMA ReplyFailsStep == ASSUME IInv, NEW m \in Messages, ReplyFails(m) PROVE Kept
  <1>1. RowsStep /\ FormsOK' /\ ConvsOK'
    BY SameRows DEF IInv, FormsOK, ConvsOK, ReplyFails
  <1>2. thread' = thread /\ msgPc' = [msgPc EXCEPT ![m] = "failed"] /\ msgPc[m] \in {"saved", "verified"}
    BY DEF ReplyFails
  <1>3. Traced("failed", thread', m)
    BY <1>2 DEF IInv, HistoryOK, Traced
  <1>4. HistoryOK'
    BY <1>2, <1>3, Unmoved, OneMessage DEF IInv, MsgStages
  <1>5. QED BY <1>1, <1>4, KeptIs

LEMMA StaffReplyStep ==
    ASSUME IInv, NEW c \in Sessions, NEW x \in Replies, StaffReply(c, x)
    PROVE  Kept
  <1>1. RowsStep /\ FormsOK'
    BY SameRows DEF IInv, FormsOK, StaffReply
  <1>2. ConvsOK' /\ HistoryOK'
    BY LinesAre, AddLineTyped, OtherLine DEF IInv, StaffReply
  <1>3. QED BY <1>1, <1>2, KeptIs

-----------------------------------------------------------------------------
\* The steps that write one row quietly and no history.
LEMMA WroteQuietly ==
    ASSUME IInv, NEW s \in Sessions, NEW row \in AllRows, Timed(row), Quiet(row, session[s]),
           session' = [session EXCEPT ![s] = row], FormsOK', UNCHANGED <<owner, recent, thread, msgPc>>
    PROVE  Kept
  <1>1. RowsStep
    BY QuietRow DEF IInv
  <1>2. ConvsOK' /\ HistoryOK'
    BY SameHistory DEF IInv, ConvsOK
  <1>3. QED BY <1>1, <1>2, KeptIs

LEMMA TouchAndCount ==
    ASSUME NEW row \in AllRows, Timed(row), NEW day \in Nat
    PROVE  /\ CountAttempt(Touch(row, day)) \in AllRows /\ Timed(CountAttempt(Touch(row, day)))
           /\ Quiet(CountAttempt(Touch(row, day)), row)
  <1>1. /\ Touch(row, day) \in AllRows /\ Timed(Touch(row, day))
        /\ Quiet(Touch(row, day), row)
    BY Writes
  <1>2. QED BY <1>1, Writes, QuietTwice

LEMMA SubmitStep ==
    ASSUME IInv, NEW r \in Requests, NEW method \in Methods, Submit(r, method)
    PROVE  Kept
  <1> DEFINE s == SessionOf[r]
             old == session[s]
             row == IF MayTry(s) /\ method = "code" /\ old.code = "expired"
                    THEN CountAttempt(Touch(old, now)) ELSE Touch(old, now)
  <1>1. s \in Sessions /\ method \in Waiting
    BY SessionOfAssumption, WebChatBoundsAssumption DEF Waiting
  <1>2. session' = [session EXCEPT ![s] = row]
    BY DEF Submit
  <1>3. old.conversation \in Sessions \cup {NoSession}
    <2>1. Stored(old) /\ old \in AllRows
      BY <1>1, RowOf DEF Submit, Submitted, Valid
    <2>2. QED BY <2>1, RowsAre DEF SessionRows
  <1>4. FormsOK'
    BY <1>1, <1>3 DEF IInv, FormsOK, Submit, ReqStages
  <1>5. row \in AllRows /\ Timed(row) /\ Quiet(row, old)
    BY <1>1, RowOf, Writes, TouchAndCount
  <1>6. UNCHANGED <<owner, recent, thread, msgPc>>
    BY DEF Submit
  <1> HIDE DEF row
  <1>7. QED BY <1>1, <1>2, <1>4, <1>5, <1>6, WroteQuietly

LEMMA WrongCodeStep == ASSUME IInv, NEW r \in Requests, WrongCode(r) PROVE Kept
  <1> DEFINE s == SessionOf[r]
             row == CountAttempt(Touch(session[s], now))
  <1>1. s \in Sessions
    BY SessionOfAssumption
  <1>2. session' = [session EXCEPT ![s] = row] /\ UNCHANGED <<owner, recent, thread, msgPc>>
    BY DEF WrongCode
  <1>3. FormsOK'
    BY DEF IInv, FormsOK, WrongCode
  <1>4. row \in AllRows /\ Timed(row) /\ Quiet(row, session[s])
    BY <1>1, RowOf, TouchAndCount
  <1> HIDE DEF row
  <1>5. QED BY <1>1, <1>2, <1>3, <1>4, WroteQuietly

LEMMA AnsweredTyped ==
    ASSUME IInv, NEW r \in Requests, Answered(r)
    PROVE  /\ reqPc' \in [Requests -> ReqStages]
           /\ reqConv' \in [Requests -> Sessions \cup {NoSession}]
  BY DEF IInv, FormsOK, Answered, ReqStages

LEMMA LookupFailsStep == ASSUME IInv, NEW r \in Requests, LookupFails(r) PROVE Kept
  <1> DEFINE s == SessionOf[r]
             row == IF reqPc[r] = "code" THEN session[s] ELSE CountAttempt(session[s])
  <1>1. s \in Sessions
    BY SessionOfAssumption
  <1>2. session' = [session EXCEPT ![s] = row] /\ UNCHANGED <<owner, recent, thread, msgPc>>
    BY DEF LookupFails
  <1>3. FormsOK'
    BY AnsweredTyped DEF IInv, FormsOK, LookupFails
  <1>4. row \in AllRows /\ Timed(row) /\ Quiet(row, session[s])
    BY <1>1, RowOf, Writes
  <1> HIDE DEF row
  <1>5. QED BY <1>1, <1>2, <1>3, <1>4, WroteQuietly

LEMMA SendCodeStep == ASSUME IInv, NEW r \in Requests, SendCode(r) PROVE Kept
  <1> DEFINE s == SessionOf[r]
             row == SetCode(session[s], "pending")
  <1>1. s \in Sessions
    BY SessionOfAssumption
  <1>2. CASE session' = [session EXCEPT ![s] = row] /\ codeRequests' = [codeRequests EXCEPT ![s] = @ + 1]
    <2>1. row \in AllRows /\ Timed(row) /\ Quiet(row, session[s])
      BY <1>1, RowOf, Writes DEF Codes
    <2> HIDE DEF row
    <2>2. RowsStep
      BY <1>1, <1>2, <2>1, QuietRow DEF IInv
    <2>3. FormsOK'
      BY <1>1, <1>2, AnsweredTyped DEF IInv, FormsOK, SendCode
    <2>4. CASE UNCHANGED <<recent, thread>>
      BY <2>2, <2>3, <2>4, SameHistory, KeptIs DEF IInv, ConvsOK, SendCode
    <2>5. CASE reqConv[r] # NoSession /\ AddLine(reqConv[r], Line("result", r))
      <3>1. reqConv[r] \in Sessions
        BY <2>5 DEF IInv, FormsOK
      <3>2. ConvsOK' /\ HistoryOK'
        BY <2>5, <3>1, LinesAre, AddLineTyped, OtherLine DEF IInv, SendCode
      <3>3. QED BY <2>2, <2>3, <3>2, KeptIs
    <2>6. \/ UNCHANGED <<recent, thread>>
          \/ reqConv[r] # NoSession /\ AddLine(reqConv[r], Line("result", r))
      BY DEF SendCode
    <2>7. QED BY <2>4, <2>5, <2>6
  <1>3. CASE UNCHANGED <<codeRequests, session, recent, thread>>
    <2>1. FormsOK'
      BY <1>3, AnsweredTyped DEF IInv, FormsOK, SendCode
    <2>2. RowsStep /\ ConvsOK' /\ HistoryOK'
      BY <1>3, SameRows, SameHistory DEF IInv, ConvsOK, SendCode
    <2>3. QED BY <2>1, <2>2, KeptIs
  <1>4. QED BY <1>2, <1>3 DEF SendCode

LEMMA CodeExpiresStep == ASSUME IInv, NEW s \in Sessions, CodeExpires(s) PROVE Kept
  <1> DEFINE row == SetCode(session[s], "expired")
  <1>1. session' = [session EXCEPT ![s] = row] /\ UNCHANGED <<owner, recent, thread, msgPc>>
    BY DEF CodeExpires
  <1>2. FormsOK'
    BY DEF IInv, FormsOK, CodeExpires
  <1>3. row \in AllRows /\ Timed(row) /\ Quiet(row, session[s])
    BY RowOf, Writes DEF Codes
  <1> HIDE DEF row
  <1>4. QED BY <1>1, <1>2, <1>3, WroteQuietly

\* The steps that write every row and no history.
LEMMA WroteAll ==
    ASSUME IInv, session' \in [Sessions -> AllRows],
           \A s \in Sessions : /\ Timed(session'[s])
                               /\ \/ Quiet(session'[s], session[s])
                                  \/ session'[s] = Deleted /\ CleanupDeletes(session[s], now),
           FormsOK', UNCHANGED <<owner, recent, thread>>, HistoryOK'
    PROVE  Kept
  <1>1. RowsStep
    BY DEF RowsStep, SessionsOK, Rewritten
  <1>2. ConvsOK'
    BY DEF IInv, ConvsOK
  <1>3. QED BY <1>1, <1>2, KeptIs

LEMMA NextDayStep == ASSUME IInv, NextDay PROVE Kept
  <1>1. UNCHANGED <<owner, recent, thread>> /\ HistoryOK'
    BY SameHistory DEF IInv, NextDay
  <1>2. FormsOK'
    BY WebChatBoundsAssumption DEF IInv, FormsOK, NextDay
  <1>3. \A s \in Sessions : session'[s] \in {session[s], SetCode(session[s], "expired")}
    BY DEF NextDay
  <1>4. ASSUME NEW s \in Sessions
        PROVE  session'[s] \in AllRows /\ Timed(session'[s]) /\ Quiet(session'[s], session[s])
    BY <1>3, RowOf, Writes DEF Codes
  <1>5. session' \in [Sessions -> AllRows]
    BY <1>4 DEF NextDay
  <1>6. QED BY <1>1, <1>2, <1>4, <1>5, WroteAll

LEMMA CleanupStep == ASSUME IInv, Cleanup PROVE Kept
  <1>1. UNCHANGED <<owner, recent, thread>> /\ HistoryOK' /\ FormsOK'
    BY SameHistory DEF IInv, FormsOK, Cleanup
  <1>2. ASSUME NEW s \in Sessions
        PROVE  /\ session'[s] \in AllRows /\ Timed(session'[s])
               /\ \/ Quiet(session'[s], session[s])
                  \/ session'[s] = Deleted /\ CleanupDeletes(session[s], now)
    <2>1. CASE CleanupDeletes(session[s], now)
      <3>1. session'[s] = Deleted
        BY <2>1 DEF Cleanup
      <3>2. QED BY <2>1, <3>1, RowsAre DEF AllRows
    <2>2. CASE ~CleanupDeletes(session[s], now)
      <3>1. session'[s] = session[s]
        BY <2>2 DEF Cleanup
      <3>2. QED BY <3>1, RowOf DEF Quiet
    <2>3. QED BY <2>1, <2>2
  <1>3. session' \in [Sessions -> AllRows]
    BY <1>2 DEF Cleanup
  <1>4. QED BY <1>1, <1>2, <1>3, WroteAll

\* A restart loses the messages being handled; their lines stay as they are.
LEMMA CrashStep == ASSUME IInv, Crash PROVE Kept
  <1>1. RowsStep /\ ConvsOK'
    BY SameRows DEF IInv, ConvsOK, Crash
  <1>2. FormsOK'
    BY DEF IInv, FormsOK, Crash, ReqStages
  <1>3. HistoryOK'
    <2>1. thread' = thread
      BY DEF Crash
    <2>2. ASSUME NEW m \in Messages
          PROVE  msgPc'[m] \in {"lost", msgPc[m]}
      BY DEF Crash
    <2>3. msgPc' \in [Messages -> MsgStages]
      BY <2>2 DEF IInv, HistoryOK, Crash, MsgStages
    <2>4. ASSUME NEW m \in Messages
          PROVE  Traced(msgPc'[m], thread', m)
      BY <2>1, <2>2 DEF IInv, HistoryOK, Traced
    <2>5. QED BY <2>3, <2>4 DEF HistoryOK
  <1>4. QED BY <1>1, <1>2, <1>3, KeptIs

-----------------------------------------------------------------------------
(***************************************************************************)
(* A verification that goes through.                                       *)
(***************************************************************************)
LEMMA PreviousIsTheirs ==
    ASSUME NEW g, NEW c \in PreviousOf(g), c # NoSession
    PROVE  c \in Sessions /\ owner[c] = g
  <1> DEFINE own == {d \in Sessions : Opened(d) /\ owner[d] = g}
  <1>1. c \in LatestOf(own)
    BY DEF PreviousOf
  <1> HIDE DEF own
  <1>2. c \in own
    BY <1>1 DEF LatestOf
  <1>3. QED BY <1>2 DEF own

LEMMA CompleteStep ==
    ASSUME IInv, NEW r \in Requests, NEW b \in Bookings, Complete(r, b)
    PROVE  Kept
  <1> DEFINE s == SessionOf[r]
             g == GuestOf[b]
             line == Line("result", r)
  <1>1. PICK previous \in PreviousOf(g) : Completes(r, b, previous)
    BY DEF Complete
  <1> DEFINE row == MarkVerified(session[s], b, now)
             current == IF Stored(row) THEN row.conversation ELSE NoSession
             restores == NoSession \notin {current, previous} /\ current # previous
             target == IF restores THEN previous ELSE current
             updated == IF target = NoSession THEN recent ELSE Bump(recent, target)
             moved == IF restores THEN Moved(current, previous) ELSE thread
             next == IF restores THEN LinkConversation(row, target) ELSE row
  <1>2. s \in Sessions /\ g \in Guests
    BY SessionOfAssumption, BookingAssumption
  <1>3. /\ reqPc[r] \in {"booking", "code"} /\ Answered(r)
        /\ session' = [session EXCEPT ![s] = next]
        /\ owner' = IF target = NoSession THEN owner ELSE [owner EXCEPT ![target] = g]
        /\ \/ reqConv[r] = NoSession /\ thread' = moved /\ recent' = updated
           \/ /\ reqConv[r] # NoSession
              /\ thread' = [moved EXCEPT ![reqConv[r]] = @ \cup {line}]
              /\ recent' = Bump(updated, reqConv[r])
        /\ UNCHANGED <<now, online, msgPc, codeRequests, crashes>>
    BY <1>1 DEF Completes
  <1>4. /\ session[s] \in AllRows /\ Timed(session[s]) /\ now \in Nat
        /\ row \in AllRows /\ Timed(row) /\ (Stored(row) <=> Stored(session[s]))
        /\ Stored(row) => /\ row.status = "verified" /\ row.guest = g
                          /\ row.conversation = session[s].conversation
    BY <1>2, RowOf, Marks
  <1> HIDE DEF row
  <1>5. current \in Sessions \cup {NoSession}
    BY <1>4, RowsAre DEF SessionRows
  <1>6. restores => Stored(row)
    OBVIOUS
  <1> HIDE DEF current
  <1>7. restores => previous \in Sessions /\ owner[previous] = g
    BY PreviousIsTheirs
  <1>8. target \in Sessions \cup {NoSession}
    BY <1>5, <1>7
  <1>9. reqConv[r] \in Sessions \cup {NoSession} /\ line \in Lines
    BY LinesAre DEF IInv, FormsOK
  <1>10. RowsStep
    <2>1. next \in AllRows /\ Timed(next)
      BY <1>4, <1>8, Writes
    <2>2. restores => /\ Stored(next) /\ next.status = "verified" /\ next.guest = g
                      /\ next.conversation = previous
      <3>1. ASSUME restores PROVE row \in SessionRows /\ next = [row EXCEPT !.conversation = previous]
        BY <1>4, <1>6, <3>1, RowsAre DEF LinkConversation, OnStored
      <3>2. QED BY <1>4, <1>6, <3>1 DEF SessionRows, Stored
    <2>3. ASSUME session'[s] = next, Stored(session[s]) PROVE Verifies(s)
      <3>1. SessionOf[r] = s /\ reqPc[r] \in Waiting /\ reqPc'[r] = "idle"
        BY <1>3 DEF Answered, Waiting, IInv, FormsOK
      <3>2. CASE restores
        BY <1>7, <2>2, <2>3, <3>1, <3>2 DEF Verifies
      <3>3. CASE ~restores
        BY <1>4, <2>3, <3>1, <3>3 DEF Verifies
      <3>4. QED BY <3>2, <3>3
    <2> HIDE DEF next
    <2>4. QED BY <1>2, <1>3, <2>1, <2>3, OneRow DEF IInv, Rewritten
  <1>11. FormsOK'
    BY <1>3, AnsweredTyped DEF IInv, FormsOK
  <1>12. moved \in [Sessions -> SUBSET Lines]
    BY <1>5, <1>7, MovedTyped DEF IInv, ConvsOK
  <1>13. \A l : Preserves(thread, moved, l)
    <2>1. CASE restores
      BY <1>5, <1>7, <2>1, MovePreserves DEF IInv
    <2>2. CASE ~restores
      BY <2>2, Unmoved
    <2>3. QED BY <2>1, <2>2
  <1>14. updated \in SUBSET (Sessions \X Sessions)
    BY <1>8, BumpTyped DEF IInv, ConvsOK
  <1> HIDE DEF moved, updated, target
  <1>15. ConvsOK'
    <2>1. owner' \in [Sessions -> Guests \cup {NoGuest}]
      BY <1>2, <1>3 DEF IInv, ConvsOK
    <2>2. thread' \in [Sessions -> SUBSET Lines]
      BY <1>3, <1>9, <1>12
    <2>3. recent' \in SUBSET (Sessions \X Sessions)
      BY <1>3, <1>9, <1>14, BumpTyped
    <2>4. QED BY <2>1, <2>2, <2>3 DEF ConvsOK
  <1>16. HistoryOK'
    <2>1. ASSUME NEW l, l # line PROVE Preserves(thread, thread', l)
      <3>1. CASE thread' = moved
        BY <1>13, <3>1
      <3>2. CASE reqConv[r] # NoSession /\ thread' = [moved EXCEPT ![reqConv[r]] = @ \cup {line}]
        <4>1. Preserves(moved, thread', l)
          BY <1>9, <1>12, <2>1, <3>2, AddPreserves
        <4>2. QED BY <1>13, <4>1, PreservesTwice
      <3>3. QED BY <1>3, <3>1, <3>2
    <2>2. \A m \in Messages : Line("guest", m) # line /\ Line("ai", m) # line
      BY LinesAre
    <2>3. QED BY <1>3, <2>1, <2>2, SameMessages DEF IInv
  <1>17. QED BY <1>10, <1>11, <1>15, <1>16, KeptIs

-----------------------------------------------------------------------------
LEMMA InitHolds == Init => IInv
  <1> SUFFICES ASSUME Init PROVE IInv
    OBVIOUS
  <1>1. SessionsOK
    BY RowsAre DEF Init, SessionsOK, AllRows
  <1>2. FormsOK
    BY WebChatBoundsAssumption DEF Init, FormsOK, ReqStages
  <1>3. ConvsOK
    BY DEF Init, ConvsOK
  <1>4. HistoryOK
    BY DEF Init, HistoryOK, MsgStages, Traced, Nowhere
  <1>5. QED BY <1>1, <1>2, <1>3, <1>4 DEF IInv

LEMMA StutterStep == ASSUME IInv, UNCHANGED vars PROVE Kept
  <1>1. RowsStep
    BY SameRows DEF IInv, vars
  <1>2. FormsOK' /\ ConvsOK' /\ HistoryOK'
    BY SameHistory DEF IInv, FormsOK, ConvsOK, vars
  <1>3. QED BY <1>1, <1>2, KeptIs

LEMMA Step == IInv /\ [Next]_vars => Kept
  <1> SUFFICES ASSUME IInv, [Next]_vars PROVE Kept
    OBVIOUS
  <1>1. CASE \E s \in Sessions : Connect(s) \/ Reconnect(s) \/ Disconnect(s) \/ CodeExpires(s)
    BY <1>1, ConnectStep, SocketStep, CodeExpiresStep
  <1>2. CASE \E m \in Messages : GuestSays(m) \/ SaveInbound(m) \/ Reply(m) \/ ReplyFails(m)
    BY <1>2, GuestSaysStep, SaveInboundStep, ReplyStep, ReplyFailsStep
  <1>3. CASE \E m \in Messages, g \in Guests : VerifyInChat(m, g)
    BY <1>3, VerifyInChatStep
  <1>4. CASE \E c \in Sessions, x \in Replies : StaffReply(c, x)
    BY <1>4, StaffReplyStep
  <1>5. CASE \E r \in Requests, method \in Methods : Submit(r, method)
    BY <1>5, SubmitStep
  <1>6. CASE \E r \in Requests : WrongCode(r) \/ LookupFails(r) \/ SendCode(r)
    BY <1>6, WrongCodeStep, LookupFailsStep, SendCodeStep
  <1>7. CASE \E r \in Requests, b \in Bookings : Complete(r, b)
    BY <1>7, CompleteStep
  <1>8. CASE NextDay \/ Cleanup \/ Crash
    BY <1>8, NextDayStep, CleanupStep, CrashStep
  <1>9. CASE UNCHANGED vars
    BY <1>9, StutterStep
  <1>10. QED
    BY <1>1, <1>2, <1>3, <1>4, <1>5, <1>6, <1>7, <1>8, <1>9 DEF Next

LEMMA Inductive == Spec => []IInv
  <1>1. IInv /\ [Next]_vars => IInv'
    BY Step DEF Kept
  <1>2. QED BY <1>1, InitHolds, PTL DEF Spec

-----------------------------------------------------------------------------
(***************************************************************************)
(* The theorems.                                                           *)
(***************************************************************************)
\* Every reachable state of the web chat has the types of its tables and of
\* what the server keeps in memory (schema.ts, webchat/index.ts).
THEOREM TypesHold == Spec => []TypeOK
  <1>1. IInv => TypeOK
    BY DEF IInv, SessionsOK, FormsOK, ConvsOK, HistoryOK, AllRows, TypeOK
  <1>2. QED BY <1>1, Inductive, PTL

\* Whatever conversations the verifications merge while the pipeline answers
\* (moveMessages), each saved guest message and each answer is in exactly one
\* of them.
THEOREM NoMessageIsLost == Spec => []MessagesKept
  <1>1. IInv => MessagesKept
    BY DEF IInv, HistoryOK, Traced, Once, MessagesKept, InOneConversation
  <1>2. QED BY <1>1, Inductive, PTL

\* A session is moved to another session's conversation only by its own
\* verification, and only to one of the guest it is verified as
\* (completeVerification), for any number of guests and forms at once.
THEOREM RestoresAreOwn == Spec => RestoresOwnConversation
  <1>1. IInv /\ [Next]_vars =>
           [\A s \in Sessions :
              /\ Stored(session[s])
              /\ Stored(session'[s])
              /\ session'[s].conversation \notin {session[s].conversation, s}
              => /\ session'[s].status = "verified"
                 /\ owner[session'[s].conversation] = session'[s].guest]_vars
    <2> SUFFICES ASSUME IInv, [Next]_vars, NEW s \in Sessions,
                        Stored(session[s]), Stored(session'[s]),
                        session'[s].conversation \notin {session[s].conversation, s}
                 PROVE  /\ session'[s].status = "verified"
                        /\ owner[session'[s].conversation] = session'[s].guest
      OBVIOUS
    <2>1. Rewritten(s)
      BY Step DEF Kept, RowsStep
    <2>2. session'[s] # LinkConversation(session[s], s)
      <3>1. session[s] \in SessionRows
        BY RowOf, RowsAre
      <3>2. LinkConversation(session[s], s).conversation = s
        BY <3>1 DEF LinkConversation, OnStored, SessionRows
      <3>3. QED BY <3>2
    <2>3. ~Quiet(session'[s], session[s]) /\ session'[s] # Deleted
      BY RowsAre DEF Quiet
    <2>4. Verifies(s)
      BY <2>1, <2>2, <2>3 DEF Rewritten
    <2>5. QED BY <2>4 DEF Verifies
  <1>2. QED BY <1>1, Inductive, PTL DEF Spec, RestoresOwnConversation

\* A session that verified in house is admitted through the last day of its
\* stay, for any bookings, days, forms and messages: no later write of the row
\* moves the expiry in front of it (verify, touch).
THEOREM StaysAreCovered == Spec => []ValidThroughStay
  <1>1. IInv => ValidThroughStay
    <2> SUFFICES ASSUME IInv, NEW s \in Sessions,
                        Stored(session[s]), session[s].status = "verified",
                        now <= Stay[session[s].booking].checkOut,
                        ~Valid(session[s], now)
                 PROVE  session[s].expiresAt < Stay[session[s].booking].checkIn + PreArrivalTTL
      BY DEF ValidThroughStay
    <2>1. Timed(session[s]) /\ session[s] \in SessionRows /\ now \in Nat
      BY RowOf, RowsAre
    <2>2. session[s].booking \in Bookings /\ session[s].expiresAt \in Nat
      BY <2>1 DEF Timed, SessionRows
    <2>3. Stay[session[s].booking].checkOut \in Nat
      BY <2>2, BookingAssumption
    <2>4. session[s].expiresAt <= now
      BY <2>1, <2>2 DEF Valid
    <2>5. QED BY <2>1, <2>2, <2>3, <2>4 DEF Timed
  <1>2. QED BY <1>1, Inductive, PTL

\* A session leaves the conversation it was restored to only by verifying again
\* or when a message of its own is answered, whatever other sessions, forms and
\* failures do (linkConversation): the exception is the only one.
THEOREM RestoresLeaveByReply == Spec => RestoreLeavesByReply
  <1>1. IInv /\ [Next]_vars =>
           [\A s \in Sessions :
              /\ Stored(session[s])
              /\ session[s].conversation \notin {NoSession, s}
              /\ Stored(session'[s])
              /\ session'[s].conversation # session[s].conversation
              => \/ \E r \in Requests : SessionOf[r] = s /\ reqPc[r] \in Waiting /\ reqPc'[r] = "idle"
                 \/ \E m \in Messages : /\ SessionOf[m] = s /\ msgPc[m] \in Handling
                                       /\ msgPc'[m] = "answered"]_vars
    <2> SUFFICES ASSUME IInv, [Next]_vars, NEW s \in Sessions,
                        Stored(session[s]), Stored(session'[s]),
                        session'[s].conversation # session[s].conversation
                 PROVE  \/ \E r \in Requests : /\ SessionOf[r] = s
                                              /\ reqPc[r] \in Waiting /\ reqPc'[r] = "idle"
                        \/ Answers(s)
      BY DEF Answers
    <2>1. Rewritten(s)
      BY Step DEF Kept, RowsStep
    <2>2. ~Quiet(session'[s], session[s]) /\ session'[s] # Deleted
      BY RowsAre DEF Quiet
    <2>3. QED BY <2>1, <2>2 DEF Rewritten, Verifies
  <1>2. QED BY <1>1, Inductive, PTL DEF Spec, RestoreLeavesByReply

\* The cleanup deletes an anonymous session only a full day after its last
\* message or form, whatever else touched the row since (touch).
THEOREM CleanupIsPatient == Spec => CleanupSparesActive
  <1>1. IInv /\ [Next]_vars =>
           [\A s \in Sessions :
              /\ Stored(session[s])
              /\ session[s].status = "anonymous"
              /\ session'[s] = Deleted
              => session[s].lastActivityAt + AnonymousTTL < now]_vars
    <2> SUFFICES ASSUME IInv, [Next]_vars, NEW s \in Sessions, Stored(session[s]),
                        session[s].status = "anonymous", session'[s] = Deleted
                 PROVE  session[s].lastActivityAt + AnonymousTTL < now
      OBVIOUS
    <2>1. Rewritten(s)
      BY Step DEF Kept, RowsStep
    <2>2. ~Stored(session'[s])
      BY RowsAre
    <2>3. session'[s] # LinkConversation(session[s], s)
      <3>1. session[s] \in SessionRows
        BY RowOf, RowsAre
      <3>2. LinkConversation(session[s], s).status = session[s].status
        BY <3>1 DEF LinkConversation, OnStored, SessionRows
      <3>3. QED BY <2>2, <3>2 DEF Stored
    <2>4. CleanupDeletes(session[s], now)
      BY <2>1, <2>2, <2>3 DEF Rewritten, Quiet, Verifies
    <2>5. QED BY <2>4, RowOf DEF CleanupDeletes, Timed
  <1>2. QED BY <1>1, Inductive, PTL DEF Spec, CleanupSparesActive

\* No message, restore or form under way cuts short the validity a verified
\* session has for its stay; only another verification does (touch, verify).
THEOREM StayIsKept == Spec => StayOutlastsActivity
  <1>1. IInv /\ [Next]_vars =>
           [\A s \in Sessions :
              /\ Stored(session[s])
              /\ session[s].status = "verified"
              /\ Stored(session'[s])
              /\ session'[s].expiresAt < session[s].expiresAt
              => \E r \in Requests : SessionOf[r] = s /\ reqPc[r] \in Waiting /\ reqPc'[r] = "idle"]_vars
    <2> SUFFICES ASSUME IInv, [Next]_vars, NEW s \in Sessions, Stored(session[s]),
                        session[s].status = "verified", Stored(session'[s]),
                        session'[s].expiresAt < session[s].expiresAt
                 PROVE  \E r \in Requests : SessionOf[r] = s /\ reqPc[r] \in Waiting /\ reqPc'[r] = "idle"
      OBVIOUS
    <2>1. Rewritten(s)
      BY Step DEF Kept, RowsStep
    <2>2. session[s] \in SessionRows
      BY RowOf, RowsAre
    <2>3. session'[s].expiresAt # session[s].expiresAt
      BY <2>2 DEF SessionRows
    <2>4. session'[s] # LinkConversation(session[s], s)
      <3>1. LinkConversation(session[s], s).expiresAt = session[s].expiresAt
        BY <2>2 DEF LinkConversation, OnStored, SessionRows
      <3>2. QED BY <2>3, <3>1
    <2>5. Verifies(s)
      BY <2>1, <2>3, <2>4, RowsAre DEF Rewritten, Quiet
    <2>6. QED BY <2>5 DEF Verifies
  <1>2. QED BY <1>1, Inductive, PTL DEF Spec, StayOutlastsActivity
=============================================================================
