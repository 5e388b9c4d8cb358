----------------------- MODULE MessagePipeline_proofs -----------------------
(***************************************************************************)
(* Safety of the message path for any number of messages, staff replies,   *)
(* addresses and guests, any cap and any number of messages in flight.     *)
(***************************************************************************)
EXTENDS PipelineRefinement, TLAPS

USE DEF Exists

-----------------------------------------------------------------------------
(***************************************************************************)
(* The row operators of Conversation.                                      *)
(***************************************************************************)
\* Every write of ConversationService keeps a row a row.
LEMMA RowWrites ==
    ASSUME NEW row \in Rows, NEW guest \in Guests \cup {NoGuest}
    PROVE  /\ Exists(row)
           /\ row # NoConversation
           /\ ReuseRow(row, guest) \in Rows
           /\ CreateRow(guest) \in Rows
           /\ AddMessage(row) \in Rows
           /\ Aged(row) \in Rows
           /\ LinkVerifiedGuest(row, guest) \in Rows
           /\ \A s \in States : UpdateState(row, s) \in Rows
           /\ \A l \in Languages : SetLanguage(row, l) \in Rows
           /\ \A n \in Nat, h \in SUBSET Credentials : StoreVerification(row, n, h) \in Rows
  <1>1. Exists(row) /\ row # NoConversation
    BY DEF Rows, States, NoConversation
  <1>2. ReuseRow(row, guest) \in Rows
    BY DEF Rows, ReuseRow, States
  <1>3. CreateRow(guest) \in Rows
    BY DEF Rows, CreateRow, States, Verification, NotStarted, Credentials, Stamps
  <1>4. AddMessage(row) \in Rows /\ Aged(row) \in Rows
    BY DEF Rows, AddMessage, Aged, Stamps
  <1>5. LinkVerifiedGuest(row, guest) \in Rows
    BY DEF Rows, LinkVerifiedGuest, Verification, NotStarted, Credentials
  <1>6. \A s \in States : UpdateState(row, s) \in Rows
    BY DEF Rows, UpdateState
  <1>7. \A l \in Languages : SetLanguage(row, l) \in Rows
    BY DEF Rows, SetLanguage
  <1>8. \A n \in Nat, h \in SUBSET Credentials : StoreVerification(row, n, h) \in Rows
    BY DEF Rows, StoreVerification, Verification
  <1>9. QED BY <1>1, <1>2, <1>3, <1>4, <1>5, <1>6, <1>7, <1>8

\* Whatever was stored before, findOrCreate returns a row.
LEMMA FindOrCreateRow ==
    ASSUME NEW row \in Rows \cup {NoConversation}, NEW guest \in Guests \cup {NoGuest}
    PROVE  FindOrCreate(row, guest) \in Rows
  <1>1. CASE row \in Rows
    BY <1>1, RowWrites DEF FindOrCreate
  <1>2. CASE row = NoConversation
    BY <1>2 DEF FindOrCreate, NoConversation, Rows, CreateRow, States, Verification,
                NotStarted, Credentials, Stamps
  <1>3. QED BY <1>1, <1>2

-----------------------------------------------------------------------------
(***************************************************************************)
(* Types.                                                                  *)
(***************************************************************************)
LEMMA Constants ==
    /\ AddressOf \in [Messages \cup Replies -> Channels]
    /\ PhoneGuest \in [Channels -> Guests \cup {NoGuest}]
    /\ StaffStates \subseteq States
    /\ Detectable \subseteq Languages \cup {NoLanguage}
    /\ EmptyContext \in Contexts
    /\ MaxAttempts \in Nat \ {0}
    /\ NoGuest \notin Guests
  BY AddressAssumption, PhoneAssumption, StaffAssumption, AIAssumption,
     MaxAttemptsAssumption, NoGuestAssumption
  DEF PatchableStates, EmptyContext, Contexts, Verification, NotStarted

\* A write keeps the table a table and every conversation there is.
LEMMA WriteTyped ==
    ASSUME TypeOK, NEW c \in Channels, NEW row \in Rows, Write(c, row)
    PROVE  /\ conv' \in [Channels -> Rows \cup {NoConversation}]
           /\ conv'[c] = row
           /\ \A d \in Channels : conv[d] \in Rows => conv'[d] \in Rows
  BY DEF TypeOK, Write

\* A save: the stamp moves, the history grows.
LEMMA SaveTyped ==
    ASSUME TypeOK, NEW c \in Channels, NEW row \in Rows, NEW e \in Entries,
           Write(c, AddMessage(row)), Append2Thread(c, e)
    PROVE  /\ conv' \in [Channels -> Rows \cup {NoConversation}]
           /\ thread' \in [Channels -> Seq(Entries)]
           /\ conv'[c] \in Rows
           /\ \A d \in Channels : conv[d] \in Rows => conv'[d] \in Rows
  <1>1. AddMessage(row) \in Rows
    BY DEF Rows, AddMessage, Stamps
  <1>2. Append(thread[c], e) \in Seq(Entries)
    BY DEF TypeOK
  <1>3. thread' \in [Channels -> Seq(Entries)]
    BY <1>2 DEF TypeOK, Append2Thread
  <1>4. QED BY <1>1, <1>3, WriteTyped

\* A run past Resolve works on a conversation that exists.
HasConversation ==
    /\ \A m \in Messages :
          pc[m] \in Running \ {"accepted"} => conv[AddressOf[m]] \in Rows
    /\ \A s \in Replies :
          staffPc[s] \in {"translating", "sending"} => conv[AddressOf[s]] \in Rows

Typed == TypeOK /\ HasConversation

\* The two saves that end in a send.
LEMMA SaveOutboundTyped ==
    ASSUME Typed, NEW m \in Messages, SaveOutbound(m), pc[m] \in Running \ {"accepted"},
           UNCHANGED <<ctx, staffPc, delivered, tasks, crashes>>
    PROVE  Typed'
  <1>1. By("ai", m) \in Entries /\ AddressOf[m] \in Channels /\ conv[AddressOf[m]] \in Rows
    BY Constants DEF By, Entries, Typed, HasConversation
  <1>2. /\ conv' \in [Channels -> Rows \cup {NoConversation}]
        /\ thread' \in [Channels -> Seq(Entries)]
        /\ conv'[AddressOf[m]] \in Rows
        /\ \A d \in Channels : conv[d] \in Rows => conv'[d] \in Rows
    BY <1>1, SaveTyped DEF SaveOutbound, Typed
  <1>3. TypeOK'
    BY <1>2 DEF SaveOutbound, Typed, TypeOK, Stages, Running
  <1>4. HasConversation'
    BY <1>2, Constants DEF SaveOutbound, Typed, TypeOK, HasConversation, Running
  <1>5. QED BY <1>3, <1>4 DEF Typed

LEMMA SaveStaffReplyTyped ==
    ASSUME Typed, NEW s \in Replies, SaveStaffReply(s), conv[AddressOf[s]] \in Rows,
           UNCHANGED <<pc, ctx, delivered, tasks, crashes>>
    PROVE  Typed'
  <1>1. By("staff", s) \in Entries /\ AddressOf[s] \in Channels
    BY Constants DEF By, Entries
  <1>2. /\ conv' \in [Channels -> Rows \cup {NoConversation}]
        /\ thread' \in [Channels -> Seq(Entries)]
        /\ conv'[AddressOf[s]] \in Rows
        /\ \A d \in Channels : conv[d] \in Rows => conv'[d] \in Rows
    BY <1>1, SaveTyped DEF SaveStaffReply, Typed
  <1>3. TypeOK'
    BY <1>2 DEF SaveStaffReply, Typed, TypeOK, StaffStages
  <1>4. HasConversation'
    BY <1>2, Constants DEF SaveStaffReply, Typed, TypeOK, HasConversation
  <1>5. QED BY <1>3, <1>4 DEF Typed

LEMMA TypedInit == Init => Typed
  BY Constants DEF Init, Typed, TypeOK, HasConversation, Stages, Running, StaffStages

\* Rows are never deleted.
LEMMA TypedStep == Typed /\ [Next]_vars => Typed'
  <1> SUFFICES ASSUME Typed, [Next]_vars PROVE Typed'
    OBVIOUS
  <1> USE Constants DEF Typed
  <1>1. ASSUME NEW m \in Messages, Receive(m) PROVE Typed'
    BY <1>1 DEF Receive, Step, TypeOK, HasConversation, Stages, Running
  <1>2. ASSUME NEW m \in Messages, MarkAsReadFails(m) PROVE Typed'
    BY <1>2 DEF MarkAsReadFails, Step, TypeOK, HasConversation, Stages, Running, Settled
  <1>3. ASSUME NEW m \in Messages, NEW known \in Guests \cup {NoGuest}, Resolve(m, known)
        PROVE Typed'
    <2> DEFINE row == FindOrCreate(conv[AddressOf[m]], known)
    <2>1. row \in Rows
      BY FindOrCreateRow DEF TypeOK
    <2>2. ctx' \in [Messages -> Contexts]
      BY <1>3, <2>1 DEF Resolve, TypeOK, Contexts, Rows
    <2>3. QED
      BY <1>3, <2>1, <2>2 DEF Resolve, Step, Write, TypeOK, HasConversation, Stages, Running
  <1>4. ASSUME NEW m \in Messages, NEW detected \in Detectable, DetectLanguage(m, detected)
        PROVE Typed'
    <2> DEFINE row == IF detected = NoLanguage THEN conv[AddressOf[m]]
                      ELSE SetLanguage(conv[AddressOf[m]], detected)
    <2>1. row \in Rows
      BY <1>4, RowWrites DEF DetectLanguage, HasConversation, Running
    <2>2. ctx' \in [Messages -> Contexts]
      BY <1>4 DEF DetectLanguage, TypeOK, Contexts
    <2>3. By("guest", m) \in Entries
      BY DEF By, Entries
    <2>4. CASE SaveInbound(m, row)
      <3>1. /\ conv' \in [Channels -> Rows \cup {NoConversation}]
            /\ thread' \in [Channels -> Seq(Entries)]
            /\ conv'[AddressOf[m]] \in Rows
            /\ \A d \in Channels : conv[d] \in Rows => conv'[d] \in Rows
        BY <2>1, <2>3, <2>4, SaveTyped DEF SaveInbound
      <3>2. TypeOK'
        BY <1>4, <2>2, <2>4, <3>1
        DEF DetectLanguage, SaveInbound, TypeOK, Stages, Running
      <3>3. HasConversation'
        BY <1>4, <2>4, <3>1
        DEF DetectLanguage, SaveInbound, TypeOK, HasConversation, Running
      <3>4. QED BY <3>2, <3>3
    <2>5. CASE Write(AddressOf[m], row) /\ pc' = [pc EXCEPT ![m] = "translatingIn"]
                 /\ UNCHANGED thread
      <3>1. /\ conv' \in [Channels -> Rows \cup {NoConversation}]
            /\ conv'[AddressOf[m]] \in Rows
            /\ \A d \in Channels : conv[d] \in Rows => conv'[d] \in Rows
        BY <2>1, <2>5, WriteTyped
      <3>2. TypeOK'
        BY <1>4, <2>2, <2>5, <3>1 DEF DetectLanguage, TypeOK, Stages, Running
      <3>3. HasConversation'
        BY <1>4, <2>5, <3>1 DEF DetectLanguage, TypeOK, HasConversation, Running
      <3>4. QED BY <3>2, <3>3
    <2>6. QED BY <1>4, <2>4, <2>5 DEF DetectLanguage
  <1>5. ASSUME NEW m \in Messages, TranslateInbound(m) PROVE Typed'
    <2>1. By("guest", m) \in Entries /\ conv[AddressOf[m]] \in Rows
      BY <1>5 DEF By, Entries, TranslateInbound, HasConversation, Running
    <2>2. /\ conv' \in [Channels -> Rows \cup {NoConversation}]
          /\ thread' \in [Channels -> Seq(Entries)]
          /\ conv'[AddressOf[m]] \in Rows
          /\ \A d \in Channels : conv[d] \in Rows => conv'[d] \in Rows
      BY <1>5, <2>1, SaveTyped DEF TranslateInbound, SaveInbound
    <2>3. TypeOK'
      BY <1>5, <2>2 DEF TranslateInbound, SaveInbound, TypeOK, Stages, Running
    <2>4. HasConversation'
      BY <1>5, <2>2 DEF TranslateInbound, SaveInbound, TypeOK, HasConversation, Running
    <2>5. QED BY <2>3, <2>4
  <1>6. ASSUME NEW m \in Messages, NEW intent \in Intents, ClassifyIntent(m, intent)
        PROVE Typed'
    <2> DEFINE TaskType == [channel : Channels, message : Messages, requiresIdentity : BOOLEAN]
    <2>0. TaskOf(m, intent) \in TaskType
      BY Zenon DEF TaskOf
    <2>1. tasks' \subseteq TaskType
      BY <1>6, <2>0 DEF ClassifyIntent, TypeOK
    <2>2. TypeOK'
      BY <1>6, <2>1 DEF ClassifyIntent, Step, TypeOK, Stages, Running
    <2>3. HasConversation'
      BY <1>6 DEF ClassifyIntent, Step, TypeOK, HasConversation, Running
    <2>4. QED BY <2>2, <2>3
  <1>7. ASSUME NEW m \in Messages, NEW found \in SUBSET Credentials,
               ExtractCredentials(m, found)
        PROVE Typed'
    <2> DEFINE held == ctx[m].stored.held \cup found
               row == StoreVerification(conv[AddressOf[m]], ctx[m].stored.attempts, held)
    <2>1. held \in SUBSET Credentials /\ ctx[m].stored.attempts \in Nat
      BY DEF TypeOK, Contexts, Verification
    <2>2. ctx' \in [Messages -> Contexts]
      BY <1>7, <2>1 DEF ExtractCredentials, TypeOK, Contexts, Verification
    <2>3. conv[AddressOf[m]] \in Rows
      BY <1>7 DEF ExtractCredentials, HasConversation, Running
    <2>4. row \in Rows
      BY <2>1, <2>3, RowWrites
    <2>5. /\ conv' \in [Channels -> Rows \cup {NoConversation}]
          /\ conv'[AddressOf[m]] \in Rows
          /\ \A d \in Channels : conv[d] \in Rows => conv'[d] \in Rows
      <3>1. CASE Write(AddressOf[m], row)
        BY <2>4, <3>1, WriteTyped
      <3>2. CASE UNCHANGED conv
        BY <2>3, <3>2 DEF TypeOK
      <3>3. QED BY <1>7, <3>1, <3>2 DEF ExtractCredentials
    <2>6. TypeOK'
      BY <1>7, <2>2, <2>5 DEF ExtractCredentials, TypeOK, Stages, Running
    <2>7. HasConversation'
      BY <1>7, <2>5 DEF ExtractCredentials, TypeOK, HasConversation, Running
    <2>8. QED BY <2>6, <2>7
  <1>8. ASSUME NEW m \in Messages, NEW guest \in Guests, LookupSucceeds(m, guest)
        PROVE Typed'
    <2>1. conv[AddressOf[m]] \in Rows
      BY <1>8 DEF LookupSucceeds, Step, HasConversation, Running
    <2>2. LinkVerifiedGuest(conv[AddressOf[m]], guest) \in Rows
      BY <2>1, RowWrites
    <2>3. /\ conv' \in [Channels -> Rows \cup {NoConversation}]
          /\ \A d \in Channels : conv[d] \in Rows => conv'[d] \in Rows
      BY <1>8, <2>2, WriteTyped DEF LookupSucceeds
    <2>4. TypeOK'
      BY <1>8, <2>3 DEF LookupSucceeds, Step, TypeOK, Stages, Running, Contexts
    <2>5. HasConversation'
      BY <1>8, <2>3 DEF LookupSucceeds, Step, TypeOK, HasConversation, Running
    <2>6. QED BY <2>4, <2>5
  <1>9. ASSUME NEW m \in Messages, LookupFails(m) PROVE Typed'
    <2> DEFINE row == StoreVerification(conv[AddressOf[m]], ctx[m].stored.attempts + 1,
                                        ctx[m].stored.held)
    <2>1. conv[AddressOf[m]] \in Rows
      BY <1>9 DEF LookupFails, Step, HasConversation, Running
    <2>2. row \in Rows
      <3>1. ctx[m].stored.attempts + 1 \in Nat /\ ctx[m].stored.held \in SUBSET Credentials
        BY DEF TypeOK, Contexts, Verification
      <3>2. QED BY <2>1, <3>1, RowWrites
    <2>3. /\ conv' \in [Channels -> Rows \cup {NoConversation}]
          /\ \A d \in Channels : conv[d] \in Rows => conv'[d] \in Rows
      BY <1>9, <2>2, WriteTyped DEF LookupFails
    <2>4. TypeOK'
      <3>1. pc' \in [Messages -> Stages]
        BY <1>9 DEF LookupFails, Step, TypeOK, Stages, Running
      <3>2. QED BY <1>9, <2>3, <3>1 DEF LookupFails, TypeOK
    <2>5. HasConversation'
      BY <1>9, <2>3 DEF LookupFails, Step, TypeOK, HasConversation, Running
    <2>6. QED BY <2>4, <2>5
  <1>10. ASSUME NEW m \in Messages, GenerateResponse(m) PROVE Typed'
    <2>1. CASE SaveOutbound(m)
      BY <1>10, <2>1, SaveOutboundTyped DEF GenerateResponse, Running
    <2>2. CASE pc' = [pc EXCEPT ![m] = "translatingOut"] /\ UNCHANGED <<conv, thread>>
      BY <1>10, <2>2 DEF GenerateResponse, TypeOK, HasConversation, Stages, Running
    <2>3. QED BY <1>10, <2>1, <2>2 DEF GenerateResponse
  <1>11. ASSUME NEW m \in Messages, GenerateFails(m) PROVE Typed'
    BY <1>11 DEF GenerateFails, Step, TypeOK, HasConversation, Stages, Running
  <1>12. ASSUME NEW m \in Messages, TranslateOutbound(m) PROVE Typed'
    BY <1>12, SaveOutboundTyped DEF TranslateOutbound, Running
  <1>13. ASSUME NEW m \in Messages, SendReply(m) PROVE Typed'
    <2>1. delivered' \in [Channels -> Seq(Entries)]
      <3>1. By("ai", m) \in Entries
        BY DEF By, Entries
      <3>2. Append(delivered[AddressOf[m]], By("ai", m)) \in Seq(Entries)
        BY <3>1 DEF TypeOK
      <3>3. QED BY <1>13, <3>2 DEF SendReply, TypeOK
    <2>2. TypeOK'
      BY <1>13, <2>1 DEF SendReply, Step, DropContext, TypeOK, Stages, Settled
    <2>3. HasConversation'
      BY <1>13 DEF SendReply, Step, TypeOK, HasConversation, Running
    <2>4. QED BY <2>2, <2>3
  <1>14. ASSUME NEW m \in Messages, SendFails(m) PROVE Typed'
    <2>1. By("ai", m) \in Entries
      BY DEF By, Entries
    <2>2. Append(delivered[AddressOf[m]], By("ai", m)) \in Seq(Entries)
      BY <2>1 DEF TypeOK
    <2>3. delivered' \in [Channels -> Seq(Entries)]
      BY <1>14, <2>2 DEF SendFails, TypeOK
    <2>4. QED BY <1>14, <2>3 DEF SendFails, Step, TypeOK, HasConversation, Stages, Running
  <1>15. ASSUME NEW m \in Messages, Apologise(m) PROVE Typed'
    BY <1>15 DEF Apologise, Step, DropContext, TypeOK, HasConversation, Stages, Running, Settled
  <1>16. ASSUME NEW s \in Replies, StaffReply(s) PROVE Typed'
    <2>1. conv[AddressOf[s]] \in Rows
      BY <1>16 DEF StaffReply, TypeOK, NoConversation
    <2>2. CASE SaveStaffReply(s)
      BY <1>16, <2>1, <2>2, SaveStaffReplyTyped DEF StaffReply
    <2>3. CASE staffPc' = [staffPc EXCEPT ![s] = "translating"] /\ UNCHANGED <<conv, thread>>
      BY <1>16, <2>1, <2>3 DEF StaffReply, TypeOK, HasConversation, StaffStages
    <2>4. QED BY <1>16, <2>2, <2>3 DEF StaffReply
  <1>17. ASSUME NEW s \in Replies, TranslateStaffReply(s) PROVE Typed'
    BY <1>17, SaveStaffReplyTyped DEF TranslateStaffReply, HasConversation
  <1>18. ASSUME NEW s \in Replies, SendStaffReply(s) PROVE Typed'
    <2>1. delivered' \in [Channels -> Seq(Entries)]
      <3>1. By("staff", s) \in Entries
        BY DEF By, Entries
      <3>2. Append(delivered[AddressOf[s]], By("staff", s)) \in Seq(Entries)
        BY <3>1 DEF TypeOK
      <3>3. QED BY <1>18, <3>2 DEF SendStaffReply, TypeOK
    <2>2. QED
      BY <1>18, <2>1 DEF SendStaffReply, TypeOK, HasConversation, StaffStages
  <1>19. ASSUME NEW c \in Channels, NEW state \in StaffStates, PatchState(c, state)
         PROVE Typed'
    <2>1. conv[c] \in Rows
      BY <1>19 DEF PatchState, TypeOK, NoConversation
    <2>2. UpdateState(conv[c], state) \in Rows
      BY <2>1, RowWrites
    <2>3. QED
      BY <1>19, <2>2, WriteTyped DEF PatchState, TypeOK, HasConversation
  <1>20. ASSUME NEW c \in Channels, FourHoursPass(c) PROVE Typed'
    <2>1. conv[c] \in Rows
      BY <1>20 DEF FourHoursPass, TypeOK, NoConversation
    <2>2. Aged(conv[c]) \in Rows
      BY <2>1, RowWrites
    <2>3. QED
      BY <1>20, <2>2, WriteTyped DEF FourHoursPass, TypeOK, HasConversation
  <1>21. CASE IdleTimeout
    <2>1. \A c \in Channels : conv[c] \in Rows => UpdateState(conv[c], "closed") \in Rows
      BY RowWrites DEF States
    <2>2. \A c \in Channels : IsIdle(conv[c]) => conv[c] \in Rows
      BY DEF IsIdle, TypeOK, NoConversation
    <2>3. \A c \in Channels : conv'[c] = conv[c] \/ conv'[c] \in Rows
      BY <1>21, <2>1, <2>2 DEF IdleTimeout
    <2>4. conv' \in [Channels -> Rows \cup {NoConversation}]
      BY <1>21, <2>1, <2>2 DEF IdleTimeout, TypeOK
    <2>5. QED
      BY <1>21, <2>3, <2>4 DEF IdleTimeout, TypeOK, HasConversation
  <1>22. CASE Crash
    BY <1>22 DEF Crash, TypeOK, HasConversation, Stages, Running, Settled, StaffStages
  <1>23. CASE UNCHANGED vars
    BY <1>23 DEF vars, TypeOK, HasConversation
  <1>24. QED
    BY <1>1, <1>2, <1>3, <1>4, <1>5, <1>6, <1>7, <1>8, <1>9, <1>10, <1>11, <1>12, <1>13,
       <1>14, <1>15, <1>16, <1>17, <1>18, <1>19, <1>20, <1>21, <1>22, <1>23
    DEF Next, Handle, HandleStaff

\* Every variable keeps its type and rows are never deleted.
THEOREM TypeCorrect == Spec => []TypeOK
  <1>1. Spec => []Typed
    BY TypedInit, TypedStep, PTL DEF Spec
  <1>2. Typed => TypeOK
    BY DEF Typed
  <1>3. QED BY <1>1, <1>2, PTL

-----------------------------------------------------------------------------
(***************************************************************************)
(* The cap on verification attempts.  The stored count is written from a   *)
(* snapshot, so the snapshots are capped as well, and strictly while a     *)
(* lookup is under way: an attempt only starts below the cap.              *)
(***************************************************************************)
Capped ==
    /\ \A c \in Channels : conv[c] \in Rows => conv[c].verification.attempts <= MaxAttempts
    /\ \A m \in Messages : ctx[m].stored.attempts <= MaxAttempts
    /\ \A m \in Messages :
          pc[m] \in {"extracting", "lookingUp"} => ctx[m].stored.attempts < MaxAttempts

LEMMA CappedInit == Init => Capped
  BY Constants DEF Init, Capped, EmptyContext, NotStarted, NoConversation, Rows, States

\* What each write does to the stored count.
LEMMA RowAttempts ==
    ASSUME NEW row \in Rows, NEW guest \in Guests \cup {NoGuest}
    PROVE  /\ AddMessage(row).verification = row.verification
           /\ Aged(row).verification = row.verification
           /\ ReuseRow(row, guest).verification = row.verification
           /\ LinkVerifiedGuest(row, guest).verification.attempts = 0
           /\ \A s \in States : UpdateState(row, s).verification = row.verification
           /\ \A l \in Languages : SetLanguage(row, l).verification = row.verification
           /\ \A n \in Nat, h \in SUBSET Credentials :
                 StoreVerification(row, n, h).verification.attempts = n
  BY DEF Rows, AddMessage, Aged, ReuseRow, LinkVerifiedGuest, NotStarted, UpdateState,
         SetLanguage, StoreVerification

CappedRow(row) == row.verification.attempts <= MaxAttempts

LEMMA WriteCapped ==
    ASSUME Typed, Capped, NEW c \in Channels, NEW row \in Rows, CappedRow(row), Write(c, row)
    PROVE  \A d \in Channels : conv'[d] \in Rows => CappedRow(conv'[d])
  BY DEF Typed, TypeOK, Capped, CappedRow, Write

\* A step that leaves the snapshots alone and starts no attempt.
LEMMA CappedFrame ==
    ASSUME Typed, Capped, UNCHANGED ctx,
           \A m \in Messages : pc'[m] \in {"extracting", "lookingUp"} => pc'[m] = pc[m],
           \A d \in Channels : conv'[d] \in Rows => CappedRow(conv'[d])
    PROVE  Capped'
  BY DEF Capped, CappedRow

LEMMA CappedStep == Typed /\ Capped /\ [Next]_vars => Capped'
  <1> SUFFICES ASSUME Typed, Capped, [Next]_vars PROVE Capped'
    OBVIOUS
  <1> USE Constants
  <1>0. \A d \in Channels : conv[d] \in Rows => CappedRow(conv[d])
    BY DEF Capped, CappedRow
  <1>1. ASSUME NEW m \in Messages, Receive(m) PROVE Capped'
    BY <1>0, <1>1, CappedFrame DEF Receive, Step, Typed, TypeOK
  <1>2. ASSUME NEW m \in Messages, MarkAsReadFails(m) PROVE Capped'
    BY <1>0, <1>2, CappedFrame DEF MarkAsReadFails, Step, Typed, TypeOK
  <1>3. ASSUME NEW m \in Messages, NEW known \in Guests \cup {NoGuest}, Resolve(m, known)
        PROVE Capped'
    <2> DEFINE row == FindOrCreate(conv[AddressOf[m]], known)
    <2>1. row \in Rows
      BY FindOrCreateRow DEF Typed, TypeOK
    <2>2. CappedRow(row)
      <3>1. CASE conv[AddressOf[m]] \in Rows
        BY <1>0, <3>1, RowAttempts, RowWrites DEF FindOrCreate, CappedRow
      <3>2. CASE conv[AddressOf[m]] = NoConversation
        BY <3>2 DEF FindOrCreate, NoConversation, CreateRow, NotStarted, CappedRow
      <3>3. QED BY <3>1, <3>2 DEF Typed, TypeOK
    <2>3. \A d \in Channels : conv'[d] \in Rows => CappedRow(conv'[d])
      BY <1>3, <2>1, <2>2, WriteCapped DEF Resolve
    <2>4. ctx'[m].stored = row.verification
      BY <1>3 DEF Resolve, Typed, TypeOK
    <2>5. \A n \in Messages \ {m} : ctx'[n] = ctx[n] /\ pc'[n] = pc[n]
      BY <1>3 DEF Resolve, Step, Typed, TypeOK
    <2>6. pc'[m] = "detecting"
      BY <1>3 DEF Resolve, Step, Typed, TypeOK
    <2>7. QED BY <2>2, <2>3, <2>4, <2>5, <2>6 DEF Capped, CappedRow
  <1>4. ASSUME NEW m \in Messages, NEW detected \in Detectable, DetectLanguage(m, detected)
        PROVE Capped'
    <2> DEFINE row == IF detected = NoLanguage THEN conv[AddressOf[m]]
                      ELSE SetLanguage(conv[AddressOf[m]], detected)
    <2>1. conv[AddressOf[m]] \in Rows
      BY <1>4 DEF DetectLanguage, Typed, HasConversation, Running
    <2>2. row \in Rows /\ CappedRow(row)
      BY <1>0, <2>1, RowWrites, RowAttempts DEF CappedRow
    <2>3. AddMessage(row) \in Rows /\ CappedRow(AddMessage(row))
      BY <2>2, RowWrites, RowAttempts DEF CappedRow
    <2>4. \A d \in Channels : conv'[d] \in Rows => CappedRow(conv'[d])
      BY <1>4, <2>2, <2>3, WriteCapped DEF DetectLanguage, SaveInbound
    <2>5. \A n \in Messages : ctx'[n].stored = ctx[n].stored
      BY <1>4 DEF DetectLanguage, Typed, TypeOK, Contexts
    <2>6. \A n \in Messages : pc'[n] \in {"extracting", "lookingUp"} => pc'[n] = pc[n]
      BY <1>4 DEF DetectLanguage, SaveInbound, Typed, TypeOK
    <2>7. QED BY <2>4, <2>5, <2>6 DEF Capped, CappedRow
  <1>5. ASSUME NEW m \in Messages, TranslateInbound(m) PROVE Capped'
    <2>1. conv[AddressOf[m]] \in Rows
      BY <1>5 DEF TranslateInbound, Typed, HasConversation, Running
    <2>2. AddMessage(conv[AddressOf[m]]) \in Rows /\ CappedRow(AddMessage(conv[AddressOf[m]]))
      BY <1>0, <2>1, RowWrites, RowAttempts DEF CappedRow
    <2>3. \A d \in Channels : conv'[d] \in Rows => CappedRow(conv'[d])
      BY <1>5, <2>2, WriteCapped DEF TranslateInbound, SaveInbound
    <2>4. QED
      BY <1>5, <2>3, CappedFrame DEF TranslateInbound, SaveInbound, Typed, TypeOK
  <1>6. ASSUME NEW m \in Messages, NEW intent \in Intents, ClassifyIntent(m, intent)
        PROVE Capped'
    <2>1. \A n \in Messages \ {m} : pc'[n] = pc[n]
      BY <1>6 DEF ClassifyIntent, Step, Typed, TypeOK
    <2>2. pc'[m] = "extracting" => ctx[m].stored.attempts < MaxAttempts
      BY <1>6 DEF ClassifyIntent, Step, MayVerify, Typed, TypeOK
    <2>3. pc'[m] # "lookingUp"
      BY <1>6 DEF ClassifyIntent, Step, Typed, TypeOK
    <2>4. UNCHANGED <<ctx, conv>>
      BY <1>6 DEF ClassifyIntent
    <2>5. QED BY <2>1, <2>2, <2>3, <2>4 DEF Capped
  <1>7. ASSUME NEW m \in Messages, NEW found \in SUBSET Credentials,
               ExtractCredentials(m, found)
        PROVE Capped'
    <2> DEFINE n == ctx[m].stored.attempts
               h == ctx[m].stored.held \cup found
    <2>1. conv[AddressOf[m]] \in Rows /\ n \in Nat /\ h \in SUBSET Credentials
      BY <1>7 DEF ExtractCredentials, Typed, TypeOK, HasConversation, Running, Contexts,
                  Verification
    <2>2. n < MaxAttempts
      BY <1>7 DEF ExtractCredentials, Capped
    <2> DEFINE row == StoreVerification(conv[AddressOf[m]], n, h)
    <2>3. row \in Rows /\ row.verification.attempts = n
      <3> HIDE DEF n, h
      <3>1. QED BY <2>1, RowWrites, RowAttempts
    <2>8. CappedRow(row)
      BY <2>1, <2>2, <2>3 DEF CappedRow
    <2>4. \A d \in Channels : conv'[d] \in Rows => CappedRow(conv'[d])
      BY <1>0, <1>7, <2>3, <2>8, WriteCapped DEF ExtractCredentials
    <2>5. \A k \in Messages : ctx'[k].stored.attempts = ctx[k].stored.attempts
      BY <1>7 DEF ExtractCredentials, Typed, TypeOK, Contexts, Verification
    <2>6. \A k \in Messages \ {m} : pc'[k] = pc[k]
      BY <1>7 DEF ExtractCredentials, Typed, TypeOK
    <2>7. QED BY <2>2, <2>4, <2>5, <2>6 DEF Capped, CappedRow
  <1>8. ASSUME NEW m \in Messages, NEW guest \in Guests, LookupSucceeds(m, guest)
        PROVE Capped'
    <2> DEFINE row == LinkVerifiedGuest(conv[AddressOf[m]], guest)
    <2>1. conv[AddressOf[m]] \in Rows
      BY <1>8 DEF LookupSucceeds, Step, Typed, HasConversation, Running
    <2>2. row \in Rows /\ CappedRow(row)
      <3>1. row \in Rows /\ row.verification.attempts = 0
        BY <2>1, RowWrites, RowAttempts
      <3>2. QED BY <3>1 DEF CappedRow
    <2>3. \A d \in Channels : conv'[d] \in Rows => CappedRow(conv'[d])
      BY <1>8, <2>2, WriteCapped DEF LookupSucceeds
    <2>4. \A k \in Messages : ctx'[k].stored = ctx[k].stored
      BY <1>8 DEF LookupSucceeds, Typed, TypeOK, Contexts
    <2>5. \A k \in Messages : pc'[k] \in {"extracting", "lookingUp"} => pc'[k] = pc[k]
      BY <1>8 DEF LookupSucceeds, Step, Typed, TypeOK
    <2>6. QED BY <2>3, <2>4, <2>5 DEF Capped, CappedRow
  <1>9. ASSUME NEW m \in Messages, LookupFails(m) PROVE Capped'
    <2> DEFINE n == ctx[m].stored.attempts + 1
               h == ctx[m].stored.held
               row == StoreVerification(conv[AddressOf[m]], n, h)
    <2>1. /\ conv[AddressOf[m]] \in Rows
          /\ ctx[m].stored.attempts \in Nat
          /\ h \in SUBSET Credentials
      BY <1>9 DEF LookupFails, Step, Typed, TypeOK, HasConversation, Running, Contexts,
                  Verification
    <2>2. ctx[m].stored.attempts < MaxAttempts
      BY <1>9 DEF LookupFails, Step, Capped
    <2>3. n \in Nat /\ n <= MaxAttempts
      BY <2>1, <2>2
    <2>4. row \in Rows /\ CappedRow(row)
      <3>1. row \in Rows /\ row.verification.attempts = n
        <4> HIDE DEF n, h
        <4>1. row \in Rows
          BY <2>1, <2>3, RowWrites
        <4>2. row.verification.attempts = n
          BY <2>1, <2>3, RowAttempts
        <4>3. QED BY <4>1, <4>2
      <3>2. QED BY <2>3, <3>1 DEF CappedRow
    <2>5. \A d \in Channels : conv'[d] \in Rows => CappedRow(conv'[d])
      BY <1>9, <2>4, WriteCapped DEF LookupFails
    <2>6. QED BY <1>9, <2>5, CappedFrame DEF LookupFails, Step, Typed, TypeOK
  <1>10. ASSUME NEW m \in Messages, SaveOutbound(m), pc[m] \in Running \ {"accepted"},
                UNCHANGED ctx
         PROVE Capped'
    <2>1. conv[AddressOf[m]] \in Rows
      BY <1>10 DEF Typed, HasConversation
    <2>2. AddMessage(conv[AddressOf[m]]) \in Rows /\ CappedRow(AddMessage(conv[AddressOf[m]]))
      BY <1>0, <2>1, RowWrites, RowAttempts DEF CappedRow
    <2>3. \A d \in Channels : conv'[d] \in Rows => CappedRow(conv'[d])
      BY <1>10, <2>2, WriteCapped DEF SaveOutbound
    <2>4. QED BY <1>10, <2>3, CappedFrame DEF SaveOutbound, Typed, TypeOK
  <1>11. ASSUME NEW m \in Messages, GenerateResponse(m) PROVE Capped'
    <2>1. CASE SaveOutbound(m)
      BY <1>10, <1>11, <2>1 DEF GenerateResponse, Running
    <2>2. CASE pc' = [pc EXCEPT ![m] = "translatingOut"] /\ UNCHANGED <<conv, thread>>
      BY <1>0, <1>11, <2>2, CappedFrame DEF GenerateResponse, Typed, TypeOK
    <2>3. QED BY <1>11, <2>1, <2>2 DEF GenerateResponse
  <1>12. ASSUME NEW m \in Messages, TranslateOutbound(m) PROVE Capped'
    BY <1>10, <1>12 DEF TranslateOutbound, Running
  <1>13. ASSUME NEW m \in Messages, GenerateFails(m) \/ SendFails(m) PROVE Capped'
    BY <1>0, <1>13, CappedFrame DEF GenerateFails, SendFails, Step, Typed, TypeOK
  <1>14. ASSUME NEW m \in Messages, SendReply(m) \/ Apologise(m) PROVE Capped'
    <2>1. pc'[m] \notin {"extracting", "lookingUp"} /\ ctx'[m].stored.attempts = 0
      BY <1>14 DEF SendReply, Apologise, Step, DropContext, EmptyContext, NotStarted, Typed, TypeOK
    <2>2. \A k \in Messages \ {m} : pc'[k] = pc[k] /\ ctx'[k] = ctx[k]
      BY <1>14 DEF SendReply, Apologise, Step, DropContext, Typed, TypeOK
    <2>3. UNCHANGED conv
      BY <1>14 DEF SendReply, Apologise
    <2>4. QED BY <2>1, <2>2, <2>3 DEF Capped
  <1>15. ASSUME NEW s \in Replies, SaveStaffReply(s), conv[AddressOf[s]] \in Rows,
                UNCHANGED <<pc, ctx>>
         PROVE Capped'
    <2>1. /\ AddMessage(conv[AddressOf[s]]) \in Rows
          /\ CappedRow(AddMessage(conv[AddressOf[s]]))
      BY <1>0, <1>15, RowWrites, RowAttempts DEF CappedRow
    <2>2. \A d \in Channels : conv'[d] \in Rows => CappedRow(conv'[d])
      BY <1>15, <2>1, WriteCapped DEF SaveStaffReply
    <2>3. QED BY <1>15, <2>2, CappedFrame
  <1>16. ASSUME NEW s \in Replies, StaffReply(s) PROVE Capped'
    <2>1. conv[AddressOf[s]] \in Rows
      BY <1>16 DEF StaffReply, Typed, TypeOK, NoConversation
    <2>2. QED BY <1>0, <1>15, <1>16, <2>1, CappedFrame DEF StaffReply
  <1>17. ASSUME NEW s \in Replies, TranslateStaffReply(s) PROVE Capped'
    BY <1>15, <1>17 DEF TranslateStaffReply, Typed, HasConversation
  <1>18. ASSUME NEW s \in Replies, SendStaffReply(s) PROVE Capped'
    BY <1>0, <1>18, CappedFrame DEF SendStaffReply
  <1>19. ASSUME NEW c \in Channels, NEW state \in StaffStates, PatchState(c, state)
         PROVE Capped'
    <2>1. conv[c] \in Rows
      BY <1>19 DEF PatchState, Typed, TypeOK, NoConversation
    <2>2. UpdateState(conv[c], state) \in Rows /\ CappedRow(UpdateState(conv[c], state))
      BY <1>0, <2>1, RowWrites, RowAttempts DEF CappedRow
    <2>3. \A d \in Channels : conv'[d] \in Rows => CappedRow(conv'[d])
      BY <1>19, <2>2, WriteCapped DEF PatchState
    <2>4. QED BY <1>19, <2>3, CappedFrame DEF PatchState
  <1>20. ASSUME NEW c \in Channels, FourHoursPass(c) PROVE Capped'
    <2>1. conv[c] \in Rows
      BY <1>20 DEF FourHoursPass, Typed, TypeOK, NoConversation
    <2>2. Aged(conv[c]) \in Rows /\ CappedRow(Aged(conv[c]))
      BY <1>0, <2>1, RowWrites, RowAttempts DEF CappedRow
    <2>3. \A d \in Channels : conv'[d] \in Rows => CappedRow(conv'[d])
      BY <1>20, <2>2, WriteCapped DEF FourHoursPass
    <2>4. QED BY <1>20, <2>3, CappedFrame DEF FourHoursPass
  <1>21. CASE IdleTimeout
    <2>1. \A c \in Channels : IsIdle(conv[c]) => conv[c] \in Rows
      BY DEF IsIdle, Typed, TypeOK, NoConversation
    <2>2. \A c \in Channels :
             conv[c] \in Rows => UpdateState(conv[c], "closed").verification = conv[c].verification
      BY RowAttempts DEF States
    <2>3. \A d \in Channels : conv'[d] \in Rows => CappedRow(conv'[d])
      BY <1>0, <1>21, <2>1, <2>2 DEF IdleTimeout, CappedRow
    <2>4. QED BY <1>21, <2>3, CappedFrame DEF IdleTimeout
  <1>22. CASE Crash
    BY <1>22 DEF Crash, Capped, Running, EmptyContext, NotStarted, Typed, TypeOK
  <1>23. CASE UNCHANGED vars
    BY <1>23 DEF vars, Capped
  <1>24. QED
    BY <1>1, <1>2, <1>3, <1>4, <1>5, <1>6, <1>7, <1>8, <1>9, <1>11, <1>12, <1>13,
       <1>14, <1>16, <1>17, <1>18, <1>19, <1>20, <1>21, <1>22, <1>23
    DEF Next, Handle, HandleStaff

\* The stored count of failed verifications never passes the cap.
THEOREM AttemptsStayBounded == Spec => []AttemptsBound
  <1>1. Spec => [](Typed /\ Capped)
    BY TypedInit, TypedStep, CappedInit, CappedStep, PTL DEF Spec
  <1>2. Typed /\ Capped => AttemptsBound
    BY DEF Typed, TypeOK, Capped, AttemptsBound, NoConversation
  <1>3. QED BY <1>1, <1>2, PTL

-----------------------------------------------------------------------------
(***************************************************************************)
(* What a step may do to a conversation that is there, and what the parts  *)
(* of a run that rely on it have to be told.                               *)
(***************************************************************************)
KeepsRow(new, old) ==
    old \in Rows => /\ new \in Rows
                    /\ old.guest # NoGuest => new.guest = old.guest
                    /\ old.lastMessageAt = "fresh" => new.lastMessageAt = "fresh"

LEMMA WritesKeep ==
    ASSUME NEW row \in Rows, NEW guest \in Guests \cup {NoGuest}
    PROVE  /\ KeepsRow(AddMessage(row), row) /\ AddMessage(row).lastMessageAt = "fresh"
           /\ KeepsRow(ReuseRow(row, guest), row)
           /\ guest # NoGuest => ReuseRow(row, guest).guest # NoGuest
           /\ \A s \in States : KeepsRow(UpdateState(row, s), row)
           /\ \A l \in Languages : KeepsRow(SetLanguage(row, l), row)
           /\ \A n \in Nat, h \in SUBSET Credentials : KeepsRow(StoreVerification(row, n, h), row)
           /\ LinkVerifiedGuest(row, guest).guest = guest
           /\ LinkVerifiedGuest(row, guest).lastMessageAt = row.lastMessageAt
           /\ Aged(row).guest = row.guest
  <1>1. KeepsRow(AddMessage(row), row) /\ AddMessage(row).lastMessageAt = "fresh"
    BY RowWrites DEF KeepsRow, AddMessage, Rows
  <1>2. /\ KeepsRow(ReuseRow(row, guest), row)
        /\ guest # NoGuest => ReuseRow(row, guest).guest # NoGuest
    BY RowWrites DEF KeepsRow, ReuseRow, LinksGuest, Rows
  <1>3. \A s \in States : KeepsRow(UpdateState(row, s), row)
    BY RowWrites DEF KeepsRow, UpdateState, Rows
  <1>4. \A l \in Languages : KeepsRow(SetLanguage(row, l), row)
    BY RowWrites DEF KeepsRow, SetLanguage, Rows
  <1>5. \A n \in Nat, h \in SUBSET Credentials : KeepsRow(StoreVerification(row, n, h), row)
    BY RowWrites DEF KeepsRow, StoreVerification, Rows
  <1>6. /\ LinkVerifiedGuest(row, guest).guest = guest
        /\ LinkVerifiedGuest(row, guest).lastMessageAt = row.lastMessageAt
        /\ Aged(row).guest = row.guest
    BY DEF LinkVerifiedGuest, Aged, Rows
  <1>7. QED BY <1>1, <1>2, <1>3, <1>4, <1>5, <1>6

LEMMA KeepsRowTwice ==
    ASSUME NEW a, NEW b, NEW c, KeepsRow(a, b), KeepsRow(b, c)
    PROVE  KeepsRow(a, c)
  BY DEF KeepsRow

Relinks(c) == \E m \in Messages, guest \in Guests : AddressOf[m] = c /\ LookupSucceeds(m, guest)

LinkedRow(row) == row \in Rows /\ row.guest # NoGuest

RowsStep ==
    /\ \A c \in Channels : KeepsRow(conv'[c], conv[c]) \/ FourHoursPass(c) \/ Relinks(c)
    /\ \A m \in Messages :
          /\ pc'[m] \in PastSave /\ pc[m] \notin PastSave
             => conv'[AddressOf[m]].lastMessageAt = "fresh"
          /\ ctx'[m].entity \notin {NoGuest, ctx[m].entity} => LinkedRow(conv'[AddressOf[m]])
    /\ \A t \in tasks' \ tasks :
          t.requiresIdentity => \E m \in Messages : t.channel = AddressOf[m] /\ ctx[m].entity # NoGuest

\* A step that writes one row, if any, and starts nothing that relies on it.
LEMMA OneRowStep ==
    ASSUME Typed, NEW c \in Channels, NEW row, KeepsRow(row, conv[c]),
           conv' = [conv EXCEPT ![c] = row], tasks' = tasks,
           \A m \in Messages : /\ pc'[m] \in PastSave => pc[m] \in PastSave
                               /\ ctx'[m].entity \in {NoGuest, ctx[m].entity}
    PROVE  RowsStep
  <1>1. \A d \in Channels : KeepsRow(conv'[d], conv[d])
    BY DEF KeepsRow, Typed, TypeOK
  <1>2. QED BY <1>1 DEF RowsStep

LEMMA NoRowStep ==
    ASSUME conv' = conv, tasks' = tasks,
           \A m \in Messages : /\ pc'[m] \in PastSave => pc[m] \in PastSave
                               /\ ctx'[m].entity \in {NoGuest, ctx[m].entity}
    PROVE  RowsStep
  BY DEF RowsStep, KeepsRow

\* A step of message m that saves the inbound after the write of row.
LEMMA SavedInboundStep ==
    ASSUME Typed, NEW m \in Messages, NEW row \in Rows, KeepsRow(row, conv[AddressOf[m]]),
           SaveInbound(m, row), tasks' = tasks,
           \A n \in Messages : ctx'[n].entity = ctx[n].entity
    PROVE  RowsStep
  <1> DEFINE c == AddressOf[m]
  <1>1. c \in Channels
    BY Constants
  <1>2. /\ KeepsRow(AddMessage(row), conv[c])
        /\ AddMessage(row).lastMessageAt = "fresh"
    <2>1. KeepsRow(AddMessage(row), row) /\ AddMessage(row).lastMessageAt = "fresh"
      BY WritesKeep
    <2>2. QED BY <2>1, KeepsRowTwice
  <1>3. conv' = [conv EXCEPT ![c] = AddMessage(row)] /\ pc' = [pc EXCEPT ![m] = "classifying"]
    BY DEF SaveInbound, Write
  <1>4. conv'[c] = AddMessage(row) /\ \A d \in Channels : KeepsRow(conv'[d], conv[d])
    BY <1>1, <1>2, <1>3 DEF Typed, TypeOK, KeepsRow
  <1>5. \A n \in Messages \ {m} : pc'[n] = pc[n]
    BY <1>3 DEF Typed, TypeOK
  <1>6. QED BY <1>2, <1>3, <1>4, <1>5 DEF RowsStep

LEMMA SavedOutboundStep ==
    ASSUME Typed, NEW m \in Messages, SaveOutbound(m), pc[m] \in PastSave, UNCHANGED <<ctx, tasks>>
    PROVE  RowsStep
  <1>1. conv[AddressOf[m]] \in Rows /\ AddressOf[m] \in Channels
    BY Constants DEF Typed, HasConversation, PastSave, Running
  <1>2. KeepsRow(AddMessage(conv[AddressOf[m]]), conv[AddressOf[m]])
    BY <1>1, WritesKeep
  <1>3. \A n \in Messages : pc'[n] \in PastSave => pc[n] \in PastSave
    BY DEF SaveOutbound, Typed, TypeOK
  <1>4. QED BY <1>1, <1>2, <1>3, OneRowStep DEF SaveOutbound, Write

LEMMA SavedStaffStep ==
    ASSUME Typed, NEW s \in Replies, SaveStaffReply(s), conv[AddressOf[s]] \in Rows,
           UNCHANGED <<pc, ctx, tasks>>
    PROVE  RowsStep
  <1>1. AddressOf[s] \in Channels
    BY Constants
  <1>2. KeepsRow(AddMessage(conv[AddressOf[s]]), conv[AddressOf[s]])
    BY WritesKeep
  <1>3. QED BY <1>1, <1>2, OneRowStep DEF SaveStaffReply, Write

LEMMA RowsStepHolds == Typed /\ [Next]_vars => RowsStep
  <1> SUFFICES ASSUME Typed, [Next]_vars PROVE RowsStep
    OBVIOUS
  <1> USE Constants
  <1>1. ASSUME NEW m \in Messages,
               Receive(m) \/ MarkAsReadFails(m) \/ GenerateFails(m) \/ SendFails(m)
        PROVE RowsStep
    BY <1>1, NoRowStep
    DEF Receive, MarkAsReadFails, GenerateFails, SendFails, Step, PastSave, Typed, TypeOK
  <1>2. ASSUME NEW m \in Messages, SendReply(m) \/ Apologise(m) PROVE RowsStep
    <2>0. PICK end \in {"answered", "apologised", "undelivered"} : pc' = [pc EXCEPT ![m] = end]
      BY <1>2 DEF SendReply, Apologise, Step
    <2>1. \A n \in Messages : pc'[n] \in PastSave => pc[n] \in PastSave
      BY <2>0 DEF PastSave, Typed, TypeOK
    <2>2. \A n \in Messages : ctx'[n].entity \in {NoGuest, ctx[n].entity}
      <3>1. ctx' = [ctx EXCEPT ![m] = EmptyContext]
        BY <1>2 DEF SendReply, Apologise, DropContext
      <3>2. \A n \in Messages : ctx'[n] \in {EmptyContext, ctx[n]}
        BY <3>1 DEF Typed, TypeOK
      <3>3. EmptyContext.entity = NoGuest
        BY DEF EmptyContext
      <3>4. QED BY <3>2, <3>3
    <2>3. UNCHANGED <<conv, tasks>>
      BY <1>2 DEF SendReply, Apologise
    <2>4. QED BY <2>1, <2>2, <2>3, NoRowStep
  <1>3. ASSUME NEW m \in Messages, NEW known \in Guests \cup {NoGuest}, Resolve(m, known)
        PROVE RowsStep
    <2> DEFINE c == AddressOf[m]
               row == FindOrCreate(conv[c], known)
    <2>1. row \in Rows /\ KeepsRow(row, conv[c]) /\ (known # NoGuest => row.guest # NoGuest)
      <3>1. CASE conv[c] \in Rows
        BY <3>1, RowWrites, WritesKeep DEF FindOrCreate
      <3>2. CASE conv[c] = NoConversation
        BY <3>2, FindOrCreateRow
        DEF FindOrCreate, NoConversation, CreateRow, KeepsRow, Rows, States
      <3>3. QED BY <3>1, <3>2 DEF Typed, TypeOK
    <2> HIDE DEF row
    <2>2. conv' = [conv EXCEPT ![c] = row] /\ tasks' = tasks
      BY <1>3 DEF Resolve, Write, row
    <2>3. conv'[c] = row /\ \A d \in Channels : KeepsRow(conv'[d], conv[d])
      BY <2>1, <2>2 DEF Typed, TypeOK, KeepsRow
    <2>4. ctx'[m].entity = (IF known # NoGuest THEN known ELSE row.guest)
      BY <1>3 DEF Resolve, row, Typed, TypeOK
    <2>5. \A n \in Messages \ {m} : ctx'[n] = ctx[n]
      BY <1>3 DEF Resolve, Typed, TypeOK
    <2>6. \A n \in Messages : pc'[n] \in PastSave => pc[n] \in PastSave
      BY <1>3 DEF Resolve, Step, PastSave, Typed, TypeOK
    <2>7. QED BY <2>1, <2>2, <2>3, <2>4, <2>5, <2>6 DEF RowsStep, LinkedRow
  <1>4. ASSUME NEW m \in Messages, NEW detected \in Detectable, DetectLanguage(m, detected)
        PROVE RowsStep
    <2> DEFINE old == conv[AddressOf[m]]
               row == IF detected = NoLanguage THEN old ELSE SetLanguage(old, detected)
    <2>1. row \in Rows /\ KeepsRow(row, old)
      <3>1. old \in Rows
        BY <1>4 DEF DetectLanguage, Typed, HasConversation, Running
      <3>2. QED BY <3>1, RowWrites, WritesKeep DEF KeepsRow
    <2>2. tasks' = tasks /\ \A n \in Messages : ctx'[n].entity = ctx[n].entity
      BY <1>4 DEF DetectLanguage, Typed, TypeOK, Contexts
    <2>3. CASE SaveInbound(m, row)
      BY <2>1, <2>2, <2>3, SavedInboundStep
    <2>4. CASE Write(AddressOf[m], row) /\ pc' = [pc EXCEPT ![m] = "translatingIn"]
      <3>1. \A n \in Messages : pc'[n] \in PastSave => pc[n] \in PastSave
        BY <2>4 DEF PastSave, Typed, TypeOK
      <3>2. conv' = [conv EXCEPT ![AddressOf[m]] = row]
        BY <2>4 DEF Write
      <3> HIDE DEF row
      <3>3. QED BY <2>1, <2>2, <3>1, <3>2, OneRowStep
    <2>5. QED BY <1>4, <2>3, <2>4 DEF DetectLanguage
  <1>5. ASSUME NEW m \in Messages, TranslateInbound(m) PROVE RowsStep
    <2>1. conv[AddressOf[m]] \in Rows
      BY <1>5 DEF TranslateInbound, Typed, HasConversation, Running
    <2>2. QED BY <1>5, <2>1, SavedInboundStep DEF TranslateInbound, KeepsRow
  <1>6. ASSUME NEW m \in Messages, NEW intent \in Intents, ClassifyIntent(m, intent)
        PROVE RowsStep
    <2>1. UNCHANGED <<conv, ctx>> /\ \A n \in Messages : pc'[n] \in PastSave => pc[n] \in PastSave
      BY <1>6 DEF ClassifyIntent, Step, PastSave, Typed, TypeOK
    <2>2. ASSUME NEW t \in tasks' \ tasks, t.requiresIdentity
          PROVE  t.channel = AddressOf[m] /\ ctx[m].entity # NoGuest
      <3>1. t = TaskOf(m, intent) /\ RoutesTask(m, intent)
        BY <1>6, <2>2 DEF ClassifyIntent
      <3>2. t.channel = AddressOf[m] /\ t.requiresIdentity = (intent = "guestRequest")
        BY <3>1 DEF TaskOf
      <3>3. QED BY <2>2, <3>1, <3>2 DEF RoutesTask
    <2>3. QED BY <2>1, <2>2 DEF RowsStep, KeepsRow
  <1>7. ASSUME NEW m \in Messages, NEW found \in SUBSET Credentials,
               ExtractCredentials(m, found)
        PROVE RowsStep
    <2> DEFINE c == AddressOf[m]
               n == ctx[m].stored.attempts
               h == ctx[m].stored.held \cup found
               row == StoreVerification(conv[c], n, h)
    <2>1. conv[c] \in Rows /\ n \in Nat /\ h \in SUBSET Credentials
      BY <1>7 DEF ExtractCredentials, Typed, TypeOK, HasConversation, Running, Contexts,
                  Verification
    <2>2. \A k \in Messages : /\ pc'[k] \in PastSave => pc[k] \in PastSave
                              /\ ctx'[k].entity = ctx[k].entity
      BY <1>7 DEF ExtractCredentials, PastSave, Typed, TypeOK, Contexts
    <2>3. tasks' = tasks /\ (conv' = conv \/ conv' = [conv EXCEPT ![c] = row])
      BY <1>7 DEF ExtractCredentials, Write
    <2> HIDE DEF n, h
    <2>4. KeepsRow(row, conv[c])
      BY <2>1, WritesKeep
    <2> HIDE DEF row
    <2>5. QED BY <2>2, <2>3, <2>4, OneRowStep, NoRowStep
  <1>8. ASSUME NEW m \in Messages, NEW guest \in Guests, LookupSucceeds(m, guest)
        PROVE RowsStep
    <2> DEFINE c == AddressOf[m]
               row == LinkVerifiedGuest(conv[c], guest)
    <2>1. conv[c] \in Rows
      BY <1>8 DEF LookupSucceeds, Step, Typed, HasConversation, Running
    <2>2. row \in Rows /\ row.guest = guest /\ guest # NoGuest
      BY <2>1, RowWrites, WritesKeep
    <2>3. conv' = [conv EXCEPT ![c] = row] /\ tasks' = tasks
      BY <1>8 DEF LookupSucceeds, Write
    <2> HIDE DEF row
    <2>4. conv'[c] = row /\ \A d \in Channels \ {c} : conv'[d] = conv[d]
      BY <2>3 DEF Typed, TypeOK
    <2>5. \A n \in Messages : pc'[n] \in PastSave => pc[n] \in PastSave
      BY <1>8 DEF LookupSucceeds, Step, PastSave, Typed, TypeOK
    <2>6. \A n \in Messages \ {m} : ctx'[n] = ctx[n]
      BY <1>8 DEF LookupSucceeds, Typed, TypeOK
    <2>7. Relinks(c)
      BY <1>8 DEF Relinks
    <2>8. QED BY <2>2, <2>3, <2>4, <2>5, <2>6, <2>7 DEF RowsStep, LinkedRow, KeepsRow
  <1>9. ASSUME NEW m \in Messages, LookupFails(m) PROVE RowsStep
    <2> DEFINE c == AddressOf[m]
               n == ctx[m].stored.attempts + 1
               h == ctx[m].stored.held
               row == StoreVerification(conv[c], n, h)
    <2>1. conv[c] \in Rows /\ n \in Nat /\ h \in SUBSET Credentials
      BY <1>9 DEF LookupFails, Step, Typed, TypeOK, HasConversation, Running, Contexts,
                  Verification
    <2>2. \A k \in Messages : pc'[k] \in PastSave => pc[k] \in PastSave
      BY <1>9 DEF LookupFails, Step, PastSave, Typed, TypeOK
    <2>3. UNCHANGED <<ctx, tasks>> /\ conv' = [conv EXCEPT ![c] = row]
      BY <1>9 DEF LookupFails, Write
    <2> HIDE DEF n, h
    <2>4. KeepsRow(row, conv[c])
      BY <2>1, WritesKeep
    <2> HIDE DEF row
    <2>5. QED BY <2>2, <2>3, <2>4, OneRowStep
  <1>10. ASSUME NEW m \in Messages, GenerateResponse(m) PROVE RowsStep
    <2>1. CASE SaveOutbound(m)
      BY <1>10, <2>1, SavedOutboundStep DEF GenerateResponse, PastSave
    <2>2. CASE pc' = [pc EXCEPT ![m] = "translatingOut"] /\ UNCHANGED <<conv, thread>>
      BY <1>10, <2>2, NoRowStep DEF GenerateResponse, PastSave, Typed, TypeOK
    <2>3. QED BY <1>10, <2>1, <2>2 DEF GenerateResponse
  <1>11. ASSUME NEW m \in Messages, TranslateOutbound(m) PROVE RowsStep
    BY <1>11, SavedOutboundStep DEF TranslateOutbound, PastSave
  <1>12. ASSUME NEW s \in Replies, StaffReply(s) PROVE RowsStep
    <2>1. conv[AddressOf[s]] \in Rows
      BY <1>12 DEF StaffReply, Typed, TypeOK, NoConversation
    <2>2. CASE SaveStaffReply(s)
      BY <1>12, <2>1, <2>2, SavedStaffStep DEF StaffReply
    <2>3. CASE UNCHANGED <<conv, thread>>
      BY <1>12, <2>3, NoRowStep DEF StaffReply
    <2>4. QED BY <1>12, <2>2, <2>3 DEF StaffReply
  <1>13. ASSUME NEW s \in Replies, TranslateStaffReply(s) PROVE RowsStep
    BY <1>13, SavedStaffStep DEF TranslateStaffReply, Typed, HasConversation
  <1>14. ASSUME NEW s \in Replies, SendStaffReply(s) PROVE RowsStep
    BY <1>14, NoRowStep DEF SendStaffReply
  <1>15. ASSUME NEW c \in Channels, NEW state \in StaffStates, PatchState(c, state)
         PROVE RowsStep
    <2>1. conv[c] \in Rows
      BY <1>15 DEF PatchState, Typed, TypeOK, NoConversation
    <2>2. KeepsRow(UpdateState(conv[c], state), conv[c])
      BY <2>1, WritesKeep
    <2>3. QED BY <1>15, <2>2, OneRowStep DEF PatchState, Write
  <1>16. ASSUME NEW c \in Channels, FourHoursPass(c) PROVE RowsStep
    <2>1. \A d \in Channels \ {c} : conv'[d] = conv[d]
      BY <1>16 DEF FourHoursPass, Write, Typed, TypeOK
    <2>2. UNCHANGED <<pc, ctx, tasks>>
      BY <1>16 DEF FourHoursPass
    <2>3. QED BY <1>16, <2>1, <2>2 DEF RowsStep, KeepsRow
  <1>17. CASE IdleTimeout
    <2>1. ASSUME NEW c \in Channels PROVE KeepsRow(conv'[c], conv[c])
      <3>1. conv'[c] \in {conv[c], UpdateState(conv[c], "closed")}
        BY <1>17 DEF IdleTimeout
      <3>2. CASE conv[c] \in Rows
        BY <3>1, <3>2, WritesKeep DEF KeepsRow, States
      <3>3. QED BY <3>2 DEF KeepsRow
    <2>2. UNCHANGED <<pc, ctx, tasks>>
      BY <1>17 DEF IdleTimeout
    <2>3. QED BY <2>1, <2>2 DEF RowsStep
  <1>18. CASE Crash
    BY <1>18, NoRowStep DEF Crash, EmptyContext, PastSave, Typed, TypeOK
  <1>19. CASE UNCHANGED vars
    BY <1>19, NoRowStep DEF vars
  <1>20. QED
    BY <1>1, <1>2, <1>3, <1>4, <1>5, <1>6, <1>7, <1>8, <1>9, <1>10, <1>11, <1>12, <1>13,
       <1>14, <1>15, <1>16, <1>17, <1>18, <1>19
    DEF Next, Handle, HandleStaff

\* What RowsStep does not say of the two steps it names.
LEMMA NamedSteps ==
    ASSUME Typed, NEW c \in Channels, conv[c] \in Rows
    PROVE  /\ FourHoursPass(c) => /\ conv'[c] \in Rows /\ conv'[c].guest = conv[c].guest
                                  /\ UNCHANGED pc
                                  /\ \A m \in Messages : AddressOf[m] = c => pc[m] \notin Running
           /\ Relinks(c) => /\ conv'[c] \in Rows /\ conv'[c].guest # NoGuest
                            /\ conv'[c].lastMessageAt = conv[c].lastMessageAt
                            /\ \E m \in Messages :
                                  AddressOf[m] = c /\ pc[m] = "lookingUp" /\ pc'[m] = "generating"
  <1>1. ASSUME FourHoursPass(c)
        PROVE  /\ conv'[c] \in Rows /\ conv'[c].guest = conv[c].guest /\ UNCHANGED pc
               /\ \A m \in Messages : AddressOf[m] = c => pc[m] \notin Running
    <2>1. conv'[c] = Aged(conv[c])
      BY <1>1 DEF FourHoursPass, Write, Typed, TypeOK
    <2>2. QED BY <1>1, <2>1, RowWrites, WritesKeep, Constants DEF FourHoursPass, Outstanding
  <1>2. ASSUME NEW m \in Messages, NEW guest \in Guests, AddressOf[m] = c, LookupSucceeds(m, guest)
        PROVE  /\ conv'[c] \in Rows /\ conv'[c].guest # NoGuest
               /\ conv'[c].lastMessageAt = conv[c].lastMessageAt
               /\ pc[m] = "lookingUp" /\ pc'[m] = "generating"
    <2>1. conv'[c] = LinkVerifiedGuest(conv[c], guest)
      BY <1>2 DEF LookupSucceeds, Write, Typed, TypeOK
    <2>2. pc[m] = "lookingUp" /\ pc'[m] = "generating"
      BY <1>2 DEF LookupSucceeds, Step, Typed, TypeOK
    <2>3. LinkVerifiedGuest(conv[c], guest) \in Rows
      BY RowWrites
    <2>4. /\ LinkVerifiedGuest(conv[c], guest).guest = guest
          /\ LinkVerifiedGuest(conv[c], guest).lastMessageAt = conv[c].lastMessageAt
      BY WritesKeep
    <2>5. guest # NoGuest
      BY Constants
    <2>6. QED BY <2>1, <2>2, <2>3, <2>4, <2>5
  <1>3. QED BY <1>1, <1>2 DEF Relinks

-----------------------------------------------------------------------------
(***************************************************************************)
(* Guests, tasks and the idle job.  A run that knows the guest is on a     *)
(* linked conversation, and one past its save on a fresh one.              *)
(***************************************************************************)
Linked ==
    /\ \A t \in tasks : t.requiresIdentity => LinkedRow(conv[t.channel])
    /\ \A m \in Messages : ctx[m].entity # NoGuest => LinkedRow(conv[AddressOf[m]])

Fresh == \A m \in Messages : pc[m] \in PastSave => conv[AddressOf[m]].lastMessageAt = "fresh"

LEMMA LinksStay ==
    ASSUME Typed, RowsStep, NEW c \in Channels, LinkedRow(conv[c])
    PROVE  LinkedRow(conv'[c])
  <1>1. CASE KeepsRow(conv'[c], conv[c])
    BY <1>1 DEF KeepsRow, LinkedRow
  <1>2. CASE FourHoursPass(c) \/ Relinks(c)
    BY <1>2, NamedSteps DEF LinkedRow
  <1>3. QED BY <1>1, <1>2 DEF RowsStep

LEMMA LinkedStep == ASSUME Typed, Linked, RowsStep PROVE Linked'
  <1>1. ASSUME NEW m \in Messages, ctx'[m].entity # NoGuest
        PROVE  LinkedRow(conv'[AddressOf[m]])
    BY <1>1, LinksStay, Constants DEF Linked, RowsStep
  <1>2. ASSUME NEW t \in tasks', t.requiresIdentity
        PROVE  LinkedRow(conv'[t.channel])
    <2>1. CASE t \in tasks
      <3>1. t.channel \in Channels /\ LinkedRow(conv[t.channel])
        BY <1>2, <2>1 DEF Linked, Typed, TypeOK
      <3>2. QED BY <3>1, LinksStay
    <2>2. CASE t \notin tasks
      <3>1. PICK m \in Messages : t.channel = AddressOf[m] /\ ctx[m].entity # NoGuest
        BY <1>2, <2>2 DEF RowsStep
      <3>2. LinkedRow(conv[t.channel]) /\ t.channel \in Channels
        BY <3>1, Constants DEF Linked
      <3>3. QED BY <3>2, LinksStay
    <2>3. QED BY <2>1, <2>2
  <1>3. QED BY <1>1, <1>2 DEF Linked, LinkedRow

LEMMA FreshStep == ASSUME Typed, Fresh, RowsStep PROVE Fresh'
  <1> SUFFICES ASSUME NEW m \in Messages, pc'[m] \in PastSave
               PROVE  conv'[AddressOf[m]].lastMessageAt = "fresh"
    BY DEF Fresh
  <1> DEFINE c == AddressOf[m]
  <1>1. CASE pc[m] \notin PastSave
    BY <1>1 DEF RowsStep
  <1>2. CASE pc[m] \in PastSave
    <2>1. c \in Channels /\ conv[c] \in Rows /\ conv[c].lastMessageAt = "fresh"
      BY <1>2, Constants DEF Fresh, Typed, HasConversation, PastSave, Running
    <2>2. CASE KeepsRow(conv'[c], conv[c])
      BY <2>1, <2>2 DEF KeepsRow
    <2>3. CASE FourHoursPass(c)
      BY <1>2, <2>1, <2>3, NamedSteps DEF PastSave, Running
    <2>4. CASE Relinks(c)
      BY <2>1, <2>4, NamedSteps
    <2>5. QED BY <2>1, <2>2, <2>3, <2>4 DEF RowsStep
  <1>3. QED BY <1>1, <1>2

Relied == Typed /\ Linked /\ Fresh

LEMMA ReliedHolds == Spec => []Relied
  <1>1. Init => Relied
    BY TypedInit DEF Init, Relied, Linked, Fresh, EmptyContext, PastSave
  <1>2. Relied /\ [Next]_vars => Relied'
    BY TypedStep, RowsStepHolds, LinkedStep, FreshStep DEF Relied
  <1>3. QED BY <1>1, <1>2, PTL DEF Spec

\* A task that needs to know the guest stays on a conversation linked to one,
\* whichever messages, staff and jobs write the conversation afterwards
\* (routeTask).
THEOREM TasksKeepTheirGuest == Spec => []IdentityTasksLinked
  <1>1. Relied => IdentityTasksLinked
    BY DEF Relied, Linked, LinkedRow, IdentityTasksLinked
  <1>2. QED BY <1>1, ReliedHolds, PTL

\* Once linked, a conversation changes guest only by a lookup that matched,
\* for any number of handlers at once (findOrCreate, checkVerification).
THEOREM OnlyLookupsRelink == Spec => RelinkOnlyByLookup
  <1>1. Relied /\ [Next]_vars =>
           [\A c \in Channels :
              Exists(conv[c]) /\ conv[c].guest # NoGuest /\ conv'[c].guest # conv[c].guest
                => \E m \in Messages :
                     AddressOf[m] = c /\ pc[m] = "lookingUp" /\ pc'[m] = "generating"]_vars
    <2> SUFFICES ASSUME Relied, [Next]_vars, NEW c \in Channels, Exists(conv[c]),
                        conv[c].guest # NoGuest, conv'[c].guest # conv[c].guest
                 PROVE  \E m \in Messages :
                          AddressOf[m] = c /\ pc[m] = "lookingUp" /\ pc'[m] = "generating"
      OBVIOUS
    <2>1. Typed /\ RowsStep
      BY RowsStepHolds DEF Relied
    <2>2. conv[c] \in Rows
      BY <2>1 DEF Typed, TypeOK, NoConversation
    <2>3. ~KeepsRow(conv'[c], conv[c])
      BY <2>2 DEF KeepsRow
    <2>4. ~FourHoursPass(c)
      BY <2>1, <2>2, NamedSteps
    <2>5. Relinks(c)
      BY <2>1, <2>3, <2>4 DEF RowsStep
    <2>6. QED BY <2>1, <2>2, <2>5, NamedSteps
  <1>2. QED BY <1>1, ReliedHolds, PTL DEF Spec, RelinkOnlyByLookup

\* The idle job leaves every conversation alone in which a saved guest message
\* is still being answered, however many there are.
THEOREM IdleSpares == Spec => IdleSparesAnswering
  <1>1. Relied /\ [Next]_vars =>
           [\A c \in Channels :
              IdleTimeout /\ (\E m \in Outstanding(c) : pc[m] \in PastSave)
                => conv'[c] = conv[c]]_vars
    <2> SUFFICES ASSUME Relied, NEW c \in Channels, IdleTimeout,
                        NEW m \in Outstanding(c), pc[m] \in PastSave
                 PROVE  conv'[c] = conv[c]
      OBVIOUS
    <2>1. conv[c].lastMessageAt = "fresh"
      BY DEF Relied, Fresh, Outstanding
    <2>2. ~IsIdle(conv[c])
      BY <2>1 DEF IsIdle
    <2>3. QED BY <2>2 DEF IdleTimeout
  <1>2. QED BY <1>1, ReliedHolds, PTL DEF Spec, IdleSparesAnswering

-----------------------------------------------------------------------------
(***************************************************************************)
(* What a guest received was saved: so is every reply on its way.          *)
(***************************************************************************)
In(seq, e) == \E i \in DOMAIN seq : seq[i] = e

LEMMA AppendIn ==
    ASSUME NEW seq \in Seq(Entries), NEW e \in Entries, NEW x
    PROVE  In(Append(seq, e), x) <=> In(seq, x) \/ x = e
  <1>1. /\ Append(seq, e) \in Seq(Entries) /\ Len(Append(seq, e)) = Len(seq) + 1
        /\ Append(seq, e)[Len(seq) + 1] = e
        /\ \A i \in 1 .. Len(seq) : Append(seq, e)[i] = seq[i]
        /\ Len(seq) \in Nat
    OBVIOUS
  <1>2. DOMAIN seq = 1 .. Len(seq) /\ DOMAIN Append(seq, e) = 1 .. (Len(seq) + 1)
    BY <1>1
  <1>3. ASSUME In(seq, x) \/ x = e PROVE In(Append(seq, e), x)
    <2>1. CASE In(seq, x)
      <3>1. PICK i \in 1 .. Len(seq) : seq[i] = x
        BY <1>2, <2>1 DEF In
      <3>2. i \in 1 .. (Len(seq) + 1) /\ Append(seq, e)[i] = x
        BY <1>1, <3>1
      <3>3. QED BY <1>2, <3>2 DEF In
    <2>2. CASE x = e
      <3>1. Len(seq) + 1 \in 1 .. (Len(seq) + 1)
        BY <1>1
      <3>2. QED BY <1>1, <1>2, <2>2, <3>1 DEF In
    <2>3. QED BY <1>3, <2>1, <2>2
  <1>4. ASSUME In(Append(seq, e), x), x # e PROVE In(seq, x)
    <2>1. PICK i \in 1 .. (Len(seq) + 1) : Append(seq, e)[i] = x
      BY <1>2, <1>4 DEF In
    <2>2. i \in 1 .. Len(seq)
      BY <1>1, <1>4, <2>1
    <2>3. QED BY <1>1, <1>2, <2>1, <2>2 DEF In
  <1>5. QED BY <1>3, <1>4

\* The replies that are on their way to the guest of c.
OnTheWay(c, e) ==
    \/ \E m \in Messages : AddressOf[m] = c /\ pc[m] = "sending" /\ e = By("ai", m)
    \/ \E s \in Replies : AddressOf[s] = c /\ staffPc[s] = "sending" /\ e = By("staff", s)

OnRecord ==
    \A c \in Channels, e \in Entries : In(delivered[c], e) \/ OnTheWay(c, e) => In(thread[c], e)

SavesStep ==
    \A c \in Channels, e \in Entries :
        /\ In(thread[c], e) => In(thread'[c], e)
        /\ In(delivered'[c], e) => In(delivered[c], e) \/ OnTheWay(c, e)
        /\ OnTheWay(c, e)' => OnTheWay(c, e) \/ In(thread'[c], e)

LEMMA SavedInductive == ASSUME OnRecord, SavesStep PROVE OnRecord'
  BY DEF OnRecord, SavesStep

\* A line is saved, and nothing but its own reply gets on its way.
LEMMA SavesOne ==
    ASSUME Typed, NEW c \in Channels, NEW entry \in Entries, Append2Thread(c, entry),
           delivered' = delivered,
           \A d \in Channels, e \in Entries :
              OnTheWay(d, e)' => OnTheWay(d, e) \/ (d = c /\ e = entry)
    PROVE  SavesStep
  <1>1. /\ thread'[c] = Append(thread[c], entry) /\ thread[c] \in Seq(Entries)
        /\ \A d \in Channels \ {c} : thread'[d] = thread[d]
    BY DEF Append2Thread, Typed, TypeOK
  <1>2. \A e \in Entries : In(thread'[c], e) <=> In(thread[c], e) \/ e = entry
    BY <1>1, AppendIn
  <1>3. QED BY <1>1, <1>2 DEF SavesStep

\* Nothing is saved, and nothing gets on its way.
LEMMA SavesNothing ==
    ASSUME thread' = thread, delivered' = delivered,
           \A m \in Messages : pc'[m] = "sending" => pc[m] = "sending",
           \A s \in Replies : staffPc'[s] = "sending" => staffPc[s] = "sending"
    PROVE  SavesStep
  BY DEF SavesStep, OnTheWay

\* A reply on its way arrives.
LEMMA SavesArrival ==
    ASSUME Typed, NEW c \in Channels, NEW entry \in Entries, OnTheWay(c, entry),
           delivered' = [delivered EXCEPT ![c] = Append(@, entry)], thread' = thread,
           \A m \in Messages : pc'[m] = "sending" => pc[m] = "sending",
           \A s \in Replies : staffPc'[s] = "sending" => staffPc[s] = "sending"
    PROVE  SavesStep
  <1>1. /\ delivered'[c] = Append(delivered[c], entry) /\ delivered[c] \in Seq(Entries)
        /\ \A d \in Channels \ {c} : delivered'[d] = delivered[d]
    BY DEF Typed, TypeOK
  <1>2. \A e \in Entries : In(delivered'[c], e) <=> In(delivered[c], e) \/ e = entry
    BY <1>1, AppendIn
  <1>3. \A d \in Channels, e \in Entries : OnTheWay(d, e)' => OnTheWay(d, e)
    BY DEF OnTheWay
  <1>4. QED BY <1>1, <1>2, <1>3 DEF SavesStep

LEMMA InboundSaves ==
    ASSUME Typed, NEW m \in Messages, NEW row, SaveInbound(m, row), UNCHANGED <<staffPc, delivered>>
    PROVE  SavesStep
  <1>1. By("guest", m) \in Entries /\ AddressOf[m] \in Channels
    BY Constants DEF By, Entries
  <1>2. \A n \in Messages : pc'[n] = "sending" => pc[n] = "sending"
    BY DEF SaveInbound, Typed, TypeOK
  <1>3. QED BY <1>1, <1>2, SavesOne DEF SaveInbound, OnTheWay

LEMMA OutboundSaves ==
    ASSUME Typed, NEW m \in Messages, SaveOutbound(m), UNCHANGED <<staffPc, delivered>>
    PROVE  SavesStep
  <1>1. By("ai", m) \in Entries /\ AddressOf[m] \in Channels
    BY Constants DEF By, Entries
  <1>2. \A n \in Messages \ {m} : pc'[n] = pc[n]
    BY DEF SaveOutbound, Typed, TypeOK
  <1>3. QED BY <1>1, <1>2, SavesOne DEF SaveOutbound, OnTheWay

LEMMA StaffSaves ==
    ASSUME Typed, NEW s \in Replies, SaveStaffReply(s), UNCHANGED <<pc, delivered>>
    PROVE  SavesStep
  <1>1. By("staff", s) \in Entries /\ AddressOf[s] \in Channels
    BY Constants DEF By, Entries
  <1>2. \A x \in Replies \ {s} : staffPc'[x] = staffPc[x]
    BY DEF SaveStaffReply, Typed, TypeOK
  <1>3. QED BY <1>1, <1>2, SavesOne DEF SaveStaffReply, OnTheWay

LEMMA SavesStepHolds == Typed /\ [Next]_vars => SavesStep
  <1> SUFFICES ASSUME Typed, [Next]_vars PROVE SavesStep
    OBVIOUS
  <1> USE Constants
  <1>1. ASSUME NEW m \in Messages, Receive(m) \/ MarkAsReadFails(m) \/ GenerateFails(m)
        PROVE SavesStep
    BY <1>1, SavesNothing DEF Receive, MarkAsReadFails, GenerateFails, Step, Typed, TypeOK
  <1>2. ASSUME NEW m \in Messages, LookupFails(m) \/ Apologise(m) PROVE SavesStep
    <2>1. PICK to \in {"generating", "apologised", "undelivered"} : pc' = [pc EXCEPT ![m] = to]
      BY <1>2 DEF LookupFails, Apologise, Step
    <2>2. \A n \in Messages : pc'[n] = "sending" => pc[n] = "sending"
      BY <2>1 DEF Typed, TypeOK
    <2>3. QED BY <1>2, <2>2, SavesNothing DEF LookupFails, Apologise
  <1>3. ASSUME NEW m \in Messages, NEW known \in Guests \cup {NoGuest}, Resolve(m, known)
        PROVE SavesStep
    BY <1>3, SavesNothing DEF Resolve, Step, Typed, TypeOK
  <1>4. ASSUME NEW m \in Messages, NEW detected \in Detectable, DetectLanguage(m, detected)
        PROVE SavesStep
    <2>1. CASE \E row : SaveInbound(m, row)
      BY <1>4, <2>1, InboundSaves DEF DetectLanguage
    <2>2. CASE pc' = [pc EXCEPT ![m] = "translatingIn"] /\ UNCHANGED thread
      BY <1>4, <2>2, SavesNothing DEF DetectLanguage, Typed, TypeOK
    <2>3. QED BY <1>4, <2>1, <2>2 DEF DetectLanguage
  <1>5. ASSUME NEW m \in Messages, TranslateInbound(m) PROVE SavesStep
    BY <1>5, InboundSaves DEF TranslateInbound
  <1>6. ASSUME NEW m \in Messages, NEW intent \in Intents, ClassifyIntent(m, intent)
        PROVE SavesStep
    BY <1>6, SavesNothing DEF ClassifyIntent, Step, Typed, TypeOK
  <1>7. ASSUME NEW m \in Messages, NEW found \in SUBSET Credentials,
               ExtractCredentials(m, found)
        PROVE SavesStep
    BY <1>7, SavesNothing DEF ExtractCredentials, Typed, TypeOK
  <1>8. ASSUME NEW m \in Messages, NEW guest \in Guests, LookupSucceeds(m, guest)
        PROVE SavesStep
    BY <1>8, SavesNothing DEF LookupSucceeds, Step, Typed, TypeOK
  <1>9. ASSUME NEW m \in Messages, GenerateResponse(m) PROVE SavesStep
    <2>1. CASE SaveOutbound(m)
      BY <1>9, <2>1, OutboundSaves DEF GenerateResponse
    <2>2. CASE pc' = [pc EXCEPT ![m] = "translatingOut"] /\ UNCHANGED <<conv, thread>>
      BY <1>9, <2>2, SavesNothing DEF GenerateResponse, Typed, TypeOK
    <2>3. QED BY <1>9, <2>1, <2>2 DEF GenerateResponse
  <1>10. ASSUME NEW m \in Messages, TranslateOutbound(m) PROVE SavesStep
    BY <1>10, OutboundSaves DEF TranslateOutbound
  <1>11. ASSUME NEW m \in Messages, SendReply(m) \/ SendFails(m) PROVE SavesStep
    <2>1. By("ai", m) \in Entries /\ OnTheWay(AddressOf[m], By("ai", m))
      BY <1>11 DEF By, Entries, OnTheWay, SendReply, SendFails, Step
    <2>2. /\ \A n \in Messages : pc'[n] = "sending" => pc[n] = "sending"
          /\ UNCHANGED <<staffPc, thread>>
      BY <1>11 DEF SendReply, SendFails, Step, Typed, TypeOK
    <2>3. QED BY <1>11, <2>1, <2>2, SavesArrival, SavesNothing DEF SendReply, SendFails
  <1>12. ASSUME NEW s \in Replies, StaffReply(s) PROVE SavesStep
    <2>1. CASE SaveStaffReply(s)
      BY <1>12, <2>1, StaffSaves DEF StaffReply
    <2>2. CASE staffPc' = [staffPc EXCEPT ![s] = "translating"] /\ UNCHANGED <<conv, thread>>
      BY <1>12, <2>2, SavesNothing DEF StaffReply, Typed, TypeOK
    <2>3. QED BY <1>12, <2>1, <2>2 DEF StaffReply
  <1>13. ASSUME NEW s \in Replies, TranslateStaffReply(s) PROVE SavesStep
    BY <1>13, StaffSaves DEF TranslateStaffReply
  <1>14. ASSUME NEW s \in Replies, SendStaffReply(s) PROVE SavesStep
    <2>1. By("staff", s) \in Entries /\ OnTheWay(AddressOf[s], By("staff", s))
      BY <1>14 DEF By, Entries, OnTheWay, SendStaffReply
    <2>2. /\ \A x \in Replies : staffPc'[x] = "sending" => staffPc[x] = "sending"
          /\ UNCHANGED <<pc, thread>>
      BY <1>14 DEF SendStaffReply, Typed, TypeOK
    <2>3. QED BY <1>14, <2>1, <2>2, SavesArrival, SavesNothing DEF SendStaffReply
  <1>15. CASE \/ \E c \in Channels, state \in StaffStates : PatchState(c, state)
              \/ \E c \in Channels : FourHoursPass(c)
              \/ IdleTimeout \/ UNCHANGED vars
    BY <1>15, SavesNothing DEF PatchState, FourHoursPass, IdleTimeout, vars
  <1>16. CASE Crash
    BY <1>16, SavesNothing DEF Crash, Running, Typed, TypeOK
  <1>17. QED
    BY <1>1, <1>2, <1>3, <1>4, <1>5, <1>6, <1>7, <1>8, <1>9, <1>10, <1>11, <1>12, <1>13,
       <1>14, <1>15, <1>16
    DEF Next, Handle, HandleStaff

\* Whatever a guest received is in the history of the conversation, for any
\* number of replies under way, failed sends and restarts (saveOutbound and the
\* staff route).
THEOREM WhatWasSentIsSaved == Spec => []SentWasSaved
  <1>1. Init => Typed /\ OnRecord
    BY TypedInit DEF Init, OnRecord, OnTheWay, In
  <1>2. Typed /\ OnRecord /\ [Next]_vars => (Typed /\ OnRecord)'
    BY TypedStep, SavesStepHolds, SavedInductive
  <1>3. Typed /\ OnRecord => SentWasSaved
    <2> SUFFICES ASSUME Typed, OnRecord, NEW c \in Channels, NEW i \in DOMAIN delivered[c]
                 PROVE  In(thread[c], delivered[c][i])
      BY DEF SentWasSaved, In
    <2>1. delivered[c][i] \in Entries /\ In(delivered[c], delivered[c][i])
      BY DEF Typed, TypeOK, In
    <2>2. QED BY <2>1 DEF OnRecord
  <1>4. QED BY <1>1, <1>2, <1>3, PTL DEF Spec

-----------------------------------------------------------------------------
(***************************************************************************)
(* Handlers only go forward.  What one step does to the handlers, to the   *)
(* tasks and to what the guests received.                                  *)
(***************************************************************************)
Arrives(who, x) == delivered' = [delivered EXCEPT ![AddressOf[x]] = Append(@, By(who, x))]

HandlerStep ==
    /\ \A m \in Messages : pc'[m] # pc[m] => Rank[pc'[m]] > Rank[pc[m]]
    /\ \A m \in Messages :
          pc'[m] \in PastSave => pc[m] \in PastSave \/ In(thread'[AddressOf[m]], By("guest", m))
    /\ \/ tasks' = tasks
       \/ \E m \in Messages, intent \in Intents :
             /\ pc[m] = "classifying" /\ pc'[m] # "classifying"
             /\ tasks' = tasks \cup {TaskOf(m, intent)}
    /\ \A s \in Replies : staffPc[s] = "done" => staffPc'[s] = "done"
    /\ \/ delivered' = delivered
       \/ \E m \in Messages : pc[m] = "sending" /\ pc'[m] # "sending" /\ Arrives("ai", m)
       \/ \E s \in Replies : staffPc[s] = "sending" /\ staffPc'[s] = "done" /\ Arrives("staff", s)

\* The order, value by value.
LEMMA Ranks ==
    /\ Rank["unsent"] = 0 /\ Rank["accepted"] = 1 /\ Rank["detecting"] = 2
    /\ Rank["translatingIn"] = 3 /\ Rank["classifying"] = 4 /\ Rank["extracting"] = 5
    /\ Rank["lookingUp"] = 6 /\ Rank["generating"] = 7 /\ Rank["translatingOut"] = 8
    /\ Rank["sending"] = 9 /\ Rank["apologising"] = 10
    /\ \A end \in Settled : Rank[end] = 11
  BY DEF Rank, Settled

LEMMA RanksAreNumbers == \A stage \in Stages : Rank[stage] \in Nat
  BY Ranks DEF Stages, Running

Onward(from, to) == Rank[to] > Rank[from] /\ (to \in PastSave => from \in PastSave)

\* The moves of a handler that save nothing.
LEMMA Onwards ==
    /\ Onward("unsent", "accepted") /\ Onward("accepted", "dropped")
    /\ Onward("accepted", "detecting") /\ Onward("detecting", "translatingIn")
    /\ Onward("classifying", "extracting") /\ Onward("classifying", "generating")
    /\ Onward("extracting", "lookingUp") /\ Onward("extracting", "generating")
    /\ Onward("lookingUp", "generating") /\ Onward("generating", "translatingOut")
    /\ Onward("generating", "sending") /\ Onward("translatingOut", "sending")
    /\ Onward("generating", "apologising") /\ Onward("sending", "apologising")
    /\ Onward("sending", "answered")
    /\ Onward("apologising", "apologised") /\ Onward("apologising", "undelivered")
    /\ \A from \in Running : Onward(from, "lost")
  BY Ranks DEF Onward, PastSave, Settled, Running

\* One handler goes on, without a task or a delivery.
LEMMA OneHandler ==
    ASSUME Typed, NEW m \in Messages, NEW to, pc' = [pc EXCEPT ![m] = to],
           Rank[to] > Rank[pc[m]],
           to \in PastSave => pc[m] \in PastSave \/ In(thread'[AddressOf[m]], By("guest", m)),
           UNCHANGED <<staffPc, tasks, delivered>>
    PROVE  HandlerStep
  <1>1. pc'[m] = to /\ \A n \in Messages \ {m} : pc'[n] = pc[n]
    BY DEF Typed, TypeOK
  <1>2. QED BY <1>1 DEF HandlerStep

LEMMA HandlerGoes ==
    ASSUME Typed, NEW m \in Messages, NEW from, NEW to, Step(m, from, to), Onward(from, to),
           UNCHANGED <<staffPc, tasks, delivered>>
    PROVE  HandlerStep
  BY OneHandler DEF Step, Onward

\* No handler moves.
LEMMA NoHandler ==
    ASSUME UNCHANGED <<pc, tasks, delivered>>,
           \A s \in Replies : staffPc[s] = "done" => staffPc'[s] = "done"
    PROVE  HandlerStep
  BY DEF HandlerStep

LEMMA InboundIsIn ==
    ASSUME Typed, NEW m \in Messages, NEW row, SaveInbound(m, row)
    PROVE  In(thread'[AddressOf[m]], By("guest", m))
  <1>1. By("guest", m) \in Entries /\ AddressOf[m] \in Channels
    BY Constants DEF By, Entries
  <1>2. /\ thread'[AddressOf[m]] = Append(thread[AddressOf[m]], By("guest", m))
        /\ thread[AddressOf[m]] \in Seq(Entries)
    BY <1>1 DEF SaveInbound, Append2Thread, Typed, TypeOK
  <1>3. QED BY <1>1, <1>2, AppendIn

LEMMA HandlerStepHolds == Typed /\ [Next]_vars => HandlerStep
  <1> SUFFICES ASSUME Typed, [Next]_vars PROVE HandlerStep
    OBVIOUS
  <1>1. ASSUME NEW m \in Messages, Receive(m) PROVE HandlerStep
    BY <1>1, HandlerGoes, Onwards DEF Receive
  <1>2. ASSUME NEW m \in Messages, MarkAsReadFails(m) PROVE HandlerStep
    BY <1>2, HandlerGoes, Onwards DEF MarkAsReadFails
  <1>3. ASSUME NEW m \in Messages, NEW known \in Guests \cup {NoGuest}, Resolve(m, known)
        PROVE HandlerStep
    BY <1>3, HandlerGoes, Onwards DEF Resolve
  <1>4. ASSUME NEW m \in Messages, NEW row, SaveInbound(m, row),
               pc[m] \in {"detecting", "translatingIn"}, UNCHANGED <<staffPc, tasks, delivered>>
        PROVE HandlerStep
    <2>1. pc' = [pc EXCEPT ![m] = "classifying"] /\ In(thread'[AddressOf[m]], By("guest", m))
      BY <1>4, InboundIsIn DEF SaveInbound
    <2>2. Rank["classifying"] > Rank[pc[m]]
      BY <1>4, Ranks
    <2>3. QED BY <1>4, <2>1, <2>2, OneHandler
  <1>5. ASSUME NEW m \in Messages, NEW detected \in Detectable, DetectLanguage(m, detected)
        PROVE HandlerStep
    <2>1. CASE \E row : SaveInbound(m, row)
      BY <1>4, <1>5, <2>1 DEF DetectLanguage
    <2>2. CASE pc' = [pc EXCEPT ![m] = "translatingIn"]
      BY <1>5, <2>2, HandlerGoes, Onwards DEF DetectLanguage, Step
    <2>3. QED BY <1>5, <2>1, <2>2 DEF DetectLanguage
  <1>6. ASSUME NEW m \in Messages, TranslateInbound(m) PROVE HandlerStep
    BY <1>4, <1>6 DEF TranslateInbound
  <1>7. ASSUME NEW m \in Messages, NEW intent \in Intents, ClassifyIntent(m, intent)
        PROVE HandlerStep
    <2>1. PICK to \in {"extracting", "generating"} :
             pc[m] = "classifying" /\ pc' = [pc EXCEPT ![m] = to]
      BY <1>7 DEF ClassifyIntent, Step
    <2>2. pc'[m] = to /\ \A n \in Messages \ {m} : pc'[n] = pc[n]
      BY <2>1 DEF Typed, TypeOK
    <2>3. Onward(pc[m], to) /\ pc'[m] # "classifying"
      BY <2>1, <2>2, Onwards
    <2>4. tasks' = tasks \/ tasks' = tasks \cup {TaskOf(m, intent)}
      BY <1>7 DEF ClassifyIntent
    <2>5. UNCHANGED <<staffPc, delivered>>
      BY <1>7 DEF ClassifyIntent
    <2>6. QED BY <2>1, <2>2, <2>3, <2>4, <2>5 DEF HandlerStep, Onward
  <1>8. ASSUME NEW m \in Messages, NEW found \in SUBSET Credentials,
               ExtractCredentials(m, found)
        PROVE HandlerStep
    <2>1. Step(m, "extracting", "lookingUp") \/ Step(m, "extracting", "generating")
      BY <1>8 DEF ExtractCredentials, Step
    <2>2. UNCHANGED <<staffPc, tasks, delivered>>
      BY <1>8 DEF ExtractCredentials
    <2>3. QED BY <2>1, <2>2, HandlerGoes, Onwards
  <1>9. ASSUME NEW m \in Messages,
               LookupFails(m) \/ \E guest \in Guests : LookupSucceeds(m, guest)
        PROVE HandlerStep
    BY <1>9, HandlerGoes, Onwards DEF LookupFails, LookupSucceeds
  <1>10. ASSUME NEW m \in Messages, GenerateResponse(m) \/ TranslateOutbound(m)
         PROVE HandlerStep
    <2>1. \/ Step(m, "generating", "translatingOut")
          \/ Step(m, "generating", "sending")
          \/ Step(m, "translatingOut", "sending")
      BY <1>10 DEF GenerateResponse, TranslateOutbound, SaveOutbound, Step
    <2>2. UNCHANGED <<staffPc, tasks, delivered>>
      BY <1>10 DEF GenerateResponse, TranslateOutbound
    <2>3. QED BY <2>1, <2>2, HandlerGoes, Onwards
  <1>11. ASSUME NEW m \in Messages, GenerateFails(m) PROVE HandlerStep
    BY <1>11, HandlerGoes, Onwards DEF GenerateFails
  <1>12. ASSUME NEW m \in Messages, SendReply(m) \/ SendFails(m) PROVE HandlerStep
    <2>1. PICK to \in {"answered", "apologising"} :
             pc[m] = "sending" /\ pc' = [pc EXCEPT ![m] = to]
      BY <1>12 DEF SendReply, SendFails, Step
    <2>2. pc'[m] = to /\ \A n \in Messages \ {m} : pc'[n] = pc[n]
      BY <2>1 DEF Typed, TypeOK
    <2>3. Onward(pc[m], to) /\ pc'[m] # "sending"
      BY <2>1, <2>2, Onwards
    <2>4. delivered' = delivered \/ Arrives("ai", m)
      BY <1>12 DEF SendReply, SendFails, Arrives
    <2>5. UNCHANGED <<staffPc, tasks>>
      BY <1>12 DEF SendReply, SendFails
    <2>6. QED BY <2>1, <2>2, <2>3, <2>4, <2>5 DEF HandlerStep, Onward
  <1>13. ASSUME NEW m \in Messages, Apologise(m) PROVE HandlerStep
    BY <1>13, HandlerGoes, Onwards DEF Apologise
  <1>14. ASSUME NEW s \in Replies, StaffReply(s) \/ TranslateStaffReply(s) PROVE HandlerStep
    <2>1. PICK to : staffPc[s] \in {"idle", "translating"} /\ staffPc' = [staffPc EXCEPT ![s] = to]
      BY <1>14 DEF StaffReply, TranslateStaffReply, SaveStaffReply
    <2>2. \A x \in Replies : staffPc[x] = "done" => staffPc'[x] = "done"
      BY <2>1 DEF Typed, TypeOK
    <2>3. UNCHANGED <<pc, tasks, delivered>>
      BY <1>14 DEF StaffReply, TranslateStaffReply
    <2>4. QED BY <2>2, <2>3, NoHandler
  <1>15. ASSUME NEW s \in Replies, SendStaffReply(s) PROVE HandlerStep
    <2>1. staffPc[s] = "sending" /\ staffPc'[s] = "done"
          /\ \A x \in Replies \ {s} : staffPc'[x] = staffPc[x]
      BY <1>15 DEF SendStaffReply, Typed, TypeOK
    <2>2. delivered' = delivered \/ Arrives("staff", s)
      BY <1>15 DEF SendStaffReply, Arrives
    <2>3. UNCHANGED <<pc, tasks>>
      BY <1>15 DEF SendStaffReply
    <2>4. QED BY <2>1, <2>2, <2>3 DEF HandlerStep
  <1>16. CASE \/ \E c \in Channels, state \in StaffStates : PatchState(c, state)
              \/ \E c \in Channels : FourHoursPass(c)
              \/ IdleTimeout \/ UNCHANGED vars
    BY <1>16, NoHandler DEF PatchState, FourHoursPass, IdleTimeout, vars
  <1>17. CASE Crash
    <2>1. \A m \in Messages : pc'[m] = pc[m] \/ (pc[m] \in Running /\ pc'[m] = "lost")
      BY <1>17 DEF Crash
    <2>2. \A m \in Messages : pc'[m] # pc[m] => Rank[pc'[m]] > Rank[pc[m]]
      BY <2>1, Onwards DEF Onward
    <2>3. \A m \in Messages : pc'[m] \in PastSave => pc[m] \in PastSave
      BY <2>1, Onwards DEF Onward
    <2>4. \A s \in Replies : staffPc[s] = "done" => staffPc'[s] = "done"
      BY <1>17 DEF Crash
    <2>5. UNCHANGED <<tasks, delivered>>
      BY <1>17 DEF Crash
    <2>6. QED BY <2>2, <2>3, <2>4, <2>5 DEF HandlerStep
  <1>18. QED
    BY <1>1, <1>2, <1>3, <1>5, <1>6, <1>7, <1>8, <1>9, <1>10, <1>11, <1>12, <1>13, <1>14,
       <1>15, <1>16, <1>17
    DEF Next, Handle, HandleStaff

\* No handler ever goes back to a wait it has passed, whatever fails and
\* however many messages are handled at once (the stages of
\* src/pipeline/index.ts run in order, and no failure is retried).
THEOREM HandlersGoForward == Spec => HandlersAdvance
  <1>1. Typed /\ [Next]_vars =>
           [\A m \in Messages : pc'[m] # pc[m] => Rank[pc'[m]] > Rank[pc[m]]]_vars
    BY HandlerStepHolds DEF HandlerStep
  <1>2. QED BY <1>1, TypedInit, TypedStep, PTL DEF Spec, HandlersAdvance

-----------------------------------------------------------------------------
(***************************************************************************)
(* Tasks.  A message that raised one is past its classification.           *)
(***************************************************************************)
Traced ==
    /\ \A m \in Messages : pc[m] \in PastSave => In(thread[AddressOf[m]], By("guest", m))
    /\ \A t \in tasks :
          /\ t.channel = AddressOf[t.message]
          /\ In(thread[t.channel], By("guest", t.message))
          /\ Rank[pc[t.message]] > Rank["classifying"]
    /\ \A t, u \in tasks : t.message = u.message => t = u


\* What has been passed stays passed.
LEMMA StaysPassed ==
    ASSUME Typed, Typed', HandlerStep, NEW m \in Messages, NEW r \in Nat, Rank[pc[m]] > r
    PROVE  Rank[pc'[m]] > r
  <1>1. Rank[pc[m]] \in Nat /\ Rank[pc'[m]] \in Nat
    BY RanksAreNumbers DEF Typed, TypeOK
  <1>2. pc'[m] = pc[m] \/ Rank[pc'[m]] > Rank[pc[m]]
    BY DEF HandlerStep
  <1>3. QED BY <1>1, <1>2

LEMMA TracedStep ==
    ASSUME Typed, Typed', Traced, HandlerStep, SavesStep
    PROVE  Traced'
  <1>1. \A m \in Messages :
           In(thread[AddressOf[m]], By("guest", m)) => In(thread'[AddressOf[m]], By("guest", m))
    <2>1. \A m \in Messages : By("guest", m) \in Entries /\ AddressOf[m] \in Channels
      BY Constants DEF By, Entries
    <2>2. QED BY <2>1 DEF SavesStep
  <1>2. \A m \in Messages : pc'[m] \in PastSave => In(thread'[AddressOf[m]], By("guest", m))
    BY <1>1 DEF HandlerStep, Traced
  <1>3. Rank["classifying"] \in Nat
    BY Ranks
  <1>4. ASSUME NEW t \in tasks
        PROVE  /\ t.channel = AddressOf[t.message]
               /\ In(thread'[t.channel], By("guest", t.message))
               /\ Rank[pc'[t.message]] > Rank["classifying"]
    <2>1. t.message \in Messages
      BY DEF Typed, TypeOK
    <2>2. QED BY <1>1, <1>3, <2>1, StaysPassed DEF Traced
  <1>5. CASE tasks' = tasks
    BY <1>2, <1>4, <1>5 DEF Traced
  <1>6. ASSUME NEW m \in Messages, NEW intent \in Intents,
               pc[m] = "classifying", pc'[m] # "classifying",
               tasks' = tasks \cup {TaskOf(m, intent)}
        PROVE  Traced'
    <2> DEFINE new == TaskOf(m, intent)
    <2>1. new.channel = AddressOf[m] /\ new.message = m
      BY DEF TaskOf
    <2>2. In(thread'[AddressOf[m]], By("guest", m))
      BY <1>1, <1>6 DEF Traced, PastSave
    <2>3. Rank[pc'[m]] > Rank["classifying"]
      BY <1>6 DEF HandlerStep
    <2>4. \A t \in tasks : t.message # m
      BY <1>3, <1>6 DEF Traced
    <2> HIDE DEF new
    <2>5. \A t \in tasks' : t \in tasks \/ t = new
      BY <1>6 DEF new
    <2>6. \A t \in tasks' :
             /\ t.channel = AddressOf[t.message]
             /\ In(thread'[t.channel], By("guest", t.message))
             /\ Rank[pc'[t.message]] > Rank["classifying"]
      BY <1>4, <2>1, <2>2, <2>3, <2>5
    <2>7. \A t, u \in tasks' : t.message = u.message => t = u
      BY <2>1, <2>4, <2>5 DEF Traced
    <2>8. QED BY <1>2, <2>6, <2>7 DEF Traced
  <1>7. QED BY <1>5, <1>6 DEF HandlerStep

\* Staff can trace every task to one saved guest message of its conversation,
\* and no message raises a second task, for any number of handlers at once
\* (routeTask after saveInboundMessage).
THEOREM TasksAreTraceable == Spec => []TasksTraceable
  <1>1. Init => Traced
    BY DEF Init, Traced, PastSave
  <1>2. Typed /\ Traced /\ [Next]_vars => (Typed /\ Traced)'
    BY TypedStep, HandlerStepHolds, SavesStepHolds, TracedStep
  <1>3. Traced => TasksTraceable
    BY DEF Traced, TasksTraceable, In
  <1>4. QED BY <1>1, <1>2, <1>3, TypedInit, PTL DEF Spec

-----------------------------------------------------------------------------
(***************************************************************************)
(* What a guest received.  A reply that arrived is past its send.          *)
(***************************************************************************)
Once(seq) == \A i, j \in DOMAIN seq : seq[i] = seq[j] => i = j

LEMMA AppendOnce ==
    ASSUME NEW seq \in Seq(Entries), NEW e \in Entries, Once(seq), ~In(seq, e)
    PROVE  Once(Append(seq, e))
  <1>1. /\ Append(seq, e) \in Seq(Entries) /\ Len(Append(seq, e)) = Len(seq) + 1
        /\ Append(seq, e)[Len(seq) + 1] = e
        /\ \A i \in 1 .. Len(seq) : Append(seq, e)[i] = seq[i]
        /\ Len(seq) \in Nat
    OBVIOUS
  <1>2. DOMAIN seq = 1 .. Len(seq) /\ DOMAIN Append(seq, e) = 1 .. (Len(seq) + 1)
    BY <1>1
  <1>3. \A i \in 1 .. Len(seq) : seq[i] # e
    BY <1>2 DEF In
  <1>4. QED BY <1>1, <1>2, <1>3 DEF Once

Received ==
    /\ \A c \in Channels : Once(delivered[c])
    /\ \A c \in Channels, m \in Messages :
          In(delivered[c], By("ai", m)) => Rank[pc[m]] > Rank["sending"]
    /\ \A c \in Channels, s \in Replies :
          In(delivered[c], By("staff", s)) => staffPc[s] = "done"

\* What one arrival changes of what was received.
LEMMA ArrivalAddsOne ==
    ASSUME Typed, NEW who, NEW x \in Messages \cup Replies, By(who, x) \in Entries,
           Arrives(who, x), \A c \in Channels : Once(delivered[c]) /\ ~In(delivered[c], By(who, x))
    PROVE  \A c \in Channels :
              /\ Once(delivered'[c])
              /\ \A other, y : In(delivered'[c], By(other, y)) =>
                    In(delivered[c], By(other, y)) \/ (other = who /\ y = x)
  <1> DEFINE d == AddressOf[x]
  <1>1. /\ d \in Channels
        /\ delivered'[d] = Append(delivered[d], By(who, x)) /\ delivered[d] \in Seq(Entries)
        /\ \A c \in Channels \ {d} : delivered'[c] = delivered[c]
    BY Constants DEF Arrives, Typed, TypeOK
  <1>2. \A e : In(delivered'[d], e) <=> In(delivered[d], e) \/ e = By(who, x)
    BY <1>1, AppendIn
  <1>3. \A other, y : By(other, y) = By(who, x) => other = who /\ y = x
    <2>1. \A other, y : By(other, y).by = other /\ By(other, y).of = y
      BY DEF By
    <2>2. QED BY <2>1
  <1>4. Once(delivered'[d])
    BY <1>1, AppendOnce
  <1>5. QED BY <1>1, <1>2, <1>3, <1>4

LEMMA ReceivedStep ==
    ASSUME Typed, Typed', Received, HandlerStep
    PROVE  Received'
  <1>1. Rank["sending"] \in Nat /\ ~(Rank["sending"] > Rank["sending"])
    BY Ranks
  <1>2. \A m \in Messages : Rank[pc[m]] > Rank["sending"] => Rank[pc'[m]] > Rank["sending"]
    BY <1>1, StaysPassed
  <1>3. CASE delivered' = delivered
    BY <1>2, <1>3 DEF Received, HandlerStep
  <1>4. ASSUME NEW m \in Messages, pc[m] = "sending", pc'[m] # "sending", Arrives("ai", m)
        PROVE  Received'
    <2>1. By("ai", m) \in Entries
      BY DEF By, Entries
    <2>2. \A c \in Channels : Once(delivered[c]) /\ ~In(delivered[c], By("ai", m))
      BY <1>1, <1>4 DEF Received
    <2>3. \A c \in Channels :
              /\ Once(delivered'[c])
              /\ \A other, y : In(delivered'[c], By(other, y)) =>
                    In(delivered[c], By(other, y)) \/ (other = "ai" /\ y = m)
      BY <1>4, <2>1, <2>2, ArrivalAddsOne
    <2>4. Rank[pc'[m]] > Rank["sending"]
      BY <1>4 DEF HandlerStep
    <2>5. QED BY <1>2, <2>3, <2>4 DEF Received, HandlerStep
  <1>5. ASSUME NEW s \in Replies, staffPc[s] = "sending", staffPc'[s] = "done",
               Arrives("staff", s)
        PROVE  Received'
    <2>1. By("staff", s) \in Entries
      BY DEF By, Entries
    <2>2. \A c \in Channels : Once(delivered[c]) /\ ~In(delivered[c], By("staff", s))
      BY <1>5 DEF Received
    <2>3. \A c \in Channels :
              /\ Once(delivered'[c])
              /\ \A other, y : In(delivered'[c], By(other, y)) =>
                    In(delivered[c], By(other, y)) \/ (other = "staff" /\ y = s)
      BY <1>5, <2>1, <2>2, ArrivalAddsOne
    <2>4. QED BY <1>2, <1>5, <2>3 DEF Received, HandlerStep
  <1>6. QED BY <1>3, <1>4, <1>5 DEF HandlerStep

\* A guest receives an AI answer and a staff reply at most once, for any number
\* of messages and restarts: no send is retried, and a crash ends its handlers
\* (the webhook's catch, the staff route's swallowed failure).
THEOREM NothingReceivedTwice == Spec => []ReceivedOnce
  <1>1. Init => Received
    BY DEF Init, Received, Once, In
  <1>2. Typed /\ Received /\ [Next]_vars => (Typed /\ Received)'
    BY TypedStep, HandlerStepHolds, ReceivedStep
  <1>3. Received => ReceivedOnce
    BY DEF Received, Once, ReceivedOnce
  <1>4. QED BY <1>1, <1>2, <1>3, TypedInit, PTL DEF Spec

-----------------------------------------------------------------------------
(***************************************************************************)
(* The pipeline implements the contract.                                   *)
(***************************************************************************)
\* An answer is saved on the way out, a staff reply before it is sent.
Told ==
    /\ \A m \in Messages : Saved("ai", m) => pc[m] \in {"sending", "apologising"} \cup Settled
    /\ \A s \in Replies : Saved("staff", s) => staffPc[s] \in {"sending", "done", "lost"}

\* Where a handler may go without saving anything.
BeforeSave == {"unsent", "accepted", "detecting", "translatingIn"}
Moves(from, to) ==
    \/ to = from
    \/ to \in Settled \cup {"apologising"}
    \/ from \in PastSave \ {"sending"} /\ to \in PastSave \ {"sending"}
    \/ from \in BeforeSave /\ to \in BeforeSave
StaffMoves(from, to) ==
    to = from \/ to = "lost" \/ <<from, to>> \in {<<"idle", "translating">>, <<"sending", "done">>}

ContractStep == [Contract!TNext]_(Contract!tvars) /\ Told'

LEMMA PhaseOf ==
    /\ phaseBar \in [Messages \cup Replies -> Contract!Phases]
    /\ \A m \in Messages : phaseBar[m] = MessagePhase(m)
    /\ \A s \in Replies : phaseBar[s] = StaffPhase(s)
  <1>1. \A m : MessagePhase(m) \in Contract!Phases
    BY DEF MessagePhase, Contract!Phases
  <1>2. \A s : StaffPhase(s) \in Contract!Phases
    BY DEF StaffPhase, Contract!Phases
  <1>3. QED BY <1>1, <1>2, DisjointAssumption DEF phaseBar

LEMMA NextPhaseOf ==
    /\ phaseBar' \in [Messages \cup Replies -> Contract!Phases]
    /\ \A m \in Messages : phaseBar'[m] = MessagePhase(m)'
    /\ \A s \in Replies : phaseBar'[s] = StaffPhase(s)'
  <1>1. \A m : MessagePhase(m)' \in Contract!Phases
    BY DEF MessagePhase, Contract!Phases
  <1>2. \A s : StaffPhase(s)' \in Contract!Phases
    BY DEF StaffPhase, Contract!Phases
  <1>3. QED BY <1>1, <1>2, DisjointAssumption DEF phaseBar

\* Only exchanges that were open or recorded are given up.
LEMMA UnsavedStep ==
    ASSUME Typed, Told, thread' = thread,
           \A m \in Messages : Moves(pc[m], pc'[m]),
           \A s \in Replies : StaffMoves(staffPc[s], staffPc'[s])
    PROVE  ContractStep
  <1>1. \A who, x : Saved(who, x)' <=> Saved(who, x)
    BY DEF Saved
  <1>2. ASSUME NEW m \in Messages, MessagePhase(m)' # MessagePhase(m)
        PROVE  MessagePhase(m) \in {"open", "recorded"} /\ MessagePhase(m)' = "abandoned"
    BY <1>1, <1>2 DEF MessagePhase, Moves, PastSave, Settled, BeforeSave
  <1>3. ASSUME NEW s \in Replies, StaffPhase(s)' # StaffPhase(s)
        PROVE  StaffPhase(s) \in {"open", "recorded"} /\ StaffPhase(s)' = "abandoned"
    BY <1>1, <1>3 DEF StaffPhase, StaffMoves
  <1>4. \A x \in Messages \cup Replies :
           phaseBar'[x] # phaseBar[x]
             => phaseBar[x] \in {"open", "recorded"} /\ phaseBar'[x] = "abandoned"
    BY <1>2, <1>3, PhaseOf, NextPhaseOf
  <1>5. Contract!Abandon
    BY <1>4, NextPhaseOf DEF Contract!Abandon
  <1>6. Told'
    BY <1>1 DEF Told, Moves, StaffMoves, PastSave, Settled, BeforeSave
  <1>7. QED BY <1>5, <1>6 DEF ContractStep, Contract!TNext

\* What a saved line changes of what is saved.
LEMMA SavedLine ==
    ASSUME Typed, NEW who, NEW x \in Messages \cup Replies, By(who, x) \in Entries,
           Append2Thread(AddressOf[x], By(who, x))
    PROVE  /\ \A other, y : y \in Messages \cup Replies =>
                 (Saved(other, y)' <=> Saved(other, y) \/ (other = who /\ y = x))
           /\ thread' = [thread EXCEPT ![AddressOf[x]] = Append(@, Contract!Said(who, x))]
  <1> DEFINE c == AddressOf[x]
  <1>1. c \in Channels
    BY Constants
  <1>2. /\ thread'[c] = Append(thread[c], By(who, x)) /\ thread[c] \in Seq(Entries)
        /\ \A d \in Channels \ {c} : thread'[d] = thread[d]
    BY <1>1 DEF Append2Thread, Typed, TypeOK
  <1>3. \A e : In(thread'[c], e) <=> In(thread[c], e) \/ e = By(who, x)
    BY <1>2, AppendIn
  <1>4. \A other, y : By(other, y) = By(who, x) <=> other = who /\ y = x
    <2>1. \A other, y : By(other, y).by = other /\ By(other, y).of = y
      BY DEF By
    <2>2. QED BY <2>1
  <1>5. \A other, y : Saved(other, y) <=> In(thread[AddressOf[y]], By(other, y))
    BY DEF Saved, In
  <1>6. \A other, y : Saved(other, y)' <=> In(thread'[AddressOf[y]], By(other, y))
    BY DEF Saved, In
  <1>7. ASSUME NEW other, NEW y \in Messages \cup Replies
        PROVE  Saved(other, y)' <=> Saved(other, y) \/ (other = who /\ y = x)
    <2>1. CASE AddressOf[y] = c
      BY <1>3, <1>4, <1>5, <1>6, <2>1
    <2>2. CASE AddressOf[y] # c
      <3>1. thread'[AddressOf[y]] = thread[AddressOf[y]]
        BY <1>2, <2>2, Constants
      <3>2. QED BY <1>5, <1>6, <2>2, <3>1
    <2>3. QED BY <2>1, <2>2
  <1>8. By(who, x) = Contract!Said(who, x)
    BY DEF By, Contract!Said
  <1>9. QED BY <1>7, <1>8 DEF Append2Thread

\* One exchange advances.
LEMMA AdvanceOne ==
    ASSUME NEW x \in Messages \cup Replies, NEW to, phaseBar'[x] = to,
           \A y \in (Messages \cup Replies) \ {x} : phaseBar'[y] = phaseBar[y]
    PROVE  phaseBar' = [phaseBar EXCEPT ![x] = to]
  BY PhaseOf, NextPhaseOf

LEMMA InboundIsRecorded ==
    ASSUME Typed, Told, NEW m \in Messages, NEW row, SaveInbound(m, row),
           pc[m] \in {"detecting", "translatingIn"}, UNCHANGED staffPc
    PROVE  ContractStep
  <1>1. By("guest", m) \in Entries
    BY DEF By, Entries
  <1>2. /\ \A other, y : y \in Messages \cup Replies =>
               (Saved(other, y)' <=> Saved(other, y) \/ (other = "guest" /\ y = m))
        /\ thread' = [thread EXCEPT ![AddressOf[m]] = Append(@, Contract!Said("guest", m))]
    BY <1>1, SavedLine DEF SaveInbound
  <1>3. pc'[m] = "classifying" /\ \A n \in Messages \ {m} : pc'[n] = pc[n]
    BY DEF SaveInbound, Typed, TypeOK
  <1>4. ~Saved("ai", m) /\ ~Saved("ai", m)'
    BY <1>2 DEF Told, Settled
  <1>5. MessagePhase(m) = "open" /\ MessagePhase(m)' = "recorded"
    BY <1>3, <1>4 DEF MessagePhase, PastSave, Settled
  <1>6. \A n \in Messages \ {m} : MessagePhase(n)' = MessagePhase(n)
    BY <1>2, <1>3 DEF MessagePhase
  <1>7. \A s \in Replies : StaffPhase(s)' = StaffPhase(s)
    BY <1>2 DEF StaffPhase
  <1>8. /\ phaseBar[m] = "open" /\ phaseBar'[m] = "recorded"
        /\ \A y \in (Messages \cup Replies) \ {m} : phaseBar'[y] = phaseBar[y]
    BY <1>5, <1>6, <1>7, PhaseOf, NextPhaseOf
  <1>9. Contract!Record(m)
    BY <1>2, <1>8, AdvanceOne DEF Contract!Record, Contract!Advance, Contract!Say
  <1>10. Told'
    BY <1>2, <1>3, <1>4 DEF Told
  <1>11. QED BY <1>9, <1>10 DEF ContractStep, Contract!TNext

LEMMA OutboundIsAnswer ==
    ASSUME Typed, Told, NEW m \in Messages, SaveOutbound(m),
           pc[m] \in {"generating", "translatingOut"}, UNCHANGED staffPc
    PROVE  ContractStep
  <1>1. By("ai", m) \in Entries
    BY DEF By, Entries
  <1>2. /\ \A other, y : y \in Messages \cup Replies =>
               (Saved(other, y)' <=> Saved(other, y) \/ (other = "ai" /\ y = m))
        /\ thread' = [thread EXCEPT ![AddressOf[m]] = Append(@, Contract!Said("ai", m))]
    BY <1>1, SavedLine DEF SaveOutbound
  <1>3. pc'[m] = "sending" /\ \A n \in Messages \ {m} : pc'[n] = pc[n]
    BY DEF SaveOutbound, Typed, TypeOK
  <1>4. ~Saved("ai", m) /\ Saved("ai", m)'
    BY <1>2 DEF Told, Settled
  <1>5. MessagePhase(m) = "recorded" /\ MessagePhase(m)' = "answered"
    BY <1>4 DEF MessagePhase, PastSave, Settled
  <1>6. \A n \in Messages \ {m} : MessagePhase(n)' = MessagePhase(n)
    BY <1>2, <1>3 DEF MessagePhase
  <1>7. \A s \in Replies : StaffPhase(s)' = StaffPhase(s)
    BY <1>2 DEF StaffPhase
  <1>8. /\ phaseBar[m] = "recorded" /\ phaseBar'[m] = "answered"
        /\ \A y \in (Messages \cup Replies) \ {m} : phaseBar'[y] = phaseBar[y]
    BY <1>5, <1>6, <1>7, PhaseOf, NextPhaseOf
  <1>9. Contract!Answer(m)
    BY <1>2, <1>8, AdvanceOne DEF Contract!Answer, Contract!Advance, Contract!Say
  <1>10. Told'
    BY <1>2, <1>3 DEF Told
  <1>11. QED BY <1>9, <1>10 DEF ContractStep, Contract!TNext

LEMMA StaffReplyIsWritten ==
    ASSUME Typed, Told, NEW s \in Replies, SaveStaffReply(s),
           staffPc[s] \in {"idle", "translating"}, UNCHANGED pc
    PROVE  ContractStep
  <1>1. By("staff", s) \in Entries
    BY DEF By, Entries
  <1>2. /\ \A other, y : y \in Messages \cup Replies =>
               (Saved(other, y)' <=> Saved(other, y) \/ (other = "staff" /\ y = s))
        /\ thread' = [thread EXCEPT ![AddressOf[s]] = Append(@, Contract!Said("staff", s))]
    BY <1>1, SavedLine DEF SaveStaffReply
  <1>3. staffPc'[s] = "sending" /\ \A x \in Replies \ {s} : staffPc'[x] = staffPc[x]
    BY DEF SaveStaffReply, Typed, TypeOK
  <1>4. ~Saved("staff", s) /\ Saved("staff", s)'
    BY <1>2 DEF Told
  <1>5. StaffPhase(s) = "open" /\ StaffPhase(s)' = "written"
    BY <1>4 DEF StaffPhase
  <1>6. \A m \in Messages : MessagePhase(m)' = MessagePhase(m)
    BY <1>2 DEF MessagePhase
  <1>7. \A x \in Replies \ {s} : StaffPhase(x)' = StaffPhase(x)
    BY <1>2, <1>3 DEF StaffPhase
  <1>8. /\ phaseBar[s] = "open" /\ phaseBar'[s] = "written"
        /\ \A y \in (Messages \cup Replies) \ {s} : phaseBar'[y] = phaseBar[y]
    BY <1>5, <1>6, <1>7, PhaseOf, NextPhaseOf
  <1>9. Contract!StaffWrites(s)
    BY <1>2, <1>8, AdvanceOne DEF Contract!StaffWrites, Contract!Advance, Contract!Say
  <1>10. Told'
    BY <1>2, <1>3 DEF Told
  <1>11. QED BY <1>9, <1>10 DEF ContractStep, Contract!TNext

LEMMA ContractStepHolds == Typed /\ Told /\ [Next]_vars => ContractStep
  <1> SUFFICES ASSUME Typed, Told, [Next]_vars PROVE ContractStep
    OBVIOUS
  <1>1. ASSUME NEW m \in Messages, UNCHANGED <<thread, staffPc>>, NEW to,
               pc' = [pc EXCEPT ![m] = to], Moves(pc[m], to)
        PROVE ContractStep
    <2>1. \A n \in Messages : Moves(pc[n], pc'[n])
      BY <1>1 DEF Moves, Typed, TypeOK
    <2>2. QED BY <1>1, <2>1, UnsavedStep DEF StaffMoves
  <1>2. ASSUME NEW m \in Messages, Receive(m) \/ MarkAsReadFails(m) PROVE ContractStep
    BY <1>1, <1>2 DEF Receive, MarkAsReadFails, Step, Moves, BeforeSave, Settled
  <1>3. ASSUME NEW m \in Messages, GenerateFails(m) \/ SendFails(m) PROVE ContractStep
    BY <1>1, <1>3 DEF GenerateFails, SendFails, Step, Moves
  <1>4. ASSUME NEW m \in Messages, SendReply(m) \/ Apologise(m) PROVE ContractStep
    BY <1>1, <1>4 DEF SendReply, Apologise, Step, Moves, Settled
  <1>5. ASSUME NEW m \in Messages, NEW known \in Guests \cup {NoGuest}, Resolve(m, known)
        PROVE ContractStep
    BY <1>1, <1>5 DEF Resolve, Step, Moves, BeforeSave
  <1>6. ASSUME NEW m \in Messages, NEW detected \in Detectable, DetectLanguage(m, detected)
        PROVE ContractStep
    <2>1. CASE \E row : SaveInbound(m, row)
      BY <1>6, <2>1, InboundIsRecorded DEF DetectLanguage
    <2>2. CASE pc' = [pc EXCEPT ![m] = "translatingIn"] /\ UNCHANGED thread
      BY <1>1, <1>6, <2>2 DEF DetectLanguage, Moves, BeforeSave
    <2>3. QED BY <1>6, <2>1, <2>2 DEF DetectLanguage
  <1>7. ASSUME NEW m \in Messages, TranslateInbound(m) PROVE ContractStep
    BY <1>7, InboundIsRecorded DEF TranslateInbound
  <1>8. ASSUME NEW m \in Messages, NEW intent \in Intents, ClassifyIntent(m, intent)
        PROVE ContractStep
    BY <1>1, <1>8 DEF ClassifyIntent, Step, Moves, PastSave
  <1>9. ASSUME NEW m \in Messages, NEW found \in SUBSET Credentials, ExtractCredentials(m, found)
        PROVE ContractStep
    BY <1>1, <1>9 DEF ExtractCredentials, Moves, PastSave
  <1>10. ASSUME NEW m \in Messages,
                LookupFails(m) \/ \E guest \in Guests : LookupSucceeds(m, guest)
         PROVE ContractStep
    BY <1>1, <1>10 DEF LookupSucceeds, LookupFails, Step, Moves, PastSave
  <1>11. ASSUME NEW m \in Messages, GenerateResponse(m) PROVE ContractStep
    <2>1. CASE SaveOutbound(m)
      BY <1>11, <2>1, OutboundIsAnswer DEF GenerateResponse
    <2>2. CASE pc' = [pc EXCEPT ![m] = "translatingOut"] /\ UNCHANGED <<conv, thread>>
      BY <1>1, <1>11, <2>2 DEF GenerateResponse, Moves, PastSave
    <2>3. QED BY <1>11, <2>1, <2>2 DEF GenerateResponse
  <1>12. ASSUME NEW m \in Messages, TranslateOutbound(m) PROVE ContractStep
    BY <1>12, OutboundIsAnswer DEF TranslateOutbound
  <1>13. ASSUME NEW s \in Replies, UNCHANGED <<thread, pc>>, NEW to,
                staffPc' = [staffPc EXCEPT ![s] = to], StaffMoves(staffPc[s], to)
         PROVE ContractStep
    <2>1. \A x \in Replies : StaffMoves(staffPc[x], staffPc'[x])
      BY <1>13 DEF StaffMoves, Typed, TypeOK
    <2>2. QED BY <1>13, <2>1, UnsavedStep DEF Moves
  <1>14. ASSUME NEW s \in Replies, StaffReply(s) PROVE ContractStep
    <2>1. CASE SaveStaffReply(s)
      BY <1>14, <2>1, StaffReplyIsWritten DEF StaffReply
    <2>2. CASE staffPc' = [staffPc EXCEPT ![s] = "translating"] /\ UNCHANGED <<conv, thread>>
      BY <1>13, <1>14, <2>2 DEF StaffReply, StaffMoves
    <2>3. QED BY <1>14, <2>1, <2>2 DEF StaffReply
  <1>15. ASSUME NEW s \in Replies, TranslateStaffReply(s) PROVE ContractStep
    BY <1>15, StaffReplyIsWritten DEF TranslateStaffReply
  <1>16. ASSUME NEW s \in Replies, SendStaffReply(s) PROVE ContractStep
    BY <1>13, <1>16 DEF SendStaffReply, StaffMoves
  <1>17. CASE \/ \E c \in Channels, state \in StaffStates : PatchState(c, state)
              \/ \E c \in Channels : FourHoursPass(c)
              \/ IdleTimeout \/ UNCHANGED vars
    BY <1>17, UnsavedStep
    DEF PatchState, FourHoursPass, IdleTimeout, vars, Moves, StaffMoves
  <1>18. CASE Crash
    <2>1. \A m \in Messages : Moves(pc[m], pc'[m])
      BY <1>18 DEF Crash, Moves, Settled
    <2>2. \A s \in Replies : StaffMoves(staffPc[s], staffPc'[s])
      BY <1>18 DEF Crash, StaffMoves
    <2>3. QED BY <1>18, <2>1, <2>2, UnsavedStep DEF Crash
  <1>19. QED
    BY <1>2, <1>3, <1>4, <1>5, <1>6, <1>7, <1>8, <1>9, <1>10, <1>11, <1>12, <1>14, <1>15,
       <1>16, <1>17, <1>18
    DEF Next, Handle, HandleStaff

\* The message path implements the contract for any messages, replies, addresses
\* and crashes: each guest message is recorded at most once, answered at most
\* once and only after it was recorded, and nothing abandoned shows up later
\* (the stage order of src/pipeline/index.ts and the handlers around it).
THEOREM PipelineKeepsContract == Spec => KeepsContract
  <1>1. Init => Contract!TInit /\ Typed /\ Told
    <2> SUFFICES ASSUME Init PROVE Contract!TInit /\ Typed /\ Told
      OBVIOUS
    <2>1. \A who : \A x \in Messages \cup Replies : ~Saved(who, x)
      BY Constants DEF Init, Saved
    <2>2. \A m \in Messages : MessagePhase(m) = "open"
      BY <2>1 DEF Init, MessagePhase, PastSave, Settled
    <2>3. \A s \in Replies : StaffPhase(s) = "open"
      BY <2>1 DEF Init, StaffPhase
    <2>4. phaseBar = [x \in Messages \cup Replies |-> "open"]
      BY <2>2, <2>3, PhaseOf
    <2>5. QED BY <2>1, <2>4, TypedInit DEF Init, Contract!TInit, Told
  <1>2. Typed /\ Told /\ [Next]_vars => Typed' /\ Told' /\ [Contract!TNext]_(Contract!tvars)
    BY TypedStep, ContractStepHolds DEF ContractStep
  <1>3. QED BY <1>1, <1>2, PTL DEF Spec, KeepsContract, Contract!TSpec

-----------------------------------------------------------------------------
(***************************************************************************)
(* What ThreadContract promises therefore holds of the messages table.     *)
(***************************************************************************)
Proved == INSTANCE ThreadContract_proofs WITH phase <- phaseBar

LEMMA ContractHolds == Spec => []Contract!SaidOnce /\ []Contract!AnswersFollow
  <1>1. Proved!Addressed
    BY AddressAssumption DEF Proved!Addressed
  <1>2. Proved!TSpec => []Proved!SaidOnce /\ []Proved!AnswersFollow
    BY <1>1, Proved!NothingSaidTwice, Proved!AnswersComeAfter, PTL
  <1>3. /\ Contract!TInit => Proved!TInit
        /\ [Contract!TNext]_(Contract!tvars) => [Proved!TNext]_(Proved!tvars)
        /\ Proved!SaidOnce => Contract!SaidOnce
        /\ Proved!AnswersFollow => Contract!AnswersFollow
    <2>1. Contract!TInit => Proved!TInit
      BY DEF Contract!TInit, Proved!TInit
    <2>2. Contract!tvars = Proved!tvars /\ (Contract!tvars)' = (Proved!tvars)'
      BY DEF Contract!tvars, Proved!tvars
    <2>3. Contract!TNext => Proved!TNext
      <3>1. ASSUME NEW m, Contract!Record(m) PROVE Proved!Record(m)
        BY <3>1
        DEF Contract!Record, Contract!Advance, Contract!Say, Contract!Said,
            Proved!Record, Proved!Advance, Proved!Say, Proved!Said
      <3>2. ASSUME NEW m, Contract!Answer(m) PROVE Proved!Answer(m)
        BY <3>2
        DEF Contract!Answer, Contract!Advance, Contract!Say, Contract!Said,
            Proved!Answer, Proved!Advance, Proved!Say, Proved!Said
      <3>3. ASSUME NEW s, Contract!StaffWrites(s) PROVE Proved!StaffWrites(s)
        BY <3>3
        DEF Contract!StaffWrites, Contract!Advance, Contract!Say, Contract!Said,
            Proved!StaffWrites, Proved!Advance, Proved!Say, Proved!Said
      <3>4. Contract!Abandon => Proved!Abandon
        BY DEF Contract!Abandon, Contract!Phases, Proved!Abandon, Proved!Phases
      <3>5. QED BY <3>1, <3>2, <3>3, <3>4 DEF Contract!TNext, Proved!TNext
    <2>4. /\ Proved!SaidOnce => Contract!SaidOnce
          /\ Proved!AnswersFollow => Contract!AnswersFollow
      BY DEF Contract!SaidOnce, Contract!AnswersFollow, Contract!Said,
             Proved!SaidOnce, Proved!AnswersFollow, Proved!Said
    <2>5. QED BY <2>1, <2>2, <2>3, <2>4
  <1>4. KeepsContract => []Contract!SaidOnce /\ []Contract!AnswersFollow
    BY <1>2, <1>3, PTL DEF KeepsContract, Contract!TSpec, Proved!TSpec
  <1>5. QED BY <1>4, PipelineKeepsContract, PTL

\* The messages table holds each guest message, each AI answer and each staff
\* reply once, however handlers interleave and crash (saveInboundMessage,
\* saveOutboundMessage, the staff route).
THEOREM HistorySaysOnce == Spec => []Contract!SaidOnce
  BY ContractHolds, PTL

\* In the messages table an AI answer comes after the guest message it answers,
\* in the same conversation.
THEOREM HistoryAnswersFollow == Spec => []Contract!AnswersFollow
  BY ContractHolds, PTL

\* Whatever answer a guest received, staff find in the history, and before it
\* the guest message it answers.
ReceivedAnswersFollow ==
    \A c \in Channels : \A i \in DOMAIN delivered[c] :
        delivered[c][i].by = "ai" =>
            \E j \in DOMAIN thread[c] :
                /\ thread[c][j] = delivered[c][i]
                /\ \E k \in 1 .. (j - 1) : thread[c][k] = By("guest", delivered[c][i].of)

\* No guest has an answer to a message that is not recorded before it, for any
\* number of messages, failed sends and restarts.
THEOREM AnswersReceivedHaveQuestions == Spec => []ReceivedAnswersFollow
  <1>1. SentWasSaved /\ Contract!AnswersFollow => ReceivedAnswersFollow
    BY DEF SentWasSaved, Contract!AnswersFollow, ReceivedAnswersFollow, By, Contract!Said
  <1>2. QED BY <1>1, WhatWasSentIsSaved, HistoryAnswersFollow, PTL
=============================================================================
