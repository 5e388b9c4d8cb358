--------------------------- MODULE MessagePipeline ---------------------------
(***************************************************************************)
(* The guest-message path: webhook -> pipeline stages -> channel send, with *)
(* the three other writers of a conversation row it races: staff changing  *)
(* the state, staff replying, and the idle-timeout job.                    *)
(*                                                                         *)
(* One Node process over a synchronous SQLite driver: a chain of awaits    *)
(* that only touches the database completes before any other request or    *)
(* timer runs, so everything between two awaits on real I/O (an AI call, a *)
(* PMS lookup, a channel API call) is one action.  pc[m] names the I/O the *)
(* handler of inbound message m is waiting for.  Nothing serialises two    *)
(* handlers of one conversation.                                           *)
(***************************************************************************)
EXTENDS Conversation, Sequences, FiniteSets

CONSTANTS
    Messages,       \* inbound guest messages
    Replies,        \* replies staff type in the dashboard
    Channels,       \* channel addresses (channelType, channelId)
    AddressOf,      \* the address a message or a staff reply belongs to
    PhoneGuest,     \* the guest profile behind an address, NoGuest if not a phone
    Intents,        \* what the classifier answers (a subset of AllIntents)
    Detectable,     \* what the language detector answers
    StaffStates,    \* the states staff set (a subset of PatchableStates)
    MaxInFlight,    \* how many messages one guest has outstanding
    MaxCrashes      \* how often the process dies

ASSUME AddressAssumption == AddressOf \in [Messages \cup Replies -> Channels]
ASSUME PhoneAssumption == PhoneGuest \in [Channels -> Guests \cup {NoGuest}]
AllIntents == {"verification", "guestRequest", "emergency", "chat"}

ASSUME AIAssumption ==
    Intents \subseteq AllIntents /\ Detectable \subseteq Languages \cup {NoLanguage}
ASSUME StaffAssumption == StaffStates \subseteq PatchableStates
ASSUME BoundsAssumption == MaxInFlight \in Nat \ {0} /\ MaxCrashes \in Nat
ASSUME DisjointAssumption == Messages \cap Replies = {}

VARIABLES
    conv,        \* the most recent conversation of each address
    pc,          \* what each message's handler is waiting for
    ctx,         \* each run's MessageContext
    staffPc,     \* what each staff reply is waiting for
    thread,      \* the messages table, per conversation, by createdAt
    delivered,   \* what each guest's device received, in order
    tasks,       \* tasks created by routeTask
    crashes

vars == <<conv, pc, ctx, staffPc, thread, delivered, tasks, crashes>>

-----------------------------------------------------------------------------
Running == {"accepted", "detecting", "translatingIn", "classifying",
            "extracting", "lookingUp", "generating", "translatingOut",
            "sending", "apologising"}
Settled == {"answered", "apologised", "undelivered", "dropped", "lost"}
Stages == {"unsent"} \cup Running \cup Settled

\* The inbound is in the messages table.
PastSave == {"classifying", "extracting", "lookingUp", "generating",
             "translatingOut", "sending"}
Contexts == [entity : Guests \cup {NoGuest}, stored : Verification,
             language : Languages \cup {NoLanguage}]
EmptyContext == [entity |-> NoGuest, stored |-> NotStarted, language |-> NoLanguage]

StaffStages == {"idle", "translating", "sending", "done", "lost"}

By(who, m) == [by |-> who, of |-> m]
Entries == [by : {"guest", "ai"}, of : Messages] \cup [by : {"staff"}, of : Replies]

Outstanding(c) == {m \in Messages : AddressOf[m] = c /\ pc[m] \in Running}

\* A step of message m from one I/O wait to the next.
Step(m, from, to) == pc[m] = from /\ pc' = [pc EXCEPT ![m] = to]

\* The context is an object of the run and dies with it.
DropContext(m) == ctx' = [ctx EXCEPT ![m] = EmptyContext]

Write(c, row) == conv' = [conv EXCEPT ![c] = row]

Append2Thread(c, entry) == thread' = [thread EXCEPT ![c] = Append(@, entry)]

-----------------------------------------------------------------------------
Init ==
    /\ conv = [c \in Channels |-> NoConversation]
    /\ pc = [m \in Messages |-> "unsent"]
    /\ ctx = [m \in Messages |-> EmptyContext]
    /\ staffPc = [s \in Replies |-> "idle"]
    /\ thread = [c \in Channels |-> <<>>]
    /\ delivered = [c \in Channels |-> <<>>]
    /\ tasks = {}
    /\ crashes = 0

(***************************************************************************)
(* The webhook acknowledges with 200 and handles the message afterwards.   *)
(***************************************************************************)
Receive(m) ==
    /\ Cardinality(Outstanding(AddressOf[m])) < MaxInFlight
    /\ Step(m, "unsent", "accepted")
    /\ UNCHANGED <<conv, ctx, staffPc, thread, delivered, tasks, crashes>>

\* WhatsApp: markAsRead is awaited outside the try, so a network failure
\* rejects the handler and only the webhook's catch-all logs it.
MarkAsReadFails(m) ==
    /\ PhoneGuest[AddressOf[m]] # NoGuest
    /\ Step(m, "accepted", "dropped")
    /\ UNCHANGED <<conv, ctx, staffPc, thread, delivered, tasks, crashes>>

(***************************************************************************)
(* resolveConversation: identify the guest by phone (null when the lookup  *)
(* throws), find or create the conversation, else take the guest it is     *)
(* linked to.  The context keeps a snapshot of metadata.verification and   *)
(* of the language.                                                        *)
(***************************************************************************)
Resolve(m, known) ==
    LET c == AddressOf[m]
        row == FindOrCreate(conv[c], known)
    IN  /\ Step(m, "accepted", "detecting")
        /\ known \in {PhoneGuest[c], NoGuest}
        /\ Write(c, row)
        /\ ctx' = [ctx EXCEPT ![m] =
                     [entity |-> IF known # NoGuest THEN known ELSE row.guest,
                      stored |-> row.verification, language |-> row.language]]
        /\ UNCHANGED <<staffPc, thread, delivered, tasks, crashes>>

\* saveInboundMessage and the classifier call that follows it.
SaveInbound_Unsaved(m, row) ==
    /\ pc' = [pc EXCEPT ![m] = "classifying"]
    /\ Write(AddressOf[m], row)
    /\ UNCHANGED thread

SaveInbound(m, row) ==
    /\ pc' = [pc EXCEPT ![m] = "classifying"]
    /\ Write(AddressOf[m], AddMessage(row))
    /\ Append2Thread(AddressOf[m], By("guest", m))

(***************************************************************************)
(* detectLanguage: a detected language is written back; on a failed call   *)
(* the snapshot's language stands.  Only a foreign language is translated. *)
(***************************************************************************)
DetectLanguage(m, detected) ==
    LET row == IF detected = NoLanguage THEN conv[AddressOf[m]]
               ELSE SetLanguage(conv[AddressOf[m]], detected)
        language == IF detected = NoLanguage THEN ctx[m].language ELSE detected
    IN  /\ pc[m] = "detecting"
        /\ ctx' = [ctx EXCEPT ![m].language = language]
        /\ \/ /\ language = "foreign"
              /\ pc' = [pc EXCEPT ![m] = "translatingIn"]
              /\ Write(AddressOf[m], row)
              /\ UNCHANGED thread
           \/ /\ language # "foreign"
              /\ SaveInbound(m, row)
        /\ UNCHANGED <<staffPc, delivered, tasks, crashes>>

\* translateInbound: success and failure differ in the text only.
TranslateInbound(m) ==
    /\ pc[m] = "translatingIn"
    /\ SaveInbound(m, conv[AddressOf[m]])
    /\ UNCHANGED <<ctx, staffPc, delivered, tasks, crashes>>

(***************************************************************************)
(* classifyIntent, then checkVerification up to its own AI call, or        *)
(* routeTask.  A failed call and a low confidence are the "chat" intent.   *)
(***************************************************************************)
MayVerify_CapPlusOne(m, intent) ==
    intent = "verification" /\ ctx[m].stored.attempts <= MaxAttempts

MayVerify(m, intent) ==
    intent = "verification" /\ ctx[m].stored.attempts < MaxAttempts

RoutesTask_AnyRequest(m, intent) == intent \in {"emergency", "guestRequest"}

\* requiresAction; guest requests also carry requiresIdentity.
RoutesTask(m, intent) ==
    \/ intent = "emergency"
    \/ intent = "guestRequest" /\ ctx[m].entity # NoGuest

TaskOf(m, intent) ==
    [channel |-> AddressOf[m], message |-> m, requiresIdentity |-> intent = "guestRequest"]

ClassifyIntent(m, intent) ==
    /\ Step(m, "classifying",
            IF MayVerify(m, intent) THEN "extracting" ELSE "generating")
    /\ tasks' = IF RoutesTask(m, intent) THEN tasks \cup {TaskOf(m, intent)} ELSE tasks
    /\ UNCHANGED <<conv, ctx, staffPc, thread, delivered, crashes>>

(***************************************************************************)
(* checkVerification: merge the extracted credentials into the SNAPSHOT    *)
(* and look the booking up once both are known; otherwise store them.      *)
(***************************************************************************)
ExtractCredentials(m, found) ==
    LET held == ctx[m].stored.held \cup found
        c == AddressOf[m]
    IN  /\ pc[m] = "extracting"
        /\ ctx' = [ctx EXCEPT ![m].stored.held = held]
        /\ \/ /\ held = Credentials
              /\ pc' = [pc EXCEPT ![m] = "lookingUp"]
              /\ UNCHANGED conv
           \/ /\ held # Credentials
              /\ pc' = [pc EXCEPT ![m] = "generating"]
              /\ Write(c, StoreVerification(conv[c], ctx[m].stored.attempts, held))
        /\ UNCHANGED <<staffPc, thread, delivered, tasks, crashes>>

LookupSucceeds(m, guest) ==
    LET c == AddressOf[m] IN
    /\ Step(m, "lookingUp", "generating")
    /\ Write(c, LinkVerifiedGuest(conv[c], guest))
    /\ ctx' = [ctx EXCEPT ![m].entity = guest]
    /\ UNCHANGED <<staffPc, thread, delivered, tasks, crashes>>

LookupFails(m) ==
    LET c == AddressOf[m] IN
    /\ Step(m, "lookingUp", "generating")
    /\ Write(c, StoreVerification(conv[c], ctx[m].stored.attempts + 1, ctx[m].stored.held))
    /\ UNCHANGED <<ctx, staffPc, thread, delivered, tasks, crashes>>

(***************************************************************************)
(* generateResponse is the one AI call whose failure ends the run: the     *)
(* PipelineError reaches the webhook, which sends an apology instead.      *)
(***************************************************************************)
SaveOutbound(m) ==
    LET c == AddressOf[m] IN
    /\ pc' = [pc EXCEPT ![m] = "sending"]
    /\ Write(c, AddMessage(conv[c]))
    /\ Append2Thread(c, By("ai", m))

GenerateResponse(m) ==
    /\ pc[m] = "generating"
    /\ \/ /\ ctx[m].language = "foreign"
          /\ pc' = [pc EXCEPT ![m] = "translatingOut"]
          /\ UNCHANGED <<conv, thread>>
       \/ /\ ctx[m].language # "foreign"
          /\ SaveOutbound(m)
    /\ UNCHANGED <<ctx, staffPc, delivered, tasks, crashes>>

GenerateFails_Reclassifies(m) ==
    /\ Step(m, "generating", "classifying")
    /\ UNCHANGED <<conv, ctx, staffPc, thread, delivered, tasks, crashes>>

GenerateFails(m) ==
    /\ Step(m, "generating", "apologising")
    /\ UNCHANGED <<conv, ctx, staffPc, thread, delivered, tasks, crashes>>

TranslateOutbound(m) ==
    /\ pc[m] = "translatingOut"
    /\ SaveOutbound(m)
    /\ UNCHANGED <<ctx, staffPc, delivered, tasks, crashes>>

(***************************************************************************)
(* The channel send sits in the same try as the pipeline: when it fails,   *)
(* the saved reply is followed by an apology.                              *)
(***************************************************************************)
SendReply(m) ==
    LET c == AddressOf[m] IN
    /\ Step(m, "sending", "answered")
    /\ delivered' = [delivered EXCEPT ![c] = Append(@, By("ai", m))]
    /\ DropContext(m)
    /\ UNCHANGED <<conv, staffPc, thread, tasks, crashes>>

SendFails_Resends(m) ==
    /\ pc[m] = "sending"
    /\ delivered' = [delivered EXCEPT ![AddressOf[m]] = Append(@, By("ai", m))]
    /\ UNCHANGED <<conv, pc, ctx, staffPc, thread, tasks, crashes>>

\* The call fails before the channel took the reply, or after.
SendFails(m) ==
    /\ Step(m, "sending", "apologising")
    /\ \/ UNCHANGED delivered
       \/ delivered' = [delivered EXCEPT ![AddressOf[m]] = Append(@, By("ai", m))]
    /\ UNCHANGED <<conv, ctx, staffPc, thread, tasks, crashes>>

Apologise(m) ==
    /\ \/ Step(m, "apologising", "apologised")
       \/ Step(m, "apologising", "undelivered")
    /\ DropContext(m)
    /\ UNCHANGED <<conv, staffPc, thread, delivered, tasks, crashes>>

-----------------------------------------------------------------------------
(***************************************************************************)
(* Staff.  PATCH /conversations/:id sets the state.  A reply is translated *)
(* (an AI call) when the guest's language differs, saved, then sent; the   *)
(* send's failure is swallowed.                                            *)
(***************************************************************************)
PatchState(c, state) ==
    /\ Exists(conv[c])
    /\ Write(c, UpdateState(conv[c], state))
    /\ UNCHANGED <<pc, ctx, staffPc, thread, delivered, tasks, crashes>>

SaveStaffReply_Unsaved(s) ==
    /\ staffPc' = [staffPc EXCEPT ![s] = "sending"]
    /\ UNCHANGED <<conv, thread>>

SaveStaffReply(s) ==
    LET c == AddressOf[s] IN
    /\ staffPc' = [staffPc EXCEPT ![s] = "sending"]
    /\ Write(c, AddMessage(conv[c]))
    /\ Append2Thread(c, By("staff", s))

\* An unknown language is taken for English, which may be the hotel's or not.
StaffReply(s) ==
    LET c == AddressOf[s] IN
    /\ staffPc[s] = "idle"
    /\ Exists(conv[c])
    /\ \/ /\ conv[c].language \in {"foreign", NoLanguage}
          /\ staffPc' = [staffPc EXCEPT ![s] = "translating"]
          /\ UNCHANGED <<conv, thread>>
       \/ /\ conv[c].language # "foreign"
          /\ SaveStaffReply(s)
    /\ UNCHANGED <<pc, ctx, delivered, tasks, crashes>>

TranslateStaffReply(s) ==
    /\ staffPc[s] = "translating"
    /\ SaveStaffReply(s)
    /\ UNCHANGED <<pc, ctx, delivered, tasks, crashes>>

SendStaffReply(s) ==
    LET c == AddressOf[s] IN
    /\ staffPc[s] = "sending"
    /\ staffPc' = [staffPc EXCEPT ![s] = "done"]
    /\ \/ delivered' = [delivered EXCEPT ![c] = Append(@, By("staff", s))]
       \/ UNCHANGED delivered
    /\ UNCHANGED <<conv, pc, ctx, thread, tasks, crashes>>

-----------------------------------------------------------------------------
(***************************************************************************)
(* The idle job closes every idle row in one go.  Time: a conversation     *)
(* ages only while nothing is outstanding on it -- no AI, PMS or channel   *)
(* call takes the four hours of the cutoff.                                *)
(***************************************************************************)
IdleTimeout ==
    /\ \E c \in Channels : IsIdle(conv[c])
    /\ conv' = [c \in Channels |->
                  IF IsIdle(conv[c]) THEN UpdateState(conv[c], "closed") ELSE conv[c]]
    /\ UNCHANGED <<pc, ctx, staffPc, thread, delivered, tasks, crashes>>

FourHoursPass(c) ==
    /\ Exists(conv[c])
    /\ Outstanding(c) = {}
    /\ \A s \in Replies : AddressOf[s] = c => staffPc[s] \in {"idle", "done", "lost"}
    /\ Write(c, Aged(conv[c]))
    /\ UNCHANGED <<pc, ctx, staffPc, thread, delivered, tasks, crashes>>

\* The process dies: rows survive, every handler in memory is gone, and
\* nothing on boot looks for messages that were never answered.
Crash ==
    /\ crashes < MaxCrashes
    /\ crashes' = crashes + 1
    /\ pc' = [m \in Messages |-> IF pc[m] \in Running THEN "lost" ELSE pc[m]]
    /\ ctx' = [m \in Messages |-> EmptyContext]
    /\ staffPc' = [s \in Replies |->
                     IF staffPc[s] \in {"translating", "sending"} THEN "lost" ELSE staffPc[s]]
    /\ UNCHANGED <<conv, thread, delivered, tasks>>

-----------------------------------------------------------------------------
\* An I/O call of message m answers, one way or the other.
Handle(m) ==
    \/ MarkAsReadFails(m)
    \/ \E known \in Guests \cup {NoGuest} : Resolve(m, known)
    \/ \E detected \in Detectable : DetectLanguage(m, detected)
    \/ TranslateInbound(m)
    \/ \E intent \in Intents : ClassifyIntent(m, intent)
    \/ \E found \in SUBSET Credentials : ExtractCredentials(m, found)
    \/ \E guest \in Guests : LookupSucceeds(m, guest)
    \/ LookupFails(m)
    \/ GenerateResponse(m)
    \/ GenerateFails(m)
    \/ TranslateOutbound(m)
    \/ SendReply(m)
    \/ SendFails(m)
    \/ Apologise(m)

HandleStaff(s) == TranslateStaffReply(s) \/ SendStaffReply(s)

Next ==
    \/ \E m \in Messages : Receive(m) \/ Handle(m)
    \/ \E s \in Replies : StaffReply(s) \/ HandleStaff(s)
    \/ \E c \in Channels, state \in StaffStates : PatchState(c, state)
    \/ \E c \in Channels : FourHoursPass(c)
    \/ IdleTimeout
    \/ Crash

Spec == Init /\ [][Next]_vars

\* Every outstanding call ends -- the provider clients answer or throw -- and
\* the idle job's timer keeps firing.
Fairness == (\A m \in Messages : WF_vars(Handle(m))) /\ WF_vars(IdleTimeout)

FairSpec == Spec /\ Fairness

-----------------------------------------------------------------------------
(***************************************************************************)
(* Properties.                                                             *)
(***************************************************************************)
\* The type invariant.
TypeOK ==
    /\ conv \in [Channels -> Rows \cup {NoConversation}]
    /\ pc \in [Messages -> Stages]
    /\ ctx \in [Messages -> Contexts]
    /\ staffPc \in [Replies -> StaffStages]
    /\ thread \in [Channels -> Seq(Entries)]
    /\ delivered \in [Channels -> Seq(Entries)]
    /\ tasks \subseteq [channel : Channels, message : Messages, requiresIdentity : BOOLEAN]
    /\ crashes \in Nat

\* A task that needs to know the guest (routeTask's requiresIdentity) stays on
\* a conversation that is linked to a guest: staff can open its profile.
IdentityTasksLinked ==
    \A t \in tasks : t.requiresIdentity => conv[t.channel].guest # NoGuest

\* The stored count of failed verifications never passes the cap, although
\* it is written from a snapshot taken several I/O waits earlier
\* (checkVerification).
AttemptsBound ==
    \A c \in Channels :
        Exists(conv[c]) => conv[c].verification.attempts <= MaxAttempts

\* What a guest received is in the conversation's history: replies are saved
\* before they are sent (saveOutbound and the staff route).
SentWasSaved ==
    \A c \in Channels : \A i \in DOMAIN delivered[c] :
        \E j \in DOMAIN thread[c] : thread[c][j] = delivered[c][i]

\* Once linked, a conversation changes guest only through a booking lookup
\* that matched: a phone match on a later message never relinks it.
RelinkOnlyByLookup ==
    [][\A c \in Channels :
         Exists(conv[c]) /\ conv[c].guest # NoGuest /\ conv'[c].guest # conv[c].guest
           => \E m \in Messages :
                AddressOf[m] = c /\ pc[m] = "lookingUp" /\ pc'[m] = "generating"]_vars

\* The idle job never closes a conversation whose saved guest message is
\* still being answered.
IdleSparesAnswering ==
    [][\A c \in Channels :
         IdleTimeout /\ (\E m \in Outstanding(c) : pc[m] \in PastSave)
           => conv'[c] = conv[c]]_vars

\* A task is the only one its message raised, is on the conversation of that
\* message, and staff find the message in that conversation's history:
\* routeTask comes after saveInbound and happens once per run.
TasksTraceable ==
    \A t \in tasks :
        /\ t.channel = AddressOf[t.message]
        /\ \E i \in DOMAIN thread[t.channel] : thread[t.channel][i] = By("guest", t.message)
        /\ \A u \in tasks : u.message = t.message => u = t

\* A guest receives an AI answer, or a staff reply, at most once, however sends
\* fail and the process restarts.
ReceivedOnce ==
    \A c \in Channels : \A i, j \in DOMAIN delivered[c] :
        delivered[c][i] = delivered[c][j] => i = j

\* The waits of a handler in the order of src/pipeline/index.ts.
Rank ==
    [unsent |-> 0, accepted |-> 1, detecting |-> 2, translatingIn |-> 3, classifying |-> 4,
     extracting |-> 5, lookingUp |-> 6, generating |-> 7, translatingOut |-> 8,
     sending |-> 9, apologising |-> 10, answered |-> 11, apologised |-> 11,
     undelivered |-> 11, dropped |-> 11, lost |-> 11]

\* A handler never goes back to a wait it has passed, whatever fails: ten waits
\* at most lie between a message and its end.
HandlersAdvance ==
    [][\A m \in Messages : pc'[m] # pc[m] => Rank[pc'[m]] > Rank[pc[m]]]_vars

\* Every acknowledged message comes to an end: a reply, an apology, or an
\* abandoned attempt, whatever the AI, the PMS and the channel answer.
AcceptedSettles == \A m \in Messages : pc[m] \in Running ~> pc[m] \in Settled

\* Past the cutoff of the idle job: by the last message, or without one by
\* the last write.
Quiet(row) ==
    \/ row.lastMessageAt = "old"
    \/ row.lastMessageAt = "null" /\ row.updatedAt = "old"

\* "Closes conversations that have had no activity for 4 hours", for every
\* state staff may give them meanwhile but one: a quiet conversation is closed,
\* unless there is activity again, or staff set it to 'new', which the query of
\* runConversationIdleTimeout never lists, so that it stays open.
QuietConversationsClose ==
    \A c \in Channels :
        Exists(conv[c]) /\ Quiet(conv[c])
          ~> Exists(conv[c]) /\ (conv[c].state \in {"closed", "new"} \/ ~Quiet(conv[c]))
=============================================================================
