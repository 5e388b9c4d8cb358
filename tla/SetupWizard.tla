----------------------------- MODULE SetupWizard -----------------------------
(***************************************************************************)
(* The setup wizard of a fresh installation: the setup_state row, the      *)
(* takeover of the default administrator, and the browser tabs that walk   *)
(* through the questions (src/services/setup.ts, src/gateway/routes/       *)
(* setup.ts, apps/dashboard/src/features/setup, pages/Login.tsx).          *)
(*                                                                         *)
(* A call is one request of one tab.  The server works in one stretch      *)
(* between two waits: the guard of the routes, then, for a request with a  *)
(* body, the handler; a check of an API key, a scrape and a password hash  *)
(* wait once more.  A tab that is reloaded, or whose connection breaks,    *)
(* forgets its calls and the server carries them on.                       *)
(* POST /reset is refused in production and is left out.                   *)
(***************************************************************************)
EXTENDS Naturals, Sequences, FiniteSets

CONSTANTS
    Tabs,
    Categories,     \* the required ones, in the order they are asked
    Emails,
    DefaultEmail,   \* of the administrator every installation starts with
    MaxCalls, MaxLoads, MaxBreaks

ASSUME SetupAssumption ==
    /\ DefaultEmail \notin Emails
    /\ MaxCalls \in Nat \ {0} /\ MaxLoads \in Nat /\ MaxBreaks \in Nat

VARIABLES
    row,           \* setup_state
    admins,        \* emails of the administrators created by the wizard
    defaultAdmin,  \* the seeded account: its email and whether it is active
    knowledge,     \* categories with an entry that has its embedding
    tab, call,
    finished,      \* history: setup was completed at some time
    turnedAway,    \* history: categories of entries an import did not make findable
    loads, breaks

accountVars == <<admins, defaultAdmin>>
storeVars == <<accountVars, knowledge>>
historyVars == <<finished, turnedAway>>
boundVars == <<loads, breaks>>
vars == <<row, storeVars, tab, call, historyVars, boundVars>>

Range(s) == {s[i] : i \in DOMAIN s}
Required == Range(Categories)
AllEmails == Emails \cup {DefaultEmail}
NoEmail == "none"
Calls == 1 .. MaxCalls

Steps == {"bootstrap", "property_type", "ai_provider", "knowledge", "create_admin"}
Rows == [status : {"pending", "in_progress", "completed"},
         step : Steps \cup {"welcome", "none"},
         done : SUBSET Steps,
         context : SUBSET {"property", "ai"}]
NoRow == [status |-> "pending", step |-> "none", done |-> {}, context |-> {}]

Places == {"closed", "loading", "at_login", "login", "bootstrap", "ask_name",
           "ask_type", "ask_ai_provider", "ask_api_key", "ask_website",
           "scraping", "show_checklist", "ask_manual", "ask_admin", "done",
           "complete"}

Ops == {"state", "start", "bootstrap", "welcome", "ai_local", "ai_key",
        "scrape", "import", "complete", "admin", "skip"}
Free == [at |-> "free"]
Request(t, op) ==
    [of |-> t, op |-> op, at |-> "sent", live |-> TRUE, ok |-> FALSE,
     entries |-> {}, found |-> {}, email |-> NoEmail, saw |-> "closed"]
IsFree(c) == call[c] = Free
Live(c) == ~IsFree(c) /\ call[c].live

Init ==
    /\ row = NoRow
    /\ admins = {}
    /\ defaultAdmin = [email |-> DefaultEmail, active |-> TRUE]
    /\ knowledge = {}
    /\ tab = [t \in Tabs |-> [at |-> "closed", found |-> {}]]
    /\ call = [c \in Calls |-> Free]
    /\ finished = FALSE /\ turnedAway = {}
    /\ loads = 0 /\ breaks = 0

-----------------------------------------------------------------------------
(***************************************************************************)
(* The tabs.  isLoading and the steps 'done', 'complete' and 'scraping'    *)
(* disable every input; an import waits without either.                    *)
(***************************************************************************)
Waiting(t) == \E c \in Calls : Live(c) /\ call[c].of = t /\ call[c].op # "import"

Asked(t, place) == tab[t].at = place /\ ~Waiting(t)

Goes(t, place) == tab' = [tab EXCEPT ![t].at = place]

\* The next call there is room for; which one is of no consequence.
Sends(request) ==
    \E c \in Calls :
        /\ IsFree(c) /\ \A d \in Calls : IsFree(d) => c <= d
        /\ call' = [call EXCEPT ![c] = request]

serverVars == <<row, storeVars, historyVars>>
tabLocal == <<serverVars, call, boundVars>>

\* What is left of a call no tab waits for; a read that nobody waits for is
\* nothing.
Forgotten(c) ==
    IF call[c].at = "answered" \/ call[c].op = "state" THEN Free
    ELSE [call[c] EXCEPT !.live = FALSE]

\* A page opens, forgets what the tab knew, and reads the state.
Opens(t, page) ==
    LET kept == [c \in Calls |-> IF Live(c) /\ call[c].of = t THEN Forgotten(c) ELSE call[c]]
    IN  /\ tab' = [tab EXCEPT ![t] = [at |-> page, found |-> {}]]
        /\ \E c \in Calls :
              /\ kept[c] = Free /\ \A d \in Calls : kept[d] = Free => c <= d
              /\ call' = [kept EXCEPT ![c] = Request(t, "state")]

\* The wizard is opened or reloaded.
Load(t) ==
    /\ loads < MaxLoads
    /\ loads' = loads + 1
    /\ Opens(t, "loading")
    /\ UNCHANGED <<serverVars, breaks>>

Continue(t) ==
    /\ Asked(t, "bootstrap")
    /\ Sends(Request(t, "start"))
    /\ UNCHANGED <<serverVars, tab, boundVars>>

GiveName(t) ==
    /\ Asked(t, "ask_name")
    /\ Goes(t, "ask_type")
    /\ UNCHANGED tabLocal

\* A handler that shows 'done' until its request is answered.
Submits(t, place, request) ==
    /\ Asked(t, place)
    /\ Goes(t, "done")
    /\ Sends(request)
    /\ UNCHANGED <<serverVars, boundVars>>

ChooseType(t) == Submits(t, "ask_type", Request(t, "welcome"))

ChooseLocalAI(t) ==
    \E place \in {"ask_ai_provider", "ask_api_key"} :
        Submits(t, place, Request(t, "ai_local"))

ChooseCloudAI(t) ==
    /\ Asked(t, "ask_ai_provider")
    /\ Goes(t, "ask_api_key")
    /\ UNCHANGED tabLocal

GiveKey(t) == Submits(t, "ask_api_key", Request(t, "ai_key"))

\* An import carries the entries to store, and what the tab will take for
\* found: those its closure held and these.  The entries a page yields are
\* known when it has been read: they travel with the request.
Imports(t, op, entries) ==
    [Request(t, op) EXCEPT !.entries = entries, !.found = tab[t].found \cup entries]

GiveWebsite(t) ==
    /\ Asked(t, "ask_website")
    /\ Goes(t, "scraping")
    /\ \E read \in SUBSET Required :
           Sends(Imports(t, "scrape", read))
    /\ UNCHANGED <<serverVars, boundVars>>

MissingFrom(found) == Required \ found

\* "Tell manually", or an answer the AI takes for a refusal to give a website.
TellManually(t) ==
    /\ Asked(t, "show_checklist") \/ Asked(t, "ask_website")
    /\ MissingFrom(tab[t].found) # {}
    /\ Goes(t, "ask_manual")
    /\ UNCHANGED tabLocal

TryUrl(t) ==
    /\ Asked(t, "show_checklist")
    /\ Goes(t, "ask_website")
    /\ UNCHANGED tabLocal

IsFirstMissing(i, found) ==
    /\ Categories[i] \notin found
    /\ \A j \in DOMAIN Categories : Categories[j] \notin found => i <= j

\* The question stays open meanwhile.
AnswerManually(t) ==
    /\ Asked(t, "ask_manual")
    /\ \E i \in DOMAIN Categories :
          /\ IsFirstMissing(i, tab[t].found)
          /\ Sends(Imports(t, "import", {Categories[i]}))
    /\ UNCHANGED <<serverVars, tab, boundVars>>

ChecklistContinue(t) ==
    /\ MissingFrom(tab[t].found) = {}
    /\ Submits(t, "show_checklist", Request(t, "complete"))

SubmitAdmin(t) ==
    \E e \in AllEmails :
        Submits(t, "ask_admin", [Request(t, "admin") EXCEPT !.email = e])

\* The link is there whatever the tab waits for, except at 'done'.
Skip(t) ==
    /\ tab[t].at \notin {"closed", "loading", "at_login", "login", "bootstrap",
                         "done", "complete"}
    /\ Sends(Request(t, "skip"))
    /\ UNCHANGED <<serverVars, tab, boundVars>>

LeaveForLogin(t) ==
    /\ tab[t].at = "complete"
    /\ Opens(t, "at_login")
    /\ UNCHANGED <<serverVars, boundVars>>

-----------------------------------------------------------------------------
(***************************************************************************)
(* The server.                                                             *)
(***************************************************************************)
WithBody == {"welcome", "ai_local", "ai_key", "admin"}

Answer_ByOutcome(c, ok) ==
    IF call[c].live THEN [call[c] EXCEPT !.at = IF ok THEN "answered" ELSE "failed", !.ok = ok]
    ELSE Free

\* The call as it is after the server answered it.
Answer(c, ok) ==
    IF call[c].live THEN [call[c] EXCEPT !.at = "answered", !.ok = ok] ELSE Free
Answers(c, ok) == call' = [call EXCEPT ![c] = Answer(c, ok)]

\* completeStep sets the status whatever it was.
CompletedStep(r, step, next) ==
    [r EXCEPT !.status = IF next = "none" THEN "completed" ELSE "in_progress",
              !.step = next, !.done = @ \cup {step}]

Saves(r) ==
    /\ row' = r
    /\ finished' = (finished \/ r.status = "completed")

GuardRefuses_Never(c) == FALSE

GuardRefuses(c) == row.status = "completed" /\ call[c].op \notin {"state", "scrape", "import"}

Refuse(c) ==
    /\ ~IsFree(c) /\ call[c].at = "sent"
    /\ GuardRefuses(c)
    /\ Answers(c, FALSE)
    /\ UNCHANGED <<row, storeVars, tab, historyVars, boundVars>>

\* The guard lets the request pass before its body is read.
Admit(c) ==
    /\ ~IsFree(c) /\ call[c].at = "sent" /\ call[c].op \in WithBody
    /\ ~GuardRefuses(c)
    /\ call' = [call EXCEPT ![c].at = "admitted"]
    /\ UNCHANGED <<serverVars, tab, boundVars>>

Begins(c, op) ==
    /\ ~IsFree(c) /\ call[c].op = op
    /\ call[c].at = IF op \in WithBody THEN "admitted" ELSE "sent"
    /\ op \notin WithBody => ~GuardRefuses(c)

\* Where checkSetupState and resumeChat will take a page that reads this row.
ResumeAt(r) ==
    CASE r.status = "completed" -> "at_login"
      [] r.status = "pending" \/ r.step = "bootstrap" -> "bootstrap"
      [] r.step = "create_admin" -> "ask_admin"
      [] r.step = "knowledge" -> "ask_website"
      [] "ai" \in r.context -> "at_login"
      [] "property" \in r.context -> "ask_ai_provider"
      [] OTHER -> "ask_name"

ReadState(c) ==
    /\ Begins(c, "state")
    /\ call' = [call EXCEPT ![c] = [@ EXCEPT !.at = "answered", !.saw = ResumeAt(row),
                                                !.ok = row.status = "completed"]]
    /\ UNCHANGED <<serverVars, tab, boundVars>>

\* Local AI may fail to come up: the wizard starts all the same.
Start(c) ==
    /\ Begins(c, "start")
    /\ Saves([row EXCEPT !.status = "in_progress", !.step = "bootstrap"])
    /\ Answers(c, TRUE)
    /\ UNCHANGED <<storeVars, tab, turnedAway, boundVars>>

CompleteBootstrap(c) ==
    /\ Begins(c, "bootstrap")
    /\ Saves(CompletedStep(row, "bootstrap", "welcome"))
    /\ Answers(c, TRUE)
    /\ UNCHANGED <<storeVars, tab, turnedAway, boundVars>>

SavePropertyInfo(c) ==
    /\ Begins(c, "welcome")
    /\ Saves(CompletedStep([row EXCEPT !.context = @ \cup {"property"}],
                           "property_type", "ai_provider"))
    /\ Answers(c, TRUE)
    /\ UNCHANGED <<storeVars, tab, turnedAway, boundVars>>

AIConfigured(r) ==
    CompletedStep([r EXCEPT !.context = @ \cup {"ai"}], "ai_provider", "knowledge")

ConfigureLocalAI(c) ==
    /\ Begins(c, "ai_local")
    /\ Saves(AIConfigured(row))
    /\ Answers(c, TRUE)
    /\ UNCHANGED <<storeVars, tab, turnedAway, boundVars>>

\* The key is saved, then tried over the network.
TryKey(c) ==
    /\ Begins(c, "ai_key")
    /\ call' = [call EXCEPT ![c].at = "working"]
    /\ UNCHANGED <<serverVars, tab, boundVars>>

KeyTried(c) ==
    /\ ~IsFree(c) /\ call[c].op = "ai_key" /\ call[c].at = "working"
    /\ \/ Saves(AIConfigured(row)) /\ Answers(c, TRUE)
       \/ Answers(c, FALSE) /\ UNCHANGED <<row, finished>>
    /\ UNCHANGED <<storeVars, tab, turnedAway, boundVars>>

CompleteKnowledge(c) ==
    /\ Begins(c, "complete")
    /\ Saves(CompletedStep(row, "knowledge", "create_admin"))
    /\ Answers(c, TRUE)
    /\ UNCHANGED <<storeVars, tab, turnedAway, boundVars>>

SkipSetup(c) ==
    /\ Begins(c, "skip")
    /\ Saves([row EXCEPT !.status = "completed", !.step = "none"])
    /\ Answers(c, TRUE)
    /\ UNCHANGED <<storeVars, tab, turnedAway, boundVars>>

-----------------------------------------------------------------------------
(***************************************************************************)
(* The administrator.  What the check of the email found is used after the *)
(* password has been hashed; both accounts change in one transaction.      *)
(***************************************************************************)
Holders(e) == (IF e \in admins THEN {"created"} ELSE {})
              \cup (IF defaultAdmin.email = e THEN {"default"} ELSE {})

CheckEmail(c) ==
    /\ Begins(c, "admin")
    /\ IF "created" \in Holders(call[c].email)
       THEN Answers(c, FALSE)
       ELSE call' = [call EXCEPT ![c].at =
                        IF Holders(call[c].email) = {} THEN "hashing" ELSE "taking_over"]
    /\ UNCHANGED <<serverVars, tab, boundVars>>

\* The seeded account gives its email up when it was seen to hold it.
Freed(c) ==
    IF call[c].at = "taking_over" THEN [email |-> NoEmail, active |-> FALSE] ELSE defaultAdmin

Takes(c) == call[c].email \notin admins /\ Freed(c).email # call[c].email

\* The seeded account is disabled first, and keeps its email.
InsertAdmin_DisabledFirst(c) ==
    /\ ~IsFree(c) /\ call[c].at \in {"hashing", "taking_over"}
    /\ defaultAdmin' = [defaultAdmin EXCEPT !.active = FALSE]
    /\ IF Holders(call[c].email) = {}
       THEN /\ admins' = admins \cup {call[c].email}
            /\ Saves(CompletedStep(row, "create_admin", "none"))
            /\ Answers(c, TRUE)
       ELSE /\ Answers(c, FALSE)
            /\ UNCHANGED <<admins, row, finished>>
    /\ UNCHANGED <<knowledge, tab, turnedAway, boundVars>>

InsertAdmin(c) ==
    /\ ~IsFree(c) /\ call[c].at \in {"hashing", "taking_over"}
    /\ IF Takes(c)
       THEN /\ admins' = admins \cup {call[c].email}
            /\ defaultAdmin' = [Freed(c) EXCEPT !.active = FALSE]
            /\ Saves(CompletedStep(row, "create_admin", "none"))
            /\ Answers(c, TRUE)
       ELSE /\ Answers(c, FALSE)
            /\ UNCHANGED <<accountVars, row, finished>>
    /\ UNCHANGED <<knowledge, tab, turnedAway, boundVars>>

-----------------------------------------------------------------------------
(***************************************************************************)
(* The knowledge base.  Its routes are outside the guard.  A scrape that   *)
(* yields nothing, or fails, is answered without an import.                *)
(***************************************************************************)
\* Without an embedding provider nothing is stored.  Otherwise each entry fares
\* by itself: it is skipped when any entry has its title, whatever the category,
\* and one whose embedding fails has a row that no search finds.  The answer
\* counts them, and the tab does not look.  A page may yield only entries of
\* other categories.
Import(c) ==
    /\ Begins(c, "import") \/ Begins(c, "scrape")
    /\ \E stored \in SUBSET call[c].entries :
          /\ knowledge' = knowledge \cup stored
          /\ turnedAway' = turnedAway \cup (call[c].entries \ stored)
    /\ Answers(c, TRUE)
    /\ UNCHANGED <<row, accountVars, tab, finished, boundVars>>

ScrapeFails(c) ==
    /\ Begins(c, "scrape")
    /\ Answers(c, FALSE)
    /\ UNCHANGED <<row, storeVars, tab, historyVars, boundVars>>

-----------------------------------------------------------------------------
(***************************************************************************)
(* The answers, in the tab that waits for them.                            *)
(***************************************************************************)
\* The login page sends a fresh installation back to the wizard.
StatePlace(c) ==
    IF tab[call[c].of].at = "at_login"
    THEN IF call[c].ok THEN "login" ELSE "loading"
    ELSE call[c].saw

AnsweredBy(c, op) == Live(c) /\ call[c].at = "answered" /\ call[c].op = op
Done(c) == call' = [call EXCEPT ![c] = Free]
ThenSends(c, op) == call' = [call EXCEPT ![c] = Request(call[c].of, op)]

StateArrives(c) ==
    /\ AnsweredBy(c, "state")
    /\ Goes(call[c].of, StatePlace(c))
    /\ IF StatePlace(c) \in {"loading", "at_login"} THEN ThenSends(c, "state") ELSE Done(c)
    /\ UNCHANGED <<serverVars, boundVars>>

\* None of these looks at the status of the answer.
StartArrives(c) ==
    /\ AnsweredBy(c, "start")
    /\ ThenSends(c, "bootstrap")
    /\ UNCHANGED <<serverVars, tab, boundVars>>

SkipArrives(c) ==
    /\ AnsweredBy(c, "skip")
    /\ Opens(call[c].of, "at_login")
    /\ UNCHANGED <<serverVars, boundVars>>

StepArrives(c) ==
    /\ \/ AnsweredBy(c, "bootstrap") /\ Goes(call[c].of, "ask_name")
       \/ AnsweredBy(c, "welcome") /\ Goes(call[c].of, "ask_ai_provider")
       \/ AnsweredBy(c, "complete") /\ Goes(call[c].of, "ask_admin")
    /\ Done(c)
    /\ UNCHANGED <<serverVars, boundVars>>

OutcomeArrives_Unchecked(c) ==
    /\ \/ /\ AnsweredBy(c, "ai_local") \/ AnsweredBy(c, "ai_key")
          /\ Goes(call[c].of, "ask_website")
       \/ /\ AnsweredBy(c, "admin")
          /\ Goes(call[c].of, IF call[c].ok THEN "complete" ELSE "ask_admin")
    /\ Done(c)
    /\ UNCHANGED <<serverVars, boundVars>>

OutcomeArrives_AnyAdmin(c) ==
    /\ \/ /\ AnsweredBy(c, "ai_local")
          /\ Goes(call[c].of, IF call[c].ok THEN "ask_website" ELSE "done")
       \/ /\ AnsweredBy(c, "ai_key")
          /\ Goes(call[c].of, IF call[c].ok THEN "ask_website" ELSE "ask_api_key")
       \/ /\ AnsweredBy(c, "admin")
          /\ Goes(call[c].of, "complete")
    /\ Done(c)
    /\ UNCHANGED <<serverVars, boundVars>>

\* These do; a refused choice of local AI leaves the tab at 'done'.
OutcomeArrives(c) ==
    /\ \/ /\ AnsweredBy(c, "ai_local")
          /\ Goes(call[c].of, IF call[c].ok THEN "ask_website" ELSE "done")
       \/ /\ AnsweredBy(c, "ai_key")
          /\ Goes(call[c].of, IF call[c].ok THEN "ask_website" ELSE "ask_api_key")
       \/ /\ AnsweredBy(c, "admin")
          /\ Goes(call[c].of, IF call[c].ok THEN "complete" ELSE "ask_admin")
    /\ Done(c)
    /\ UNCHANGED <<serverVars, boundVars>>

\* What was found is what the closure says, whatever the tab learnt since.
ScrapeArrives_Unchecked(c) ==
    /\ AnsweredBy(c, "scrape")
    /\ tab' = [tab EXCEPT ![call[c].of] =
                  [at |-> "show_checklist", found |-> call[c].found]]
    /\ Done(c)
    /\ UNCHANGED <<serverVars, boundVars>>

ScrapeArrives(c) ==
    /\ AnsweredBy(c, "scrape")
    /\ tab' = [tab EXCEPT ![call[c].of] =
                  IF call[c].ok
                  THEN [at |-> "show_checklist", found |-> call[c].found]
                  ELSE [@ EXCEPT !.at = "ask_website"]]
    /\ Done(c)
    /\ UNCHANGED <<serverVars, boundVars>>

ImportArrives(c) ==
    /\ AnsweredBy(c, "import")
    /\ tab' = [tab EXCEPT ![call[c].of] =
                  [at |-> IF MissingFrom(call[c].found) = {} THEN "show_checklist" ELSE "ask_manual",
                   found |-> call[c].found]]
    /\ Done(c)
    /\ UNCHANGED <<serverVars, boundVars>>

\* Where a tab is left by a request that throws.
AfterBreak(c) ==
    CASE call[c].op = "state" -> IF tab[call[c].of].at = "at_login" THEN "login" ELSE "bootstrap"
      [] call[c].op = "ai_key" -> "ask_api_key"
      [] call[c].op = "scrape" -> "ask_website"
      [] call[c].op = "admin" -> "ask_admin"
      [] OTHER -> tab[call[c].of].at

\* The connection breaks before or after the server has the request.
Break(c) ==
    /\ Live(c) /\ breaks < MaxBreaks
    /\ breaks' = breaks + 1
    /\ Goes(call[c].of, AfterBreak(c))
    /\ \/ call' = [call EXCEPT ![c] = Forgotten(c)]
       \/ call[c].at = "sent" /\ call' = [call EXCEPT ![c] = Free]
    /\ UNCHANGED <<serverVars, loads>>

-----------------------------------------------------------------------------
User(t) ==
    \/ Load(t) \/ Continue(t) \/ GiveName(t) \/ ChooseType(t) \/ ChooseLocalAI(t)
    \/ ChooseCloudAI(t) \/ GiveKey(t) \/ GiveWebsite(t) \/ TellManually(t)
    \/ TryUrl(t) \/ AnswerManually(t) \/ ChecklistContinue(t) \/ SubmitAdmin(t)
    \/ Skip(t)

Server(c) ==
    \/ Refuse(c) \/ Admit(c) \/ ReadState(c) \/ Start(c) \/ CompleteBootstrap(c)
    \/ SavePropertyInfo(c) \/ ConfigureLocalAI(c) \/ TryKey(c) \/ KeyTried(c)
    \/ CompleteKnowledge(c) \/ SkipSetup(c) \/ CheckEmail(c) \/ InsertAdmin(c)
    \/ Import(c) \/ ScrapeFails(c)

Arrives(c) ==
    \/ StateArrives(c) \/ StartArrives(c) \/ SkipArrives(c) \/ StepArrives(c)
    \/ OutcomeArrives(c) \/ ScrapeArrives(c) \/ ImportArrives(c)

Next ==
    \/ \E t \in Tabs : User(t) \/ LeaveForLogin(t)
    \/ \E c \in Calls : Server(c) \/ Arrives(c) \/ Break(c)

Spec == Init /\ [][Next]_vars

\* The server answers and the answers arrive; the operator owes nothing.
FairSpec ==
    /\ Spec
    /\ \A c \in Calls : WF_vars(Server(c)) /\ WF_vars(Arrives(c))

-----------------------------------------------------------------------------
\* Type correctness of the setup row, the accounts, the tabs and the calls.
CallsOf == [of : Tabs, op : Ops,
            at : {"sent", "admitted", "working", "hashing", "taking_over", "answered"},
            live : BOOLEAN, ok : BOOLEAN, entries : SUBSET Required, found : SUBSET Required,
            email : AllEmails \cup {NoEmail}, saw : Places]

TypeOK ==
    /\ row \in Rows
    /\ admins \subseteq AllEmails
    /\ defaultAdmin \in [email : {DefaultEmail, NoEmail}, active : BOOLEAN]
    /\ knowledge \subseteq Required
    /\ tab \in [Tabs -> [at : Places, found : SUBSET Required]]
    /\ call \in [Calls -> CallsOf \cup {Free}]
    /\ finished \in BOOLEAN
    /\ turnedAway \subseteq Required
    /\ loads \in 0 .. MaxLoads /\ breaks \in 0 .. MaxBreaks

\* Exactly one way in: the seeded administrator until the wizard has created
\* one, never both and never neither, whatever became of the requests that
\* created it (createAdminAccount's transaction, setup.ts:434).
OneWayIn == defaultAdmin.active <=> admins = {}

\* A tab asks no question before the server has what the earlier ones were
\* for, although most answers are not looked at and tabs overtake each other;
\* once setup was completed the refused answers no longer count.
InOrder(t) ==
    /\ tab[t].at \in {"ask_ai_provider", "ask_api_key"} => "property" \in row.context
    /\ tab[t].at \in {"ask_website", "scraping", "show_checklist", "ask_manual"}
          => "ai" \in row.context
    /\ tab[t].at = "ask_admin" => "knowledge" \in row.done

AskedInOrder == finished \/ \A t \in Tabs : InOrder(t)

\* Knowledge gathering is completed only when every required category has an
\* entry that search can find, or an entry of it reached the server and was
\* turned away there for one of three reasons no tab notices: no embedding
\* provider, a title that is taken, or a failed embedding.  What a page did not
\* yield, or what was lost on its way, is never taken for found.
KnowledgeComplete == "knowledge" \in row.done => Required \subseteq knowledge \cup turnedAway

\* A tab that shows the end of the setup has an administrator behind it: one
\* whose request was refused, because another tab had completed or skipped the
\* setup or taken the email, goes back to its question (useSetupSteps.ts).
CompleteMeansAdmin == \A t \in Tabs : tab[t].at = "complete" => admins # {} /\ finished

\* A completed setup is opened again only by a request the guard had let pass
\* before (routes/setup.ts:22 checks, completeStep does not).
Admitted(c) == ~IsFree(c) /\ call[c].at \in {"admitted", "working"}

OnlyAdmittedReopens ==
    [][row.status = "completed" /\ row'.status # "completed" => \E c \in Calls : Admitted(c)]_vars

\* "User abandons mid-setup: save state, resume on return" (docs/06-roadmap/
\* 001-ai-assistant-framework.md:688): a page that loads ends at a question
\* of the wizard or at the login form.  After a step was done again behind
\* the AI's back, resumeChat and the login page send it back and forth.
LoadSettles ==
    \A t \in Tabs :
        tab[t].at \in {"loading", "at_login"} ~> tab[t].at \notin {"loading", "at_login"}
=============================================================================
