-------------------------- MODULE SetupWizard_proofs --------------------------
(***************************************************************************)
(* The setup wizard, for any number of tabs, calls, loads and broken       *)
(* connections, any categories and any emails.                             *)
(***************************************************************************)
EXTENDS SetupWizard, TLAPS

Known == knowledge \cup turnedAway

\* What must be stored for a question to be asked; AskedInOrder of one place.
Ordered(place) ==
    /\ place \in {"ask_ai_provider", "ask_api_key"} => "property" \in row.context
    /\ place \in {"ask_website", "scraping", "show_checklist", "ask_manual"}
          => "ai" \in row.context
    /\ place = "ask_admin" => "knowledge" \in row.done

\* What the tab infers from an answer.
Earned(op, ok) ==
    /\ op = "welcome" => "property" \in row.context
    /\ op \in {"ai_local", "ai_key"} /\ ok => "ai" \in row.context
    /\ op = "complete" => "knowledge" \in row.done

\* The question a call belongs to was asked in order, and so is the one its
\* answer leads to.
Vouched(k) ==
    /\ k.op \in {"ai_local", "ai_key"} => "property" \in row.context
    /\ k.op \in {"scrape", "import"} => "ai" \in row.context
    /\ k.op = "admin" => "knowledge" \in row.done
    /\ k.at = "answered" => Earned(k.op, k.ok)
    /\ Ordered(k.saw)

TabsAre == [at : Places, found : SUBSET Required]

TabSound(v) == v \in TabsAre /\ v.found \subseteq Known /\ (finished \/ Ordered(v.at))

CallSound(k) ==
    \/ k = Free
    \/ /\ k \in CallsOf
       /\ k.op = "admin" => k.email \in AllEmails
       /\ k.at \in {"hashing", "taking_over"} => k.op = "admin"
       /\ k.op = "complete" => Required \subseteq Known
       /\ k.op \in {"scrape", "import"} => k.found \subseteq Known \cup k.entries
       /\ k.at = "answered" /\ (k.op = "import" \/ (k.op = "scrape" /\ k.ok))
             => k.found \subseteq Known
       /\ finished \/ Vouched(k)

StoreSound ==
    /\ row \in Rows
    /\ admins \subseteq AllEmails
    /\ defaultAdmin \in [email : {DefaultEmail, NoEmail}, active : BOOLEAN]
    /\ knowledge \subseteq Required /\ turnedAway \subseteq Required
    /\ finished \in BOOLEAN
    /\ OneWayIn
    /\ KnowledgeComplete
    /\ row.status = "completed" => finished
    /\ row.step = "create_admin" => "knowledge" \in row.done
    /\ row.step = "knowledge" => "ai" \in row.context

CallsSound ==
    /\ call \in [Calls -> CallsOf \cup {Free}]
    /\ \A c \in Calls : CallSound(call[c])

TabsSound ==
    /\ tab \in [Tabs -> TabsAre]
    /\ \A t \in Tabs : TabSound(tab[t])

Bounded == loads \in 0 .. MaxLoads /\ breaks \in 0 .. MaxBreaks

IInv == StoreSound /\ CallsSound /\ TabsSound /\ Bounded

-----------------------------------------------------------------------------
(***************************************************************************)
(* What the actions are built from.                                        *)
(***************************************************************************)
LEMMA FreeIsNoCall == Free \notin CallsOf /\ Free.at = "free"
  <1>1. SUFFICES ASSUME Free \in CallsOf PROVE FALSE
    BY DEF Free
  <1>2. Free.at \in {"sent", "admitted", "working", "hashing", "taking_over", "answered"}
    BY <1>1 DEF CallsOf
  <1>3. QED BY <1>2 DEF Free

LEMMA TakenCall ==
    ASSUME IInv, NEW c \in Calls, ~IsFree(c)
    PROVE  call[c] \in CallsOf
  BY DEF IInv, CallsSound, IsFree

LEMMA SomeCall == 1 \in Calls
  BY SetupAssumption DEF Calls

\* What the server stores is never taken back.
Grows ==
    /\ Known \subseteq Known'
    /\ row.context \subseteq row'.context /\ row.done \subseteq row'.done
    /\ finished => finished'

\* A stretch of the server on one call.
LEMMA ServerStep ==
    ASSUME IInv, NEW c \in Calls, NEW k, call' = [call EXCEPT ![c] = k],
           k \in CallsOf \cup {Free}, CallSound(k)',
           Grows, StoreSound', UNCHANGED <<tab, boundVars>>
    PROVE  IInv'
  <1>1. CallsSound'
    <2>1. call' \in [Calls -> CallsOf \cup {Free}]
      BY DEF IInv, CallsSound
    <2> SUFFICES ASSUME NEW d \in Calls PROVE CallSound(call[d])'
      BY <2>1 DEF CallsSound
    <2>2. CASE d = c
      BY <2>2 DEF IInv, CallsSound, CallSound, Vouched, Earned, Ordered, Known
    <2>3. CASE d # c
      <3>1. call'[d] = call[d] /\ CallSound(call[d])
        BY <2>3 DEF IInv, CallsSound
      <3>2. CASE call[d] = Free
        BY <3>1, <3>2 DEF CallSound
      <3>3. CASE call[d] # Free
        <4>1. finished' \/ Vouched(call[d])'
          BY <3>1, <3>3 DEF CallSound, Vouched, Earned, Ordered, Grows
        <4>2. QED BY <3>1, <3>3, <4>1 DEF CallSound, Grows
      <3>4. QED BY <3>2, <3>3
    <2>4. QED BY <2>2, <2>3
  <1>2. TabsSound'
    BY DEF IInv, TabsSound, TabSound, Ordered, Grows
  <1>3. Bounded'
    BY DEF IInv, Bounded, boundVars
  <1>4. QED BY <1>1, <1>2, <1>3 DEF IInv

\* One answer.
LEMMA AnswerStep ==
    ASSUME IInv, NEW c \in Calls, call[c] \in CallsOf, NEW ok \in BOOLEAN, Answers(c, ok),
           Grows, StoreSound', UNCHANGED <<tab, boundVars>>,
           call[c].op = "import" \/ (call[c].op = "scrape" /\ ok) => call[c].entries \subseteq Known',
           \/ finished'
           \/ /\ call[c].op = "welcome" => "property" \in row'.context
              /\ call[c].op \in {"ai_local", "ai_key"} /\ ok => "ai" \in row'.context
              /\ call[c].op = "complete" => "knowledge" \in row'.done
    PROVE  IInv'
  <1>1. PICK k : k = Answer(c, ok)
    OBVIOUS
  <1>2. call' = [call EXCEPT ![c] = k]
    BY <1>1 DEF Answers
  <1>3. \/ k = Free
        \/ /\ k \in CallsOf /\ k.at = "answered" /\ k.ok = ok
           /\ k.op = call[c].op /\ k.found = call[c].found /\ k.entries = call[c].entries
           /\ k.email = call[c].email /\ k.saw = call[c].saw
    BY <1>1 DEF Answer, CallsOf
  <1>4. CallSound(k)'
    <2>1. CASE k = Free
      BY <2>1 DEF CallSound
    <2>2. CASE k # Free
      <3>1. CallSound(call[c]) /\ call[c] # Free
        BY FreeIsNoCall DEF IInv, CallsSound
      <3>2. finished' \/ Vouched(k)'
        BY <1>3, <2>2, <3>1 DEF CallSound, Vouched, Earned, Ordered, Grows
      <3>3. QED BY <1>3, <2>2, <3>1, <3>2 DEF CallSound, Grows
    <2>3. QED BY <2>1, <2>2
  <1>5. QED BY <1>2, <1>3, <1>4, ServerStep

\* A call goes on to wait.
LEMMA MoveStep ==
    ASSUME IInv, NEW c \in Calls, call[c] \in CallsOf,
           NEW at \in {"admitted", "working", "hashing", "taking_over"},
           call' = [call EXCEPT ![c] = [call[c] EXCEPT !.at = at]],
           at \in {"hashing", "taking_over"} => call[c].op = "admin",
           UNCHANGED <<serverVars, tab, boundVars>>
    PROVE  IInv'
  <1>1. PICK k : k = [call[c] EXCEPT !.at = at]
    OBVIOUS
  <1>2. /\ k \in CallsOf /\ k.at = at /\ k.op = call[c].op /\ k.email = call[c].email
        /\ k.saw = call[c].saw /\ k.found = call[c].found /\ k.entries = call[c].entries
    BY <1>1 DEF CallsOf
  <1>3. CallSound(k)'
    <2>1. CallSound(call[c]) /\ call[c] # Free
      BY FreeIsNoCall DEF IInv, CallsSound
    <2>2. finished \/ Vouched(k)
      BY <1>2, <2>1 DEF CallSound, Vouched
    <2>3. CallSound(k)
      BY <1>2, <2>1, <2>2 DEF CallSound
    <2>4. QED BY <2>3 DEF CallSound, Vouched, Earned, Ordered, Known, serverVars, storeVars, historyVars
  <1>4. StoreSound' /\ Grows
    BY DEF IInv, StoreSound, Grows, Known, OneWayIn, KnowledgeComplete,
           serverVars, storeVars, accountVars, historyVars
  <1>5. QED BY <1>1, <1>2, <1>3, <1>4, ServerStep

\* The server has no part in it.
LEMMA ClientStep ==
    ASSUME IInv, UNCHANGED serverVars,
           call' \in [Calls -> CallsOf \cup {Free}], \A c \in Calls : CallSound(call'[c]),
           tab' \in [Tabs -> TabsAre], \A t \in Tabs : TabSound(tab'[t]),
           Bounded'
    PROVE  IInv'
  <1>1. StoreSound'
    BY DEF IInv, StoreSound, OneWayIn, KnowledgeComplete, serverVars, storeVars, accountVars, historyVars
  <1>2. CallsSound'
    BY DEF CallsSound, CallSound, Vouched, Earned, Ordered, Known, serverVars, storeVars, historyVars
  <1>3. TabsSound'
    BY DEF TabsSound, TabSound, Ordered, Known, serverVars, storeVars, historyVars
  <1>4. QED BY <1>1, <1>2, <1>3 DEF IInv

\* One tab and one call.
LEMMA TabAndCall ==
    ASSUME IInv, UNCHANGED serverVars, Bounded',
           NEW t \in Tabs, NEW v, tab' = [tab EXCEPT ![t] = v], TabSound(v),
           NEW c \in Calls, NEW k, call' = [call EXCEPT ![c] = k], CallSound(k)
    PROVE  IInv'
  <1>1. v \in TabsAre /\ k \in CallsOf \cup {Free}
    BY DEF TabSound, CallSound
  <1>2. /\ call' \in [Calls -> CallsOf \cup {Free}]
        /\ \A d \in Calls : call'[d] = IF d = c THEN k ELSE call[d]
    BY <1>1 DEF IInv, CallsSound
  <1>3. /\ tab' \in [Tabs -> TabsAre]
        /\ \A u \in Tabs : tab'[u] = IF u = t THEN v ELSE tab[u]
    BY <1>1 DEF IInv, TabsSound
  <1>4. \A d \in Calls : CallSound(call'[d])
    BY <1>2 DEF IInv, CallsSound
  <1>5. \A u \in Tabs : TabSound(tab'[u])
    BY <1>3 DEF IInv, TabsSound
  <1>6. QED BY <1>2, <1>3, <1>4, <1>5, ClientStep

LEMMA TabOnly ==
    ASSUME IInv, UNCHANGED <<serverVars, call, boundVars>>,
           NEW t \in Tabs, NEW v, tab' = [tab EXCEPT ![t] = v], TabSound(v)
    PROVE  IInv'
  <1>1. PICK k : k = call[1]
    OBVIOUS
  <1>2. call' = [call EXCEPT ![1] = k] /\ CallSound(k)
    BY <1>1, SomeCall DEF IInv, CallsSound
  <1>3. Bounded'
    BY DEF IInv, Bounded, boundVars
  <1>4. QED BY <1>2, <1>3, SomeCall, TabAndCall

LEMMA CallOnly ==
    ASSUME IInv, UNCHANGED <<serverVars, tab, boundVars>>,
           NEW t \in Tabs, NEW c \in Calls, NEW k, call' = [call EXCEPT ![c] = k], CallSound(k)
    PROVE  IInv'
  <1>1. PICK v : v = tab[t]
    OBVIOUS
  <1>2. tab' = [tab EXCEPT ![t] = v] /\ TabSound(v)
    BY <1>1 DEF IInv, TabsSound
  <1>3. Bounded'
    BY DEF IInv, Bounded, boundVars
  <1>4. QED BY <1>2, <1>3, TabAndCall

\* A request as a tab sends it.
LEMMA RequestIs ==
    ASSUME NEW t \in Tabs, NEW op \in Ops
    PROVE  /\ Request(t, op) \in CallsOf
           /\ Request(t, op).op = op /\ Request(t, op).at = "sent"
           /\ Request(t, op).saw = "closed"
  <1>1. "closed" \in Places /\ NoEmail \in AllEmails \cup {NoEmail} /\ {} \subseteq Required
    BY DEF Places
  <1>2. QED BY <1>1 DEF Request, CallsOf

LEMMA RequestSound ==
    ASSUME NEW k \in CallsOf, k.at = "sent", k.saw = "closed",
           k.op = "admin" => k.email \in AllEmails,
           k.op = "complete" => Required \subseteq Known,
           k.op \in {"scrape", "import"} => k.found \subseteq Known \cup k.entries,
           \/ finished
           \/ /\ k.op \in {"ai_local", "ai_key"} => "property" \in row.context
              /\ k.op \in {"scrape", "import"} => "ai" \in row.context
              /\ k.op = "admin" => "knowledge" \in row.done
    PROVE  CallSound(k)
  <1>1. finished \/ Vouched(k)
    BY DEF Vouched, Ordered
  <1>2. QED BY <1>1 DEF CallSound

\* A request that carries neither entries nor an email.
LEMMA PlainRequest ==
    ASSUME NEW t \in Tabs, NEW op \in Ops \ {"admin", "scrape", "import"},
           NEW k, k = Request(t, op),
           op = "complete" => Required \subseteq Known,
           finished \/ (op \in {"ai_local", "ai_key"} => "property" \in row.context)
    PROVE  CallSound(k)
  <1>1. op \in Ops /\ op \notin {"admin", "scrape", "import"}
    OBVIOUS
  <1>2. k \in CallsOf /\ k.op = op /\ k.at = "sent" /\ k.saw = "closed"
    BY <1>1, RequestIs
  <1>3. QED BY <1>1, <1>2, RequestSound

LEMMA TabIs ==
    ASSUME IInv, NEW t \in Tabs
    PROVE  tab[t] \in TabsAre /\ TabSound(tab[t])
  BY DEF IInv, TabsSound

\* A tab that goes to a place it may be at.
LEMMA PlaceSound ==
    ASSUME IInv, NEW t \in Tabs, NEW place \in Places, finished \/ Ordered(place),
           NEW v, v = [tab[t] EXCEPT !.at = place]
    PROVE  TabSound(v)
  <1>1. v.at = place /\ v.found = tab[t].found /\ v \in TabsAre
    BY TabIs DEF TabsAre
  <1>2. QED BY <1>1, TabIs DEF TabSound

LEMMA GoesStep ==
    ASSUME IInv, NEW t \in Tabs, NEW place \in Places, Goes(t, place),
           finished \/ Ordered(place), UNCHANGED tabLocal
    PROVE  IInv'
  <1>1. PICK v : v = [tab[t] EXCEPT !.at = place]
    OBVIOUS
  <1>2. TabSound(v)
    BY <1>1, PlaceSound
  <1>3. tab' = [tab EXCEPT ![t] = v]
    BY <1>1 DEF Goes
  <1>4. QED BY <1>2, <1>3, TabOnly DEF tabLocal

LEMMA SendsStep ==
    ASSUME IInv, NEW t \in Tabs, NEW k, CallSound(k), Sends(k),
           UNCHANGED <<serverVars, tab, boundVars>>
    PROVE  IInv'
  <1>1. PICK c \in Calls : call' = [call EXCEPT ![c] = k]
    BY DEF Sends
  <1>2. QED BY <1>1, CallOnly

LEMMA GoesAndSends ==
    ASSUME IInv, NEW t \in Tabs, NEW place \in Places, Goes(t, place),
           finished \/ Ordered(place), NEW k, CallSound(k), Sends(k),
           UNCHANGED <<serverVars, boundVars>>
    PROVE  IInv'
  <1>1. PICK v : v = [tab[t] EXCEPT !.at = place]
    OBVIOUS
  <1>2. TabSound(v) /\ tab' = [tab EXCEPT ![t] = v]
    BY <1>1, PlaceSound DEF Goes
  <1>3. PICK c \in Calls : call' = [call EXCEPT ![c] = k]
    BY DEF Sends
  <1>4. Bounded'
    BY DEF IInv, Bounded, boundVars
  <1>5. QED BY <1>2, <1>3, <1>4, TabAndCall

LEMMA SubmitsStep ==
    ASSUME IInv, NEW t \in Tabs, NEW place, NEW k, CallSound(k), Submits(t, place, k)
    PROVE  IInv'
  <1>1. "done" \in Places /\ Ordered("done")
    BY DEF Places, Ordered
  <1>2. QED BY <1>1, GoesAndSends DEF Submits

\* A call is answered in the tab that waits for it.
LEMMA ArrivalStep ==
    ASSUME IInv, NEW c \in Calls, call[c] \in CallsOf,
           NEW v, tab' = [tab EXCEPT ![call[c].of] = v], TabSound(v),
           NEW k, call' = [call EXCEPT ![c] = k], CallSound(k),
           UNCHANGED <<serverVars, boundVars>>
    PROVE  IInv'
  <1>1. Bounded'
    BY DEF IInv, Bounded, boundVars
  <1>2. PICK t \in Tabs : t = call[c].of
    BY DEF CallsOf
  <1>3. QED BY <1>1, <1>2, TabAndCall

\* A call that nobody waits for any more.
LEMMA ForgottenSound ==
    ASSUME IInv, NEW c \in Calls, call[c] \in CallsOf, NEW k, k = Forgotten(c)
    PROVE  CallSound(k)
  <1>1. CASE k = Free
    BY <1>1 DEF CallSound
  <1>2. CASE k # Free
    <2>1. k = [call[c] EXCEPT !.live = FALSE] /\ CallSound(call[c]) /\ call[c] # Free
      BY <1>2, FreeIsNoCall DEF Forgotten, IInv, CallsSound
    <2>2. /\ k \in CallsOf /\ k.op = call[c].op /\ k.at = call[c].at /\ k.ok = call[c].ok
          /\ k.found = call[c].found /\ k.email = call[c].email /\ k.saw = call[c].saw
          /\ k.entries = call[c].entries
      BY <2>1 DEF CallsOf
    <2>3. finished \/ Vouched(k)
      BY <2>1, <2>2 DEF CallSound, Vouched
    <2>4. QED BY <2>1, <2>2, <2>3 DEF CallSound
  <1>3. QED BY <1>1, <1>2

LEMMA OpensStep ==
    ASSUME IInv, NEW t \in Tabs, NEW page \in {"loading", "at_login"}, Opens(t, page),
           UNCHANGED serverVars, Bounded'
    PROVE  IInv'
  <1> DEFINE kept == [c \in Calls |-> IF Live(c) /\ call[c].of = t THEN Forgotten(c) ELSE call[c]]
  <1>1. \A c \in Calls : CallSound(kept[c])
    <2> TAKE c \in Calls
    <2>1. CASE Live(c) /\ call[c].of = t
      <3>1. PICK k : k = Forgotten(c)
        OBVIOUS
      <3>2. CallSound(k)
        BY <2>1, <3>1, ForgottenSound, TakenCall DEF Live
      <3>3. QED BY <2>1, <3>1, <3>2
    <2>2. CASE ~(Live(c) /\ call[c].of = t)
      BY <2>2 DEF IInv, CallsSound
    <2>3. QED BY <2>1, <2>2
  <1>2. kept \in [Calls -> CallsOf \cup {Free}]
    BY <1>1 DEF CallSound
  <1>3. PICK new \in Calls : call' = [kept EXCEPT ![new] = Request(t, "state")]
    BY DEF Opens
  <1>4. PICK k : k = Request(t, "state")
    OBVIOUS
  <1>5. CallSound(k)
    BY <1>4, PlainRequest DEF Ops
  <1>6. k \in CallsOf \cup {Free}
    BY <1>5 DEF CallSound
  <1>7. PICK v : v = [at |-> page, found |-> {}]
    OBVIOUS
  <1>8. TabSound(v)
    BY <1>7 DEF TabSound, TabsAre, Ordered, Places
  <1>9. tab' \in [Tabs -> TabsAre] /\ \A u \in Tabs : TabSound(tab'[u])
    <2>1. tab' = [tab EXCEPT ![t] = v]
      BY <1>7 DEF Opens
    <2>2. v \in TabsAre
      BY <1>8 DEF TabSound
    <2>3. QED BY <1>8, <2>1, <2>2 DEF IInv, TabsSound
  <1> HIDE DEF kept
  <1>10. /\ call' \in [Calls -> CallsOf \cup {Free}]
         /\ \A c \in Calls : call'[c] = IF c = new THEN k ELSE kept[c]
    BY <1>2, <1>3, <1>4, <1>6
  <1>11. \A c \in Calls : CallSound(call'[c])
    BY <1>1, <1>5, <1>10
  <1>12. QED BY <1>9, <1>10, <1>11, ClientStep

-----------------------------------------------------------------------------
(***************************************************************************)
(* The tabs.                                                               *)
(***************************************************************************)
LEMMA LoadStep ==
    ASSUME IInv, NEW t \in Tabs, Load(t)
    PROVE  IInv'
  <1>1. Bounded'
    BY SetupAssumption DEF Load, IInv, Bounded
  <1>2. Opens(t, "loading") /\ UNCHANGED serverVars
    BY DEF Load
  <1>3. QED BY <1>1, <1>2, OpensStep

LEMMA ContinueStep ==
    ASSUME IInv, NEW t \in Tabs, Continue(t)
    PROVE  IInv'
  <1>1. PICK k : k = Request(t, "start")
    OBVIOUS
  <1>2. CallSound(k)
    BY <1>1, PlainRequest DEF Ops
  <1>3. QED BY <1>1, <1>2, SendsStep DEF Continue

LEMMA SubmissionStep ==
    ASSUME IInv, NEW t \in Tabs, NEW place, NEW op \in {"welcome", "ai_local", "ai_key"},
           Submits(t, place, Request(t, op)),
           op \in {"ai_local", "ai_key"} => place \in {"ask_ai_provider", "ask_api_key"}
    PROVE  IInv'
  <1>1. PICK k : k = Request(t, op)
    OBVIOUS
  <1>2. finished \/ (op \in {"ai_local", "ai_key"} => "property" \in row.context)
    BY TabIs DEF Submits, Asked, TabSound, Ordered
  <1>3. op \in Ops \ {"admin", "scrape", "import"} /\ op # "complete"
    BY DEF Ops
  <1>4. CallSound(k)
    BY <1>1, <1>2, <1>3, PlainRequest
  <1>5. QED BY <1>1, <1>4, SubmitsStep

\* The entries a closure held are known already, those it adds travel along.
LEMMA ImportRequest ==
    ASSUME IInv, NEW t \in Tabs, NEW op \in {"scrape", "import"},
           NEW entries \in SUBSET Required, NEW k, k = Imports(t, op, entries),
           finished \/ "ai" \in row.context
    PROVE  CallSound(k)
  <1>1. op \in Ops
    BY DEF Ops
  <1>2. PICK r : r = Request(t, op)
    OBVIOUS
  <1>3. r \in CallsOf /\ r.op = op /\ r.at = "sent" /\ r.saw = "closed"
    BY <1>1, <1>2, RequestIs
  <1>4. PICK found : found = tab[t].found \cup entries
    OBVIOUS
  <1>5. found \in SUBSET Required /\ found \subseteq Known \cup entries
    BY <1>4, TabIs DEF TabsAre, TabSound
  <1>6. k = [r EXCEPT !.entries = entries, !.found = found]
    BY <1>2, <1>4 DEF Imports
  <1>7. /\ k \in CallsOf /\ k.op = op /\ k.at = "sent" /\ k.saw = "closed"
        /\ k.found = found /\ k.entries = entries
    BY <1>3, <1>5, <1>6 DEF CallsOf
  <1>8. k.op \notin {"admin", "complete", "ai_local", "ai_key"}
    BY <1>7
  <1>9. QED BY <1>5, <1>7, <1>8, RequestSound

LEMMA GiveWebsiteStep ==
    ASSUME IInv, NEW t \in Tabs, GiveWebsite(t)
    PROVE  IInv'
  <1>1. PICK read \in SUBSET Required : Sends(Imports(t, "scrape", read))
    BY DEF GiveWebsite
  <1>2. PICK k : k = Imports(t, "scrape", read)
    OBVIOUS
  <1>3. finished \/ "ai" \in row.context
    BY TabIs DEF GiveWebsite, Asked, TabSound, Ordered
  <1>4. CallSound(k)
    BY <1>2, <1>3, ImportRequest
  <1>5. "scraping" \in Places /\ (finished \/ Ordered("scraping"))
    BY <1>3 DEF Places, Ordered
  <1>6. QED BY <1>1, <1>2, <1>4, <1>5, GoesAndSends DEF GiveWebsite

LEMMA AnswerManuallyStep ==
    ASSUME IInv, NEW t \in Tabs, AnswerManually(t)
    PROVE  IInv'
  <1>1. PICK i \in DOMAIN Categories : Sends(Imports(t, "import", {Categories[i]}))
    BY DEF AnswerManually
  <1>2. PICK entries : entries = {Categories[i]}
    OBVIOUS
  <1>3. entries \in SUBSET Required
    BY <1>2 DEF Required, Range
  <1>4. PICK k : k = Imports(t, "import", entries)
    OBVIOUS
  <1>5. finished \/ "ai" \in row.context
    BY TabIs DEF AnswerManually, Asked, TabSound, Ordered
  <1>6. CallSound(k)
    BY <1>3, <1>4, <1>5, ImportRequest
  <1>7. QED BY <1>1, <1>2, <1>4, <1>6, SendsStep DEF AnswerManually

\* Everything required was found, and what was found is known.
LEMMA ChecklistContinueStep ==
    ASSUME IInv, NEW t \in Tabs, ChecklistContinue(t)
    PROVE  IInv'
  <1>1. PICK k : k = Request(t, "complete")
    OBVIOUS
  <1>2. Required \subseteq Known
    BY TabIs DEF ChecklistContinue, MissingFrom, TabSound
  <1>3. CallSound(k)
    BY <1>1, <1>2, PlainRequest DEF Ops
  <1>4. QED BY <1>1, <1>3, SubmitsStep DEF ChecklistContinue

LEMMA SubmitAdminStep ==
    ASSUME IInv, NEW t \in Tabs, SubmitAdmin(t)
    PROVE  IInv'
  <1>1. PICK e \in AllEmails :
            Submits(t, "ask_admin", [Request(t, "admin") EXCEPT !.email = e])
    BY DEF SubmitAdmin
  <1>2. PICK k : k = [Request(t, "admin") EXCEPT !.email = e]
    OBVIOUS
  <1>3. finished \/ "knowledge" \in row.done
    BY <1>1, TabIs DEF Submits, Asked, TabSound, Ordered
  <1>4. k \in CallsOf /\ k.op = "admin" /\ k.at = "sent" /\ k.saw = "closed" /\ k.email = e
    <2>1. "admin" \in Ops
      BY DEF Ops
    <2>2. PICK r : r = Request(t, "admin")
      OBVIOUS
    <2>3. r \in CallsOf /\ r.op = "admin" /\ r.at = "sent" /\ r.saw = "closed"
      BY <2>1, <2>2, RequestIs
    <2>4. k = [r EXCEPT !.email = e]
      BY <1>2, <2>2
    <2>5. QED BY <2>3, <2>4 DEF CallsOf
  <1>5. CallSound(k)
    BY <1>3, <1>4, RequestSound
  <1>6. QED BY <1>1, <1>2, <1>5, SubmitsStep

LEMMA SkipStep ==
    ASSUME IInv, NEW t \in Tabs, Skip(t)
    PROVE  IInv'
  <1>1. PICK k : k = Request(t, "skip")
    OBVIOUS
  <1>2. CallSound(k)
    BY <1>1, PlainRequest DEF Ops
  <1>3. QED BY <1>1, <1>2, SendsStep DEF Skip

LEMMA TabStep ==
    ASSUME IInv, NEW t \in Tabs, User(t) \/ LeaveForLogin(t)
    PROVE  IInv'
  <1>1. CASE GiveName(t)
    BY <1>1, GoesStep DEF GiveName, Ordered, Places
  <1>2. CASE ChooseType(t)
    BY <1>2, SubmissionStep DEF ChooseType
  <1>3. CASE ChooseLocalAI(t)
    BY <1>3, SubmissionStep DEF ChooseLocalAI
  <1>4. CASE ChooseCloudAI(t)
    <2>1. finished \/ Ordered("ask_api_key")
      BY <1>4, TabIs DEF ChooseCloudAI, Asked, TabSound, Ordered
    <2>2. QED BY <1>4, <2>1, GoesStep DEF ChooseCloudAI, Places
  <1>5. CASE GiveKey(t)
    BY <1>5, SubmissionStep DEF GiveKey
  <1>6. CASE TellManually(t)
    <2>1. finished \/ Ordered("ask_manual")
      BY <1>6, TabIs DEF TellManually, Asked, TabSound, Ordered
    <2>2. QED BY <1>6, <2>1, GoesStep DEF TellManually, Places
  <1>7. CASE TryUrl(t)
    <2>1. finished \/ Ordered("ask_website")
      BY <1>7, TabIs DEF TryUrl, Asked, TabSound, Ordered
    <2>2. QED BY <1>7, <2>1, GoesStep DEF TryUrl, Places
  <1>8. CASE LeaveForLogin(t)
    <2>1. Opens(t, "at_login") /\ UNCHANGED serverVars /\ Bounded'
      BY <1>8 DEF LeaveForLogin, IInv, Bounded, boundVars
    <2>2. QED BY <2>1, OpensStep
  <1>9. QED BY <1>1, <1>2, <1>3, <1>4, <1>5, <1>6, <1>7, <1>8, LoadStep, ContinueStep,
               GiveWebsiteStep, AnswerManuallyStep, ChecklistContinueStep, SubmitAdminStep,
               SkipStep DEF User

-----------------------------------------------------------------------------
(***************************************************************************)
(* The server.                                                             *)
(***************************************************************************)
\* A row that takes nothing back.
LEMMA RowStep ==
    ASSUME IInv, NEW r \in Rows, Saves(r), UNCHANGED <<storeVars, turnedAway>>,
           row.context \subseteq r.context, row.done \subseteq r.done,
           r.step = "create_admin" => "knowledge" \in r.done,
           r.step = "knowledge" => "ai" \in r.context,
           "knowledge" \in r.done => "knowledge" \in row.done \/ Required \subseteq Known
    PROVE  StoreSound' /\ Grows
  <1>1. row' = r /\ finished' = (finished \/ r.status = "completed")
    BY DEF Saves
  <1>2. KnowledgeComplete'
    BY <1>1 DEF IInv, StoreSound, KnowledgeComplete, Known, storeVars
  <1>3. OneWayIn' /\ (r.status = "completed" => finished') /\ finished' \in BOOLEAN
    BY <1>1 DEF IInv, StoreSound, OneWayIn, storeVars, accountVars
  <1>4. Grows
    BY <1>1 DEF Grows, Known, storeVars
  <1>5. QED BY <1>1, <1>2, <1>3, <1>4 DEF IInv, StoreSound, storeVars, accountVars

LEMMA CompletedStepIs ==
    ASSUME NEW r \in Rows, NEW step \in Steps, NEW next \in Steps \cup {"welcome", "none"}
    PROVE  /\ CompletedStep(r, step, next) \in Rows
           /\ CompletedStep(r, step, next).context = r.context
           /\ CompletedStep(r, step, next).done = r.done \cup {step}
           /\ CompletedStep(r, step, next).step = next
  BY DEF CompletedStep, Rows

LEMMA RowIs == IInv => row \in Rows
  BY DEF IInv, StoreSound

LEMMA BegunCall ==
    ASSUME IInv, NEW c \in Calls, NEW op, Begins(c, op)
    PROVE  call[c] \in CallsOf /\ call[c].op = op /\ CallSound(call[c]) /\ call[c] # Free
  <1>1. ~IsFree(c) /\ call[c].op = op
    BY DEF Begins
  <1>2. call[c] \in CallsOf
    BY <1>1, TakenCall
  <1>3. QED BY <1>1, <1>2 DEF IsFree, IInv, CallsSound

LEMMA KeepsStore ==
    ASSUME IInv, UNCHANGED serverVars
    PROVE  StoreSound' /\ Grows
  BY DEF IInv, StoreSound, OneWayIn, KnowledgeComplete, Grows, Known,
         serverVars, storeVars, accountVars, historyVars

LEMMA RefuseStep ==
    ASSUME IInv, NEW c \in Calls, Refuse(c)
    PROVE  IInv'
  <1>1. call[c] \in CallsOf
    BY TakenCall DEF Refuse
  <1>2. UNCHANGED <<serverVars, tab, boundVars>>
    BY DEF Refuse, serverVars
  <1>3. StoreSound' /\ Grows
    BY <1>2, KeepsStore
  <1>4. finished' /\ call[c].op \notin {"scrape", "import"}
    BY <1>2 DEF Refuse, GuardRefuses, IInv, StoreSound, serverVars, historyVars
  <1>5. Answers(c, FALSE) /\ FALSE \in BOOLEAN
    BY DEF Refuse
  <1>6. QED BY <1>1, <1>2, <1>3, <1>4, <1>5, AnswerStep

LEMMA AdmitStep ==
    ASSUME IInv, NEW c \in Calls, Admit(c)
    PROVE  IInv'
  <1>1. call[c] \in CallsOf
    BY TakenCall DEF Admit
  <1>2. call' = [call EXCEPT ![c] = [call[c] EXCEPT !.at = "admitted"]]
    BY DEF Admit
  <1>3. QED BY <1>1, <1>2, MoveStep DEF Admit

LEMMA TryKeyStep ==
    ASSUME IInv, NEW c \in Calls, TryKey(c)
    PROVE  IInv'
  <1>1. call[c] \in CallsOf
    BY BegunCall DEF TryKey
  <1>2. call' = [call EXCEPT ![c] = [call[c] EXCEPT !.at = "working"]]
    BY DEF TryKey
  <1>3. QED BY <1>1, <1>2, MoveStep DEF TryKey

LEMMA ReadStateStep ==
    ASSUME IInv, NEW c \in Calls, ReadState(c)
    PROVE  IInv'
  <1>1. call[c] \in CallsOf /\ call[c].op = "state" /\ CallSound(call[c]) /\ call[c] # Free
    BY BegunCall DEF ReadState
  <1>2. PICK k : k = [call[c] EXCEPT !.at = "answered", !.saw = ResumeAt(row),
                                     !.ok = row.status = "completed"]
    OBVIOUS
  <1>3. ResumeAt(row) \in Places /\ (finished \/ Ordered(ResumeAt(row)))
    BY DEF ResumeAt, Places, Ordered, IInv, StoreSound
  <1>4. k \in CallsOf /\ k.op = "state" /\ k.at = "answered" /\ k.saw = ResumeAt(row)
    <2>1. (row.status = "completed") \in BOOLEAN
      OBVIOUS
    <2>2. QED BY <1>1, <1>2, <1>3, <2>1 DEF CallsOf
  <1>5. finished \/ Vouched(k)
    BY <1>3, <1>4 DEF Vouched, Earned
  <1>6. CallSound(k)
    BY <1>4, <1>5 DEF CallSound
  <1>7. CallSound(k)'
    BY <1>6 DEF CallSound, Vouched, Earned, Ordered, Known, ReadState, serverVars, storeVars, historyVars
  <1>8. call' = [call EXCEPT ![c] = k] /\ UNCHANGED <<serverVars, tab, boundVars>>
    BY <1>2 DEF ReadState
  <1>9. StoreSound' /\ Grows
    BY <1>8, KeepsStore
  <1>10. QED BY <1>4, <1>7, <1>8, <1>9, ServerStep

\* A step of the wizard that is stored and answered at once.
LEMMA StoredStep ==
    ASSUME IInv, NEW c \in Calls, call[c] \in CallsOf,
           call[c].op \notin {"scrape", "import"}, NEW r \in Rows,
           Saves(r), Answers(c, TRUE), UNCHANGED <<storeVars, tab, turnedAway, boundVars>>,
           row.context \subseteq r.context, row.done \subseteq r.done,
           r.step = "create_admin" => "knowledge" \in r.done,
           r.step = "knowledge" => "ai" \in r.context,
           "knowledge" \in r.done => "knowledge" \in row.done \/ Required \subseteq Known,
           call[c].op = "welcome" => "property" \in r.context,
           call[c].op \in {"ai_local", "ai_key"} => "ai" \in r.context,
           call[c].op = "complete" => "knowledge" \in r.done
    PROVE  IInv'
  <1>1. StoreSound' /\ Grows
    BY RowStep
  <1>2. row' = r
    BY DEF Saves
  <1>3. TRUE \in BOOLEAN /\ UNCHANGED <<tab, boundVars>>
    OBVIOUS
  <1>4. QED BY <1>1, <1>2, <1>3, AnswerStep

LEMMA StartStep ==
    ASSUME IInv, NEW c \in Calls, Start(c)
    PROVE  IInv'
  <1>1. call[c] \in CallsOf /\ call[c].op = "start"
    BY BegunCall DEF Start
  <1>2. PICK r : r = [row EXCEPT !.status = "in_progress", !.step = "bootstrap"]
    OBVIOUS
  <1>3. r \in Rows /\ r.context = row.context /\ r.done = row.done /\ r.step = "bootstrap"
    BY <1>2, RowIs DEF Rows, Steps
  <1>4. QED BY <1>1, <1>2, <1>3, StoredStep DEF Start

LEMMA CompleteBootstrapStep ==
    ASSUME IInv, NEW c \in Calls, CompleteBootstrap(c)
    PROVE  IInv'
  <1>1. call[c] \in CallsOf /\ call[c].op = "bootstrap"
    BY BegunCall DEF CompleteBootstrap
  <1>2. PICK r : r = CompletedStep(row, "bootstrap", "welcome")
    OBVIOUS
  <1>3. /\ r \in Rows /\ r.context = row.context /\ r.step = "welcome"
        /\ r.done = row.done \cup {"bootstrap"}
    BY <1>2, RowIs, CompletedStepIs DEF Steps
  <1>4. QED BY <1>1, <1>2, <1>3, StoredStep DEF CompleteBootstrap

LEMMA SavePropertyInfoStep ==
    ASSUME IInv, NEW c \in Calls, SavePropertyInfo(c)
    PROVE  IInv'
  <1>1. call[c] \in CallsOf /\ call[c].op = "welcome"
    BY BegunCall DEF SavePropertyInfo
  <1>2. PICK p : p = [row EXCEPT !.context = @ \cup {"property"}]
    OBVIOUS
  <1>3. p \in Rows /\ p.context = row.context \cup {"property"} /\ p.done = row.done
    BY <1>2, RowIs DEF Rows
  <1>4. PICK r : r = CompletedStep(p, "property_type", "ai_provider")
    OBVIOUS
  <1>5. /\ r \in Rows /\ r.context = row.context \cup {"property"} /\ r.step = "ai_provider"
        /\ r.done = row.done \cup {"property_type"}
    BY <1>3, <1>4, CompletedStepIs DEF Steps
  <1>6. QED BY <1>1, <1>2, <1>4, <1>5, StoredStep DEF SavePropertyInfo

LEMMA AIConfiguredIs ==
    ASSUME IInv
    PROVE  /\ AIConfigured(row) \in Rows
           /\ AIConfigured(row).context = row.context \cup {"ai"}
           /\ AIConfigured(row).done = row.done \cup {"ai_provider"}
           /\ AIConfigured(row).step = "knowledge"
  <1>1. PICK p : p = [row EXCEPT !.context = @ \cup {"ai"}]
    OBVIOUS
  <1>2. p \in Rows /\ p.context = row.context \cup {"ai"} /\ p.done = row.done
    BY <1>1, RowIs DEF Rows
  <1>3. AIConfigured(row) = CompletedStep(p, "ai_provider", "knowledge")
    BY <1>1 DEF AIConfigured
  <1>4. "ai_provider" \in Steps /\ "knowledge" \in Steps
    BY DEF Steps
  <1>5. QED BY <1>2, <1>3, <1>4, CompletedStepIs

LEMMA ConfigureLocalAIStep ==
    ASSUME IInv, NEW c \in Calls, ConfigureLocalAI(c)
    PROVE  IInv'
  <1>1. call[c] \in CallsOf /\ call[c].op = "ai_local"
    BY BegunCall DEF ConfigureLocalAI
  <1>2. PICK r : r = AIConfigured(row)
    OBVIOUS
  <1>3. QED BY <1>1, <1>2, AIConfiguredIs, StoredStep DEF ConfigureLocalAI

LEMMA KeyTriedStep ==
    ASSUME IInv, NEW c \in Calls, KeyTried(c)
    PROVE  IInv'
  <1>1. call[c] \in CallsOf /\ call[c].op = "ai_key"
    BY TakenCall DEF KeyTried
  <1>2. CASE Saves(AIConfigured(row)) /\ Answers(c, TRUE)
    <2>1. PICK r : r = AIConfigured(row)
      OBVIOUS
    <2>2. QED BY <1>1, <1>2, <2>1, AIConfiguredIs, StoredStep DEF KeyTried
  <1>3. CASE Answers(c, FALSE) /\ UNCHANGED <<row, finished>>
    <2>1. UNCHANGED serverVars /\ UNCHANGED <<tab, boundVars>>
      BY <1>3 DEF KeyTried, serverVars, historyVars
    <2>2. StoreSound' /\ Grows
      BY <2>1, KeepsStore
    <2>3. FALSE \in BOOLEAN
      OBVIOUS
    <2>4. QED BY <1>1, <1>3, <2>1, <2>2, <2>3, AnswerStep
  <1>4. QED BY <1>2, <1>3 DEF KeyTried

LEMMA CompleteKnowledgeStep ==
    ASSUME IInv, NEW c \in Calls, CompleteKnowledge(c)
    PROVE  IInv'
  <1>1. /\ call[c] \in CallsOf /\ call[c].op = "complete" /\ CallSound(call[c])
        /\ call[c] # Free
    BY BegunCall DEF CompleteKnowledge
  <1>2. Required \subseteq Known
    BY <1>1 DEF CallSound
  <1>3. PICK r : r = CompletedStep(row, "knowledge", "create_admin")
    OBVIOUS
  <1>4. /\ r \in Rows /\ r.context = row.context /\ r.step = "create_admin"
        /\ r.done = row.done \cup {"knowledge"}
    BY <1>3, RowIs, CompletedStepIs DEF Steps
  <1>5. QED BY <1>1, <1>2, <1>3, <1>4, StoredStep DEF CompleteKnowledge

LEMMA SkipSetupStep ==
    ASSUME IInv, NEW c \in Calls, SkipSetup(c)
    PROVE  IInv'
  <1>1. call[c] \in CallsOf /\ call[c].op = "skip"
    BY BegunCall DEF SkipSetup
  <1>2. PICK r : r = [row EXCEPT !.status = "completed", !.step = "none"]
    OBVIOUS
  <1>3. r \in Rows /\ r.context = row.context /\ r.done = row.done /\ r.step = "none"
    BY <1>2, RowIs DEF Rows
  <1>4. QED BY <1>1, <1>2, <1>3, StoredStep DEF SkipSetup

LEMMA CheckEmailStep ==
    ASSUME IInv, NEW c \in Calls, CheckEmail(c)
    PROVE  IInv'
  <1>1. call[c] \in CallsOf /\ call[c].op = "admin"
    BY BegunCall DEF CheckEmail
  <1>2. CASE "created" \in Holders(call[c].email)
    <2>1. Answers(c, FALSE) /\ UNCHANGED serverVars /\ UNCHANGED <<tab, boundVars>>
      BY <1>2 DEF CheckEmail
    <2>2. StoreSound' /\ Grows
      BY <2>1, KeepsStore
    <2>3. FALSE \in BOOLEAN
      OBVIOUS
    <2>4. QED BY <1>1, <2>1, <2>2, <2>3, AnswerStep
  <1>3. CASE "created" \notin Holders(call[c].email)
    <2>1. PICK at \in {"hashing", "taking_over"} :
              call' = [call EXCEPT ![c] = [call[c] EXCEPT !.at = at]]
      BY <1>3 DEF CheckEmail
    <2>2. UNCHANGED <<serverVars, tab, boundVars>>
      BY DEF CheckEmail
    <2>3. QED BY <1>1, <2>1, <2>2, MoveStep
  <1>4. QED BY <1>2, <1>3

LEMMA InsertAdminStep ==
    ASSUME IInv, NEW c \in Calls, InsertAdmin(c)
    PROVE  IInv'
  <1>1. /\ call[c] \in CallsOf /\ CallSound(call[c]) /\ call[c] # Free
    BY TakenCall DEF InsertAdmin, IInv, CallsSound, IsFree
  <1>2. call[c].op = "admin" /\ call[c].email \in AllEmails
    BY <1>1 DEF CallSound, InsertAdmin
  <1>3. CASE Takes(c)
    <2>1. PICK r : r = CompletedStep(row, "create_admin", "none")
      OBVIOUS
    <2>2. /\ r \in Rows /\ r.context = row.context /\ r.step = "none"
          /\ r.done = row.done \cup {"create_admin"}
      BY <2>1, RowIs, CompletedStepIs DEF Steps
    <2>3. /\ row' = r /\ finished' = (finished \/ r.status = "completed")
          /\ UNCHANGED <<knowledge, turnedAway, tab, boundVars>>
      BY <1>3, <2>1 DEF InsertAdmin, Saves
    <2>4. admins' = admins \cup {call[c].email} /\ admins' \subseteq AllEmails
      BY <1>2, <1>3 DEF InsertAdmin, IInv, StoreSound
    <2>5. /\ defaultAdmin' \in [email : {DefaultEmail, NoEmail}, active : BOOLEAN]
          /\ defaultAdmin'.active = FALSE
      BY <1>3 DEF InsertAdmin, Freed, IInv, StoreSound
    <2>6. OneWayIn'
      BY <2>4, <2>5 DEF OneWayIn
    <2>7. KnowledgeComplete'
      BY <2>2, <2>3 DEF IInv, StoreSound, KnowledgeComplete
    <2>8. StoreSound'
      BY <2>2, <2>3, <2>4, <2>5, <2>6, <2>7 DEF IInv, StoreSound
    <2>9. Grows
      BY <2>2, <2>3 DEF Grows, Known
    <2>10. Answers(c, TRUE) /\ TRUE \in BOOLEAN
      BY <1>3 DEF InsertAdmin
    <2>11. QED BY <1>1, <1>2, <2>3, <2>8, <2>9, <2>10, AnswerStep
  <1>4. CASE ~Takes(c)
    <2>1. /\ Answers(c, FALSE) /\ FALSE \in BOOLEAN
          /\ UNCHANGED serverVars /\ UNCHANGED <<tab, boundVars>>
      BY <1>4 DEF InsertAdmin, serverVars, storeVars, historyVars
    <2>2. StoreSound' /\ Grows
      BY <2>1, KeepsStore
    <2>3. QED BY <1>1, <1>2, <2>1, <2>2, AnswerStep
  <1>5. QED BY <1>3, <1>4

LEMMA ImportStep ==
    ASSUME IInv, NEW c \in Calls, Import(c)
    PROVE  IInv'
  <1>1. call[c] \in CallsOf /\ call[c].op \in {"import", "scrape"}
    BY BegunCall DEF Import
  <1>2. call[c].entries \subseteq Required /\ UNCHANGED <<row, accountVars, finished, tab, boundVars>>
    BY <1>1 DEF CallsOf, Import
  <1>3. /\ knowledge' \subseteq Required /\ turnedAway' \subseteq Required
        /\ Known' = Known \cup call[c].entries
    <2>1. PICK stored \in SUBSET call[c].entries :
             /\ knowledge' = knowledge \cup stored
             /\ turnedAway' = turnedAway \cup (call[c].entries \ stored)
      BY DEF Import
    <2>2. QED BY <1>2, <2>1 DEF Known, IInv, StoreSound
  <1>4. StoreSound' /\ Grows
    BY <1>2, <1>3 DEF IInv, StoreSound, Grows, Known, OneWayIn, KnowledgeComplete, accountVars
  <1>5. Answers(c, TRUE) /\ TRUE \in BOOLEAN /\ call[c].entries \subseteq Known'
    BY <1>3 DEF Import
  <1>6. QED BY <1>1, <1>2, <1>4, <1>5, AnswerStep

LEMMA ScrapeFailsStep ==
    ASSUME IInv, NEW c \in Calls, ScrapeFails(c)
    PROVE  IInv'
  <1>1. call[c] \in CallsOf /\ call[c].op = "scrape"
    BY BegunCall DEF ScrapeFails
  <1>2. /\ Answers(c, FALSE) /\ FALSE \in BOOLEAN
        /\ UNCHANGED serverVars /\ UNCHANGED <<tab, boundVars>>
    BY DEF ScrapeFails, serverVars
  <1>3. StoreSound' /\ Grows
    BY <1>2, KeepsStore
  <1>4. QED BY <1>1, <1>2, <1>3, AnswerStep

-----------------------------------------------------------------------------
(***************************************************************************)
(* The answers.                                                            *)
(***************************************************************************)
LEMMA AnsweredCall ==
    ASSUME IInv, NEW c \in Calls, NEW op, AnsweredBy(c, op)
    PROVE  /\ call[c] \in CallsOf /\ call[c].op = op /\ call[c].of \in Tabs
           /\ CallSound(call[c]) /\ call[c] # Free
           /\ finished \/ (Vouched(call[c]) /\ Earned(op, call[c].ok))
  <1>1. ~IsFree(c) /\ call[c].op = op /\ call[c].at = "answered"
    BY DEF AnsweredBy, Live
  <1>2. call[c] \in CallsOf /\ call[c] # Free /\ CallSound(call[c])
    BY <1>1, TakenCall DEF IsFree, IInv, CallsSound
  <1>3. finished \/ (Vouched(call[c]) /\ Earned(op, call[c].ok))
    BY <1>1, <1>2 DEF CallSound, Vouched
  <1>4. QED BY <1>1, <1>2, <1>3 DEF CallsOf

LEMMA FreeSound == CallSound(Free)
  BY DEF CallSound

\* The answer takes its tab to a place it may be at.
LEMMA DoneStep ==
    ASSUME IInv, NEW c \in Calls, call[c] \in CallsOf,
           NEW place \in Places, Goes(call[c].of, place), finished \/ Ordered(place),
           Done(c), UNCHANGED <<serverVars, boundVars>>
    PROVE  IInv'
  <1>1. PICK t \in Tabs : t = call[c].of
    BY DEF CallsOf
  <1>2. PICK v : v = [tab[t] EXCEPT !.at = place]
    OBVIOUS
  <1>3. TabSound(v)
    BY <1>2, PlaceSound
  <1>4. tab' = [tab EXCEPT ![t] = v]
    BY <1>1, <1>2 DEF Goes
  <1>5. PICK k : k = Free
    OBVIOUS
  <1>6. call' = [call EXCEPT ![c] = k] /\ CallSound(k)
    BY <1>5, FreeSound DEF Done
  <1>7. Bounded'
    BY DEF IInv, Bounded, boundVars
  <1>8. QED BY <1>3, <1>4, <1>6, <1>7, TabAndCall

LEMMA StateArrivesStep ==
    ASSUME IInv, NEW c \in Calls, StateArrives(c)
    PROVE  IInv'
  <1>1. /\ call[c] \in CallsOf /\ call[c].of \in Tabs /\ CallSound(call[c])
        /\ call[c].saw \in Places /\ (finished \/ Vouched(call[c]))
    BY AnsweredCall DEF StateArrives, CallsOf
  <1>2. PICK place : place = StatePlace(c)
    OBVIOUS
  <1>3. place \in Places /\ (finished \/ Ordered(place))
    BY <1>1, <1>2 DEF StatePlace, Places, Vouched, Ordered
  <1>4. Goes(call[c].of, place) /\ UNCHANGED <<serverVars, boundVars>>
    BY <1>2 DEF StateArrives
  <1>5. CASE place \in {"loading", "at_login"}
    <2>1. PICK t \in Tabs : t = call[c].of
      BY <1>1
    <2>2. PICK v : v = [tab[t] EXCEPT !.at = place]
      OBVIOUS
    <2>3. TabSound(v)
      BY <1>3, <2>2, PlaceSound
    <2>4. tab' = [tab EXCEPT ![t] = v]
      BY <1>4, <2>1, <2>2 DEF Goes
    <2>5. PICK k : k = Request(t, "state")
      OBVIOUS
    <2>6. CallSound(k)
      BY <2>5, PlainRequest DEF Ops
    <2>7. call' = [call EXCEPT ![c] = k]
      BY <1>2, <1>5, <2>1, <2>5 DEF StateArrives, ThenSends
    <2>8. Bounded'
      BY <1>4 DEF IInv, Bounded, boundVars
    <2>9. QED BY <1>4, <2>3, <2>4, <2>6, <2>7, <2>8, TabAndCall
  <1>6. CASE place \notin {"loading", "at_login"}
    <2>1. Done(c)
      BY <1>2, <1>6 DEF StateArrives
    <2>2. QED BY <1>1, <1>3, <1>4, <2>1, DoneStep
  <1>7. QED BY <1>5, <1>6

LEMMA StartArrivesStep ==
    ASSUME IInv, NEW c \in Calls, StartArrives(c)
    PROVE  IInv'
  <1>1. PICK t \in Tabs : t = call[c].of
    BY AnsweredCall DEF StartArrives
  <1>2. PICK k : k = Request(t, "bootstrap")
    OBVIOUS
  <1>3. CallSound(k)
    BY <1>2, PlainRequest DEF Ops
  <1>4. call' = [call EXCEPT ![c] = k] /\ UNCHANGED <<serverVars, tab, boundVars>>
    BY <1>1, <1>2 DEF StartArrives, ThenSends
  <1>5. QED BY <1>3, <1>4, CallOnly

LEMMA SkipArrivesStep ==
    ASSUME IInv, NEW c \in Calls, SkipArrives(c)
    PROVE  IInv'
  <1>1. call[c].of \in Tabs
    BY AnsweredCall DEF SkipArrives
  <1>2. Opens(call[c].of, "at_login") /\ UNCHANGED serverVars /\ Bounded'
    BY DEF SkipArrives, IInv, Bounded, boundVars
  <1>3. PICK t \in Tabs : t = call[c].of
    BY <1>1
  <1>4. Opens(t, "at_login")
    BY <1>2, <1>3
  <1>5. QED BY <1>2, <1>4, OpensStep

LEMMA StepArrivesStep ==
    ASSUME IInv, NEW c \in Calls, StepArrives(c)
    PROVE  IInv'
  <1>1. Done(c) /\ UNCHANGED <<serverVars, boundVars>>
    BY DEF StepArrives
  <1>2. CASE AnsweredBy(c, "bootstrap") /\ Goes(call[c].of, "ask_name")
    <2>1. "ask_name" \in Places /\ Ordered("ask_name")
      BY DEF Places, Ordered
    <2>2. QED BY <1>1, <1>2, <2>1, AnsweredCall, DoneStep
  <1>3. CASE AnsweredBy(c, "welcome") /\ Goes(call[c].of, "ask_ai_provider")
    <2>1. "ask_ai_provider" \in Places /\ (finished \/ Ordered("ask_ai_provider"))
      BY <1>3, AnsweredCall DEF Places, Ordered, Earned
    <2>2. QED BY <1>1, <1>3, <2>1, AnsweredCall, DoneStep
  <1>4. CASE AnsweredBy(c, "complete") /\ Goes(call[c].of, "ask_admin")
    <2>1. "ask_admin" \in Places /\ (finished \/ Ordered("ask_admin"))
      BY <1>4, AnsweredCall DEF Places, Ordered, Earned
    <2>2. QED BY <1>1, <1>4, <2>1, AnsweredCall, DoneStep
  <1>5. QED BY <1>2, <1>3, <1>4 DEF StepArrives

LEMMA OutcomeArrivesStep ==
    ASSUME IInv, NEW c \in Calls, OutcomeArrives(c)
    PROVE  IInv'
  <1>1. PICK op \in {"ai_local", "ai_key", "admin"} : AnsweredBy(c, op)
    BY DEF OutcomeArrives
  <1>2. call[c] \in CallsOf /\ call[c].op = op
    BY <1>1, AnsweredCall
  <1>3. finished \/ (Vouched(call[c]) /\ Earned(op, call[c].ok))
    BY <1>1, AnsweredCall
  <1>4. PICK place \in Places : Goes(call[c].of, place) /\ (finished \/ Ordered(place))
    <2>1. CASE op = "ai_local"
      <3>1. Goes(call[c].of, IF call[c].ok THEN "ask_website" ELSE "done")
        BY <1>2, <2>1 DEF OutcomeArrives, AnsweredBy
      <3>2. QED BY <1>3, <2>1, <3>1 DEF Places, Ordered, Earned
    <2>2. CASE op = "ai_key"
      <3>1. Goes(call[c].of, IF call[c].ok THEN "ask_website" ELSE "ask_api_key")
        BY <1>2, <2>2 DEF OutcomeArrives, AnsweredBy
      <3>2. QED BY <1>2, <1>3, <2>2, <3>1 DEF Places, Ordered, Earned, Vouched
    <2>3. CASE op = "admin"
      <3>1. Goes(call[c].of, IF call[c].ok THEN "complete" ELSE "ask_admin")
        BY <1>2, <2>3 DEF OutcomeArrives, AnsweredBy
      <3>2. QED BY <1>2, <1>3, <2>3, <3>1 DEF Places, Ordered, Vouched
    <2>4. QED BY <2>1, <2>2, <2>3
  <1>5. QED BY <1>2, <1>4, DoneStep DEF OutcomeArrives

LEMMA ScrapeArrivesStep ==
    ASSUME IInv, NEW c \in Calls, ScrapeArrives(c)
    PROVE  IInv'
  <1>1. /\ call[c] \in CallsOf /\ CallSound(call[c]) /\ call[c] # Free
        /\ call[c].op = "scrape" /\ (finished \/ Vouched(call[c])) /\ call[c].at = "answered"
    BY AnsweredCall DEF ScrapeArrives, AnsweredBy
  <1>2. PICK t \in Tabs : t = call[c].of
    BY <1>1 DEF CallsOf
  <1>3. finished \/ (Ordered("show_checklist") /\ Ordered("ask_website"))
    <2>1. finished \/ "ai" \in row.context
      BY <1>1 DEF Vouched
    <2>2. QED BY <2>1 DEF Ordered
  <1>4. PICK v : v = IF call[c].ok
                     THEN [at |-> "show_checklist", found |-> call[c].found]
                     ELSE [tab[t] EXCEPT !.at = "ask_website"]
    OBVIOUS
  <1>5. TabSound(v)
    <2>1. CASE call[c].ok
      <3>1. call[c].found \subseteq Known /\ call[c].found \subseteq Required
        BY <1>1, <2>1 DEF CallSound, CallsOf
      <3>2. v = [at |-> "show_checklist", found |-> call[c].found]
        BY <1>4, <2>1
      <3>3. QED BY <1>3, <3>1, <3>2 DEF TabSound, TabsAre, Places
    <2>2. CASE ~call[c].ok
      <3>1. v = [tab[t] EXCEPT !.at = "ask_website"]
        BY <1>4, <2>2
      <3>2. "ask_website" \in Places
        BY DEF Places
      <3>3. QED BY <1>3, <3>1, <3>2, PlaceSound
    <2>3. QED BY <2>1, <2>2
  <1>6. tab' = [tab EXCEPT ![t] = v]
    BY <1>2, <1>4 DEF ScrapeArrives
  <1>7. PICK k : k = Free
    OBVIOUS
  <1>8. call' = [call EXCEPT ![c] = k] /\ CallSound(k)
    BY <1>7, FreeSound DEF ScrapeArrives, Done
  <1>9. UNCHANGED serverVars /\ Bounded'
    BY DEF ScrapeArrives, IInv, Bounded, boundVars
  <1>10. QED BY <1>5, <1>6, <1>8, <1>9, TabAndCall

LEMMA ImportArrivesStep ==
    ASSUME IInv, NEW c \in Calls, ImportArrives(c)
    PROVE  IInv'
  <1>1. /\ call[c] \in CallsOf /\ CallSound(call[c]) /\ call[c] # Free
        /\ call[c].op = "import" /\ (finished \/ Vouched(call[c])) /\ call[c].at = "answered"
    BY AnsweredCall DEF ImportArrives, AnsweredBy
  <1>2. PICK t \in Tabs : t = call[c].of
    BY <1>1 DEF CallsOf
  <1>3. PICK place \in {"show_checklist", "ask_manual"} :
            place = IF MissingFrom(call[c].found) = {} THEN "show_checklist" ELSE "ask_manual"
    OBVIOUS
  <1>4. PICK v : v = [at |-> place, found |-> call[c].found]
    OBVIOUS
  <1>5. TabSound(v)
    <2>1. call[c].found \subseteq Known /\ call[c].found \subseteq Required
      BY <1>1 DEF CallSound, CallsOf
    <2>2. place \in Places /\ (finished \/ Ordered(place))
      BY <1>1, <1>3 DEF Places, Vouched, Ordered
    <2>3. QED BY <1>4, <2>1, <2>2 DEF TabSound, TabsAre
  <1>6. tab' = [tab EXCEPT ![t] = v]
    BY <1>2, <1>3, <1>4 DEF ImportArrives
  <1>7. PICK k : k = Free
    OBVIOUS
  <1>8. call' = [call EXCEPT ![c] = k] /\ CallSound(k)
    BY <1>7, FreeSound DEF ImportArrives, Done
  <1>9. UNCHANGED serverVars /\ Bounded'
    BY DEF ImportArrives, IInv, Bounded, boundVars
  <1>10. QED BY <1>5, <1>6, <1>8, <1>9, TabAndCall

LEMMA BreakStep ==
    ASSUME IInv, NEW c \in Calls, Break(c)
    PROVE  IInv'
  <1>1. call[c] \in CallsOf /\ CallSound(call[c]) /\ call[c] # Free
    BY TakenCall DEF Break, Live, IsFree, IInv, CallsSound
  <1>2. PICK t \in Tabs : t = call[c].of
    BY <1>1 DEF CallsOf
  <1>3. PICK place : place = AfterBreak(c)
    OBVIOUS
  <1>4. place \in Places /\ (finished \/ Ordered(place))
    <2>1. finished \/ Vouched(call[c])
      BY <1>1 DEF CallSound
    <2>2. tab[t].at \in Places /\ (finished \/ Ordered(tab[t].at))
      BY TabIs DEF TabsAre, TabSound
    <2>3. QED BY <1>2, <1>3, <2>1, <2>2 DEF AfterBreak, Places, Ordered, Vouched
  <1>5. PICK v : v = [tab[t] EXCEPT !.at = place]
    OBVIOUS
  <1>6. TabSound(v)
    BY <1>4, <1>5, PlaceSound
  <1>7. tab' = [tab EXCEPT ![t] = v]
    BY <1>2, <1>3, <1>5 DEF Break, Goes
  <1>8. PICK k : call' = [call EXCEPT ![c] = k] /\ (k = Free \/ k = Forgotten(c))
    BY DEF Break
  <1>9. CallSound(k)
    BY <1>1, <1>8, FreeSound, ForgottenSound
  <1>10. Bounded' /\ UNCHANGED serverVars
    BY SetupAssumption DEF Break, IInv, Bounded
  <1>11. QED BY <1>6, <1>7, <1>8, <1>9, <1>10, TabAndCall

-----------------------------------------------------------------------------
LEMMA Initially == Init => IInv
  <1> SUFFICES ASSUME Init PROVE IInv
    OBVIOUS
  <1>1. StoreSound
    BY DEF Init, StoreSound, NoRow, Rows, OneWayIn, KnowledgeComplete
  <1>2. CallsSound
    BY DEF Init, CallsSound, CallSound
  <1>3. TabsSound
    BY DEF Init, TabsSound, TabSound, TabsAre, Places, Ordered
  <1>4. Bounded
    BY SetupAssumption DEF Init, Bounded
  <1>5. QED BY <1>1, <1>2, <1>3, <1>4 DEF IInv

LEMMA NextStep ==
    ASSUME IInv, Next
    PROVE  IInv'
  <1>1. CASE \E t \in Tabs : User(t) \/ LeaveForLogin(t)
    BY <1>1, TabStep
  <1>2. ASSUME NEW c \in Calls, Server(c)
        PROVE  IInv'
    BY <1>2, RefuseStep, AdmitStep, ReadStateStep, StartStep, CompleteBootstrapStep,
       SavePropertyInfoStep, ConfigureLocalAIStep, TryKeyStep, KeyTriedStep,
       CompleteKnowledgeStep, SkipSetupStep, CheckEmailStep, InsertAdminStep, ImportStep,
       ScrapeFailsStep DEF Server
  <1>3. ASSUME NEW c \in Calls, Arrives(c)
        PROVE  IInv'
    BY <1>3, StateArrivesStep, StartArrivesStep, SkipArrivesStep, StepArrivesStep,
       OutcomeArrivesStep, ScrapeArrivesStep, ImportArrivesStep DEF Arrives
  <1>4. QED BY <1>1, <1>2, <1>3, BreakStep DEF Next

LEMMA StutterStep ==
    ASSUME IInv, UNCHANGED vars
    PROVE  IInv'
  <1>1. UNCHANGED serverVars /\ UNCHANGED <<call, tab, loads, breaks>>
    BY DEF vars, serverVars, storeVars, historyVars, boundVars
  <1>2. Bounded'
    BY <1>1 DEF IInv, Bounded
  <1>3. QED BY <1>1, <1>2, ClientStep DEF IInv, CallsSound, TabsSound

LEMMA Inductive == Spec => []IInv
  <1>1. IInv /\ [Next]_vars => IInv'
    BY NextStep, StutterStep
  <1>2. QED BY Initially, <1>1, PTL DEF Spec

-----------------------------------------------------------------------------
\* The row, the accounts, the tabs and the calls keep their types.
THEOREM SetupTypeCorrect == Spec => []TypeOK
  <1>1. IInv => TypeOK
    BY DEF IInv, StoreSound, CallsSound, TabsSound, TabsAre, Bounded, TypeOK
  <1>2. QED BY Inductive, <1>1, PTL

\* The seeded administrator can log in until the wizard has created one, and
\* not afterwards: both change in one transaction, which a taken email undoes.
THEOREM AlwaysOneWayIn == Spec => []OneWayIn
  <1>1. IInv => OneWayIn
    BY DEF IInv, StoreSound
  <1>2. QED BY Inductive, <1>1, PTL

\* A question is asked only when the server has what the earlier ones were
\* for: every answer a tab acts on without looking was given by a step that
\* stored it, or by the guard of a finished setup.
THEOREM QuestionsInOrder == Spec => []AskedInOrder
  <1>1. IInv => AskedInOrder
    BY DEF IInv, TabsSound, TabSound, AskedInOrder, InOrder, Ordered
  <1>2. QED BY Inductive, <1>1, PTL

\* What a tab holds for found has a findable entry, or reached the server and
\* was turned away there: nothing that was not read, was lost on its way, or
\* failed with the whole scrape completes a checklist.
THEOREM KnowledgeIsComplete == Spec => []KnowledgeComplete
  <1>1. IInv => KnowledgeComplete
    BY DEF IInv, StoreSound
  <1>2. QED BY Inductive, <1>1, PTL

\* Nothing but a request that had passed the guard opens a completed setup.
THEOREM ReopenedOnlyByAdmitted == Spec => OnlyAdmittedReopens
  <1>1. ASSUME IInv, Next, row.status = "completed", row'.status # "completed"
        PROVE  \E c \in Calls : Admitted(c)
    <2>1. CASE \E t \in Tabs : User(t) \/ LeaveForLogin(t)
      BY <1>1, <2>1 DEF User, Load, Continue, GiveName, ChooseType, ChooseLocalAI, ChooseCloudAI,
                  GiveKey, GiveWebsite, TellManually, TryUrl, AnswerManually,
                  ChecklistContinue, SubmitAdmin, Skip, LeaveForLogin, Submits, tabLocal,
                  serverVars
    <2>2. ASSUME NEW c \in Calls, Server(c)
          PROVE  Admitted(c)
      <3>1. CASE Refuse(c) \/ Admit(c) \/ ReadState(c) \/ TryKey(c) \/ CheckEmail(c)
                 \/ Import(c) \/ ScrapeFails(c)
        BY <1>1, <3>1 DEF Refuse, Admit, ReadState, TryKey, CheckEmail, Import, ScrapeFails,
                          serverVars
      <3>2. CASE Start(c) \/ CompleteBootstrap(c) \/ CompleteKnowledge(c)
        BY <1>1, <3>2 DEF Start, CompleteBootstrap, CompleteKnowledge, Begins, GuardRefuses, WithBody
      <3>3. CASE SkipSetup(c) \/ InsertAdmin(c)
        BY <1>1, <3>3, RowIs DEF SkipSetup, InsertAdmin, Saves, CompletedStep, Rows
      <3>4. CASE SavePropertyInfo(c) \/ ConfigureLocalAI(c) \/ KeyTried(c)
        BY <3>4 DEF SavePropertyInfo, ConfigureLocalAI, KeyTried, Begins, WithBody, Admitted
      <3>5. QED BY <2>2, <3>1, <3>2, <3>3, <3>4 DEF Server
    <2>3. ASSUME NEW c \in Calls, Arrives(c) \/ Break(c)
          PROVE  FALSE
      BY <1>1, <2>3 DEF Arrives, StateArrives, StartArrives, SkipArrives, StepArrives,
                        OutcomeArrives, ScrapeArrives, ImportArrives, Break, serverVars
    <2>4. QED BY <1>1, <2>1, <2>2, <2>3 DEF Next
  <1>2. IInv /\ [Next]_vars => [row.status = "completed" /\ row'.status # "completed"
                           => \E c \in Calls : Admitted(c)]_vars
    BY <1>1
  <1>3. QED BY Inductive, <1>2, PTL DEF Spec, OnlyAdmittedReopens

-----------------------------------------------------------------------------
(***************************************************************************)
(* The end of the setup.  A tab is taken there only by the answer to its   *)
(* own request for an administrator; no page that loads goes there.        *)
(***************************************************************************)
Crowned == admins # {} /\ finished

Credited(k) ==
    k # Free => /\ k.saw # "complete"
                /\ k.op = "admin" /\ k.at = "answered" /\ k.ok => Crowned

EndsWell ==
    /\ \A t \in Tabs : tab[t].at = "complete" => Crowned
    /\ \A c \in Calls : Credited(call[c])

\* Where a step leaves the tabs.
TabsStay == \A t \in Tabs : tab'[t].at = "complete" => tab[t].at = "complete" \/ Crowned'

LEMMA CrownStays ==
    ASSUME IInv, [Next]_vars
    PROVE  Crowned => Crowned'
  <1>1. CASE UNCHANGED <<admins, finished>>
    BY <1>1 DEF Crowned
  <1>2. ASSUME NEW c \in Calls, Server(c) PROVE Crowned => Crowned'
    <2>1. ASSUME NEW r, Saves(r), UNCHANGED storeVars PROVE Crowned => Crowned'
      BY <2>1 DEF Saves, Crowned, storeVars, accountVars
    <2>2. CASE InsertAdmin(c)
      BY <2>2 DEF InsertAdmin, Saves, Crowned, accountVars
    <2>3. CASE \/ Start(c) \/ CompleteBootstrap(c) \/ SavePropertyInfo(c)
               \/ ConfigureLocalAI(c) \/ CompleteKnowledge(c) \/ SkipSetup(c)
      BY <2>1, <2>3 DEF Start, CompleteBootstrap, SavePropertyInfo, ConfigureLocalAI,
                        CompleteKnowledge, SkipSetup
    <2>4. CASE KeyTried(c)
      BY <1>1, <2>1, <2>4 DEF KeyTried, storeVars, accountVars
    <2>5. CASE \/ Refuse(c) \/ Admit(c) \/ ReadState(c) \/ TryKey(c) \/ CheckEmail(c)
               \/ Import(c) \/ ScrapeFails(c)
      BY <1>1, <2>5 DEF Refuse, Admit, ReadState, TryKey, CheckEmail, Import, ScrapeFails,
                        serverVars, storeVars, accountVars, historyVars
    <2>6. QED BY <1>2, <2>2, <2>3, <2>4, <2>5 DEF Server
  <1>3. ASSUME NEW c \in Calls, Arrives(c) \/ Break(c) PROVE Crowned => Crowned'
    BY <1>1, <1>3 DEF Arrives, StateArrives, StartArrives, SkipArrives, StepArrives, OutcomeArrives,
       ScrapeArrives, ImportArrives, Break, serverVars, storeVars, accountVars, historyVars
  <1>4. ASSUME NEW t \in Tabs, User(t) \/ LeaveForLogin(t) PROVE Crowned => Crowned'
    BY <1>1, <1>4 DEF User, Load, Continue, GiveName, ChooseType, ChooseLocalAI, ChooseCloudAI,
       GiveKey, GiveWebsite, TellManually, TryUrl, AnswerManually, ChecklistContinue, SubmitAdmin,
       Skip, LeaveForLogin, Submits, tabLocal, serverVars, storeVars, accountVars, historyVars
  <1>5. CASE UNCHANGED vars
    BY <1>1, <1>5 DEF vars, storeVars, accountVars, historyVars
  <1>6. QED BY <1>2, <1>3, <1>4, <1>5 DEF Next

\* One call changes.
LEMMA CreditStep ==
    ASSUME IInv, EndsWell, Crowned => Crowned', TabsStay,
           NEW c \in Calls, NEW k, call' = [call EXCEPT ![c] = k], Credited(k)'
    PROVE  EndsWell'
  <1>1. \A t \in Tabs : tab'[t].at = "complete" => Crowned'
    BY DEF EndsWell, TabsStay
  <1>2. ASSUME NEW d \in Calls PROVE Credited(call[d])'
    <2>1. CASE d = c
      BY <2>1 DEF IInv, CallsSound
    <2>2. CASE d # c
      <3>1. call'[d] = call[d] /\ Credited(call[d])
        BY <2>2 DEF IInv, CallsSound, EndsWell
      <3>2. QED BY <3>1 DEF Credited
    <2>3. QED BY <2>1, <2>2
  <1>3. QED BY <1>1, <1>2 DEF EndsWell

LEMMA NoCallChanges ==
    ASSUME EndsWell, Crowned => Crowned', TabsStay, UNCHANGED call
    PROVE  EndsWell'
  BY DEF EndsWell, TabsStay, Credited

\* A call the server answers.
LEMMA AnswerCredited ==
    ASSUME IInv, EndsWell, Crowned => Crowned', UNCHANGED tab,
           NEW c \in Calls, call[c] \in CallsOf, NEW ok \in BOOLEAN, Answers(c, ok),
           call[c].op = "admin" /\ ok => Crowned'
    PROVE  EndsWell'
  <1>1. PICK k : k = Answer(c, ok)
    OBVIOUS
  <1>2. k = Free \/ (k.saw = call[c].saw /\ k.op = call[c].op /\ k.ok = ok)
    BY <1>1 DEF Answer, CallsOf
  <1>3. Credited(k)'
    BY <1>2, FreeIsNoCall DEF Credited, EndsWell
  <1>4. call' = [call EXCEPT ![c] = k] /\ TabsStay
    BY <1>1 DEF Answers, TabsStay
  <1>5. QED BY <1>3, <1>4, CreditStep

\* A call that goes on to wait.
LEMMA MoveCredited ==
    ASSUME IInv, EndsWell, Crowned => Crowned', UNCHANGED tab,
           NEW c \in Calls, call[c] \in CallsOf,
           NEW at \in {"admitted", "working", "hashing", "taking_over"},
           call' = [call EXCEPT ![c] = [call[c] EXCEPT !.at = at]]
    PROVE  EndsWell'
  <1>1. PICK k : k = [call[c] EXCEPT !.at = at]
    OBVIOUS
  <1>2. k.saw = call[c].saw /\ k.at = at
    BY <1>1 DEF CallsOf
  <1>3. Credited(k)'
    BY <1>2, FreeIsNoCall DEF Credited, EndsWell
  <1>4. call' = [call EXCEPT ![c] = k] /\ TabsStay
    BY <1>1 DEF TabsStay
  <1>5. QED BY <1>3, <1>4, CreditStep

LEMMA ServerEndsWell ==
    ASSUME IInv, EndsWell, Crowned => Crowned', NEW c \in Calls, Server(c)
    PROVE  EndsWell'
  <1>1. call[c] \in CallsOf
    BY TakenCall, BegunCall
       DEF Server, Refuse, Admit, ReadState, Start, CompleteBootstrap, SavePropertyInfo,
           ConfigureLocalAI, TryKey, KeyTried, CompleteKnowledge, SkipSetup, CheckEmail,
           InsertAdmin, Import, ScrapeFails
  <1>2. UNCHANGED tab
    BY DEF Server, Refuse, Admit, ReadState, Start, CompleteBootstrap, SavePropertyInfo,
           ConfigureLocalAI, TryKey, KeyTried, CompleteKnowledge, SkipSetup, CheckEmail,
           InsertAdmin, Import, ScrapeFails
  <1>3. TRUE \in BOOLEAN /\ FALSE \in BOOLEAN
    OBVIOUS
  <1>4. CASE Answers(c, FALSE) \/ (call[c].op # "admin" /\ Answers(c, TRUE))
    BY <1>1, <1>2, <1>3, <1>4, AnswerCredited
  <1>5. CASE \/ Start(c) \/ CompleteBootstrap(c) \/ SavePropertyInfo(c) \/ ConfigureLocalAI(c)
             \/ KeyTried(c) \/ CompleteKnowledge(c) \/ SkipSetup(c) \/ Import(c)
             \/ Refuse(c) \/ ScrapeFails(c)
    BY <1>4, <1>5 DEF Start, CompleteBootstrap, SavePropertyInfo, ConfigureLocalAI, KeyTried,
                      CompleteKnowledge, SkipSetup, Import, Refuse, ScrapeFails, Begins
  <1>6. CASE Admit(c) \/ TryKey(c)
    <2>1. PICK at \in {"admitted", "working"} :
              call' = [call EXCEPT ![c] = [call[c] EXCEPT !.at = at]]
      BY <1>6 DEF Admit, TryKey
    <2>2. QED BY <1>1, <1>2, <2>1, MoveCredited
  <1>7. CASE CheckEmail(c)
    <2>1. Answers(c, FALSE) \/ \E at \in {"hashing", "taking_over"} :
                                  call' = [call EXCEPT ![c] = [call[c] EXCEPT !.at = at]]
      BY <1>7 DEF CheckEmail
    <2>2. QED BY <1>1, <1>2, <1>4, <2>1, MoveCredited
  <1>8. CASE InsertAdmin(c)
    <2>1. CASE Takes(c)
      <3>1. Answers(c, TRUE) /\ Crowned'
        <4>1. CompletedStep(row, "create_admin", "none").status = "completed"
          BY RowIs DEF CompletedStep, Rows
        <4>2. QED BY <1>8, <2>1, <4>1 DEF InsertAdmin, Saves, Crowned
      <3>2. QED BY <1>1, <1>2, <1>3, <3>1, AnswerCredited
    <2>2. CASE ~Takes(c)
      BY <1>4, <1>8, <2>2 DEF InsertAdmin
    <2>3. QED BY <2>1, <2>2
  <1>9. CASE ReadState(c)
    <2>1. PICK k : k = [call[c] EXCEPT !.at = "answered", !.saw = ResumeAt(row),
                                       !.ok = row.status = "completed"]
      OBVIOUS
    <2>2. k.saw = ResumeAt(row) /\ k.op = "state"
      BY <1>1, <1>9, <2>1 DEF CallsOf, ReadState, Begins
    <2>3. Credited(k)'
      BY <2>2 DEF Credited, ResumeAt
    <2>4. call' = [call EXCEPT ![c] = k] /\ TabsStay
      BY <1>2, <1>9, <2>1 DEF ReadState, TabsStay
    <2>5. QED BY <2>3, <2>4, CreditStep
  <1>10. QED BY <1>5, <1>6, <1>7, <1>8, <1>9 DEF Server

\* A request as it is sent earns nothing.
LEMMA SentCredited ==
    ASSUME NEW k, k.saw = "closed", k.at = "sent"
    PROVE  Credited(k)'
  BY DEF Credited

LEMMA RequestFields ==
    ASSUME NEW t, NEW op
    PROVE  Request(t, op).saw = "closed" /\ Request(t, op).at = "sent"
  BY DEF Request

\* The tab's page is opened anew.
LEMMA OpensEndsWell ==
    ASSUME IInv, EndsWell, Crowned => Crowned', NEW t \in Tabs,
           NEW page \in {"loading", "at_login"}, Opens(t, page)
    PROVE  EndsWell'
  <1> DEFINE kept == [c \in Calls |-> IF Live(c) /\ call[c].of = t THEN Forgotten(c) ELSE call[c]]
  <1>1. PICK new \in Calls : call' = [kept EXCEPT ![new] = Request(t, "state")]
    BY DEF Opens
  <1>2. ASSUME NEW d \in Calls, NEW k, k = call'[d] PROVE Credited(k)'
    <2>1. CASE d = new
      BY <1>1, <1>2, <2>1, RequestFields, SentCredited
    <2>2. CASE d # new
      <3>1. k = Free \/ k = call[d] \/ (k = [call[d] EXCEPT !.live = FALSE] /\ ~IsFree(d))
        BY <1>1, <1>2, <2>2 DEF Forgotten, Live
      <3>2. CASE k = [call[d] EXCEPT !.live = FALSE] /\ ~IsFree(d)
        <4>1. call[d] \in CallsOf
          BY <3>2, TakenCall
        <4>2. k.saw = call[d].saw /\ k.op = call[d].op /\ k.at = call[d].at /\ k.ok = call[d].ok
          BY <3>2, <4>1 DEF CallsOf
        <4>3. QED BY <3>2, <4>2 DEF Credited, EndsWell, IsFree
      <3>3. QED BY <3>1, <3>2 DEF Credited, EndsWell
    <2>3. QED BY <2>1, <2>2
  <1>3. ASSUME NEW u \in Tabs PROVE tab'[u].at = "complete" => Crowned'
    BY DEF Opens, EndsWell, IInv, TabsSound
  <1>4. ASSUME NEW d \in Calls PROVE Credited(call[d])'
    <2>1. PICK k : k = call'[d]
      OBVIOUS
    <2>2. QED BY <1>2, <2>1 DEF Credited
  <1>5. QED BY <1>3, <1>4 DEF EndsWell

\* A tab goes somewhere else, with or without a request.
LEMMA GoesElsewhere ==
    ASSUME IInv, NEW t \in Tabs, NEW place, Goes(t, place),
           place = "complete" => tab[t].at = "complete" \/ Crowned'
    PROVE  TabsStay
  BY DEF Goes, TabsStay, IInv, TabsSound, TabsAre

LEMMA SendsEndsWell ==
    ASSUME IInv, EndsWell, Crowned => Crowned', TabsStay, NEW k, Sends(k),
           k.saw = "closed", k.at = "sent"
    PROVE  EndsWell'
  <1>1. PICK c \in Calls : call' = [call EXCEPT ![c] = k]
    BY DEF Sends
  <1>2. QED BY <1>1, SentCredited, CreditStep

LEMMA TabEndsWell ==
    ASSUME IInv, EndsWell, Crowned => Crowned', NEW t \in Tabs, User(t) \/ LeaveForLogin(t)
    PROVE  EndsWell'
  <1>1. CASE Load(t) \/ LeaveForLogin(t)
    <2>1. PICK page \in {"loading", "at_login"} : Opens(t, page)
      BY <1>1 DEF Load, LeaveForLogin
    <2>2. QED BY <2>1, OpensEndsWell
  <1>2. CASE GiveName(t) \/ ChooseCloudAI(t) \/ TellManually(t) \/ TryUrl(t)
    <2>1. PICK place \in {"ask_type", "ask_api_key", "ask_manual", "ask_website"} : Goes(t, place)
      BY <1>2 DEF GiveName, ChooseCloudAI, TellManually, TryUrl
    <2>2. TabsStay
      BY <2>1, GoesElsewhere
    <2>3. QED BY <1>2, <2>2, NoCallChanges DEF GiveName, ChooseCloudAI, TellManually, TryUrl, tabLocal
  <1>3. ASSUME NEW k, Sends(k), k.saw = "closed", k.at = "sent",
               UNCHANGED tab \/ Goes(t, "done") \/ Goes(t, "scraping")
        PROVE  EndsWell'
    <2>1. TabsStay
      BY <1>3, GoesElsewhere DEF TabsStay
    <2>2. QED BY <1>3, <2>1, SendsEndsWell
  <1>4. ASSUME NEW place, NEW k, Submits(t, place, k), k.saw = "closed", k.at = "sent"
        PROVE  EndsWell'
    BY <1>3, <1>4 DEF Submits
  <1>5. CASE Continue(t) \/ Skip(t)
    <2>1. PICK op \in {"start", "skip"} : Sends(Request(t, op)) /\ UNCHANGED tab
      BY <1>5 DEF Continue, Skip
    <2>2. PICK k : k = Request(t, op)
      OBVIOUS
    <2>3. QED BY <1>3, <2>1, <2>2, RequestFields
  <1>6. CASE ChooseType(t) \/ ChooseLocalAI(t) \/ GiveKey(t) \/ ChecklistContinue(t)
    <2>1. PICK place, op : Submits(t, place, Request(t, op))
      BY <1>6 DEF ChooseType, ChooseLocalAI, GiveKey, ChecklistContinue
    <2>2. PICK k : k = Request(t, op)
      OBVIOUS
    <2>3. QED BY <1>4, <2>1, <2>2, RequestFields
  <1>7. CASE SubmitAdmin(t)
    <2>1. PICK e : Submits(t, "ask_admin", [Request(t, "admin") EXCEPT !.email = e])
      BY <1>7 DEF SubmitAdmin
    <2>2. PICK k : k = [Request(t, "admin") EXCEPT !.email = e]
      OBVIOUS
    <2>3. k.saw = "closed" /\ k.at = "sent"
      BY <2>2 DEF Request
    <2>4. Submits(t, "ask_admin", k)
      BY <2>1, <2>2
    <2>5. QED BY <1>4, <2>3, <2>4
  <1>8. CASE GiveWebsite(t) \/ AnswerManually(t)
    <2>1. PICK op, e : Sends(Imports(t, op, e)) /\ (UNCHANGED tab \/ Goes(t, "scraping"))
      BY <1>8 DEF GiveWebsite, AnswerManually
    <2>2. PICK k : k = Imports(t, op, e)
      OBVIOUS
    <2>3. k.saw = "closed" /\ k.at = "sent"
      BY <2>2 DEF Imports, Request
    <2>4. Sends(k)
      BY <2>1, <2>2
    <2>5. QED BY <1>3, <2>1, <2>3, <2>4
  <1>9. QED BY <1>1, <1>2, <1>5, <1>6, <1>7, <1>8 DEF User

LEMMA ArrivalEndsWell ==
    ASSUME IInv, EndsWell, Crowned => Crowned', NEW c \in Calls, Arrives(c)
    PROVE  EndsWell'
  <1>1. /\ call[c].of \in Tabs /\ call[c].at = "answered" /\ Credited(call[c]) /\ call[c] # Free
    BY AnsweredCall DEF Arrives, StateArrives, StartArrives, SkipArrives, StepArrives, OutcomeArrives,
       ScrapeArrives, ImportArrives, AnsweredBy, EndsWell
  <1>2. CASE SkipArrives(c)
    <2>1. PICK t \in Tabs : t = call[c].of /\ Opens(t, "at_login")
      BY <1>1, <1>2 DEF SkipArrives
    <2>2. QED BY <2>1, OpensEndsWell
  <1>3. CASE ~SkipArrives(c)
    <2>1. PICK k : call' = [call EXCEPT ![c] = k] /\ Credited(k)'
      <3>1. CASE Done(c)
        BY <3>1 DEF Done, Credited
      <3>2. ASSUME NEW op, ThenSends(c, op)
            PROVE  \E k : call' = [call EXCEPT ![c] = k] /\ Credited(k)'
        <4>1. PICK k : k = Request(call[c].of, op)
          OBVIOUS
        <4>2. call' = [call EXCEPT ![c] = k]
          BY <3>2, <4>1 DEF ThenSends
        <4>3. QED BY <4>1, <4>2, RequestFields, SentCredited
      <3>3. QED BY <1>3, <3>1, <3>2 DEF Arrives, StateArrives, StartArrives, StepArrives,
                                       OutcomeArrives, ScrapeArrives, ImportArrives
    <2>2. TabsStay
      <3>1. ASSUME NEW place, Goes(call[c].of, place), place # "complete" \/ Crowned'
            PROVE  TabsStay
        BY <1>1, <3>1, GoesElsewhere
      <3>2. CASE StateArrives(c)
        <4>1. StatePlace(c) # "complete"
          BY <1>1 DEF StatePlace, Credited
        <4>2. PICK place : place = StatePlace(c)
          OBVIOUS
        <4>3. QED BY <3>1, <3>2, <4>1, <4>2 DEF StateArrives
      <3>3. CASE StartArrives(c)
        BY <3>3 DEF StartArrives, TabsStay
      <3>4. CASE StepArrives(c)
        <4>1. PICK place \in {"ask_name", "ask_ai_provider", "ask_admin"} : Goes(call[c].of, place)
          BY <3>4 DEF StepArrives
        <4>2. QED BY <3>1, <4>1
      <3>5. CASE OutcomeArrives(c)
        <4>1. \/ \E place \in {"ask_website", "done", "ask_api_key", "ask_admin"} :
                    Goes(call[c].of, place)
              \/ Goes(call[c].of, "complete") /\ call[c].op = "admin" /\ call[c].ok
          BY <3>5 DEF OutcomeArrives, AnsweredBy
        <4>2. call[c].op = "admin" /\ call[c].ok => Crowned'
          BY <1>1 DEF Credited
        <4>3. QED BY <3>1, <4>1, <4>2
      <3>6. CASE ScrapeArrives(c) \/ ImportArrives(c)
        <4>1. PICK v : tab' = [tab EXCEPT ![call[c].of] = v] /\ v.at # "complete"
          <5>1. PICK t \in Tabs : t = call[c].of
            BY <1>1
          <5>2. [tab[t] EXCEPT !.at = "ask_website"].at = "ask_website"
            BY TabIs DEF TabsAre
          <5>3. QED BY <3>6, <5>1, <5>2 DEF ScrapeArrives, ImportArrives
        <4>2. QED BY <1>1, <4>1 DEF TabsStay, IInv, TabsSound
      <3>7. QED BY <1>3, <3>2, <3>3, <3>4, <3>5, <3>6 DEF Arrives
    <2>3. QED BY <2>1, <2>2, CreditStep
  <1>4. QED BY <1>2, <1>3

LEMMA BreakEndsWell ==
    ASSUME IInv, EndsWell, Crowned => Crowned', NEW c \in Calls, Break(c)
    PROVE  EndsWell'
  <1>1. call[c] \in CallsOf /\ call[c] # Free
    BY TakenCall DEF Break, Live, IsFree
  <1>2. PICK t \in Tabs : t = call[c].of
    BY <1>1 DEF CallsOf
  <1>3. PICK place : place = AfterBreak(c)
    OBVIOUS
  <1>4. place = "complete" => tab[t].at = "complete"
    BY <1>2, <1>3 DEF AfterBreak
  <1>5. TabsStay
    BY <1>2, <1>3, <1>4, GoesElsewhere DEF Break
  <1>6. PICK k : call' = [call EXCEPT ![c] = k] /\ (k = Free \/ k = [call[c] EXCEPT !.live = FALSE])
    BY DEF Break, Forgotten
  <1>7. k = Free \/ (/\ k.saw = call[c].saw /\ k.op = call[c].op
                     /\ k.at = call[c].at /\ k.ok = call[c].ok)
    BY <1>1, <1>6 DEF CallsOf
  <1>8. Credited(k)'
    BY <1>1, <1>7 DEF Credited, EndsWell
  <1>9. QED BY <1>5, <1>6, <1>8, CreditStep

\* The end of the setup is shown only where there is an administrator the
\* wizard created (createAdmin in useSetupSteps.ts, createAdminAccount), in
\* every tab and whatever was refused, skipped or lost meanwhile.
THEOREM EndHasAnAdministrator == Spec => []CompleteMeansAdmin
  <1>1. Init => EndsWell
    BY DEF Init, EndsWell, Credited
  <1>2. IInv /\ EndsWell /\ [Next]_vars => EndsWell'
    <2> SUFFICES ASSUME IInv, EndsWell, [Next]_vars PROVE EndsWell'
      OBVIOUS
    <2>1. Crowned => Crowned'
      BY CrownStays
    <2>2. CASE UNCHANGED vars
      BY <2>1, <2>2, NoCallChanges DEF vars, TabsStay
    <2>3. QED BY <2>1, <2>2, TabEndsWell, ServerEndsWell, ArrivalEndsWell, BreakEndsWell DEF Next
  <1>3. EndsWell => CompleteMeansAdmin
    BY DEF EndsWell, Crowned, CompleteMeansAdmin
  <1>4. QED BY <1>1, <1>2, <1>3, Inductive, PTL DEF Spec
=============================================================================
