-------------------------------- MODULE Apps --------------------------------
(***************************************************************************)
(* The apps (AI providers, channels, hotel systems): what is stored of     *)
(* each, what runs of it, and the checks of its connection                 *)
(* (src/apps/config.ts, src/apps/registry.ts, src/gateway/routes/apps.ts,  *)
(* and the wizard's AI step in src/services/setup.ts).                     *)
(*                                                                         *)
(* Only the check of a connection waits.  A configuration is a value: the  *)
(* fields a form leaves masked keep what is stored.  The registry is       *)
(* reduced to the configuration the active instance was created with.      *)
(***************************************************************************)
EXTENDS Sequences

CONSTANTS
    Apps,
    AppOrder,     \* the apps as discovered
    AIApps,
    Local,        \* the AI app that runs in this process
    Configs,
    Blank,        \* what a form with nothing but masked fields adds up to
    Embedding,    \* the configuration the wizard gives Local
    Accepts,      \* the configurations an app can be created with
    Works,        \* those whose check may pass
    NotRunning,
    Requests      \* the checks that may wait at a time

ASSUME AppsAssumption ==
    /\ AIApps \subseteq Apps /\ Local \in AIApps
    /\ AppOrder \in Seq(Apps)
    /\ {Blank, Embedding} \subseteq Configs /\ NotRunning \notin Configs
    /\ Accepts \in [Apps -> SUBSET Configs] /\ Works \in [Apps -> SUBSET Configs]
    /\ Embedding \in Accepts[Local]

VARIABLES
    row,       \* the app_configs table
    running,   \* the configuration of the active instance
    request,   \* the tests and the wizard's tries that wait for a check
    left,      \* history: it runs because of a test or a save of a disabled row
    passed,    \* history: the configurations a check of the app passed with
    foreign    \* history: the status tells of another configuration

storeVars == <<row, running>>
historyVars == <<left, passed, foreign>>
vars == <<storeVars, request, historyVars>>

Statuses == {"configured", "connected", "error", "disabled"}
Rows == [enabled : BOOLEAN, status : Statuses, config : Configs]
NoRow == [status |-> "not_configured"]
Stored(a) == row[a] \in Rows

Idle == [at |-> "idle"]
Busy(r) == request[r] # Idle

Init ==
    /\ row = [a \in Apps |-> NoRow]
    /\ running = [a \in Apps |-> NotRunning]
    /\ request = [r \in Requests |-> Idle]
    /\ left = [a \in Apps |-> FALSE]
    /\ passed = [a \in Apps |-> {}]
    /\ foreign = [a \in Apps |-> FALSE]

-----------------------------------------------------------------------------
(***************************************************************************)
(* The registry.                                                           *)
(***************************************************************************)
Runs(a) == running[a] # NotRunning

Activated_InPlace(a, config) == IF config \in Accepts[a] THEN config ELSE running[a]

\* activateExtension: an active instance is disabled before the new one is
\* created, so a configuration it cannot be created with leaves none.
Activated(a, config) == IF config \in Accepts[a] THEN config ELSE NotRunning

\* loadEnabledApps.
Booted(a) ==
    IF Stored(a) /\ row[a].enabled /\ row[a].config \in Accepts[a]
    THEN row[a].config ELSE NotRunning

\* The provider of a completion: the first active one.
ActiveAIProvider ==
    LET active == SelectSeq(AppOrder, LAMBDA a : a \in AIApps /\ Runs(a))
    IN  IF active = <<>> THEN {} ELSE {Head(active)}

-----------------------------------------------------------------------------
(***************************************************************************)
(* The stored configuration.                                               *)
(***************************************************************************)
Written_KeepsStatus(a, config, enabled) ==
    [enabled |-> enabled, config |-> config,
     status |-> IF Stored(a) THEN row[a].status ELSE "configured"]

Written(a, config, enabled) ==
    [enabled |-> enabled, status |-> "configured", config |-> config]

\* saveAppConfig: the row first; an app saved as disabled is not stopped.
Saves(a, config, enabled) ==
    /\ row' = [row EXCEPT ![a] = Written(a, config, enabled)]
    /\ running' = IF enabled THEN [running EXCEPT ![a] = Activated(a, config)] ELSE running
    /\ left' = [left EXCEPT ![a] = ~enabled /\ Runs(a)]
    /\ foreign' = [foreign EXCEPT ![a] = FALSE]

\* setAppEnabled(false).
Disables(a, to) ==
    /\ row' = [to EXCEPT ![a].enabled = FALSE, ![a].status = "disabled"]
    /\ running' = [running EXCEPT ![a] = NotRunning]
    /\ left' = [left EXCEPT ![a] = FALSE]
    /\ foreign' = [foreign EXCEPT ![a] = FALSE]

\* PUT: with the form's fields, or the stored ones when all of them are masked.
Put(a, config, enabled) ==
    /\ Saves(a, config, enabled)
    /\ UNCHANGED <<request, passed>>

PutMasked(a, enabled) == Put(a, IF Stored(a) THEN row[a].config ELSE Blank, enabled)

ToggleOn(a) ==
    /\ Stored(a)
    /\ Saves(a, row[a].config, TRUE)
    /\ UNCHANGED <<request, passed>>

ToggleOff(a) ==
    /\ Stored(a)
    /\ Disables(a, row)
    /\ UNCHANGED <<request, passed>>

Delete(a) ==
    /\ Stored(a)
    /\ row' = [row EXCEPT ![a] = NoRow]
    /\ running' = [running EXCEPT ![a] = NotRunning]
    /\ left' = [left EXCEPT ![a] = FALSE]
    /\ foreign' = [foreign EXCEPT ![a] = FALSE]
    /\ UNCHANGED <<request, passed>>

-----------------------------------------------------------------------------
(***************************************************************************)
(* Checks.  A check is of the instance it started with, and its result is  *)
(* written to whatever row there is when it arrives.                       *)
(***************************************************************************)
Checking(a, config, purpose) ==
    [at |-> "checking", of |-> a, config |-> config, for |-> purpose]

\* testAppConnection starts the app when it does not run, disabled or not.
TestBegins(r, a) ==
    /\ ~Busy(r) /\ Stored(a)
    /\ LET config == IF Runs(a) THEN running[a] ELSE Activated(a, row[a].config)
       IN  /\ config # NotRunning
           /\ running' = [running EXCEPT ![a] = config]
           /\ request' = [request EXCEPT ![r] = Checking(a, config, "test")]
           /\ left' = [left EXCEPT ![a] = @ \/ ~row[a].enabled]
    /\ UNCHANGED <<row, passed, foreign>>

\* The wizard's key replaces what is stored.
TryKey(r, a, config) ==
    /\ ~Busy(r) /\ a # Local
    /\ Saves(a, config, TRUE)
    /\ request' = IF config \in Accepts[a]
                  THEN [request EXCEPT ![r] = Checking(a, config, "wizard")] ELSE request
    /\ UNCHANGED passed

EnableLocalAI ==
    /\ Saves(Local, Embedding, TRUE)
    /\ UNCHANGED <<request, passed>>

Result_OfDeleted(a, status) == [row EXCEPT ![a].status = status]

\* updateAppStatus.
Result(a, status) ==
    IF Stored(a) THEN [row EXCEPT ![a].status = status] ELSE row

Passes(r) ==
    LET a == request[r].of
    IN  /\ request[r].at = "checking" /\ request[r].config \in Works[a]
        /\ row' = Result(a, "connected")
        /\ passed' = [passed EXCEPT ![a] = @ \cup {request[r].config}]
        /\ foreign' = [foreign EXCEPT ![a] = Stored(a) /\ row[a].config # request[r].config]
        /\ request' = [request EXCEPT ![r] = Idle]
        /\ UNCHANGED <<running, left>>

\* After a failed try the wizard disables the app, whichever key it has by now.
Fails(r) ==
    LET a == request[r].of
    IN  /\ request[r].at = "checking"
        /\ IF request[r].for = "wizard" /\ Stored(a)
           THEN Disables(a, Result(a, "error"))
           ELSE row' = Result(a, "error") /\ UNCHANGED <<running, left, foreign>>
        /\ request' = [request EXCEPT ![r] = Idle]
        /\ UNCHANGED passed

\* A crash and the next start: every enabled app that can be created runs.
Restart ==
    /\ running' = [a \in Apps |-> Booted(a)]
    /\ request' = [r \in Requests |-> Idle]
    /\ left' = [a \in Apps |-> FALSE]
    /\ UNCHANGED <<row, passed, foreign>>

-----------------------------------------------------------------------------
Administration(a) ==
    \/ \E enabled \in BOOLEAN : PutMasked(a, enabled)
    \/ \E enabled \in BOOLEAN, config \in Configs : Put(a, config, enabled)
    \/ ToggleOn(a) \/ ToggleOff(a) \/ Delete(a)

Next ==
    \/ \E a \in Apps : Administration(a)
    \/ \E r \in Requests, a \in Apps : TestBegins(r, a)
    \/ \E r \in Requests, a \in AIApps, config \in Configs : TryKey(r, a, config)
    \/ \E r \in Requests : Passes(r) \/ Fails(r)
    \/ EnableLocalAI
    \/ Restart

Spec == Init /\ [][Next]_vars

-----------------------------------------------------------------------------
\* Type correctness of the table, the registry and the checks in flight.
TypeOK ==
    /\ row \in [Apps -> Rows \cup {NoRow}]
    /\ running \in [Apps -> Configs \cup {NotRunning}]
    /\ request \in [Requests -> {Idle} \cup [at : {"checking"}, of : Apps, config : Configs,
                                             for : {"test", "wizard"}]]
    /\ left \in [Apps -> BOOLEAN]
    /\ passed \in [Apps -> SUBSET Configs]
    /\ foreign \in [Apps -> BOOLEAN]

\* What runs is what a restart would start, with the same configuration: a
\* save, a toggle, a deletion, a test and a failed try keep the registry and
\* the table together, also when an activation throws after the row was
\* written.  The exception is what a test, or a save, of a disabled app leaves
\* running, and it has a row to be stopped by.
RestartKeeps ==
    \A a \in Apps : running[a] = Booted(a) \/ (left[a] /\ Stored(a) /\ ~row[a].enabled)

\* An app shown as connected passed a check with the configuration it has:
\* whatever changes the configuration takes the status back.  A check that
\* was of another instance is the exception (foreign).
ConnectedWasChecked ==
    \A a \in Apps :
        row[a].status = "connected" => row[a].config \in passed[a] \/ foreign[a]

\* "Local AI will be used for embeddings, cloud provider for chat completion"
\* (src/services/setup.ts:766).
CloudCompletes ==
    (\E a \in AIApps \ {Local} : Runs(a)) => ActiveAIProvider # {Local}
=============================================================================
