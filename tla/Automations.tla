---------------------------- MODULE Automations ----------------------------
(***************************************************************************)
(* One automation of a workspace: the row of the table automations, the    *)
(* schedulers of the replicas of agentserver, which claim it with a lease  *)
(* when it is due, run a turn and write the next time, and the requests    *)
(* that create, change and delete it. What a claim keeps of the row is the *)
(* next time its run will write; next is "due" once the time has come.     *)
(***************************************************************************)
EXTENDS Naturals

CONSTANTS
    Schedulers,  \* replicas of agentserver, each with a scheduler
    Editors,     \* PATCH requests under way at once
    MaxCrashes   \* bound: restarts of replicas

ASSUME AutomationAssumption == MaxCrashes \in Nat

VARIABLES
    automation,  \* the row: here, enabled, cron, complete, next, locked
    firing,      \* per replica: step of its run, the next time, and its lease
    edit,        \* per PATCH: the row as it read and changed it
    crashes

automationVars == <<automation, firing, edit, crashes>>

Crons == {"regular", "never"}   \* "0 0 30 2 *" parses, and never comes

\* What sched.Next of ComputeNextRun gives: the zero time when no date fits,
\* which the row takes for a date long past.
FirstRun(cron) == IF cron = "never" THEN "due" ELSE "later"

\* Mutant: the zero time is written like any other.
ZeroIsDate(cron, complete) == IF complete THEN FirstRun(cron) ELSE "null"

\* fireAutomation gives up a run whose config lacks a field, and MarkAutomationRun
\* writes NULL for the zero time.
NextRun(cron, complete) == IF complete /\ cron # "never" THEN "later" ELSE "null"

NoAutomation == [here |-> "new", enabled |-> FALSE, cron |-> "regular",
                 complete |-> TRUE, next |-> "null", locked |-> "no"]
NoRun == [pc |-> "idle", next |-> "null", lease |-> "none"]
NoEdit == [pc |-> "idle", enabled |-> FALSE, cron |-> "regular", complete |-> TRUE]

Exists == automation.here = "yes"

AutomationInit ==
    /\ automation = NoAutomation
    /\ firing = [r \in Schedulers |-> NoRun]
    /\ edit = [e \in Editors |-> NoEdit]
    /\ crashes = 0

-----------------------------------------------------------------------------
(* Requests *)

\* A channel without a bound user may leave to_user_id empty.
CreateAutomation ==
    /\ automation.here = "new"
    /\ \E enabled, complete \in BOOLEAN, cron \in Crons :
          automation' = [here |-> "yes", enabled |-> enabled, cron |-> cron,
                         complete |-> complete, next |-> FirstRun(cron),
                         locked |-> "no"]
    /\ UNCHANGED <<firing, edit, crashes>>

\* handlePatchAutomation reads the row, checks the request and changes the copy.
\* A channel with a user replaces an empty one; nothing takes a user away.
BeginPatch(e) ==
    /\ edit[e].pc = "idle" /\ Exists
    /\ \E enabled, complete \in BOOLEAN, cron \in Crons :
          /\ automation.complete => complete
          /\ edit' = [edit EXCEPT ![e] = [pc |-> "write", enabled |-> enabled,
                                          cron |-> cron, complete |-> complete]]
    /\ UNCHANGED <<automation, firing, crashes>>

\* UpdateAutomation: no lock is looked at, and a row that is gone is no error.
UpdateAutomation(e) ==
    /\ edit[e].pc = "write"
    /\ IF Exists
       THEN automation' =
              [automation EXCEPT
                 !.enabled = edit[e].enabled, !.cron = edit[e].cron,
                 !.complete = edit[e].complete,
                 !.next = IF edit[e].enabled THEN FirstRun(edit[e].cron) ELSE "null"]
       ELSE UNCHANGED automation
    /\ edit' = [edit EXCEPT ![e] = NoEdit]
    /\ UNCHANGED <<firing, crashes>>

DeleteAutomation ==
    /\ Exists
    /\ automation' = [NoAutomation EXCEPT !.here = "gone"]
    /\ UNCHANGED <<firing, edit, crashes>>

-----------------------------------------------------------------------------
(* The scheduler of a replica *)

Due == Exists /\ automation.enabled /\ automation.next = "due"

ClaimBy(r) ==
    /\ firing[r].pc = "idle" /\ Due
    /\ automation' = [automation EXCEPT !.locked = "yes"]
    /\ firing' = [firing EXCEPT ![r] =
                    [pc |-> "batch", lease |-> "own",
                     next |-> NextRun(automation.cron, automation.complete)]]
    /\ UNCHANGED <<edit, crashes>>

\* Mutants: a claim that looks at no lock; one that waits for the owner's Mark.
ClaimAnyway(r) == ClaimBy(r)
ClaimReleased(r) == automation.locked = "no" /\ ClaimBy(r)

\* ClaimDueAutomations: one statement; the run waits for those before it in the
\* batch, which runDueAutomations runs one after the other.
ClaimDueAutomations(r) == automation.locked \in {"no", "expired"} /\ ClaimBy(r)

LeaseExpires ==
    /\ automation.locked = "yes"
    /\ automation' = [automation EXCEPT !.locked = "expired"]
    /\ firing' = [r \in Schedulers |->
                    IF firing[r].lease = "own"
                    THEN [firing[r] EXCEPT !.lease = "expired"] ELSE firing[r]]
    /\ UNCHANGED <<edit, crashes>>

StepOf(r, from, to) ==
    /\ firing[r].pc = from
    /\ firing' = [firing EXCEPT ![r].pc = to]
    /\ UNCHANGED <<automation, edit, crashes>>

\* A config with a field missing or no backend leads to MarkAutomationRun.
StartFire(r) == \E to \in {"openclaw", "codex", "mark"} : StepOf(r, "batch", to)

\* The turn in the channel's sandbox, resumed if need be; any error, that of the
\* delivery included, falls back to Codex.
FireOpenClaw(r) == \E to \in {"codex", "mark"} : StepOf(r, "openclaw", to)
FireCodex(r) == StepOf(r, "codex", "mark")

\* The lock is cleared, whoever holds it.
MarkAutomationRun(r) ==
    /\ firing[r].pc = "mark"
    /\ IF Exists
       THEN /\ automation' = [automation EXCEPT !.next = firing[r].next,
                                                !.locked = "no"]
            /\ firing' = [q \in Schedulers |->
                            IF q = r THEN NoRun
                            ELSE IF firing[q].lease = "own"
                                 THEN [firing[q] EXCEPT !.lease = "released"]
                                 ELSE firing[q]]
       ELSE /\ firing' = [firing EXCEPT ![r] = NoRun]
            /\ UNCHANGED automation
    /\ UNCHANGED <<edit, crashes>>

\* Its error is dropped: the automation stays due and locked.
MarkLost(r) ==
    /\ firing[r].pc = "mark"
    /\ firing' = [firing EXCEPT ![r] = NoRun]
    /\ UNCHANGED <<automation, edit, crashes>>

CrashOf(r) ==
    /\ crashes < MaxCrashes /\ firing[r].pc # "idle"
    /\ firing' = [firing EXCEPT ![r] = NoRun]
    /\ crashes' = crashes + 1
    /\ UNCHANGED <<automation, edit>>

TimeComes ==
    /\ automation.next = "later"
    /\ automation' = [automation EXCEPT !.next = "due"]
    /\ UNCHANGED <<firing, edit, crashes>>

-----------------------------------------------------------------------------
RunStep(r) ==
    \/ StartFire(r) \/ FireOpenClaw(r) \/ FireCodex(r)
    \/ MarkAutomationRun(r) \/ MarkLost(r)

AutomationNext ==
    \/ CreateAutomation \/ DeleteAutomation \/ LeaseExpires \/ TimeComes
    \/ \E e \in Editors : BeginPatch(e) \/ UpdateAutomation(e)
    \/ \E r \in Schedulers : ClaimDueAutomations(r) \/ RunStep(r) \/ CrashOf(r)

AutomationSpec == AutomationInit /\ [][AutomationNext]_automationVars

\* Every step of a run is bounded by a timeout, and a lease ends by the clock. A
\* ticker claims what it finds each minute; a lock that comes and goes between
\* its ticks does not let it miss every time.
AutomationFairness ==
    /\ WF_automationVars(LeaseExpires)
    /\ \A r \in Schedulers : /\ WF_automationVars(RunStep(r))
                           /\ SF_automationVars(ClaimDueAutomations(r))

-----------------------------------------------------------------------------
(* Properties *)

AutomationRows == [here : {"new", "yes", "gone"}, enabled : BOOLEAN, cron : Crons,
                   complete : BOOLEAN, next : {"null", "later", "due"},
                   locked : {"no", "yes", "expired"}]
Firings == [pc : {"idle", "batch", "openclaw", "codex", "mark"},
            next : {"null", "later"}, lease : {"none", "own", "expired", "released"}]
Edits == [pc : {"idle", "write"}, enabled : BOOLEAN, cron : Crons, complete : BOOLEAN]

AutomationTypeOK ==
    /\ automation \in AutomationRows /\ firing \in [Schedulers -> Firings]
    /\ edit \in [Editors -> Edits] /\ crashes \in 0 .. MaxCrashes

\* At any time one run at most is within its lease: of two runs of one automation
\* that overlap, one has lost its lease to the clock or to another's Mark (or the
\* row they were claimed from is gone).
OneRunInLease ==
    \A q, r \in Schedulers :
        firing[q].lease = "own" /\ firing[r].lease = "own" => q = r

\* An automation that is due is claimed, whatever became of the replica that had
\* claimed it before, unless it is disabled, changed or deleted meanwhile.
DueIsClaimed == Due ~> ~Due \/ \E r \in Schedulers : firing[r].lease = "own"
=============================================================================
