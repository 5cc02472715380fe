------------------------------ MODULE Quotas -------------------------------
(***************************************************************************)
(* The limits of one workspace: how many sandboxes it may have and how     *)
(* much CPU they may use together (memory is checked the same way). Every  *)
(* sandbox asks for the CPU a request gets by default, the unit here. The  *)
(* limits come from the workspace's row, or else from the settings of the  *)
(* system; 0 means no limit. Administrators change both while requests     *)
(* that create sandboxes read, compare and insert.                         *)
(***************************************************************************)
EXTENDS Integers, FiniteSets

CONSTANTS
    Creators,       \* requests to create a sandbox under way at once
    Admins,         \* requests to change the row under way at once
    SandboxIds,     \* bound: sandboxes that can be alive at once
    Limits,         \* values an administrator may set; 0 is one of them
    Null            \* a field of the row without a value

ASSUME QuotaAssumption ==
    /\ IsFiniteSet(SandboxIds) /\ IsFiniteSet(Creators) /\ Creators # {}
    /\ Limits \subseteq Nat /\ Null \notin Nat

VARIABLES
    setting,   \* system_settings: default of each field
    quotaRow,  \* workspace_quotas: override of each field; all Null if no row
    sandboxes, \* status of each sandbox
    creator,   \* per creation: its step
    admin,     \* per change: its step, and the merged row it will write
    highest    \* the highest number of sandboxes allowed so far

quotaVars == <<setting, quotaRow, sandboxes, creator, admin, highest>>
limitVars == <<setting, quotaRow, highest>>

Fields == {"sandboxes", "cpu"}
NoOverride == [f \in Fields |-> Null]

\* effectiveWorkspaceDefaults
Effective(defaults, row, f) == IF row[f] # Null THEN row[f] ELSE defaults[f]
Limit(f) == Effective(setting, quotaRow, f)

Rows == {s \in SandboxIds : sandboxes[s] # "none"}

\* SumWorkspaceSandboxResources leaves out sandboxes that are offline, and those
\* of agentserver's own cluster never are.
UsedCPU == Cardinality(Rows)

AllowedCount(limit) == IF limit = 0 THEN Cardinality(SandboxIds) ELSE limit

QuotasInit ==
    /\ setting \in [Fields -> Limits] /\ quotaRow = NoOverride
    /\ sandboxes = [s \in SandboxIds |-> "none"]
    /\ creator = [c \in Creators |-> "idle"]
    /\ admin = [a \in Admins |-> [pc |-> "idle", row |-> NoOverride]]
    /\ highest = AllowedCount(setting["sandboxes"])

-----------------------------------------------------------------------------
(* provisionSandbox *)

CreatorAt(c, from, to) ==
    /\ creator[c] = from
    /\ creator' = [creator EXCEPT ![c] = to]
    /\ UNCHANGED <<limitVars, admin>>

\* Mutant: off by one.
CountLoosely(c) ==
    /\ CreatorAt(c, "idle", IF Limit("sandboxes") = 0
                               \/ Cardinality(Rows) <= Limit("sandboxes")
                            THEN "counted" ELSE "overQuota")
    /\ UNCHANGED sandboxes

CheckSandboxQuota(c) ==
    /\ CreatorAt(c, "idle", IF Limit("sandboxes") = 0
                               \/ Cardinality(Rows) < Limit("sandboxes")
                            THEN "counted" ELSE "overQuota")
    /\ UNCHANGED sandboxes

CheckResourceBudget(c) ==
    /\ CreatorAt(c, "counted", IF Limit("cpu") = 0 \/ UsedCPU + 1 <= Limit("cpu")
                               THEN "allowed" ELSE "overBudget")
    /\ UNCHANGED sandboxes

InsertSandbox(c) ==
    /\ CreatorAt(c, "allowed", "idle")
    /\ \E s \in SandboxIds \ Rows : sandboxes' = [sandboxes EXCEPT ![s] = "running"]

\* 403, or 500 when a query, the drive or the insertion fails.
Refuse(c) ==
    /\ \/ CreatorAt(c, "overQuota", "idle") \/ CreatorAt(c, "overBudget", "idle")
       \/ CreatorAt(c, "counted", "idle") \/ CreatorAt(c, "allowed", "idle")
    /\ UNCHANGED sandboxes

\* The lifecycle of the sandbox itself is that of SandboxLifecycle.
ChangeSandbox(s) ==
    /\ sandboxes[s] # "none"
    /\ sandboxes' = [sandboxes EXCEPT
                       ![s] = IF sandboxes[s] = "running" THEN "paused" ELSE "running"]
    /\ UNCHANGED <<limitVars, creator, admin>>

DeleteSandbox(s) ==
    /\ sandboxes[s] # "none"
    /\ sandboxes' = [sandboxes EXCEPT ![s] = "none"]
    /\ UNCHANGED <<limitVars, creator, admin>>

-----------------------------------------------------------------------------
(* Administrators *)

NoteLimit(defaults, row) ==
    LET allowed == AllowedCount(Effective(defaults, row, "sandboxes")) IN
    highest' = IF allowed > highest THEN allowed ELSE highest

\* Mutant: a field that the request leaves out is written, too.
SetDefaultToNull(f) ==
    \E v \in Limits \cup {Null} :
        /\ setting' = [setting EXCEPT ![f] = v]
        /\ UNCHANGED <<quotaRow, highest, sandboxes, creator, admin>>

\* handleAdminSetQuotaDefaults writes the fields of a request one by one.
SetDefault(f) ==
    \E v \in Limits :
        /\ setting' = [setting EXCEPT ![f] = v]
        /\ NoteLimit(setting', quotaRow)
        /\ UNCHANGED <<quotaRow, sandboxes, creator, admin>>

\* handleAdminSetWorkspaceQuota: a field the request leaves out keeps the value
\* that was read.
MergeQuota(a) ==
    /\ admin[a].pc = "idle"
    /\ \E request \in [Fields -> Limits \cup {Null}] :
          admin' = [admin EXCEPT ![a] =
                      [pc |-> "write",
                       row |-> [f \in Fields |-> IF request[f] # Null THEN request[f]
                                                 ELSE quotaRow[f]]]]
    /\ UNCHANGED <<limitVars, sandboxes, creator>>

WriteQuota(a) ==
    /\ admin[a].pc = "write"
    /\ quotaRow' = admin[a].row
    /\ NoteLimit(setting, quotaRow')
    /\ admin' = [admin EXCEPT ![a] = [pc |-> "idle", row |-> NoOverride]]
    /\ UNCHANGED <<setting, sandboxes, creator>>

DeleteQuota ==
    /\ quotaRow' = NoOverride
    /\ NoteLimit(setting, quotaRow')
    /\ UNCHANGED <<setting, sandboxes, creator, admin>>

-----------------------------------------------------------------------------
QuotasNext ==
    \/ \E c \in Creators : \/ CheckSandboxQuota(c) \/ CheckResourceBudget(c)
                           \/ InsertSandbox(c) \/ Refuse(c)
    \/ \E s \in SandboxIds : ChangeSandbox(s) \/ DeleteSandbox(s)
    \/ \E f \in Fields : SetDefault(f)
    \/ \E a \in Admins : MergeQuota(a) \/ WriteQuota(a)
    \/ DeleteQuota

QuotasSpec == QuotasInit /\ [][QuotasNext]_quotaVars

-----------------------------------------------------------------------------
(* Properties *)

QuotasTypeOK ==
    /\ setting \in [Fields -> Limits]
    /\ quotaRow \in [Fields -> Limits \cup {Null}]
    /\ sandboxes \in [SandboxIds -> {"none", "running", "paused"}]
    /\ creator \in [Creators -> {"idle", "counted", "allowed", "overQuota",
                                 "overBudget"}]
    /\ admin \in [Admins -> [pc : {"idle", "write"},
                             row : [Fields -> Limits \cup {Null}]]]
    /\ highest \in Nat

\* Creations that read the count at the same time may all pass, but the excess is
\* bounded: with n requests at once, a workspace has at most n - 1 sandboxes more
\* than the highest limit it has ever had.
OvershootBounded == Cardinality(Rows) <= highest + Cardinality(Creators) - 1
=============================================================================
