-------------------------- MODULE SandboxLifecycle --------------------------
(***************************************************************************)
(* The life of the cloud sandboxes of one workspace: the row of the        *)
(* sandboxes table (status, pod_ip, last_activity_at), the Sandbox custom  *)
(* resource that Kubernetes keeps for it, and everything that writes them: *)
(* the HTTP handlers of internal/server and the goroutines they leave      *)
(* behind, the idle watcher, the playground reaper, a crash of the server, *)
(* the start-up of the next one, and a rolling update, in which the next   *)
(* one starts while the old one serves.                                    *)
(*                                                                         *)
(* One step of a process is one database statement or one Kubernetes call: *)
(* nothing in the code spans two of them with a lock or a transaction, and *)
(* UpdateSandboxStatus is an unconditional UPDATE ... WHERE id = $1.       *)
(***************************************************************************)
EXTENDS Naturals, TLC

CONSTANTS
    Sandboxes,      \* sandbox ids that provisioning may draw
    TestSandboxes,  \* those that the playground registers as test sandboxes
    Workers,        \* concurrent HTTP requests and the goroutines they start
    Watcher,        \* the goroutine of IdleWatcher.loop
    Reaper,         \* the goroutine of StartPlaygroundReaper
    NoSandbox,      \* the target of a process that works on none
    MaxBoots        \* bound: crashes and rolling updates of one behaviour

ASSUME SandboxesAssumption ==
    /\ TestSandboxes \subseteq Sandboxes
    /\ NoSandbox \notin Sandboxes
    /\ Watcher \notin Workers /\ Reaper \notin Workers /\ Watcher # Reaper
    /\ MaxBoots \in Nat

VARIABLES
    status,     \* the status column; "none" when there is no row
    podIP,      \* whether pod_ip is set
    cr,         \* the Sandbox CR: "absent", or its spec.replicas "up" / "down"
    proc,       \* per process: what it does, where it is, on which sandbox
    idleQ,      \* what is left of the list of IdleWatcher.check
    reapQ,      \* what is left of the list of reapExpiredTestSandboxes
    up,         \* some replica serves requests
    boot,       \* the start-up of a replica: "none", "load", "clean", or
                \* "drain" while the replica that it replaces still runs
    known,      \* knownNames, the sandbox names loaded at start-up
    boots,      \* start-ups so far
    blind,      \* history: a start-up cleaned orphans without their list
    unlisted,   \* history: rows inserted after a start-up had read its list
    born,       \* history: ids that were ever inserted
    doomed,     \* history: sandboxes whose deletion a user asked for
    stranded    \* history: rows whose transitional status lost its writer

vars == <<status, podIP, cr, proc, idleQ, reapQ, up, boot, known,
          boots, blind, unlisted, born, doomed, stranded>>

db == <<status, podIP, born>>
server == <<up, boot, known, boots, blind, unlisted>>
history == <<doomed, stranded>>

-----------------------------------------------------------------------------
Procs == Workers \cup {Watcher, Reaper}

\* Requests are interchangeable. One sandbox is enough: sandboxes share nothing but the
\* lists of the watcher, the reaper and the start-up, each used sandbox by sandbox.
Symmetry == Permutations(Workers)

Transitional == {"creating", "pausing", "resuming"}
Settled == {"running", "paused"}
\* "deleting" is declared in state.go and written nowhere; "offline" is for
\* local sandboxes, which have no CR.
Status == {"none"} \cup Transitional \cup Settled

Ops == {"none", "provision", "pause", "idle", "resume", "auto", "delete",
        "reap"}
Steps == {"rest", "insert", "start", "wait", "drop", "setip", "run", "mark",
          "lookup", "scaledown", "clearip", "settle", "revert", "scaleup",
          "stop", "delrow"}

Task(op, pc, s) == [op |-> op, pc |-> pc, sbx |-> s]

Resting == Task("none", "rest", NoSandbox)

Rows == {s \in Sandboxes : status[s] # "none"}

\* ValidTransition(from, to), for the statuses of cloud sandboxes.
ValidTransition(from, to) ==
    \/ from = "creating" /\ to \in {"running", "deleting"}
    \/ from = "running" /\ to \in {"pausing", "deleting", "offline"}
    \/ from = "pausing" /\ to = "paused"
    \/ from = "paused" /\ to \in {"resuming", "deleting"}
    \/ from = "resuming" /\ to = "running"

At(p, pc) == up /\ proc[p].pc = pc

Goto(p, pc) == proc' = [proc EXCEPT ![p].pc = pc]
Finish(p) == proc' = [proc EXCEPT ![p] = Resting]
Begin(p, task) == up /\ proc[p] = Resting /\ proc' = [proc EXCEPT ![p] = task]

\* Mutants: the UPDATE as an upsert.
UpsertStatus(s, to) ==
    /\ status' = [status EXCEPT ![s] = to]
    /\ stranded' = stranded \ {s}
UpsertPodIP(s, set) == podIP' = [podIP EXCEPT ![s] = set]

\* An UPDATE of a row that is gone changes nothing and is no error.
UpdateStatus(s, to) ==
    /\ status' = [status EXCEPT ![s] = IF @ = "none" THEN "none" ELSE to]
    /\ stranded' = stranded \ {s}
UpdatePodIP(s, set) ==
    podIP' = [podIP EXCEPT ![s] = set /\ status[s] # "none"]
DeleteRow(s) ==
    /\ status' = [status EXCEPT ![s] = "none"]
    /\ podIP' = [podIP EXCEPT ![s] = FALSE]
    /\ stranded' = stranded \ {s}

\* A statement that fails. If it was the last one of its goroutine, nobody is
\* left to take the row out of a transitional status.
LastWriteFails(s) ==
    /\ stranded' = stranded \cup {r \in {s} : status[r] \in Transitional}
    /\ UNCHANGED <<status, podIP>>

-----------------------------------------------------------------------------
(* provisionSandbox and the goroutine it starts *)

\* The checks of provisionSandbox passed: a refused request leaves no trace.
\* The id is a fresh UUID: no row ever had it and no other request holds it.
RequestSandbox(w) ==
    /\ \E s \in Sandboxes \ born :
          /\ \A p \in Procs : proc[p].sbx # s
          /\ Begin(w, Task("provision", "insert", s))
    /\ UNCHANGED <<db, cr, idleQ, reapQ, server, history>>

InsertRow(w) ==
    /\ At(w, "insert")
    /\ status' = [status EXCEPT ![proc[w].sbx] = "creating"]
    /\ born' = born \cup {proc[w].sbx}
    /\ unlisted' = IF boot = "clean" THEN unlisted \cup {proc[w].sbx}
                   ELSE unlisted
    /\ Goto(w, "start")
    /\ UNCHANGED <<podIP, cr, idleQ, reapQ, up, boot, known, boots, blind,
                   history>>

\* StartContainerWithIP up to k8s.Create.
StartContainer(w) ==
    /\ At(w, "start")
    /\ \/ cr' = [cr EXCEPT ![proc[w].sbx] = "up"] /\ Goto(w, "wait")
       \/ Goto(w, "drop") /\ UNCHANGED cr
    /\ UNCHANGED <<db, idleQ, reapQ, server, history>>

\* waitForReady sees a running pod. It polls by name and trusts the Ready
\* condition, which lags spec.replicas, so "down" does not exclude it.
WaitForReady(w) ==
    /\ At(w, "wait")
    /\ cr[proc[w].sbx] # "absent"
    /\ Goto(w, "setip")
    /\ UNCHANGED <<db, cr, idleQ, reapQ, server, history>>

\* waitForReady gives up after pollTimeout. Provisioning then deletes the CR,
\* ignoring the error, and drops the row; a resume goes back to "paused"; an
\* automatic resume just reports the error.
WaitForReadyTimeout(w) ==
    /\ At(w, "wait")
    /\ \/ /\ proc[w].op = "provision"
          /\ Goto(w, "drop")
          /\ \/ cr' = [cr EXCEPT ![proc[w].sbx] = "absent"]
             \/ UNCHANGED cr
       \/ proc[w].op = "resume" /\ Goto(w, "revert") /\ UNCHANGED cr
       \/ proc[w].op = "auto" /\ Finish(w) /\ UNCHANGED cr
    /\ UNCHANGED <<db, idleQ, reapQ, server, history>>

DropRow(w) ==
    /\ At(w, "drop")
    /\ DeleteRow(proc[w].sbx) \/ LastWriteFails(proc[w].sbx)
    /\ Finish(w)
    /\ UNCHANGED <<born, cr, idleQ, reapQ, server, doomed>>

RecordPodIP(w) ==
    /\ At(w, "setip")
    /\ UpdatePodIP(proc[w].sbx, TRUE) \/ UNCHANGED podIP
    /\ Goto(w, "run")
    /\ UNCHANGED <<status, born, cr, idleQ, reapQ, server, history>>

\* Mutant: a resumed sandbox is marked by its provisioning only.
MarkProvisioned(w) ==
    /\ At(w, "run")
    /\ IF proc[w].op = "resume" THEN UNCHANGED <<status, stranded>>
       ELSE UpdateStatus(proc[w].sbx, "running")
    /\ Finish(w)
    /\ UNCHANGED <<podIP, born, cr, idleQ, reapQ, server, doomed>>

\* The last statement of provisioning, of a resume and of an automatic one.
MarkRunning(w) ==
    /\ At(w, "run")
    /\ \/ UpdateStatus(proc[w].sbx, "running") /\ UNCHANGED podIP
       \/ LastWriteFails(proc[w].sbx)
    /\ Finish(w)
    /\ UNCHANGED <<born, cr, idleQ, reapQ, server, doomed>>

-----------------------------------------------------------------------------
(* handlePauseSandbox, handleResumeSandbox, handleOpenclawTurn *)

\* The handler reads the row and checks the transition ...
RequestPause(w) ==
    /\ \E s \in Rows : /\ ValidTransition(status[s], "pausing")
                       /\ Begin(w, Task("pause", "mark", s))
    /\ UNCHANGED <<db, cr, idleQ, reapQ, server, history>>

RequestResume(w) ==
    /\ \E s \in Rows : /\ ValidTransition(status[s], "resuming")
                       /\ Begin(w, Task("resume", "mark", s))
    /\ UNCHANGED <<db, cr, idleQ, reapQ, server, history>>

\* An IM message or an automation finds no running sandbox for its channel
\* and one that is paused, and scales it up without marking the row.
AutoResume(w) ==
    /\ \E s \in Rows : /\ status[s] = "paused"
                       /\ Begin(w, Task("auto", "lookup", s))
    /\ UNCHANGED <<db, cr, idleQ, reapQ, server, history>>

\* ... and only then writes it, whatever it has become meanwhile.
MarkTransition(p) ==
    /\ At(p, "mark")
    /\ \/ /\ proc[p].op \in {"pause", "idle"}
          /\ UpdateStatus(proc[p].sbx, "pausing")
          /\ Goto(p, "lookup")
       \/ /\ proc[p].op = "resume"
          /\ UpdateStatus(proc[p].sbx, "resuming")
          /\ Goto(p, "lookup")
       \/ Finish(p) /\ UNCHANGED <<status, stranded>>  \* the UPDATE failed
    /\ UNCHANGED <<podIP, born, cr, idleQ, reapQ, server, doomed>>

\* The call of Kubernetes that a lookup of the namespace is for.
Call(op) ==
    CASE op \in {"pause", "idle"} -> "scaledown"
      [] op \in {"resume", "auto"} -> "scaleup"
      [] OTHER -> "stop"

\* Manager.lookupNamespace reads the row for the workspace's namespace: Pause,
\* ResumeContainerWithIP and Stop all begin with it. A row that is gone is an
\* error, which Stop swallows.
LookupNamespace(p) ==
    /\ At(p, "lookup")
    /\ \/ proc[p].sbx \in Rows /\ Goto(p, Call(proc[p].op))
       \/ proc[p].op \in {"pause", "idle", "resume"} /\ Goto(p, "revert")
       \/ proc[p].op = "auto" /\ Finish(p)
       \/ proc[p].op = "delete" /\ Goto(p, "delrow")
    /\ UNCHANGED <<db, cr, idleQ, reapQ, server, history>>

\* The patch needs the CR, and no longer the row.
ScaleDown(p) ==
    /\ At(p, "scaledown")
    /\ cr[proc[p].sbx] # "absent"
    /\ cr' = [cr EXCEPT ![proc[p].sbx] = "down"]
    /\ Goto(p, "clearip")
    /\ UNCHANGED <<db, idleQ, reapQ, server, history>>

\* The patch may also fail after it was applied (its context has 30 s).
ScaleDownFails(p) ==
    /\ At(p, "scaledown")
    /\ \/ UNCHANGED cr
       \/ /\ cr[proc[p].sbx] # "absent"
          /\ cr' = [cr EXCEPT ![proc[p].sbx] = "down"]
    /\ Goto(p, "revert")
    /\ UNCHANGED <<db, idleQ, reapQ, server, history>>

ClearPodIP(p) ==
    /\ At(p, "clearip")
    /\ UpdatePodIP(proc[p].sbx, FALSE) \/ UNCHANGED podIP
    /\ Goto(p, "settle")
    /\ UNCHANGED <<status, born, cr, idleQ, reapQ, server, history>>

MarkPaused(p) ==
    /\ At(p, "settle")
    /\ \/ UpdateStatus(proc[p].sbx, "paused") /\ UNCHANGED podIP
       \/ LastWriteFails(proc[p].sbx)
    /\ Finish(p)
    /\ UNCHANGED <<born, cr, idleQ, reapQ, server, doomed>>

ScaleUp(w) ==
    /\ At(w, "scaleup")
    /\ cr[proc[w].sbx] # "absent"
    /\ cr' = [cr EXCEPT ![proc[w].sbx] = "up"]
    /\ Goto(w, "wait")
    /\ UNCHANGED <<db, idleQ, reapQ, server, history>>

ScaleUpFails(w) ==
    /\ At(w, "scaleup")
    /\ \/ UNCHANGED cr
       \/ /\ cr[proc[w].sbx] # "absent"
          /\ cr' = [cr EXCEPT ![proc[w].sbx] = "up"]
    /\ \/ proc[w].op = "resume" /\ Goto(w, "revert")
       \/ proc[w].op = "auto" /\ Finish(w)
    /\ UNCHANGED <<db, idleQ, reapQ, server, history>>

\* Mutant: the error path forgets the row.
RevertNothing(p) ==
    /\ At(p, "revert")
    /\ Finish(p)
    /\ UNCHANGED <<db, cr, idleQ, reapQ, server, history>>

\* The error path: a failed pause is "running" again, a failed resume
\* "paused" again, whatever spec.replicas now says.
Revert(p) ==
    /\ At(p, "revert")
    /\ \/ /\ UpdateStatus(proc[p].sbx, IF proc[p].op = "resume"
                                       THEN "paused" ELSE "running")
          /\ UNCHANGED podIP
       \/ LastWriteFails(proc[p].sbx)
    /\ Finish(p)
    /\ UNCHANGED <<born, cr, idleQ, reapQ, server, doomed>>

-----------------------------------------------------------------------------
(* handleDeleteSandbox, and one iteration of handleDeleteWorkspace *)

\* The status that the handler reads with the row decides how the CR goes:
\* Stop looks the namespace up, StopBySandboxName was given it, and in every
\* other status nothing removes the CR.
RequestDelete(w) ==
    /\ \E s \in Rows :
          /\ Begin(w, Task("delete", CASE status[s] = "running" -> "lookup"
                                       [] status[s] = "paused" -> "stop"
                                       [] OTHER -> "delrow", s))
          /\ doomed' = doomed \cup {s}
    /\ UNCHANGED <<db, cr, idleQ, reapQ, server, stranded>>

\* An error of Kubernetes is logged or dropped.
StopContainer(w) ==
    /\ At(w, "stop")
    /\ proc[w].op = "delete"
    /\ cr' = [cr EXCEPT ![proc[w].sbx] = "absent"] \/ UNCHANGED cr
    /\ Goto(w, "delrow")
    /\ UNCHANGED <<db, idleQ, reapQ, server, history>>

\* A failed DELETE answers 500 and leaves the row behind, without its CR.
FinishDelete(w) ==
    /\ At(w, "delrow")
    /\ DeleteRow(proc[w].sbx) \/ UNCHANGED <<status, podIP, stranded>>
    /\ Finish(w)
    /\ UNCHANGED <<born, cr, idleQ, reapQ, server, doomed>>

-----------------------------------------------------------------------------
(* IdleWatcher.check: list once, then pause one sandbox after the other *)

\* Any running sandbox may have been idle for its timeout by now.
ListIdle ==
    /\ up
    /\ proc[Watcher] = Resting
    /\ idleQ = {}
    /\ \E S \in SUBSET {s \in Rows : status[s] = "running"} :
          S # {} /\ idleQ' = S
    /\ UNCHANGED <<db, cr, proc, reapQ, server, history>>

PauseIdle ==
    /\ \E s \in idleQ : /\ Begin(Watcher, Task("idle", "mark", s))
                        /\ idleQ' = idleQ \ {s}
    /\ UNCHANGED <<db, cr, reapQ, server, history>>

(* reapExpiredTestSandboxes: the row first, then the pod *)

\* Any registered test sandbox may have passed its TTL by now.
ListExpired ==
    /\ up
    /\ proc[Reaper] = Resting
    /\ reapQ = {}
    /\ \E S \in SUBSET (Rows \cap TestSandboxes) : S # {} /\ reapQ' = S
    /\ UNCHANGED <<db, cr, proc, idleQ, server, history>>

ReapRow ==
    /\ \E s \in reapQ :
          /\ reapQ' = reapQ \ {s}
          /\ \/ /\ Begin(Reaper, Task("reap", "stop", s))
                /\ DeleteRow(s)
             \/ /\ up /\ proc[Reaper] = Resting    \* the DELETE failed
                /\ UNCHANGED <<proc, status, podIP, stranded>>
    /\ UNCHANGED <<born, cr, idleQ, server, doomed>>

\* Stop resolves the namespace through the row. The row is gone for good, so
\* the lookup and the call that it guards are one step.
ReapStop ==
    /\ At(Reaper, "stop")
    /\ IF proc[Reaper].sbx \in Rows
       THEN cr' = [cr EXCEPT ![proc[Reaper].sbx] = "absent"]
       ELSE UNCHANGED cr
    /\ Finish(Reaper)
    /\ UNCHANGED <<db, idleQ, reapQ, server, history>>

-----------------------------------------------------------------------------
(* Crash, rolling update and start-up *)

\* The process dies; every goroutine dies with it, and the next replica is
\* started by Kubernetes.
Crash ==
    /\ up /\ boot = "none" /\ boots < MaxBoots
    /\ up' = FALSE
    /\ boot' = "load"
    /\ boots' = boots + 1
    /\ proc' = [p \in Procs |-> Resting]
    /\ idleQ' = {} /\ reapQ' = {}
    /\ stranded' = stranded \cup {s \in Rows : status[s] \in Transitional}
    /\ UNCHANGED <<db, cr, known, blind, unlisted, doomed>>

\* The deployment starts the next replica first (maxSurge 1, maxUnavailable 0).
RollingUpdate ==
    /\ up /\ boot = "none" /\ boots < MaxBoots
    /\ boot' = "load"
    /\ boots' = boots + 1
    /\ UNCHANGED <<db, cr, proc, idleQ, reapQ, up, known, blind, unlisted,
                   history>>

\* Mutant: the names of the sandboxes that run.
RunningNames == {s \in Rows : status[s] = "running"}

\* ListAllActiveSandboxNames: every row, whatever its status.
ActiveNames == Rows

\* The serve command loads the names first. A failure is a warning in the log,
\* and the list is nil.
LoadKnownNames ==
    /\ boot = "load"
    /\ \/ known' = ActiveNames /\ UNCHANGED blind
       \/ known' = {} /\ blind' = TRUE
    /\ boot' = "clean"
    /\ UNCHANGED <<db, cr, proc, idleQ, reapQ, up, boots, unlisted, history>>

\* CleanOrphans deletes the CRs whose name is not known; a failed deletion is
\* logged and skipped. The replica serves afterwards, at first beside the one
\* that it replaces.
CleanOrphans ==
    /\ boot = "clean"
    /\ \E failed \in SUBSET Sandboxes :
          cr' = [s \in Sandboxes |-> IF s \in known \cup failed THEN cr[s]
                                     ELSE "absent"]
    /\ boot' = IF up THEN "drain" ELSE "none"
    /\ up' = TRUE
    /\ known' = {}
    /\ UNCHANGED <<db, proc, idleQ, reapQ, boots, blind, unlisted, history>>

\* The old replica exits on SIGTERM and waits for no goroutine. Which of the
\* processes are its own is left open.
Retire ==
    /\ boot = "drain"
    /\ \E D \in SUBSET Procs :
          /\ proc' = [p \in Procs |-> IF p \in D THEN Resting ELSE proc[p]]
          /\ idleQ' = IF Watcher \in D THEN {} ELSE idleQ
          /\ reapQ' = IF Reaper \in D THEN {} ELSE reapQ
          /\ stranded' = stranded \cup
                {s \in Rows : /\ status[s] \in Transitional
                              /\ \E p \in D : proc[p].sbx = s}
    /\ boot' = "none"
    /\ UNCHANGED <<db, cr, up, known, boots, blind, unlisted, doomed>>

-----------------------------------------------------------------------------
Init ==
    /\ status = [s \in Sandboxes |-> "none"]
    /\ podIP = [s \in Sandboxes |-> FALSE]
    /\ cr = [s \in Sandboxes |-> "absent"]
    /\ proc = [p \in Procs |-> Resting]
    /\ idleQ = {} /\ reapQ = {}
    /\ up = TRUE /\ boot = "none" /\ known = {} /\ boots = 0
    /\ blind = FALSE /\ unlisted = {}
    /\ born = {} /\ doomed = {} /\ stranded = {}

\* A request arrives.
Request(w) ==
    \/ RequestSandbox(w) \/ RequestPause(w) \/ RequestResume(w) \/ AutoResume(w)
    \/ RequestDelete(w)

\* The goroutine of a request, or the watcher, takes its next step.
Advance(p) ==
    \/ InsertRow(p) \/ StartContainer(p) \/ WaitForReady(p)
    \/ WaitForReadyTimeout(p) \/ DropRow(p) \/ RecordPodIP(p)
    \/ MarkRunning(p) \/ MarkTransition(p) \/ LookupNamespace(p)
    \/ ScaleDown(p) \/ ScaleDownFails(p) \/ ClearPodIP(p) \/ MarkPaused(p)
    \/ ScaleUp(p) \/ ScaleUpFails(p) \/ Revert(p)
    \/ StopContainer(p) \/ FinishDelete(p)

Next ==
    \/ \E w \in Workers : Request(w)
    \/ \E p \in Workers \cup {Watcher} : Advance(p)
    \/ ListIdle \/ PauseIdle
    \/ ListExpired \/ ReapRow \/ ReapStop
    \/ Crash \/ RollingUpdate \/ LoadKnownNames \/ CleanOrphans \/ Retire

Spec == Init /\ [][Next]_vars

\* Every call of a goroutine returns: database statements complete, Pause has
\* a 30 s context, waitForReady a deadline. Nothing obliges a client to call,
\* a sandbox to idle or a TTL to elapse.
Fairness ==
    \A p \in Workers \cup {Watcher} : WF_vars(Advance(p))

FairSpec == Spec /\ Fairness

-----------------------------------------------------------------------------
(* Properties *)

\* Types; and only an existing row has a pod IP.
TypeOK ==
    /\ status \in [Sandboxes -> Status]
    /\ podIP \in [Sandboxes -> BOOLEAN]
    /\ cr \in [Sandboxes -> {"absent", "up", "down"}]
    /\ proc \in [Procs -> [op : Ops, pc : Steps,
                            sbx : Sandboxes \cup {NoSandbox}]]
    /\ idleQ \subseteq Sandboxes /\ reapQ \subseteq Sandboxes
    /\ up \in BOOLEAN /\ boot \in {"none", "load", "clean", "drain"}
    /\ known \subseteq Sandboxes /\ boots \in Nat /\ blind \in BOOLEAN
    /\ unlisted \subseteq Sandboxes
    /\ born \subseteq Sandboxes /\ doomed \subseteq Sandboxes
    /\ stranded \subseteq Sandboxes
    /\ \A s \in Sandboxes \ Rows : ~podIP[s]

\* No sandbox loses its CR, and with it the user's volume, while its row says
\* that it exists, unless a user asked for its deletion: not by a provisioning
\* that timed out, not by the orphan cleaning of a start-up, and not by any
\* race of pauses, resumes and deletions. The two ways in which a start-up does
\* take one are named: it had no list, or the old replica of a rolling update
\* inserted the row after the new one had read its list.
LiveRowHasCR ==
    \A s \in Sandboxes :
        status[s] \in {"running", "pausing", "paused", "resuming"} =>
            cr[s] # "absent" \/ s \in doomed \/ blind \/ s \in unlisted

\* p has written the transitional status of s and has yet to write again.
Owns(p, s) ==
    /\ proc[p].sbx = s
    /\ \/ /\ status[s] = "creating"
          /\ proc[p].op = "provision" /\ proc[p].pc # "insert"
       \/ /\ status[s] = "pausing"
          /\ proc[p].op \in {"pause", "idle"} /\ proc[p].pc # "mark"
       \/ /\ status[s] = "resuming"
          /\ proc[p].op = "resume" /\ proc[p].pc # "mark"

\* A row in a transitional status is somebody's work in progress, however the
\* handlers, the watcher and the reaper interleave: only the end of a replica,
\* or a last write that fails, strands one.
TransitionOwned ==
    \A s \in Sandboxes :
        status[s] \in Transitional =>
            s \in stranded \/ \E p \in Procs : Owns(p, s)

\* "Final state lands asynchronously": a transitional status is left, unless
\* the server crashed over it or the write that would leave it failed.
TransitionResolves ==
    \A s \in Sandboxes :
        (status[s] \in Transitional) ~>
            (status[s] \notin Transitional \/ s \in stranded)

\* The late UPDATEs of goroutines that outlive a deletion bring no row back.
DeletedStaysDeleted ==
    [][\A s \in born : status[s] = "none" => status'[s] = "none"]_vars

-----------------------------------------------------------------------------
(* What comments and documentation of the repository say, and the code does
   not do *)

\* StartPlaygroundReaper: "deleting both the row and the underlying sandbox
\* pod" of each expired test sandbox.
ReaperDeletesPod == [][ReapStop => cr'[proc[Reaper].sbx] = "absent"]_vars

\* docs/sandbox-api.md on DELETE: "Deletes the Kubernetes Sandbox CR [...] and
\* removes the DB row".
DeleteRemovesCR ==
    [][\A w \in Workers :
          FinishDelete(w) /\ status'[proc[w].sbx] = "none" =>
              cr[proc[w].sbx] = "absent"]_vars

\* serve.go: "Load known sandbox names from DB to avoid cleaning paused
\* sandboxes".
StartupKeepsPaused ==
    [][\A s \in Sandboxes :
          status[s] = "paused" /\ cr[s] # "absent" /\ CleanOrphans =>
              cr'[s] # "absent"]_vars
=============================================================================
