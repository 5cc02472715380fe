----------------------------- MODULE Supervisor -----------------------------
(***************************************************************************)
(* The supervisor of codex-app-gateway, for one workspace (its key): the   *)
(* registered codex subprocess, the CODEX_HOME directory it works in, and  *)
(* the tarball of that directory in S3. EnsureSubprocess is called by the  *)
(* WebSocket handler and by the broker's resolver, Shutdown by the idle    *)
(* reaper and at exit.                                                     *)
(*                                                                         *)
(* The mutex guards the map only: what comes between two critical sections *)
(* (upload, removal, download, spawn, stop) is a step of its own. There is *)
(* one directory per workspace, so every call works on the same one.       *)
(***************************************************************************)
EXTENDS Naturals

CONSTANTS
    Callers,        \* calls of EnsureSubprocess
    Stoppers,       \* the goroutine of the IdleReaper, and ShutdownAll
    Children,       \* codex subprocesses that may be spawned
    NoChild,
    MaxWork,        \* bound: turns that codex records
    MaxRestarts     \* bound: restarts of the gateway's container

ASSUME SupervisorAssumption ==
    /\ Callers \cap Stoppers = {}
    /\ NoChild \notin Children
    /\ MaxWork \in Nat /\ MaxRestarts \in Nat

VARIABLES
    entry,      \* the handle in Supervisor.children, or NoChild
    alive,      \* the subprocesses that run
    spawned,    \* the subprocesses that were ever started
    served,     \* the subprocesses whose handle a caller was given
    home,       \* the directory: the last turn recorded in it, or Absent
    store,      \* the object in S3: the last turn recorded in it
    work,       \* turns recorded so far
    proc,       \* per caller and stopper: where it is and its child
    restarts,
    overlapped, \* history: two calls were at work at the same time
    excused     \* history: an upload failed, or the disk was lost

vars == <<entry, alive, spawned, served, home, store, work, proc, restarts,
          overlapped, excused>>
disk == <<home, store, work, excused>>
children == <<alive, spawned>>

Absent == MaxWork + 1
Contents == 0 .. MaxWork    \* 0: nothing recorded; in S3, no object either

Procs == Callers \cup Stoppers
Steps == {"rest", "salvage", "sweep", "build", "mkdir", "download", "config",
          "spawn", "undo", "register", "discard", "stop", "upload", "remove"}

Resting == [pc |-> "rest", child |-> NoChild]

At(p, pc) == proc[p].pc = pc
Goto(p, pc) == proc' = [proc EXCEPT ![p].pc = pc]
Hold(p, pc, c) == proc' = [proc EXCEPT ![p] = [pc |-> pc, child |-> c]]
Finish(p) == proc' = [proc EXCEPT ![p] = Resting]

\* p leaves its rest: is anybody else at work?
NoteOverlap(p) ==
    overlapped' = (overlapped \/ \E q \in Procs \ {p} : proc[q] # Resting)

Serve(c) == served' = served \cup {c}

-----------------------------------------------------------------------------
(* CODEX_HOME and its tarball: codexhome.Manager, codexhome.S3Backend *)

\* NewTmpDir is MkdirAll: a directory that is there is taken as it is.
MakeHome == home' = IF home = Absent THEN 0 ELSE home

\* RemoveTmpDir; callers log or drop its error.
RemoveHome == home' = Absent \/ UNCHANGED home

\* Upload fails when there is no directory to walk, or at S3.
Upload ==
    \/ home # Absent /\ store' = home /\ UNCHANGED excused
    \/ excused' = TRUE /\ UNCHANGED store

\* Download overwrites what the tarball holds, and makes missing directories;
\* ErrObjectNotFound counts as a success that changes nothing.
Download == home' = IF store = 0 THEN home ELSE store

-----------------------------------------------------------------------------
(* EnsureSubprocess *)

\* Mutant: whatever the map holds is returned.
EnsureUnchecked(p) ==
    /\ At(p, "rest")
    /\ Serve(entry)
    /\ UNCHANGED <<entry, children, disk, proc, restarts, overlapped>>

\* The fast path: the registered handle, if its process runs.
EnsureHit(p) ==
    /\ At(p, "rest")
    /\ entry \in alive
    /\ Serve(entry)
    /\ UNCHANGED <<entry, children, disk, proc, restarts, overlapped>>

\* The registered process has crashed: its entry is dropped at once.
EnsureDead(p) ==
    /\ At(p, "rest")
    /\ entry # NoChild /\ entry \notin alive
    /\ entry' = NoChild
    /\ NoteOverlap(p)
    /\ Goto(p, "salvage")
    /\ UNCHANGED <<children, served, disk, restarts>>

EnsureMiss(p) ==
    /\ At(p, "rest")
    /\ entry = NoChild
    /\ NoteOverlap(p)
    /\ Goto(p, "build")
    /\ UNCHANGED <<entry, children, served, disk, restarts>>

\* The state of the dead process is saved, best effort, and its home removed.
Salvage(p) ==
    /\ At(p, "salvage")
    /\ Upload
    /\ Goto(p, "sweep")
    /\ UNCHANGED <<entry, children, served, home, work, restarts, overlapped>>

Sweep(p) ==
    /\ At(p, "sweep")
    /\ RemoveHome
    /\ Goto(p, "build")
    /\ UNCHANGED <<entry, children, served, store, work, excused, restarts,
                   overlapped>>

\* mintLoopbackToken and the config builder.
Build(p) ==
    /\ At(p, "build")
    /\ Goto(p, "mkdir") \/ Finish(p)
    /\ UNCHANGED <<entry, children, served, disk, restarts, overlapped>>

MakeTmpDir(p) ==
    /\ At(p, "mkdir")
    /\ \/ MakeHome /\ Goto(p, "download")
       \/ (MakeHome \/ UNCHANGED home) /\ Finish(p)
    /\ UNCHANGED <<entry, children, served, store, work, excused, restarts,
                   overlapped>>

DownloadHome(p) ==
    /\ At(p, "download")
    /\ \/ Download /\ Goto(p, "config")
       \/ (Download \/ UNCHANGED home) /\ Goto(p, "undo")
    /\ UNCHANGED <<entry, children, served, store, work, excused, restarts,
                   overlapped>>

WriteConfig(p) ==
    /\ At(p, "config")
    /\ \/ home # Absent /\ Goto(p, "spawn")
       \/ Goto(p, "undo")
    /\ UNCHANGED <<entry, children, served, disk, restarts, overlapped>>

\* spawnCodexAppServer: the process answers /readyz, or it is killed.
Spawn(p) ==
    /\ At(p, "spawn")
    /\ \/ \E c \in Children \ spawned :
             /\ alive' = alive \cup {c} /\ spawned' = spawned \cup {c}
             /\ Hold(p, "register", c)
       \/ Goto(p, "undo") /\ UNCHANGED children
    /\ UNCHANGED <<entry, served, disk, restarts, overlapped>>

\* Every failure after NewTmpDir removes the directory.
Undo(p) ==
    /\ At(p, "undo")
    /\ RemoveHome
    /\ Finish(p)
    /\ UNCHANGED <<entry, children, served, store, work, excused, restarts,
                   overlapped>>

\* Mutant: the loser of a race forgets its process.
RegisterForgets(p) ==
    /\ At(p, "register")
    /\ IF entry # NoChild THEN Serve(entry) /\ UNCHANGED entry
       ELSE entry' = proc[p].child /\ Serve(proc[p].child)
    /\ Finish(p)
    /\ UNCHANGED <<children, disk, restarts, overlapped>>

\* Mutant: the loser of a race is given its own process.
RegisterServesOwn(p) ==
    /\ At(p, "register")
    /\ Serve(proc[p].child)
    /\ IF entry # NoChild THEN Goto(p, "discard") /\ UNCHANGED entry
       ELSE entry' = proc[p].child /\ Finish(p)
    /\ UNCHANGED <<children, disk, restarts, overlapped>>

\* The second critical section. Whoever finds an entry has lost: it returns
\* the winner's handle and leaves a goroutine that discards its own spawn.
Register(p) ==
    /\ At(p, "register")
    /\ IF entry # NoChild
       THEN Serve(entry) /\ Goto(p, "discard") /\ UNCHANGED entry
       ELSE entry' = proc[p].child /\ Serve(proc[p].child) /\ Finish(p)
    /\ UNCHANGED <<children, disk, restarts, overlapped>>

\* That goroutine: Stop, then RemoveTmpDir (Undo).
Discard(p) ==
    /\ At(p, "discard")
    /\ alive' = alive \ {proc[p].child}
    /\ Hold(p, "undo", NoChild)
    /\ UNCHANGED <<entry, spawned, served, disk, restarts, overlapped>>

-----------------------------------------------------------------------------
(* Shutdown *)

\* The reaper has seen the key idle in a snapshot, or the gateway exits. Some
\* child is registered by the time Shutdown takes the lock, not always the one
\* that was idle.
ShutdownBegins(q) ==
    /\ At(q, "rest")
    /\ entry # NoChild
    /\ entry' = NoChild
    /\ NoteOverlap(q)
    /\ Hold(q, "stop", entry)
    /\ UNCHANGED <<children, served, disk, restarts>>

\* Mutant: the process is left running.
StopForgets(q) ==
    /\ At(q, "stop")
    /\ Hold(q, "upload", NoChild)
    /\ UNCHANGED <<entry, children, served, disk, restarts, overlapped>>

\* ChildHandle.Stop returns when the process has gone.
StopChild(q) ==
    /\ At(q, "stop")
    /\ alive' = alive \ {proc[q].child}
    /\ Hold(q, "upload", NoChild)
    /\ UNCHANGED <<entry, spawned, served, disk, restarts, overlapped>>

\* Mutant: the directory is gone before it is uploaded.
UploadAfterRemoval(q) ==
    /\ At(q, "upload")
    /\ home' = Absent
    /\ Goto(q, "remove")
    /\ UNCHANGED <<entry, children, served, store, work, excused, restarts,
                   overlapped>>

UploadHome(q) ==
    /\ At(q, "upload")
    /\ Upload
    /\ Goto(q, "remove")
    /\ UNCHANGED <<entry, children, served, home, work, restarts, overlapped>>

RemoveTmpDir(q) ==
    /\ At(q, "remove")
    /\ RemoveHome
    /\ Finish(q)
    /\ UNCHANGED <<entry, children, served, store, work, excused, restarts,
                   overlapped>>

-----------------------------------------------------------------------------
(* Subprocesses, and the container *)

\* A subprocess crashes.
Die(c) ==
    /\ c \in alive
    /\ alive' = alive \ {c}
    /\ UNCHANGED <<entry, spawned, served, disk, proc, restarts, overlapped>>

\* codex finishes a turn of a client and records it in its home, if that is
\* still there.
RecordTurn(c) ==
    /\ c \in alive \cap served
    /\ work < MaxWork
    /\ work' = work + 1
    /\ home' = IF home = Absent THEN Absent ELSE work'
    /\ UNCHANGED <<entry, children, served, store, proc, restarts, overlapped,
                   excused>>

\* The container is killed: its processes and its disk are gone.
Restart ==
    /\ restarts < MaxRestarts
    /\ restarts' = restarts + 1
    /\ entry' = NoChild
    /\ alive' = {}
    /\ home' = Absent
    /\ proc' = [p \in Procs |-> Resting]
    /\ excused' = TRUE
    /\ UNCHANGED <<spawned, served, store, work, overlapped>>

-----------------------------------------------------------------------------
Init ==
    /\ entry = NoChild
    /\ alive = {} /\ spawned = {} /\ served = {}
    /\ home = Absent /\ store = 0 /\ work = 0
    /\ proc = [p \in Procs |-> Resting]
    /\ restarts = 0 /\ overlapped = FALSE /\ excused = FALSE

Ensure(p) == EnsureHit(p) \/ EnsureDead(p) \/ EnsureMiss(p)

Advance(p) ==
    \/ Salvage(p) \/ Sweep(p) \/ Build(p) \/ MakeTmpDir(p) \/ DownloadHome(p)
    \/ WriteConfig(p) \/ Spawn(p) \/ Undo(p) \/ Register(p) \/ Discard(p)
    \/ StopChild(p) \/ UploadHome(p) \/ RemoveTmpDir(p)

Next ==
    \/ \E p \in Callers : Ensure(p)
    \/ \E q \in Stoppers : ShutdownBegins(q)
    \/ \E p \in Procs : Advance(p)
    \/ \E c \in Children : Die(c) \/ RecordTurn(c)
    \/ Restart

Spec == Init /\ [][Next]_vars

\* Calls return: S3 and the spawn answer or fail, and Stop kills after 10 s.
FairSpec == Spec /\ \A p \in Procs : WF_vars(Advance(p))

-----------------------------------------------------------------------------
(* Properties *)

TypeOK ==
    /\ entry \in Children \cup {NoChild}
    /\ alive \subseteq spawned /\ spawned \subseteq Children
    /\ served \subseteq spawned
    /\ home \in Contents \cup {Absent} /\ store \in Contents
    /\ work \in Contents
    /\ proc \in [Procs -> [pc : Steps, child : Children \cup {NoChild}]]
    /\ restarts \in 0 .. MaxRestarts
    /\ overlapped \in BOOLEAN /\ excused \in BOOLEAN

\* No subprocess is leaked: one that runs is registered, or the goroutine that
\* spawned or unregistered it still holds it and will stop or register it,
\* whatever the races of spawns, crashes and shutdowns of a workspace.
NoLeakedChild ==
    \A c \in alive :
        c = entry \/ \E p \in Procs :
            proc[p].child = c /\ proc[p].pc \in {"register", "discard", "stop"}

\* "One spawn per key": at any time, clients are connected to at most one
\* subprocess that is not being shut down.
OneServed ==
    \A c \in alive \cap served :
        c = entry \/ \E q \in Stoppers : proc[q] = [pc |-> "stop", child |-> c]

\* A subprocess that is not, or no longer, registered is stopped in the end.
UnregisteredStops ==
    \A c \in Children :
        (c \in alive /\ c # entry) ~> (c \notin alive \/ c = entry)

\* When calls for a workspace do not overlap, no turn is lost: crashes of the
\* subprocess, shutdowns and failed spawns in any order leave the last turn on
\* disk or in S3, unless an upload failed or the container was killed.
TurnsSurvive == overlapped \/ excused \/ work \in {home, store}

-----------------------------------------------------------------------------
(* What the comments say, and the code does not do *)

\* Download wants a directory that "must exist and be owned by the caller",
\* and a loser of a race "discards their spawn" alone: the home of the
\* registered subprocess would be nobody else's to remove.
RegisteredHasHome == entry \in alive => home # Absent
=============================================================================
