-------------------------- MODULE AppGateway_proofs --------------------------
(***************************************************************************)
(* TLAPS proofs about the two processes of codex-app-gateway, for any      *)
(* number of calls, subprocesses, turns, restarts and connections.         *)
(*                                                                         *)
(* Supervisor: a subprocess has one keeper at a time. Its spawner holds    *)
(* it, alone, until it registers or discards it; a shutdown takes it out   *)
(* of the map and holds it, alone, until it has stopped it; and nobody     *)
(* else takes a running entry out. So what runs is kept, and what clients  *)
(* were given is registered or on its way to the stop.                     *)
(*                                                                         *)
(* Broker: CallKnown says all of one call, its place, its registrations,   *)
(* what codex does for it and what it will hear. A step of one call leaves *)
(* what is known of the others (OthersKnown), so each step shows CallKnown *)
(* of the call that takes it. A dial needs that the entry's lock is held   *)
(* and that the connection it replaces is of no use any more (LockHeld).   *)
(***************************************************************************)
EXTENDS Supervisor, Broker, TLAPS

-----------------------------------------------------------------------------
(* The supervisor *)

Keeping == {"register", "discard", "stop"}

\* Who holds a subprocess, and in which steps.
Programs ==
    \A p \in Procs :
        /\ proc[p].child # NoChild <=> proc[p].pc \in Keeping
        /\ proc[p].child \in spawned \cup {NoChild}
        /\ proc[p].pc = "stop" => p \in Stoppers

\* A subprocess is held once, or registered, or neither.
Apart ==
    /\ entry \in spawned \cup {NoChild}
    /\ \A p \in Procs : proc[p].child # NoChild => proc[p].child # entry
    /\ \A p, q \in Procs :
          proc[p].child = proc[q].child /\ proc[p].child # NoChild => p = q

\* No client knows a subprocess before it is registered.
Fresh ==
    \A p \in Procs :
        proc[p].pc \in {"register", "discard"} => proc[p].child \notin served

\* Without an overlap, one call is at work at most, and while one is, nothing
\* is registered.
Serial ==
    ~overlapped =>
        /\ \A p, q \in Procs :
              proc[p].pc # "rest" /\ proc[q].pc # "rest" => p = q
        /\ \A p \in Procs : proc[p].pc # "rest" => entry = NoChild
        /\ \A p \in Procs : proc[p].pc # "discard"

\* Nothing is ahead of what was recorded.
Behind ==
    /\ home # Absent => home <= work
    /\ store <= work

\* Where the last turn is, by the place of the call at work.
Saved ==
    ~overlapped /\ ~excused =>
        /\ entry # NoChild => home = work
        /\ entry = NoChild /\ (\A p \in Procs : proc[p].pc = "rest") =>
              store = work
        /\ \A p \in Procs :
              /\ proc[p].pc \in {"salvage", "config", "spawn", "register",
                                 "stop", "upload"} => home = work
              /\ proc[p].pc \in {"sweep", "build", "mkdir", "download",
                                 "config", "spawn", "register", "undo",
                                 "remove"} => store = work
              /\ proc[p].pc = "download" => home # Absent

IInv ==
    /\ TypeOK /\ Programs /\ Apart /\ Fresh /\ NoLeakedChild /\ OneServed
    /\ Serial /\ Behind /\ Saved

-----------------------------------------------------------------------------
(* Steps *)

\* Every step of the specification keeps the types.
LEMMA TypeStep ==
    ASSUME TypeOK, Programs, Apart, [Next]_vars
    PROVE  TypeOK'
<1> USE SupervisorAssumption
        DEF TypeOK, Procs, Steps, Resting, disk, children,
            Contents, Absent, Programs, Keeping, Apart
<1>1. ASSUME NEW p \in Callers, EnsureHit(p) PROVE TypeOK'
  BY <1>1 DEF EnsureHit, At, Serve
<1>2. ASSUME NEW p \in Callers, EnsureDead(p) PROVE TypeOK'
  BY <1>2 DEF EnsureDead, At, Goto, NoteOverlap
<1>3. ASSUME NEW p \in Callers, EnsureMiss(p) PROVE TypeOK'
  BY <1>3 DEF EnsureMiss, At, Goto, NoteOverlap
<1>4. ASSUME NEW p \in Stoppers, ShutdownBegins(p) PROVE TypeOK'
  BY <1>4 DEF ShutdownBegins, At, Hold, NoteOverlap
<1>5. ASSUME NEW p \in Procs, Salvage(p) PROVE TypeOK'
  <2>1. store' \in Contents /\ excused' \in BOOLEAN
    BY <1>5 DEF Salvage, Upload
  <2>2. proc' \in [Procs -> [pc : Steps, child : Children \cup {NoChild}]]
    BY <1>5 DEF Salvage, Goto
  <2> QED BY <1>5, <2>1, <2>2 DEF Salvage
<1>6. ASSUME NEW p \in Procs, Sweep(p) PROVE TypeOK'
  BY <1>6 DEF Sweep, At, Goto, RemoveHome
<1>7. ASSUME NEW p \in Procs, Build(p) PROVE TypeOK'
  BY <1>7 DEF Build, At, Goto, Finish
<1>8. ASSUME NEW p \in Procs, MakeTmpDir(p) PROVE TypeOK'
  BY <1>8 DEF MakeTmpDir, At, Goto, Finish, MakeHome
<1>9. ASSUME NEW p \in Procs, DownloadHome(p) PROVE TypeOK'
  BY <1>9 DEF DownloadHome, At, Goto, Download
<1>10. ASSUME NEW p \in Procs, WriteConfig(p) PROVE TypeOK'
  BY <1>10 DEF WriteConfig, At, Goto
<1>11. ASSUME NEW p \in Procs, Spawn(p) PROVE TypeOK'
  BY <1>11 DEF Spawn, At, Goto, Hold
<1>12. ASSUME NEW p \in Procs, Undo(p) PROVE TypeOK'
  BY <1>12 DEF Undo, At, Finish, RemoveHome
<1>13. ASSUME NEW p \in Procs, Register(p) PROVE TypeOK'
  BY <1>13 DEF Register, At, Goto, Finish, Serve
<1>14. ASSUME NEW p \in Procs, Discard(p) PROVE TypeOK'
  BY <1>14 DEF Discard, At, Hold
<1>15. ASSUME NEW p \in Procs, StopChild(p) PROVE TypeOK'
  BY <1>15 DEF StopChild, At, Hold
<1>16. ASSUME NEW p \in Procs, UploadHome(p) PROVE TypeOK'
  <2>1. store' \in Contents /\ excused' \in BOOLEAN
    BY <1>16 DEF UploadHome, Upload
  <2>2. proc' \in [Procs -> [pc : Steps, child : Children \cup {NoChild}]]
    BY <1>16 DEF UploadHome, Goto
  <2> QED BY <1>16, <2>1, <2>2 DEF UploadHome
<1>17. ASSUME NEW p \in Procs, RemoveTmpDir(p) PROVE TypeOK'
  BY <1>17 DEF RemoveTmpDir, At, Finish, RemoveHome
<1>18. ASSUME NEW c \in Children, Die(c) PROVE TypeOK'
  BY <1>18 DEF Die
<1>19. ASSUME NEW c \in Children, RecordTurn(c) PROVE TypeOK'
  BY <1>19 DEF RecordTurn
<1>20. CASE Restart
  BY <1>20 DEF Restart
<1>21. CASE UNCHANGED vars
  BY <1>21 DEF vars
<1> QED
  BY <1>1, <1>2, <1>3, <1>4, <1>5, <1>6, <1>7, <1>8, <1>9, <1>10,
     <1>11, <1>12, <1>13, <1>14, <1>15, <1>16, <1>17, <1>18,
     <1>19, <1>20, <1>21
  DEF Next, Ensure, Advance

\* A step takes a subprocess or gives it up when its place says so.
LEMMA ProgramsStep ==
    ASSUME TypeOK, Programs, Apart, [Next]_vars
    PROVE  Programs'
<1> USE SupervisorAssumption
        DEF TypeOK, Procs, Steps, Resting, disk, children,
            Programs, Keeping, Apart
<1>1. ASSUME NEW p \in Callers, EnsureHit(p) PROVE Programs'
  BY <1>1 DEF EnsureHit, At, Serve
<1>2. ASSUME NEW p \in Callers, EnsureDead(p) PROVE Programs'
  BY <1>2 DEF EnsureDead, At, Goto, NoteOverlap
<1>3. ASSUME NEW p \in Callers, EnsureMiss(p) PROVE Programs'
  BY <1>3 DEF EnsureMiss, At, Goto, NoteOverlap
<1>4. ASSUME NEW p \in Stoppers, ShutdownBegins(p) PROVE Programs'
  BY <1>4 DEF ShutdownBegins, At, Hold, NoteOverlap
<1>5. ASSUME NEW p \in Procs, Salvage(p) PROVE Programs'
  BY <1>5 DEF Salvage, At, Goto, Upload
<1>6. ASSUME NEW p \in Procs, Sweep(p) PROVE Programs'
  BY <1>6 DEF Sweep, At, Goto, RemoveHome
<1>7. ASSUME NEW p \in Procs, Build(p) PROVE Programs'
  BY <1>7 DEF Build, At, Goto, Finish
<1>8. ASSUME NEW p \in Procs, MakeTmpDir(p) PROVE Programs'
  BY <1>8 DEF MakeTmpDir, At, Goto, Finish, MakeHome
<1>9. ASSUME NEW p \in Procs, DownloadHome(p) PROVE Programs'
  BY <1>9 DEF DownloadHome, At, Goto, Download
<1>10. ASSUME NEW p \in Procs, WriteConfig(p) PROVE Programs'
  BY <1>10 DEF WriteConfig, At, Goto
<1>11. ASSUME NEW p \in Procs, Spawn(p) PROVE Programs'
  BY <1>11 DEF Spawn, At, Goto, Hold
<1>12. ASSUME NEW p \in Procs, Undo(p) PROVE Programs'
  BY <1>12 DEF Undo, At, Finish, RemoveHome
<1>13. ASSUME NEW p \in Procs, Register(p) PROVE Programs'
  BY <1>13 DEF Register, At, Goto, Finish, Serve
<1>14. ASSUME NEW p \in Procs, Discard(p) PROVE Programs'
  BY <1>14 DEF Discard, At, Hold
<1>15. ASSUME NEW p \in Procs, StopChild(p) PROVE Programs'
  BY <1>15 DEF StopChild, At, Hold
<1>16. ASSUME NEW p \in Procs, UploadHome(p) PROVE Programs'
  BY <1>16 DEF UploadHome, At, Goto, Upload
<1>17. ASSUME NEW p \in Procs, RemoveTmpDir(p) PROVE Programs'
  BY <1>17 DEF RemoveTmpDir, At, Finish, RemoveHome
<1>18. ASSUME NEW c \in Children, Die(c) PROVE Programs'
  BY <1>18 DEF Die
<1>19. ASSUME NEW c \in Children, RecordTurn(c) PROVE Programs'
  BY <1>19 DEF RecordTurn
<1>20. CASE Restart
  BY <1>20 DEF Restart
<1>21. CASE UNCHANGED vars
  BY <1>21 DEF vars
<1> QED
  BY <1>1, <1>2, <1>3, <1>4, <1>5, <1>6, <1>7, <1>8, <1>9, <1>10,
     <1>11, <1>12, <1>13, <1>14, <1>15, <1>16, <1>17, <1>18,
     <1>19, <1>20, <1>21
  DEF Next, Ensure, Advance

\* What is spawned is new, and what is taken from the map leaves it.
LEMMA ApartStep ==
    ASSUME TypeOK, Programs, Apart, [Next]_vars
    PROVE  Apart'
<1> USE SupervisorAssumption
        DEF TypeOK, Procs, Steps, Resting, disk, children,
            Programs, Keeping, Apart
<1>1. ASSUME NEW p \in Callers, EnsureHit(p) PROVE Apart'
  BY <1>1 DEF EnsureHit, At, Serve
<1>2. ASSUME NEW p \in Callers, EnsureDead(p) PROVE Apart'
  BY <1>2 DEF EnsureDead, At, Goto, NoteOverlap
<1>3. ASSUME NEW p \in Callers, EnsureMiss(p) PROVE Apart'
  BY <1>3 DEF EnsureMiss, At, Goto, NoteOverlap
<1>4. ASSUME NEW p \in Stoppers, ShutdownBegins(p) PROVE Apart'
  BY <1>4 DEF ShutdownBegins, At, Hold, NoteOverlap
<1>5. ASSUME NEW p \in Procs, Salvage(p) PROVE Apart'
  BY <1>5 DEF Salvage, At, Goto, Upload
<1>6. ASSUME NEW p \in Procs, Sweep(p) PROVE Apart'
  BY <1>6 DEF Sweep, At, Goto, RemoveHome
<1>7. ASSUME NEW p \in Procs, Build(p) PROVE Apart'
  BY <1>7 DEF Build, At, Goto, Finish
<1>8. ASSUME NEW p \in Procs, MakeTmpDir(p) PROVE Apart'
  BY <1>8 DEF MakeTmpDir, At, Goto, Finish, MakeHome
<1>9. ASSUME NEW p \in Procs, DownloadHome(p) PROVE Apart'
  BY <1>9 DEF DownloadHome, At, Goto, Download
<1>10. ASSUME NEW p \in Procs, WriteConfig(p) PROVE Apart'
  BY <1>10 DEF WriteConfig, At, Goto
<1>11. ASSUME NEW p \in Procs, Spawn(p) PROVE Apart'
  BY <1>11 DEF Spawn, At, Goto, Hold
<1>12. ASSUME NEW p \in Procs, Undo(p) PROVE Apart'
  BY <1>12 DEF Undo, At, Finish, RemoveHome
<1>13. ASSUME NEW p \in Procs, Register(p) PROVE Apart'
  BY <1>13 DEF Register, At, Goto, Finish, Serve
<1>14. ASSUME NEW p \in Procs, Discard(p) PROVE Apart'
  BY <1>14 DEF Discard, At, Hold
<1>15. ASSUME NEW p \in Procs, StopChild(p) PROVE Apart'
  BY <1>15 DEF StopChild, At, Hold
<1>16. ASSUME NEW p \in Procs, UploadHome(p) PROVE Apart'
  BY <1>16 DEF UploadHome, At, Goto, Upload
<1>17. ASSUME NEW p \in Procs, RemoveTmpDir(p) PROVE Apart'
  BY <1>17 DEF RemoveTmpDir, At, Finish, RemoveHome
<1>18. ASSUME NEW c \in Children, Die(c) PROVE Apart'
  BY <1>18 DEF Die
<1>19. ASSUME NEW c \in Children, RecordTurn(c) PROVE Apart'
  BY <1>19 DEF RecordTurn
<1>20. CASE Restart
  BY <1>20 DEF Restart
<1>21. CASE UNCHANGED vars
  BY <1>21 DEF vars
<1> QED
  BY <1>1, <1>2, <1>3, <1>4, <1>5, <1>6, <1>7, <1>8, <1>9, <1>10,
     <1>11, <1>12, <1>13, <1>14, <1>15, <1>16, <1>17, <1>18,
     <1>19, <1>20, <1>21
  DEF Next, Ensure, Advance

\* A call is given the registered subprocess, never one that is held.
LEMMA FreshStep ==
    ASSUME TypeOK, Programs, Apart, Fresh, [Next]_vars
    PROVE  Fresh'
<1> USE SupervisorAssumption
        DEF TypeOK, Procs, Steps, Resting, disk, children,
            Programs, Keeping, Apart, Fresh
<1>1. ASSUME NEW p \in Callers, EnsureHit(p) PROVE Fresh'
  BY <1>1 DEF EnsureHit, At, Serve
<1>2. ASSUME NEW p \in Callers, EnsureDead(p) PROVE Fresh'
  BY <1>2 DEF EnsureDead, At, Goto, NoteOverlap
<1>3. ASSUME NEW p \in Callers, EnsureMiss(p) PROVE Fresh'
  BY <1>3 DEF EnsureMiss, At, Goto, NoteOverlap
<1>4. ASSUME NEW p \in Stoppers, ShutdownBegins(p) PROVE Fresh'
  BY <1>4 DEF ShutdownBegins, At, Hold, NoteOverlap
<1>5. ASSUME NEW p \in Procs, Salvage(p) PROVE Fresh'
  BY <1>5 DEF Salvage, At, Goto, Upload
<1>6. ASSUME NEW p \in Procs, Sweep(p) PROVE Fresh'
  BY <1>6 DEF Sweep, At, Goto, RemoveHome
<1>7. ASSUME NEW p \in Procs, Build(p) PROVE Fresh'
  BY <1>7 DEF Build, At, Goto, Finish
<1>8. ASSUME NEW p \in Procs, MakeTmpDir(p) PROVE Fresh'
  BY <1>8 DEF MakeTmpDir, At, Goto, Finish, MakeHome
<1>9. ASSUME NEW p \in Procs, DownloadHome(p) PROVE Fresh'
  BY <1>9 DEF DownloadHome, At, Goto, Download
<1>10. ASSUME NEW p \in Procs, WriteConfig(p) PROVE Fresh'
  BY <1>10 DEF WriteConfig, At, Goto
<1>11. ASSUME NEW p \in Procs, Spawn(p) PROVE Fresh'
  BY <1>11 DEF Spawn, At, Goto, Hold
<1>12. ASSUME NEW p \in Procs, Undo(p) PROVE Fresh'
  BY <1>12 DEF Undo, At, Finish, RemoveHome
<1>13. ASSUME NEW p \in Procs, Register(p) PROVE Fresh'
  BY <1>13 DEF Register, At, Goto, Finish, Serve
<1>14. ASSUME NEW p \in Procs, Discard(p) PROVE Fresh'
  BY <1>14 DEF Discard, At, Hold
<1>15. ASSUME NEW p \in Procs, StopChild(p) PROVE Fresh'
  BY <1>15 DEF StopChild, At, Hold
<1>16. ASSUME NEW p \in Procs, UploadHome(p) PROVE Fresh'
  BY <1>16 DEF UploadHome, At, Goto, Upload
<1>17. ASSUME NEW p \in Procs, RemoveTmpDir(p) PROVE Fresh'
  BY <1>17 DEF RemoveTmpDir, At, Finish, RemoveHome
<1>18. ASSUME NEW c \in Children, Die(c) PROVE Fresh'
  BY <1>18 DEF Die
<1>19. ASSUME NEW c \in Children, RecordTurn(c) PROVE Fresh'
  BY <1>19 DEF RecordTurn
<1>20. CASE Restart
  BY <1>20 DEF Restart
<1>21. CASE UNCHANGED vars
  BY <1>21 DEF vars
<1> QED
  BY <1>1, <1>2, <1>3, <1>4, <1>5, <1>6, <1>7, <1>8, <1>9, <1>10,
     <1>11, <1>12, <1>13, <1>14, <1>15, <1>16, <1>17, <1>18,
     <1>19, <1>20, <1>21
  DEF Next, Ensure, Advance

\* Whoever gives a running subprocess up has stopped or registered it.
LEMMA LeakStep ==
    ASSUME TypeOK, Programs, Apart, NoLeakedChild, [Next]_vars
    PROVE  NoLeakedChild'
<1> USE SupervisorAssumption
        DEF TypeOK, Procs, Steps, Resting, disk, children,
            Programs, Keeping, Apart, NoLeakedChild
<1>1. ASSUME NEW p \in Callers, EnsureHit(p) PROVE NoLeakedChild'
  BY <1>1 DEF EnsureHit, At, Serve
<1>2. ASSUME NEW p \in Callers, EnsureDead(p) PROVE NoLeakedChild'
  BY <1>2 DEF EnsureDead, At, Goto, NoteOverlap
<1>3. ASSUME NEW p \in Callers, EnsureMiss(p) PROVE NoLeakedChild'
  BY <1>3 DEF EnsureMiss, At, Goto, NoteOverlap
<1>4. ASSUME NEW p \in Stoppers, ShutdownBegins(p) PROVE NoLeakedChild'
  BY <1>4 DEF ShutdownBegins, At, Hold, NoteOverlap
<1>5. ASSUME NEW p \in Procs, Salvage(p) PROVE NoLeakedChild'
  BY <1>5 DEF Salvage, At, Goto, Upload
<1>6. ASSUME NEW p \in Procs, Sweep(p) PROVE NoLeakedChild'
  BY <1>6 DEF Sweep, At, Goto, RemoveHome
<1>7. ASSUME NEW p \in Procs, Build(p) PROVE NoLeakedChild'
  BY <1>7 DEF Build, At, Goto, Finish
<1>8. ASSUME NEW p \in Procs, MakeTmpDir(p) PROVE NoLeakedChild'
  BY <1>8 DEF MakeTmpDir, At, Goto, Finish, MakeHome
<1>9. ASSUME NEW p \in Procs, DownloadHome(p) PROVE NoLeakedChild'
  BY <1>9 DEF DownloadHome, At, Goto, Download
<1>10. ASSUME NEW p \in Procs, WriteConfig(p) PROVE NoLeakedChild'
  BY <1>10 DEF WriteConfig, At, Goto
<1>11. ASSUME NEW p \in Procs, Spawn(p) PROVE NoLeakedChild'
  BY <1>11 DEF Spawn, At, Goto, Hold
<1>12. ASSUME NEW p \in Procs, Undo(p) PROVE NoLeakedChild'
  BY <1>12 DEF Undo, At, Finish, RemoveHome
<1>13. ASSUME NEW p \in Procs, Register(p) PROVE NoLeakedChild'
  BY <1>13 DEF Register, At, Goto, Finish, Serve
<1>14. ASSUME NEW p \in Procs, Discard(p) PROVE NoLeakedChild'
  BY <1>14 DEF Discard, At, Hold
<1>15. ASSUME NEW p \in Procs, StopChild(p) PROVE NoLeakedChild'
  BY <1>15 DEF StopChild, At, Hold
<1>16. ASSUME NEW p \in Procs, UploadHome(p) PROVE NoLeakedChild'
  BY <1>16 DEF UploadHome, At, Goto, Upload
<1>17. ASSUME NEW p \in Procs, RemoveTmpDir(p) PROVE NoLeakedChild'
  BY <1>17 DEF RemoveTmpDir, At, Finish, RemoveHome
<1>18. ASSUME NEW c \in Children, Die(c) PROVE NoLeakedChild'
  BY <1>18 DEF Die
<1>19. ASSUME NEW c \in Children, RecordTurn(c) PROVE NoLeakedChild'
  BY <1>19 DEF RecordTurn
<1>20. CASE Restart
  BY <1>20 DEF Restart
<1>21. CASE UNCHANGED vars
  BY <1>21 DEF vars
<1> QED
  BY <1>1, <1>2, <1>3, <1>4, <1>5, <1>6, <1>7, <1>8, <1>9, <1>10,
     <1>11, <1>12, <1>13, <1>14, <1>15, <1>16, <1>17, <1>18,
     <1>19, <1>20, <1>21
  DEF Next, Ensure, Advance

\* A running entry only leaves the map for a shutdown.
LEMMA ServedStep ==
    ASSUME TypeOK, Programs, Apart, Fresh, OneServed, [Next]_vars
    PROVE  OneServed'
<1> USE SupervisorAssumption
        DEF TypeOK, Procs, Steps, Resting, disk, children,
            Programs, Keeping, Apart, Fresh, OneServed
<1>1. ASSUME NEW p \in Callers, EnsureHit(p) PROVE OneServed'
  BY <1>1 DEF EnsureHit, At, Serve
<1>2. ASSUME NEW p \in Callers, EnsureDead(p) PROVE OneServed'
  BY <1>2 DEF EnsureDead, At, Goto, NoteOverlap
<1>3. ASSUME NEW p \in Callers, EnsureMiss(p) PROVE OneServed'
  BY <1>3 DEF EnsureMiss, At, Goto, NoteOverlap
<1>4. ASSUME NEW p \in Stoppers, ShutdownBegins(p) PROVE OneServed'
  BY <1>4 DEF ShutdownBegins, At, Hold, NoteOverlap
<1>5. ASSUME NEW p \in Procs, Salvage(p) PROVE OneServed'
  BY <1>5 DEF Salvage, At, Goto, Upload
<1>6. ASSUME NEW p \in Procs, Sweep(p) PROVE OneServed'
  BY <1>6 DEF Sweep, At, Goto, RemoveHome
<1>7. ASSUME NEW p \in Procs, Build(p) PROVE OneServed'
  BY <1>7 DEF Build, At, Goto, Finish
<1>8. ASSUME NEW p \in Procs, MakeTmpDir(p) PROVE OneServed'
  BY <1>8 DEF MakeTmpDir, At, Goto, Finish, MakeHome
<1>9. ASSUME NEW p \in Procs, DownloadHome(p) PROVE OneServed'
  BY <1>9 DEF DownloadHome, At, Goto, Download
<1>10. ASSUME NEW p \in Procs, WriteConfig(p) PROVE OneServed'
  BY <1>10 DEF WriteConfig, At, Goto
<1>11. ASSUME NEW p \in Procs, Spawn(p) PROVE OneServed'
  BY <1>11 DEF Spawn, At, Goto, Hold
<1>12. ASSUME NEW p \in Procs, Undo(p) PROVE OneServed'
  BY <1>12 DEF Undo, At, Finish, RemoveHome
<1>13. ASSUME NEW p \in Procs, Register(p) PROVE OneServed'
  BY <1>13 DEF Register, At, Goto, Finish, Serve
<1>14. ASSUME NEW p \in Procs, Discard(p) PROVE OneServed'
  BY <1>14 DEF Discard, At, Hold
<1>15. ASSUME NEW p \in Procs, StopChild(p) PROVE OneServed'
  BY <1>15 DEF StopChild, At, Hold
<1>16. ASSUME NEW p \in Procs, UploadHome(p) PROVE OneServed'
  BY <1>16 DEF UploadHome, At, Goto, Upload
<1>17. ASSUME NEW p \in Procs, RemoveTmpDir(p) PROVE OneServed'
  BY <1>17 DEF RemoveTmpDir, At, Finish, RemoveHome
<1>18. ASSUME NEW c \in Children, Die(c) PROVE OneServed'
  BY <1>18 DEF Die
<1>19. ASSUME NEW c \in Children, RecordTurn(c) PROVE OneServed'
  BY <1>19 DEF RecordTurn
<1>20. CASE Restart
  BY <1>20 DEF Restart
<1>21. CASE UNCHANGED vars
  BY <1>21 DEF vars
<1> QED
  BY <1>1, <1>2, <1>3, <1>4, <1>5, <1>6, <1>7, <1>8, <1>9, <1>10,
     <1>11, <1>12, <1>13, <1>14, <1>15, <1>16, <1>17, <1>18,
     <1>19, <1>20, <1>21
  DEF Next, Ensure, Advance

\* A call that starts over another one is an overlap, for good.
LEMMA SerialStep ==
    ASSUME TypeOK, Programs, Serial, [Next]_vars
    PROVE  Serial'
<1> USE SupervisorAssumption
        DEF TypeOK, Procs, Steps, Resting, disk, children,
            Programs, Keeping, Serial
<1>1. ASSUME NEW p \in Callers, EnsureHit(p) PROVE Serial'
  BY <1>1 DEF EnsureHit, At, Serve
<1>2. ASSUME NEW p \in Callers, EnsureDead(p) PROVE Serial'
  BY <1>2 DEF EnsureDead, At, Goto, NoteOverlap
<1>3. ASSUME NEW p \in Callers, EnsureMiss(p) PROVE Serial'
  <2>1. ~overlapped' => /\ ~overlapped
                        /\ \A q \in Procs \ {p} : proc[q].pc = "rest"
    BY <1>3 DEF EnsureMiss, NoteOverlap
  <2>2. /\ proc[p].pc = "rest" /\ proc'[p].pc = "build"
        /\ \A q \in Procs \ {p} : proc'[q] = proc[q]
        /\ entry = NoChild /\ entry' = NoChild
    BY <1>3 DEF EnsureMiss, At, Goto
  <2> QED BY <1>3, <2>1, <2>2 DEF EnsureMiss
<1>4. ASSUME NEW p \in Stoppers, ShutdownBegins(p) PROVE Serial'
  BY <1>4 DEF ShutdownBegins, At, Hold, NoteOverlap
<1>5. ASSUME NEW p \in Procs, Salvage(p) PROVE Serial'
  BY <1>5 DEF Salvage, At, Goto, Upload
<1>6. ASSUME NEW p \in Procs, Sweep(p) PROVE Serial'
  BY <1>6 DEF Sweep, At, Goto, RemoveHome
<1>7. ASSUME NEW p \in Procs, Build(p) PROVE Serial'
  BY <1>7 DEF Build, At, Goto, Finish
<1>8. ASSUME NEW p \in Procs, MakeTmpDir(p) PROVE Serial'
  BY <1>8 DEF MakeTmpDir, At, Goto, Finish, MakeHome
<1>9. ASSUME NEW p \in Procs, DownloadHome(p) PROVE Serial'
  BY <1>9 DEF DownloadHome, At, Goto, Download
<1>10. ASSUME NEW p \in Procs, WriteConfig(p) PROVE Serial'
  BY <1>10 DEF WriteConfig, At, Goto
<1>11. ASSUME NEW p \in Procs, Spawn(p) PROVE Serial'
  BY <1>11 DEF Spawn, At, Goto, Hold
<1>12. ASSUME NEW p \in Procs, Undo(p) PROVE Serial'
  BY <1>12 DEF Undo, At, Finish, RemoveHome
<1>13. ASSUME NEW p \in Procs, Register(p) PROVE Serial'
  BY <1>13 DEF Register, At, Goto, Finish, Serve
<1>14. ASSUME NEW p \in Procs, Discard(p) PROVE Serial'
  BY <1>14 DEF Discard, At, Hold
<1>15. ASSUME NEW p \in Procs, StopChild(p) PROVE Serial'
  BY <1>15 DEF StopChild, At, Hold
<1>16. ASSUME NEW p \in Procs, UploadHome(p) PROVE Serial'
  BY <1>16 DEF UploadHome, At, Goto, Upload
<1>17. ASSUME NEW p \in Procs, RemoveTmpDir(p) PROVE Serial'
  BY <1>17 DEF RemoveTmpDir, At, Finish, RemoveHome
<1>18. ASSUME NEW c \in Children, Die(c) PROVE Serial'
  BY <1>18 DEF Die
<1>19. ASSUME NEW c \in Children, RecordTurn(c) PROVE Serial'
  BY <1>19 DEF RecordTurn
<1>20. CASE Restart
  BY <1>20 DEF Restart
<1>21. CASE UNCHANGED vars
  BY <1>21 DEF vars
<1> QED
  BY <1>1, <1>2, <1>3, <1>4, <1>5, <1>6, <1>7, <1>8, <1>9, <1>10,
     <1>11, <1>12, <1>13, <1>14, <1>15, <1>16, <1>17, <1>18,
     <1>19, <1>20, <1>21
  DEF Next, Ensure, Advance

\* Uploads and downloads copy what was recorded before.
LEMMA BehindStep ==
    ASSUME TypeOK, Behind, [Next]_vars
    PROVE  Behind'
<1> USE SupervisorAssumption
        DEF TypeOK, Procs, Steps, Resting, disk, children,
            Contents, Absent, Behind
<1>1. ASSUME NEW p \in Callers, EnsureHit(p) PROVE Behind'
  BY <1>1 DEF EnsureHit, At, Serve
<1>2. ASSUME NEW p \in Callers, EnsureDead(p) PROVE Behind'
  BY <1>2 DEF EnsureDead, At, Goto, NoteOverlap
<1>3. ASSUME NEW p \in Callers, EnsureMiss(p) PROVE Behind'
  BY <1>3 DEF EnsureMiss, At, Goto, NoteOverlap
<1>4. ASSUME NEW p \in Stoppers, ShutdownBegins(p) PROVE Behind'
  BY <1>4 DEF ShutdownBegins, At, Hold, NoteOverlap
<1>5. ASSUME NEW p \in Procs, Salvage(p) PROVE Behind'
  BY <1>5 DEF Salvage, At, Goto, Upload
<1>6. ASSUME NEW p \in Procs, Sweep(p) PROVE Behind'
  BY <1>6 DEF Sweep, At, Goto, RemoveHome
<1>7. ASSUME NEW p \in Procs, Build(p) PROVE Behind'
  BY <1>7 DEF Build, At, Goto, Finish
<1>8. ASSUME NEW p \in Procs, MakeTmpDir(p) PROVE Behind'
  BY <1>8 DEF MakeTmpDir, At, Goto, Finish, MakeHome
<1>9. ASSUME NEW p \in Procs, DownloadHome(p) PROVE Behind'
  BY <1>9 DEF DownloadHome, At, Goto, Download
<1>10. ASSUME NEW p \in Procs, WriteConfig(p) PROVE Behind'
  BY <1>10 DEF WriteConfig, At, Goto
<1>11. ASSUME NEW p \in Procs, Spawn(p) PROVE Behind'
  BY <1>11 DEF Spawn, At, Goto, Hold
<1>12. ASSUME NEW p \in Procs, Undo(p) PROVE Behind'
  BY <1>12 DEF Undo, At, Finish, RemoveHome
<1>13. ASSUME NEW p \in Procs, Register(p) PROVE Behind'
  BY <1>13 DEF Register, At, Goto, Finish, Serve
<1>14. ASSUME NEW p \in Procs, Discard(p) PROVE Behind'
  BY <1>14 DEF Discard, At, Hold
<1>15. ASSUME NEW p \in Procs, StopChild(p) PROVE Behind'
  BY <1>15 DEF StopChild, At, Hold
<1>16. ASSUME NEW p \in Procs, UploadHome(p) PROVE Behind'
  BY <1>16 DEF UploadHome, At, Goto, Upload
<1>17. ASSUME NEW p \in Procs, RemoveTmpDir(p) PROVE Behind'
  BY <1>17 DEF RemoveTmpDir, At, Finish, RemoveHome
<1>18. ASSUME NEW c \in Children, Die(c) PROVE Behind'
  BY <1>18 DEF Die
<1>19. ASSUME NEW c \in Children, RecordTurn(c) PROVE Behind'
  BY <1>19 DEF RecordTurn
<1>20. CASE Restart
  BY <1>20 DEF Restart
<1>21. CASE UNCHANGED vars
  BY <1>21 DEF vars
<1> QED
  BY <1>1, <1>2, <1>3, <1>4, <1>5, <1>6, <1>7, <1>8, <1>9, <1>10,
     <1>11, <1>12, <1>13, <1>14, <1>15, <1>16, <1>17, <1>18,
     <1>19, <1>20, <1>21
  DEF Next, Ensure, Advance

\* The only call at work takes the last turn to S3 before it gives up the disk.
LEMMA SavedStep ==
    ASSUME TypeOK, Programs, OneServed, Serial, Behind, Saved, [Next]_vars
    PROVE  Saved'
<1> USE SupervisorAssumption
        DEF TypeOK, Procs, Steps, Resting, disk, children,
            Contents, Absent, Programs, Keeping, OneServed,
            Serial, Behind, Saved
<1>1. ASSUME NEW p \in Callers, EnsureHit(p) PROVE Saved'
  BY <1>1 DEF EnsureHit, At, Serve
<1>2. ASSUME NEW p \in Callers, EnsureDead(p) PROVE Saved'
  BY <1>2 DEF EnsureDead, At, Goto, NoteOverlap
<1>3. ASSUME NEW p \in Callers, EnsureMiss(p) PROVE Saved'
  <2>1. ~overlapped' => /\ ~overlapped
                        /\ \A q \in Procs \ {p} : proc[q].pc = "rest"
    BY <1>3 DEF EnsureMiss, NoteOverlap
  <2>2. /\ proc[p].pc = "rest" /\ proc'[p].pc = "build"
        /\ \A q \in Procs \ {p} : proc'[q] = proc[q]
        /\ entry = NoChild /\ entry' = NoChild
    BY <1>3 DEF EnsureMiss, At, Goto
  <2> QED BY <1>3, <2>1, <2>2 DEF EnsureMiss
<1>4. ASSUME NEW p \in Stoppers, ShutdownBegins(p) PROVE Saved'
  BY <1>4 DEF ShutdownBegins, At, Hold, NoteOverlap
<1>5. ASSUME NEW p \in Procs, Salvage(p) PROVE Saved'
  BY <1>5 DEF Salvage, At, Goto, Upload
<1>6. ASSUME NEW p \in Procs, Sweep(p) PROVE Saved'
  BY <1>6 DEF Sweep, At, Goto, RemoveHome
<1>7. ASSUME NEW p \in Procs, Build(p) PROVE Saved'
  BY <1>7 DEF Build, At, Goto, Finish
<1>8. ASSUME NEW p \in Procs, MakeTmpDir(p) PROVE Saved'
  BY <1>8 DEF MakeTmpDir, At, Goto, Finish, MakeHome
<1>9. ASSUME NEW p \in Procs, DownloadHome(p) PROVE Saved'
  BY <1>9 DEF DownloadHome, At, Goto, Download
<1>10. ASSUME NEW p \in Procs, WriteConfig(p) PROVE Saved'
  BY <1>10 DEF WriteConfig, At, Goto
<1>11. ASSUME NEW p \in Procs, Spawn(p) PROVE Saved'
  BY <1>11 DEF Spawn, At, Goto, Hold
<1>12. ASSUME NEW p \in Procs, Undo(p) PROVE Saved'
  BY <1>12 DEF Undo, At, Finish, RemoveHome
<1>13. ASSUME NEW p \in Procs, Register(p) PROVE Saved'
  BY <1>13 DEF Register, At, Goto, Finish, Serve
<1>14. ASSUME NEW p \in Procs, Discard(p) PROVE Saved'
  BY <1>14 DEF Discard, At, Hold
<1>15. ASSUME NEW p \in Procs, StopChild(p) PROVE Saved'
  BY <1>15 DEF StopChild, At, Hold
<1>16. ASSUME NEW p \in Procs, UploadHome(p) PROVE Saved'
  BY <1>16 DEF UploadHome, At, Goto, Upload
<1>17. ASSUME NEW p \in Procs, RemoveTmpDir(p) PROVE Saved'
  BY <1>17 DEF RemoveTmpDir, At, Finish, RemoveHome
<1>18. ASSUME NEW c \in Children, Die(c) PROVE Saved'
  BY <1>18 DEF Die
<1>19. ASSUME NEW c \in Children, RecordTurn(c) PROVE Saved'
  <2> SUFFICES ASSUME ~overlapped, ~excused
               PROVE  Saved'
    BY <1>19 DEF RecordTurn
  <2>1. work # Absent /\ work' = work + 1 /\ work' # Absent
    BY <1>19 DEF RecordTurn
  <2>2. CASE c = entry
    <3>1. home' = work' /\ entry # NoChild
      BY <1>19, <2>1, <2>2 DEF RecordTurn
    <3> QED BY <1>19, <2>2, <3>1 DEF RecordTurn
  <2>3. ASSUME NEW q \in Stoppers, proc[q] = [pc |-> "stop", child |-> c]
        PROVE  Saved'
    <3>1. home' = work' /\ entry = NoChild
      BY <1>19, <2>1, <2>3 DEF RecordTurn
    <3>2. \A p \in Procs : proc[p].pc # "rest" => p = q
      BY <2>3
    <3> QED BY <1>19, <2>3, <3>1, <3>2 DEF RecordTurn
  <2> QED BY <1>19, <2>2, <2>3 DEF RecordTurn
<1>20. CASE Restart
  BY <1>20 DEF Restart
<1>21. CASE UNCHANGED vars
  BY <1>21 DEF vars
<1> QED
  BY <1>1, <1>2, <1>3, <1>4, <1>5, <1>6, <1>7, <1>8, <1>9, <1>10,
     <1>11, <1>12, <1>13, <1>14, <1>15, <1>16, <1>17, <1>18,
     <1>19, <1>20, <1>21
  DEF Next, Ensure, Advance

-----------------------------------------------------------------------------
(* Theorems *)

\* Nothing runs at first.
LEMMA InitIInv == Init => IInv
<1> SUFFICES ASSUME Init PROVE IInv
  OBVIOUS
<1> USE SupervisorAssumption DEF Init, Procs, Resting
<1>1. TypeOK
  <2>1. 0 \in Contents /\ restarts \in 0 .. MaxRestarts
    BY DEF Contents
  <2>2. proc \in [Procs -> [pc : Steps, child : Children \cup {NoChild}]]
    BY DEF Steps
  <2> QED BY <2>1, <2>2 DEF TypeOK
<1>2. Programs
  BY DEF Programs, Keeping
<1>3. Apart
  BY DEF Apart
<1>4. Fresh
  BY DEF Fresh
<1>5. NoLeakedChild /\ OneServed
  BY DEF NoLeakedChild, OneServed
<1>6. Serial /\ Saved
  BY DEF Serial, Saved
<1>7. Behind
  BY DEF Behind
<1> QED BY <1>1, <1>2, <1>3, <1>4, <1>5, <1>6, <1>7 DEF IInv

\* IInv is an invariant.
THEOREM Invariance == Spec => []IInv
<1>1. IInv /\ [Next]_vars => IInv'
  BY TypeStep, ProgramsStep, ApartStep, FreshStep, LeakStep, ServedStep,
     SerialStep, BehindStep, SavedStep DEF IInv
<1> QED BY InitIInv, <1>1, PTL DEF Spec

\* The types are right in every reachable state.
THEOREM TypeCorrect == Spec => []TypeOK
<1>1. IInv => TypeOK BY DEF IInv
<1> QED BY Invariance, <1>1, PTL

\* However spawns, crashes and shutdowns of a workspace race, every running
\* subprocess is registered or has a goroutine that will stop or register it.
THEOREM NothingLeaks == Spec => []NoLeakedChild
<1>1. IInv => NoLeakedChild BY DEF IInv
<1> QED BY Invariance, <1>1, PTL

\* Clients are never connected to two subprocesses of a workspace, unless one
\* of them is being shut down.
THEOREM ServedAlone == Spec => []OneServed
<1>1. IInv => OneServed BY DEF IInv
<1> QED BY Invariance, <1>1, PTL

\* Calls that do not overlap lose no turn, unless an upload fails or the
\* container is killed.
THEOREM SerialCallsKeepTurns == Spec => []TurnsSurvive
<1>1. IInv => TurnsSurvive
  BY DEF IInv, TypeOK, Steps, Serial, Saved, TurnsSurvive
<1> QED BY Invariance, <1>1, PTL

-----------------------------------------------------------------------------
(* The broker *)

Waiting == {"waitThread", "waitResume", "waitTurn"}

\* Before the thread is attached, and between its start and the connection for the turn.
Unattached == {"rest", "lockForThread", "dialForThread", "sendThread", "waitThread"}
Between == {"getForTurn", "lockForTurn", "dialForTurn"}
OnTurn == {"sendTurn", "waitTurn", "register", "waitDone"}
Connected == {"sendThread", "sendResume", "waitThread", "waitResume"} \cup OnTurn

\* Connections are numbered as they are dialled.
ConnsKnown ==
    /\ \A c \in Conns : c > dialled => conns[c] = [NewConn EXCEPT !.reader = "none"]
    /\ \A g \in Generations : entries[g].conn <= dialled

\* Who dials has the lock of its entry, whose connection is of no use any more.
LockHeld ==
    /\ \A t \in Calls : call[t].pc \in Dialling => entries[call[t].entry].lock = t
    /\ \A g \in Generations : entries[g].lock # Nobody => ~Alive(entries[g].conn)

\* A call has a connection that was dialled, and a closed pool's entry afterwards.
Placed(t) ==
    /\ call[t].conn <= dialled
    /\ call[t].pc \in Connected => call[t].conn # NoConn
    /\ call[t].entry = "closed" => closing = "done"

\* A registration is of a call that waits for it and has nothing yet.
Registered(t) ==
    \A c \in Conns :
        /\ t \in conns[c].pendingResp =>
              c = call[t].conn /\ call[t].pc \in Waiting /\ call[t].resp = "empty"
        /\ t \in conns[c].pendingTurns =>
              c = call[t].conn /\ call[t].pc = "waitDone" /\ call[t].turn = "empty"

\* What codex works on is what the call waits for, unless nobody waits any more.
Worked(t) ==
    /\ codex[t].rpc # "none" =>
          \/ call[t].pc = "answered"
          \/ call[t].pc = WaitPc(codex[t].rpc) /\ call[t].resp \notin {"value", "error"}
    /\ codex[t].running \/ codex[t].reported =>
          call[t].pc \in {"waitTurn", "register", "waitDone", "answered"}
          /\ call[t].conn # NoConn
    /\ call[t].turn # "empty" => call[t].pc = "waitDone"

\* A call that works on its turn has attached its thread to its connection.
Heard(t) ==
    \A c \in Conns :
        /\ /\ c = call[t].conn /\ OpenConn(c)
           /\ \/ call[t].pc \in OnTurn
              \/ call[t].pc \in {"waitThread", "waitResume"} /\ call[t].resp = "value"
           => codex[t].hears = c
        /\ t \in conns[c].attached =>
              /\ call[t].pc \notin Unattached
              /\ call[t].pc \in Between =>
                    c = call[t].conn /\ (OpenConn(c) => codex[t].hears = c)

\* CompletionKept, for one call.
Kept(t) ==
    \A c \in Conns :
        /\ c = call[t].conn /\ codex[t].reported /\ OpenConn(c)
        /\ call[t].pc \in {"waitTurn", "register", "waitDone"}
        => t \in conns[c].completedTurns \/ call[t].turn = "value"

CallKnown(t) == Placed(t) /\ Registered(t) /\ Worked(t) /\ Heard(t) /\ Kept(t)

BrokerInv ==
    /\ BrokerTypeOK /\ ConnsKnown /\ LockHeld /\ OneConn
    /\ \A t \in Calls : CallKnown(t)

-----------------------------------------------------------------------------
\* The places of a call, and those at which an RPC is sent and awaited.
LEMMA Places ==
    /\ CallPcs = {"rest", "answered", "getForTurn", "register", "waitDone",
                  "lockForThread", "lockForTurn", "dialForThread", "dialForTurn",
                  "sendThread", "sendResume", "sendTurn",
                  "waitThread", "waitResume", "waitTurn"}
    /\ SendPc("thread") = "sendThread" /\ SendPc("resume") = "sendResume"
    /\ SendPc("turn") = "sendTurn" /\ WaitPc("thread") = "waitThread"
    /\ WaitPc("resume") = "waitResume" /\ WaitPc("turn") = "waitTurn"
    /\ \A r \in Rpcs : WaitPc(r) \in Waiting
<1>1. /\ SendPc("thread") = "sendThread" /\ SendPc("resume") = "sendResume"
      /\ SendPc("turn") = "sendTurn"
  BY DEF SendPc
<1>2. /\ WaitPc("thread") = "waitThread" /\ WaitPc("resume") = "waitResume"
      /\ WaitPc("turn") = "waitTurn"
  BY DEF WaitPc
<1>3. /\ {SendPc(r) : r \in Rpcs} = {"sendThread", "sendResume", "sendTurn"}
      /\ {WaitPc(r) : r \in Rpcs} = {"waitThread", "waitResume", "waitTurn"}
  BY <1>1, <1>2 DEF Rpcs
<1>4. \A r \in Rpcs : WaitPc(r) \in Waiting
  BY <1>2 DEF Rpcs, Waiting
<1> QED BY <1>1, <1>2, <1>3, <1>4 DEF CallPcs, Locking, Dialling

\* A step of one call leaves what the other calls have.
Aside(t) ==
    /\ \A u \in Calls : u # t => call'[u] = call[u] /\ codex'[u] = codex[u]
    /\ \A c \in Conns :
          \/ c > dialled /\ conns'[c] = NewConn
          \/ /\ conns'[c].reader = conns[c].reader
             /\ conns[c].shut => conns'[c].shut
             /\ \A u \in Calls : u # t =>
                   /\ u \in conns'[c].pendingResp <=> u \in conns[c].pendingResp
                   /\ u \in conns'[c].pendingTurns <=> u \in conns[c].pendingTurns
                   /\ u \in conns'[c].completedTurns <=> u \in conns[c].completedTurns
                   /\ u \in conns'[c].attached <=> u \in conns[c].attached

\* The maps of a connection, with what they have of the other calls.
OthersIn(t, c, k) ==
    \A u \in Calls : u # t =>
        /\ u \in k.pendingResp <=> u \in conns[c].pendingResp
        /\ u \in k.pendingTurns <=> u \in conns[c].pendingTurns
        /\ u \in k.completedTurns <=> u \in conns[c].completedTurns
        /\ u \in k.attached <=> u \in conns[c].attached

\* So what is known of them stays known.
LEMMA OthersKnown ==
    ASSUME BrokerInv, NEW t \in Calls, Aside(t), dialled' \in 0 .. MaxDials,
           dialled <= dialled', closing = "done" => closing' = "done",
           NEW u \in Calls, u # t
    PROVE  CallKnown(u)'
<1>1. call'[u] = call[u] /\ codex'[u] = codex[u] /\ CallKnown(u)
  BY DEF BrokerInv, Aside
<1>2. /\ dialled \in 0 .. MaxDials /\ call[u].conn \in 0 .. MaxDials /\ MaxDials \in Nat
      /\ call[u].conn <= dialled
  BY <1>1, BrokerAssumption
     DEF BrokerInv, BrokerTypeOK, CallStates, CallKnown, Placed, Conns, NoConn
<1>3. ASSUME NEW c \in Conns
      PROVE  /\ OpenConn(c)' /\ c = call[u].conn => OpenConn(c)
             /\ u \in conns'[c].pendingResp => u \in conns[c].pendingResp
             /\ u \in conns'[c].pendingTurns => u \in conns[c].pendingTurns
             /\ OpenConn(c)' /\ u \in conns[c].completedTurns => u \in conns'[c].completedTurns
             /\ u \in conns'[c].attached => u \in conns[c].attached /\ (OpenConn(c)' => OpenConn(c))
  <2>1. CASE c > dialled /\ conns'[c] = NewConn
    <3>1. c \in Nat /\ c # call[u].conn /\ conns[c] = [NewConn EXCEPT !.reader = "none"]
      BY <1>2, <2>1 DEF BrokerInv, ConnsKnown, Conns
    <3> QED BY <2>1, <3>1 DEF NewConn, OpenConn
  <2>2. CASE ~(c > dialled /\ conns'[c] = NewConn)
    BY <2>2 DEF Aside, OpenConn
  <2> QED BY <2>1, <2>2
<1>4. Placed(u)'
  <2>1. call[u].conn <= dialled'
    BY <1>2
  <2> QED BY <1>1, <2>1 DEF CallKnown, Placed
<1>5. Registered(u)'
  BY <1>1, <1>3 DEF CallKnown, Registered
<1>6. Worked(u)'
  BY <1>1 DEF CallKnown, Worked
<1>7. Heard(u)'
  BY <1>1, <1>3 DEF CallKnown, Heard
<1>8. Kept(u)'
  BY <1>1, <1>3 DEF CallKnown, Kept
<1> QED BY <1>4, <1>5, <1>6, <1>7, <1>8 DEF CallKnown

\* A step of a call that dials nothing and touches no entry.
LEMMA WorkStep ==
    ASSUME BrokerInv, NEW t \in Calls, Aside(t),
           UNCHANGED <<entries, closing, dialled>>,
           call' \in [Calls -> CallStates], codex' \in [Calls -> CodexStates],
           conns' \in [Conns -> ConnStates],
           \A c \in Conns : c > dialled => conns'[c] = conns[c],
           call[t].pc \notin Dialling, call'[t].pc \notin Dialling,
           CallKnown(t)'
    PROVE  BrokerInv'
<1>1. \A u \in Calls : u # t => call'[u] = call[u]
  BY DEF Aside
<1>2. dialled \in 0 .. MaxDials /\ MaxDials \in Nat
  BY BrokerAssumption DEF BrokerInv, BrokerTypeOK
<1>3. \A u \in Calls : CallKnown(u)'
  BY <1>2, OthersKnown
<1>4. \A c \in Conns : conns'[c].reader = conns[c].reader /\ (OpenConn(c)' => OpenConn(c))
  <2>1. \A c \in Conns : c > dialled => conns'[c] # NewConn
    BY DEF BrokerInv, ConnsKnown, NewConn
  <2> QED BY <2>1 DEF Aside, OpenConn
<1>5. ASSUME NEW g \in Generations, entries[g].lock # Nobody
      PROVE  /\ call'[entries[g].lock].pc \in Dialling /\ call'[entries[g].lock].entry = g
             /\ ~Alive(entries[g].conn)'
  <2>1. /\ entries[g].lock \in Calls /\ call[entries[g].lock].pc \in Dialling
        /\ call[entries[g].lock].entry = g
    BY <1>5 DEF BrokerInv, BrokerTypeOK, Entries
  <2>2. ~Alive(entries[g].conn) /\ entries[g].conn \in Conns \cup {NoConn}
    BY <1>5 DEF BrokerInv, LockHeld, BrokerTypeOK, Entries
  <2>3. call'[entries[g].lock] = call[entries[g].lock]
    BY <1>1, <2>1
  <2> QED BY <1>4, <2>1, <2>2, <2>3 DEF Alive
<1>6. BrokerTypeOK'
  BY <1>5 DEF BrokerInv, BrokerTypeOK
<1>7. ConnsKnown'
  BY DEF BrokerInv, ConnsKnown
<1>8. LockHeld'
  <2>1. \A u \in Calls : call'[u].pc \in Dialling => entries[call'[u].entry].lock = u
    BY <1>1 DEF BrokerInv, LockHeld
  <2> QED BY <1>5, <2>1 DEF LockHeld
<1>9. OneConn'
  BY <1>4 DEF BrokerInv, OneConn
<1> QED BY <1>3, <1>6, <1>7, <1>8, <1>9 DEF BrokerInv

\* What Step and Reply do to the call.
LEMMA StepEffect ==
    ASSUME call \in [Calls -> CallStates], NEW t \in Calls, NEW pc \in CallPcs, Step(t, pc)
    PROVE  /\ call' \in [Calls -> CallStates]
           /\ \A u \in Calls : u # t => call'[u] = call[u]
           /\ call'[t].pc = pc /\ call'[t].entry = call[t].entry
           /\ call'[t].conn = call[t].conn
           /\ call'[t].resp = call[t].resp /\ call'[t].turn = call[t].turn
  BY DEF Step, CallStates

LEMMA ReplyEffect ==
    ASSUME call \in [Calls -> CallStates], NEW t \in Calls, Reply(t)
    PROVE  /\ call' \in [Calls -> CallStates]
           /\ \A u \in Calls : u # t => call'[u] = call[u]
           /\ call'[t].pc = "answered" /\ call'[t].entry = "open"
           /\ call'[t].conn = call[t].conn
           /\ call'[t].resp = "empty" /\ call'[t].turn = "empty"
<1> DEFINE q == [NewCall EXCEPT !.pc = "answered", !.conn = call[t].conn]
<1>1. /\ q \in CallStates /\ q.pc = "answered" /\ q.entry = "open"
      /\ q.conn = call[t].conn /\ q.resp = "empty" /\ q.turn = "empty"
  BY Places DEF CallStates, NewCall, Generations
<1>2. call' = [call EXCEPT ![t] = q]
  BY DEF Reply
<1> HIDE DEF q
<1> QED BY <1>1, <1>2

\* The steps that change one call alone.
LEMMA CallAlone ==
    ASSUME BrokerInv, NEW t \in Calls, UNCHANGED <<entries, closing, dialled, conns, codex>>,
           call' \in [Calls -> CallStates],
           \A u \in Calls : u # t => call'[u] = call[u],
           call[t].pc \notin Dialling, call'[t].pc \notin Dialling,
           CallKnown(t)'
    PROVE  BrokerInv'
<1>1. Aside(t)
  BY DEF Aside
<1>2. codex' \in [Calls -> CodexStates] /\ conns' \in [Conns -> ConnStates]
  BY DEF BrokerInv, BrokerTypeOK
<1> QED BY <1>1, <1>2, WorkStep

\* A call that is answered without a registration left is known.
LEMMA AnswerKnown ==
    ASSUME BrokerInv, NEW t \in Calls, Reply(t), UNCHANGED <<dialled, closing>>,
           codex'[t] = codex[t] \/ codex'[t] = NoTurn,
           \A c \in Conns : /\ t \notin conns'[c].pendingResp
                            /\ t \notin conns'[c].pendingTurns
    PROVE  CallKnown(t)'
<1>1. /\ call'[t].pc = "answered" /\ call'[t].entry = "open" /\ call'[t].turn = "empty"
      /\ call'[t].conn = call[t].conn
  BY ReplyEffect DEF BrokerInv, BrokerTypeOK
<1>2. Placed(t)'
  BY <1>1 DEF BrokerInv, CallKnown, Placed, Connected, OnTurn
<1>3. Registered(t)' /\ Worked(t)'
  BY <1>1 DEF BrokerInv, CallKnown, Registered, Worked, NoTurn
<1>4. Heard(t)' /\ Kept(t)'
  BY <1>1 DEF Heard, Kept, Unattached, Between, OnTurn
<1> QED BY <1>2, <1>3, <1>4 DEF CallKnown

LEMMA ReplyAlone ==
    ASSUME BrokerInv, NEW t \in Calls, Reply(t),
           UNCHANGED <<entries, closing, dialled, conns, codex>>,
           call[t].pc \notin Dialling,
           \A c \in Conns : t \notin conns[c].pendingResp /\ t \notin conns[c].pendingTurns
    PROVE  BrokerInv'
<1>1. /\ call' \in [Calls -> CallStates] /\ call'[t].pc = "answered"
      /\ \A u \in Calls : u # t => call'[u] = call[u]
  BY ReplyEffect DEF BrokerInv, BrokerTypeOK
<1>2. CallKnown(t)'
  BY AnswerKnown
<1> QED BY <1>1, <1>2, CallAlone DEF Dialling

LEMMA ArriveStep ==
    ASSUME BrokerInv, NEW t \in Calls, Arrive(t)
    PROVE  BrokerInv'
<1>1. PICK pc \in Locking : Step(t, pc)
  BY DEF Arrive
<1>2. /\ call' \in [Calls -> CallStates] /\ call'[t].pc = pc
      /\ \A u \in Calls : u # t => call'[u] = call[u]
      /\ call'[t].conn = call[t].conn /\ call'[t].entry = call[t].entry
      /\ call'[t].resp = call[t].resp /\ call'[t].turn = call[t].turn
  BY <1>1, StepEffect, Places DEF BrokerInv, BrokerTypeOK, Locking
<1>3. CallKnown(t) /\ call[t].pc = "rest" /\ UNCHANGED <<closing, dialled, conns, codex, entries>>
  BY DEF BrokerInv, Arrive
<1>4. codex[t].rpc = "none" /\ \A c \in Conns : t \notin conns[c].attached
  BY <1>3, Places
     DEF CallKnown, Worked, Heard, Waiting, Rpcs, Unattached, BrokerInv, BrokerTypeOK, CodexStates
<1>5. Placed(t)' /\ Registered(t)'
  BY <1>2, <1>3 DEF CallKnown, Placed, Registered, Locking, Waiting, Connected, OnTurn
<1>6. Worked(t)'
  BY <1>2, <1>3, <1>4 DEF CallKnown, Worked, Locking
<1>7. Heard(t)' /\ Kept(t)'
  BY <1>2, <1>3, <1>4 DEF Heard, Kept, Locking, OnTurn
<1>8. CallKnown(t)'
  BY <1>5, <1>6, <1>7 DEF CallKnown
<1> QED BY <1>2, <1>3, <1>8, CallAlone DEF Dialling, Locking

LEMMA FindEntryStep ==
    ASSUME BrokerInv, NEW t \in Calls, FindEntry(t)
    PROVE  BrokerInv'
<1> DEFINE q == [call[t] EXCEPT !.pc = "lockForTurn", !.entry = MapEntry]
<1>1. call[t] \in CallStates
  BY DEF BrokerInv, BrokerTypeOK
<1>2. /\ q \in CallStates /\ q.pc = "lockForTurn" /\ q.entry = MapEntry
      /\ q.conn = call[t].conn /\ q.resp = call[t].resp /\ q.turn = call[t].turn
  BY <1>1, Places, ZenonT(40) DEF CallStates, MapEntry, Generations
<1>3. call' = [call EXCEPT ![t] = q]
  BY DEF FindEntry
<1> HIDE DEF q
<1>4. call' \in [Calls -> CallStates] /\ call'[t] = q /\ \A u \in Calls : u # t => call'[u] = call[u]
  BY <1>2, <1>3 DEF BrokerInv, BrokerTypeOK
<1>5. CallKnown(t) /\ call[t].pc = "getForTurn" /\ UNCHANGED <<closing, dialled, conns, codex, entries>>
  BY DEF BrokerInv, FindEntry
<1>6. codex[t].rpc = "none"
  BY <1>5, Places DEF CallKnown, Worked, Waiting, Rpcs, BrokerInv, BrokerTypeOK, CodexStates
<1>7. Placed(t)' /\ Registered(t)'
  BY <1>2, <1>4, <1>5 DEF CallKnown, Placed, Registered, Waiting, MapEntry, Connected, OnTurn
<1>8. Worked(t)'
  BY <1>2, <1>4, <1>5, <1>6 DEF CallKnown, Worked
<1>9. Heard(t)' /\ Kept(t)'
  BY <1>2, <1>4, <1>5 DEF CallKnown, Heard, Kept, OnTurn, Unattached, Between, OpenConn
<1>10. CallKnown(t)'
  BY <1>7, <1>8, <1>9 DEF CallKnown
<1> QED BY <1>2, <1>4, <1>5, <1>10, CallAlone DEF Dialling

LEMMA UseConnEffect ==
    ASSUME call \in [Calls -> CallStates], NEW t \in Calls, NEW c \in Conns,
           call' = UseConn(t, c)
    PROVE  /\ call' \in [Calls -> CallStates]
           /\ \A u \in Calls : u # t => call'[u] = call[u]
           /\ call'[t].pc = IF call[t].pc \in {"lockForThread", "dialForThread"} THEN "sendThread"
                            ELSE IF t \in conns[c].attached THEN "sendTurn" ELSE "sendResume"
           /\ call'[t].conn = c /\ call'[t].entry = call[t].entry
           /\ call'[t].resp = call[t].resp /\ call'[t].turn = call[t].turn
<1> DEFINE pc == IF call[t].pc \in {"lockForThread", "dialForThread"} THEN "sendThread"
                 ELSE IF t \in conns[c].attached THEN "sendTurn" ELSE "sendResume"
           q == [call[t] EXCEPT !.conn = c, !.pc = pc]
<1>1. pc \in CallPcs
  BY Places
<1>2. call' = [call EXCEPT ![t] = q]
  BY DEF UseConn
<1> HIDE DEF pc
<1>3. /\ q \in CallStates /\ q.pc = pc /\ q.conn = c /\ q.entry = call[t].entry
      /\ q.resp = call[t].resp /\ q.turn = call[t].turn
  BY <1>1 DEF CallStates
<1> HIDE DEF q
<1> QED BY <1>2, <1>3 DEF pc

\* A call with a connection that works, or with a new one.
LEMMA UsedKnown ==
    ASSUME BrokerInv, NEW t \in Calls, NEW c \in Conns, call' = UseConn(t, c),
           call[t].pc \in Locking \cup Dialling, c <= dialled',
           UNCHANGED <<closing, codex>>,
           \A d \in Conns : \/ conns'[d] = conns[d]
                            \/ conns'[d] = NewConn /\ d > dialled,
           t \in conns'[c].attached <=> t \in conns[c].attached
    PROVE  CallKnown(t)'
<1>1. /\ call'[t].pc = IF call[t].pc \in {"lockForThread", "dialForThread"} THEN "sendThread"
                       ELSE IF t \in conns[c].attached THEN "sendTurn" ELSE "sendResume"
      /\ call'[t].conn = c /\ call'[t].entry = call[t].entry
      /\ call'[t].resp = call[t].resp /\ call'[t].turn = call[t].turn
  BY UseConnEffect DEF BrokerInv, BrokerTypeOK
<1>2. CallKnown(t) /\ codex[t].rpc = "none"
  BY Places
     DEF BrokerInv, CallKnown, Worked, Waiting, Rpcs, Locking, Dialling, BrokerTypeOK, CodexStates
<1>3. \A d \in Conns : /\ t \notin conns'[d].pendingResp /\ t \notin conns'[d].pendingTurns
                       /\ t \in conns'[d].attached => t \in conns[d].attached
  BY <1>2 DEF CallKnown, Registered, NewConn, Locking, Dialling, Waiting
<1>4. c # NoConn
  BY DEF Conns, NoConn
<1>5. Placed(t)' /\ Registered(t)'
  BY <1>1, <1>2, <1>3, <1>4
     DEF CallKnown, Placed, Registered, Locking, Waiting, Connected, OnTurn
<1>6. Worked(t)'
  BY <1>1, <1>2 DEF CallKnown, Worked, Locking, Dialling
<1>7. ASSUME call'[t].pc = "sendTurn", OpenConn(c)'
      PROVE  codex[t].hears = c
  <2>1. t \in conns[c].attached /\ call[t].pc \in Between
    BY <1>1, <1>7 DEF Locking, Dialling, Between
  <2>2. conns'[c] = conns[c]
    BY <2>1 DEF BrokerInv, ConnsKnown, NewConn
  <2> QED BY <1>2, <1>7, <2>1, <2>2 DEF CallKnown, Heard, OpenConn
<1>8. \A d \in Conns : t \in conns'[d].attached => call'[t].pc \notin Unattached \cup Between
  BY <1>1, <1>2, <1>3 DEF CallKnown, Heard, Unattached, Between
<1>9. Heard(t)' /\ Kept(t)'
  BY <1>1, <1>2, <1>7, <1>8 DEF Heard, Kept, OnTurn
<1> QED BY <1>5, <1>6, <1>9 DEF CallKnown

LEMMA ReuseConnStep ==
    ASSUME BrokerInv, NEW t \in Calls, ReuseConn(t)
    PROVE  BrokerInv'
<1>1. PICK c \in Conns : c = entries[call[t].entry].conn /\ c <= dialled
  BY DEF ReuseConn, Alive, BrokerInv, BrokerTypeOK, Entries, CallStates, ConnsKnown
<1>2. /\ call[t].pc \in Locking /\ call' = UseConn(t, c)
      /\ UNCHANGED <<closing, dialled, conns, codex, entries>>
  BY <1>1 DEF ReuseConn
<1>3. CallKnown(t)'
  BY <1>1, <1>2, UsedKnown
<1>4. /\ call' \in [Calls -> CallStates] /\ \A u \in Calls : u # t => call'[u] = call[u]
      /\ call'[t].pc \notin Dialling
  BY <1>2, UseConnEffect DEF BrokerInv, BrokerTypeOK, Dialling
<1> QED BY <1>2, <1>3, <1>4, CallAlone DEF Dialling, Locking

\* The handler gives up, or has what it waited for.
LEMMA SendFailsStep ==
    ASSUME BrokerInv, NEW t \in Calls, SendFails(t)
    PROVE  BrokerInv'
<1>1. /\ call[t].pc \in {"sendThread", "sendResume", "sendTurn"} /\ CallKnown(t) /\ Reply(t)
      /\ UNCHANGED <<closing, dialled, conns, codex, entries>>
  BY Places DEF BrokerInv, SendFails, Rpcs
<1> QED BY <1>1, ReplyAlone DEF CallKnown, Registered, Waiting, Dialling

LEMMA TakeErrorStep ==
    ASSUME BrokerInv, NEW t \in Calls, NEW r \in Rpcs, TakeError(t, r)
    PROVE  BrokerInv'
<1>1. /\ call[t].pc \in Waiting /\ call[t].resp = "error" /\ CallKnown(t) /\ Reply(t)
      /\ UNCHANGED <<closing, dialled, conns, codex, entries>>
  BY Places DEF BrokerInv, TakeError
<1> QED BY <1>1, ReplyAlone DEF CallKnown, Registered, Waiting, Dialling

LEMMA TakeTurnStep ==
    ASSUME BrokerInv, NEW t \in Calls, TakeTurn(t)
    PROVE  BrokerInv'
<1>1. /\ call[t].pc = "waitDone" /\ call[t].turn # "empty" /\ CallKnown(t) /\ Reply(t)
      /\ UNCHANGED <<closing, dialled, conns, codex, entries>>
  BY DEF BrokerInv, TakeTurn
<1> QED BY <1>1, ReplyAlone DEF CallKnown, Registered, Waiting, Dialling

\* The connection of a call, with one registration more or less.
LEMMA Linked ==
    ASSUME BrokerInv, NEW t \in Calls, call[t].pc \in Connected
    PROVE  \E c \in Conns : c = call[t].conn /\ c <= dialled
  BY DEF BrokerInv, BrokerTypeOK, CallStates, CallKnown, Placed

\* A call replies and takes its registrations back, and no more.
LEMMA ReplyClean ==
    ASSUME BrokerInv, NEW t \in Calls, NEW c \in Conns, NEW k \in ConnStates,
           Reply(t), c = call[t].conn, c <= dialled, call[t].pc \notin Dialling,
           UNCHANGED <<entries, closing, dialled, codex>>,
           conns' = [conns EXCEPT ![c] = k],
           k.reader = conns[c].reader, conns[c].shut => k.shut,
           OthersIn(t, c, k),
           t \notin k.pendingResp, t \notin k.pendingTurns
    PROVE  BrokerInv'
<1>1. /\ call' \in [Calls -> CallStates] /\ call'[t].pc = "answered"
      /\ \A u \in Calls : u # t => call'[u] = call[u]
  BY ReplyEffect DEF BrokerInv, BrokerTypeOK
<1>2. /\ conns' \in [Conns -> ConnStates] /\ conns'[c] = k
      /\ \A d \in Conns : d # c => conns'[d] = conns[d]
  BY DEF BrokerInv, BrokerTypeOK
<1>3. Aside(t)
  BY <1>1, <1>2 DEF Aside, OthersIn
<1>4. \A d \in Conns : d > dialled => conns'[d] = conns[d]
  <2>1. dialled \in Nat /\ c \in Nat /\ ~(c > dialled)
    BY BrokerAssumption DEF BrokerInv, BrokerTypeOK, Conns
  <2> QED BY <1>2, <2>1
<1>5. \A d \in Conns : t \notin conns'[d].pendingResp /\ t \notin conns'[d].pendingTurns
  <2>1. CallKnown(t)
    BY DEF BrokerInv
  <2> QED BY <1>2, <2>1 DEF CallKnown, Registered
<1>6. CallKnown(t)'
  BY <1>5, AnswerKnown
<1>7. codex' \in [Calls -> CodexStates] /\ call'[t].pc \notin Dialling
  BY <1>1 DEF BrokerInv, BrokerTypeOK, Dialling
<1> QED BY <1>1, <1>2, <1>3, <1>4, <1>6, <1>7, WorkStep

LEMMA TakeClosedStep ==
    ASSUME BrokerInv, NEW t \in Calls, NEW r \in Rpcs, TakeClosed(t, r) \/ CancelWait(t, r)
    PROVE  BrokerInv'
<1>1. /\ call[t].pc \in Waiting /\ Reply(t) /\ CallKnown(t)
      /\ conns' = [conns EXCEPT ![call[t].conn].pendingResp = @ \ {t}]
      /\ UNCHANGED <<closing, dialled, codex, entries>>
  BY Places DEF BrokerInv, TakeClosed, CancelWait
<1>2. PICK c \in Conns : c = call[t].conn /\ c <= dialled
  BY <1>1, Linked DEF Waiting, Connected, OnTurn
<1> DEFINE k == [conns[c] EXCEPT !.pendingResp = @ \ {t}]
<1>3. conns[c] \in ConnStates /\ t \notin conns[c].pendingTurns
  BY <1>1 DEF BrokerInv, BrokerTypeOK, CallKnown, Registered, Waiting
<1>4. /\ k \in ConnStates /\ k.reader = conns[c].reader /\ k.shut = conns[c].shut
      /\ k.pendingResp = conns[c].pendingResp \ {t} /\ k.pendingTurns = conns[c].pendingTurns
      /\ k.completedTurns = conns[c].completedTurns /\ k.attached = conns[c].attached
  BY <1>3 DEF ConnStates
<1>5. conns' = [conns EXCEPT ![c] = k]
  BY <1>1, <1>2
<1> HIDE DEF k
<1> QED BY <1>1, <1>2, <1>3, <1>4, <1>5, ReplyClean DEF OthersIn, Waiting, Dialling

LEMMA TimeOutStep ==
    ASSUME BrokerInv, NEW t \in Calls, TimeOut(t)
    PROVE  BrokerInv'
<1>1. /\ call[t].pc = "waitDone" /\ Reply(t) /\ CallKnown(t)
      /\ conns' = [conns EXCEPT ![call[t].conn].pendingTurns = @ \ {t}, ![call[t].conn].shut = TRUE]
      /\ UNCHANGED <<closing, dialled, codex, entries>>
  BY DEF BrokerInv, TimeOut
<1>2. PICK c \in Conns : c = call[t].conn /\ c <= dialled
  BY <1>1, Linked DEF Connected, OnTurn
<1> DEFINE k == [conns[c] EXCEPT !.pendingTurns = @ \ {t}, !.shut = TRUE]
<1>3. conns[c] \in ConnStates /\ t \notin conns[c].pendingResp
  BY <1>1 DEF BrokerInv, BrokerTypeOK, CallKnown, Registered, Waiting
<1>4. /\ k \in ConnStates /\ k.reader = conns[c].reader /\ k.shut
      /\ k.pendingTurns = conns[c].pendingTurns \ {t} /\ k.pendingResp = conns[c].pendingResp
      /\ k.completedTurns = conns[c].completedTurns /\ k.attached = conns[c].attached
  BY <1>3 DEF ConnStates
<1>5. conns' = [conns EXCEPT ![c] = k]
  BY <1>1, <1>2
<1> HIDE DEF k
<1> QED BY <1>1, <1>2, <1>3, <1>4, <1>5, ReplyClean DEF OthersIn, Dialling

\* A step of a call that changes its connection, and what codex does for it.
LEMMA ConnStep ==
    ASSUME BrokerInv, NEW t \in Calls, NEW c \in Conns, NEW k \in ConnStates,
           NEW q \in CallStates, NEW x \in CodexStates,
           c <= dialled, call[t].pc \notin Dialling, q.pc \notin Dialling,
           UNCHANGED <<entries, closing, dialled>>,
           conns' = [conns EXCEPT ![c] = k],
           call' = [call EXCEPT ![t] = q], codex' = [codex EXCEPT ![t] = x],
           k.reader = conns[c].reader, k.shut = conns[c].shut,
           OthersIn(t, c, k),
           CallKnown(t)'
    PROVE  BrokerInv'
<1>1. /\ call' \in [Calls -> CallStates] /\ call'[t] = q
      /\ \A u \in Calls : u # t => call'[u] = call[u]
      /\ codex' \in [Calls -> CodexStates]
      /\ \A u \in Calls : u # t => codex'[u] = codex[u]
  BY DEF BrokerInv, BrokerTypeOK
<1>2. /\ conns' \in [Conns -> ConnStates] /\ conns'[c] = k
      /\ \A d \in Conns : d # c => conns'[d] = conns[d]
  BY DEF BrokerInv, BrokerTypeOK
<1>3. Aside(t)
  BY <1>1, <1>2 DEF Aside, OthersIn
<1>4. \A d \in Conns : d > dialled => conns'[d] = conns[d]
  <2>1. dialled \in Nat /\ c \in Nat /\ ~(c > dialled)
    BY BrokerAssumption DEF BrokerInv, BrokerTypeOK, Conns
  <2> QED BY <1>2, <2>1
<1> QED BY <1>1, <1>2, <1>3, <1>4, WorkStep

LEMMA SendStep ==
    ASSUME BrokerInv, NEW t \in Calls, NEW r \in Rpcs, Send(t, r)
    PROVE  BrokerInv'
<1>1. /\ call[t].pc = SendPc(r) /\ CallKnown(t)
      /\ conns' = [conns EXCEPT ![call[t].conn].pendingResp = @ \cup {t}]
      /\ call' = [call EXCEPT ![t].pc = WaitPc(r), ![t].resp = "empty"]
      /\ codex' = [codex EXCEPT ![t].rpc = r]
      /\ UNCHANGED <<closing, dialled, entries>>
  BY DEF BrokerInv, Send
<1>2. /\ \/ r = "thread" /\ call[t].pc = "sendThread" /\ WaitPc(r) = "waitThread"
         \/ r = "resume" /\ call[t].pc = "sendResume" /\ WaitPc(r) = "waitResume"
         \/ r = "turn" /\ call[t].pc = "sendTurn" /\ WaitPc(r) = "waitTurn"
      /\ WaitPc(r) \in CallPcs
  BY <1>1, Places DEF Rpcs
<1>3. PICK c \in Conns : c = call[t].conn /\ c <= dialled
  BY <1>2, Linked DEF Connected, OnTurn
<1> DEFINE k == [conns[c] EXCEPT !.pendingResp = @ \cup {t}]
           q == [call[t] EXCEPT !.pc = WaitPc(r), !.resp = "empty"]
           x == [codex[t] EXCEPT !.rpc = r]
<1>4. conns[c] \in ConnStates /\ call[t] \in CallStates /\ codex[t] \in CodexStates
  BY DEF BrokerInv, BrokerTypeOK
<1>5. /\ k \in ConnStates /\ k.reader = conns[c].reader /\ k.shut = conns[c].shut
      /\ k.pendingResp = conns[c].pendingResp \cup {t} /\ k.pendingTurns = conns[c].pendingTurns
      /\ k.completedTurns = conns[c].completedTurns /\ k.attached = conns[c].attached
  BY <1>4 DEF ConnStates
<1>6. /\ q \in CallStates /\ q.pc = WaitPc(r) /\ q.resp = "empty" /\ q.conn = call[t].conn
      /\ q.turn = call[t].turn /\ q.entry = call[t].entry
  BY <1>2, <1>4 DEF CallStates
<1>7. /\ x \in CodexStates /\ x.rpc = r /\ x.running = codex[t].running
      /\ x.hears = codex[t].hears /\ x.reported = codex[t].reported
  BY <1>4 DEF CodexStates
<1>8. /\ conns' = [conns EXCEPT ![c] = k] /\ call' = [call EXCEPT ![t] = q]
      /\ codex' = [codex EXCEPT ![t] = x]
  BY <1>1, <1>3
<1> HIDE DEF k, q, x
<1>9. /\ call'[t] = q /\ codex'[t] = x /\ conns'[c] = k
      /\ \A d \in Conns : d # c => conns'[d] = conns[d]
  BY <1>8 DEF BrokerInv, BrokerTypeOK
<1>10. Placed(t)' /\ Registered(t)'
  BY <1>1, <1>2, <1>3, <1>5, <1>6, <1>9
     DEF CallKnown, Placed, Registered, Waiting, Connected, OnTurn
<1>11. Worked(t)'
  BY <1>1, <1>2, <1>6, <1>7, <1>9 DEF CallKnown, Worked
<1>12. Heard(t)' /\ Kept(t)'
  <2>1. \A d \in Conns : /\ OpenConn(d)' = OpenConn(d)
                         /\ t \in conns'[d].attached <=> t \in conns[d].attached
    BY <1>5, <1>9 DEF OpenConn
  <2>2. ~codex[t].reported
    BY <1>1, <1>2 DEF CallKnown, Worked
  <2> QED BY <1>1, <1>2, <1>6, <1>7, <1>9, <2>1, <2>2
          DEF CallKnown, Heard, Kept, OnTurn, Unattached, Between
<1>13. CallKnown(t)'
  BY <1>10, <1>11, <1>12 DEF CallKnown
<1>14. OthersIn(t, c, k)
  BY <1>5 DEF OthersIn
<1>15. call[t].pc \notin Dialling /\ q.pc \notin Dialling
  BY <1>2, <1>6 DEF Dialling
<1>16. k \in ConnStates /\ k.reader = conns[c].reader /\ k.shut = conns[c].shut
  BY <1>5
<1>17. q \in CallStates /\ x \in CodexStates /\ UNCHANGED <<entries, closing, dialled>>
  BY <1>1, <1>6, <1>7
<1> QED BY <1>3, <1>8, <1>13, <1>14, <1>15, <1>16, <1>17, ConnStep

LEMMA TakeResponseStep ==
    ASSUME BrokerInv, NEW t \in Calls, NEW r \in Rpcs, TakeResponse(t, r)
    PROVE  BrokerInv'
<1> DEFINE pc == CASE r = "thread" -> "getForTurn" [] r = "resume" -> "sendTurn"
                   [] r = "turn" -> "register"
<1>1. /\ \/ r = "thread" /\ call[t].pc = "waitThread" /\ pc = "getForTurn"
         \/ r = "resume" /\ call[t].pc = "waitResume" /\ pc = "sendTurn"
         \/ r = "turn" /\ call[t].pc = "waitTurn" /\ pc = "register"
      /\ pc \in CallPcs
  <2>1. call[t].pc = WaitPc(r)
    BY DEF TakeResponse
  <2>2. /\ r = "thread" => pc = "getForTurn" 
        /\ r = "resume" => pc = "sendTurn"
        /\ r = "turn" => pc = "register"
    OBVIOUS
  <2> QED BY <2>1, <2>2, Places DEF Rpcs
<1>2. /\ CallKnown(t) /\ call[t].resp = "value" /\ Step(t, pc)
      /\ UNCHANGED <<closing, dialled, codex, entries>>
      /\ r = "turn" => UNCHANGED conns
      /\ r # "turn" => conns' = [conns EXCEPT ![call[t].conn].attached = @ \cup {t}]
  BY DEF BrokerInv, TakeResponse
<1> HIDE DEF pc
<1>3. /\ call' \in [Calls -> CallStates] /\ call'[t].pc = pc
      /\ \A u \in Calls : u # t => call'[u] = call[u]
      /\ call'[t].conn = call[t].conn /\ call'[t].entry = call[t].entry
      /\ call'[t].resp = call[t].resp /\ call'[t].turn = call[t].turn
  BY <1>1, <1>2, StepEffect DEF BrokerInv, BrokerTypeOK
<1>4. codex[t].rpc = "none"
  BY <1>1, <1>2 DEF CallKnown, Worked
<1>5. Placed(t)' /\ Worked(t)'
  BY <1>1, <1>2, <1>3, <1>4 DEF CallKnown, Placed, Worked, Connected, OnTurn
<1>6. PICK c \in Conns : c = call[t].conn /\ c <= dialled
  BY <1>1, Linked DEF Connected, OnTurn
<1>7. CASE r = "turn"
  <2>1. Registered(t)' /\ Heard(t)' /\ Kept(t)'
    BY <1>1, <1>2, <1>3, <1>7
       DEF CallKnown, Registered, Heard, Kept, OnTurn, Unattached, Between, OpenConn
  <2>2. CallKnown(t)'
    BY <1>5, <2>1 DEF CallKnown
  <2> QED BY <1>1, <1>2, <1>3, <1>7, <2>2, CallAlone DEF Dialling
<1>8. CASE r # "turn"
  <2> DEFINE k == [conns[c] EXCEPT !.attached = @ \cup {t}]
             q == [call[t] EXCEPT !.pc = pc]
             x == codex[t]
  <2>1. conns[c] \in ConnStates /\ call[t] \in CallStates /\ codex[t] \in CodexStates
    BY DEF BrokerInv, BrokerTypeOK
  <2>2. /\ k \in ConnStates /\ k.reader = conns[c].reader /\ k.shut = conns[c].shut
        /\ k.pendingResp = conns[c].pendingResp /\ k.pendingTurns = conns[c].pendingTurns
        /\ k.completedTurns = conns[c].completedTurns
        /\ k.attached = conns[c].attached \cup {t}
    BY <2>1 DEF ConnStates
  <2>3. q \in CallStates /\ q.pc = pc
    BY <1>1, <2>1 DEF CallStates
  <2>4. /\ conns' = [conns EXCEPT ![c] = k] /\ call' = [call EXCEPT ![t] = q]
        /\ codex' = [codex EXCEPT ![t] = x]
    BY <1>2, <1>6, <1>8 DEF Step, BrokerInv, BrokerTypeOK
  <2> HIDE DEF k, q, x
  <2>5. conns'[c] = k /\ \A d \in Conns : d # c => conns'[d] = conns[d]
    BY <2>4 DEF BrokerInv, BrokerTypeOK
  <2>6. \A d \in Conns : /\ t \notin conns'[d].pendingResp /\ t \notin conns'[d].pendingTurns
                         /\ OpenConn(d)' = OpenConn(d)
                         /\ d # c /\ t \in conns'[d].attached => t \in conns[d].attached
    BY <1>1, <1>2, <2>2, <2>5 DEF CallKnown, Registered, OpenConn, Waiting
  <2>7. Registered(t)' /\ Kept(t)'
    BY <1>1, <1>2, <1>3, <1>8, <2>6 DEF Registered, Kept
  <2>8. \A d \in Conns : d # c /\ call'[t].pc = "getForTurn" => t \notin conns'[d].attached
    BY <1>1, <1>2, <1>3, <2>6 DEF CallKnown, Heard, Unattached
  <2>9. OpenConn(c) => codex[t].hears = c
    BY <1>1, <1>2, <1>6, <1>8 DEF CallKnown, Heard
  <2>10. Heard(t)'
    BY <1>1, <1>2, <1>3, <1>6, <1>8, <2>6, <2>8, <2>9 DEF Heard, OnTurn, Unattached, Between
  <2>11. CallKnown(t)'
    BY <1>5, <2>7, <2>10 DEF CallKnown
  <2>12. OthersIn(t, c, k)
    BY <2>2 DEF OthersIn
  <2>13. call[t].pc \notin Dialling /\ q.pc \notin Dialling
    BY <1>1, <2>3 DEF Dialling
  <2>14. x \in CodexStates /\ k.reader = conns[c].reader /\ k.shut = conns[c].shut
         /\ UNCHANGED <<entries, closing, dialled>>
    BY <1>2, <2>1, <2>2 DEF x
  <2> QED BY <1>6, <2>2, <2>3, <2>4, <2>11, <2>12, <2>13, <2>14, ConnStep
<1> QED BY <1>7, <1>8

LEMMA RegisterTurnStep ==
    ASSUME BrokerInv, NEW t \in Calls, RegisterTurn(t)
    PROVE  BrokerInv'
<1>1. /\ call[t].pc = "register" /\ CallKnown(t)
      /\ UNCHANGED <<closing, dialled, codex, entries>>
  BY DEF BrokerInv, RegisterTurn
<1>2. PICK c \in Conns : c = call[t].conn /\ c <= dialled
  BY <1>1, Linked DEF Connected, OnTurn
<1>3. /\ conns[c] \in ConnStates /\ call[t] \in CallStates /\ codex[t] \in CodexStates
      /\ call[t].turn = "empty" /\ codex[t].rpc = "none"
      /\ \A d \in Conns : t \notin conns[d].pendingResp /\ t \notin conns[d].pendingTurns
  BY <1>1, Places
     DEF BrokerInv, BrokerTypeOK, CallKnown, Worked, Registered, Waiting, CodexStates, Rpcs
<1>4. CASE t \in conns[c].completedTurns
  <2> DEFINE k == [conns[c] EXCEPT !.completedTurns = @ \ {t}]
  <2>1. /\ k \in ConnStates /\ k.reader = conns[c].reader /\ k.shut = conns[c].shut
        /\ k.pendingResp = conns[c].pendingResp /\ k.pendingTurns = conns[c].pendingTurns
        /\ k.completedTurns = conns[c].completedTurns \ {t}
        /\ k.attached = conns[c].attached
    BY <1>3 DEF ConnStates
  <2>2. conns' = [conns EXCEPT ![c] = k] /\ Reply(t)
    BY <1>2, <1>4 DEF RegisterTurn
  <2> HIDE DEF k
  <2>3. OthersIn(t, c, k)
    BY <2>1 DEF OthersIn
  <2> QED BY <1>1, <1>2, <1>3, <2>1, <2>2, <2>3, ReplyClean DEF Dialling
<1>5. CASE t \notin conns[c].completedTurns
  <2> DEFINE k == [conns[c] EXCEPT !.pendingTurns = @ \cup {t}]
             q == [call[t] EXCEPT !.pc = "waitDone"]
             x == codex[t]
  <2>1. /\ k \in ConnStates /\ k.reader = conns[c].reader /\ k.shut = conns[c].shut
        /\ k.pendingResp = conns[c].pendingResp
        /\ k.pendingTurns = conns[c].pendingTurns \cup {t}
        /\ k.completedTurns = conns[c].completedTurns /\ k.attached = conns[c].attached
    BY <1>3 DEF ConnStates
  <2>2. /\ q \in CallStates /\ q.pc = "waitDone" /\ q.conn = call[t].conn
        /\ q.entry = call[t].entry /\ q.resp = call[t].resp /\ q.turn = call[t].turn
    BY <1>3, Places DEF CallStates
  <2>3. /\ conns' = [conns EXCEPT ![c] = k] /\ call' = [call EXCEPT ![t] = q]
        /\ codex' = [codex EXCEPT ![t] = x]
    BY <1>1, <1>2, <1>5 DEF RegisterTurn, Step, BrokerInv, BrokerTypeOK
  <2> HIDE DEF k, q, x
  <2>4. /\ call'[t] = q /\ conns'[c] = k /\ codex'[t] = codex[t]
        /\ \A d \in Conns : d # c => conns'[d] = conns[d]
    BY <2>3 DEF BrokerInv, BrokerTypeOK, x
  <2>5. Placed(t)' /\ Registered(t)' /\ Worked(t)'
    BY <1>1, <1>2, <1>3, <2>1, <2>2, <2>4
       DEF CallKnown, Placed, Registered, Worked, Connected, OnTurn
  <2>6. \A d \in Conns : /\ OpenConn(d)' = OpenConn(d)
                         /\ t \in conns'[d].attached <=> t \in conns[d].attached
    BY <2>1, <2>4 DEF OpenConn
  <2>7. ~(codex[t].reported /\ OpenConn(c))
    BY <1>1, <1>2, <1>3, <1>5 DEF CallKnown, Kept
  <2>8. Heard(t)' /\ Kept(t)'
    BY <1>1, <1>2, <2>2, <2>4, <2>6, <2>7
       DEF CallKnown, Heard, Kept, OnTurn, Unattached, Between
  <2>9. CallKnown(t)'
    BY <2>5, <2>8 DEF CallKnown
  <2>10. OthersIn(t, c, k)
    BY <2>1 DEF OthersIn
  <2>11. call[t].pc \notin Dialling /\ q.pc \notin Dialling
    BY <1>1, <2>2 DEF Dialling
  <2>12. x \in CodexStates
    BY <1>3 DEF x
  <2> QED BY <1>1, <1>2, <2>1, <2>2, <2>3, <2>9, <2>10, <2>11, <2>12, ConnStep
<1> QED BY <1>4, <1>5

\* What the reader dispatches.
LEMMA RespondStep ==
    ASSUME BrokerInv, NEW t \in Calls, NEW result \in {"value", "error"}, Respond(t, result)
    PROVE  BrokerInv'
<1>1. PICK c \in Conns : c = call[t].conn /\ c <= dialled
  BY DEF Respond, BrokerInv, CallKnown, Placed
<1>2. /\ codex[t].rpc # "none" /\ OpenConn(c) /\ CallKnown(t)
      /\ UNCHANGED <<entries, closing, dialled>>
  BY <1>1 DEF Respond, BrokerInv
<1>3. conns[c] \in ConnStates /\ call[t] \in CallStates /\ codex[t] \in CodexStates
  BY DEF BrokerInv, BrokerTypeOK
<1>4. /\ \/ call[t].pc = "answered"
         \/ call[t].pc = "waitThread" /\ codex[t].rpc = "thread"
         \/ call[t].pc = "waitResume" /\ codex[t].rpc = "resume"
         \/ call[t].pc = "waitTurn" /\ codex[t].rpc = "turn"
      /\ call[t].pc # "answered" => call[t].resp \notin {"value", "error"}
  BY <1>2, <1>3, Places DEF CallKnown, Worked, CodexStates, Rpcs
<1>5. PICK up \in BOOLEAN : up <=> codex[t].running \/ (codex[t].rpc = "turn" /\ result = "value")
  BY Zenon
<1> DEFINE k == [conns[c] EXCEPT !.pendingResp = @ \ {t}]
           q == IF t \in conns[c].pendingResp THEN [call[t] EXCEPT !.resp = result] ELSE call[t]
           heard == result = "value" /\ codex[t].rpc # "turn"
           x == [codex[t] EXCEPT
                   !.rpc = "none",
                   !.running = @ \/ (codex[t].rpc = "turn" /\ result = "value"),
                   !.hears = IF heard THEN c ELSE @]
<1>6. /\ k \in ConnStates /\ k.reader = conns[c].reader /\ k.shut = conns[c].shut
      /\ k.pendingResp = conns[c].pendingResp \ {t} /\ k.pendingTurns = conns[c].pendingTurns
      /\ k.completedTurns = conns[c].completedTurns /\ k.attached = conns[c].attached
  BY <1>3 DEF ConnStates
<1>7. /\ q \in CallStates /\ q.pc = call[t].pc /\ q.conn = call[t].conn
      /\ q.turn = call[t].turn /\ q.entry = call[t].entry
      /\ q.resp = IF t \in conns[c].pendingResp THEN result ELSE call[t].resp
  BY <1>3 DEF CallStates
<1>8. /\ x.rpc = "none" /\ x.running = (codex[t].running \/ (codex[t].rpc = "turn" /\ result = "value"))
      /\ x.hears = (IF heard THEN c ELSE codex[t].hears)
      /\ x.reported = codex[t].reported
  BY <1>3 DEF CodexStates
<1>9. x \in CodexStates
  <2>1. (codex[t].running \/ (codex[t].rpc = "turn" /\ result = "value")) \in BOOLEAN
    BY Zenon
  <2> QED BY <1>3, <2>1 DEF CodexStates
<1>10. /\ conns' = [conns EXCEPT ![c] = k] /\ codex' = [codex EXCEPT ![t] = x]
       /\ call' = [call EXCEPT ![t] = q]
  <2>1. conns' = [conns EXCEPT ![c] = k] /\ codex' = [codex EXCEPT ![t] = x]
    BY <1>1 DEF Respond
  <2>2. call' = IF t \in conns[c].pendingResp THEN [call EXCEPT ![t].resp = result] ELSE call
    BY <1>1 DEF Respond
  <2>3. call' = [call EXCEPT ![t] = q]
    BY <2>2 DEF BrokerInv, BrokerTypeOK
  <2> QED BY <2>1, <2>3
<1> HIDE DEF k, q, x
<1>11. /\ call'[t] = q /\ conns'[c] = k /\ codex'[t] = x
       /\ \A d \in Conns : d # c => conns'[d] = conns[d]
  BY <1>10 DEF BrokerInv, BrokerTypeOK
<1>12. Placed(t)' /\ Registered(t)'
  BY <1>1, <1>2, <1>6, <1>7, <1>11 DEF CallKnown, Placed, Registered
<1>13. Worked(t)'
  <2>1. call'[t].conn # NoConn
    BY <1>1, <1>7, <1>11 DEF Conns, NoConn
  <2> QED BY <1>2, <1>4, <1>7, <1>8, <1>11, <2>1 DEF CallKnown, Worked
<1>14. \A d \in Conns : /\ OpenConn(d)' = OpenConn(d)
                        /\ t \in conns'[d].attached <=> t \in conns[d].attached
  BY <1>6, <1>11 DEF OpenConn
<1>15. call[t].pc \in {"waitThread", "waitResume"} /\ q.resp = "value" => x.hears = c
  BY <1>4, <1>7, <1>8
<1>16. call[t].pc \in OnTurn => x.hears = codex[t].hears
  BY <1>4, <1>8 DEF OnTurn
<1>17. call[t].pc \notin Between
  BY <1>4 DEF Between
<1>18. Heard(t)'
  BY <1>1, <1>2, <1>7, <1>11, <1>14, <1>15, <1>16, <1>17 DEF CallKnown, Heard
<1>19. Kept(t)'
  <2>1. \A d \in Conns : conns'[d].completedTurns = conns[d].completedTurns
    BY <1>6, <1>11
  <2> QED BY <1>2, <1>7, <1>8, <1>11, <1>14, <2>1 DEF CallKnown, Kept
<1>20. CallKnown(t)'
  BY <1>12, <1>13, <1>18, <1>19 DEF CallKnown
<1>21. OthersIn(t, c, k)
  BY <1>6 DEF OthersIn
<1>22. call[t].pc \notin Dialling /\ q.pc \notin Dialling
  BY <1>4, <1>7 DEF Dialling
<1> QED BY <1>1, <1>2, <1>6, <1>7, <1>9, <1>10, <1>20, <1>21, <1>22, ConnStep

LEMMA DeliverTurnStep ==
    ASSUME BrokerInv, NEW t \in Calls, DeliverTurn(t)
    PROVE  BrokerInv'
<1>1. /\ codex[t].running /\ codex[t].hears = call[t].conn /\ CallKnown(t)
      /\ UNCHANGED <<entries, closing, dialled>>
  BY DEF DeliverTurn, BrokerInv
<1>2. /\ call[t].pc \in {"waitTurn", "register", "waitDone", "answered"}
      /\ call[t].conn # NoConn
  BY <1>1 DEF CallKnown, Worked
<1>3. conns \in [Conns -> ConnStates] /\ call[t] \in CallStates /\ codex[t] \in CodexStates
  BY DEF BrokerInv, BrokerTypeOK
<1>4. PICK c \in Conns : c = call[t].conn /\ c <= dialled /\ OpenConn(c)
  BY <1>1, <1>2, <1>3 DEF CallStates, CallKnown, Placed, DeliverTurn
<1> DEFINE waits == t \in conns[c].pendingTurns
           k == IF waits THEN [conns[c] EXCEPT !.pendingTurns = @ \ {t}]
                ELSE [conns[c] EXCEPT !.completedTurns = @ \cup {t}]
           q == IF waits THEN [call[t] EXCEPT !.turn = "value"] ELSE call[t]
           x == [codex[t] EXCEPT !.running = FALSE, !.reported = TRUE]
<1>5. /\ k \in ConnStates /\ k.reader = conns[c].reader /\ k.shut = conns[c].shut
      /\ k.pendingResp = conns[c].pendingResp /\ k.attached = conns[c].attached
      /\ k.pendingTurns = conns[c].pendingTurns \ {t}
      /\ k.completedTurns = conns[c].completedTurns \cup (IF waits THEN {} ELSE {t})
  BY <1>3 DEF ConnStates
<1>6. /\ q \in CallStates /\ q.pc = call[t].pc /\ q.conn = call[t].conn
      /\ q.resp = call[t].resp /\ q.entry = call[t].entry
      /\ q.turn = IF waits THEN "value" ELSE call[t].turn
  BY <1>3 DEF CallStates
<1>7. /\ x \in CodexStates /\ x.rpc = codex[t].rpc /\ x.hears = codex[t].hears
      /\ ~x.running /\ x.reported
  BY <1>3 DEF CodexStates
<1>8. /\ conns' = [conns EXCEPT ![c] = k] /\ codex' = [codex EXCEPT ![t] = x]
      /\ call' = [call EXCEPT ![t] = q]
  <2>1. codex' = [codex EXCEPT ![t] = x]
    BY DEF DeliverTurn
  <2>2. CASE waits
    BY <1>4, <2>2 DEF DeliverTurn
  <2>3. CASE ~waits
    BY <1>4, <2>3 DEF DeliverTurn, BrokerInv, BrokerTypeOK
  <2> QED BY <2>1, <2>2, <2>3
<1>9. waits => call[t].pc = "waitDone"
  BY <1>1 DEF CallKnown, Registered
<1> HIDE DEF k, q, x, waits
<1>10. /\ call'[t] = q /\ conns'[c] = k /\ codex'[t] = x
       /\ \A d \in Conns : d # c => conns'[d] = conns[d]
  BY <1>3, <1>8 DEF BrokerInv, BrokerTypeOK
<1>11. t \notin conns'[c].pendingTurns
  BY <1>5, <1>10
<1>12. Placed(t)' /\ Registered(t)'
  BY <1>1, <1>4, <1>5, <1>6, <1>10 DEF CallKnown, Placed, Registered, waits
<1>13. Worked(t)'
  BY <1>1, <1>2, <1>6, <1>7, <1>9, <1>10 DEF CallKnown, Worked
<1>14. \A d \in Conns : /\ OpenConn(d)' = OpenConn(d)
                        /\ t \in conns'[d].attached <=> t \in conns[d].attached
  BY <1>5, <1>10 DEF OpenConn
<1>15. Heard(t)'
  BY <1>1, <1>6, <1>7, <1>10, <1>14 DEF CallKnown, Heard
<1>16. t \in conns'[c].completedTurns \/ call'[t].turn = "value"
  BY <1>5, <1>6, <1>10
<1>17. Kept(t)'
  BY <1>4, <1>6, <1>10, <1>16 DEF Kept
<1>18. CallKnown(t)'
  BY <1>12, <1>13, <1>15, <1>17 DEF CallKnown
<1>19. OthersIn(t, c, k)
  BY <1>5 DEF OthersIn
<1>20. call[t].pc \notin Dialling /\ q.pc \notin Dialling
  BY <1>2, <1>6 DEF Dialling
<1> QED BY <1>1, <1>4, <1>5, <1>6, <1>7, <1>8, <1>18, <1>19, <1>20, ConnStep

\* The entry's lock is taken, the connection dialled, the lock released.
LEMMA StartDialStep ==
    ASSUME BrokerInv, NEW t \in Calls, StartDial(t)
    PROVE  BrokerInv'
<1>1. PICK e \in Generations : e = call[t].entry
  BY DEF BrokerInv, BrokerTypeOK, CallStates
<1>2. /\ call[t].pc \in Locking /\ entries[e].lock = Nobody /\ ~Alive(entries[e].conn)
      /\ entries' = [entries EXCEPT ![e].lock = t] /\ Step(t, DialPc(call[t].pc))
      /\ CallKnown(t) /\ UNCHANGED <<closing, dialled, conns, codex>>
  BY <1>1 DEF StartDial, BrokerInv
<1>3. DialPc(call[t].pc) \in Dialling \cap CallPcs
  BY Places DEF DialPc, Dialling
<1>4. /\ call' \in [Calls -> CallStates] /\ call'[t].pc = DialPc(call[t].pc)
      /\ \A u \in Calls : u # t => call'[u] = call[u]
      /\ call'[t].conn = call[t].conn /\ call'[t].entry = e
      /\ call'[t].resp = call[t].resp /\ call'[t].turn = call[t].turn
  BY <1>1, <1>2, <1>3, StepEffect DEF BrokerInv, BrokerTypeOK
<1>5. /\ entries' \in [Generations -> Entries] /\ entries'[e].lock = t
      /\ entries'[e].conn = entries[e].conn
      /\ \A g \in Generations : g # e => entries'[g] = entries[g]
  BY <1>2 DEF BrokerInv, BrokerTypeOK, Entries
<1>6. codex[t].rpc = "none"
  BY <1>2, Places
     DEF CallKnown, Worked, Waiting, Rpcs, Locking, BrokerInv, BrokerTypeOK, CodexStates
<1>7. Placed(t)' /\ Registered(t)' /\ Worked(t)'
  BY <1>1, <1>2, <1>3, <1>4, <1>6
     DEF CallKnown, Placed, Registered, Worked, Waiting, Connected, OnTurn, Locking, Dialling
<1>8. /\ call[t].pc = "lockForThread" => call'[t].pc = "dialForThread"
      /\ call[t].pc # "lockForThread" => call[t].pc = "lockForTurn" /\ call'[t].pc = "dialForTurn"
  BY <1>2, <1>4 DEF DialPc, Locking
<1>9. Heard(t)' /\ Kept(t)'
  BY <1>2, <1>4, <1>8 DEF CallKnown, Heard, Kept, OnTurn, Unattached, Between, OpenConn
<1>10. ASSUME NEW u \in Calls PROVE CallKnown(u)'
  <2>1. CASE u = t
    BY <1>7, <1>9, <2>1 DEF CallKnown
  <2>2. CASE u # t
    <3>1. Aside(t) /\ dialled \in 0 .. MaxDials
      BY <1>2, <1>4 DEF Aside, BrokerInv, BrokerTypeOK
    <3> QED BY <1>2, <2>2, <3>1, BrokerAssumption, OthersKnown
  <2> QED BY <2>1, <2>2
<1>11. ASSUME NEW g \in Generations, entries'[g].lock # Nobody
       PROVE  /\ call'[entries'[g].lock].pc \in Dialling /\ call'[entries'[g].lock].entry = g
              /\ ~Alive(entries'[g].conn)
  <2>1. CASE g = e
    BY <1>2, <1>3, <1>4, <1>5, <2>1
  <2>2. CASE g # e
    <3>1. entries'[g] = entries[g]
      BY <1>5, <2>2
    <3>2. /\ entries[g].lock \in Calls /\ call[entries[g].lock].pc \in Dialling
          /\ call[entries[g].lock].entry = g /\ ~Alive(entries[g].conn)
      BY <1>11, <3>1 DEF BrokerInv, BrokerTypeOK, LockHeld, Entries
    <3>3. entries[g].lock # t
      BY <1>2, <3>2 DEF Locking, Dialling
    <3> QED BY <1>4, <3>1, <3>2, <3>3
  <2> QED BY <2>1, <2>2
<1>12. BrokerTypeOK'
  BY <1>2, <1>4, <1>5, <1>11 DEF BrokerInv, BrokerTypeOK
<1>13. ConnsKnown'
  BY <1>2, <1>5 DEF BrokerInv, ConnsKnown
<1>14. LockHeld'
  <2>1. ASSUME NEW u \in Calls, call'[u].pc \in Dialling
        PROVE  entries'[call'[u].entry].lock = u
    <3>1. CASE u = t
      BY <1>4, <1>5, <3>1
    <3>2. CASE u # t
      <4>1. /\ call'[u] = call[u] /\ entries[call[u].entry].lock = u
            /\ call[u].entry \in Generations
        BY <1>4, <2>1, <3>2 DEF BrokerInv, LockHeld, BrokerTypeOK, CallStates
      <4>2. call[u].entry # e
        BY <1>2, <4>1, BrokerAssumption
      <4> QED BY <1>5, <4>1, <4>2
    <3> QED BY <3>1, <3>2
  <2>2. \A c : Alive(c)' = Alive(c)
    BY <1>2 DEF Alive
  <2> QED BY <1>11, <2>1, <2>2 DEF LockHeld, Alive
<1>15. OneConn'
  BY <1>2, <1>5 DEF BrokerInv, OneConn, OpenConn, Generations
<1> QED BY <1>10, <1>12, <1>13, <1>14, <1>15 DEF BrokerInv

\* An entry whose lock is released by the call that dialled.
Released(t, e) ==
    /\ entries' \in [Generations -> Entries] /\ entries'[e].lock = Nobody
    /\ \A g \in Generations : g # e => entries'[g] = entries[g]

LEMMA ReleaseHolders ==
    ASSUME BrokerInv, NEW t \in Calls, call[t].pc \in Dialling, Released(t, call[t].entry),
           \A u \in Calls : u # t => call'[u] = call[u]
    PROVE  /\ \A g \in Generations : entries'[g].lock # Nobody =>
                 /\ entries'[g] = entries[g] /\ entries[g].lock # Nobody
                 /\ call'[entries'[g].lock].pc \in Dialling
                 /\ call'[entries'[g].lock].entry = g
           /\ \A u \in Calls : u # t /\ call'[u].pc \in Dialling =>
                 entries'[call'[u].entry].lock = u
<1>1. PICK e \in Generations : e = call[t].entry
  BY DEF BrokerInv, BrokerTypeOK, CallStates
<1>2. entries[e].lock = t
  BY <1>1 DEF BrokerInv, LockHeld
<1>3. ASSUME NEW g \in Generations, entries'[g].lock # Nobody
      PROVE  /\ entries'[g] = entries[g] /\ entries[g].lock # Nobody
             /\ call'[entries'[g].lock].pc \in Dialling
             /\ call'[entries'[g].lock].entry = g
  <2>1. g # e /\ entries'[g] = entries[g]
    BY <1>1, <1>3 DEF Released
  <2>2. /\ entries[g].lock \in Calls /\ call[entries[g].lock].pc \in Dialling
        /\ call[entries[g].lock].entry = g
    BY <1>3, <2>1 DEF BrokerInv, BrokerTypeOK, Entries
  <2>3. entries[g].lock # t
    BY <1>1, <2>1, <2>2
  <2> QED BY <1>3, <2>1, <2>2, <2>3
<1>4. ASSUME NEW u \in Calls, u # t, call'[u].pc \in Dialling
      PROVE  entries'[call'[u].entry].lock = u
  <2>1. /\ call'[u] = call[u] /\ entries[call[u].entry].lock = u
        /\ call[u].entry \in Generations
    BY <1>4 DEF BrokerInv, LockHeld, BrokerTypeOK, CallStates
  <2>2. call[u].entry # e
    BY <1>2, <1>4, <2>1
  <2> QED BY <1>1, <2>1, <2>2 DEF Released
<1> QED BY <1>3, <1>4

LEMMA DialledStep ==
    ASSUME BrokerInv, NEW t \in Calls, Dialled(t)
    PROVE  BrokerInv'
<1>1. PICK e \in Generations : e = call[t].entry
  BY DEF BrokerInv, BrokerTypeOK, CallStates
<1>2. PICK c \in Conns : c = dialled + 1
  BY DEF Dialled
<1>3. /\ call[t].pc \in Dialling /\ dialled' = c /\ conns' = [conns EXCEPT ![c] = NewConn]
      /\ entries' = [entries EXCEPT ![e] = [conn |-> c, lock |-> Nobody]]
      /\ call' = UseConn(t, c) /\ UNCHANGED <<closing, codex>> /\ CallKnown(t)
  BY <1>1, <1>2 DEF Dialled, BrokerInv
<1>4. /\ dialled \in Nat /\ c \in Nat /\ c > dialled /\ c # NoConn /\ MaxDials \in Nat
      /\ conns[c] = [NewConn EXCEPT !.reader = "none"]
  BY <1>2, BrokerAssumption DEF BrokerInv, BrokerTypeOK, ConnsKnown, Conns, NoConn
<1>5. /\ NewConn \in ConnStates /\ [conn |-> c, lock |-> Nobody] \in Entries
  BY DEF NewConn, ConnStates, Entries
<1>6. /\ conns' \in [Conns -> ConnStates] /\ conns'[c] = NewConn
      /\ \A d \in Conns : d # c => conns'[d] = conns[d]
  BY <1>3, <1>5 DEF BrokerInv, BrokerTypeOK
<1>7. /\ entries' \in [Generations -> Entries]
      /\ entries'[e].lock = Nobody /\ entries'[e].conn = c
      /\ \A g \in Generations : g # e => entries'[g] = entries[g]
  BY <1>3, <1>5 DEF BrokerInv, BrokerTypeOK
<1>8. /\ call' \in [Calls -> CallStates] /\ \A u \in Calls : u # t => call'[u] = call[u]
      /\ call'[t].pc \in {"sendThread", "sendResume", "sendTurn"}
  BY <1>3, UseConnEffect DEF BrokerInv, BrokerTypeOK
<1>9. CallKnown(t)'
  <2>1. t \notin conns'[c].attached /\ t \notin conns[c].attached
    BY <1>4, <1>6 DEF NewConn
  <2>2. \A d \in Conns : conns'[d] = conns[d] \/ (conns'[d] = NewConn /\ d > dialled)
    BY <1>4, <1>6
  <2>3. /\ call[t].pc \in Locking \cup Dialling /\ c <= dialled'
        /\ t \in conns'[c].attached <=> t \in conns[c].attached
    BY <1>3, <1>4, <2>1
  <2> QED BY <1>3, <2>2, <2>3, UsedKnown
<1>10. ASSUME NEW u \in Calls PROVE CallKnown(u)'
  <2>1. CASE u = t
    BY <1>9, <2>1
  <2>2. CASE u # t
    <3>1. Aside(t)
      BY <1>3, <1>4, <1>6, <1>8 DEF Aside
    <3>2. dialled' \in 0 .. MaxDials /\ dialled <= dialled'
      BY <1>3, <1>4 DEF Conns
    <3> QED BY <1>3, <2>2, <3>1, <3>2, OthersKnown
  <2> QED BY <2>1, <2>2
<1>11. Released(t, e)
  BY <1>7 DEF Released
<1>12. /\ \A g \in Generations : entries'[g].lock # Nobody =>
             /\ entries'[g] = entries[g] /\ entries[g].lock # Nobody
             /\ call'[entries'[g].lock].pc \in Dialling
             /\ call'[entries'[g].lock].entry = g
       /\ \A u \in Calls : u # t /\ call'[u].pc \in Dialling =>
             entries'[call'[u].entry].lock = u
  BY <1>1, <1>3, <1>8, <1>11, ReleaseHolders
<1>13. BrokerTypeOK'
  <2>1. dialled' \in 0 .. MaxDials
    BY <1>3, <1>4 DEF Conns
  <2> QED BY <1>3, <1>6, <1>7, <1>8, <1>12, <2>1 DEF BrokerInv, BrokerTypeOK
<1>14. ConnsKnown'
  <2>1. \A d \in Conns : d > dialled' => conns'[d] = [NewConn EXCEPT !.reader = "none"]
    BY <1>2, <1>3, <1>4, <1>6 DEF BrokerInv, ConnsKnown, Conns
  <2>2. ASSUME NEW g \in Generations PROVE entries'[g].conn <= dialled'
    <3>1. entries[g].conn <= dialled /\ entries[g].conn \in Conns \cup {NoConn}
      BY DEF BrokerInv, ConnsKnown, BrokerTypeOK, Entries
    <3>2. entries[g].conn \in Nat
      BY <1>4, <3>1 DEF Conns, NoConn
    <3> QED BY <1>2, <1>3, <1>4, <1>7, <3>1, <3>2
  <2> QED BY <2>1, <2>2 DEF ConnsKnown
<1>15. \A g \in Generations : entries[g].conn # c
  BY <1>4 DEF BrokerInv, ConnsKnown
<1>16. LockHeld'
  <2>1. ASSUME NEW g \in Generations, entries'[g].lock # Nobody
        PROVE  ~Alive(entries[g].conn)'
    <3>1. /\ entries'[g] = entries[g] /\ ~Alive(entries[g].conn)
          /\ entries[g].conn \in Conns \cup {NoConn}
      BY <1>12, <2>1 DEF BrokerInv, LockHeld, BrokerTypeOK, Entries
    <3>2. entries[g].conn # NoConn => conns'[entries[g].conn] = conns[entries[g].conn]
      BY <1>6, <1>15, <3>1
    <3> QED BY <3>1, <3>2 DEF Alive
  <2>2. call'[t].pc \notin Dialling
    BY <1>8 DEF Dialling
  <2> QED BY <1>12, <2>1, <2>2 DEF LockHeld
<1>17. OneConn'
  <2> SUFFICES ASSUME closing # "done", NEW d \in Conns, OpenConn(d)'
               PROVE  entries'["open"].conn = d
    BY <1>3 DEF OneConn
  <2>1. e = "open"
    BY <1>1, <1>3 DEF CallKnown, Placed, Generations
  <2>2. entries["open"].lock = t /\ t # Nobody
    BY <1>1, <1>3, <2>1, BrokerAssumption DEF BrokerInv, LockHeld
  <2>3. ~Alive(entries["open"].conn)
    BY <2>2 DEF BrokerInv, LockHeld, Generations
  <2>4. d # c => OpenConn(d)
    BY <1>6 DEF OpenConn
  <2>5. d # c => entries["open"].conn = d
    BY <2>4 DEF BrokerInv, OneConn
  <2>6. d # NoConn
    BY DEF Conns, NoConn
  <2>7. d = c
    BY <2>3, <2>4, <2>5, <2>6 DEF Alive, OpenConn
  <2> QED BY <1>7, <2>1, <2>7
<1> QED BY <1>10, <1>13, <1>14, <1>16, <1>17 DEF BrokerInv

LEMMA DialFailsStep ==
    ASSUME BrokerInv, NEW t \in Calls, DialFails(t)
    PROVE  BrokerInv'
<1>1. PICK e \in Generations : e = call[t].entry
  BY DEF BrokerInv, BrokerTypeOK, CallStates
<1>2. /\ call[t].pc \in Dialling /\ entries' = [entries EXCEPT ![e].lock = Nobody]
      /\ Reply(t) /\ UNCHANGED <<closing, dialled, conns, codex>> /\ CallKnown(t)
  BY <1>1 DEF DialFails, BrokerInv
<1>3. /\ entries' \in [Generations -> Entries] /\ entries'[e].lock = Nobody
      /\ entries'[e].conn = entries[e].conn
      /\ \A g \in Generations : g # e => entries'[g] = entries[g]
  BY <1>2 DEF BrokerInv, BrokerTypeOK, Entries
<1>4. /\ call' \in [Calls -> CallStates] /\ call'[t].pc = "answered"
      /\ \A u \in Calls : u # t => call'[u] = call[u]
  BY <1>2, ReplyEffect DEF BrokerInv, BrokerTypeOK
<1>5. CallKnown(t)'
  <2>1. \A c \in Conns : t \notin conns'[c].pendingResp /\ t \notin conns'[c].pendingTurns
    BY <1>2 DEF CallKnown, Registered, Dialling, Waiting
  <2> QED BY <1>2, <2>1, AnswerKnown
<1>6. ASSUME NEW u \in Calls PROVE CallKnown(u)'
  <2>1. CASE u = t
    BY <1>5, <2>1
  <2>2. CASE u # t
    <3>1. Aside(t) /\ dialled' \in 0 .. MaxDials /\ dialled <= dialled'
      BY <1>2, <1>4, BrokerAssumption DEF Aside, BrokerInv, BrokerTypeOK
    <3> QED BY <1>2, <2>2, <3>1, OthersKnown
  <2> QED BY <2>1, <2>2
<1>7. Released(t, e)
  BY <1>3 DEF Released
<1>8. /\ \A g \in Generations : entries'[g].lock # Nobody =>
             /\ entries'[g] = entries[g] /\ entries[g].lock # Nobody
             /\ call'[entries'[g].lock].pc \in Dialling
             /\ call'[entries'[g].lock].entry = g
      /\ \A u \in Calls : u # t /\ call'[u].pc \in Dialling =>
             entries'[call'[u].entry].lock = u
  BY <1>1, <1>2, <1>4, <1>7, ReleaseHolders
<1>9. BrokerTypeOK'
  BY <1>2, <1>3, <1>4, <1>8 DEF BrokerInv, BrokerTypeOK
<1>10. ConnsKnown'
  BY <1>2, <1>3 DEF BrokerInv, ConnsKnown
<1>11. LockHeld'
  <2>1. call'[t].pc \notin Dialling
    BY <1>4 DEF Dialling
  <2> QED BY <1>2, <1>8, <2>1 DEF BrokerInv, LockHeld, Alive
<1>12. OneConn'
  BY <1>2, <1>3 DEF BrokerInv, OneConn, OpenConn, Generations
<1> QED BY <1>6, <1>9, <1>10, <1>11, <1>12 DEF BrokerInv

\* The steps of the readers and of the pool: no connection opens by them.
LEMMA AloofStep ==
    ASSUME BrokerInv,
           UNCHANGED <<dialled, call, codex>>,
           closing' \in {"no", "waiting", "done"}, closing = "done" => closing' = "done",
           entries' \in [Generations -> Entries], conns' \in [Conns -> ConnStates],
           \A g \in Generations :
               /\ entries'[g].lock = entries[g].lock
               /\ entries'[g].conn \in {entries[g].conn, NoConn},
           \A c \in Conns :
               /\ c > dialled => conns'[c] = conns[c]
               /\ conns'[c].reader = "reading" => conns[c].reader = "reading"
               /\ conns[c].shut => conns'[c].shut
               /\ conns'[c].pendingResp = conns[c].pendingResp
               /\ conns'[c].pendingTurns = conns[c].pendingTurns
               /\ conns'[c].completedTurns = conns[c].completedTurns
               /\ conns'[c].attached = conns[c].attached,
           closing' # "done" => \A c \in Conns : OpenConn(c)' => entries'["open"].conn = c
    PROVE  BrokerInv'
<1>1. \A c \in Conns : OpenConn(c)' => OpenConn(c)
  BY DEF OpenConn
<1>2. ASSUME NEW t \in Calls PROVE CallKnown(t)'
  <2>1. CallKnown(t)
    BY DEF BrokerInv
  <2>2. Placed(t)' /\ Registered(t)' /\ Worked(t)'
    BY <2>1 DEF CallKnown, Placed, Registered, Worked
  <2>3. Heard(t)' /\ Kept(t)'
    BY <1>1, <2>1 DEF CallKnown, Heard, Kept
  <2> QED BY <2>2, <2>3 DEF CallKnown
<1>3. BrokerTypeOK'
  BY DEF BrokerInv, BrokerTypeOK
<1>4. ConnsKnown'
  BY BrokerAssumption DEF BrokerInv, BrokerTypeOK, ConnsKnown, NoConn
<1>5. LockHeld'
  <2>1. \A t \in Calls : call[t].entry \in Generations
    BY DEF BrokerInv, BrokerTypeOK, CallStates
  <2>2. ASSUME NEW g \in Generations, entries'[g].lock # Nobody
        PROVE  ~Alive(entries[g].conn)'
    <3>1. /\ ~Alive(entries[g].conn) /\ entries[g].conn \in Conns \cup {NoConn}
      BY <2>2 DEF BrokerInv, LockHeld, BrokerTypeOK, Entries
    <3> QED BY <3>1 DEF Alive
  <2> QED BY <2>1, <2>2 DEF BrokerInv, LockHeld
<1>6. OneConn'
  BY DEF OneConn
<1> QED BY <1>2, <1>3, <1>4, <1>5, <1>6 DEF BrokerInv

LEMMA ReaderFailsStep ==
    ASSUME BrokerInv, NEW c \in Conns, ReaderFails(c)
    PROVE  BrokerInv'
<1>1. /\ conns[c].reader = "reading" /\ conns' = [conns EXCEPT ![c].reader = "failed"]
      /\ UNCHANGED <<entries, closing, dialled, call, codex>>
  BY DEF ReaderFails
<1> DEFINE k == [conns[c] EXCEPT !.reader = "failed"]
<1>2. conns[c] \in ConnStates
  BY DEF BrokerInv, BrokerTypeOK
<1>3. /\ k \in ConnStates /\ k.reader = "failed" /\ k.shut = conns[c].shut
      /\ k.pendingResp = conns[c].pendingResp /\ k.attached = conns[c].attached
      /\ k.pendingTurns = conns[c].pendingTurns
      /\ k.completedTurns = conns[c].completedTurns
  BY <1>2 DEF ConnStates
<1>4. conns' = [conns EXCEPT ![c] = k]
  BY <1>1
<1> HIDE DEF k
<1>5. /\ conns' \in [Conns -> ConnStates] /\ conns'[c] = k
      /\ \A d \in Conns : d # c => conns'[d] = conns[d]
  BY <1>3, <1>4 DEF BrokerInv, BrokerTypeOK
<1>6. ~(c > dialled)
  BY <1>1 DEF BrokerInv, ConnsKnown, NewConn
<1>7. closing' # "done" => \A d \in Conns : OpenConn(d)' => entries'["open"].conn = d
  BY <1>1, <1>3, <1>5 DEF BrokerInv, OneConn, OpenConn
<1>8. closing' \in {"no", "waiting", "done"} /\ entries' \in [Generations -> Entries]
  BY <1>1 DEF BrokerInv, BrokerTypeOK
<1> QED BY <1>1, <1>3, <1>5, <1>6, <1>7, <1>8, AloofStep

\* A connection that the pool drops from its entry, and shuts.
LEMMA DropConnStep ==
    ASSUME BrokerInv, UNCHANGED <<dialled, call, codex>>,
           closing' \in {"no", "waiting", "done"}, closing = "done" => closing' = "done",
           entries["open"].lock = Nobody,
           entries' = [entries EXCEPT !["open"].conn = NoConn],
           entries["open"].conn = NoConn => UNCHANGED conns,
           entries["open"].conn # NoConn => ShutConn(entries["open"].conn)
    PROVE  BrokerInv'
<1>1. /\ entries \in [Generations -> Entries] /\ "open" \in Generations
      /\ conns \in [Conns -> ConnStates]
  BY DEF BrokerInv, BrokerTypeOK, Generations
<1>2. /\ entries' \in [Generations -> Entries]
      /\ \A g \in Generations : /\ entries'[g].lock = entries[g].lock
                                /\ entries'[g].conn \in {entries[g].conn, NoConn}
  BY <1>1 DEF Entries
<1>3. entries["open"].conn \in Conns \cup {NoConn}
  BY <1>1 DEF Entries
<1>4. /\ conns' \in [Conns -> ConnStates]
      /\ \A c \in Conns :
            /\ c # entries["open"].conn => conns'[c] = conns[c]
            /\ c = entries["open"].conn => conns'[c].shut
            /\ conns'[c].reader = conns[c].reader
            /\ conns[c].shut => conns'[c].shut
            /\ conns'[c].pendingResp = conns[c].pendingResp
            /\ conns'[c].pendingTurns = conns[c].pendingTurns
            /\ conns'[c].completedTurns = conns[c].completedTurns
            /\ conns'[c].attached = conns[c].attached
  <2>1. CASE entries["open"].conn = NoConn
    <3>1. conns' = conns /\ NoConn \notin Conns
      BY <2>1 DEF Conns, NoConn
    <3> QED BY <1>1, <2>1, <3>1
  <2>2. CASE entries["open"].conn # NoConn
    <3>1. PICK c \in Conns : c = entries["open"].conn
      BY <1>3, <2>2
    <3> DEFINE k == [conns[c] EXCEPT !.shut = TRUE]
    <3>2. /\ k \in ConnStates /\ k.reader = conns[c].reader /\ k.shut
          /\ k.pendingResp = conns[c].pendingResp /\ k.attached = conns[c].attached
          /\ k.pendingTurns = conns[c].pendingTurns
          /\ k.completedTurns = conns[c].completedTurns
      BY <1>1 DEF ConnStates
    <3>3. conns' = [conns EXCEPT ![c] = k]
      BY <2>2, <3>1 DEF ShutConn
    <3> HIDE DEF k
    <3>4. /\ conns' \in [Conns -> ConnStates] /\ conns'[c] = k
          /\ \A d \in Conns : d # c => conns'[d] = conns[d]
      BY <1>1, <3>2, <3>3
    <3> QED BY <3>1, <3>2, <3>4
  <2> QED BY <2>1, <2>2
<1>5. \A c \in Conns : c > dialled => conns'[c] = conns[c]
  <2>1. entries["open"].conn <= dialled /\ dialled \in Nat
    BY <1>1, BrokerAssumption DEF BrokerInv, BrokerTypeOK, ConnsKnown
  <2>2. \A c \in Conns : c > dialled => c # entries["open"].conn
    BY <2>1 DEF Conns
  <2> QED BY <1>4, <2>2
<1>6. closing' # "done" => \A d \in Conns : OpenConn(d)' => entries'["open"].conn = d
  <2>1. ASSUME closing' # "done", NEW d \in Conns, OpenConn(d)' PROVE FALSE
    <3>1. OpenConn(d) /\ d # entries["open"].conn
      BY <1>4, <2>1 DEF OpenConn
    <3> QED BY <2>1, <3>1 DEF BrokerInv, OneConn
  <2> QED BY <2>1
<1> QED BY <1>2, <1>4, <1>5, <1>6, AloofStep

LEMMA PoolSteps ==
    ASSUME BrokerInv, PoolStep
    PROVE  BrokerInv'
<1>1. CASE Reap
  <2>1. /\ closing' = closing /\ closing \in {"no", "waiting", "done"}
        /\ entries["open"].lock = Nobody /\ entries["open"].conn # NoConn
        /\ UNCHANGED <<dialled, call, codex>> /\ ShutConn(entries["open"].conn)
        /\ entries' = [entries EXCEPT !["open"].conn = NoConn]
    BY <1>1 DEF Reap, BrokerInv, BrokerTypeOK
  <2> QED BY <2>1, DropConnStep
<1>2. CASE CloseEntry
  <2>1. /\ closing' = "done" /\ entries["open"].lock = Nobody
        /\ UNCHANGED <<dialled, call, codex>>
        /\ entries["open"].conn = NoConn => UNCHANGED conns
        /\ entries["open"].conn # NoConn => ShutConn(entries["open"].conn)
        /\ entries' = [entries EXCEPT !["open"].conn = NoConn]
    BY <1>2 DEF CloseEntry
  <2> QED BY <2>1, DropConnStep
<1>3. CASE ClosePool
  <2>1. /\ closing = "no" /\ closing' = "waiting"
        /\ UNCHANGED <<entries, dialled, conns, call, codex>>
    BY <1>3 DEF ClosePool
  <2>2. entries' \in [Generations -> Entries] /\ conns' \in [Conns -> ConnStates]
    BY <2>1 DEF BrokerInv, BrokerTypeOK
  <2>3. \A d \in Conns : OpenConn(d)' => entries'["open"].conn = d
    BY <2>1 DEF BrokerInv, OneConn, OpenConn
  <2> QED BY <2>1, <2>2, <2>3, AloofStep
<1> QED BY <1>1, <1>2, <1>3 DEF PoolStep

\* The reader's end: what waited is told so, and codex' work is lost.
LEMMA FailAllPendingStep ==
    ASSUME BrokerInv, NEW c \in Conns, FailAllPending(c)
    PROVE  BrokerInv'
<1>1. /\ conns[c].reader = "failed" /\ conns' = [conns EXCEPT ![c] = EndedConn]
      /\ UNCHANGED <<entries, closing, dialled>>
  BY Zenon DEF FailAllPending
<1>2. EndedConn \in ConnStates /\ EndedConn.reader = "ended" /\ EndedConn.pendingResp = {}
      /\ EndedConn.pendingTurns = {} /\ EndedConn.attached = {}
  BY DEF EndedConn, NewConn, ConnStates
<1>3. /\ conns' \in [Conns -> ConnStates] /\ conns'[c] = EndedConn
      /\ \A d \in Conns : d # c => conns'[d] = conns[d]
  BY <1>1, <1>2 DEF BrokerInv, BrokerTypeOK
<1>4. ASSUME NEW t \in Calls
      PROVE  /\ call'[t] \in CallStates /\ call'[t].pc = call[t].pc
             /\ call'[t].conn = call[t].conn /\ call'[t].entry = call[t].entry
             /\ call'[t].resp = IF t \in conns[c].pendingResp THEN "closed" ELSE call[t].resp
             /\ call'[t].turn = IF t \in conns[c].pendingTurns THEN "closed" ELSE call[t].turn
  <2> DEFINE resp == IF t \in conns[c].pendingResp THEN "closed" ELSE call[t].resp
             turn == IF t \in conns[c].pendingTurns THEN "closed" ELSE call[t].turn
             q == [call[t] EXCEPT !.resp = resp, !.turn = turn]
  <2>1. call[t] \in CallStates
    BY DEF BrokerInv, BrokerTypeOK
  <2>2. /\ q \in CallStates /\ q.pc = call[t].pc /\ q.conn = call[t].conn
        /\ q.entry = call[t].entry /\ q.resp = resp /\ q.turn = turn
    BY <2>1 DEF CallStates
  <2>3. call'[t] = q
    BY <2>1, Zenon DEF FailAllPending, CallStates
  <2> QED BY <2>2, <2>3
<1>5. ASSUME NEW t \in Calls
      PROVE  /\ codex'[t] \in CodexStates
             /\ codex'[t] = IF call[t].conn = c THEN NoTurn ELSE codex[t]
  BY Zenon DEF FailAllPending, BrokerInv, BrokerTypeOK, NoTurn, CodexStates
<1>6. /\ call' \in [Calls -> CallStates] /\ codex' \in [Calls -> CodexStates]
  <2>1. call' = [t \in Calls |-> call'[t]] /\ codex' = [t \in Calls |-> codex'[t]]
    BY Zenon DEF FailAllPending
  <2> QED BY <1>4, <1>5, <2>1
<1>7. ASSUME NEW t \in Calls PROVE CallKnown(t)'
  <2>1. CallKnown(t)
    BY DEF BrokerInv
  <2>2. Placed(t)' /\ Registered(t)'
    BY <1>1, <1>2, <1>3, <1>4, <2>1 DEF CallKnown, Placed, Registered
  <2>3. Worked(t)'
    BY <1>4, <1>5, <2>1 DEF CallKnown, Worked, Registered, NoTurn
  <2>4. \A d \in Conns : /\ OpenConn(d)' => OpenConn(d) /\ d # c
                         /\ t \in conns'[d].attached => t \in conns[d].attached /\ d # c
                         /\ d # c => conns'[d].completedTurns = conns[d].completedTurns
    BY <1>2, <1>3 DEF OpenConn
  <2>5. Heard(t)'
    BY <1>4, <1>5, <2>1, <2>4 DEF CallKnown, Heard
  <2>6. Kept(t)'
    <3> SUFFICES ASSUME NEW d \in Conns, d = call[t].conn, codex'[t].reported, OpenConn(d)',
                        call[t].pc \in {"waitTurn", "register", "waitDone"}
                 PROVE  t \in conns'[d].completedTurns \/ call'[t].turn = "value"
      BY <1>4 DEF Kept
    <3>1. d # c /\ OpenConn(d) /\ codex'[t] = codex[t]
      BY <1>5, <2>4
    <3>2. t \in conns[d].completedTurns \/ call[t].turn = "value"
      BY <2>1, <3>1 DEF CallKnown, Kept
    <3>3. t \notin conns[c].pendingTurns
      BY <2>1, <3>1 DEF CallKnown, Registered
    <3> QED BY <1>4, <2>4, <3>1, <3>2, <3>3
  <2> QED BY <2>2, <2>3, <2>5, <2>6 DEF CallKnown
<1>8. \A d \in Conns : /\ OpenConn(d)' => OpenConn(d)
                       /\ conns'[d].reader = "reading" => conns[d].reader = "reading"
  BY <1>2, <1>3 DEF OpenConn
<1>9. BrokerTypeOK'
  <2>1. ASSUME NEW g \in Generations, entries[g].lock # Nobody
        PROVE  call'[entries[g].lock].pc \in Dialling /\ call'[entries[g].lock].entry = g
    <3>1. /\ entries[g].lock \in Calls /\ call[entries[g].lock].pc \in Dialling
          /\ call[entries[g].lock].entry = g
      BY <2>1 DEF BrokerInv, BrokerTypeOK, Entries
    <3> QED BY <1>4, <3>1
  <2> QED BY <1>1, <1>3, <1>6, <2>1 DEF BrokerInv, BrokerTypeOK
<1>10. ConnsKnown'
  <2>1. ~(c > dialled)
    BY <1>1 DEF BrokerInv, ConnsKnown, NewConn
  <2> QED BY <1>1, <1>3, <2>1 DEF BrokerInv, ConnsKnown
<1>11. LockHeld'
  <2>1. ASSUME NEW g \in Generations, entries[g].lock # Nobody
        PROVE  ~Alive(entries[g].conn)'
    <3>1. /\ ~Alive(entries[g].conn) /\ entries[g].conn \in Conns \cup {NoConn}
      BY <2>1 DEF BrokerInv, LockHeld, BrokerTypeOK, Entries
    <3> QED BY <1>1, <1>8, <3>1 DEF Alive
  <2> QED BY <1>1, <1>4, <2>1 DEF BrokerInv, LockHeld
<1>12. OneConn'
  BY <1>1, <1>8 DEF BrokerInv, OneConn
<1> QED BY <1>7, <1>9, <1>10, <1>11, <1>12 DEF BrokerInv

LEMMA BrokerInitInv == BrokerInit => BrokerInv
<1> SUFFICES ASSUME BrokerInit PROVE BrokerInv
  OBVIOUS
<1>1. /\ \A g \in Generations : entries[g].conn = NoConn /\ entries[g].lock = Nobody
      /\ \A c \in Conns : conns[c] = [NewConn EXCEPT !.reader = "none"]
      /\ \A t \in Calls : call[t] = NewCall /\ codex[t] = NoTurn
      /\ closing = "no" /\ dialled = 0
  BY DEF BrokerInit
<1>2. /\ entries \in [Generations -> Entries] /\ conns \in [Conns -> ConnStates]
      /\ call \in [Calls -> CallStates] /\ codex \in [Calls -> CodexStates]
  <2>1. /\ [conn |-> NoConn, lock |-> Nobody] \in Entries
        /\ [NewConn EXCEPT !.reader = "none"] \in ConnStates
        /\ NoTurn \in CodexStates
    BY DEF Entries, ConnStates, NewConn, CodexStates, NoTurn
  <2>2. NewCall \in CallStates
    BY Places DEF CallStates, NewCall, Generations
  <2> QED BY <2>1, <2>2 DEF BrokerInit
<1>3. BrokerTypeOK
  BY <1>1, <1>2, BrokerAssumption DEF BrokerTypeOK
<1>4. ConnsKnown /\ LockHeld /\ OneConn
  BY <1>1, BrokerAssumption
     DEF ConnsKnown, LockHeld, OneConn, NewConn, NewCall, NoConn, Alive, OpenConn, Dialling
<1>5. ASSUME NEW t \in Calls PROVE CallKnown(t)
  <2>1. /\ call[t].pc = "rest" /\ call[t].entry = "open" /\ call[t].conn = 0
        /\ call[t].resp = "empty" /\ call[t].turn = "empty"
        /\ codex[t].rpc = "none" /\ ~codex[t].running /\ ~codex[t].reported
    BY <1>1 DEF NewCall, NoTurn, NoConn
  <2>2. \A c \in Conns : /\ conns[c].pendingResp = {} /\ conns[c].pendingTurns = {}
                         /\ conns[c].attached = {}
    BY <1>1 DEF NewConn
  <2>3. Placed(t) /\ Registered(t)
    BY <1>1, <2>1, <2>2 DEF Placed, Registered, Connected, OnTurn
  <2>4. Worked(t)
    BY <2>1 DEF Worked
  <2>5. Heard(t) /\ Kept(t)
    BY <2>1, <2>2 DEF Heard, Kept, OnTurn
  <2> QED BY <2>3, <2>4, <2>5 DEF CallKnown
<1> QED BY <1>3, <1>4, <1>5 DEF BrokerInv

LEMMA BrokerInvStep == BrokerInv /\ [BrokerNext]_brokerVars => BrokerInv'
<1> SUFFICES ASSUME BrokerInv, [BrokerNext]_brokerVars PROVE BrokerInv'
  OBVIOUS
<1>1. ASSUME NEW t \in Calls, CallStep(t) PROVE BrokerInv'
  <2>1. CASE FindEntry(t) \/ ReuseConn(t) \/ StartDial(t) \/ Dialled(t) \/ DialFails(t)
    BY <2>1, FindEntryStep, ReuseConnStep, StartDialStep, DialledStep, DialFailsStep
  <2>2. CASE SendFails(t) \/ RegisterTurn(t) \/ TakeTurn(t) \/ TimeOut(t)
    BY <2>2, SendFailsStep, RegisterTurnStep, TakeTurnStep, TimeOutStep
  <2>3. ASSUME NEW r \in Rpcs,
               Send(t, r) \/ TakeResponse(t, r) \/ TakeError(t, r) \/ TakeClosed(t, r)
        PROVE  BrokerInv'
    BY <2>3, SendStep, TakeResponseStep, TakeErrorStep, TakeClosedStep
  <2> QED BY <1>1, <2>1, <2>2, <2>3 DEF CallStep
<1>2. ASSUME NEW t \in Calls, CodexStep(t) PROVE BrokerInv'
  BY <1>2, RespondStep, DeliverTurnStep DEF CodexStep
<1>3. ASSUME NEW t \in Calls, Arrive(t) \/ \E r \in Rpcs : CancelWait(t, r) PROVE BrokerInv'
  BY <1>3, ArriveStep, TakeClosedStep
<1>4. ASSUME NEW c \in Conns, ReaderFails(c) \/ FailAllPending(c) PROVE BrokerInv'
  BY <1>4, ReaderFailsStep, FailAllPendingStep
<1>5. CASE PoolStep
  BY <1>5, PoolSteps
<1>6. CASE UNCHANGED brokerVars
  BY <1>6 DEF brokerVars, BrokerInv, BrokerTypeOK, ConnsKnown, LockHeld, OneConn, Alive,
              OpenConn, CallKnown, Placed, Registered, Worked, Heard, Kept
<1> QED BY <1>1, <1>2, <1>3, <1>4, <1>5, <1>6 DEF BrokerNext

LEMMA BrokerInvariance == BrokerSpec => []BrokerInv
  BY BrokerInitInv, BrokerInvStep, PTL DEF BrokerSpec

\* What the broker keeps has its type, and the lock of an entry is held only by
\* the call that dials for it (Pool.Get).
THEOREM BrokerAlwaysTyped == BrokerSpec => []BrokerTypeOK
<1>1. BrokerInv => BrokerTypeOK
  BY DEF BrokerInv
<1> QED BY <1>1, BrokerInvariance, PTL

\* For any number of calls and dials: one working connection until the pool
\* closes, no completion lost while its call waits and the reader lives, every
\* turn heard of by the connection its call waits on, and no registration left
\* behind by a call that is over.
THEOREM CallsAlwaysSound == BrokerSpec => []CallsSound
<1>1. BrokerInv => CallsSound
  <2> SUFFICES ASSUME BrokerInv PROVE CallsSound
    OBVIOUS
  <2>1. CompletionKept
    BY DEF BrokerInv, CallKnown, Kept, CompletionKept
  <2>2. TurnHeard
    <3> SUFFICES ASSUME NEW t \in Calls, call[t].pc \in {"register", "waitDone"},
                        OpenConn(call[t].conn)
                 PROVE  codex[t].hears = call[t].conn
      BY DEF TurnHeard
    <3>1. PICK c \in Conns : c = call[t].conn
      BY Linked DEF Connected, OnTurn
    <3> QED BY <3>1 DEF BrokerInv, CallKnown, Heard, OnTurn
  <2>3. NoGhosts
    BY DEF BrokerInv, CallKnown, Registered, Waiting, NoGhosts
  <2> QED BY <2>1, <2>2, <2>3 DEF BrokerInv, CallsSound
<1> QED BY <1>1, BrokerInvariance, PTL
=============================================================================
