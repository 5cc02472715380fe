---------------------- MODULE SandboxLifecycle_proofs ----------------------
(***************************************************************************)
(* TLAPS proofs about SandboxLifecycle, for any sets of sandboxes and      *)
(* workers and any number of crashes and rolling updates.                  *)
(*                                                                         *)
(* The argument: ids are born once and provisioned by one process, so a    *)
(* sandbox that is still being created has no other writer than deletions  *)
(* (Exclusive); a pause or a resume can then only meet a sandbox whose CR  *)
(* was seen ready, and every later removal of a CR is a deletion or a      *)
(* start-up that had no list of names, or not this one.                    *)
(***************************************************************************)
EXTENDS SandboxLifecycle, TLAPS

\* What a process does and where it is go together, and a process that is at
\* work has a sandbox.
Program(r) ==
    \/ r.op = "none" /\ r.pc = "rest"
    \/ /\ r.sbx \in Sandboxes
       /\ \/ /\ r.op = "provision"
             /\ r.pc \in {"insert", "start", "wait", "drop", "setip", "run"}
          \/ /\ r.op \in {"pause", "idle"}
             /\ r.pc \in {"mark", "lookup", "scaledown", "clearip", "settle",
                        "revert"}
          \/ /\ r.op = "resume"
             /\ r.pc \in {"mark", "lookup", "scaleup", "wait", "setip", "run",
                        "revert"}
          \/ /\ r.op = "auto"
             /\ r.pc \in {"lookup", "scaleup", "wait", "setip", "run"}
          \/ r.op = "delete" /\ r.pc \in {"lookup", "stop", "delrow"}
          \/ r.op = "reap" /\ r.pc = "stop"

Programs == \A p \in Procs : Program(proc[p])

\* Rows are born, and everybody but the inserter works on what was born.
Born ==
    /\ Rows \subseteq born
    /\ idleQ \subseteq born /\ reapQ \subseteq born
    /\ \A p \in Procs :
          /\ proc[p].pc = "insert" => proc[p].sbx \notin born
          /\ proc[p].op # "none" /\ proc[p].pc # "insert" =>
                proc[p].sbx \in born

\* Only its provisioner and deletions work on a sandbox that is created.
Exclusive ==
    /\ \A p, q \in Procs :
          /\ proc[p].op = "provision" /\ proc[q].op = "provision"
          /\ proc[p].sbx = proc[q].sbx
          => p = q
    /\ \A p \in Procs :
          /\ proc[p].op = "provision" =>
                status[proc[p].sbx] \in {"none", "creating"}
          /\ proc[p].op \in {"pause", "idle", "resume", "auto"} =>
                status[proc[p].sbx] # "creating"
    /\ \A s \in idleQ : status[s] # "creating"
    /\ \A p, q \in Procs :
          /\ proc[p].op = "provision"
          /\ proc[q].op \in {"pause", "idle", "resume", "auto"}
          => proc[p].sbx # proc[q].sbx
    /\ \A p \in Procs : proc[p].op = "provision" => proc[p].sbx \notin idleQ

\* A start-up is about to spare every row, but for those that the replica it
\* replaces has inserted since.
Startup == boot = "clean" => Rows \subseteq known \cup unlisted \/ blind

\* The CR of s is there, or there is a reason why not.
Accounted(s) ==
    cr[s] # "absent" \/ s \in doomed \/ blind \/ s \in unlisted
    \/ status[s] = "none"

Removals ==
    \A p \in Procs :
        /\ proc[p].op = "delete" => proc[p].sbx \in doomed
        /\ proc[p].op = "reap" => status[proc[p].sbx] = "none"
        /\ proc[p].op = "provision" /\ proc[p].pc \in {"setip", "run"} =>
              Accounted(proc[p].sbx)

IInv ==
    /\ TypeOK /\ Programs /\ Born /\ Exclusive /\ Startup /\ Removals
    /\ LiveRowHasCR /\ TransitionOwned

-----------------------------------------------------------------------------
(* Steps *)

\* Every step of the specification keeps the types.
LEMMA TypeStep ==
    ASSUME TypeOK, Programs, [Next]_vars
    PROVE  TypeOK'
<1> USE SandboxesAssumption
        DEF TypeOK, Procs, db, server, history, Status,
            Transitional, Settled, Ops, Steps, Rows
<1>1. ASSUME NEW p \in Workers, RequestSandbox(p) PROVE TypeOK'
  BY <1>1 DEF RequestSandbox, Begin, Resting, Task
<1>2. ASSUME NEW p \in Workers, RequestPause(p) PROVE TypeOK'
  BY <1>2 DEF RequestPause, Begin, Resting, Task, ValidTransition
<1>3. ASSUME NEW p \in Workers, RequestResume(p) PROVE TypeOK'
  BY <1>3 DEF RequestResume, Begin, Resting, Task, ValidTransition
<1>4. ASSUME NEW p \in Workers, AutoResume(p) PROVE TypeOK'
  BY <1>4 DEF AutoResume, Begin, Resting, Task, Rows
<1>5. ASSUME NEW p \in Workers, RequestDelete(p) PROVE TypeOK'
  BY <1>5 DEF RequestDelete, Begin, Resting, Task, Rows
<1>6. ASSUME NEW p \in Workers \cup {Watcher}, InsertRow(p) PROVE TypeOK'
  BY <1>6 DEF InsertRow, At, Goto, Programs, Program
<1>7. ASSUME NEW p \in Workers \cup {Watcher}, StartContainer(p) PROVE TypeOK'
  BY <1>7 DEF StartContainer, At, Goto
<1>8. ASSUME NEW p \in Workers \cup {Watcher}, WaitForReady(p) PROVE TypeOK'
  BY <1>8 DEF WaitForReady, At, Goto
<1>9. ASSUME NEW p \in Workers \cup {Watcher}, WaitForReadyTimeout(p)
         PROVE TypeOK'
  BY <1>9 DEF WaitForReadyTimeout, At, Goto, Finish, Resting, Task
<1>10. ASSUME NEW p \in Workers \cup {Watcher}, DropRow(p) PROVE TypeOK'
  <2>1. CASE DeleteRow(proc[p].sbx)
    BY <1>10, <2>1 DEF DropRow, At, Finish, Resting, Task, DeleteRow
  <2>2. CASE LastWriteFails(proc[p].sbx)
    BY <1>10, <2>2
    DEF DropRow, At, Finish, Resting, Task, LastWriteFails, Programs, Program
  <2> QED BY <1>10, <2>1, <2>2 DEF DropRow
<1>11. ASSUME NEW p \in Workers \cup {Watcher}, RecordPodIP(p) PROVE TypeOK'
  <2>1. CASE UpdatePodIP(proc[p].sbx, TRUE)
    BY <1>11, <2>1 DEF RecordPodIP, At, Goto, UpdatePodIP, Programs, Program
  <2>2. CASE UNCHANGED podIP
    BY <1>11, <2>2 DEF RecordPodIP, At, Goto
  <2> QED BY <1>11, <2>1, <2>2 DEF RecordPodIP
<1>12. ASSUME NEW p \in Workers \cup {Watcher}, MarkRunning(p) PROVE TypeOK'
  <2>1. CASE UpdateStatus(proc[p].sbx, "running") /\ UNCHANGED podIP
    BY <1>12, <2>1 DEF MarkRunning, At, Finish, Resting, Task, UpdateStatus
  <2>2. CASE LastWriteFails(proc[p].sbx)
    BY <1>12, <2>2
    DEF MarkRunning, At, Finish, Resting, Task, LastWriteFails,
        Programs, Program
  <2> QED BY <1>12, <2>1, <2>2 DEF MarkRunning
<1>13. ASSUME NEW p \in Workers \cup {Watcher}, MarkTransition(p) PROVE TypeOK'
  <2>1. CASE /\ UpdateStatus(proc[p].sbx, "pausing")
             /\ Goto(p, "lookup")
    BY <1>13, <2>1 DEF MarkTransition, At, Goto, UpdateStatus,
           Programs, Program
  <2>2. CASE /\ UpdateStatus(proc[p].sbx, "resuming")
             /\ Goto(p, "lookup")
    BY <1>13, <2>2 DEF MarkTransition, At, Goto, UpdateStatus,
           Programs, Program
  <2>3. CASE Finish(p) /\ UNCHANGED <<status, stranded>>
    BY <1>13, <2>3 DEF MarkTransition, At, Finish, Resting, Task
  <2> QED BY <1>13, <2>1, <2>2, <2>3 DEF MarkTransition
<1>14. ASSUME NEW p \in Workers \cup {Watcher}, LookupNamespace(p) PROVE TypeOK'
  BY <1>14, SMTT(30)
  DEF LookupNamespace, At, Goto, Finish, Resting, Task, Rows, Call
<1>15. ASSUME NEW p \in Workers \cup {Watcher}, ScaleDown(p) PROVE TypeOK'
  <2>1. cr' \in [Sandboxes -> {"absent", "up", "down"}]
    BY <1>15 DEF ScaleDown
  <2>2. proc' \in [Procs -> [op : Ops, pc : Steps,
                             sbx : Sandboxes \cup {NoSandbox}]]
    BY <1>15 DEF ScaleDown, Goto
  <2> QED BY <1>15, <2>1, <2>2 DEF ScaleDown
<1>16. ASSUME NEW p \in Workers \cup {Watcher}, ScaleDownFails(p) PROVE TypeOK'
  <2>1. cr' \in [Sandboxes -> {"absent", "up", "down"}]
    BY <1>16 DEF ScaleDownFails
  <2>2. proc' \in [Procs -> [op : Ops, pc : Steps,
                             sbx : Sandboxes \cup {NoSandbox}]]
    BY <1>16 DEF ScaleDownFails, Goto
  <2> QED BY <1>16, <2>1, <2>2 DEF ScaleDownFails
<1>17. ASSUME NEW p \in Workers \cup {Watcher}, ClearPodIP(p) PROVE TypeOK'
  <2>1. CASE UpdatePodIP(proc[p].sbx, FALSE)
    BY <1>17, <2>1 DEF ClearPodIP, At, Goto, UpdatePodIP, Programs, Program
  <2>2. CASE UNCHANGED podIP
    BY <1>17, <2>2 DEF ClearPodIP, At, Goto
  <2> QED BY <1>17, <2>1, <2>2 DEF ClearPodIP
<1>18. ASSUME NEW p \in Workers \cup {Watcher}, MarkPaused(p) PROVE TypeOK'
  <2>1. CASE UpdateStatus(proc[p].sbx, "paused") /\ UNCHANGED podIP
    BY <1>18, <2>1 DEF MarkPaused, At, Finish, Resting, Task, UpdateStatus
  <2>2. CASE LastWriteFails(proc[p].sbx)
    BY <1>18, <2>2
    DEF MarkPaused, At, Finish, Resting, Task, LastWriteFails, Programs, Program
  <2> QED BY <1>18, <2>1, <2>2 DEF MarkPaused
<1>19. ASSUME NEW p \in Workers \cup {Watcher}, ScaleUp(p) PROVE TypeOK'
  <2>1. cr' \in [Sandboxes -> {"absent", "up", "down"}]
    BY <1>19 DEF ScaleUp
  <2>2. proc' \in [Procs -> [op : Ops, pc : Steps,
                             sbx : Sandboxes \cup {NoSandbox}]]
    BY <1>19 DEF ScaleUp, Goto
  <2> QED BY <1>19, <2>1, <2>2 DEF ScaleUp
<1>20. ASSUME NEW p \in Workers \cup {Watcher}, ScaleUpFails(p) PROVE TypeOK'
  <2>1. cr' \in [Sandboxes -> {"absent", "up", "down"}]
    BY <1>20 DEF ScaleUpFails
  <2>2. proc' \in [Procs -> [op : Ops, pc : Steps,
                             sbx : Sandboxes \cup {NoSandbox}]]
    BY <1>20 DEF ScaleUpFails, Goto, Finish, Resting, Task
  <2> QED BY <1>20, <2>1, <2>2 DEF ScaleUpFails
<1>21. ASSUME NEW p \in Workers \cup {Watcher}, Revert(p) PROVE TypeOK'
  <2>1. CASE UpdateStatus(proc[p].sbx, IF proc[p].op = "resume"
                                       THEN "paused" ELSE "running")
             /\ UNCHANGED podIP
    BY <1>21, <2>1 DEF Revert, At, Finish, Resting, Task, UpdateStatus
  <2>2. CASE LastWriteFails(proc[p].sbx)
    BY <1>21, <2>2 DEF Revert, At, Finish, Resting, Task, LastWriteFails,
           Programs, Program
  <2> QED BY <1>21, <2>1, <2>2 DEF Revert
<1>22. ASSUME NEW p \in Workers \cup {Watcher}, StopContainer(p) PROVE TypeOK'
  BY <1>22 DEF StopContainer, At, Goto
<1>23. ASSUME NEW p \in Workers \cup {Watcher}, FinishDelete(p) PROVE TypeOK'
  <2>1. CASE DeleteRow(proc[p].sbx)
    BY <1>23, <2>1 DEF FinishDelete, At, Finish, Resting, Task, DeleteRow
  <2>2. CASE UNCHANGED <<status, podIP, stranded>>
    BY <1>23, <2>2 DEF FinishDelete, At, Finish, Resting, Task
  <2> QED BY <1>23, <2>1, <2>2 DEF FinishDelete
<1>24. CASE ListIdle
  BY <1>24 DEF ListIdle, Rows
<1>25. CASE PauseIdle
  BY <1>25 DEF PauseIdle, Begin, Resting, Task
<1>26. CASE ListExpired
  BY <1>26 DEF ListExpired, Rows
<1>27. CASE ReapRow
  <2>1. CASE UNCHANGED <<proc, status, podIP, stranded>>
    BY <1>27, <2>1 DEF ReapRow
  <2>2. ASSUME NEW s \in reapQ, DeleteRow(s), reapQ' = reapQ \ {s},
               Begin(Reaper, Task("reap", "stop", s))
        PROVE  TypeOK'
    BY <1>27, <2>2 DEF ReapRow, Begin, Resting, Task, DeleteRow
  <2> QED BY <1>27, <2>1, <2>2 DEF ReapRow
<1>28. CASE ReapStop
  BY <1>28 DEF ReapStop, At, Finish, Resting, Task, Rows
<1>29. CASE Crash
  <2>1. boots' \in Nat
    BY <1>29 DEF Crash
  <2>2. proc' \in [Procs -> [op : Ops, pc : Steps,
                            sbx : Sandboxes \cup {NoSandbox}]]
    BY <1>29 DEF Crash, Resting, Task
  <2> QED BY <1>29, <2>1, <2>2 DEF Crash
<1>30. CASE RollingUpdate
  BY <1>30 DEF RollingUpdate, Rows
<1>31. CASE LoadKnownNames
  BY <1>31 DEF LoadKnownNames, ActiveNames, Rows
<1>32. CASE CleanOrphans
  BY <1>32 DEF CleanOrphans
<1>33. CASE Retire
  BY <1>33 DEF Retire, Rows, Resting, Task
<1>34. CASE UNCHANGED vars
  BY <1>34 DEF vars
<1> QED
  BY <1>1, <1>2, <1>3, <1>4, <1>5, <1>6, <1>7, <1>8, <1>9, <1>10,
     <1>11, <1>12, <1>13, <1>14, <1>15, <1>16, <1>17, <1>18, <1>19,
     <1>20, <1>21, <1>22, <1>23, <1>24, <1>25, <1>26, <1>27, <1>28,
     <1>29, <1>30, <1>31, <1>32, <1>33, <1>34
  DEF Next, Request, Advance

\* Every step keeps what processes do and where they are together.
LEMMA ProgramsStep ==
    ASSUME TypeOK, Programs, [Next]_vars
    PROVE  Programs'
<1> USE SandboxesAssumption
        DEF TypeOK, Procs, db, server, history, Status,
            Transitional, Settled, Ops, Steps, Rows, Programs,
            Program
<1>1. ASSUME NEW p \in Workers, RequestSandbox(p) PROVE Programs'
  BY <1>1 DEF RequestSandbox, Begin, Resting, Task
<1>2. ASSUME NEW p \in Workers, RequestPause(p) PROVE Programs'
  BY <1>2 DEF RequestPause, Begin, Resting, Task, ValidTransition
<1>3. ASSUME NEW p \in Workers, RequestResume(p) PROVE Programs'
  BY <1>3 DEF RequestResume, Begin, Resting, Task, ValidTransition
<1>4. ASSUME NEW p \in Workers, AutoResume(p) PROVE Programs'
  BY <1>4 DEF AutoResume, Begin, Resting, Task, Rows
<1>5. ASSUME NEW p \in Workers, RequestDelete(p) PROVE Programs'
  BY <1>5 DEF RequestDelete, Begin, Resting, Task, Rows
<1>6. ASSUME NEW p \in Workers \cup {Watcher}, InsertRow(p) PROVE Programs'
  BY <1>6 DEF InsertRow, At, Goto
<1>7. ASSUME NEW p \in Workers \cup {Watcher}, StartContainer(p) PROVE Programs'
  BY <1>7 DEF StartContainer, At, Goto
<1>8. ASSUME NEW p \in Workers \cup {Watcher}, WaitForReady(p) PROVE Programs'
  BY <1>8 DEF WaitForReady, At, Goto
<1>9. ASSUME NEW p \in Workers \cup {Watcher}, WaitForReadyTimeout(p)
         PROVE Programs'
  BY <1>9 DEF WaitForReadyTimeout, At, Goto, Finish, Resting, Task
<1>10. ASSUME NEW p \in Workers \cup {Watcher}, DropRow(p) PROVE Programs'
  BY <1>10 DEF DropRow, At, Finish, Resting, Task, DeleteRow, LastWriteFails
<1>11. ASSUME NEW p \in Workers \cup {Watcher}, RecordPodIP(p) PROVE Programs'
  BY <1>11 DEF RecordPodIP, At, Goto, UpdatePodIP
<1>12. ASSUME NEW p \in Workers \cup {Watcher}, MarkRunning(p) PROVE Programs'
  BY <1>12
    DEF MarkRunning, At, Finish, Resting, Task, UpdateStatus, LastWriteFails
<1>13. ASSUME NEW p \in Workers \cup {Watcher}, MarkTransition(p)
         PROVE Programs'
  BY <1>13 DEF MarkTransition, At, Goto, Finish, Resting, Task, UpdateStatus
<1>14. ASSUME NEW p \in Workers \cup {Watcher}, LookupNamespace(p)
         PROVE Programs'
  BY <1>14 DEF LookupNamespace, At, Goto, Finish, Resting, Task, Rows, Call
<1>15. ASSUME NEW p \in Workers \cup {Watcher}, ScaleDown(p) PROVE Programs'
  BY <1>15 DEF ScaleDown, At, Goto
<1>16. ASSUME NEW p \in Workers \cup {Watcher}, ScaleDownFails(p)
         PROVE Programs'
  BY <1>16 DEF ScaleDownFails, At, Goto, Rows
<1>17. ASSUME NEW p \in Workers \cup {Watcher}, ClearPodIP(p) PROVE Programs'
  BY <1>17 DEF ClearPodIP, At, Goto, UpdatePodIP
<1>18. ASSUME NEW p \in Workers \cup {Watcher}, MarkPaused(p) PROVE Programs'
  BY <1>18
    DEF MarkPaused, At, Finish, Resting, Task, UpdateStatus, LastWriteFails
<1>19. ASSUME NEW p \in Workers \cup {Watcher}, ScaleUp(p) PROVE Programs'
  BY <1>19 DEF ScaleUp, At, Goto
<1>20. ASSUME NEW p \in Workers \cup {Watcher}, ScaleUpFails(p) PROVE Programs'
  BY <1>20 DEF ScaleUpFails, At, Goto, Finish, Resting, Task, Rows
<1>21. ASSUME NEW p \in Workers \cup {Watcher}, Revert(p) PROVE Programs'
  BY <1>21 DEF Revert, At, Finish, Resting, Task, UpdateStatus, LastWriteFails
<1>22. ASSUME NEW p \in Workers \cup {Watcher}, StopContainer(p) PROVE Programs'
  BY <1>22 DEF StopContainer, At, Goto
<1>23. ASSUME NEW p \in Workers \cup {Watcher}, FinishDelete(p) PROVE Programs'
  BY <1>23 DEF FinishDelete, At, Finish, Resting, Task, DeleteRow
<1>24. CASE ListIdle
  BY <1>24 DEF ListIdle, Rows
<1>25. CASE PauseIdle
  BY <1>25 DEF PauseIdle, Begin, Resting, Task
<1>26. CASE ListExpired
  BY <1>26 DEF ListExpired, Rows
<1>27. CASE ReapRow
  BY <1>27 DEF ReapRow, Begin, Resting, Task, DeleteRow
<1>28. CASE ReapStop
  BY <1>28 DEF ReapStop, At, Finish, Resting, Task, Rows
<1>29. CASE Crash
  BY <1>29 DEF Crash, Rows, Resting, Task
<1>30. CASE RollingUpdate
  BY <1>30 DEF RollingUpdate, Rows
<1>31. CASE LoadKnownNames
  BY <1>31 DEF LoadKnownNames, ActiveNames, Rows
<1>32. CASE CleanOrphans
  BY <1>32 DEF CleanOrphans
<1>33. CASE Retire
  BY <1>33 DEF Retire, Rows, Resting, Task
<1>34. CASE UNCHANGED vars
  BY <1>34 DEF vars
<1> QED
  BY <1>1, <1>2, <1>3, <1>4, <1>5, <1>6, <1>7, <1>8, <1>9, <1>10,
     <1>11, <1>12, <1>13, <1>14, <1>15, <1>16, <1>17, <1>18, <1>19,
     <1>20, <1>21, <1>22, <1>23, <1>24, <1>25, <1>26, <1>27, <1>28,
     <1>29, <1>30, <1>31, <1>32, <1>33, <1>34
  DEF Next, Request, Advance

\* An id is born when its row is inserted, and everybody else comes later.
LEMMA BornStep ==
    ASSUME TypeOK, Programs, Born, Exclusive, [Next]_vars
    PROVE  Born'
<1> USE SandboxesAssumption
        DEF TypeOK, Procs, db, server, history, Status,
            Transitional, Settled, Ops, Steps, Rows, Programs,
            Program, Born, Exclusive
<1>1. ASSUME NEW p \in Workers, RequestSandbox(p) PROVE Born'
  BY <1>1 DEF RequestSandbox, Begin, Resting, Task
<1>2. ASSUME NEW p \in Workers, RequestPause(p) PROVE Born'
  BY <1>2 DEF RequestPause, Begin, Resting, Task, ValidTransition
<1>3. ASSUME NEW p \in Workers, RequestResume(p) PROVE Born'
  BY <1>3 DEF RequestResume, Begin, Resting, Task, ValidTransition
<1>4. ASSUME NEW p \in Workers, AutoResume(p) PROVE Born'
  BY <1>4 DEF AutoResume, Begin, Resting, Task, Rows
<1>5. ASSUME NEW p \in Workers, RequestDelete(p) PROVE Born'
  BY <1>5 DEF RequestDelete, Begin, Resting, Task, Rows
<1>6. ASSUME NEW p \in Workers \cup {Watcher}, InsertRow(p) PROVE Born'
  BY <1>6 DEF InsertRow, At, Goto
<1>7. ASSUME NEW p \in Workers \cup {Watcher}, StartContainer(p) PROVE Born'
  BY <1>7 DEF StartContainer, At, Goto
<1>8. ASSUME NEW p \in Workers \cup {Watcher}, WaitForReady(p) PROVE Born'
  BY <1>8 DEF WaitForReady, At, Goto
<1>9. ASSUME NEW p \in Workers \cup {Watcher}, WaitForReadyTimeout(p)
         PROVE Born'
  BY <1>9 DEF WaitForReadyTimeout, At, Goto, Finish, Resting, Task
<1>10. ASSUME NEW p \in Workers \cup {Watcher}, DropRow(p) PROVE Born'
  BY <1>10 DEF DropRow, At, Finish, Resting, Task, DeleteRow, LastWriteFails
<1>11. ASSUME NEW p \in Workers \cup {Watcher}, RecordPodIP(p) PROVE Born'
  BY <1>11 DEF RecordPodIP, At, Goto, UpdatePodIP
<1>12. ASSUME NEW p \in Workers \cup {Watcher}, MarkRunning(p) PROVE Born'
  BY <1>12
    DEF MarkRunning, At, Finish, Resting, Task, UpdateStatus, LastWriteFails
<1>13. ASSUME NEW p \in Workers \cup {Watcher}, MarkTransition(p) PROVE Born'
  BY <1>13 DEF MarkTransition, At, Goto, Finish, Resting, Task, UpdateStatus
<1>14. ASSUME NEW p \in Workers \cup {Watcher}, LookupNamespace(p) PROVE Born'
  BY <1>14 DEF LookupNamespace, At, Goto, Finish, Resting, Task, Rows, Call
<1>15. ASSUME NEW p \in Workers \cup {Watcher}, ScaleDown(p) PROVE Born'
  BY <1>15 DEF ScaleDown, At, Goto
<1>16. ASSUME NEW p \in Workers \cup {Watcher}, ScaleDownFails(p) PROVE Born'
  BY <1>16 DEF ScaleDownFails, At, Goto, Rows
<1>17. ASSUME NEW p \in Workers \cup {Watcher}, ClearPodIP(p) PROVE Born'
  BY <1>17 DEF ClearPodIP, At, Goto, UpdatePodIP
<1>18. ASSUME NEW p \in Workers \cup {Watcher}, MarkPaused(p) PROVE Born'
  BY <1>18
    DEF MarkPaused, At, Finish, Resting, Task, UpdateStatus, LastWriteFails
<1>19. ASSUME NEW p \in Workers \cup {Watcher}, ScaleUp(p) PROVE Born'
  BY <1>19 DEF ScaleUp, At, Goto
<1>20. ASSUME NEW p \in Workers \cup {Watcher}, ScaleUpFails(p) PROVE Born'
  BY <1>20 DEF ScaleUpFails, At, Goto, Finish, Resting, Task, Rows
<1>21. ASSUME NEW p \in Workers \cup {Watcher}, Revert(p) PROVE Born'
  BY <1>21 DEF Revert, At, Finish, Resting, Task, UpdateStatus, LastWriteFails
<1>22. ASSUME NEW p \in Workers \cup {Watcher}, StopContainer(p) PROVE Born'
  BY <1>22 DEF StopContainer, At, Goto
<1>23. ASSUME NEW p \in Workers \cup {Watcher}, FinishDelete(p) PROVE Born'
  BY <1>23 DEF FinishDelete, At, Finish, Resting, Task, DeleteRow
<1>24. CASE ListIdle
  BY <1>24 DEF ListIdle, Rows
<1>25. CASE PauseIdle
  BY <1>25 DEF PauseIdle, Begin, Resting, Task
<1>26. CASE ListExpired
  BY <1>26 DEF ListExpired, Rows
<1>27. CASE ReapRow
  BY <1>27 DEF ReapRow, Begin, Resting, Task, DeleteRow
<1>28. CASE ReapStop
  BY <1>28 DEF ReapStop, At, Finish, Resting, Task, Rows
<1>29. CASE Crash
  BY <1>29 DEF Crash, Rows, Resting, Task
<1>30. CASE RollingUpdate
  BY <1>30 DEF RollingUpdate, Rows
<1>31. CASE LoadKnownNames
  BY <1>31 DEF LoadKnownNames, ActiveNames, Rows
<1>32. CASE CleanOrphans
  BY <1>32 DEF CleanOrphans
<1>33. CASE Retire
  BY <1>33 DEF Retire, Rows, Resting, Task
<1>34. CASE UNCHANGED vars
  BY <1>34 DEF vars
<1> QED
  BY <1>1, <1>2, <1>3, <1>4, <1>5, <1>6, <1>7, <1>8, <1>9, <1>10,
     <1>11, <1>12, <1>13, <1>14, <1>15, <1>16, <1>17, <1>18, <1>19,
     <1>20, <1>21, <1>22, <1>23, <1>24, <1>25, <1>26, <1>27, <1>28,
     <1>29, <1>30, <1>31, <1>32, <1>33, <1>34
  DEF Next, Request, Advance

\* No request for a pause or a resume gets past a row that is "creating", and
\* the watcher lists none.
LEMMA ExclusiveStep ==
    ASSUME TypeOK, Programs, Born, Exclusive, [Next]_vars
    PROVE  Exclusive'
<1> USE SandboxesAssumption
        DEF TypeOK, Procs, db, server, history, Status,
            Transitional, Settled, Ops, Steps, Rows, Programs,
            Program, Born, Exclusive
<1>1. ASSUME NEW p \in Workers, RequestSandbox(p) PROVE Exclusive'
  BY <1>1 DEF RequestSandbox, Begin, Resting, Task
<1>2. ASSUME NEW p \in Workers, RequestPause(p) PROVE Exclusive'
  BY <1>2 DEF RequestPause, Begin, Resting, Task, ValidTransition
<1>3. ASSUME NEW p \in Workers, RequestResume(p) PROVE Exclusive'
  BY <1>3 DEF RequestResume, Begin, Resting, Task, ValidTransition
<1>4. ASSUME NEW p \in Workers, AutoResume(p) PROVE Exclusive'
  BY <1>4 DEF AutoResume, Begin, Resting, Task, Rows
<1>5. ASSUME NEW p \in Workers, RequestDelete(p) PROVE Exclusive'
  BY <1>5 DEF RequestDelete, Begin, Resting, Task, Rows
<1>6. ASSUME NEW p \in Workers \cup {Watcher}, InsertRow(p) PROVE Exclusive'
  BY <1>6 DEF InsertRow, At, Goto
<1>7. ASSUME NEW p \in Workers \cup {Watcher}, StartContainer(p)
         PROVE Exclusive'
  BY <1>7 DEF StartContainer, At, Goto
<1>8. ASSUME NEW p \in Workers \cup {Watcher}, WaitForReady(p) PROVE Exclusive'
  BY <1>8 DEF WaitForReady, At, Goto
<1>9. ASSUME NEW p \in Workers \cup {Watcher}, WaitForReadyTimeout(p)
         PROVE Exclusive'
  BY <1>9 DEF WaitForReadyTimeout, At, Goto, Finish, Resting, Task
<1>10. ASSUME NEW p \in Workers \cup {Watcher}, DropRow(p) PROVE Exclusive'
  BY <1>10 DEF DropRow, At, Finish, Resting, Task, DeleteRow, LastWriteFails
<1>11. ASSUME NEW p \in Workers \cup {Watcher}, RecordPodIP(p) PROVE Exclusive'
  BY <1>11 DEF RecordPodIP, At, Goto, UpdatePodIP
<1>12. ASSUME NEW p \in Workers \cup {Watcher}, MarkRunning(p) PROVE Exclusive'
  BY <1>12
    DEF MarkRunning, At, Finish, Resting, Task, UpdateStatus, LastWriteFails
<1>13. ASSUME NEW p \in Workers \cup {Watcher}, MarkTransition(p)
         PROVE Exclusive'
  BY <1>13 DEF MarkTransition, At, Goto, Finish, Resting, Task, UpdateStatus
<1>14. ASSUME NEW p \in Workers \cup {Watcher}, LookupNamespace(p)
         PROVE Exclusive'
  BY <1>14 DEF LookupNamespace, At, Goto, Finish, Resting, Task, Rows, Call
<1>15. ASSUME NEW p \in Workers \cup {Watcher}, ScaleDown(p) PROVE Exclusive'
  BY <1>15 DEF ScaleDown, At, Goto
<1>16. ASSUME NEW p \in Workers \cup {Watcher}, ScaleDownFails(p)
         PROVE Exclusive'
  BY <1>16 DEF ScaleDownFails, At, Goto, Rows
<1>17. ASSUME NEW p \in Workers \cup {Watcher}, ClearPodIP(p) PROVE Exclusive'
  BY <1>17 DEF ClearPodIP, At, Goto, UpdatePodIP
<1>18. ASSUME NEW p \in Workers \cup {Watcher}, MarkPaused(p) PROVE Exclusive'
  BY <1>18
    DEF MarkPaused, At, Finish, Resting, Task, UpdateStatus, LastWriteFails
<1>19. ASSUME NEW p \in Workers \cup {Watcher}, ScaleUp(p) PROVE Exclusive'
  BY <1>19 DEF ScaleUp, At, Goto
<1>20. ASSUME NEW p \in Workers \cup {Watcher}, ScaleUpFails(p) PROVE Exclusive'
  BY <1>20 DEF ScaleUpFails, At, Goto, Finish, Resting, Task, Rows
<1>21. ASSUME NEW p \in Workers \cup {Watcher}, Revert(p) PROVE Exclusive'
  BY <1>21 DEF Revert, At, Finish, Resting, Task, UpdateStatus, LastWriteFails
<1>22. ASSUME NEW p \in Workers \cup {Watcher}, StopContainer(p)
         PROVE Exclusive'
  BY <1>22 DEF StopContainer, At, Goto
<1>23. ASSUME NEW p \in Workers \cup {Watcher}, FinishDelete(p) PROVE Exclusive'
  BY <1>23 DEF FinishDelete, At, Finish, Resting, Task, DeleteRow
<1>24. CASE ListIdle
  BY <1>24 DEF ListIdle, Rows
<1>25. CASE PauseIdle
  BY <1>25 DEF PauseIdle, Begin, Resting, Task
<1>26. CASE ListExpired
  BY <1>26 DEF ListExpired, Rows
<1>27. CASE ReapRow
  BY <1>27 DEF ReapRow, Begin, Resting, Task, DeleteRow
<1>28. CASE ReapStop
  BY <1>28 DEF ReapStop, At, Finish, Resting, Task, Rows
<1>29. CASE Crash
  BY <1>29 DEF Crash, Rows, Resting, Task
<1>30. CASE RollingUpdate
  BY <1>30 DEF RollingUpdate, Rows
<1>31. CASE LoadKnownNames
  BY <1>31 DEF LoadKnownNames, ActiveNames, Rows
<1>32. CASE CleanOrphans
  BY <1>32 DEF CleanOrphans
<1>33. CASE Retire
  BY <1>33 DEF Retire, Rows, Resting, Task
<1>34. CASE UNCHANGED vars
  BY <1>34 DEF vars
<1> QED
  BY <1>1, <1>2, <1>3, <1>4, <1>5, <1>6, <1>7, <1>8, <1>9, <1>10,
     <1>11, <1>12, <1>13, <1>14, <1>15, <1>16, <1>17, <1>18, <1>19,
     <1>20, <1>21, <1>22, <1>23, <1>24, <1>25, <1>26, <1>27, <1>28,
     <1>29, <1>30, <1>31, <1>32, <1>33, <1>34
  DEF Next, Request, Advance

\* A row that is inserted after the names were loaded is unlisted.
LEMMA StartupStep ==
    ASSUME TypeOK, Programs, Startup, [Next]_vars
    PROVE  Startup'
<1> USE SandboxesAssumption
        DEF TypeOK, Procs, db, server, history, Status,
            Transitional, Settled, Ops, Steps, Rows, Startup
<1>1. ASSUME NEW p \in Workers, RequestSandbox(p) PROVE Startup'
  BY <1>1 DEF RequestSandbox, Begin, Resting, Task
<1>2. ASSUME NEW p \in Workers, RequestPause(p) PROVE Startup'
  BY <1>2 DEF RequestPause, Begin, Resting, Task, ValidTransition
<1>3. ASSUME NEW p \in Workers, RequestResume(p) PROVE Startup'
  BY <1>3 DEF RequestResume, Begin, Resting, Task, ValidTransition
<1>4. ASSUME NEW p \in Workers, AutoResume(p) PROVE Startup'
  BY <1>4 DEF AutoResume, Begin, Resting, Task, Rows
<1>5. ASSUME NEW p \in Workers, RequestDelete(p) PROVE Startup'
  BY <1>5 DEF RequestDelete, Begin, Resting, Task, Rows
<1>6. ASSUME NEW p \in Workers \cup {Watcher}, InsertRow(p) PROVE Startup'
  BY <1>6 DEF InsertRow, At, Goto
<1>7. ASSUME NEW p \in Workers \cup {Watcher}, StartContainer(p) PROVE Startup'
  BY <1>7 DEF StartContainer, At, Goto
<1>8. ASSUME NEW p \in Workers \cup {Watcher}, WaitForReady(p) PROVE Startup'
  BY <1>8 DEF WaitForReady, At, Goto
<1>9. ASSUME NEW p \in Workers \cup {Watcher}, WaitForReadyTimeout(p)
         PROVE Startup'
  BY <1>9 DEF WaitForReadyTimeout, At, Goto, Finish, Resting, Task
<1>10. ASSUME NEW p \in Workers \cup {Watcher}, DropRow(p) PROVE Startup'
  BY <1>10 DEF DropRow, At, Finish, Resting, Task, DeleteRow, LastWriteFails
<1>11. ASSUME NEW p \in Workers \cup {Watcher}, RecordPodIP(p) PROVE Startup'
  BY <1>11 DEF RecordPodIP, At, Goto, UpdatePodIP
<1>12. ASSUME NEW p \in Workers \cup {Watcher}, MarkRunning(p) PROVE Startup'
  BY <1>12
    DEF MarkRunning, At, Finish, Resting, Task, UpdateStatus, LastWriteFails
<1>13. ASSUME NEW p \in Workers \cup {Watcher}, MarkTransition(p) PROVE Startup'
  BY <1>13 DEF MarkTransition, At, Goto, Finish, Resting, Task, UpdateStatus
<1>14. ASSUME NEW p \in Workers \cup {Watcher}, LookupNamespace(p)
         PROVE Startup'
  BY <1>14 DEF LookupNamespace, At, Goto, Finish, Resting, Task, Rows, Call
<1>15. ASSUME NEW p \in Workers \cup {Watcher}, ScaleDown(p) PROVE Startup'
  BY <1>15 DEF ScaleDown, At, Goto
<1>16. ASSUME NEW p \in Workers \cup {Watcher}, ScaleDownFails(p) PROVE Startup'
  BY <1>16 DEF ScaleDownFails, At, Goto, Rows
<1>17. ASSUME NEW p \in Workers \cup {Watcher}, ClearPodIP(p) PROVE Startup'
  BY <1>17 DEF ClearPodIP, At, Goto, UpdatePodIP
<1>18. ASSUME NEW p \in Workers \cup {Watcher}, MarkPaused(p) PROVE Startup'
  BY <1>18
    DEF MarkPaused, At, Finish, Resting, Task, UpdateStatus, LastWriteFails
<1>19. ASSUME NEW p \in Workers \cup {Watcher}, ScaleUp(p) PROVE Startup'
  BY <1>19 DEF ScaleUp, At, Goto
<1>20. ASSUME NEW p \in Workers \cup {Watcher}, ScaleUpFails(p) PROVE Startup'
  BY <1>20 DEF ScaleUpFails, At, Goto, Finish, Resting, Task, Rows
<1>21. ASSUME NEW p \in Workers \cup {Watcher}, Revert(p) PROVE Startup'
  BY <1>21 DEF Revert, At, Finish, Resting, Task, UpdateStatus, LastWriteFails
<1>22. ASSUME NEW p \in Workers \cup {Watcher}, StopContainer(p) PROVE Startup'
  BY <1>22 DEF StopContainer, At, Goto
<1>23. ASSUME NEW p \in Workers \cup {Watcher}, FinishDelete(p) PROVE Startup'
  BY <1>23 DEF FinishDelete, At, Finish, Resting, Task, DeleteRow
<1>24. CASE ListIdle
  BY <1>24 DEF ListIdle, Rows
<1>25. CASE PauseIdle
  BY <1>25 DEF PauseIdle, Begin, Resting, Task
<1>26. CASE ListExpired
  BY <1>26 DEF ListExpired, Rows
<1>27. CASE ReapRow
  BY <1>27 DEF ReapRow, Begin, Resting, Task, DeleteRow
<1>28. CASE ReapStop
  BY <1>28 DEF ReapStop, At, Finish, Resting, Task, Rows
<1>29. CASE Crash
  BY <1>29 DEF Crash, Rows, Resting, Task
<1>30. CASE RollingUpdate
  BY <1>30 DEF RollingUpdate, Rows
<1>31. CASE LoadKnownNames
  BY <1>31 DEF LoadKnownNames, ActiveNames, Rows
<1>32. CASE CleanOrphans
  BY <1>32 DEF CleanOrphans
<1>33. CASE Retire
  BY <1>33 DEF Retire, Rows, Resting, Task
<1>34. CASE UNCHANGED vars
  BY <1>34 DEF vars
<1> QED
  BY <1>1, <1>2, <1>3, <1>4, <1>5, <1>6, <1>7, <1>8, <1>9, <1>10,
     <1>11, <1>12, <1>13, <1>14, <1>15, <1>16, <1>17, <1>18, <1>19,
     <1>20, <1>21, <1>22, <1>23, <1>24, <1>25, <1>26, <1>27, <1>28,
     <1>29, <1>30, <1>31, <1>32, <1>33, <1>34
  DEF Next, Request, Advance

\* Whoever removes a CR was asked for a deletion, or has dropped the row.
LEMMA RemovalsStep ==
    ASSUME TypeOK, Programs, Born, Exclusive, Startup, Removals, [Next]_vars
    PROVE  Removals'
<1> USE SandboxesAssumption
        DEF TypeOK, Procs, db, server, history, Status,
            Transitional, Settled, Ops, Steps, Rows, Programs,
            Program, Born, Exclusive, Startup, Removals, Accounted
<1>1. ASSUME NEW p \in Workers, RequestSandbox(p) PROVE Removals'
  BY <1>1 DEF RequestSandbox, Begin, Resting, Task
<1>2. ASSUME NEW p \in Workers, RequestPause(p) PROVE Removals'
  BY <1>2 DEF RequestPause, Begin, Resting, Task, ValidTransition
<1>3. ASSUME NEW p \in Workers, RequestResume(p) PROVE Removals'
  BY <1>3 DEF RequestResume, Begin, Resting, Task, ValidTransition
<1>4. ASSUME NEW p \in Workers, AutoResume(p) PROVE Removals'
  BY <1>4 DEF AutoResume, Begin, Resting, Task, Rows
<1>5. ASSUME NEW p \in Workers, RequestDelete(p) PROVE Removals'
  BY <1>5 DEF RequestDelete, Begin, Resting, Task, Rows
<1>6. ASSUME NEW p \in Workers \cup {Watcher}, InsertRow(p) PROVE Removals'
  BY <1>6 DEF InsertRow, At, Goto
<1>7. ASSUME NEW p \in Workers \cup {Watcher}, StartContainer(p) PROVE Removals'
  BY <1>7 DEF StartContainer, At, Goto
<1>8. ASSUME NEW p \in Workers \cup {Watcher}, WaitForReady(p) PROVE Removals'
  BY <1>8 DEF WaitForReady, At, Goto
<1>9. ASSUME NEW p \in Workers \cup {Watcher}, WaitForReadyTimeout(p)
         PROVE Removals'
  BY <1>9 DEF WaitForReadyTimeout, At, Goto, Finish, Resting, Task
<1>10. ASSUME NEW p \in Workers \cup {Watcher}, DropRow(p) PROVE Removals'
  BY <1>10 DEF DropRow, At, Finish, Resting, Task, DeleteRow, LastWriteFails
<1>11. ASSUME NEW p \in Workers \cup {Watcher}, RecordPodIP(p) PROVE Removals'
  BY <1>11 DEF RecordPodIP, At, Goto, UpdatePodIP
<1>12. ASSUME NEW p \in Workers \cup {Watcher}, MarkRunning(p) PROVE Removals'
  BY <1>12
    DEF MarkRunning, At, Finish, Resting, Task, UpdateStatus, LastWriteFails
<1>13. ASSUME NEW p \in Workers \cup {Watcher}, MarkTransition(p)
         PROVE Removals'
  BY <1>13 DEF MarkTransition, At, Goto, Finish, Resting, Task, UpdateStatus
<1>14. ASSUME NEW p \in Workers \cup {Watcher}, LookupNamespace(p)
         PROVE Removals'
  BY <1>14 DEF LookupNamespace, At, Goto, Finish, Resting, Task, Rows, Call
<1>15. ASSUME NEW p \in Workers \cup {Watcher}, ScaleDown(p) PROVE Removals'
  BY <1>15 DEF ScaleDown, At, Goto
<1>16. ASSUME NEW p \in Workers \cup {Watcher}, ScaleDownFails(p)
         PROVE Removals'
  BY <1>16 DEF ScaleDownFails, At, Goto, Rows
<1>17. ASSUME NEW p \in Workers \cup {Watcher}, ClearPodIP(p) PROVE Removals'
  BY <1>17 DEF ClearPodIP, At, Goto, UpdatePodIP
<1>18. ASSUME NEW p \in Workers \cup {Watcher}, MarkPaused(p) PROVE Removals'
  BY <1>18
    DEF MarkPaused, At, Finish, Resting, Task, UpdateStatus, LastWriteFails
<1>19. ASSUME NEW p \in Workers \cup {Watcher}, ScaleUp(p) PROVE Removals'
  BY <1>19 DEF ScaleUp, At, Goto
<1>20. ASSUME NEW p \in Workers \cup {Watcher}, ScaleUpFails(p) PROVE Removals'
  BY <1>20 DEF ScaleUpFails, At, Goto, Finish, Resting, Task, Rows
<1>21. ASSUME NEW p \in Workers \cup {Watcher}, Revert(p) PROVE Removals'
  BY <1>21 DEF Revert, At, Finish, Resting, Task, UpdateStatus, LastWriteFails
<1>22. ASSUME NEW p \in Workers \cup {Watcher}, StopContainer(p) PROVE Removals'
  BY <1>22 DEF StopContainer, At, Goto
<1>23. ASSUME NEW p \in Workers \cup {Watcher}, FinishDelete(p) PROVE Removals'
  BY <1>23 DEF FinishDelete, At, Finish, Resting, Task, DeleteRow
<1>24. CASE ListIdle
  BY <1>24 DEF ListIdle, Rows
<1>25. CASE PauseIdle
  BY <1>25 DEF PauseIdle, Begin, Resting, Task
<1>26. CASE ListExpired
  BY <1>26 DEF ListExpired, Rows
<1>27. CASE ReapRow
  BY <1>27 DEF ReapRow, Begin, Resting, Task, DeleteRow
<1>28. CASE ReapStop
  BY <1>28 DEF ReapStop, At, Finish, Resting, Task, Rows
<1>29. CASE Crash
  BY <1>29 DEF Crash, Rows, Resting, Task
<1>30. CASE RollingUpdate
  BY <1>30 DEF RollingUpdate, Rows
<1>31. CASE LoadKnownNames
  BY <1>31 DEF LoadKnownNames, ActiveNames, Rows
<1>32. CASE CleanOrphans
  BY <1>32 DEF CleanOrphans
<1>33. CASE Retire
  BY <1>33 DEF Retire, Rows, Resting, Task
<1>34. CASE UNCHANGED vars
  BY <1>34 DEF vars
<1> QED
  BY <1>1, <1>2, <1>3, <1>4, <1>5, <1>6, <1>7, <1>8, <1>9, <1>10,
     <1>11, <1>12, <1>13, <1>14, <1>15, <1>16, <1>17, <1>18, <1>19,
     <1>20, <1>21, <1>22, <1>23, <1>24, <1>25, <1>26, <1>27, <1>28,
     <1>29, <1>30, <1>31, <1>32, <1>33, <1>34
  DEF Next, Request, Advance

\* No step takes the CR of a live row away, and a row only becomes live over a
\* CR that is there.
LEMMA LiveRowStep ==
    ASSUME TypeOK, Programs, Exclusive, Startup, Removals,
           LiveRowHasCR, [Next]_vars
    PROVE  LiveRowHasCR'
<1> USE SandboxesAssumption
        DEF TypeOK, Procs, db, server, history, Status,
            Transitional, Settled, Ops, Steps, Rows, Programs,
            Program, Exclusive, Startup, Removals, Accounted,
            LiveRowHasCR
<1>1. ASSUME NEW p \in Workers, RequestSandbox(p) PROVE LiveRowHasCR'
  BY <1>1 DEF RequestSandbox, Begin, Resting, Task
<1>2. ASSUME NEW p \in Workers, RequestPause(p) PROVE LiveRowHasCR'
  BY <1>2 DEF RequestPause, Begin, Resting, Task, ValidTransition
<1>3. ASSUME NEW p \in Workers, RequestResume(p) PROVE LiveRowHasCR'
  BY <1>3 DEF RequestResume, Begin, Resting, Task, ValidTransition
<1>4. ASSUME NEW p \in Workers, AutoResume(p) PROVE LiveRowHasCR'
  BY <1>4 DEF AutoResume, Begin, Resting, Task, Rows
<1>5. ASSUME NEW p \in Workers, RequestDelete(p) PROVE LiveRowHasCR'
  BY <1>5 DEF RequestDelete, Begin, Resting, Task, Rows
<1>6. ASSUME NEW p \in Workers \cup {Watcher}, InsertRow(p) PROVE LiveRowHasCR'
  BY <1>6 DEF InsertRow, At, Goto
<1>7. ASSUME NEW p \in Workers \cup {Watcher}, StartContainer(p)
         PROVE LiveRowHasCR'
  BY <1>7 DEF StartContainer, At, Goto
<1>8. ASSUME NEW p \in Workers \cup {Watcher}, WaitForReady(p)
         PROVE LiveRowHasCR'
  BY <1>8 DEF WaitForReady, At, Goto
<1>9. ASSUME NEW p \in Workers \cup {Watcher}, WaitForReadyTimeout(p)
         PROVE LiveRowHasCR'
  BY <1>9 DEF WaitForReadyTimeout, At, Goto, Finish, Resting, Task
<1>10. ASSUME NEW p \in Workers \cup {Watcher}, DropRow(p) PROVE LiveRowHasCR'
  BY <1>10 DEF DropRow, At, Finish, Resting, Task, DeleteRow, LastWriteFails
<1>11. ASSUME NEW p \in Workers \cup {Watcher}, RecordPodIP(p)
         PROVE LiveRowHasCR'
  BY <1>11 DEF RecordPodIP, At, Goto, UpdatePodIP
<1>12. ASSUME NEW p \in Workers \cup {Watcher}, MarkRunning(p)
         PROVE LiveRowHasCR'
  BY <1>12
    DEF MarkRunning, At, Finish, Resting, Task, UpdateStatus, LastWriteFails
<1>13. ASSUME NEW p \in Workers \cup {Watcher}, MarkTransition(p)
         PROVE LiveRowHasCR'
  BY <1>13 DEF MarkTransition, At, Goto, Finish, Resting, Task, UpdateStatus
<1>14. ASSUME NEW p \in Workers \cup {Watcher}, LookupNamespace(p)
         PROVE LiveRowHasCR'
  BY <1>14 DEF LookupNamespace, At, Goto, Finish, Resting, Task, Rows, Call
<1>15. ASSUME NEW p \in Workers \cup {Watcher}, ScaleDown(p) PROVE LiveRowHasCR'
  BY <1>15 DEF ScaleDown, At, Goto
<1>16. ASSUME NEW p \in Workers \cup {Watcher}, ScaleDownFails(p)
         PROVE LiveRowHasCR'
  BY <1>16 DEF ScaleDownFails, At, Goto, Rows
<1>17. ASSUME NEW p \in Workers \cup {Watcher}, ClearPodIP(p)
         PROVE LiveRowHasCR'
  BY <1>17 DEF ClearPodIP, At, Goto, UpdatePodIP
<1>18. ASSUME NEW p \in Workers \cup {Watcher}, MarkPaused(p)
         PROVE LiveRowHasCR'
  BY <1>18
    DEF MarkPaused, At, Finish, Resting, Task, UpdateStatus, LastWriteFails
<1>19. ASSUME NEW p \in Workers \cup {Watcher}, ScaleUp(p) PROVE LiveRowHasCR'
  BY <1>19 DEF ScaleUp, At, Goto
<1>20. ASSUME NEW p \in Workers \cup {Watcher}, ScaleUpFails(p)
         PROVE LiveRowHasCR'
  BY <1>20 DEF ScaleUpFails, At, Goto, Finish, Resting, Task, Rows
<1>21. ASSUME NEW p \in Workers \cup {Watcher}, Revert(p) PROVE LiveRowHasCR'
  BY <1>21 DEF Revert, At, Finish, Resting, Task, UpdateStatus, LastWriteFails
<1>22. ASSUME NEW p \in Workers \cup {Watcher}, StopContainer(p)
         PROVE LiveRowHasCR'
  BY <1>22 DEF StopContainer, At, Goto
<1>23. ASSUME NEW p \in Workers \cup {Watcher}, FinishDelete(p)
         PROVE LiveRowHasCR'
  BY <1>23 DEF FinishDelete, At, Finish, Resting, Task, DeleteRow
<1>24. CASE ListIdle
  BY <1>24 DEF ListIdle, Rows
<1>25. CASE PauseIdle
  BY <1>25 DEF PauseIdle, Begin, Resting, Task
<1>26. CASE ListExpired
  BY <1>26 DEF ListExpired, Rows
<1>27. CASE ReapRow
  BY <1>27 DEF ReapRow, Begin, Resting, Task, DeleteRow
<1>28. CASE ReapStop
  BY <1>28 DEF ReapStop, At, Finish, Resting, Task, Rows
<1>29. CASE Crash
  BY <1>29 DEF Crash, Rows, Resting, Task
<1>30. CASE RollingUpdate
  BY <1>30 DEF RollingUpdate, Rows
<1>31. CASE LoadKnownNames
  BY <1>31 DEF LoadKnownNames, ActiveNames, Rows
<1>32. CASE CleanOrphans
  BY <1>32 DEF CleanOrphans
<1>33. CASE Retire
  BY <1>33 DEF Retire, Rows, Resting, Task
<1>34. CASE UNCHANGED vars
  BY <1>34 DEF vars
<1> QED
  BY <1>1, <1>2, <1>3, <1>4, <1>5, <1>6, <1>7, <1>8, <1>9, <1>10,
     <1>11, <1>12, <1>13, <1>14, <1>15, <1>16, <1>17, <1>18, <1>19,
     <1>20, <1>21, <1>22, <1>23, <1>24, <1>25, <1>26, <1>27, <1>28,
     <1>29, <1>30, <1>31, <1>32, <1>33, <1>34
  DEF Next, Request, Advance

\* A process that finishes has written a settled status, or owned nothing.
LEMMA OwnedStep ==
    ASSUME TypeOK, Programs, TransitionOwned, [Next]_vars
    PROVE  TransitionOwned'
<1> USE SandboxesAssumption
        DEF TypeOK, Procs, db, server, history, Status,
            Transitional, Settled, Ops, Steps, Rows, Programs,
            Program, TransitionOwned, Owns
<1>1. ASSUME NEW p \in Workers, RequestSandbox(p) PROVE TransitionOwned'
  BY <1>1 DEF RequestSandbox, Begin, Resting, Task
<1>2. ASSUME NEW p \in Workers, RequestPause(p) PROVE TransitionOwned'
  BY <1>2 DEF RequestPause, Begin, Resting, Task, ValidTransition
<1>3. ASSUME NEW p \in Workers, RequestResume(p) PROVE TransitionOwned'
  BY <1>3 DEF RequestResume, Begin, Resting, Task, ValidTransition
<1>4. ASSUME NEW p \in Workers, AutoResume(p) PROVE TransitionOwned'
  BY <1>4 DEF AutoResume, Begin, Resting, Task, Rows
<1>5. ASSUME NEW p \in Workers, RequestDelete(p) PROVE TransitionOwned'
  BY <1>5 DEF RequestDelete, Begin, Resting, Task, Rows
<1>6. ASSUME NEW p \in Workers \cup {Watcher}, InsertRow(p)
         PROVE TransitionOwned'
  BY <1>6 DEF InsertRow, At, Goto
<1>7. ASSUME NEW p \in Workers \cup {Watcher}, StartContainer(p)
         PROVE TransitionOwned'
  BY <1>7 DEF StartContainer, At, Goto
<1>8. ASSUME NEW p \in Workers \cup {Watcher}, WaitForReady(p)
         PROVE TransitionOwned'
  BY <1>8 DEF WaitForReady, At, Goto
<1>9. ASSUME NEW p \in Workers \cup {Watcher}, WaitForReadyTimeout(p)
         PROVE TransitionOwned'
  BY <1>9 DEF WaitForReadyTimeout, At, Goto, Finish, Resting, Task
<1>10. ASSUME NEW p \in Workers \cup {Watcher}, DropRow(p)
         PROVE TransitionOwned'
  BY <1>10 DEF DropRow, At, Finish, Resting, Task, DeleteRow, LastWriteFails
<1>11. ASSUME NEW p \in Workers \cup {Watcher}, RecordPodIP(p)
         PROVE TransitionOwned'
  BY <1>11 DEF RecordPodIP, At, Goto, UpdatePodIP
<1>12. ASSUME NEW p \in Workers \cup {Watcher}, MarkRunning(p)
         PROVE TransitionOwned'
  BY <1>12
    DEF MarkRunning, At, Finish, Resting, Task, UpdateStatus, LastWriteFails
<1>13. ASSUME NEW p \in Workers \cup {Watcher}, MarkTransition(p)
         PROVE TransitionOwned'
  BY <1>13 DEF MarkTransition, At, Goto, Finish, Resting, Task, UpdateStatus
<1>14. ASSUME NEW p \in Workers \cup {Watcher}, LookupNamespace(p)
         PROVE TransitionOwned'
  BY <1>14 DEF LookupNamespace, At, Goto, Finish, Resting, Task, Rows, Call
<1>15. ASSUME NEW p \in Workers \cup {Watcher}, ScaleDown(p)
         PROVE TransitionOwned'
  BY <1>15 DEF ScaleDown, At, Goto
<1>16. ASSUME NEW p \in Workers \cup {Watcher}, ScaleDownFails(p)
         PROVE TransitionOwned'
  BY <1>16 DEF ScaleDownFails, At, Goto, Rows
<1>17. ASSUME NEW p \in Workers \cup {Watcher}, ClearPodIP(p)
         PROVE TransitionOwned'
  BY <1>17 DEF ClearPodIP, At, Goto, UpdatePodIP
<1>18. ASSUME NEW p \in Workers \cup {Watcher}, MarkPaused(p)
         PROVE TransitionOwned'
  BY <1>18
    DEF MarkPaused, At, Finish, Resting, Task, UpdateStatus, LastWriteFails
<1>19. ASSUME NEW p \in Workers \cup {Watcher}, ScaleUp(p)
         PROVE TransitionOwned'
  BY <1>19 DEF ScaleUp, At, Goto
<1>20. ASSUME NEW p \in Workers \cup {Watcher}, ScaleUpFails(p)
         PROVE TransitionOwned'
  BY <1>20 DEF ScaleUpFails, At, Goto, Finish, Resting, Task, Rows
<1>21. ASSUME NEW p \in Workers \cup {Watcher}, Revert(p) PROVE TransitionOwned'
  BY <1>21 DEF Revert, At, Finish, Resting, Task, UpdateStatus, LastWriteFails
<1>22. ASSUME NEW p \in Workers \cup {Watcher}, StopContainer(p)
         PROVE TransitionOwned'
  BY <1>22 DEF StopContainer, At, Goto
<1>23. ASSUME NEW p \in Workers \cup {Watcher}, FinishDelete(p)
         PROVE TransitionOwned'
  BY <1>23 DEF FinishDelete, At, Finish, Resting, Task, DeleteRow
<1>24. CASE ListIdle
  BY <1>24 DEF ListIdle, Rows
<1>25. CASE PauseIdle
  BY <1>25 DEF PauseIdle, Begin, Resting, Task
<1>26. CASE ListExpired
  BY <1>26 DEF ListExpired, Rows
<1>27. CASE ReapRow
  BY <1>27 DEF ReapRow, Begin, Resting, Task, DeleteRow
<1>28. CASE ReapStop
  BY <1>28 DEF ReapStop, At, Finish, Resting, Task, Rows
<1>29. CASE Crash
  BY <1>29 DEF Crash, Rows, Resting, Task
<1>30. CASE RollingUpdate
  BY <1>30 DEF RollingUpdate, Rows
<1>31. CASE LoadKnownNames
  BY <1>31 DEF LoadKnownNames, ActiveNames, Rows
<1>32. CASE CleanOrphans
  BY <1>32 DEF CleanOrphans
<1>33. CASE Retire
  BY <1>33 DEF Retire, Rows, Resting, Task
<1>34. CASE UNCHANGED vars
  BY <1>34 DEF vars
<1> QED
  BY <1>1, <1>2, <1>3, <1>4, <1>5, <1>6, <1>7, <1>8, <1>9, <1>10,
     <1>11, <1>12, <1>13, <1>14, <1>15, <1>16, <1>17, <1>18, <1>19,
     <1>20, <1>21, <1>22, <1>23, <1>24, <1>25, <1>26, <1>27, <1>28,
     <1>29, <1>30, <1>31, <1>32, <1>33, <1>34
  DEF Next, Request, Advance

\* Only an insertion makes a row, and it makes one for an id not yet born.
LEMMA DeletedStep ==
    ASSUME TypeOK, Programs, Born, [Next]_vars
    PROVE  \A s \in born : status[s] = "none" => status'[s] = "none"
<1> USE SandboxesAssumption
        DEF TypeOK, Procs, db, server, history, Rows, Programs,
            Program, Born
<1>1. ASSUME NEW p \in Workers, RequestSandbox(p)
         PROVE \A s \in born : status[s] = "none" => status'[s] = "none"
  BY <1>1 DEF RequestSandbox, Begin, Resting, Task
<1>2. ASSUME NEW p \in Workers, RequestPause(p)
         PROVE \A s \in born : status[s] = "none" => status'[s] = "none"
  BY <1>2 DEF RequestPause, Begin, Resting, Task, ValidTransition
<1>3. ASSUME NEW p \in Workers, RequestResume(p)
         PROVE \A s \in born : status[s] = "none" => status'[s] = "none"
  BY <1>3 DEF RequestResume, Begin, Resting, Task, ValidTransition
<1>4. ASSUME NEW p \in Workers, AutoResume(p)
         PROVE \A s \in born : status[s] = "none" => status'[s] = "none"
  BY <1>4 DEF AutoResume, Begin, Resting, Task, Rows
<1>5. ASSUME NEW p \in Workers, RequestDelete(p)
         PROVE \A s \in born : status[s] = "none" => status'[s] = "none"
  BY <1>5 DEF RequestDelete, Begin, Resting, Task, Rows
<1>6. ASSUME NEW p \in Workers \cup {Watcher}, InsertRow(p)
         PROVE \A s \in born : status[s] = "none" => status'[s] = "none"
  BY <1>6 DEF InsertRow, At, Goto
<1>7. ASSUME NEW p \in Workers \cup {Watcher}, StartContainer(p)
         PROVE \A s \in born : status[s] = "none" => status'[s] = "none"
  BY <1>7 DEF StartContainer, At, Goto
<1>8. ASSUME NEW p \in Workers \cup {Watcher}, WaitForReady(p)
         PROVE \A s \in born : status[s] = "none" => status'[s] = "none"
  BY <1>8 DEF WaitForReady, At, Goto
<1>9. ASSUME NEW p \in Workers \cup {Watcher}, WaitForReadyTimeout(p)
         PROVE \A s \in born : status[s] = "none" => status'[s] = "none"
  BY <1>9 DEF WaitForReadyTimeout, At, Goto, Finish, Resting, Task
<1>10. ASSUME NEW p \in Workers \cup {Watcher}, DropRow(p)
         PROVE \A s \in born : status[s] = "none" => status'[s] = "none"
  BY <1>10 DEF DropRow, At, Finish, Resting, Task, DeleteRow, LastWriteFails
<1>11. ASSUME NEW p \in Workers \cup {Watcher}, RecordPodIP(p)
         PROVE \A s \in born : status[s] = "none" => status'[s] = "none"
  BY <1>11 DEF RecordPodIP, At, Goto, UpdatePodIP
<1>12. ASSUME NEW p \in Workers \cup {Watcher}, MarkRunning(p)
         PROVE \A s \in born : status[s] = "none" => status'[s] = "none"
  BY <1>12
    DEF MarkRunning, At, Finish, Resting, Task, UpdateStatus, LastWriteFails
<1>13. ASSUME NEW p \in Workers \cup {Watcher}, MarkTransition(p)
         PROVE \A s \in born : status[s] = "none" => status'[s] = "none"
  BY <1>13 DEF MarkTransition, At, Goto, Finish, Resting, Task, UpdateStatus
<1>14. ASSUME NEW p \in Workers \cup {Watcher}, LookupNamespace(p)
         PROVE \A s \in born : status[s] = "none" => status'[s] = "none"
  BY <1>14 DEF LookupNamespace, At, Goto, Finish, Resting, Task, Rows, Call
<1>15. ASSUME NEW p \in Workers \cup {Watcher}, ScaleDown(p)
         PROVE \A s \in born : status[s] = "none" => status'[s] = "none"
  BY <1>15 DEF ScaleDown, At, Goto
<1>16. ASSUME NEW p \in Workers \cup {Watcher}, ScaleDownFails(p)
         PROVE \A s \in born : status[s] = "none" => status'[s] = "none"
  BY <1>16 DEF ScaleDownFails, At, Goto, Rows
<1>17. ASSUME NEW p \in Workers \cup {Watcher}, ClearPodIP(p)
         PROVE \A s \in born : status[s] = "none" => status'[s] = "none"
  BY <1>17 DEF ClearPodIP, At, Goto, UpdatePodIP
<1>18. ASSUME NEW p \in Workers \cup {Watcher}, MarkPaused(p)
         PROVE \A s \in born : status[s] = "none" => status'[s] = "none"
  BY <1>18
    DEF MarkPaused, At, Finish, Resting, Task, UpdateStatus, LastWriteFails
<1>19. ASSUME NEW p \in Workers \cup {Watcher}, ScaleUp(p)
         PROVE \A s \in born : status[s] = "none" => status'[s] = "none"
  BY <1>19 DEF ScaleUp, At, Goto
<1>20. ASSUME NEW p \in Workers \cup {Watcher}, ScaleUpFails(p)
         PROVE \A s \in born : status[s] = "none" => status'[s] = "none"
  BY <1>20 DEF ScaleUpFails, At, Goto, Finish, Resting, Task, Rows
<1>21. ASSUME NEW p \in Workers \cup {Watcher}, Revert(p)
         PROVE \A s \in born : status[s] = "none" => status'[s] = "none"
  BY <1>21 DEF Revert, At, Finish, Resting, Task, UpdateStatus, LastWriteFails
<1>22. ASSUME NEW p \in Workers \cup {Watcher}, StopContainer(p)
         PROVE \A s \in born : status[s] = "none" => status'[s] = "none"
  BY <1>22 DEF StopContainer, At, Goto
<1>23. ASSUME NEW p \in Workers \cup {Watcher}, FinishDelete(p)
         PROVE \A s \in born : status[s] = "none" => status'[s] = "none"
  BY <1>23 DEF FinishDelete, At, Finish, Resting, Task, DeleteRow
<1>24. CASE ListIdle
  BY <1>24 DEF ListIdle, Rows
<1>25. CASE PauseIdle
  BY <1>25 DEF PauseIdle, Begin, Resting, Task
<1>26. CASE ListExpired
  BY <1>26 DEF ListExpired, Rows
<1>27. CASE ReapRow
  BY <1>27 DEF ReapRow, Begin, Resting, Task, DeleteRow
<1>28. CASE ReapStop
  BY <1>28 DEF ReapStop, At, Finish, Resting, Task, Rows
<1>29. CASE Crash
  BY <1>29 DEF Crash, Rows, Resting, Task
<1>30. CASE RollingUpdate
  BY <1>30 DEF RollingUpdate, Rows
<1>31. CASE LoadKnownNames
  BY <1>31 DEF LoadKnownNames, ActiveNames, Rows
<1>32. CASE CleanOrphans
  BY <1>32 DEF CleanOrphans
<1>33. CASE Retire
  BY <1>33 DEF Retire, Rows, Resting, Task
<1>34. CASE UNCHANGED vars
  BY <1>34 DEF vars
<1> QED
  BY <1>1, <1>2, <1>3, <1>4, <1>5, <1>6, <1>7, <1>8, <1>9, <1>10,
     <1>11, <1>12, <1>13, <1>14, <1>15, <1>16, <1>17, <1>18, <1>19,
     <1>20, <1>21, <1>22, <1>23, <1>24, <1>25, <1>26, <1>27, <1>28,
     <1>29, <1>30, <1>31, <1>32, <1>33, <1>34
  DEF Next, Request, Advance

-----------------------------------------------------------------------------
(* Theorems *)

\* Nothing is born, so there is nothing to go wrong.
LEMMA InitIInv == Init => IInv
<1> SUFFICES ASSUME Init PROVE IInv
  OBVIOUS
<1> USE SandboxesAssumption DEF Init, Rows, Procs, Resting, Task
<1>1. TypeOK
  BY DEF TypeOK, Status, Transitional, Settled, Ops, Steps
<1>2. Programs
  BY DEF Programs, Program
<1>3. Born
  BY DEF Born
<1>4. Exclusive
  BY DEF Exclusive
<1>5. Startup
  BY DEF Startup
<1>6. Removals
  BY DEF Removals
<1>7. LiveRowHasCR
  BY DEF LiveRowHasCR
<1>8. TransitionOwned
  BY DEF TransitionOwned, Transitional
<1> QED BY <1>1, <1>2, <1>3, <1>4, <1>5, <1>6, <1>7, <1>8 DEF IInv

\* IInv is an invariant: each of its parts is kept by every step from a state
\* in which all of them hold.
THEOREM Invariance == Spec => []IInv
<1>1. IInv /\ [Next]_vars => IInv'
  BY TypeStep, ProgramsStep, BornStep, ExclusiveStep, StartupStep,
     RemovalsStep, LiveRowStep, OwnedStep DEF IInv
<1> QED BY InitIInv, <1>1, PTL DEF Spec

\* The types are right in every reachable state.
THEOREM TypeCorrect == Spec => []TypeOK
<1>1. IInv => TypeOK BY DEF IInv
<1> QED BY Invariance, <1>1, PTL

\* No live row loses its CR: whatever requests, the watcher, the reaper and
\* start-ups do, only a deletion removes it, or a start-up that was not told
\* of the row.
THEOREM LiveRowsKeepTheirCR == Spec => []LiveRowHasCR
<1>1. IInv => LiveRowHasCR BY DEF IInv
<1> QED BY Invariance, <1>1, PTL

\* Every transitional row has an owner that will write it again, or the end of
\* a replica or a failed write left it.
THEOREM TransitionsAreOwned == Spec => []TransitionOwned
<1>1. IInv => TransitionOwned BY DEF IInv
<1> QED BY Invariance, <1>1, PTL

\* No step brings a deleted row back.
THEOREM DeletionIsFinal == Spec => DeletedStaysDeleted
<1>1. IInv /\ [Next]_vars =>
        [\A s \in born : status[s] = "none" => status'[s] = "none"]_vars
  BY DeletedStep DEF IInv
<1> QED BY Invariance, <1>1, PTL DEF Spec, DeletedStaysDeleted
=============================================================================
