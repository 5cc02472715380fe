---------------------------- MODULE DockerBackend ----------------------------
(***************************************************************************)
(* Sandboxes as Docker containers. A handler (or the idle watcher) checks  *)
(* the status of a row, writes the next one, and a goroutine then creates, *)
(* stops or starts the container, in several calls of Docker, and writes   *)
(* how it ended. A container goes by a name made of its sandbox's id; the  *)
(* row keeps a name made of its short id, the one of Kubernetes, and that  *)
(* is the name that deletion and the clean-up of a start-up look for.      *)
(* No handler executes a process in a container, so Manager.processes is   *)
(* empty, and Stop and StopAll find nothing to stop.                       *)
(***************************************************************************)
EXTENDS Naturals

CONSTANTS
    Boxes,          \* sandboxes
    Works,          \* goroutines that start, pause or resume
    MaxStarts,      \* bound: start-ups of agentserver
    NoBox

ASSUME DockerAssumption == NoBox \notin Boxes /\ MaxStarts \in Nat

VARIABLES
    boxRow,     \* per sandbox: the status of its row
    container,  \* per sandbox: what Docker has under "cli-sandbox-" and its id
    work,       \* per goroutine: its step, kind and sandbox
    starts,     \* start-ups so far
    vanished,       \* history: sandboxes whose row is gone, and since which start-up
    stuck,      \* history: containers Docker failed to remove
    astray,     \* history: containers that ended or went without a request
    cleaned,    \* history: sandboxes whose container a start-up removed
    crossed     \* history: sandboxes that had two goroutines at once

dockerVars == <<boxRow, container, work, starts, vanished, stuck, astray, cleaned, crossed>>
boxHistory == <<vanished, stuck, astray, cleaned, crossed>>

\* options: whether it was created with the sandbox's tokens and settings; by: the
\* goroutine that created it, for its id.
Gone(w) == [state |-> "none", options |-> FALSE, by |-> w]
Idle == [pc |-> "idle", kind |-> "start", of |-> NoBox]

AnyWork == CHOOSE w \in Works : TRUE

DockerInit ==
    /\ boxRow = [s \in Boxes |-> "none"]
    /\ container = [s \in Boxes |-> Gone(AnyWork)]
    /\ work = [w \in Works |-> Idle]
    /\ starts = 0
    /\ vanished = [s \in Boxes |-> 0]
    /\ stuck = {} /\ astray = {} /\ cleaned = {} /\ crossed = {}

Present == {s \in Boxes : container[s].state # "none"}
Unused(s) == boxRow[s] = "none" /\ vanished[s] = 0 /\ \A w \in Works : work[w].of # s

\* UpdateStatus changes the row if there is one.
UpdateStatus(s, status) ==
    boxRow' = [boxRow EXCEPT ![s] = IF @ = "none" THEN @ ELSE status]
DropRow(s) ==
    /\ boxRow' = [boxRow EXCEPT ![s] = "none"]
    /\ vanished' = [vanished EXCEPT ![s] = IF @ = 0 THEN starts + 1 ELSE @]

-----------------------------------------------------------------------------
(* Handlers *)

CreateSandbox(w, s) ==
    /\ work[w] = Idle /\ Unused(s)
    /\ boxRow' = [boxRow EXCEPT ![s] = "creating"]
    /\ work' = [work EXCEPT ![w] = [pc |-> "going", kind |-> "start", of |-> s]]
    /\ UNCHANGED <<container, starts, boxHistory>>

From(kind) == IF kind = "pause" THEN "running" ELSE "paused"
Via(kind) == IF kind = "pause" THEN "pausing" ELSE "resuming"

\* The check of HandlePause, of the idle watcher and of HandleResume ...
Admit(w, s, kind) ==
    /\ work[w] = Idle /\ boxRow[s] = From(kind)
    /\ work' = [work EXCEPT ![w] = [pc |-> "admitted", kind |-> kind, of |-> s]]
    /\ crossed' = IF \E v \in Works : work[v].of = s THEN crossed \cup {s} ELSE crossed
    /\ UNCHANGED <<boxRow, container, starts, vanished, stuck, astray, cleaned>>

\* ... and their write, which does not repeat it.
Transition(w) ==
    /\ work[w].pc = "admitted"
    /\ UpdateStatus(work[w].of, Via(work[w].kind))
    /\ work' = [work EXCEPT ![w].pc = "going"]
    /\ UNCHANGED <<container, starts, boxHistory>>

ContainerName(s) == <<"cli-sandbox", s>>
SandboxName(s) == <<"agent-sandbox", s>>

\* StopByContainerName removes every container of a name.
StopByContainerName(name) ==
    container' = [s \in Boxes |->
        IF ContainerName(s) = name THEN Gone(container[s].by) ELSE container[s]]

\* Deleting a running sandbox stops its process, of which there is none.
HandleDelete(s) ==
    /\ boxRow[s] # "none"
    /\ IF boxRow[s] = "paused" THEN StopByContainerName(SandboxName(s))
                               ELSE UNCHANGED container
    /\ DropRow(s)
    /\ UNCHANGED <<work, starts, stuck, astray, cleaned, crossed>>

-----------------------------------------------------------------------------
(* Goroutines *)

Step(w, pc) == work' = [work EXCEPT ![w].pc = pc]

Runs(s) ==
    /\ container' = [container EXCEPT ![s].state = "running"]
    /\ astray' = astray \ {s}

\* EnsureContainer looks for the container; one that is stopped is started.
EnsureContainer(w) ==
    LET s == work[w].of IN
    /\ work[w].pc = "going" /\ work[w].kind # "pause"
    /\ \E works \in BOOLEAN :
         /\ Step(w, IF s \notin Present THEN "missing"
                    ELSE IF container[s].state = "running" \/ works THEN "up" ELSE "failed")
         /\ IF s \in Present /\ works
            THEN Runs(s) ELSE UNCHANGED <<container, astray>>
    /\ UNCHANGED <<boxRow, starts, vanished, stuck, cleaned, crossed>>

\* Docker refuses a name that is taken; it may fail anyway. A resume passes no
\* options.
ContainerCreate(w) ==
    LET s == work[w].of IN
    /\ work[w].pc = "missing"
    /\ \E works \in BOOLEAN :
         IF works /\ s \notin Present
         THEN /\ container' = [container EXCEPT ![s] =
                   [state |-> "created", options |-> work[w].kind = "start", by |-> w]]
              /\ Step(w, "made")
         ELSE Step(w, "failed") /\ UNCHANGED container
    /\ UNCHANGED <<boxRow, starts, boxHistory>>

\* Mutant: what does not start is left.
StartOrLeave(w) ==
    LET s == work[w].of IN
    /\ work[w].pc = "made"
    /\ \/ container' = [container EXCEPT ![s].state = "running"] /\ Step(w, "up")
       \/ Step(w, "failed") /\ UNCHANGED container
    /\ UNCHANGED <<boxRow, starts, boxHistory>>

\* A container that does not start is removed, if that works.
ContainerStart(w) ==
    LET s == work[w].of IN
    /\ work[w].pc = "made"
    /\ \/ /\ container[s].by = w
          /\ Runs(s)
          /\ Step(w, "up") /\ UNCHANGED stuck
       \/ /\ container' = [container EXCEPT ![s] = IF @.by = w THEN Gone(w) ELSE @]
          /\ Step(w, "failed") /\ UNCHANGED <<stuck, astray>>
       \/ /\ container[s].by = w
          /\ Step(w, "failed")
          /\ stuck' = stuck \cup {s} /\ UNCHANGED <<container, astray>>
    /\ UNCHANGED <<boxRow, starts, vanished, cleaned, crossed>>

\* Pause finds the container by its name; whether it stops is not looked at.
Pause(w) ==
    LET s == work[w].of IN
    /\ work[w].pc = "going" /\ work[w].kind = "pause"
    /\ IF s \in Present
       THEN /\ Step(w, "up")
            /\ \E state \in {"exited", container[s].state} :
                 container' = [container EXCEPT ![s].state = state]
       ELSE Step(w, "failed") /\ UNCHANGED container
    /\ UNCHANGED <<boxRow, starts, boxHistory>>

\* Mutant: a failed resume is written as a success.
FinishRunning(w) ==
    LET s == work[w].of IN
    /\ work[w].pc \in {"up", "failed"}
    /\ work' = [work EXCEPT ![w] = Idle]
    /\ UpdateStatus(s, IF work[w].kind = "pause" THEN "paused" ELSE "running")
    /\ UNCHANGED <<container, starts, boxHistory>>

\* The goroutine writes how it ended; a sandbox that could not be created goes.
FinishWork(w) ==
    LET s == work[w].of
        up == work[w].pc = "up" IN
    /\ work[w].pc \in {"up", "failed"}
    /\ work' = [work EXCEPT ![w] = Idle]
    /\ IF ~up /\ work[w].kind = "start" THEN DropRow(s)
       ELSE /\ UpdateStatus(s, IF up = (work[w].kind = "pause") THEN "paused" ELSE "running")
            /\ UNCHANGED vanished
    /\ UNCHANGED <<container, starts, stuck, astray, cleaned, crossed>>

-----------------------------------------------------------------------------
(* Docker and start-up *)

\* The main process of a container ends.
Exits(s) ==
    /\ container[s].state = "running"
    /\ container' = [container EXCEPT ![s].state = "exited"]
    /\ astray' = astray \cup {s}
    /\ UNCHANGED <<boxRow, work, starts, vanished, stuck, cleaned, crossed>>

\* ListAllActiveSandboxNames
KnownNames == {SandboxName(s) : s \in {b \in Boxes : boxRow[b] # "none"}}

\* Mutant: only containers that run are listed.
CleanRunning(kept) ==
    LET unknown == {s \in Present : container[s].state = "running"
                                    /\ ContainerName(s) \notin KnownNames}
        removed == unknown \ kept IN
    /\ kept \subseteq unknown
    /\ container' = [s \in Boxes |-> IF s \in removed THEN Gone(container[s].by)
                                                      ELSE container[s]]
    /\ cleaned' = cleaned \cup removed
    /\ stuck' = stuck \cup kept

\* Containers whose name is not a known one are removed; some may not go.
CleanOrphans(kept) ==
    LET unknown == {s \in Present : ContainerName(s) \notin KnownNames}
        removed == unknown \ kept IN
    /\ kept \subseteq unknown
    /\ container' = [s \in Boxes |-> IF s \in removed THEN Gone(container[s].by)
                                                      ELSE container[s]]
    /\ cleaned' = cleaned \cup removed
    /\ stuck' = stuck \cup kept

\* agentserver ends, at a crash or after StopAll, and starts again.
Restart ==
    /\ starts < MaxStarts
    /\ starts' = starts + 1
    /\ work' = [w \in Works |-> Idle]
    /\ \E kept \in SUBSET Boxes : CleanOrphans(kept)
    /\ astray' = astray \cup Present
    /\ UNCHANGED <<boxRow, vanished, crossed>>

DockerNext ==
    \/ \E w \in Works :
         \/ \E s \in Boxes :
              \/ CreateSandbox(w, s)
              \/ \E kind \in {"pause", "resume"} : Admit(w, s, kind)
         \/ Transition(w)
         \/ EnsureContainer(w) \/ ContainerCreate(w) \/ ContainerStart(w)
         \/ Pause(w) \/ FinishWork(w)
    \/ \E s \in Boxes : HandleDelete(s) \/ Exits(s)
    \/ Restart

DockerSpec == DockerInit /\ [][DockerNext]_dockerVars

-----------------------------------------------------------------------------
(* Properties *)

BoxStatus == {"none", "creating", "running", "pausing", "paused", "resuming"}
Containers == [state : {"none", "created", "running", "exited"}, options : BOOLEAN,
               by : Works \cup {AnyWork}]
Jobs == [pc : {"idle", "admitted", "going", "missing", "made", "up", "failed"},
         kind : {"start", "pause", "resume"}, of : Boxes \cup {NoBox}]

DockerTypeOK ==
    /\ boxRow \in [Boxes -> BoxStatus] /\ container \in [Boxes -> Containers]
    /\ work \in [Works -> Jobs] /\ vanished \in [Boxes -> 0..(MaxStarts + 1)]
    /\ stuck \cup astray \cup cleaned \cup crossed \subseteq Boxes
    /\ starts \in 0..MaxStarts

\* A sandbox whose row says that it runs has a container that runs, unless it ended
\* by itself, a start-up took it, or two requests crossed.
RunningRuns ==
    \A s \in Boxes :
        boxRow[s] = "running" /\ s \notin astray \cup crossed
        => container[s].state = "running"

\* A container is without its sandbox's tokens only where a start-up has removed the
\* one that had them.
OptionsSurvive ==
    \A s \in Present : container[s].options \/ s \in cleaned

\* What is left of a sandbox that is gone lasts until the next start-up, unless
\* Docker does not remove it.
LeftoversGo ==
    \A s \in Present : boxRow[s] = "none" => vanished[s] = starts + 1 \/ s \in stuck

\* A container that has not run is about to be started; one that did not start is
\* gone, unless Docker does not remove it.
NoneHalfMade ==
    \A s \in Present : container[s].state = "created" =>
        s \in stuck \/ \E w \in Works : work[w].pc = "made" /\ work[w].of = s

DockerSound == RunningRuns /\ OptionsSurvive /\ LeftoversGo /\ NoneHalfMade
=============================================================================
