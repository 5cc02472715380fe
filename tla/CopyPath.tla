------------------------------ MODULE CopyPath ------------------------------
(***************************************************************************)
(* The copy_path tool: a file, or a directory as a tar stream, goes from   *)
(* one executor to another through two processes that the tool starts      *)
(* there. Over HTTP a curl on each side meets the other in the byte relay  *)
(* (Relay); otherwise the tool pumps the output of the one into the input  *)
(* of the other. The file is written beside its destination and moved      *)
(* there at the end. Every call to an executor may fail, or be done and    *)
(* its answer be lost, and the whole has a deadline. What is read from a   *)
(* process that has exited is taken for all it wrote, as the tool does.    *)
(***************************************************************************)
EXTENDS Naturals

CONSTANT Copies     \* calls of the tool; each has its own destination

VARIABLES
    relayEnabled,   \* the gateway's URL and secret are configured
    copy,           \* per call: its step, what it was asked for, its contexts
    shell,          \* per call and side: the process there
    sideTask,           \* per call and side: the goroutine of the HTTP path
    file,           \* per call: the file beside the destination, and the destination
    spared,         \* history, per call: what was left behind, and why it may be
    cut             \* history: calls whose destination process ended before its input

copyVars == <<relayEnabled, copy, shell, sideTask, file, spared, cut>>

Sides == {"source", "destination"}

CopyInit ==
    /\ relayEnabled \in BOOLEAN
    /\ copy = [c \in Copies |-> [pc |-> "idle", recursive |-> FALSE,
                  transport |-> "auto", over |-> FALSE, aborted |-> FALSE]]
    /\ shell = [c \in Copies |-> [s \in Sides |-> "none"]]
    /\ sideTask = [c \in Copies |-> [s \in Sides |-> "none"]]
    /\ file = [c \in Copies |-> [partial |-> "none", target |-> "old"]]
    /\ spared = [c \in Copies |-> {}]
    /\ cut = {}

CopyAt(c, pc) == copy[c].pc = pc
Proceed(c, pc) == copy' = [copy EXCEPT ![c].pc = pc]
KeepSettings == UNCHANGED <<relayEnabled, cut>>
ShellRuns(c, s) == shell[c][s] = "runs"

\* Where the process at the destination writes: tar extracts in place.
Out(c) == IF copy[c].recursive THEN "target" ELSE "partial"

\* cleanup and relayCleanup, under a context of their own: each call in it may
\* fail and is not repeated; the rm is not waited for.
Ending(c, stopped, rm) ==
    \E lost \in SUBSET (stopped \cup IF rm THEN {"partial"} ELSE {}) :
        /\ spared' = [spared EXCEPT ![c] = @ \cup lost]
        /\ shell' = [shell EXCEPT ![c] = [s \in Sides |->
              IF s \in stopped \ lost /\ ShellRuns(c, s) THEN "ended" ELSE shell[c][s]]]
        /\ file' = IF rm /\ "partial" \notin lost
                   THEN [file EXCEPT ![c].partial = "none"] ELSE file

-----------------------------------------------------------------------------
(* Call: names and connections may be refused; then the deadline runs *)

CallCopyPath(c) ==
    /\ CopyAt(c, "idle")
    /\ \/ Proceed(c, "error")
       \/ \E recursive \in BOOLEAN, transport \in {"auto", "http", "ws"} :
             copy' = [copy EXCEPT ![c] = [@ EXCEPT
                !.recursive = recursive, !.transport = transport,
                !.pc = IF transport = "http" \/ (transport = "auto" /\ relayEnabled)
                       THEN "create" ELSE "start source"]]
    /\ UNCHANGED <<shell, sideTask, file, spared>> /\ KeepSettings

Deadline(c) ==
    /\ ~CopyAt(c, "idle") /\ ~copy[c].over
    /\ copy' = [copy EXCEPT ![c].over = TRUE]
    /\ UNCHANGED <<shell, sideTask, file, spared>> /\ KeepSettings

-----------------------------------------------------------------------------
(* callHTTPRelay *)

\* Without a relay the call falls through, one that asked for http too.
CreateRelay(c) ==
    /\ CopyAt(c, "create")
    /\ \/ ~relayEnabled /\ Proceed(c, "start source") /\ UNCHANGED sideTask
       \/ relayEnabled /\ Proceed(c, "error") /\ UNCHANGED sideTask
       \/ /\ relayEnabled /\ ~copy[c].over
          /\ Proceed(c, "join")
          /\ sideTask' = [sideTask EXCEPT ![c] = [s \in Sides |-> "start"]]
    /\ UNCHANGED <<shell, file, spared>> /\ KeepSettings

CopyCancelled(c) == copy[c].over \/ copy[c].aborted

\* A side that does not exit with 0 aborts the other one.
SideEnds(c, s, result) ==
    /\ sideTask' = [sideTask EXCEPT ![c][s] = result]
    /\ copy' = [copy EXCEPT ![c].aborted = @ \/ result # "ok"]

\* process/start. If its answer is lost the process is on its own: the deferred
\* terminate comes after.
StartShell(c, s) ==
    /\ sideTask[c][s] = "start"
    /\ \/ /\ ~CopyCancelled(c)
          /\ sideTask' = [sideTask EXCEPT ![c][s] = "poll"]
          /\ shell' = [shell EXCEPT ![c][s] = "runs"]
          /\ UNCHANGED <<copy, spared>>
       \/ SideEnds(c, s, "err") /\ UNCHANGED <<shell, spared>>
       \/ /\ SideEnds(c, s, "err")
          /\ shell' = [shell EXCEPT ![c][s] = "runs"]
          /\ spared' = [spared EXCEPT ![c] = @ \cup {s}]
    /\ UNCHANGED file /\ KeepSettings

\* process/read finds that the process has exited, ...
PollShell(c, s) ==
    /\ sideTask[c][s] = "poll" /\ ~ShellRuns(c, s) /\ ~CopyCancelled(c)
    /\ SideEnds(c, s, shell[c][s])
    /\ UNCHANGED <<shell, file, spared>> /\ KeepSettings

\* ... or it fails. The process is terminated when the context is over, not
\* when the connection is.
PollFails(c, s) ==
    /\ sideTask[c][s] = "poll"
    /\ SideEnds(c, s, "err")
    /\ IF CopyCancelled(c) THEN Ending(c, {s}, FALSE)
                       ELSE /\ spared' = [spared EXCEPT ![c] = @ \cup {s}]
                            /\ UNCHANGED <<shell, file>>
    /\ KeepSettings

EndedAs(c) == {sideTask[c][s] : s \in Sides}

\* Mutant: the exit of the source is not asked for.
JoinDestination(c) ==
    /\ CopyAt(c, "join") /\ EndedAs(c) \subseteq {"ok", "failed"} /\ sideTask[c]["destination"] = "ok"
    /\ Proceed(c, IF copy[c].recursive THEN "ok" ELSE "rename")
    /\ UNCHANGED <<shell, sideTask, file, spared>> /\ KeepSettings

JoinWell(c) ==
    /\ CopyAt(c, "join") /\ EndedAs(c) = {"ok"}
    /\ Proceed(c, IF copy[c].recursive THEN "ok" ELSE "rename")
    /\ UNCHANGED <<shell, sideTask, file, spared>> /\ KeepSettings

\* Exit 127, no curl or no bash, is tried again over the bridge.
JoinBadly(c) ==
    /\ CopyAt(c, "join")
    /\ EndedAs(c) \cap {"start", "poll"} = {} /\ EndedAs(c) # {"ok"}
    /\ Proceed(c, IF copy[c].transport = "auto" /\ "missing" \in EndedAs(c)
             THEN "start source" ELSE "error")
    /\ Ending(c, {}, ~copy[c].recursive)
    /\ UNCHANGED sideTask /\ KeepSettings

-----------------------------------------------------------------------------
(* callWSPump *)

StartSource(c) ==
    /\ CopyAt(c, "start source")
    /\ \/ /\ ~copy[c].over
          /\ Proceed(c, "start destination")
          /\ shell' = [shell EXCEPT ![c]["source"] = "runs"]
          /\ UNCHANGED spared
       \/ Proceed(c, "error") /\ UNCHANGED <<shell, spared>>
       \/ /\ Proceed(c, "error")
          /\ shell' = [shell EXCEPT ![c]["source"] = "runs"]
          /\ spared' = [spared EXCEPT ![c] = @ \cup {"source"}]
    /\ UNCHANGED <<sideTask, file>> /\ KeepSettings

\* A cat opens its file at once. If the answer is lost, only the source is
\* stopped.
StartDestination(c) ==
    /\ CopyAt(c, "start destination")
    /\ \/ /\ ~copy[c].over
          /\ Proceed(c, "pump")
          /\ shell' = [shell EXCEPT ![c]["destination"] = "runs"]
          /\ file' = [file EXCEPT ![c][Out(c)] = "part"]
          /\ UNCHANGED spared
       \/ Proceed(c, "error") /\ Ending(c, {"source"}, FALSE)
       \/ /\ Proceed(c, "error")
          /\ file' = [file EXCEPT ![c][Out(c)] = "part"]
          /\ \E lost \in SUBSET {"source"} :
                /\ shell' = [shell EXCEPT ![c]["destination"] = "runs",
                                ![c]["source"] = IF lost = {} /\ @ = "runs" THEN "ended" ELSE @]
                /\ spared' = [spared EXCEPT ![c] = @ \cup {"destination"} \cup lost]
    /\ UNCHANGED sideTask /\ KeepSettings

\* pumpChunks: the last chunk has been read, and accepted over there.
PumpAll(c) ==
    /\ CopyAt(c, "pump") /\ shell[c]["source"] = "ok" /\ ~copy[c].over
    /\ Proceed(c, "drain")
    /\ UNCHANGED <<shell, sideTask, file, spared>> /\ KeepSettings

\* A read, a write, the exit of the source, the deadline.
PumpFails(c) ==
    /\ CopyAt(c, "pump")
    /\ Proceed(c, "error")
    /\ Ending(c, Sides, ~copy[c].recursive)
    /\ UNCHANGED sideTask /\ KeepSettings

\* waitDestinationDrained gives up after two reads without output, which a cat
\* never has; then the process is terminated, whatever it has written by then.
\* The error of that call is dropped.
DrainAndTerminate(c) ==
    /\ CopyAt(c, "drain")
    /\ Proceed(c, IF copy[c].recursive THEN "ok" ELSE "rename")
    /\ IF ShellRuns(c, "destination") /\ copy[c].over
       THEN spared' = [spared EXCEPT ![c] = @ \cup {"destination"}] /\ UNCHANGED <<shell, file>>
       ELSE Ending(c, {"destination"}, FALSE)
    /\ cut' = IF file[c][Out(c)] = "whole" THEN cut ELSE cut \cup {c}
    /\ UNCHANGED <<relayEnabled, sideTask>>

-----------------------------------------------------------------------------
(* remoteRename: mv, which may have been done when its answer is lost *)

Moved(c) == [file EXCEPT ![c] = [partial |-> "none", target |-> file[c].partial]]

RemoteRename(c) ==
    /\ CopyAt(c, "rename") /\ ~copy[c].over
    /\ file[c].partial # "none"
    /\ file' = Moved(c)
    /\ Proceed(c, "ok") \/ Proceed(c, "error")
    /\ UNCHANGED <<shell, sideTask, spared>> /\ KeepSettings

\* The HTTP path removes the file; after the pump, cleanup is given no
\* connection and does nothing.
RenameFails(c) ==
    /\ CopyAt(c, "rename")
    /\ Proceed(c, "error")
    /\ IF EndedAs(c) = {"ok"} THEN Ending(c, {}, TRUE)
       ELSE /\ spared' = [spared EXCEPT ![c] = @ \cup {"partial"}]
            /\ UNCHANGED <<shell, file>>
    /\ UNCHANGED sideTask /\ KeepSettings

-----------------------------------------------------------------------------
(* The processes *)

ByRelay(c) == CopyAt(c, "join")

\* The relay has paired the two and copies.
RelayCopies(c) ==
    /\ ByRelay(c) /\ ShellRuns(c, "source") /\ ShellRuns(c, "destination")
    /\ file[c][Out(c)] # "whole"
    /\ \E w \in {"part", "whole"} : file' = [file EXCEPT ![c][Out(c)] = w]
    /\ UNCHANGED <<copy, shell, sideTask, spared>> /\ KeepSettings

\* The upload is answered 200 once all is copied. The download ends well then,
\* and also when the copy broke off after its status line.
ShellExits(c, s) ==
    /\ ShellRuns(c, s)
    /\ \E exit \in {"ok", "failed", "missing"} :
          /\ shell' = [shell EXCEPT ![c][s] = exit]
          /\ exit = "ok" /\ ByRelay(c) =>
                file[c][Out(c)] \in IF s = "source" THEN {"whole"} ELSE {"part", "whole"}
          /\ exit = "ok" /\ ~ByRelay(c) => s = "source"
          /\ exit = "missing" => ByRelay(c) /\ file[c][Out(c)] \in {"none", "old"}
    /\ UNCHANGED <<copy, sideTask, file, spared>> /\ KeepSettings

\* What was accepted is written, sooner or later.
DestinationWrites(c) ==
    /\ copy[c].pc \in {"drain", "rename"} /\ ~ByRelay(c) /\ ShellRuns(c, "destination")
    /\ file[c][Out(c)] = "part"
    /\ file' = [file EXCEPT ![c][Out(c)] = "whole"]
    /\ UNCHANGED <<copy, shell, sideTask, spared>> /\ KeepSettings

CopyNext ==
    \E c \in Copies :
        \/ CallCopyPath(c) \/ Deadline(c) \/ CreateRelay(c) \/ JoinWell(c) \/ JoinBadly(c)
        \/ StartSource(c) \/ StartDestination(c) \/ PumpAll(c) \/ PumpFails(c)
        \/ DrainAndTerminate(c) \/ RemoteRename(c) \/ RenameFails(c)
        \/ RelayCopies(c) \/ DestinationWrites(c)
        \/ \E s \in Sides :
              StartShell(c, s) \/ PollShell(c, s) \/ PollFails(c, s) \/ ShellExits(c, s)

CopySpec == CopyInit /\ [][CopyNext]_copyVars

-----------------------------------------------------------------------------

CopySteps == {"idle", "create", "join", "start source", "start destination", "pump",
          "drain", "rename", "ok", "error"}

CopyTypeOK ==
    /\ relayEnabled \in BOOLEAN
    /\ \A c \in Copies : copy[c].pc \in CopySteps
    /\ shell \in [Copies -> [Sides -> {"none", "runs", "ok", "failed", "missing", "ended"}]]
    /\ sideTask \in [Copies -> [Sides -> {"none", "start", "poll", "ok", "failed", "missing",
                                      "ended", "err"}]]
    /\ file \in [Copies -> [partial : {"none", "part", "whole"},
                            target : {"old", "part", "whole"}]]
    /\ spared \in [Copies -> SUBSET (Sides \cup {"partial"})]
    /\ cut \subseteq Copies

\* "Atomic at destination via a .partial-<uuid> + rename" (copy_path.go:46): a
\* file is there whole or as it was, and a copy that is reported is there; but
\* for a pump whose destination process was ended with input it had not written.
CopiedWhole ==
    \A c \in Copies :
        /\ CopyAt(c, "ok") => file[c].target = "whole" \/ c \in cut
        /\ ~copy[c].recursive => file[c].target # "part" \/ c \in cut

\* A call that has answered leaves no process and no partial file behind, but
\* those whose start was not answered or whose clean-up failed, each once.
NothingLeft ==
    \A c \in Copies :
        copy[c].pc \in {"ok", "error"} =>
            /\ \A s \in Sides : ShellRuns(c, s) => s \in spared[c]
            /\ file[c].partial # "none" => spared[c] \cap {"partial", "destination"} # {}

CopySound == CopiedWhole /\ NothingLeft
=============================================================================
