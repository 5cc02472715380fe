------------------------------ MODULE EnvTools ------------------------------
(***************************************************************************)
(* The tools that run on executors: env-mcp serves them to codex one after *)
(* the other, the SDK surface of codex-exec-gateway to the programs of a   *)
(* workspace all at once. A call resolves the name of an environment, gets *)
(* the connection to its executor from the pool, which dials one when it   *)
(* has none that is open, and starts or reaches a process there. shell     *)
(* waits for the process; exec_command leaves a session in a table, by     *)
(* which write_stdin, read_output and terminate find it again. copy_path   *)
(* is in CopyPath, apply_patch in PatchHunks.                              *)
(***************************************************************************)
EXTENDS FiniteSets, Naturals

CONSTANTS
    Machines,       \* executors, one of which has the environment's name at a time
    Uses,           \* calls of tools under way
    Links,          \* connections, each dialled once
    Procs,          \* processes; a session is of one
    NoMachine, NoLink, NoProc,
    MaxRenames      \* bound: the name goes to another executor

ASSUME EnvToolsAssumption ==
    /\ NoMachine \notin Machines /\ NoLink \notin Links /\ NoProc \notin Procs
    /\ MaxRenames \in Nat

VARIABLES
    named,          \* the executor that has the name, and how many have had it
    cache,          \* Resolver: what the last fetch gave, and whether it is fresh
    fetching,       \* the fetches under way: one, which all that miss share
    link,           \* per connection: its executor and state
    pool,           \* per executor: its connection
    use,            \* per call: its step and what it holds
    proc,           \* per process: its connection and state
    sessionOf,      \* per process: its entry in the table of sessions
    adrift,         \* history: processes that nobody will end, each for a reason
    newest          \* history: the newest that a fetch has stored

toolVars == <<named, cache, fetching, link, pool, use, proc, sessionOf, adrift, newest>>

NoUse == [pc |-> "idle", tool |-> "none", exe |-> NoMachine, link |-> NoLink, proc |-> NoProc]
Nobody == [exe |-> NoMachine, age |-> 0]

ToolsInit ==
    /\ \E m \in Machines : named = [exe |-> m, age |-> 1]
    /\ cache = [of |-> Nobody, fresh |-> FALSE]
    /\ fetching = {}
    /\ link = [l \in Links |-> [exe |-> NoMachine, state |-> "none"]]
    /\ pool = [m \in Machines |-> NoLink]
    /\ use = [u \in Uses |-> NoUse]
    /\ proc = [p \in Procs |-> [link |-> NoLink, state |-> "none"]]
    /\ sessionOf = [p \in Procs |-> "none"]
    /\ adrift = {}
    /\ newest = 0

UseAt(u, pc) == use[u].pc = pc
UseGoes(u, pc) == use' = [use EXCEPT ![u].pc = pc]
AnswerTool(u) == use' = [use EXCEPT ![u] = NoUse]
Open(l) == l # NoLink /\ link[l].state = "open"

resolverVars == <<named, cache, fetching, newest>>
poolVars == <<link, pool>>
procVars == <<proc, sessionOf, adrift>>

-----------------------------------------------------------------------------
(* Resolver *)

\* An executor takes the name: registered, renamed, disconnected (then nobody
\* has it).
NameMoves(m) ==
    /\ named.age <= MaxRenames /\ named.exe # m
    /\ named' = [exe |-> m, age |-> named.age + 1]
    /\ UNCHANGED <<cache, fetching, newest, poolVars, use, procVars>>

CacheAges ==
    /\ cache.fresh
    /\ cache' = [cache EXCEPT !.fresh = FALSE]
    /\ UNCHANGED <<named, fetching, newest, poolVars, use, procVars>>

\* What the cache has is kept for the case that the refresh fails.
Resolve(u, tool) ==
    /\ UseAt(u, "idle")
    /\ use' = [use EXCEPT ![u] = [NoUse EXCEPT !.tool = tool, !.exe = cache.of.exe,
                 !.pc = IF cache.of.exe # NoMachine /\ cache.fresh THEN "get" ELSE "miss"]]
    /\ UNCHANGED <<resolverVars, poolVars, procVars>>

\* list_environments always refreshes, and asks for no connection.
LLMView(u) ==
    /\ UseAt(u, "idle")
    /\ use' = [use EXCEPT ![u] = [NoUse EXCEPT !.tool = "list", !.pc = "miss"]]
    /\ UNCHANGED <<resolverVars, poolVars, procVars>>

\* Mutant: without the singleflight, whoever misses begins a fetch.
ResolverRefreshAlone(u) ==
    /\ UseAt(u, "miss")
    /\ UseGoes(u, "refresh")
    /\ fetching' = fetching \cup {named}
    /\ UNCHANGED <<named, cache, newest, poolVars, procVars>>

\* refresh: the fetch that is under way, or a new one, which reads now and
\* answers later.
ResolverRefresh(u) ==
    /\ UseAt(u, "miss")
    /\ UseGoes(u, "refresh")
    /\ fetching' = IF fetching = {} THEN {named} ELSE fetching
    /\ UNCHANGED <<named, cache, newest, poolVars, procVars>>

\* Those who share the fetch go on, with what the cache had if it failed. A
\* fetch that fails makes the cache fresh all the same.
FetchEnds(f, stored) ==
    /\ f \in fetching
    /\ fetching' = fetching \ {f}
    /\ cache' = [of |-> IF stored THEN f ELSE cache.of, fresh |-> TRUE]
    /\ newest' = IF stored /\ f.age > newest THEN f.age ELSE newest
    /\ use' = [u \in Uses |->
         IF ~UseAt(u, "refresh") THEN use[u]
         ELSE LET exe == IF stored THEN f.exe ELSE use[u].exe IN
              IF exe = NoMachine \/ use[u].tool = "list" THEN NoUse
              ELSE [use[u] EXCEPT !.pc = "get", !.exe = exe]]
    /\ UNCHANGED <<named, poolVars, procVars>>

-----------------------------------------------------------------------------
(* Pool *)

\* The connection of the pool if it is open; a closed one is taken out.
PoolGet(u) ==
    LET m == use[u].exe IN
    /\ UseAt(u, "get")
    /\ IF Open(pool[m])
       THEN use' = [use EXCEPT ![u].pc = "call", ![u].link = pool[m]] /\ UNCHANGED pool
       ELSE UseGoes(u, "dial") /\ pool' = [pool EXCEPT ![m] = NoLink]
    /\ UNCHANGED <<resolverVars, link, procVars>>

\* DialBridge announces the stream of the connection, then initialize and
\* initialized are sent; a connection on which one of them fails is closed.
DialBridge(u, l) ==
    /\ UseAt(u, "dial") /\ link[l].state = "none"
    /\ \/ /\ link' = [link EXCEPT ![l] = [exe |-> use[u].exe, state |-> "open"]]
          /\ use' = [use EXCEPT ![u].pc = "insert", ![u].link = l]
       \/ /\ link' = [link EXCEPT ![l].state = "closed"]
          /\ AnswerTool(u)
       \/ AnswerTool(u) /\ UNCHANGED link
    /\ UNCHANGED <<resolverVars, pool, procVars>>

\* Mutant: the loser of the race goes on with a connection of its own.
PoolInsertAny(u) ==
    /\ UseAt(u, "insert")
    /\ UseGoes(u, "call")
    /\ pool' = [pool EXCEPT ![use[u].exe] = use[u].link]
    /\ UNCHANGED <<resolverVars, link, procVars>>

\* Two calls may have dialled: the first stays, the second is closed.
PoolInsert(u) ==
    LET m == use[u].exe IN
    /\ UseAt(u, "insert")
    /\ IF Open(pool[m])
       THEN /\ use' = [use EXCEPT ![u].pc = "call", ![u].link = pool[m]]
            /\ link' = [link EXCEPT ![use[u].link].state = "closed"]
            /\ UNCHANGED pool
       ELSE /\ UseGoes(u, "call")
            /\ pool' = [pool EXCEPT ![m] = use[u].link]
            /\ UNCHANGED link
    /\ UNCHANGED <<resolverVars, procVars>>

\* readLoop ends: every Call that waits returns. The processes of the stream
\* may go on; no other connection knows them.
LinkBreaks(l) ==
    /\ Open(l)
    /\ link' = [link EXCEPT ![l].state = "closed"]
    /\ adrift' = adrift \cup {p \in Procs : proc[p].link = l}
    /\ UNCHANGED <<resolverVars, pool, use, proc, sessionOf>>

-----------------------------------------------------------------------------
(* shell and exec_command *)

Running(p) == proc[p].state = "runs"

\* process/start: done, not done, or done and its answer lost.
ProcessStart(u, p) ==
    /\ UseAt(u, "call") /\ use[u].tool \in {"shell", "exec"}
    /\ proc[p].state = "none"
    /\ \/ AnswerTool(u) /\ UNCHANGED <<proc, adrift>>
       \/ /\ Open(use[u].link)
          /\ proc' = [proc EXCEPT ![p] = [link |-> use[u].link, state |-> "runs"]]
          /\ \/ /\ use' = [use EXCEPT ![u].pc = "started", ![u].proc = p]
                /\ UNCHANGED adrift
             \/ AnswerTool(u) /\ adrift' = adrift \cup {p}
    /\ UNCHANGED <<resolverVars, poolVars, sessionOf>>

ProcessExits(p) ==
    /\ Running(p)
    /\ proc' = [proc EXCEPT ![p].state = "exited"]
    /\ UNCHANGED <<resolverVars, poolVars, use, sessionOf, adrift>>

\* A shell that is not answered in time, or cannot be read, leaves its process.
ShellEnds(u) ==
    /\ UseAt(u, "started") /\ use[u].tool = "shell"
    /\ AnswerTool(u)
    /\ adrift' = IF Running(use[u].proc) THEN adrift \cup {use[u].proc} ELSE adrift
    /\ UNCHANGED <<resolverVars, poolVars, proc, sessionOf>>

\* The table drops the sessions that are thirty minutes old, in use or not,
\* when one is added or looked up.
OldSessions == {p \in Procs : sessionOf[p] = "old"}

AddSession(u) ==
    /\ UseAt(u, "started") /\ use[u].tool = "exec"
    /\ sessionOf' = [p \in Procs |-> IF p = use[u].proc THEN "young"
                                    ELSE IF p \in OldSessions THEN "none" ELSE sessionOf[p]]
    /\ adrift' = adrift \cup OldSessions
    /\ AnswerTool(u)
    /\ UNCHANGED <<resolverVars, poolVars, proc>>

ExecSessionAges(p) ==
    /\ sessionOf[p] = "young"
    /\ sessionOf' = [sessionOf EXCEPT ![p] = "old"]
    /\ UNCHANGED <<resolverVars, poolVars, use, proc, adrift>>

\* write_stdin, read_output and terminate take the executor from the session,
\* and want its id from the caller; terminate drops the session before it
\* tries.
Lookup(u, p, tool) ==
    LET found == sessionOf[p] = "young"
        dropped == IF found /\ tool = "terminate" THEN {p} ELSE {} IN
    /\ UseAt(u, "idle") /\ sessionOf[p] # "none"
    /\ sessionOf' = [q \in Procs |-> IF q \in OldSessions \cup dropped THEN "none" ELSE sessionOf[q]]
    /\ adrift' = adrift \cup OldSessions \cup dropped
    /\ use' = IF ~found THEN use
              ELSE [use EXCEPT ![u] = [NoUse EXCEPT !.pc = "get", !.tool = tool,
                                         !.exe = link[proc[p].link].exe, !.proc = p]]
    /\ UNCHANGED <<resolverVars, poolVars, proc>>

\* read_file and write_file are one call.
FileCall(u) ==
    /\ UseAt(u, "call") /\ use[u].tool = "file"
    /\ AnswerTool(u)
    /\ UNCHANGED <<resolverVars, poolVars, procVars>>

\* A process is known on the connection it was started on.
Reach(u) ==
    LET p == use[u].proc IN
    /\ UseAt(u, "call") /\ p # NoProc
    /\ AnswerTool(u)
    /\ \/ /\ use[u].tool = "terminate" /\ Open(use[u].link) /\ use[u].link = proc[p].link
          /\ proc' = [proc EXCEPT ![p].state = "exited"]
       \/ UNCHANGED proc
    /\ UNCHANGED <<resolverVars, poolVars, sessionOf, adrift>>

ToolsNext ==
    \/ \E m \in Machines \cup {NoMachine} : NameMoves(m)
    \/ CacheAges
    \/ \E f \in fetching, stored \in BOOLEAN : FetchEnds(f, stored)
    \/ \E u \in Uses :
          \/ \E tool \in {"shell", "exec", "file"} : Resolve(u, tool)
          \/ LLMView(u) \/ ResolverRefresh(u) \/ PoolGet(u) \/ PoolInsert(u)
          \/ \E l \in Links : DialBridge(u, l)
          \/ \E p \in Procs : ProcessStart(u, p)
          \/ ShellEnds(u) \/ AddSession(u) \/ FileCall(u) \/ Reach(u)
          \/ \E p \in Procs, tool \in {"write", "terminate"} : Lookup(u, p, tool)
    \/ \E l \in Links : LinkBreaks(l)
    \/ \E p \in Procs : ProcessExits(p) \/ ExecSessionAges(p)

ToolsSpec == ToolsInit /\ [][ToolsNext]_toolVars

-----------------------------------------------------------------------------

ToolsTypeOK ==
    /\ named.exe \in Machines \cup {NoMachine}
    /\ cache.of.exe \in Machines \cup {NoMachine} /\ cache.fresh \in BOOLEAN
    /\ link \in [Links -> [exe : Machines \cup {NoMachine}, state : {"none", "open", "closed"}]]
    /\ pool \in [Machines -> Links \cup {NoLink}]
    /\ \A u \in Uses : use[u].pc \in {"idle", "miss", "refresh", "get", "dial",
                                      "insert", "call", "started"}
    /\ proc \in [Procs -> [link : Links \cup {NoLink}, state : {"none", "runs", "exited"}]]
    /\ sessionOf \in [Procs -> {"none", "young", "old"}]
    /\ adrift \subseteq Procs

\* "Two goroutines race to dial the same exe_id ... only one connection ends up
\* in the map; the loser closes its connection" (pool.go:50): no open connection
\* is out of reach of the pool and of the call that dialled it, and a call
\* speaks to the executor that it has resolved.
LinksAccounted ==
    /\ \A l \in Links :
          Open(l) => \/ pool[link[l].exe] = l
                     \/ \E u \in Uses : use[u].link = l /\ UseAt(u, "insert")
    /\ \A u \in Uses : use[u].link # NoLink => link[use[u].link].exe = use[u].exe

\* What the resolver knows never goes back: a fetch that was overtaken does not
\* overwrite a newer one.
NamesKeepUp == cache.of.age = newest

\* A process runs with a call that waits for it or in the table of sessions;
\* the others have been given up: the answer to their start, their connection
\* or their time ran out, or their session was dropped.
RunningIsKnown ==
    \A p \in Procs :
        Running(p) => \/ p \in adrift \/ sessionOf[p] # "none"
                      \/ \E u \in Uses : use[u].proc = p /\ UseAt(u, "started")

ToolsSound == LinksAccounted /\ NamesKeepUp /\ RunningIsKnown
=============================================================================
