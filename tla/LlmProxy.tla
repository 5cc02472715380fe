------------------------------ MODULE LlmProxy ------------------------------
(***************************************************************************)
(* llmproxy stands between the agents of a workspace and the providers of  *)
(* language models. A request is validated by agentserver, counted against *)
(* the requests per day of its workspace when it goes out with the         *)
(* operator's key, given a row in traces, and forwarded; its usage is read *)
(* from the answer while that passes through, and recorded. A workspace    *)
(* with a connection to the model server is forwarded there instead, with  *)
(* a token of ModelserverTokens. One workspace is modelled. An answer is a *)
(* number of lines; each line has a part of its text, then all of it, then *)
(* its end, so a chunk ends at a multiple of three only where a line does. *)
(***************************************************************************)
EXTENDS FiniteSets, FiniteSetsExt, Naturals

CONSTANTS
    Prompts,        \* requests of the workspace
    AnswerLines,    \* lines with usage in the answer of a provider
    RpdLimits,      \* limits an administrator may set; 0 is none
    DefaultMaxRPD,
    HasGeminiKey,
    Session,        \* the trace of the requests that name a session
    NoRow, NoLimit,
    MaxRpdChanges, MaxDays   \* bounds

ASSUME LlmProxyAssumption ==
    /\ Session \notin Prompts
    /\ AnswerLines \in Nat /\ DefaultMaxRPD \in Nat
    /\ RpdLimits \subseteq Nat /\ NoLimit \notin RpdLimits
    /\ HasGeminiKey \in BOOLEAN
    /\ NoRow \notin [day : Nat, says : SUBSET (1..AnswerLines)]
    /\ MaxRpdChanges \in Nat /\ MaxDays \in Nat

VARIABLES
    prompt,         \* per request: its step and what the handler knows of it
    usage,          \* rows of usage: their day and the lines they come from
    traces,         \* rows of traces: the session's, and those of requests without one
    maxRpd,         \* the row of workspace_quotas, and how often it changed
    today,
    unwritten       \* history: requests for which a write to the database failed

rpdRow == <<maxRpd, today>>
rowVars == <<usage, traces, unwritten>>
llmVars == <<prompt, usage, traces, maxRpd, today, unwritten>>

NoPromptYet ==
    [pc |-> "idle", api |-> "none", metered |-> FALSE, stream |-> FALSE, ms |-> FALSE,
     limit |-> 0, before |-> {}, day |-> 0, trace |-> Session,
     sent |-> 0, from |-> 0, heard |-> {}, completed |-> FALSE]

LlmInit ==
    /\ prompt = [p \in Prompts |-> NoPromptYet]
    /\ usage = [p \in Prompts |-> NoRow]
    /\ traces = {}
    /\ maxRpd = [max |-> NoLimit, changes |-> 0]
    /\ today = 1
    /\ unwritten = {}

PromptAt(p, pc) == prompt[p].pc = pc
PromptGoes(p, pc) == prompt' = [prompt EXCEPT ![p].pc = pc]

\* A request that is over keeps what its row must agree with.
PromptOver(p, q) ==
    prompt' = [prompt EXCEPT ![p] =
        [NoPromptYet EXCEPT !.pc = "over", !.api = q.api, !.metered = q.metered,
                            !.sent = q.sent, !.completed = q.completed]]
TurnAway(p) == PromptOver(p, NoPromptYet)

\* Where a request goes whose quota is settled.
AfterQuota(q) == IF q.metered THEN "trace" ELSE IF q.ms THEN "token" ELSE "forward"

-----------------------------------------------------------------------------
(* The handlers of the three APIs, up to the provider *)

\* The token is validated, unless agentserver fails, does not know it, or says
\* that its sandbox does not run. Whether the workspace has a connection to the
\* model server is found there too; an error in looking for it counts as none.
\* Only the generating endpoints are metered, and of OpenAI's none.
Validated(p, api, metered, stream) ==
    \E found \in BOOLEAN :
      LET q == [NoPromptYet EXCEPT !.api = api, !.metered = metered, !.stream = stream,
                  !.ms = found] IN
      IF \/ api = "openai" /\ ~found
         \/ api = "gemini" /\ ~found /\ ~HasGeminiKey
      THEN TurnAway(p)
      ELSE prompt' = [prompt EXCEPT ![p] =
             IF metered /\ ~found
             THEN [q EXCEPT !.pc = "quota", !.before = {r \in Prompts : usage[r] # NoRow}]
             ELSE [q EXCEPT !.pc = AfterQuota(q)]]

HandleProxy(p, api, metered, stream) ==
    /\ PromptAt(p, "idle")
    /\ TurnAway(p) \/ Validated(p, api, metered, stream)
    /\ UNCHANGED <<rowVars, rpdRow>>

HandleAnthropicProxy(p) ==
    \E metered \in BOOLEAN : \E stream \in {FALSE, metered} :
        HandleProxy(p, "anthropic", metered, stream)
HandleGeminiProxy(p) ==
    \E metered \in BOOLEAN : \E stream \in {FALSE, metered} :
        HandleProxy(p, "gemini", metered, stream)
HandleOpenAIProxy(p) == HandleProxy(p, "openai", FALSE, FALSE)

\* checkRPD reads the limit: the default when there is no row, when its limit is
\* null, and when the query fails. Zero lets every request through.
ReadMaxRPD(p) ==
    /\ PromptAt(p, "quota")
    /\ \E max \in {DefaultMaxRPD, IF maxRpd.max = NoLimit THEN DefaultMaxRPD ELSE maxRpd.max} :
         prompt' = [prompt EXCEPT ![p].limit = max,
                                  ![p].pc = IF max = 0 THEN "trace" ELSE "count"]
    /\ UNCHANGED <<rowVars, rpdRow>>

CountToday == Cardinality({q \in Prompts : usage[q] # NoRow /\ usage[q].day = today})

\* Mutant: the comparison off by one.
CountTodayRequestsLate(p) ==
    /\ PromptAt(p, "count")
    /\ IF CountToday > prompt[p].limit THEN TurnAway(p)
       ELSE prompt' = [prompt EXCEPT ![p].pc = "trace", ![p].day = today]
    /\ UNCHANGED <<rowVars, rpdRow>>

\* ... and then counts the rows of the day. A count that fails lets the request
\* through.
CountTodayRequests(p) ==
    /\ PromptAt(p, "count")
    /\ \/ IF CountToday >= prompt[p].limit THEN TurnAway(p)
          ELSE prompt' = [prompt EXCEPT ![p].pc = "trace", ![p].day = today]
       \/ PromptGoes(p, "trace")
    /\ UNCHANGED <<rowVars, rpdRow>>

\* The body is read (one that is too large is refused) and the trace created; an
\* error there is only logged.
GetOrCreateTrace(p) ==
    /\ PromptAt(p, "trace")
    /\ \/ TurnAway(p) /\ UNCHANGED rowVars
       \/ \E t \in {Session, p} :
            /\ prompt' = [prompt EXCEPT ![p] = [@ EXCEPT
                 !.pc = IF prompt[p].ms THEN "token" ELSE "forward",
                 !.limit = 0, !.before = {}, !.day = 0, !.trace = t]]
            /\ \/ traces' = traces \cup {t} /\ UNCHANGED <<usage, unwritten>>
               \/ unwritten' = unwritten \cup {p} /\ UNCHANGED <<usage, traces>>
    /\ UNCHANGED rpdRow

-----------------------------------------------------------------------------
(* The answer *)

\* Without a token of the model server the request ends; a token is as good as it
\* is in ModelserverTokens.
AwaitModelserverToken(p) ==
    /\ PromptAt(p, "token")
    /\ TurnAway(p) \/ PromptGoes(p, "forward")
    /\ UNCHANGED <<rowVars, rpdRow>>

\* The lines of which n thirds have all the text.
Said(n) == {k \in 1..AnswerLines : 3 * k - 1 <= n}

\* Of Anthropic's lines each says something of its own; of Gemini's the last one
\* says it all.
Usage(api, heard) ==
    IF api = "anthropic" \/ heard = {} THEN heard ELSE {Max(heard)}

\* recordUsage: the row refers to the trace, so it needs that to be there.
RecordUsage(p, heard) ==
    \/ /\ prompt[p].trace \in traces
       /\ usage' = [usage EXCEPT ![p] =
            [day |-> today, says |-> Usage(prompt[p].api, heard)]]
       /\ UNCHANGED <<traces, unwritten>>
    \/ unwritten' = unwritten \cup {p} /\ UNCHANGED <<usage, traces>>

\* An answer of an endpoint that is not metered passes as it comes, and so does
\* one that is no success. An answer in one piece is read to its end first; if it
\* breaks off or cannot be parsed there is no usage.
ServeWhole(p) ==
    /\ PromptAt(p, "forward")
    /\ \/ PromptOver(p, [prompt[p] EXCEPT !.metered = FALSE]) /\ UNCHANGED rowVars
       \/ /\ prompt[p].metered /\ ~prompt[p].stream
          /\ PromptOver(p, [prompt[p] EXCEPT !.sent = 3 * AnswerLines, !.completed = TRUE])
          /\ RecordUsage(p, 1..AnswerLines)
    /\ UNCHANGED rpdRow

InterceptStreaming(p) ==
    /\ PromptAt(p, "forward") /\ prompt[p].metered /\ prompt[p].stream
    /\ PromptGoes(p, "stream")
    /\ UNCHANGED <<rowVars, rpdRow>>

\* parseLine of what the buffer holds up to n: a line is understood if it is there
\* from its beginning, and whole.
Parsed(q, n) ==
    {k \in 1..AnswerLines : /\ q.from <= 3 * k - 3
                            /\ 3 * k - 1 <= n}
LineEnd(n) == 3 * (n \div 3)

\* Mutant: what is left of an incomplete line is not put back into the buffer.
ReadDropping(p) ==
    /\ PromptAt(p, "stream")
    /\ \E n \in (prompt[p].sent + 1)..(3 * AnswerLines) :
         prompt' = [prompt EXCEPT ![p].sent = n, ![p].from = n,
                      ![p].heard = @ \cup Parsed(prompt[p], LineEnd(n))]
    /\ UNCHANGED <<rowVars, rpdRow>>

\* Read passes a chunk on; processLines parses the lines that are complete and
\* puts the rest back.
Read(p) ==
    /\ PromptAt(p, "stream")
    /\ \E n \in (prompt[p].sent + 1)..(3 * AnswerLines) :
         prompt' = [prompt EXCEPT ![p].sent = n, ![p].from = LineEnd(n),
                      ![p].heard = @ \cup Parsed(prompt[p], LineEnd(n))]
    /\ UNCHANGED <<rowVars, rpdRow>>

\* Mutant: what is in the buffer at the end is not parsed.
FlushNothing(q) == q

FlushRemaining(q) ==
    [q EXCEPT !.heard = @ \cup Parsed(q, q.sent), !.from = q.sent]

\* Once; Anthropic's needs to have heard the model's name, which is in the first
\* line.
Finish(p, q) ==
    IF q.completed \/ (q.api = "anthropic" /\ 1 \notin q.heard) THEN UNCHANGED rowVars
    ELSE RecordUsage(p, q.heard)

\* The stream ends: Read sees the end, or the client has gone or the connection
\* broken, which only Close sees.
ReadEOF(p) ==
    LET q == FlushRemaining(prompt[p]) IN
    /\ PromptAt(p, "stream") /\ ~prompt[p].completed
    /\ prompt' = [prompt EXCEPT ![p] = [q EXCEPT !.completed = TRUE, !.pc = "close"]]
    /\ Finish(p, q)
    /\ UNCHANGED rpdRow

CloseStream(p) ==
    LET q == FlushRemaining(prompt[p]) IN
    /\ prompt[p].pc \in {"stream", "close"}
    /\ PromptOver(p, [q EXCEPT !.completed = TRUE])
    /\ Finish(p, q)
    /\ UNCHANGED rpdRow

-----------------------------------------------------------------------------
(* Administrators and time *)

RpdChanges(max) ==
    /\ maxRpd.changes < MaxRpdChanges /\ max # maxRpd.max
    /\ maxRpd' = [max |-> max, changes |-> maxRpd.changes + 1]
    /\ UNCHANGED <<prompt, rowVars, today>>

\* A limit, or an explicit null, which is the default again.
SetWorkspaceQuota == \E max \in RpdLimits \cup {NoLimit} : RpdChanges(max)
DeleteWorkspaceQuota == RpdChanges(NoLimit)

NewDay ==
    /\ today < MaxDays
    /\ today' = today + 1
    /\ UNCHANGED <<prompt, rowVars, maxRpd>>

LlmNext ==
    \/ \E p \in Prompts :
         \/ HandleAnthropicProxy(p) \/ HandleGeminiProxy(p) \/ HandleOpenAIProxy(p)
         \/ ReadMaxRPD(p) \/ CountTodayRequests(p) \/ GetOrCreateTrace(p)
         \/ AwaitModelserverToken(p) \/ ServeWhole(p) \/ InterceptStreaming(p)
         \/ Read(p) \/ ReadEOF(p) \/ CloseStream(p)
    \/ SetWorkspaceQuota \/ DeleteWorkspaceQuota \/ NewDay

LlmSpec == LlmInit /\ [][LlmNext]_llmVars

-----------------------------------------------------------------------------
(* Properties *)

LlmTypeOK ==
    /\ \A p \in Prompts :
         /\ prompt[p].pc \in {"idle", "quota", "count", "trace", "token",
                              "forward", "stream", "close", "over"}
         /\ prompt[p].limit \in RpdLimits \cup {0, DefaultMaxRPD}
         /\ prompt[p].from <= prompt[p].sent /\ prompt[p].sent \in 0..(3 * AnswerLines)
         /\ prompt[p].heard \subseteq 1..AnswerLines
         /\ usage[p] # NoRow => usage[p].day \in 1..today
    /\ traces \subseteq Prompts \cup {Session} /\ unwritten \subseteq Prompts
    /\ maxRpd.max \in RpdLimits \cup {NoLimit}

\* A request that is counted and let through found fewer requests of its day than
\* its limit, among those that were over when it came: requests one after the
\* other never exceed the limit.
QuotaKept ==
    \A p \in Prompts : prompt[p].day > 0 =>
        Cardinality({q \in prompt[p].before : usage[q].day = prompt[p].day}) < prompt[p].limit

\* The row of a request says what the lines of its answer said that were received
\* whole, wherever the chunks ended and however the stream did; it is missing only
\* if the database failed, or if the answer never said which model it is of.
UsageExact ==
    \A p \in Prompts :
        LET whole == Said(prompt[p].sent) IN
        /\ usage[p] # NoRow => usage[p].says = Usage(prompt[p].api, whole)
        /\ /\ PromptAt(p, "over") /\ prompt[p].metered /\ prompt[p].completed
           /\ prompt[p].api = "anthropic" => 1 \in whole
           => usage[p] # NoRow \/ p \in unwritten

LlmSound == QuotaKept /\ UsageExact
=============================================================================
