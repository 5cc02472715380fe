---------------------------- MODULE AgentTasks -----------------------------
(***************************************************************************)
(* What one agent is asked to do by others: the tasks delegated to it      *)
(* (agent_tasks) and the messages of its mailbox (agent_mailbox). Both are *)
(* rows that a request of the agent takes; an answer may be lost, and the  *)
(* updates of a task's status come from the agent and from who cancels it. *)
(***************************************************************************)
EXTENDS Naturals, FiniteSets

CONSTANTS
    Tasks, Letters,  \* tasks delegated and messages sent to the agent
    Polls,           \* requests of the agent, each one poll or read of the inbox
    Cancels          \* requests to cancel a task, made by others

\* Rows of two tables.
ASSUME TasksAssumption == Tasks \cap Letters = {}

VARIABLES
    task,     \* status of each task; "none" before it is created
    letter,   \* per message: "none", "unread" or "read"
    poll,     \* per poll: step, and what it has taken
    cancel,   \* per cancellation: step and task
    agent     \* per task: what the agent does with it

taskVars == <<task, letter, poll, cancel, agent>>

Finished == {"completed", "failed", "cancelled"}
PollLimit == 5     \* handlePollTasks
InboxLimit == 10   \* handleReadInbox, unless the request names another

TasksInit ==
    /\ task = [t \in Tasks |-> "none"] /\ agent = [t \in Tasks |-> "unaware"]
    /\ letter = [l \in Letters |-> "none"]
    /\ poll = [p \in Polls |-> [pc |-> "none", got |-> {}]]
    /\ cancel \in [Cancels -> {[pc |-> "none", of |-> t] : t \in Tasks}]

-----------------------------------------------------------------------------
\* handleCreateTaskForWorkspace, its target being the agent's sandbox.
CreateAgentTask(t) ==
    /\ task[t] = "none"
    /\ task' = [task EXCEPT ![t] = "pending"]
    /\ UNCHANGED <<letter, poll, cancel, agent>>

SendMessage(l) ==
    /\ letter[l] = "none"
    /\ letter' = [letter EXCEPT ![l] = "unread"]
    /\ UNCHANGED <<task, poll, cancel, agent>>

Batch(rows, limit) ==
    {b \in SUBSET rows : \/ b = rows /\ Cardinality(b) <= limit
                         \/ Cardinality(b) = limit}

Take(p, got) ==
    /\ poll[p].pc = "none"
    /\ poll' = [poll EXCEPT ![p] = [pc |-> "answer", got |-> got]]

\* Mutants: rows that are read and not marked.
PeekTasks(p) ==
    /\ \E b \in Batch({t \in Tasks : task[t] = "pending"}, PollLimit) : Take(p, b)
    /\ UNCHANGED <<task, letter, cancel, agent>>

\* handlePollTasks: the statement selects the rows and marks them.
ListPendingAgentTasks(p) ==
    /\ \E b \in Batch({t \in Tasks : task[t] = "pending"}, PollLimit) :
          /\ Take(p, b)
          /\ task' = [t \in Tasks |-> IF t \in b THEN "assigned" ELSE task[t]]
    /\ UNCHANGED <<letter, cancel, agent>>

ReadInbox(p) ==
    /\ \E b \in Batch({l \in Letters : letter[l] = "unread"}, InboxLimit) :
          /\ Take(p, b)
          /\ letter' = [l \in Letters |-> IF l \in b THEN "read" ELSE letter[l]]
    /\ UNCHANGED <<task, cancel, agent>>

AnswerPoll(p) ==
    /\ poll[p].pc = "answer"
    /\ poll' = [poll EXCEPT ![p].pc = "answered"]
    /\ agent' = [t \in Tasks |-> IF t \in poll[p].got THEN "working" ELSE agent[t]]
    /\ UNCHANGED <<task, letter, cancel>>

\* The agent is gone before the answer: nothing gives the rows back.
AnswerLost(p) ==
    /\ poll[p].pc = "answer"
    /\ poll' = [poll EXCEPT ![p].pc = "lost"]
    /\ UNCHANGED <<task, letter, cancel, agent>>

\* handleUpdateTaskStatus takes any of its statuses in any state of the task.
UpdateTaskStatus(t) ==
    /\ agent[t] = "working"
    /\ \E status \in {"running"} \cup Finished :
          /\ task' = [task EXCEPT ![t] = status]
          /\ agent' = [agent EXCEPT
                         ![t] = IF status \in Finished THEN "over" ELSE "working"]
    /\ UNCHANGED <<letter, poll, cancel>>

\* handleCancelTask reads the status and, unless the task is finished, writes.
ReadForCancel(c) ==
    /\ cancel[c].pc = "none" /\ task[cancel[c].of] # "none"
    /\ cancel' = [cancel EXCEPT ![c].pc =
                    IF task[cancel[c].of] \in Finished THEN "refused" ELSE "write"]
    /\ UNCHANGED <<task, letter, poll, agent>>

WriteCancel(c) ==
    /\ cancel[c].pc = "write"
    /\ task' = [task EXCEPT ![cancel[c].of] = "cancelled"]
    /\ cancel' = [cancel EXCEPT ![c].pc = "done"]
    /\ UNCHANGED <<letter, poll, agent>>

TasksNext ==
    \/ \E t \in Tasks : CreateAgentTask(t) \/ UpdateTaskStatus(t)
    \/ \E l \in Letters : SendMessage(l)
    \/ \E p \in Polls : \/ ListPendingAgentTasks(p) \/ ReadInbox(p)
                        \/ AnswerPoll(p) \/ AnswerLost(p)
    \/ \E c \in Cancels : ReadForCancel(c) \/ WriteCancel(c)

TasksSpec == TasksInit /\ [][TasksNext]_taskVars

-----------------------------------------------------------------------------
(* Properties *)

TasksTypeOK ==
    /\ task \in [Tasks -> {"none", "pending", "assigned", "running"} \cup Finished]
    /\ letter \in [Letters -> {"none", "unread", "read"}]
    /\ poll \in [Polls -> [pc : {"none", "answer", "answered", "lost"},
                           got : SUBSET (Tasks \cup Letters)]]
    /\ cancel \in [Cancels -> [pc : {"none", "write", "done", "refused"}, of : Tasks]]
    /\ agent \in [Tasks -> {"unaware", "working", "over"}]

\* However polls, cancellations and updates interleave, a task or a message is
\* taken by one poll at most, and one taken is never offered again (the
\* statements of ListPendingAgentTasksByTarget and ReadInbox).
TakenOnce ==
    /\ \A p, q \in Polls : p # q => poll[p].got \cap poll[q].got = {}
    /\ \A p \in Polls : \A t \in poll[p].got \cap Tasks : task[t] # "pending"
=============================================================================
