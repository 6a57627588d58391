-------------------------- MODULE MesosStateReplica --------------------------
(***************************************************************************)
(* The browser's copy of the cluster state.  A Mesos master changes its    *)
(* cluster and tells its subscribers of every change; the parsers fold     *)
(* the messages into the state MesosStateStore keeps.  A message can be    *)
(* missed (module MesosStateStore says when); from then on, until the next *)
(* SUBSCRIBED, nothing is promised of the copy.                            *)
(*                                                                         *)
(* The master is external to the repository: what it may do and what it    *)
(* sends is taken from the messages the parsers read.                      *)
(***************************************************************************)
EXTENDS MesosStreamParsers

CONSTANTS
    Agents, Frameworks, Tasks,
    Marathons,                  \* the frameworks that are named "marathon"
    MaxRows,                    \* bound: entries in the copy's array of agents
    MaxMissed                   \* bound: messages missed between two SUBSCRIBED

ASSUME ReplicaAssumption ==
    Marathons \subseteq Frameworks /\ MaxRows \in Nat /\ MaxMissed \in Nat \ {0}

VARIABLES
    agents,      \* [Agents -> AgentStatus]
    frameworks,  \* [Frameworks -> FrameworkStatus]
    tasks,       \* [Tasks -> TaskStatus]
    owner,       \* [Tasks -> Frameworks \cup {Nobody}]: who launched the task
    replica,     \* the store's lastMesosState
    missed       \* history: messages missed since the last SUBSCRIBED
cluster == <<agents, frameworks, tasks, owner>>
replicaVars == <<cluster, replica, missed>>

\* Every message since the last SUBSCRIBED has arrived.
synced == missed = 0

AgentStatus == {"absent", "registered", "recovered"}
FrameworkStatus == {"unknown", "active", "inactive", "completed"}
TaskStatus == {"unborn", "TASK_STAGING", "TASK_RUNNING", "TASK_FINISHED"}
Nobody == "nobody"

Live(t) == tasks[t] \in {"TASK_STAGING", "TASK_RUNNING"}
Present(f) == frameworks[f] \in {"active", "inactive"}
nameOf(f) == IF f \in Marathons THEN "marathon" ELSE "other"

AgentMessage(a) == [agent_info |-> [id |-> a], active |-> TRUE]
FrameworkInfo(f) == [id |-> f, name |-> nameOf(f)]
FrameworkMessage(f, status) ==
    [framework_info |-> FrameworkInfo(f), active |-> status = "active"]
TaskMessage(t, f, status) == [id |-> t, framework_id |-> f, state |-> status]

\* One message of the stream: it reaches the parsers, or it is missed.
Tell(m) ==
    \/ replica' = parsers(replica, m) /\ UNCHANGED missed
    \/ missed < MaxMissed /\ missed' = missed + 1 /\ UNCHANGED replica

ReplicaInit ==
    /\ agents = [a \in Agents |-> "absent"]
    /\ frameworks = [f \in Frameworks |-> "unknown"]
    /\ tasks = [t \in Tasks |-> "unborn"]
    /\ owner = [t \in Tasks |-> Nobody]
    /\ replica = EmptyState
    /\ missed = MaxMissed

----------------------------------------------------------------------------
\* An agent is announced even if the copy has it already, as a recovered one.
AgentRegisters(a) ==
    /\ agents[a] # "registered" /\ Len(replica.slaves) < MaxRows
    /\ agents' = [agents EXCEPT ![a] = "registered"]
    /\ Tell([type |-> "AGENT_ADDED", agent |-> AgentMessage(a)])
    /\ UNCHANGED <<frameworks, tasks, owner>>

AgentIsRemoved(a) ==
    /\ agents[a] # "absent"
    /\ agents' = [agents EXCEPT ![a] = "absent"]
    /\ Tell([type |-> "AGENT_REMOVED", agent_id |-> a])
    /\ UNCHANGED <<frameworks, tasks, owner>>

\* One root Marathon at a time; one that lost its id comes back with another.
FrameworkRegisters(f) ==
    /\ frameworks[f] = "unknown"
    /\ f \in Marathons => ~ \E g \in Marathons : Present(g)
    /\ frameworks' = [frameworks EXCEPT ![f] = "active"]
    /\ Tell([type |-> "FRAMEWORK_ADDED", framework |-> FrameworkMessage(f, "active")])
    /\ UNCHANGED <<agents, tasks, owner>>

FrameworkIsUpdated(f, status) ==
    /\ Present(f) /\ status \in {"active", "inactive"} /\ status # frameworks[f]
    /\ frameworks' = [frameworks EXCEPT ![f] = status]
    /\ Tell([type |-> "FRAMEWORK_UPDATED", framework |-> FrameworkMessage(f, status)])
    /\ UNCHANGED <<agents, tasks, owner>>

FrameworkIsRemoved(f) ==
    /\ Present(f) /\ ~ \E t \in Tasks : Live(t) /\ owner[t] = f
    /\ frameworks' = [frameworks EXCEPT ![f] = "completed"]
    /\ Tell([type |-> "FRAMEWORK_REMOVED", framework_info |-> FrameworkInfo(f)])
    /\ UNCHANGED <<agents, tasks, owner>>

TaskIsAdded(t, f) ==
    /\ tasks[t] = "unborn" /\ frameworks[f] = "active"
    /\ tasks' = [tasks EXCEPT ![t] = "TASK_STAGING"]
    /\ owner' = [owner EXCEPT ![t] = f]
    /\ Tell([type |-> "TASK_ADDED", task |-> TaskMessage(t, f, "TASK_STAGING")])
    /\ UNCHANGED <<agents, frameworks>>

TaskIsUpdated(t, status) ==
    /\ Live(t) /\ status \in {"TASK_RUNNING", "TASK_FINISHED"} \ {tasks[t]}
    /\ tasks' = [tasks EXCEPT ![t] = status]
    /\ Tell([type |-> "TASK_UPDATED", task_id |-> t, state |-> status])
    /\ UNCHANGED <<agents, frameworks, owner>>

\* Another master takes over: it knows the agents from its registry only, and
\* the connection to the old one is gone.
MasterFailsOver ==
    /\ \E a \in Agents : agents[a] = "registered"
    /\ agents' = [a \in Agents |-> IF agents[a] = "absent" THEN "absent" ELSE "recovered"]
    /\ missed' = MaxMissed
    /\ UNCHANGED <<frameworks, tasks, owner, replica>>

\* The SUBSCRIBED a connection begins with.  Of finished tasks the master
\* remembers what it likes.
Snapshot(history) ==
    [type |-> "SUBSCRIBED",
     get_agents |->
        << SetToSeq({AgentMessage(a) : a \in {b \in Agents : agents[b] = "registered"}}),
           SetToSeq({[id |-> a] : a \in {b \in Agents : agents[b] = "recovered"}}) >>,
     get_frameworks |->
        << SetToSeq({FrameworkMessage(f, frameworks[f]) : f \in {g \in Frameworks : Present(g)}}),
           SetToSeq({FrameworkMessage(f, frameworks[f]) :
                        f \in {g \in Frameworks : frameworks[g] = "completed"}}) >>,
     get_tasks |->
        << SetToSeq({TaskMessage(t, owner[t], tasks[t]) : t \in {u \in Tasks : Live(u)}}),
           SetToSeq({TaskMessage(t, owner[t], tasks[t]) : t \in history}) >>]

Subscribe ==
    \E history \in SUBSET {t \in Tasks : tasks[t] = "TASK_FINISHED"} :
        /\ replica' = parsers(replica, Snapshot(history))
        /\ missed' = 0
        /\ UNCHANGED cluster

ReplicaNext ==
    \/ \E a \in Agents : AgentRegisters(a) \/ AgentIsRemoved(a)
    \/ \E f \in Frameworks : FrameworkRegisters(f) \/ FrameworkIsRemoved(f)
    \/ \E f \in Frameworks, s \in FrameworkStatus : FrameworkIsUpdated(f, s)
    \/ \E t \in Tasks, f \in Frameworks : TaskIsAdded(t, f)
    \/ \E t \in Tasks, s \in TaskStatus : TaskIsUpdated(t, s)
    \/ MasterFailsOver
    \/ Subscribe

ReplicaSpec == ReplicaInit /\ [][ReplicaNext]_replicaVars

----------------------------------------------------------------------------
Entries(list, id) == {i \in DOMAIN list : list[i].id = id}
Once(list, id) == Cardinality(Entries(list, id)) = 1

\* The agents shown are those of the cluster, the recovered ones included.
AgentsMirrored ==
    {replica.slaves[i].id : i \in DOMAIN replica.slaves}
        = {a \in Agents : agents[a] # "absent"}

\* Every framework of the cluster is shown once, as it is, and no other one is
\* shown active.
FrameworksMirrored ==
    /\ \A f \in Frameworks : Present(f) => Once(replica.frameworks, f)
    /\ \A i \in DOMAIN replica.frameworks :
         replica.frameworks[i].active <=> frameworks[replica.frameworks[i].id] = "active"

\* Every running task is shown once, and all tasks shown have the state and the
\* framework they have in the cluster.
TasksMirrored ==
    /\ \A t \in Tasks : Live(t) => Once(replica.tasks, t)
    /\ \A i \in DOMAIN replica.tasks :
         LET task == replica.tasks[i]
         IN  task.state = tasks[task.id] /\ task.framework_id = owner[task.id]

\* As long as no message is missed since the last SUBSCRIBED, the copy that the
\* parsers keep is the cluster of the master.
ClusterIsMirrored == synced => AgentsMirrored /\ FrameworksMirrored /\ TasksMirrored

\* The flag decides whether the UI offers to manage a task as a service's: it
\* is set of no other framework's task, and of a running task of the present
\* Marathon unless the copy still lists an older, completed Marathon: that one
\* is found first, and tasks added after it are not flagged until the next
\* SUBSCRIBED.
MarathonTasksFlagged ==
    LET outdated == \E f \in Marathons : frameworks[f] = "completed"
                                         /\ Entries(replica.frameworks, f) # {}
    IN  synced =>
          \A i \in DOMAIN replica.tasks :
            LET task == replica.tasks[i]
            IN  Live(task.id) =>
                  /\ task.isStartedByMarathon => task.framework_id \in Marathons
                  /\ task.framework_id \in Marathons /\ ~ outdated
                       => task.isStartedByMarathon
=============================================================================
