------------------------- MODULE MesosStreamParsers -------------------------
(***************************************************************************)
(* The reducers of src/js/stores/MesosStream/parsers: what one message of  *)
(* the master's event stream makes of the state MesosStateStore keeps.     *)
(*                                                                         *)
(* Agents, frameworks and tasks are kept in arrays, so here in sequences   *)
(* of records.  Executors are replaced whole by a snapshot and never       *)
(* updated; they, and the fields no later message or lookup depends on,    *)
(* are left out.                                                           *)
(***************************************************************************)
EXTENDS Naturals, Sequences, SequencesExt, FiniteSetsExt, Subsequences

MapSeq(f(_), s) == [i \in DOMAIN s |-> f(s[i])]

\* What is left of a list when every entry of that id is filtered out.
WithoutId(list, id) == Subsequence(list, {i \in DOMAIN list : list[i].id # id})

\* { ...first, ...second }: of a field both have, the second one counts.
Spread(first, second) ==
    [k \in DOMAIN first \cup DOMAIN second |->
       IF k \in DOMAIN second THEN second[k] ELSE first[k]]

Without(record, field) == [k \in DOMAIN record \ {field} |-> record[k]]

\* getLastMesosState: what a state lacks is empty.
EmptyState == [slaves |-> <<>>, frameworks |-> <<>>, tasks |-> <<>>]

----------------------------------------------------------------------------
\* An agent's info is lifted to its top level; recovered agents are nothing
\* but their info already.
processAgent(m) ==
    IF "agent_info" \in DOMAIN m THEN Spread(m.agent_info, Without(m, "agent_info"))
    ELSE m

getAgentsAction(state, groups) ==
    [state EXCEPT !.slaves = MapSeq(processAgent, FlattenSeq(groups))]

agentAddedAction(state, m) ==
    [state EXCEPT !.slaves = Append(@, processAgent(m.agent))]

agentRemovedAction(state, m) ==
    [state EXCEPT !.slaves = WithoutId(@, m.agent_id)]

----------------------------------------------------------------------------
processFramework(m) == Spread(m.framework_info, Without(m, "framework_info"))

getFrameworksAction(state, groups) ==
    [state EXCEPT !.frameworks = MapSeq(processFramework, FlattenSeq(groups))]

frameworkAddedAction(state, m) ==
    [state EXCEPT !.frameworks = Append(@, processFramework(m.framework))]

\* Mutation: the updated framework is added to the others.
frameworkUpdatedAction_Appends(state, m) ==
    [state EXCEPT !.frameworks = Append(@, processFramework(m.framework))]

frameworkUpdatedAction(state, m) ==
    LET updated == processFramework(m.framework)
    IN  [state EXCEPT !.frameworks =
           MapSeq(LAMBDA f : IF f.id = updated.id THEN updated ELSE f, @)]

frameworkRemovedAction(state, m) ==
    [state EXCEPT !.frameworks = WithoutId(@, m.framework_info.id)]

----------------------------------------------------------------------------
\* getMarathonId === the task's framework: the first framework of that name
\* in the array is the one.
isStartedByMarathon(frameworks, task) ==
    LET named == {i \in DOMAIN frameworks : frameworks[i].name = "marathon"}
        marathons == Subsequence(frameworks, named)
    IN  marathons # <<>> /\ marathons[1].id = task.framework_id

processTask(frameworks, task) ==
    Spread(task, [isStartedByMarathon |-> isStartedByMarathon(frameworks, task)])

\* The flag is computed once, from the frameworks known by then.
getTasksAction(state, groups) ==
    [state EXCEPT !.tasks =
       MapSeq(LAMBDA task : processTask(state.frameworks, task), FlattenSeq(groups))]

taskAddedAction(state, m) ==
    [state EXCEPT !.tasks = Append(@, processTask(state.frameworks, m.task))]

taskUpdatedAction(state, m) ==
    [state EXCEPT !.tasks =
       MapSeq(LAMBDA t : IF t.id = m.task_id THEN [t EXCEPT !.state = m.state] ELSE t, @)]

----------------------------------------------------------------------------
\* Mutation: the tasks are read before the frameworks are known.
getStateAction_TasksFirst(state, m) ==
    LET tasks == getTasksAction(state, m.get_tasks)
        frameworks == getFrameworksAction(tasks, m.get_frameworks)
    IN  getAgentsAction(frameworks, m.get_agents)

\* The parts of a snapshot one by one: tasks after the frameworks they need,
\* agents if it has them.
getStateAction(state, m) ==
    LET frameworks == getFrameworksAction(state, m.get_frameworks)
        tasks == getTasksAction(frameworks, m.get_tasks)
    IN  IF "get_agents" \in DOMAIN m THEN getAgentsAction(tasks, m.get_agents) ELSE tasks

\* A SUBSCRIBED starts from nothing: it replaces whatever was known.
subscribedAction(m) == getStateAction(EmptyState, m)

\* The pipe of all parsers: each acts on its type of message only.
parsers(state, m) ==
    CASE m.type = "SUBSCRIBED" -> subscribedAction(m)
      [] m.type = "AGENT_ADDED" -> agentAddedAction(state, m)
      [] m.type = "AGENT_REMOVED" -> agentRemovedAction(state, m)
      [] m.type = "FRAMEWORK_ADDED" -> frameworkAddedAction(state, m)
      [] m.type = "FRAMEWORK_UPDATED" -> frameworkUpdatedAction(state, m)
      [] m.type = "FRAMEWORK_REMOVED" -> frameworkRemovedAction(state, m)
      [] m.type = "TASK_ADDED" -> taskAddedAction(state, m)
      [] m.type = "TASK_UPDATED" -> taskUpdatedAction(state, m)
      [] OTHER -> state
=============================================================================
