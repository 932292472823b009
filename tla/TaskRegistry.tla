---------------------------- MODULE TaskRegistry ----------------------------
(***************************************************************************)
(* The registry of background tasks of one Open WebUI process without      *)
(* Redis (backend/open_webui/tasks.py): chat completions and debounced     *)
(* note saves are started with create_task, and stopped by id (stop_task)  *)
(* or by the chat or document they belong to (stop_item_tasks).            *)
(*                                                                         *)
(* Everything runs on one asyncio event loop: between two awaits a         *)
(* coroutine is atomic, and what asyncio schedules (done callbacks, the    *)
(* cleanup coroutine they start, the wake-up of an awaiting coroutine)     *)
(* runs in the order it was scheduled.  `ready' is that queue, restricted  *)
(* to the handles of this component; the end of a task and the arrival of  *)
(* a request are events of the environment and may fall between any two.   *)
(***************************************************************************)
EXTENDS Naturals, Sequences

CONSTANTS Tasks,     \* the task ids uuid4() may return
          Items,     \* chat ids and document ids
          Stoppers,  \* coroutines that call stop_task or stop_item_tasks
          NoList,    \* item_tasks has no entry for the item
          NoTask     \* the coroutine awaits no task

ASSUME NoListAssumption == NoList \notin Tasks
ASSUME NoTaskAssumption == NoTask \notin Tasks

VARIABLES
    state,       \* [Tasks -> TaskStates], the asyncio.Task behind each id
    item,        \* [Tasks -> Items], the `id' create_task was given
    tasks,       \* SUBSET Tasks, the keys of the dict `tasks'
    item_tasks,  \* [Items -> Tasks \cup {NoList}], a REFERENCE to a list
    lists,       \* [Tasks -> Seq(Tasks)], the list objects; a list is named
                 \*   by the task whose create_task made it
    ready,       \* Seq(Handle), the event loop's queue
    stop         \* [Stoppers -> StopCall]

vars == <<state, item, tasks, item_tasks, lists, ready, stop>>

TaskStates == {"unborn", "running", "cancelling",
               "returned", "cancelled", "raised"}
OverStates == {"returned", "cancelled", "raised"}
Over(t) == state[t] \in OverStates
Live(t) == state[t] \in {"running", "cancelling"}

Handle == [kind : {"callback", "cleanup"}, task : Tasks]
             \cup [kind : {"wake"}, stopper : Stoppers]

\* A call in progress: `list' is the list object stop_item_tasks iterates
\* (NoList for a plain stop_task), `pos' the next index of its iterator.
StopCall == [pc     : {"idle", "awaiting", "returned"},
             list   : Tasks \cup {NoList},
             pos    : Nat,
             task   : Tasks \cup {NoTask},
             asked  : SUBSET Tasks,
             result : {"none", "empty", "stopped", "notfound", "raised"}]

Idle == [pc |-> "idle", list |-> NoList, pos |-> 1, task |-> NoTask,
         asked |-> {}, result |-> "none"]

Elements(l) == {l[i] : i \in DOMAIN l}

\* The tasks list_task_ids_by_item_id finds for an item.
Listed(i) == IF item_tasks[i] = NoList THEN {}
             ELSE Elements(lists[item_tasks[i]])

\* Deviation: the entry is blanked, not removed.
WithoutTask_Blanked(l, t) == [j \in DOMAIN l |-> IF l[j] = t THEN NoTask ELSE l[j]]

\* list.remove(t), for a list that holds t
WithoutTask(l, t) ==
    LET k == CHOOSE j \in DOMAIN l : l[j] = t
    IN  [j \in 1 .. (Len(l) - 1) |-> IF j < k THEN l[j] ELSE l[j + 1]]

-----------------------------------------------------------------------------
Init == /\ state = [t \in Tasks |-> "unborn"]
        /\ item \in [Tasks -> Items]
        /\ tasks = {}
        /\ item_tasks = [i \in Items |-> NoList]
        /\ lists = [t \in Tasks |-> <<>>]
        /\ ready = <<>>
        /\ stop = [s \in Stoppers |-> Idle]

\* Deviation: every task opens a list of its own.
CreateTask_NewList(t) ==
    /\ state[t] = "unborn"
    /\ state' = [state EXCEPT ![t] = "running"]
    /\ tasks' = tasks \cup {t}
    /\ lists' = [lists EXCEPT ![t] = <<t>>]
    /\ item_tasks' = [item_tasks EXCEPT ![item[t]] = t]
    /\ UNCHANGED <<item, ready, stop>>

\* create_task: the task joins the item's list, or opens a new list.
CreateTask(t) ==
    LET i == item[t] IN
    /\ state[t] = "unborn"
    /\ state' = [state EXCEPT ![t] = "running"]
    /\ tasks' = tasks \cup {t}
    /\ IF Listed(i) # {}
       THEN /\ lists' = [lists EXCEPT ![item_tasks[i]] = Append(@, t)]
            /\ UNCHANGED item_tasks
       ELSE /\ lists' = [lists EXCEPT ![t] = <<t>>]
            /\ item_tasks' = [item_tasks EXCEPT ![i] = t]
    /\ UNCHANGED <<item, ready, stop>>

\* The coroutine ends.  asyncio schedules the callbacks of the task in the
\* order they were added: create_task's first, then the wake-up of the
\* coroutine that awaits it.
Awaits(s, t) == stop[s].pc = "awaiting" /\ stop[s].task = t

Finish(t, outcome) ==
    /\ \/ state[t] = "running"    /\ outcome \in {"returned", "raised"}
       \/ state[t] = "cancelling" /\ outcome \in OverStates
    /\ state' = [state EXCEPT ![t] = outcome]
    /\ \/ /\ \A s \in Stoppers : ~Awaits(s, t)
          /\ ready' = Append(ready, [kind |-> "callback", task |-> t])
       \/ \E s \in Stoppers :
            /\ Awaits(s, t)
            /\ ready' = ready \o <<[kind |-> "callback", task |-> t],
                                   [kind |-> "wake", stopper |-> s]>>
    /\ UNCHANGED <<item, tasks, item_tasks, lists, stop>>

-----------------------------------------------------------------------------
\* What a stopping coroutine does until it suspends or returns.

Return(s, answer, call) ==
    stop' = [stop EXCEPT ![s] = [call EXCEPT !.pc = "returned",
                                             !.task = NoTask,
                                             !.result = answer]]

\* Deviations: the end of the task is not awaited; the task is not cancelled.
Suspend_NoAwait(s, t, call) ==
    state' = [state EXCEPT ![t] = "cancelling"] /\ Return(s, "stopped", call)

Suspend_NoCancel(s, t, call) ==
    /\ UNCHANGED state
    /\ stop' = [stop EXCEPT ![s] = [call EXCEPT !.pc = "awaiting", !.task = t]]

\* stop_task(t), up to its await: pop the entry, then cancel and await the
\* task.  Awaiting a task that is over does not suspend.
Suspend(s, t, call) ==
    /\ state' = [state EXCEPT ![t] = "cancelling"]
    /\ stop' = [stop EXCEPT ![s] = [call EXCEPT !.pc = "awaiting", !.task = t]]

\* The loop of stop_item_tasks from index `call.pos' on.  Tasks that are over
\* but still registered are popped without suspending; the loop stops at the
\* first index where it must suspend or fail.
Passed(t) == t \in tasks /\ state[t] \in {"returned", "cancelled"}

Loop(s, call) ==
    LET l == lists[call.list]
        rest == call.pos .. Len(l)
        blocking == {k \in rest : ~Passed(l[k])}
        First(k) == k \in blocking /\ \A j \in blocking : k <= j
    IN  \/ /\ blocking = {}
           /\ tasks' = tasks \ {l[k] : k \in rest}
           /\ Return(s, "stopped", call)
           /\ UNCHANGED state
        \/ \E k \in rest :
             /\ First(k)
             /\ LET t == l[k]
                    popped == {l[j] : j \in call.pos .. (k - 1)}
                IN  \/ /\ t \notin tasks
                       /\ tasks' = tasks \ popped
                       /\ Return(s, "notfound", call)
                       /\ UNCHANGED state
                    \/ /\ t \in tasks /\ state[t] = "raised"
                       /\ tasks' = tasks \ (popped \cup {t})
                       /\ Return(s, "raised", call)
                       /\ UNCHANGED state
                    \/ /\ t \in tasks /\ Live(t)
                       /\ tasks' = tasks \ (popped \cup {t})
                       /\ Suspend(s, t, [call EXCEPT !.pos = k + 1])

\* Deviation: tasks.get instead of tasks.pop.
StopTask_Get(s, t) ==
    LET call == [Idle EXCEPT !.asked = {t}] IN
    /\ stop[s].pc = "idle" /\ state[t] # "unborn"
    /\ IF t \in tasks /\ Live(t)
       THEN Suspend(s, t, call)
       ELSE Return(s, "notfound", call) /\ UNCHANGED state
    /\ UNCHANGED <<item, tasks, item_tasks, lists, ready>>

\* stop_task called with a task id (the endpoint of main.py).
StopTask(s, t) ==
    LET call == [Idle EXCEPT !.asked = {t}] IN
    /\ stop[s].pc = "idle"
    /\ state[t] # "unborn"
    /\ tasks' = tasks \ {t}
    /\ \/ /\ t \notin tasks
          /\ Return(s, "notfound", call)
          /\ UNCHANGED state
       \/ /\ t \in tasks /\ Over(t)
          /\ Return(s, IF state[t] = "raised" THEN "raised" ELSE "stopped", call)
          /\ UNCHANGED state
       \/ /\ t \in tasks /\ Live(t)
          /\ Suspend(s, t, call)
    /\ UNCHANGED <<item, item_tasks, lists, ready>>

\* stop_item_tasks: iterates the list object itself, not a copy of it.
StopItemTasks(s, i) ==
    /\ stop[s].pc = "idle"
    /\ \/ /\ item_tasks[i] = NoList
          /\ Return(s, "empty", Idle)
          /\ UNCHANGED <<state, tasks>>
       \/ /\ item_tasks[i] # NoList
          /\ Loop(s, [Idle EXCEPT !.list = item_tasks[i], !.asked = Listed(i)])
    /\ UNCHANGED <<item, item_tasks, lists, ready>>

-----------------------------------------------------------------------------
\* The handles of the event loop, in the order they were scheduled.

RunHandle(h) == ready # <<>> /\ Head(ready) = h

\* The done callback starts cleanup_task as a task of its own.
DoneCallback(t) ==
    /\ RunHandle([kind |-> "callback", task |-> t])
    /\ ready' = Append(Tail(ready), [kind |-> "cleanup", task |-> t])
    /\ UNCHANGED <<state, item, tasks, item_tasks, lists, stop>>

\* Deviations: the cleanup forgets the dict `tasks', or the item's list.
CleanupTask_KeepsTask(t) ==
    /\ RunHandle([kind |-> "cleanup", task |-> t])
    /\ ready' = Tail(ready)
    /\ UNCHANGED <<state, item, tasks, item_tasks, lists, stop>>

CleanupTask_KeepsItem(t) ==
    /\ RunHandle([kind |-> "cleanup", task |-> t])
    /\ ready' = Tail(ready)
    /\ tasks' = tasks \ {t}
    /\ UNCHANGED <<state, item, item_tasks, lists, stop>>

\* cleanup_task; an item whose list became empty loses its entry, but a
\* stopping coroutine may still hold the list.
CleanupTask(t) ==
    LET i == item[t] IN
    /\ RunHandle([kind |-> "cleanup", task |-> t])
    /\ ready' = Tail(ready)
    /\ tasks' = tasks \ {t}
    /\ IF t \in Listed(i)
       THEN /\ lists' = [lists EXCEPT ![item_tasks[i]] = WithoutTask(@, t)]
            /\ item_tasks' = IF Listed(i) = {t}
                             THEN [item_tasks EXCEPT ![i] = NoList]
                             ELSE item_tasks
       ELSE UNCHANGED <<lists, item_tasks>>
    /\ UNCHANGED <<state, item, stop>>

\* The awaited task is over: stop_task returns, and the loop goes on with the
\* next index of the list as it is now.
Wake(s) ==
    LET call == stop[s] IN
    /\ RunHandle([kind |-> "wake", stopper |-> s])
    /\ ready' = Tail(ready)
    /\ \/ /\ state[call.task] = "raised"
          /\ Return(s, "raised", call)
          /\ UNCHANGED <<state, tasks>>
       \/ /\ state[call.task] # "raised" /\ call.list = NoList
          /\ Return(s, "stopped", call)
          /\ UNCHANGED <<state, tasks>>
       \/ /\ state[call.task] # "raised" /\ call.list # NoList
          /\ Loop(s, call)
    /\ UNCHANGED <<item, item_tasks, lists>>

\* The caller has its answer and may call again.
Forget(s) ==
    /\ stop[s].pc = "returned"
    /\ stop' = [stop EXCEPT ![s] = Idle]
    /\ UNCHANGED <<state, item, tasks, item_tasks, lists, ready>>

RunReady == \/ \E t \in Tasks : DoneCallback(t) \/ CleanupTask(t)
            \/ \E s \in Stoppers : Wake(s)

Next == \/ \E t \in Tasks : CreateTask(t)
        \/ \E t \in Tasks, o \in OverStates : Finish(t, o)
        \/ \E s \in Stoppers, t \in Tasks : StopTask(s, t)
        \/ \E s \in Stoppers, i \in Items : StopItemTasks(s, i)
        \/ RunReady
        \/ \E s \in Stoppers : Forget(s)

Spec == Init /\ [][Next]_vars

\* The event loop runs what is ready, and a coroutine that was cancelled ends
\* (CancelledError is raised at its await; process_chat and debounced_save
\* let it end them).  Nothing is assumed of tasks nobody cancels.
Fairness == /\ WF_vars(RunReady)
            /\ \A t \in Tasks :
                 WF_vars(state[t] = "cancelling"
                         /\ \E o \in OverStates : Finish(t, o))

FairSpec == Spec /\ Fairness
-----------------------------------------------------------------------------
\* Properties

\* Every variable has the type its comment gives.
TypeOK == /\ state \in [Tasks -> TaskStates]
          /\ item \in [Tasks -> Items]
          /\ tasks \in SUBSET Tasks
          /\ item_tasks \in [Items -> Tasks \cup {NoList}]
          /\ lists \in [Tasks -> Seq(Tasks)]
          /\ ready \in Seq(Handle)
          /\ stop \in [Stoppers -> StopCall]

\* A task that runs and that nobody asked to stop can be found, by its id and
\* through its chat or document: the user always has a way to stop it
\* (create_task registers both before it suspends, and a cleanup removes
\* nothing of another task).
RunningIsStoppable ==
    \A t \in Tasks : state[t] = "running" => t \in tasks /\ t \in Listed(item[t])

\* The cleanup of t is under way.
CleanupPending(t) ==
    \E k \in DOMAIN ready : /\ ready[k].kind \in {"callback", "cleanup"}
                            /\ ready[k].task = t

\* No entry outlives its task: one of a task that is over is only there until
\* the event loop reaches the cleanup it has already queued.
NoStaleEntry ==
    \A t \in Tasks : (t \in tasks \/ \E i \in Items : t \in Listed(i))
                        => Live(t) \/ CleanupPending(t)

\* Whoever cancels a task awaits its end, and nobody else does: two requests
\* to stop the same task never both wait for it (the pop in stop_task decides).
CancelledHasOneStopper ==
    \A t \in Tasks : state[t] = "cancelling" =>
        \E s \in Stoppers : \A r \in Stoppers : Awaits(r, t) <=> r = s

\* What stop_task answers is true when it answers: "stopped" of a task that is
\* over, "not found" of one that is over or that another request is stopping,
\* never of one that runs on undisturbed.
StopTaskTellsTruth ==
    \A s \in Stoppers : (stop[s].pc = "returned" /\ stop[s].list = NoList) =>
        /\ stop[s].result = "stopped" => \A t \in stop[s].asked : Over(t)
        /\ stop[s].result = "notfound" =>
               \A t \in stop[s].asked : state[t] # "running"

\* With one task registered for the item, as when yjs_document_update replaces
\* the save it scheduled before, stop_item_tasks says "All tasks for item ...
\* stopped" only when that task is over.
OnlyTaskStopped ==
    \A s \in Stoppers : \A t \in Tasks :
        (stop[s].pc = "returned" /\ stop[s].result = "stopped"
            /\ stop[s].asked = {t}) => Over(t)

\* tasks.py:172-185 promises more: "Stop all tasks associated with a specific
\* item ID", and the answer is "All tasks for item ... stopped".
ItemStopStopsAll ==
    \A s \in Stoppers : (stop[s].pc = "returned" /\ stop[s].result = "stopped")
                            => \A t \in stop[s].asked : Over(t)

\* A request to stop gets its answer.
StopReturns ==
    \A s \in Stoppers : stop[s].pc = "awaiting" ~> stop[s].pc = "returned"

\* A task that is over leaves the registry for good.
OverIsForgotten ==
    \A t \in Tasks : Over(t) ~> [](t \notin tasks /\ t \notin Listed(item[t]))
=============================================================================
