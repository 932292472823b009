-------------------------- MODULE TaskRegistryRedis --------------------------
(***************************************************************************)
(* The task registry of backend/open_webui/tasks.py when Redis is          *)
(* configured and several processes (instances) serve the same users.  A   *)
(* task runs on the instance that created it; its id is kept in a Redis    *)
(* hash and in a Redis set per item, and a stop request is published to    *)
(* all instances.  Every await of a Redis command is a point where other   *)
(* coroutines and other instances run: a command is one action, and        *)
(* commands on different connections are not ordered.  A pipeline is       *)
(* MULTI/EXEC, hence atomic.  (item_tasks is also written in this mode but *)
(* nobody reads it, so it is left out.)                                    *)
(***************************************************************************)
EXTENDS Naturals

CONSTANTS Tasks, Items, Instances,
          Stoppers,    \* requests that run stop_item_tasks or stop_task
          MaxFailures  \* bound on crashes, Redis errors and listener deaths

ASSUME MaxFailuresAssumption == MaxFailures \in Nat

VARIABLES
    item, home,   \* [Tasks -> Items], [Tasks -> Instances], chosen at the start
    run,          \* [Tasks -> RunStates], the asyncio task
    save,         \* [Tasks -> SaveStates], redis_save_task of its create_task
    cleanup,      \* [Tasks -> CleanupStates], its cleanup_task
    tasks,        \* SUBSET Tasks, the union of the dicts `tasks'
    hash,         \* SUBSET Tasks, REDIS_TASKS_KEY
    itemset,      \* [Items -> SUBSET Tasks], REDIS_ITEM_TASKS_KEY:item
    up,           \* SUBSET Instances
    listening,    \* SUBSET Instances whose redis_task_command_listener lives
    inbox,        \* [Instances -> SUBSET Tasks], stop commands on their way;
                  \*   commands for different tasks commute and a second one
                  \*   for the same task changes nothing, so a set will do
    at,           \* [Stoppers -> Instances] that serve them, chosen at the start
    todo,         \* [Stoppers -> SUBSET Tasks], ids a stop loop has yet to send
    aborted,      \* SUBSET Stoppers whose last loop was cut off with ids left
    failures      \* number of failures so far

redisVars == <<hash, itemset>>
stopVars  == <<at, todo, aborted>>
nodeVars  == <<up, listening, inbox, stopVars, failures>>
vars == <<item, home, run, save, cleanup, tasks, redisVars, nodeVars>>

RunStates     == {"unborn", "running", "cancelling", "over", "lost"}
SaveStates    == {"none", "pending", "saved", "late", "failed"}
CleanupStates == {"none", "started", "emptied", "removed", "done", "failed"}

Init == /\ item \in [Tasks -> Items]
        /\ home \in [Tasks -> Instances]
        /\ run = [t \in Tasks |-> "unborn"]
        /\ save = [t \in Tasks |-> "none"]
        /\ cleanup = [t \in Tasks |-> "none"]
        /\ tasks = {}
        /\ hash = {}
        /\ itemset = [i \in Items |-> {}]
        /\ up = Instances
        /\ listening = Instances
        /\ inbox = [n \in Instances |-> {}]
        /\ at \in [Stoppers -> Instances]
        /\ todo = [s \in Stoppers |-> {}]
        /\ aborted = {}
        /\ failures = 0

-----------------------------------------------------------------------------
\* Deviation: with Redis, the local dict is not filled.
CreateTask_RedisOnly(t) ==
    /\ run[t] = "unborn" /\ home[t] \in up
    /\ run' = [run EXCEPT ![t] = "running"]
    /\ save' = [save EXCEPT ![t] = "pending"]
    /\ UNCHANGED <<item, home, cleanup, tasks, redisVars, nodeVars>>

\* create_task up to its await: the coroutine is scheduled and registered
\* locally, and the Redis pipeline is on its way.
CreateTask(t) ==
    /\ run[t] = "unborn" /\ home[t] \in up
    /\ run' = [run EXCEPT ![t] = "running"]
    /\ save' = [save EXCEPT ![t] = "pending"]
    /\ tasks' = tasks \cup {t}
    /\ UNCHANGED <<item, home, cleanup, redisVars, nodeVars>>

\* Deviation: the hash is keyed by the item.
SaveTask_ByItem(t) ==
    /\ save[t] = "pending"
    /\ save' = [save EXCEPT ![t] = "saved"]
    /\ hash' = hash \cup {item[t]}
    /\ itemset' = [itemset EXCEPT ![item[t]] = @ \cup {t}]
    /\ UNCHANGED <<item, home, run, cleanup, tasks, nodeVars>>

\* redis_save_task executes in Redis, possibly after the cleanup of a task
\* that was quick ("late").
SaveTask(t) ==
    /\ save[t] = "pending"
    /\ save' = [save EXCEPT ![t] =
                   IF cleanup[t] \in {"none", "started"} THEN "saved" ELSE "late"]
    /\ hash' = hash \cup {t}
    /\ itemset' = [itemset EXCEPT ![item[t]] = @ \cup {t}]
    /\ UNCHANGED <<item, home, run, cleanup, tasks, nodeVars>>

\* The coroutine ends and its done callback starts cleanup_task.
Finish(t) ==
    /\ run[t] \in {"running", "cancelling"}
    /\ run' = [run EXCEPT ![t] = "over"]
    /\ cleanup' = [cleanup EXCEPT ![t] = "started"]
    /\ UNCHANGED <<item, home, save, tasks, redisVars, nodeVars>>

\* Deviation: hdel is forgotten.
CleanupRemove_KeepsHash(t) ==
    /\ cleanup[t] = "started"
    /\ itemset' = [itemset EXCEPT ![item[t]] = @ \ {t}]
    /\ cleanup' = [cleanup EXCEPT ![t] = "removed"]
    /\ UNCHANGED <<item, home, run, save, tasks, hash, nodeVars>>

\* Deviation: srem is forgotten.
CleanupRemove_KeepsItem(t) ==
    /\ cleanup[t] = "started"
    /\ hash' = hash \ {t}
    /\ cleanup' = [cleanup EXCEPT ![t] = "removed"]
    /\ UNCHANGED <<item, home, run, save, tasks, itemset, nodeVars>>

\* Deviation: the key of the hash is deleted, not the field.
CleanupRemove_WholeHash(t) ==
    /\ cleanup[t] = "started"
    /\ hash' = {}
    /\ itemset' = [itemset EXCEPT ![item[t]] = @ \ {t}]
    /\ cleanup' = [cleanup EXCEPT ![t] = "removed"]
    /\ UNCHANGED <<item, home, run, save, tasks, nodeVars>>

\* redis_cleanup_task, first pipeline: hdel, srem and scard in one go.
CleanupRemove(t) ==
    /\ cleanup[t] = "started"
    /\ hash' = hash \ {t}
    /\ itemset' = [itemset EXCEPT ![item[t]] = @ \ {t}]
    /\ cleanup' = [cleanup EXCEPT ![t] =
                      IF itemset'[item[t]] = {} THEN "emptied" ELSE "removed"]
    /\ UNCHANGED <<item, home, run, save, tasks, nodeVars>>

\* Second pipeline: the key of an item that was counted empty is deleted,
\* whatever it holds by now.
CleanupDelete(t) ==
    /\ cleanup[t] = "emptied"
    /\ itemset' = [itemset EXCEPT ![item[t]] = {}]
    /\ cleanup' = [cleanup EXCEPT ![t] = "removed"]
    /\ UNCHANGED <<item, home, run, save, tasks, hash, nodeVars>>

\* Deviation: the local entry is kept.
CleanupLocal_Keeps(t) ==
    /\ cleanup[t] = "removed"
    /\ cleanup' = [cleanup EXCEPT ![t] = "done"]
    /\ UNCHANGED <<item, home, run, save, tasks, redisVars, nodeVars>>

\* The rest of cleanup_task is local.
CleanupLocal(t) ==
    /\ cleanup[t] = "removed"
    /\ tasks' = tasks \ {t}
    /\ cleanup' = [cleanup EXCEPT ![t] = "done"]
    /\ UNCHANGED <<item, home, run, save, redisVars, nodeVars>>

-----------------------------------------------------------------------------
\* stop_item_tasks reads the item's set once, then publishes one command per
\* id; stop_task is the case of a single id the caller gives.
StartLoop(s, ids) ==
    /\ todo[s] = {} /\ at[s] \in up
    /\ todo' = [todo EXCEPT ![s] = ids]
    /\ aborted' = aborted \ {s}
    /\ UNCHANGED <<item, home, run, save, cleanup, tasks, redisVars,
                   up, listening, inbox, at, failures>>

StopItemTasks(s, i) == itemset[i] # {} /\ StartLoop(s, itemset[i])

StopTask(s, t) == run[t] # "unborn" /\ StartLoop(s, {t})

\* What a publish adds to the inboxes of those that listen.
Broadcast(t) == [n \in Instances |-> IF n \in listening THEN inbox[n] \cup {t}
                                                        ELSE inbox[n]]

\* Deviation: the command goes to one instance (a queue, not a channel).
Publish_OneInstance(s, t) ==
    /\ t \in todo[s]
    /\ todo' = [todo EXCEPT ![s] = @ \ {t}]
    /\ \E n \in listening :
         inbox' = [inbox EXCEPT ![n] = @ \cup {t}]
    /\ UNCHANGED <<item, home, run, save, cleanup, tasks, redisVars,
                   up, listening, at, aborted, failures>>

\* redis_send_command: every instance that listens gets the command, once.
Publish(s, t) ==
    /\ t \in todo[s]
    /\ todo' = [todo EXCEPT ![s] = @ \ {t}]
    /\ inbox' = Broadcast(t)
    /\ UNCHANGED <<item, home, run, save, cleanup, tasks, redisVars,
                   up, listening, at, aborted, failures>>

\* redis_task_command_listener: cancels the task if it is one of its own.
Listen(n, t) ==
    /\ n \in listening /\ t \in inbox[n]
    /\ inbox' = [inbox EXCEPT ![n] = @ \ {t}]
    /\ run' = IF t \in tasks /\ home[t] = n /\ run[t] = "running"
              THEN [run EXCEPT ![t] = "cancelling"] ELSE run
    /\ UNCHANGED <<item, home, save, cleanup, tasks, redisVars,
                   up, listening, stopVars, failures>>

-----------------------------------------------------------------------------
\* Failures.

Fail == failures < MaxFailures /\ failures' = failures + 1

\* The stop loops of `gone' end before their ids are all sent.
Abort(gone) ==
    /\ todo' = [s \in Stoppers |-> IF s \in gone THEN {} ELSE todo[s]]
    /\ aborted' = aborted \cup gone
    /\ UNCHANGED at

\* An instance dies with its tasks, its stop loops and what they had in flight;
\* nothing removes its entries from Redis.  It comes back with an empty registry.
Crash(n) ==
    /\ Fail /\ n \in up
    /\ up' = up \ {n}
    /\ listening' = listening \ {n}
    /\ inbox' = [inbox EXCEPT ![n] = {}]
    /\ run' = [t \in Tasks |-> IF home[t] = n /\ run[t] # "unborn"
                                  /\ cleanup[t] # "done"
                               THEN "lost" ELSE run[t]]
    /\ save' = [t \in Tasks |-> IF home[t] = n /\ save[t] = "pending"
                                THEN "failed" ELSE save[t]]
    /\ cleanup' = [t \in Tasks |->
                     IF home[t] = n /\ cleanup[t] \in {"started", "emptied", "removed"}
                     THEN "failed" ELSE cleanup[t]]
    /\ tasks' = {t \in tasks : home[t] # n}
    /\ Abort({s \in Stoppers : at[s] = n /\ todo[s] # {}})
    /\ UNCHANGED <<item, home, redisVars>>

Restart(n) ==
    /\ n \notin up
    /\ up' = up \cup {n}
    /\ listening' = listening \cup {n}
    /\ UNCHANGED <<item, home, run, save, cleanup, tasks, redisVars,
                   inbox, stopVars, failures>>

\* A Redis error in create_task: the caller gets the exception, the task
\* runs on unsaved.
SaveFails(t) ==
    /\ Fail /\ save[t] = "pending"
    /\ save' = [save EXCEPT ![t] = "failed"]
    /\ UNCHANGED <<item, home, run, cleanup, tasks, redisVars,
                   up, listening, inbox, stopVars>>

\* A Redis error in either pipeline of cleanup_task ends it: the local entry
\* stays too.
CleanupFails(t) ==
    /\ Fail /\ cleanup[t] \in {"started", "emptied"}
    /\ cleanup' = [cleanup EXCEPT ![t] = "failed"]
    /\ UNCHANGED <<item, home, run, save, tasks, redisVars,
                   up, listening, inbox, stopVars>>

\* publish raises, with or without the command sent: nothing in stop_item_tasks
\* or stop_task catches it, so the ids that are left are never sent.
PublishFails(s, t) ==
    /\ Fail /\ t \in todo[s]
    /\ inbox' \in {inbox, Broadcast(t)}
    /\ Abort({s})
    /\ UNCHANGED <<item, home, run, save, cleanup, tasks, redisVars, up, listening>>

\* An exception from pubsub.listen() ends the listener; nobody restarts it.
ListenerDies(n) ==
    /\ Fail /\ n \in listening
    /\ listening' = listening \ {n}
    /\ inbox' = [inbox EXCEPT ![n] = {}]
    /\ UNCHANGED <<item, home, run, save, cleanup, tasks, redisVars, up, stopVars>>

-----------------------------------------------------------------------------
TaskStep(t) == CreateTask(t) \/ SaveTask(t) \/ Finish(t) \/ CleanupRemove(t)
                   \/ CleanupDelete(t) \/ CleanupLocal(t)

Next == \/ \E t \in Tasks : TaskStep(t) \/ SaveFails(t) \/ CleanupFails(t)
        \/ \E s \in Stoppers : \/ \E i \in Items : StopItemTasks(s, i)
                               \/ \E t \in Tasks : \/ StopTask(s, t) \/ Publish(s, t)
                                                   \/ PublishFails(s, t)
        \/ \E n \in Instances : \/ \E t \in Tasks : Listen(n, t)
                                \/ Crash(n) \/ Restart(n) \/ ListenerDies(n)

Spec == Init /\ [][Next]_vars

\* Redis answers, event loops run, a cancelled coroutine ends.  (What a task has
\* still to do, and what a stop loop has still to send, is finite.)
Progress(t) == \/ SaveTask(t) \/ CleanupRemove(t) \/ CleanupDelete(t) \/ CleanupLocal(t)
               \/ run[t] = "cancelling" /\ Finish(t)

Fairness ==
    /\ \A t \in Tasks : WF_vars(Progress(t))
    /\ \A s \in Stoppers : WF_vars(\E t \in todo[s] : Publish(s, t))
    /\ \A n \in Instances, t \in Tasks : WF_vars(Listen(n, t))

FairSpec == Spec /\ Fairness

-----------------------------------------------------------------------------
\* Properties

\* Every variable has the type its comment gives.
TypeOK == /\ item \in [Tasks -> Items] /\ home \in [Tasks -> Instances]
          /\ run \in [Tasks -> RunStates]
          /\ save \in [Tasks -> SaveStates]
          /\ cleanup \in [Tasks -> CleanupStates]
          /\ tasks \subseteq Tasks /\ hash \subseteq Tasks
          /\ itemset \in [Items -> SUBSET Tasks]
          /\ listening \subseteq up /\ up \subseteq Instances
          /\ inbox \in [Instances -> SUBSET Tasks]
          /\ at \in [Stoppers -> Instances]
          /\ todo \in [Stoppers -> SUBSET Tasks]
          /\ aborted \subseteq Stoppers
          /\ failures \in 0 .. MaxFailures

\* A task that runs is known to the listener of its instance, from before its
\* id is visible in Redis until it ends: a command that arrives is not missed.
RunningIsCancellable ==
    \A t \in Tasks : run[t] \in {"running", "cancelling"} => t \in tasks

\* list_tasks misses no running task whose create_task returned.
RunningIsListed ==
    \A t \in Tasks : run[t] = "running" /\ save[t] = "saved" => t \in hash

\* The set of an item never shows a task that the hash does not, or one of
\* another item: the two Redis structures change together.
ItemSetsAgreeWithHash ==
    \A i \in Items : \A t \in itemset[i] : t \in hash /\ item[t] = i

\* A Redis entry of a task that does not run has one of four causes: its
\* cleanup is under way or failed, its instance died, or its cleanup overtook
\* the save on another connection.
StaleHasCause ==
    \A t \in hash : \/ run[t] \in {"running", "cancelling", "lost"}
                    \/ cleanup[t] \in {"started", "failed"}
                    \/ save[t] = "late"

\* tasks.py:130-133 "List all tasks associated with a specific ID."
ItemListIsComplete ==
    \A t \in Tasks : run[t] = "running" /\ save[t] = "saved"
                        => t \in itemset[item[t]]

\* An id that a stop loop has set out to send, of a task that runs, is sent and
\* cancels the task, unless the task's instance or its listener dies first, or
\* the loop is cut off: a publish raised, or the instance that serves it died.
StopTakesEffect ==
    \A s \in Stoppers, t \in Tasks :
        (t \in todo[s] /\ run[t] = "running")
            ~> (run[t] # "running" \/ home[t] \notin listening \/ s \in aborted)

\* The entries of a task that ended normally disappear from Redis and from
\* the instance, unless its cleanup failed or overtook the save.
EndedIsRemoved ==
    \A t \in Tasks :
        (run[t] = "over" /\ save[t] = "saved")
            ~> \/ t \notin hash /\ t \notin tasks
               \/ cleanup[t] = "failed"
=============================================================================
