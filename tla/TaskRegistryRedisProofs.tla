------------------------ MODULE TaskRegistryRedisProofs ------------------------
(***************************************************************************)
(* Proofs about TaskRegistryRedis: what the Redis structures and the local *)
(* dicts promise, for any number of tasks, items, instances and stop       *)
(* requests, and any number of failures.                                   *)
(*                                                                         *)
(* The commands of one task's create_task and cleanup_task are on          *)
(* different connections, so the invariant is about how far each of them   *)
(* has come: Phases relates the coroutine, its save and its cleanup.       *)
(***************************************************************************)
EXTENDS TaskRegistryRedis, TLAPS

\* A cleanup belongs to a task that is over, or died with its instance; a task
\* without one has not ended; only a task that was saved is in the hash.
Phases ==
    \A t \in Tasks :
        /\ cleanup[t] # "none" => run[t] \in {"over", "lost"}
        /\ run[t] = "over" => cleanup[t] # "none"
        /\ run[t] = "unborn" => save[t] = "none"
        /\ t \in hash => save[t] \in {"saved", "late"}

Inv == /\ TypeOK /\ Phases
       /\ RunningIsCancellable /\ RunningIsListed
       /\ ItemSetsAgreeWithHash /\ StaleHasCause

\* A step changes nothing of the other tasks' progress.
Others(t) == \A u \in Tasks \ {t} : /\ run'[u] = run[u] /\ save'[u] = save[u]
                                    /\ cleanup'[u] = cleanup[u]
                                    /\ u \in hash' <=> u \in hash
                                    /\ u \in tasks' <=> u \in tasks

\* What Inv says of one task.
Fine(t) == /\ cleanup[t] # "none" => run[t] \in {"over", "lost"}
           /\ run[t] = "over" => cleanup[t] # "none"
           /\ run[t] = "unborn" => save[t] = "none"
           /\ t \in hash => save[t] \in {"saved", "late"}
           /\ run[t] \in {"running", "cancelling"} => t \in tasks
           /\ run[t] = "running" /\ save[t] = "saved" => t \in hash
           /\ t \in hash => \/ run[t] \in {"running", "cancelling", "lost"}
                            \/ cleanup[t] \in {"started", "failed"}
                            \/ save[t] = "late"

LEMMA InvOfTasks ==
    Inv => TypeOK /\ ItemSetsAgreeWithHash /\ \A t \in Tasks : Fine(t)
BY DEF Inv, Phases, RunningIsCancellable, RunningIsListed, StaleHasCause, Fine, TypeOK

\* A step of one task has to be looked at for that task only.
LEMMA OneTask ==
    ASSUME Inv, TypeOK', ItemSetsAgreeWithHash', NEW t \in Tasks, Others(t), Fine(t)'
    PROVE  Inv'
<1>1. \A u \in Tasks : Fine(u)
  BY InvOfTasks
<1>2. ASSUME NEW u \in Tasks \ {t} PROVE Fine(u)'
  BY <1>1, <1>2 DEF Fine, Others
<1>3. \A u \in Tasks : Fine(u)'
  BY <1>2
<1>4. hash' \subseteq Tasks
  BY DEF TypeOK
<1>5. QED
  BY <1>3, <1>4
     DEF Inv, Phases, RunningIsCancellable, RunningIsListed, StaleHasCause, Fine

-----------------------------------------------------------------------------
LEMMA TaskSteps ==
    ASSUME Inv, NEW t \in Tasks, TaskStep(t) \/ SaveFails(t) \/ CleanupFails(t)
    PROVE  Inv'
<1> USE MaxFailuresAssumption DEF redisVars, stopVars, nodeVars
<1>1. /\ TypeOK /\ ItemSetsAgreeWithHash /\ Fine(t) /\ item[t] \in Items
      /\ failures \in Nat /\ failures <= MaxFailures
  BY InvOfTasks DEF TypeOK
<1>2. CASE CreateTask(t)
  <2>1. TypeOK'
    BY <1>1, <1>2 DEF CreateTask, TypeOK, RunStates, SaveStates
  <2>2. ItemSetsAgreeWithHash' /\ Others(t) /\ Fine(t)'
    BY <1>1, <1>2 DEF CreateTask, TypeOK, ItemSetsAgreeWithHash, Others, Fine
  <2>3. QED
    BY <2>1, <2>2, OneTask
<1>3. CASE SaveTask(t)
  <2>1. TypeOK'
    BY <1>1, <1>3 DEF SaveTask, TypeOK, SaveStates
  <2>2. ItemSetsAgreeWithHash'
    BY <1>1, <1>3 DEF SaveTask, TypeOK, ItemSetsAgreeWithHash
  <2>3. Others(t) /\ Fine(t)'
    BY <1>1, <1>3 DEF SaveTask, TypeOK, Others, Fine, RunStates, CleanupStates
  <2>4. QED
    BY <2>1, <2>2, <2>3, OneTask
<1>4. CASE Finish(t)
  <2>1. TypeOK'
    BY <1>1, <1>4 DEF Finish, TypeOK, RunStates, CleanupStates
  <2>2. ItemSetsAgreeWithHash' /\ Others(t) /\ Fine(t)'
    BY <1>1, <1>4 DEF Finish, TypeOK, ItemSetsAgreeWithHash, Others, Fine
  <2>3. QED
    BY <2>1, <2>2, OneTask
<1>5. CASE CleanupRemove(t)
  <2>1. /\ hash' = hash \ {t} /\ itemset' = [itemset EXCEPT ![item[t]] = @ \ {t}]
        /\ \/ cleanup' = [cleanup EXCEPT ![t] = "emptied"]
           \/ cleanup' = [cleanup EXCEPT ![t] = "removed"]
        /\ cleanup[t] = "started"
        /\ UNCHANGED <<item, home, run, save, tasks, up, listening, inbox, at, todo,
                       aborted, failures>>
    BY <1>5 DEF CleanupRemove
  <2>2. TypeOK'
    BY <1>1, <2>1 DEF TypeOK, CleanupStates
  <2>3. ItemSetsAgreeWithHash'
    BY <1>1, <2>1 DEF TypeOK, ItemSetsAgreeWithHash
  <2>4. Others(t) /\ Fine(t)'
    BY <1>1, <2>1 DEF TypeOK, Others, Fine
  <2>5. QED
    BY <2>2, <2>3, <2>4, OneTask
<1>6. CASE CleanupDelete(t)
  <2>1. TypeOK'
    BY <1>1, <1>6 DEF CleanupDelete, TypeOK, CleanupStates
  <2>2. ItemSetsAgreeWithHash'
    BY <1>1, <1>6 DEF CleanupDelete, TypeOK, ItemSetsAgreeWithHash
  <2>3. Others(t) /\ Fine(t)'
    BY <1>1, <1>6 DEF CleanupDelete, TypeOK, Others, Fine
  <2>4. QED
    BY <2>1, <2>2, <2>3, OneTask
<1>7. CASE CleanupLocal(t)
  <2>1. TypeOK'
    BY <1>1, <1>7 DEF CleanupLocal, TypeOK, CleanupStates
  <2>2. ItemSetsAgreeWithHash' /\ Others(t) /\ Fine(t)'
    BY <1>1, <1>7 DEF CleanupLocal, TypeOK, ItemSetsAgreeWithHash, Others, Fine
  <2>3. QED
    BY <2>1, <2>2, OneTask
<1>8. CASE SaveFails(t)
  <2>1. TypeOK'
    BY <1>1, <1>8 DEF SaveFails, Fail, TypeOK, SaveStates
  <2>2. ItemSetsAgreeWithHash' /\ Others(t) /\ Fine(t)'
    BY <1>1, <1>8 DEF SaveFails, TypeOK, ItemSetsAgreeWithHash, Others, Fine
  <2>3. QED
    BY <2>1, <2>2, OneTask
<1>9. CASE CleanupFails(t)
  <2>1. TypeOK'
    BY <1>1, <1>9 DEF CleanupFails, Fail, TypeOK, CleanupStates
  <2>2. ItemSetsAgreeWithHash' /\ Others(t) /\ Fine(t)'
    BY <1>1, <1>9 DEF CleanupFails, TypeOK, ItemSetsAgreeWithHash, Others, Fine
  <2>3. QED
    BY <2>1, <2>2, OneTask
<1>10. QED
  BY <1>2, <1>3, <1>4, <1>5, <1>6, <1>7, <1>8, <1>9 DEF TaskStep

\* What Inv says is not about inboxes, stop loops and listeners.
LEMMA SameTasks ==
    ASSUME Inv, TypeOK', UNCHANGED <<item, run, save, cleanup, tasks, hash, itemset>>
    PROVE  Inv'
BY DEF Inv, Phases, RunningIsCancellable, RunningIsListed, ItemSetsAgreeWithHash, StaleHasCause

LEMMA StopSteps ==
    ASSUME Inv, NEW s \in Stoppers,
           \/ \E i \in Items : StopItemTasks(s, i)
           \/ \E t \in Tasks : StopTask(s, t) \/ Publish(s, t) \/ PublishFails(s, t)
    PROVE  Inv'
<1> USE MaxFailuresAssumption DEF redisVars
<1>1. TypeOK
  BY DEF Inv
<1>2. ASSUME NEW ids \in SUBSET Tasks, StartLoop(s, ids) PROVE Inv'
  <2>1. TypeOK'
    BY <1>1, <1>2 DEF StartLoop, TypeOK
  <2>2. QED
    BY <1>2, <2>1, SameTasks DEF StartLoop
<1>3. ASSUME NEW t \in Tasks, Publish(s, t) PROVE Inv'
  <2>1. TypeOK'
    BY <1>1, <1>3 DEF Publish, Broadcast, TypeOK
  <2>2. QED
    BY <1>3, <2>1, SameTasks DEF Publish
<1>4. ASSUME NEW t \in Tasks, PublishFails(s, t) PROVE Inv'
  <2>1. Broadcast(t) \in [Instances -> SUBSET Tasks]
    BY <1>1 DEF Broadcast, TypeOK
  <2>2. TypeOK'
    BY <1>1, <1>4, <2>1 DEF PublishFails, Abort, Fail, TypeOK
  <2>3. QED
    BY <1>4, <2>2, SameTasks DEF PublishFails
<1>5. /\ \A i \in Items : itemset[i] \in SUBSET Tasks
      /\ \A t \in Tasks : {t} \in SUBSET Tasks
  BY <1>1 DEF TypeOK
<1>6. QED
  BY <1>2, <1>3, <1>4, <1>5 DEF StopItemTasks, StopTask

LEMMA InstanceSteps ==
    ASSUME Inv, NEW n \in Instances,
           (\E t \in Tasks : Listen(n, t)) \/ Crash(n) \/ Restart(n) \/ ListenerDies(n)
    PROVE  Inv'
<1> USE MaxFailuresAssumption DEF redisVars, stopVars
<1>1. /\ TypeOK /\ ItemSetsAgreeWithHash /\ \A t \in Tasks : Fine(t)
      /\ failures \in Nat /\ failures <= MaxFailures
  BY InvOfTasks DEF TypeOK
<1>2. ASSUME NEW t \in Tasks, Listen(n, t) PROVE Inv'
  <2>1. TypeOK'
    BY <1>1, <1>2 DEF Listen, TypeOK, RunStates
  <2>2. ItemSetsAgreeWithHash'
    BY <1>1, <1>2 DEF Listen, ItemSetsAgreeWithHash
  <2>3. Others(t) /\ Fine(t)'
    BY <1>1, <1>2 DEF Listen, TypeOK, Others, Fine
  <2>4. QED
    BY <2>1, <2>2, <2>3, OneTask
\* A crash takes the tasks of its instance, with what they had in flight.
<1>3. CASE Crash(n)
  <2>1. TypeOK'
    BY <1>1, <1>3 DEF Crash, Abort, Fail, TypeOK, RunStates, SaveStates, CleanupStates
  <2>2. ItemSetsAgreeWithHash'
    BY <1>1, <1>3 DEF Crash, ItemSetsAgreeWithHash
  <2>3. ASSUME NEW t \in Tasks PROVE Fine(t)'
    <3>1. Fine(t) /\ cleanup[t] \in CleanupStates
      BY <1>1 DEF TypeOK
    <3>2. /\ run'[t] = IF home[t] = n /\ run[t] # "unborn" /\ cleanup[t] # "done"
                       THEN "lost" ELSE run[t]
          /\ save'[t] = IF home[t] = n /\ save[t] = "pending" THEN "failed" ELSE save[t]
          /\ cleanup'[t] = IF /\ home[t] = n
                              /\ cleanup[t] \in {"started", "emptied", "removed"}
                           THEN "failed" ELSE cleanup[t]
          /\ t \in tasks' <=> t \in tasks /\ home[t] # n
          /\ hash' = hash
      BY <1>3 DEF Crash
    <3>3. CASE home[t] = n
      BY <3>1, <3>2, <3>3 DEF Fine, CleanupStates
    <3>4. CASE home[t] # n
      BY <3>1, <3>2, <3>4 DEF Fine
    <3>5. QED
      BY <3>3, <3>4
  <2>4. hash' \subseteq Tasks
    BY <2>1 DEF TypeOK
  <2>5. QED
    BY <2>1, <2>2, <2>3, <2>4
       DEF Inv, Phases, RunningIsCancellable, RunningIsListed, StaleHasCause, Fine
<1>4. CASE Restart(n)
  <2>1. TypeOK'
    BY <1>1, <1>4 DEF Restart, TypeOK
  <2>2. QED
    BY <1>4, <2>1, SameTasks DEF Restart
<1>5. CASE ListenerDies(n)
  <2>1. TypeOK'
    BY <1>1, <1>5 DEF ListenerDies, Fail, TypeOK
  <2>2. QED
    BY <1>5, <2>1, SameTasks DEF ListenerDies
<1>6. QED
  BY <1>2, <1>3, <1>4, <1>5

-----------------------------------------------------------------------------
THEOREM Invariance == Spec => []Inv
<1>1. Init => Inv
  BY MaxFailuresAssumption
     DEF Init, Inv, TypeOK, RunStates, SaveStates, CleanupStates, Phases,
         RunningIsCancellable, RunningIsListed, ItemSetsAgreeWithHash, StaleHasCause
<1>2. Inv /\ [Next]_vars => Inv'
  <2>1. SUFFICES ASSUME Inv, [Next]_vars PROVE Inv'
    OBVIOUS
  <2>2. CASE UNCHANGED vars
    <3>1. TypeOK'
      BY <2>1, <2>2 DEF Inv, TypeOK, vars, redisVars, stopVars, nodeVars
    <3>2. QED
      BY <2>1, <2>2, <3>1, SameTasks DEF vars, redisVars
  <2>3. QED
    BY <2>1, <2>2, TaskSteps, StopSteps, InstanceSteps DEF Next
<1>3. QED
  BY <1>1, <1>2, PTL DEF Spec

\* Every variable keeps its type, with any number of tasks and failures.
THEOREM TypeCorrect == Spec => []TypeOK
<1>1. Inv => TypeOK
  BY DEF Inv
<1>2. QED
  BY <1>1, Invariance, PTL

\* A stop command that reaches the instance of a running task finds it in the
\* local dict, whatever died before and however its Redis commands are ordered.
THEOREM RunningStaysCancellable == Spec => []RunningIsCancellable
<1>1. Inv => RunningIsCancellable
  BY DEF Inv
<1>2. QED
  BY <1>1, Invariance, PTL

\* No cleanup, crash or error removes the id of a running, saved task from the
\* hash that list_tasks reads.
THEOREM RunningStaysListed == Spec => []RunningIsListed
<1>1. Inv => RunningIsListed
  BY DEF Inv
<1>2. QED
  BY <1>1, Invariance, PTL

\* An id in the set of an item is in the hash, and is of that item: the pipelines
\* of redis_save_task and redis_cleanup_task never take the two apart this way.
THEOREM ItemSetsAgree == Spec => []ItemSetsAgreeWithHash
<1>1. Inv => ItemSetsAgreeWithHash
  BY DEF Inv
<1>2. QED
  BY <1>1, Invariance, PTL

\* There is no other way for an entry to be left in Redis than the four causes
\* that StaleHasCause lists.
THEOREM StaleEntriesHaveCause == Spec => []StaleHasCause
<1>1. Inv => StaleHasCause
  BY DEF Inv
<1>2. QED
  BY <1>1, Invariance, PTL
=============================================================================
