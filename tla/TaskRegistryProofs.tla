-------------------------- MODULE TaskRegistryProofs --------------------------
(***************************************************************************)
(* Proofs about TaskRegistry, for any number of tasks, items and stopping  *)
(* coroutines: its typing, and that a running task can always be found by  *)
(* whoever wants to stop it.                                               *)
(***************************************************************************)
EXTENDS TaskRegistry, TLAPS

\* Only tasks that are over have callbacks or cleanups in the queue.
HandlesAreOver ==
    \A k \in DOMAIN ready :
        ready[k].kind \in {"callback", "cleanup"} => Over(ready[k].task)

\* The list an item refers to was opened by a task of that item: two items
\* never share a list.
ListsAreOwn ==
    \A i \in Items : item_tasks[i] # NoList => item[item_tasks[i]] = i

Inv == TypeOK /\ RunningIsStoppable /\ HandlesAreOver /\ ListsAreOwn

-----------------------------------------------------------------------------
\* list.remove returns a list of tasks, and loses the removed task only.
LEMMA WithoutTaskLemma ==
    ASSUME NEW S, NEW l \in Seq(S), NEW t \in Elements(l)
    PROVE  /\ WithoutTask(l, t) \in Seq(S)
           /\ Elements(l) \ {t} \subseteq Elements(WithoutTask(l, t))
<1> DEFINE k == CHOOSE j \in DOMAIN l : l[j] = t
           w == [j \in 1 .. (Len(l) - 1) |-> IF j < k THEN l[j] ELSE l[j + 1]]
<1>1. k \in DOMAIN l /\ l[k] = t
  BY DEF Elements
<1>2. DOMAIN l = 1 .. Len(l) /\ Len(l) \in Nat /\ Len(l) > 0
  BY <1>1
<1>3. w \in Seq(S)
  <2> HIDE DEF k
  <2>1. Len(l) - 1 \in Nat
    BY <1>2
  <2>2. \A j \in 1 .. (Len(l) - 1) : w[j] \in S
    BY <1>1, <1>2
  <2> QED BY <2>1, <2>2
<1>4. DOMAIN w = 1 .. (Len(l) - 1)
  OBVIOUS
<1>5. ASSUME NEW u \in Elements(l), u # t
      PROVE  \E j \in DOMAIN w : w[j] = u
  <2>1. PICK j \in DOMAIN l : l[j] = u
    BY DEF Elements
  <2> HIDE DEF k
  <2>2. CASE j < k
    <3>1. j \in 1 .. (Len(l) - 1)
      BY <1>1, <1>2, <2>1, <2>2
    <3>2. w[j] = u
      BY <3>1, <2>1, <2>2
    <3> QED BY <3>1, <3>2, <1>4
  <2>3. CASE j > k
    <3>1. j - 1 \in 1 .. (Len(l) - 1) /\ ~((j - 1) < k) /\ (j - 1) + 1 = j
      BY <1>1, <1>2, <2>1, <2>3
    <3>2. w[j - 1] = u
      BY <3>1, <2>1
    <3> QED BY <3>1, <3>2, <1>4
  <2>4. j # k
    BY <1>1, <1>5, <2>1
  <2> QED BY <1>1, <1>2, <2>1, <2>2, <2>3, <2>4
<1> QED BY <1>3, <1>5 DEF Elements, WithoutTask

LEMMA AppendLemma ==
    ASSUME NEW S, NEW l \in Seq(S), NEW t \in S
    PROVE  /\ Append(l, t) \in Seq(S)
           /\ Elements(Append(l, t)) = Elements(l) \cup {t}
<1>1. Append(l, t) \in Seq(S) /\ Len(Append(l, t)) = Len(l) + 1
  OBVIOUS
<1>2. \A j \in 1 .. Len(l) : Append(l, t)[j] = l[j]
  OBVIOUS
<1>3. Append(l, t)[Len(l) + 1] = t
  OBVIOUS
<1>4. /\ DOMAIN l = 1 .. Len(l) /\ Len(l) \in Nat
      /\ DOMAIN Append(l, t) = 1 .. (Len(l) + 1)
  BY <1>1
<1>5. 1 .. (Len(l) + 1) = (1 .. Len(l)) \cup {Len(l) + 1}
  BY <1>4
<1> QED BY <1>1, <1>2, <1>3, <1>4, <1>5 DEF Elements

\* Taking the first handle off the queue.
LEMMA TailLemma ==
    ASSUME NEW S, NEW q \in Seq(S), q # <<>>
    PROVE  /\ 1 \in DOMAIN q /\ Head(q) = q[1]
           /\ Tail(q) \in Seq(S)
           /\ \A k \in DOMAIN Tail(q) : k + 1 \in DOMAIN q /\ Tail(q)[k] = q[k + 1]
<1>1. Len(q) \in Nat /\ Len(q) > 0 /\ DOMAIN q = 1 .. Len(q)
  OBVIOUS
<1>2. /\ Head(q) = q[1] /\ Tail(q) \in Seq(S) /\ Len(Tail(q)) = Len(q) - 1
      /\ \A k \in 1 .. Len(Tail(q)) : Tail(q)[k] = q[k + 1]
  OBVIOUS
<1>3. DOMAIN Tail(q) = 1 .. (Len(q) - 1)
  BY <1>2
<1> QED BY <1>1, <1>2, <1>3

-----------------------------------------------------------------------------
\* The record of a call stays one whatever the loop answers or awaits.
LEMMA ReturnType ==
    ASSUME TypeOK, NEW s \in Stoppers, NEW call \in StopCall,
           NEW answer \in {"none", "empty", "stopped", "notfound", "raised"},
           Return(s, answer, call)
    PROVE  stop' \in [Stoppers -> StopCall]
<1>1. [call EXCEPT !.pc = "returned", !.task = NoTask, !.result = answer]
         \in StopCall
  BY DEF StopCall
<1> QED BY <1>1 DEF Return, TypeOK

LEMMA SuspendType ==
    ASSUME TypeOK, NEW s \in Stoppers, NEW call \in StopCall, NEW t \in Tasks,
           Suspend(s, t, call)
    PROVE  /\ stop' \in [Stoppers -> StopCall]
           /\ state' \in [Tasks -> TaskStates]
<1>1. [call EXCEPT !.pc = "awaiting", !.task = t] \in StopCall
  BY DEF StopCall
<1> QED BY <1>1 DEF Suspend, TypeOK, TaskStates

\* What the loop of stop_item_tasks does to the variables the invariant is
\* about: it ends no task, starts none, and unregisters only tasks that do
\* not run (any more).
LEMMA LoopLemma ==
    ASSUME TypeOK, NEW s \in Stoppers, NEW call \in StopCall,
           call.list \in Tasks, call.pos \in Nat, Loop(s, call)
    PROVE  /\ tasks' \in SUBSET Tasks
           /\ state' \in [Tasks -> TaskStates]
           /\ stop' \in [Stoppers -> StopCall]
           /\ \A t \in Tasks : state'[t] = "running" =>
                state[t] = "running" /\ (t \in tasks => t \in tasks')
           /\ \A t \in Tasks : Over(t) => Over(t)'
<1> DEFINE l == lists[call.list]
           rest == call.pos .. Len(l)
<1>1. l \in Seq(Tasks)
  BY DEF TypeOK
<1>2. CASE /\ \A k \in rest : Passed(l[k])
           /\ tasks' = tasks \ {l[k] : k \in rest}
           /\ Return(s, "stopped", call)
           /\ UNCHANGED state
  BY <1>2, ReturnType DEF TypeOK, Passed, Over
<1>3. ASSUME NEW k \in rest,
             \A j \in rest : j < k => Passed(l[j]),
             LET t == l[k]
                 popped == {l[j] : j \in call.pos .. (k - 1)}
             IN  \/ /\ t \notin tasks
                    /\ tasks' = tasks \ popped
                    /\ Return(s, "notfound", call)
                    /\ UNCHANGED state
                 \/ /\ t \in tasks /\ state[t] = "raised"
                    /\ tasks' = tasks \ (popped \cup {t})
                    /\ Return(s, "raised", call)
                    /\ UNCHANGED state
                 \/ /\ t \in tasks /\ Live(t)
                    /\ tasks' = tasks \ (popped \cup {t})
                    /\ Suspend(s, t, [call EXCEPT !.pos = k + 1])
      PROVE  /\ tasks' \in SUBSET Tasks
             /\ state' \in [Tasks -> TaskStates]
             /\ stop' \in [Stoppers -> StopCall]
             /\ \A t \in Tasks : state'[t] = "running" =>
                  state[t] = "running" /\ (t \in tasks => t \in tasks')
             /\ \A t \in Tasks : Over(t) => Over(t)'
  <2> DEFINE t == l[k]
             popped == {l[j] : j \in call.pos .. (k - 1)}
             next == [call EXCEPT !.pos = k + 1]
  <2>0. call.pos \in Nat /\ k \in Nat /\ Len(l) \in Nat /\ k \in rest
    BY <1>1, <1>3
  <2>1. \A j \in call.pos .. (k - 1) : Passed(l[j])
    <3>1. \A j \in call.pos .. (k - 1) : j \in rest /\ j < k
      BY <2>0
    <3> QED BY <3>1, <1>3
  <2>2. \A u \in popped : state[u] \in OverStates
    BY <2>1 DEF Passed, OverStates
  <2>3. CASE t \notin tasks /\ tasks' = tasks \ popped
             /\ Return(s, "notfound", call) /\ UNCHANGED state
    BY <2>2, <2>3, ReturnType DEF TypeOK, Over, OverStates
  <2>4. CASE /\ t \in tasks /\ state[t] = "raised"
             /\ tasks' = tasks \ (popped \cup {t})
             /\ Return(s, "raised", call) /\ UNCHANGED state
    BY <2>2, <2>4, ReturnType DEF TypeOK, Over, OverStates
  <2>5. CASE /\ t \in tasks /\ Live(t)
             /\ tasks' = tasks \ (popped \cup {t})
             /\ Suspend(s, t, next)
    <3>1. next \in StopCall
      BY <2>0 DEF StopCall
    <3>2. t \in Tasks
      BY <2>5 DEF TypeOK
    <3>3. state' = [state EXCEPT ![t] = "cancelling"]
      BY <2>5 DEF Suspend
    <3>4. stop' \in [Stoppers -> StopCall] /\ state' \in [Tasks -> TaskStates]
      BY <3>1, <3>2, <2>5, SuspendType
    <3> HIDE DEF next, t, popped
    <3> QED BY <2>2, <2>5, <3>2, <3>3, <3>4
            DEF TypeOK, Live, Over, OverStates
  <2> QED BY <1>3, <2>3, <2>4, <2>5
<1>4. \/ /\ {k \in rest : ~Passed(l[k])} = {}
         /\ tasks' = tasks \ {l[k] : k \in rest}
         /\ Return(s, "stopped", call)
         /\ UNCHANGED state
      \/ \E k \in rest :
           /\ \A j \in {m \in rest : ~Passed(l[m])} : k <= j
           /\ LET t == l[k]
                  popped == {l[j] : j \in call.pos .. (k - 1)}
              IN  \/ /\ t \notin tasks
                     /\ tasks' = tasks \ popped
                     /\ Return(s, "notfound", call)
                     /\ UNCHANGED state
                  \/ /\ t \in tasks /\ state[t] = "raised"
                     /\ tasks' = tasks \ (popped \cup {t})
                     /\ Return(s, "raised", call)
                     /\ UNCHANGED state
                  \/ /\ t \in tasks /\ Live(t)
                     /\ tasks' = tasks \ (popped \cup {t})
                     /\ Suspend(s, t, [call EXCEPT !.pos = k + 1])
  BY Zenon DEF Loop
<1>5. \A k, j \in rest : j < k <=> ~(k <= j)
  BY <1>1
<1> HIDE DEF l, rest
<1> QED BY <1>2, <1>3, <1>4, <1>5
-----------------------------------------------------------------------------
\* A queue whose callbacks and cleanups come from the old queue, or are of
\* tasks that are over, keeps HandlesAreOver.
LEMMA OnlyTasksAreOver ==
    ASSUME TypeOK, HandlesAreOver,
           \A t \in Tasks : Over(t) => Over(t)',
           \A k \in DOMAIN ready' :
               ready'[k].kind \in {"callback", "cleanup"} =>
                   \/ \E t \in Tasks : ready'[k].task = t /\ Over(t)'
                   \/ \E j \in DOMAIN ready : ready'[k] = ready[j]
    PROVE  HandlesAreOver'
<1>1. ASSUME NEW j \in DOMAIN ready, ready[j].kind \in {"callback", "cleanup"}
      PROVE  ready[j].task \in Tasks /\ Over(ready[j].task)
  <2>1. ready[j] \in Handle
    BY DEF TypeOK
  <2>2. ready[j].task \in Tasks
    BY <1>1, <2>1 DEF Handle
  <2> QED BY <1>1, <2>2 DEF HandlesAreOver
<1>2. ASSUME NEW k \in DOMAIN ready', ready'[k].kind \in {"callback", "cleanup"}
      PROVE  state'[ready'[k].task] \in OverStates
  <2>1. CASE \E t \in Tasks : ready'[k].task = t /\ Over(t)'
    BY <2>1 DEF Over
  <2>2. CASE \E j \in DOMAIN ready : ready'[k] = ready[j]
    BY <1>1, <1>2, <2>2 DEF Over
  <2> QED BY <1>2, <2>1, <2>2
<1> QED BY <1>2 DEF HandlesAreOver, Over

\* The registry is untouched by what the stopping coroutines do, except for
\* entries of tasks that no longer run.
LEMMA StopStep ==
    ASSUME Inv, UNCHANGED <<item, item_tasks, lists>>,
           ready' = ready \/ (ready # <<>> /\ ready' = Tail(ready)),
           tasks' \in SUBSET Tasks,
           state' \in [Tasks -> TaskStates],
           stop' \in [Stoppers -> StopCall],
           \A t \in Tasks : state'[t] = "running" =>
                state[t] = "running" /\ (t \in tasks => t \in tasks'),
           \A t \in Tasks : Over(t) => Over(t)'
    PROVE  Inv'
<1> USE DEF Inv
<1>1. ready' \in Seq(Handle)
      /\ \A k \in DOMAIN ready' : \E j \in DOMAIN ready : ready'[k] = ready[j]
  <2>1. ready \in Seq(Handle)
    BY DEF TypeOK
  <2>2. CASE ready' = ready
    BY <2>1, <2>2
  <2>3. CASE ready # <<>> /\ ready' = Tail(ready)
    BY <2>1, <2>3, TailLemma
  <2> QED BY <2>2, <2>3
<1>2. TypeOK'
  BY <1>1 DEF TypeOK
<1>3. RunningIsStoppable'
  BY <1>2 DEF TypeOK, RunningIsStoppable, Listed
<1>5. HandlesAreOver'
  BY <1>1, OnlyTasksAreOver DEF HandlesAreOver
<1>6. ListsAreOwn'
  BY DEF ListsAreOwn
<1> QED BY <1>2, <1>3, <1>5, <1>6

\* create_task registers the task in both dictionaries, and displaces no list
\* that holds a running task.
LEMMA CreateStep ==
    ASSUME Inv, NEW t \in Tasks, CreateTask(t)
    PROVE  Inv'
<1> USE DEF Inv
<1> DEFINE i == item[t]
<1>0. i \in Items /\ state[t] = "unborn"
  BY DEF CreateTask, TypeOK
<1>1. CASE Listed(i) # {} /\ lists' = [lists EXCEPT ![item_tasks[i]] = Append(@, t)]
           /\ UNCHANGED item_tasks
  <2> DEFINE L == item_tasks[i]
  <2>1. L \in Tasks /\ lists[L] \in Seq(Tasks)
    BY <1>0, <1>1 DEF Listed, TypeOK
  <2>2. /\ lists'[L] \in Seq(Tasks)
        /\ Elements(lists'[L]) = Elements(lists[L]) \cup {t}
    BY <1>1, <2>1, AppendLemma DEF TypeOK
  <2>3. TypeOK'
    BY <1>1, <2>1, <2>2 DEF CreateTask, TypeOK, TaskStates
  <2>4. \A u \in Tasks : u \in Listed(item[u]) => u \in Listed(item[u])'
    BY <1>0, <1>1, <2>1, <2>2 DEF CreateTask, TypeOK, Listed
  <2>5. t \in Listed(i)'
    BY <1>0, <1>1, <2>1, <2>2 DEF CreateTask, TypeOK, Listed
  <2>6. RunningIsStoppable'
    BY <2>3, <2>4, <2>5 DEF CreateTask, TypeOK, RunningIsStoppable
  <2>7. ListsAreOwn'
    BY <1>1 DEF CreateTask, ListsAreOwn
  <2>8. HandlesAreOver'
    BY <1>0 DEF CreateTask, HandlesAreOver, Over, OverStates, TypeOK, Handle
  <2> QED BY <2>3, <2>6, <2>7, <2>8
<1>2. CASE Listed(i) = {} /\ lists' = [lists EXCEPT ![t] = <<t>>]
           /\ item_tasks' = [item_tasks EXCEPT ![i] = t]
  <2>1. <<t>> \in Seq(Tasks) /\ Elements(<<t>>) = {t}
    BY DEF Elements
  <2>2. TypeOK'
    BY <1>0, <1>2, <2>1 DEF CreateTask, TypeOK, TaskStates
  <2>3. t \in Listed(i)'
    BY <1>0, <1>2, <2>1, NoListAssumption DEF CreateTask, TypeOK, Listed
  <2>4. \A u \in Tasks : u \in Listed(item[u]) =>
            item_tasks[item[u]] # t /\ item[u] # i
    BY <1>2, <1>0, NoListAssumption DEF ListsAreOwn, Listed, TypeOK
  <2>5. \A u \in Tasks : u \in Listed(item[u]) => u \in Listed(item[u])'
    BY <1>0, <1>2, <2>4 DEF CreateTask, TypeOK, Listed
  <2>6. RunningIsStoppable'
    BY <2>2, <2>3, <2>5 DEF CreateTask, TypeOK, RunningIsStoppable
  <2>7. ListsAreOwn'
    BY <1>0, <1>2 DEF CreateTask, ListsAreOwn, TypeOK
  <2>8. HandlesAreOver'
    BY <1>0 DEF CreateTask, HandlesAreOver, Over, OverStates, TypeOK, Handle
  <2> QED BY <2>2, <2>6, <2>7, <2>8
<1> QED BY <1>1, <1>2 DEF CreateTask

\* A task that ends leaves its handles at the end of the queue.
LEMMA FinishStep ==
    ASSUME Inv, NEW t \in Tasks, NEW o \in OverStates, Finish(t, o)
    PROVE  Inv'
<1> USE DEF Inv
<1> DEFINE cb == [kind |-> "callback", task |-> t]
<1>1. PICK more \in Seq(Handle) :
          /\ ready' = ready \o (<<cb>> \o more)
          /\ \A j \in DOMAIN more : more[j].kind = "wake"
  <2>1. CASE ready' = Append(ready, cb)
    <3>1. ready' = ready \o (<<cb>> \o <<>>)
      BY <2>1 DEF TypeOK
    <3>2. <<>> \in Seq(Handle) /\ DOMAIN <<>> = {}
      OBVIOUS
    <3> QED BY <3>1, <3>2
  <2>2. ASSUME NEW s \in Stoppers,
               ready' = ready \o <<cb, [kind |-> "wake", stopper |-> s]>>
        PROVE  \E more \in Seq(Handle) :
                  /\ ready' = ready \o (<<cb>> \o more)
                  /\ \A j \in DOMAIN more : more[j].kind = "wake"
    <3> DEFINE w == [kind |-> "wake", stopper |-> s]
    <3>1. w \in Handle /\ w.kind = "wake"
      BY DEF Handle
    <3> HIDE DEF w, cb
    <3>2. <<w>> \in Seq(Handle) /\ DOMAIN <<w>> = {1} /\ <<w>>[1] = w
      BY <3>1
    <3>3. <<cb, w>> = <<cb>> \o <<w>>
      OBVIOUS
    <3> QED BY <2>2, <3>1, <3>2, <3>3 DEF w
  <2> QED BY <2>1, <2>2 DEF Finish
<1>2. cb \in Handle /\ <<cb>> \o more \in Seq(Handle)
  <2>1. cb \in Handle
    BY DEF Handle
  <2> HIDE DEF cb
  <2> QED BY <1>1, <2>1
<1>3. TypeOK'
  BY <1>1, <1>2 DEF Finish, TypeOK, TaskStates, OverStates
<1>4. RunningIsStoppable'
  BY DEF Finish, TypeOK, RunningIsStoppable, Listed, OverStates
<1>5. ListsAreOwn'
  BY DEF Finish, ListsAreOwn
<1>6. Over(t)' /\ \A u \in Tasks : Over(u) => Over(u)'
  BY DEF Finish, TypeOK, Over, OverStates
<1>7. HandlesAreOver'
  <2> DEFINE tail == <<cb>> \o more
  <2>1. /\ Len(ready) \in Nat /\ Len(more) \in Nat
        /\ DOMAIN ready = 1 .. Len(ready) /\ DOMAIN more = 1 .. Len(more)
        /\ DOMAIN ready' = 1 .. (Len(ready) + Len(more) + 1)
        /\ \A k \in DOMAIN ready : ready'[k] = ready[k]
        /\ ready'[Len(ready) + 1] = cb
        /\ \A j \in DOMAIN more : ready'[Len(ready) + 1 + j] = more[j]
    <3>1. ready \in Seq(Handle) /\ cb \in Handle
      BY <1>2 DEF TypeOK
    <3> HIDE DEF cb
    <3> QED BY <1>1, <1>2, <3>1
  <2>2. ASSUME NEW k \in DOMAIN ready',
               ready'[k].kind \in {"callback", "cleanup"}
        PROVE  \/ ready'[k].task = t
               \/ \E j \in DOMAIN ready : ready'[k] = ready[j]
    <3>1. \/ k \in DOMAIN ready \/ k = Len(ready) + 1
          \/ k - Len(ready) - 1 \in DOMAIN more
      BY <2>1
    <3>2. ASSUME k - Len(ready) - 1 \in DOMAIN more PROVE FALSE
      <4>1. k \in Nat /\ Len(ready) \in Nat
        BY <2>1, <2>2
      <4>3. k = Len(ready) + 1 + (k - Len(ready) - 1)
        BY <4>1
      <4>2. ready'[k].kind = "wake"
        BY <1>1, <2>1, <3>2, <4>3
      <4> QED BY <2>2, <4>2
    <3> QED BY <2>1, <3>1, <3>2
  <2> QED BY <1>6, <2>2, OnlyTasksAreOver DEF HandlesAreOver
<1> QED BY <1>3, <1>4, <1>5, <1>7

\* cleanup_task removes entries of its own task only, and that task is over.
LEMMA CleanupStep ==
    ASSUME Inv, NEW t \in Tasks, CleanupTask(t)
    PROVE  Inv'
<1> USE DEF Inv
<1> DEFINE i == item[t]
<1>0. i \in Items
  BY DEF TypeOK
<1>1. Over(t)
  <2>1. 1 \in DOMAIN ready /\ ready[1] = [kind |-> "cleanup", task |-> t]
    BY TailLemma DEF CleanupTask, RunHandle, TypeOK
  <2> QED BY <2>1 DEF HandlesAreOver
<1>2. ready' \in Seq(Handle)
      /\ \A k \in DOMAIN ready' : \E j \in DOMAIN ready : ready'[k] = ready[j]
  <2>1. ready # <<>> /\ ready' = Tail(ready)
    BY DEF CleanupTask, RunHandle
  <2> QED BY <2>1, TailLemma DEF TypeOK
<1>3. HandlesAreOver'
  BY <1>2, OnlyTasksAreOver DEF CleanupTask, Over
<1>4. CASE t \notin Listed(i) /\ UNCHANGED <<lists, item_tasks>>
  <2>1. TypeOK'
    BY <1>2, <1>4 DEF CleanupTask, TypeOK
  <2>2. RunningIsStoppable'
    BY <1>1, <1>4
       DEF CleanupTask, TypeOK, RunningIsStoppable, Listed, Over, OverStates
  <2>3. ListsAreOwn'
    BY <1>4 DEF CleanupTask, ListsAreOwn
  <2> QED BY <2>1, <2>2, <2>3, <1>3
<1>5. CASE /\ t \in Listed(i)
           /\ lists' = [lists EXCEPT ![item_tasks[i]] = WithoutTask(@, t)]
           /\ item_tasks' = IF Listed(i) = {t}
                             THEN [item_tasks EXCEPT ![i] = NoList]
                             ELSE item_tasks
  <2> DEFINE L == item_tasks[i]
  <2>1. L \in Tasks /\ lists[L] \in Seq(Tasks) /\ t \in Elements(lists[L])
    BY <1>0, <1>5 DEF Listed, TypeOK
  <2>2. /\ lists'[L] = WithoutTask(lists[L], t)
        /\ lists'[L] \in Seq(Tasks)
        /\ Elements(lists[L]) \ {t} \subseteq Elements(lists'[L])
    BY <1>5, <2>1, WithoutTaskLemma DEF TypeOK
  <2>3. lists' \in [Tasks -> Seq(Tasks)]
    BY <1>5, <2>1, <2>2 DEF TypeOK
  <2>4. item_tasks' \in [Items -> Tasks \cup {NoList}]
    BY <1>0, <1>5 DEF TypeOK
  <2>5. TypeOK'
    BY <1>2, <2>3, <2>4 DEF CleanupTask, TypeOK
  <2>6. ASSUME NEW u \in Tasks, u # t, u \in Listed(item[u])
        PROVE  u \in Listed(item[u])'
    <3>1. CASE item[u] = i
      <4>1. u \in Elements(lists[L]) /\ Listed(i) # {t}
        BY <1>5, <2>1, <2>6, <3>1 DEF Listed
      <4>2. item_tasks' = item_tasks
        BY <1>5, <4>1
      <4> QED BY <2>1, <2>2, <2>6, <3>1, <4>1, <4>2
              DEF Listed, CleanupTask
    <3>2. CASE item[u] # i
      <4>1. item_tasks[item[u]] # L /\ item_tasks'[item[u]] = item_tasks[item[u]]
        BY <1>0, <1>5, <2>1, <2>6, <3>2 DEF ListsAreOwn, Listed, TypeOK
      <4>2. item_tasks[item[u]] \in Tasks
        BY <2>6 DEF Listed, TypeOK
      <4>3. lists'[item_tasks[item[u]]] = lists[item_tasks[item[u]]]
        BY <1>5, <4>1, <4>2 DEF TypeOK
      <4> QED BY <2>6, <4>1, <4>3 DEF Listed, CleanupTask
    <3> QED BY <3>1, <3>2
  <2>7. RunningIsStoppable'
    BY <1>1, <2>6
       DEF CleanupTask, TypeOK, RunningIsStoppable, Over, OverStates
  <2>8. ListsAreOwn'
    BY <1>0, <1>5, <2>4 DEF CleanupTask, ListsAreOwn, TypeOK
  <2> QED BY <2>5, <2>7, <2>8, <1>3
<1> QED BY <1>4, <1>5 DEF CleanupTask

\* The done callback replaces its handle by the cleanup of the same task.
LEMMA DoneCallbackStep ==
    ASSUME Inv, NEW t \in Tasks, DoneCallback(t)
    PROVE  Inv'
<1> USE DEF Inv
<1> DEFINE c == [kind |-> "cleanup", task |-> t]
<1>1. ready \in Seq(Handle) /\ ready # <<>>
      /\ Head(ready) = [kind |-> "callback", task |-> t]
      /\ ready' = Append(Tail(ready), c)
  BY DEF DoneCallback, RunHandle, TypeOK
<1>2. c \in Handle /\ Tail(ready) \in Seq(Handle)
  BY <1>1, TailLemma DEF Handle
<1>3. /\ ready' \in Seq(Handle)
      /\ \A k \in DOMAIN ready' : k \in DOMAIN Tail(ready) \/ ready'[k] = c
      /\ \A k \in DOMAIN Tail(ready) : ready'[k] = Tail(ready)[k]
  <2> HIDE DEF c
  <2> QED BY <1>1, <1>2
<1>4. TypeOK'
  BY <1>3 DEF DoneCallback, TypeOK
<1>5. Over(t)
  BY <1>1, TailLemma DEF HandlesAreOver
<1>6. HandlesAreOver'
  <2>1. \A k \in DOMAIN ready' : \/ ready'[k].task = t
                                 \/ \E j \in DOMAIN ready : ready'[k] = ready[j]
    BY <1>1, <1>3, TailLemma
  <2>2. \A u \in Tasks : Over(u) => Over(u)'
    BY DEF DoneCallback, Over
  <2> QED BY <1>5, <2>1, <2>2, OnlyTasksAreOver
<1>7. RunningIsStoppable' /\ ListsAreOwn'
  BY DEF DoneCallback, RunningIsStoppable, ListsAreOwn, Listed
<1> QED BY <1>4, <1>6, <1>7

-----------------------------------------------------------------------------
LEMMA StopTaskStep ==
    ASSUME Inv, NEW s \in Stoppers, NEW t \in Tasks, StopTask(s, t)
    PROVE  Inv'
<1> USE DEF Inv
<1> DEFINE call == [Idle EXCEPT !.asked = {t}]
<1>1. call \in StopCall
  BY DEF Idle, StopCall
<1>2. tasks' = tasks \ {t} /\ UNCHANGED <<item, item_tasks, lists, ready>>
  BY DEF StopTask
<1>3. /\ stop' \in [Stoppers -> StopCall]
      /\ state' \in [Tasks -> TaskStates]
      /\ \/ state' = state /\ (t \in tasks => Over(t))
         \/ state' = [state EXCEPT ![t] = "cancelling"] /\ Live(t)
  <2> HIDE DEF call
  <2>1. CASE t \notin tasks /\ Return(s, "notfound", call) /\ UNCHANGED state
    <3>1. stop' \in [Stoppers -> StopCall]
      BY <1>1, <2>1, ReturnType
    <3> QED BY <2>1, <3>1 DEF TypeOK
  <2>2. CASE /\ t \in tasks /\ Over(t) /\ UNCHANGED state
             /\ Return(s, IF state[t] = "raised" THEN "raised" ELSE "stopped", call)
    <3>1. stop' \in [Stoppers -> StopCall]
      BY <1>1, <2>2, ReturnType
    <3> QED BY <2>2, <3>1 DEF TypeOK
  <2>3. CASE t \in tasks /\ Live(t) /\ Suspend(s, t, call)
    BY <1>1, <2>3, SuspendType DEF Suspend
  <2> QED BY <2>1, <2>2, <2>3 DEF StopTask, call
<1>4. \A u \in Tasks : state'[u] = "running" =>
          state[u] = "running" /\ (u \in tasks => u \in tasks')
  BY <1>2, <1>3 DEF TypeOK, Over, OverStates
<1>5. \A u \in Tasks : Over(u) => Over(u)'
  BY <1>3 DEF TypeOK, Over, OverStates, Live
<1>6. tasks' \in SUBSET Tasks
  BY <1>2 DEF TypeOK
<1> HIDE DEF Inv
<1> QED BY <1>2, <1>3, <1>4, <1>5, <1>6, StopStep

LEMMA StopItemTasksStep ==
    ASSUME Inv, NEW s \in Stoppers, NEW i \in Items, StopItemTasks(s, i)
    PROVE  Inv'
<1> USE DEF Inv
<1>1. CASE Return(s, "empty", Idle) /\ UNCHANGED <<state, tasks>>
  <2>1. Idle \in StopCall
    BY DEF Idle, StopCall
  <2>2. stop' \in [Stoppers -> StopCall]
    BY <1>1, <2>1, ReturnType
  <2>3. tasks' \in SUBSET Tasks /\ state' \in [Tasks -> TaskStates]
        /\ UNCHANGED <<item, item_tasks, lists, ready>>
    BY <1>1 DEF StopItemTasks, TypeOK
  <2>4. \A t \in Tasks : Over(t) => Over(t)'
    BY <1>1 DEF Over
  <2> QED BY <1>1, <2>2, <2>3, <2>4, StopStep
<1>2. ASSUME item_tasks[i] # NoList,
             Loop(s, [Idle EXCEPT !.list = item_tasks[i], !.asked = Listed(i)])
      PROVE  Inv'
  <2> DEFINE call == [Idle EXCEPT !.list = item_tasks[i], !.asked = Listed(i)]
  <2>1. item_tasks[i] \in Tasks /\ Listed(i) \in SUBSET Tasks
    <3>1. item_tasks[i] \in Tasks
      BY <1>2 DEF TypeOK
    <3>2. lists[item_tasks[i]] \in Seq(Tasks)
      BY <3>1 DEF TypeOK
    <3> QED BY <3>1, <3>2 DEF Listed, Elements
  <2>2. call \in StopCall /\ call.list \in Tasks /\ call.pos \in Nat
    BY <2>1 DEF Idle, StopCall
  <2>3. UNCHANGED <<item, item_tasks, lists, ready>>
    BY DEF StopItemTasks
  <2> HIDE DEF call
  <2>4. Loop(s, call)
    BY <1>2 DEF call
  <2> QED BY <2>2, <2>3, <2>4, LoopLemma, StopStep
<1> QED BY <1>1, <1>2 DEF StopItemTasks

LEMMA WakeStep ==
    ASSUME Inv, NEW s \in Stoppers, Wake(s)
    PROVE  Inv'
<1> USE DEF Inv
<1> DEFINE call == stop[s]
<1>1. call \in StopCall
  BY DEF TypeOK
<1>2. /\ UNCHANGED <<item, item_tasks, lists>>
      /\ ready # <<>> /\ ready' = Tail(ready)
  BY DEF Wake, RunHandle
<1>3. ASSUME NEW answer \in {"raised", "stopped"}, Return(s, answer, call),
             UNCHANGED <<state, tasks>>
      PROVE  Inv'
  <2>1. stop' \in [Stoppers -> StopCall]
    BY <1>1, <1>3, ReturnType
  <2>2. tasks' \in SUBSET Tasks /\ state' \in [Tasks -> TaskStates]
    BY <1>3 DEF TypeOK
  <2>3. \A t \in Tasks : Over(t) => Over(t)'
    BY <1>3 DEF Over
  <2> QED BY <1>2, <1>3, <2>1, <2>2, <2>3, StopStep
<1>4. CASE call.list # NoList /\ Loop(s, call)
  <2>1. call.list \in Tasks /\ call.pos \in Nat
    BY <1>1, <1>4 DEF StopCall
  <2> QED BY <1>1, <1>2, <1>4, <2>1, LoopLemma, StopStep
<1> QED BY <1>3, <1>4 DEF Wake

-----------------------------------------------------------------------------
\* The invariant holds initially and every step keeps it.
THEOREM Invariance == Spec => []Inv
<1>1. Init => Inv
  <2> SUFFICES ASSUME Init PROVE Inv
    OBVIOUS
  <2>1. <<>> \in Seq(Tasks) /\ <<>> \in Seq(Handle) /\ DOMAIN <<>> = {}
    OBVIOUS
  <2>2. Idle \in StopCall
    BY DEF Idle, StopCall
  <2> QED BY <2>1, <2>2 DEF Init, Inv, TypeOK, TaskStates, RunningIsStoppable,
                            HandlesAreOver, ListsAreOwn
<1>2. Inv /\ [Next]_vars => Inv'
  <2> SUFFICES ASSUME Inv, [Next]_vars PROVE Inv'
    OBVIOUS
  <2>1. ASSUME NEW t \in Tasks, CreateTask(t) PROVE Inv'
    BY <2>1, CreateStep
  <2>2. ASSUME NEW t \in Tasks, NEW o \in OverStates, Finish(t, o) PROVE Inv'
    BY <2>2, FinishStep
  <2>3. ASSUME NEW s \in Stoppers, NEW t \in Tasks, StopTask(s, t) PROVE Inv'
    BY <2>3, StopTaskStep
  <2>4. ASSUME NEW s \in Stoppers, NEW i \in Items, StopItemTasks(s, i)
        PROVE  Inv'
    BY <2>4, StopItemTasksStep
  <2>5. ASSUME NEW t \in Tasks, DoneCallback(t) PROVE Inv'
    BY <2>5, DoneCallbackStep
  <2>6. ASSUME NEW t \in Tasks, CleanupTask(t) PROVE Inv'
    BY <2>6, CleanupStep
  <2>7. ASSUME NEW s \in Stoppers, Wake(s) PROVE Inv'
    BY <2>7, WakeStep
  <2>8. ASSUME NEW s \in Stoppers, Forget(s) PROVE Inv'
    <3>1. Idle \in StopCall
      BY DEF Idle, StopCall
    <3> QED BY <2>8, <3>1
            DEF Forget, Inv, TypeOK, RunningIsStoppable, HandlesAreOver,
                ListsAreOwn, Listed, Over
  <2>9. CASE UNCHANGED vars
    BY <2>9 DEF vars, Inv, TypeOK, RunningIsStoppable, HandlesAreOver,
                ListsAreOwn, Listed, Over
  <2> QED BY <2>1, <2>2, <2>3, <2>4, <2>5, <2>6, <2>7, <2>8, <2>9
          DEF Next, RunReady
<1> QED BY <1>1, <1>2, PTL DEF Spec

\* Every variable of the registry keeps its type.
THEOREM TypeCorrect == Spec => []TypeOK
<1>1. Inv => TypeOK
  BY DEF Inv
<1> QED BY <1>1, Invariance, PTL

\* However many tasks, items and requests there are, a task that runs and that
\* nobody asked to stop is registered under its id and under its item.
THEOREM RunningStaysStoppable == Spec => []RunningIsStoppable
<1>1. Inv => RunningIsStoppable
  BY DEF Inv
<1> QED BY <1>1, Invariance, PTL
=============================================================================
