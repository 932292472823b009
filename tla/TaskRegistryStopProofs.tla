------------------------ MODULE TaskRegistryStopProofs ------------------------
(***************************************************************************)
(* More proofs about TaskRegistry, for any number of tasks, items and      *)
(* stopping coroutines: a cancelled task has one stopper, the answers of   *)
(* stop_task are true, and entries do not outlive their tasks.             *)
(***************************************************************************)
EXTENDS TaskRegistryProofs

\* What is cancelled has been popped, so no second request finds it.
CancellingIsPopped == \A t \in Tasks : state[t] = "cancelling" => t \notin tasks

\* Nobody awaits a task that was not asked to stop.
AwaitedIsStopped ==
    \A s \in Stoppers, t \in Tasks : Awaits(s, t) => state[t] = "cancelling" \/ Over(t)

\* A coroutine is woken once, and when the task it awaits is over.
WakeIsOver ==
    \A k \in DOMAIN ready : ready[k].kind = "wake" =>
        LET s == ready[k].stopper IN
        s \in Stoppers /\ stop[s].pc = "awaiting" /\ Over(stop[s].task)

WakesOnce ==
    \A j, k \in DOMAIN ready :
        ready[j].kind = "wake" /\ ready[k].kind = "wake"
            /\ ready[j].stopper = ready[k].stopper => j = k

\* What a call still awaits, or has answered, agrees with what was asked.
AnswerHolds(s) ==
    /\ stop[s].pc = "awaiting" =>
          /\ stop[s].task \in Tasks
          /\ stop[s].list = NoList => stop[s].asked = {stop[s].task}
          /\ \A t \in Tasks : stop[s].asked = {t} => stop[s].task = t \/ Over(t)
    /\ stop[s].pc = "returned" /\ stop[s].result = "stopped" =>
          /\ stop[s].list = NoList => \A t \in stop[s].asked : Over(t)
          /\ \A t \in Tasks : stop[s].asked = {t} => Over(t)
    /\ stop[s].pc = "returned" /\ stop[s].result = "notfound" /\ stop[s].list = NoList =>
          \A t \in stop[s].asked : state[t] \notin {"unborn", "running"}

StopInv == /\ Inv /\ CancellingIsPopped /\ AwaitedIsStopped /\ CancelledHasOneStopper
           /\ WakeIsOver /\ WakesOnce
           /\ \A s \in Stoppers : AnswerHolds(s)

-----------------------------------------------------------------------------
\* A handle at the end of the queue.
LEMMA QueueAppend ==
    ASSUME NEW S, NEW q \in Seq(S), NEW h \in S
    PROVE  /\ Append(q, h) \in Seq(S)
           /\ Len(q) \in Nat /\ DOMAIN q = 1..Len(q)
           /\ Len(Append(q, h)) = Len(q) + 1
           /\ DOMAIN Append(q, h) = 1..(Len(q) + 1)
           /\ \A k \in DOMAIN q : Append(q, h)[k] = q[k]
           /\ Append(q, h)[Len(q) + 1] = h
<1>1. Append(q, h) \in Seq(S) /\ Len(Append(q, h)) = Len(q) + 1 /\ Len(q) \in Nat
  OBVIOUS
<1>2. DOMAIN q = 1..Len(q) /\ DOMAIN Append(q, h) = 1..(Len(q) + 1)
  BY <1>1
<1>3. \A k \in DOMAIN q : Append(q, h)[k] = q[k]
  BY <1>2
<1>4. Append(q, h)[Len(q) + 1] = h
  OBVIOUS
<1>5. QED
  BY <1>1, <1>2, <1>3, <1>4

\* Wake-ups of the rest of the queue.
LEMMA WakesOfTail ==
    ASSUME TypeOK, WakesOnce, ready # <<>>, ready' = Tail(ready)
    PROVE  /\ WakesOnce'
           /\ \A k \in DOMAIN ready' : k + 1 \in DOMAIN ready /\ ready'[k] = ready[k + 1]
           /\ \A s \in Stoppers : Head(ready) = [kind |-> "wake", stopper |-> s] =>
                 \A k \in DOMAIN ready' : ready'[k].kind = "wake" => ready'[k].stopper # s
<1>1. /\ ready \in Seq(Handle) /\ 1 \in DOMAIN ready /\ Head(ready) = ready[1]
      /\ \A k \in DOMAIN ready' : k + 1 \in DOMAIN ready /\ ready'[k] = ready[k + 1]
  BY TailLemma DEF TypeOK
<1>2. ready' \in Seq(Handle)
  BY <1>1
<1>3. DOMAIN ready' \subseteq Nat \ {0}
  BY <1>2
<1>4. WakesOnce'
  <2>1. SUFFICES ASSUME NEW j \in DOMAIN ready', NEW k \in DOMAIN ready',
                        ready'[j].kind = "wake", ready'[k].kind = "wake",
                        ready'[j].stopper = ready'[k].stopper
                 PROVE  j = k
    BY DEF WakesOnce
  <2>2. j + 1 = k + 1
    BY <1>1, <2>1 DEF WakesOnce
  <2>3. QED
    BY <1>3, <2>2
<1>5. ASSUME NEW s \in Stoppers, Head(ready) = [kind |-> "wake", stopper |-> s],
             NEW k \in DOMAIN ready', ready'[k].kind = "wake", ready'[k].stopper = s
      PROVE  FALSE
  <2>1. 1 = k + 1
    BY <1>1, <1>5 DEF WakesOnce
  <2>2. QED
    BY <1>3, <2>1
<1>6. QED
  BY <1>1, <1>4, <1>5

-----------------------------------------------------------------------------
\* What a stopping coroutine does in one go: it leaves s with the call c, and
\* either changes no task or cancels one that was registered and awaits it.
Stops(s, c) ==
    /\ c \in StopCall
    /\ stop' = [stop EXCEPT ![s] = c]
    /\ tasks' \subseteq tasks
    /\ \/ state' = state /\ c.pc # "awaiting"
       \/ \E t \in tasks : /\ Live(t) /\ t \notin tasks'
                           /\ state' = [state EXCEPT ![t] = "cancelling"]
                           /\ c.pc = "awaiting" /\ c.task = t

\* Tasks move on, but none comes back to life.
LEMMA StopsMovesOn ==
    ASSUME StopInv, NEW s \in Stoppers, NEW c, Stops(s, c)
    PROVE  /\ \A t \in Tasks : Over(t) => Over(t)'
           /\ \A t \in Tasks : state'[t] \in {"unborn", "running"} => state'[t] = state[t]
           /\ \A r \in Stoppers : r # s => stop'[r] = stop[r]
           /\ stop'[s] = c
<1>1. TypeOK
  BY DEF StopInv, Inv
<1>2. stop' = [stop EXCEPT ![s] = c]
  BY DEF Stops
<1>3. /\ \A r \in Stoppers : r # s => stop'[r] = stop[r]
      /\ stop'[s] = c
  BY <1>1, <1>2 DEF TypeOK
<1>4. CASE state' = state
  BY <1>3, <1>4 DEF Over
<1>5. CASE \E t \in tasks : Live(t) /\ state' = [state EXCEPT ![t] = "cancelling"]
  BY <1>1, <1>3, <1>5 DEF Over, OverStates, Live, TypeOK
<1>6. QED
  BY <1>4, <1>5 DEF Stops

\* Such a step keeps the invariant, when the call that moves on is one that
\* awaited nothing, or whose wake-up it runs.
LEMMA StopsStep ==
    ASSUME StopInv, Inv', NEW s \in Stoppers, NEW c, Stops(s, c), AnswerHolds(s)',
           \/ ready' = ready /\ stop[s].pc # "awaiting"
           \/ /\ ready # <<>> /\ ready' = Tail(ready)
              /\ Head(ready) = [kind |-> "wake", stopper |-> s]
    PROVE  StopInv'
<1>1. TypeOK /\ TypeOK'
  BY DEF StopInv, Inv
<1>2. /\ \A t \in Tasks : Over(t) => Over(t)'
      /\ \A t \in Tasks : state'[t] \in {"unborn", "running"} => state'[t] = state[t]
      /\ \A r \in Stoppers : r # s => stop'[r] = stop[r]
      /\ stop'[s] = c
  BY StopsMovesOn
<1>3. /\ WakesOnce'
      /\ \A k \in DOMAIN ready' : \E j \in DOMAIN ready : ready'[k] = ready[j]
      /\ \A k \in DOMAIN ready' : ready'[k].kind = "wake" => ready'[k].stopper # s
      /\ stop[s].pc = "awaiting" => Over(stop[s].task)
  <2>1. CASE ready' = ready /\ stop[s].pc # "awaiting"
    BY <2>1 DEF StopInv, WakesOnce, WakeIsOver
  <2>2. CASE /\ ready # <<>> /\ ready' = Tail(ready)
             /\ Head(ready) = [kind |-> "wake", stopper |-> s]
    <3>1. WakesOnce
      BY DEF StopInv
    <3>2. /\ WakesOnce'
          /\ \A k \in DOMAIN ready' : \E j \in DOMAIN ready : ready'[k] = ready[j]
          /\ \A k \in DOMAIN ready' : ready'[k].kind = "wake" => ready'[k].stopper # s
      BY <1>1, <2>2, <3>1, WakesOfTail
    <3>3. 1 \in DOMAIN ready /\ ready[1] = [kind |-> "wake", stopper |-> s]
      BY <1>1, <2>2, TailLemma DEF TypeOK
    <3>4. Over(stop[s].task)
      BY <3>3 DEF StopInv, WakeIsOver
    <3>5. QED
      BY <3>2, <3>4
  <2>3. QED
    BY <2>1, <2>2
<1>4. WakeIsOver'
  <2>1. ASSUME NEW k \in DOMAIN ready', ready'[k].kind = "wake"
        PROVE  /\ ready'[k].stopper \in Stoppers
               /\ stop'[ready'[k].stopper].pc = "awaiting"
               /\ state'[stop'[ready'[k].stopper].task] \in OverStates
    <3>1. PICK j \in DOMAIN ready : ready'[k] = ready[j]
      BY <1>3
    <3> DEFINE r == ready'[k].stopper
    <3>2. /\ r \in Stoppers /\ stop[r].pc = "awaiting"
          /\ state[stop[r].task] \in OverStates
      BY <2>1, <3>1 DEF StopInv, WakeIsOver, Over
    <3>3. r # s
      BY <1>3, <2>1
    <3>4. stop[r].task \in Tasks
      BY <3>2 DEF StopInv, AnswerHolds
    <3>5. QED
      BY <1>2, <3>2, <3>3, <3>4 DEF Over
  <2>2. QED
    BY <2>1 DEF WakeIsOver, Over
<1>5. ASSUME NEW r \in Stoppers PROVE AnswerHolds(r)'
  <2>1. CASE r = s
    BY <2>1
  <2>2. CASE r # s
    <3>1. stop'[r] = stop[r] /\ AnswerHolds(r) /\ stop[r] \in StopCall
      BY <1>1, <1>2, <2>2 DEF StopInv, TypeOK
    <3>2. stop[r].asked \subseteq Tasks
      BY <3>1 DEF StopCall
    <3>3. QED
      BY <1>2, <3>1, <3>2 DEF AnswerHolds, Over
  <2>3. QED
    BY <2>1, <2>2
<1>6. CASE state' = state /\ c.pc # "awaiting"
  <2>1. CancellingIsPopped'
    BY <1>6 DEF StopInv, CancellingIsPopped, Stops
  <2>2. AwaitedIsStopped'
    BY <1>2, <1>6 DEF StopInv, AwaitedIsStopped, Awaits, Over
  <2>3. ASSUME NEW t \in Tasks, state'[t] = "cancelling"
        PROVE  \E q \in Stoppers : \A r \in Stoppers :
                  (stop'[r].pc = "awaiting" /\ stop'[r].task = t) <=> r = q
    <3>1. PICK q \in Stoppers : \A r \in Stoppers : Awaits(r, t) <=> r = q
      BY <1>6, <2>3 DEF StopInv, CancelledHasOneStopper
    <3>2. q # s
      BY <1>3, <1>6, <2>3, <3>1 DEF Awaits, Over, OverStates
    <3>3. QED
      BY <1>2, <1>6, <3>1, <3>2 DEF Awaits
  <2>4. CancelledHasOneStopper'
    BY <2>3 DEF CancelledHasOneStopper, Awaits
  <2>5. QED
    BY <1>3, <1>4, <1>5, <2>1, <2>2, <2>4 DEF StopInv
<1>7. ASSUME NEW u \in tasks, Live(u), u \notin tasks',
             state' = [state EXCEPT ![u] = "cancelling"],
             c.pc = "awaiting", c.task = u
      PROVE  StopInv'
  <2>1. u \in Tasks /\ state[u] = "running"
    BY <1>1, <1>7 DEF StopInv, CancellingIsPopped, TypeOK, Live
  <2>2. CancellingIsPopped'
    BY <1>1, <1>7, <2>1 DEF StopInv, CancellingIsPopped, Stops, TypeOK
  <2>3. AwaitedIsStopped'
    <3>1. SUFFICES ASSUME NEW r \in Stoppers, NEW t \in Tasks,
                          stop'[r].pc = "awaiting", stop'[r].task = t
                   PROVE  state'[t] = "cancelling" \/ state'[t] \in OverStates
      BY DEF AwaitedIsStopped, Awaits, Over
    <3>2. CASE r = s
      BY <1>1, <1>2, <1>7, <2>1, <3>1, <3>2 DEF TypeOK
    <3>3. CASE r # s
      <4>1. state[t] = "cancelling" \/ Over(t)
        BY <1>2, <3>1, <3>3 DEF StopInv, AwaitedIsStopped, Awaits
      <4>2. t # u
        BY <2>1, <4>1 DEF Over, OverStates
      <4>3. QED
        BY <1>1, <1>7, <2>1, <4>1, <4>2 DEF Over, TypeOK
    <3>4. QED
      BY <3>2, <3>3
  <2>4. ASSUME NEW t \in Tasks, state'[t] = "cancelling"
        PROVE  \E q \in Stoppers : \A r \in Stoppers :
                  (stop'[r].pc = "awaiting" /\ stop'[r].task = t) <=> r = q
    <3>1. CASE t = u
      <4>1. \A r \in Stoppers : ~Awaits(r, u)
        BY <2>1 DEF StopInv, AwaitedIsStopped, Over, OverStates
      <4>2. QED
        BY <1>2, <1>7, <3>1, <4>1 DEF Awaits
    <3>2. CASE t # u
      <4>1. state[t] = "cancelling"
        BY <1>1, <1>7, <2>4, <3>2 DEF TypeOK
      <4>2. PICK q \in Stoppers : \A r \in Stoppers : Awaits(r, t) <=> r = q
        BY <4>1 DEF StopInv, CancelledHasOneStopper
      <4>3. q # s
        BY <1>3, <4>1, <4>2 DEF Awaits, Over, OverStates
      <4>4. QED
        BY <1>2, <1>7, <3>2, <4>2, <4>3 DEF Awaits
    <3>3. QED
      BY <3>1, <3>2
  <2>5. CancelledHasOneStopper'
    BY <2>4 DEF CancelledHasOneStopper, Awaits
  <2>6. QED
    BY <1>3, <1>4, <1>5, <2>2, <2>3, <2>5 DEF StopInv
<1>8. QED
  BY <1>6, <1>7 DEF Stops

-----------------------------------------------------------------------------
\* How far the loop of stop_item_tasks gets: to the end, past tasks that are
\* all over; to an error; or to the first task it must await.
LEMMA LoopEffect ==
    ASSUME TypeOK, NEW s \in Stoppers, NEW call \in StopCall,
           call.list \in Tasks, Loop(s, call)
    PROVE  \E c : /\ Stops(s, c)
                  /\ c.asked = call.asked /\ c.list = call.list
                  /\ c.pc = "awaiting" =>
                        \E k \in call.pos .. Len(lists[call.list]) :
                            c.task = lists[call.list][k]
                  /\ c.pc # "awaiting" =>
                        /\ c.pc = "returned"
                        /\ c.result = "stopped" =>
                              \A k \in call.pos .. Len(lists[call.list]) :
                                  Over(lists[call.list][k])
<1> DEFINE l == lists[call.list]
           rest == call.pos .. Len(l)
           ret(a) == [call EXCEPT !.pc = "returned", !.task = NoTask, !.result = a]
           Goal(c) == /\ Stops(s, c)
                      /\ c.asked = call.asked /\ c.list = call.list
                      /\ c.pc = "awaiting" => \E k \in rest : c.task = l[k]
                      /\ c.pc # "awaiting" =>
                            /\ c.pc = "returned"
                            /\ c.result = "stopped" => \A k \in rest : Over(l[k])
<1>1. /\ l \in Seq(Tasks) /\ Len(l) \in Nat /\ DOMAIN l = 1 .. Len(l)
      /\ call.pos \in Nat
  BY DEF TypeOK, StopCall
<1>2. /\ call.pc \in {"idle", "awaiting", "returned"}
      /\ \A a \in {"stopped", "notfound", "raised"} :
            /\ ret(a) \in StopCall /\ ret(a).pc = "returned" /\ ret(a).result = a
            /\ ret(a).asked = call.asked /\ ret(a).list = call.list
  BY DEF StopCall
<1>3. \/ /\ {k \in rest : ~Passed(l[k])} = {}
         /\ tasks' = tasks \ {l[k] : k \in rest}
         /\ Return(s, "stopped", call)
         /\ UNCHANGED state
      \/ \E k \in rest :
           /\ k \in {m \in rest : ~Passed(l[m])}
           /\ LET t == l[k]
                  popped == {l[j] : j \in call.pos .. (k - 1)}
              IN  \/ /\ t \notin tasks
                     /\ tasks' = tasks \ popped
                     /\ Return(s, "notfound", call)
                     /\ UNCHANGED state
                  \/ /\ t \in tasks /\ state[t] = "raised"
                     /\ tasks' = tasks \ (popped \cup {t})
                     /\ Return(s, "raised", call)
                     /\ UNCHANGED state
                  \/ /\ t \in tasks /\ Live(t)
                     /\ tasks' = tasks \ (popped \cup {t})
                     /\ Suspend(s, t, [call EXCEPT !.pos = k + 1])
  BY Zenon DEF Loop
<1>4. ASSUME {k \in rest : ~Passed(l[k])} = {},
             tasks' = tasks \ {l[k] : k \in rest},
             Return(s, "stopped", call),
             UNCHANGED state
      PROVE  \E c : Goal(c)
  <2>1. Stops(s, ret("stopped"))
    BY <1>2, <1>4 DEF Stops, Return
  <2>2. \A k \in rest : Over(l[k])
    BY <1>4 DEF Passed, Over, OverStates
  <2>3. Goal(ret("stopped"))
    BY <1>2, <2>1, <2>2
  <2>4. QED
    BY <2>3
<1>5. ASSUME NEW a \in {"notfound", "raised"}, Return(s, a, call), UNCHANGED state,
             tasks' \subseteq tasks
      PROVE  \E c : Goal(c)
  <2>1. /\ ret(a) \in StopCall /\ ret(a).pc = "returned" /\ ret(a).result = a
        /\ ret(a).asked = call.asked /\ ret(a).list = call.list
    BY <1>2, <1>5
  <2>2. stop' = [stop EXCEPT ![s] = ret(a)]
    BY <1>5 DEF Return
  <2> HIDE DEF ret
  <2>3. Stops(s, ret(a))
    BY <1>5, <2>1, <2>2 DEF Stops
  <2>4. Goal(ret(a))
    BY <1>5, <2>1, <2>3
  <2>5. QED
    BY <2>4
<1>6. ASSUME NEW k \in rest, l[k] \in tasks, Live(l[k]),
             NEW popped, tasks' = tasks \ (popped \cup {l[k]}),
             Suspend(s, l[k], [call EXCEPT !.pos = k + 1])
      PROVE  \E c : Goal(c)
  <2> DEFINE next == [call EXCEPT !.pos = k + 1]
             c == [next EXCEPT !.pc = "awaiting", !.task = l[k]]
  <2>1. l[k] \in Tasks /\ k \in Nat
    BY <1>1, <1>6 DEF TypeOK
  <2>2. /\ c \in StopCall /\ c.pc = "awaiting" /\ c.task = l[k]
        /\ c.asked = call.asked /\ c.list = call.list
    <3>1. next \in StopCall /\ next.asked = call.asked /\ next.list = call.list
      BY <2>1 DEF StopCall
    <3> HIDE DEF next
    <3>2. QED
      BY <2>1, <3>1 DEF StopCall
  <2>3. /\ state' = [state EXCEPT ![l[k]] = "cancelling"]
        /\ stop' = [stop EXCEPT ![s] = c]
    BY <1>6 DEF Suspend
  <2>4. tasks' \subseteq tasks /\ l[k] \notin tasks'
    BY <1>6
  <2> HIDE DEF c
  <2>5. Stops(s, c)
    BY <1>6, <2>2, <2>3, <2>4 DEF Stops
  <2>6. Goal(c)
    BY <1>6, <2>2, <2>5
  <2>7. QED
    BY <2>6
<1>7. \E c : Goal(c)
  <2>1. ASSUME NEW k \in rest,
               LET t == l[k]
                   popped == {l[j] : j \in call.pos .. (k - 1)}
               IN  \/ /\ t \notin tasks
                      /\ tasks' = tasks \ popped
                      /\ Return(s, "notfound", call)
                      /\ UNCHANGED state
                   \/ /\ t \in tasks /\ state[t] = "raised"
                      /\ tasks' = tasks \ (popped \cup {t})
                      /\ Return(s, "raised", call)
                      /\ UNCHANGED state
                   \/ /\ t \in tasks /\ Live(t)
                      /\ tasks' = tasks \ (popped \cup {t})
                      /\ Suspend(s, t, [call EXCEPT !.pos = k + 1])
        PROVE  \E c : Goal(c)
    <3> DEFINE t == l[k]
               popped == {l[j] : j \in call.pos .. (k - 1)}
    <3>1. CASE /\ tasks' = tasks \ popped
               /\ Return(s, "notfound", call) /\ UNCHANGED state
      <4>1. tasks' \subseteq tasks
        BY <3>1
      <4> HIDE DEF Goal
      <4>2. QED
        BY <1>5, <3>1, <4>1
    <3>2. CASE /\ tasks' = tasks \ (popped \cup {t})
               /\ Return(s, "raised", call) /\ UNCHANGED state
      <4>1. tasks' \subseteq tasks
        BY <3>2
      <4> HIDE DEF Goal
      <4>2. QED
        BY <1>5, <3>2, <4>1
    <3>3. CASE /\ t \in tasks /\ Live(t)
               /\ tasks' = tasks \ (popped \cup {t})
               /\ Suspend(s, t, [call EXCEPT !.pos = k + 1])
      <4> HIDE DEF Goal, popped
      <4>1. QED
        BY <1>6, <3>3
    <3> HIDE DEF Goal
    <3>4. QED
      BY <2>1, <3>1, <3>2, <3>3
  <2> HIDE DEF Goal
  <2>2. QED
    BY <1>3, <1>4, <2>1
<1>8. QED
  BY <1>7

-----------------------------------------------------------------------------
\* A call that returns without looking at a task.
LEMMA ReturnStops ==
    ASSUME NEW s \in Stoppers, NEW call \in StopCall,
           NEW answer \in {"empty", "stopped", "notfound", "raised"},
           Return(s, answer, call), UNCHANGED state, tasks' \subseteq tasks
    PROVE  \E c : /\ Stops(s, c) /\ c.pc = "returned" /\ c.result = answer
                  /\ c.asked = call.asked /\ c.list = call.list
<1> DEFINE c == [call EXCEPT !.pc = "returned", !.task = NoTask, !.result = answer]
<1>1. /\ c \in StopCall /\ c.pc = "returned" /\ c.result = answer
      /\ c.asked = call.asked /\ c.list = call.list
  BY DEF StopCall
<1>2. stop' = [stop EXCEPT ![s] = c]
  BY DEF Return
<1> HIDE DEF c
<1>3. Stops(s, c)
  BY <1>1, <1>2 DEF Stops
<1>4. QED
  BY <1>1, <1>3

LEMMA StopTaskKeepsStopInv ==
    ASSUME StopInv, NEW s \in Stoppers, NEW t \in Tasks, StopTask(s, t)
    PROVE  StopInv'
<1> DEFINE call == [Idle EXCEPT !.asked = {t}]
<1>1. Inv /\ TypeOK
  BY DEF StopInv, Inv
<1>2. Inv'
  BY <1>1, StopTaskStep
<1>3. /\ call \in StopCall /\ call.asked = {t} /\ call.list = NoList
  BY DEF Idle, StopCall
<1>4. /\ ready' = ready /\ stop[s].pc # "awaiting" /\ tasks' = tasks \ {t}
      /\ state[t] # "unborn"
  BY DEF StopTask
<1>5. ASSUME t \notin tasks, Return(s, "notfound", call), UNCHANGED state
      PROVE  StopInv'
  <2>1. PICK c : /\ Stops(s, c) /\ c.pc = "returned" /\ c.result = "notfound"
                 /\ c.asked = {t}
    <3> HIDE DEF call
    <3>1. QED
      BY <1>3, <1>4, <1>5, ReturnStops
  <2>2. stop'[s] = c
    BY <2>1, StopsMovesOn
  <2>3. state[t] # "running"
    BY <1>1, <1>5 DEF Inv, RunningIsStoppable
  <2>4. AnswerHolds(s)'
    BY <1>4, <1>5, <2>1, <2>2, <2>3 DEF AnswerHolds
  <2>5. QED
    BY <1>2, <1>4, <2>1, <2>4, StopsStep
<1>6. ASSUME Over(t), UNCHANGED state,
             NEW answer \in {"raised", "stopped"}, Return(s, answer, call)
      PROVE  StopInv'
  <2>1. PICK c : /\ Stops(s, c) /\ c.pc = "returned" /\ c.result = answer
                 /\ c.asked = {t}
    <3> HIDE DEF call
    <3>1. QED
      BY <1>3, <1>4, <1>6, ReturnStops
  <2>2. stop'[s] = c
    BY <2>1, StopsMovesOn
  <2>3. AnswerHolds(s)'
    BY <1>6, <2>1, <2>2 DEF AnswerHolds, Over
  <2>4. QED
    BY <1>2, <1>4, <2>1, <2>3, StopsStep
<1>7. ASSUME t \in tasks, Live(t), Suspend(s, t, call)
      PROVE  StopInv'
  <2> DEFINE c == [call EXCEPT !.pc = "awaiting", !.task = t]
  <2>1. /\ c \in StopCall /\ c.pc = "awaiting" /\ c.task = t /\ c.asked = {t}
        /\ c.list = NoList
    <3> HIDE DEF call
    <3>1. QED
      BY <1>3 DEF StopCall
  <2>2. stop' = [stop EXCEPT ![s] = c] /\ state' = [state EXCEPT ![t] = "cancelling"]
    BY <1>7 DEF Suspend
  <2> HIDE DEF c
  <2>3. Stops(s, c)
    BY <1>4, <1>7, <2>1, <2>2 DEF Stops
  <2>4. stop'[s] = c
    BY <2>3, StopsMovesOn
  <2>5. AnswerHolds(s)'
    BY <2>1, <2>4 DEF AnswerHolds
  <2>6. QED
    BY <1>2, <1>4, <2>3, <2>5, StopsStep
<1> HIDE DEF call
<1>8. \/ t \notin tasks /\ Return(s, "notfound", call) /\ UNCHANGED state
      \/ /\ t \in tasks /\ Over(t) /\ UNCHANGED state
         /\ Return(s, IF state[t] = "raised" THEN "raised" ELSE "stopped", call)
      \/ t \in tasks /\ Live(t) /\ Suspend(s, t, call)
  BY DEF StopTask, call
<1>9. QED
  BY <1>5, <1>6, <1>7, <1>8

LEMMA StopItemTasksKeepsStopInv ==
    ASSUME StopInv, NEW s \in Stoppers, NEW i \in Items, StopItemTasks(s, i)
    PROVE  StopInv'
<1>1. Inv /\ TypeOK
  BY DEF StopInv, Inv
<1>2. Inv'
  BY <1>1, StopItemTasksStep
<1>3. ready' = ready /\ stop[s].pc # "awaiting"
  BY DEF StopItemTasks
<1>4. ASSUME Return(s, "empty", Idle), UNCHANGED <<state, tasks>>
      PROVE  StopInv'
  <2>1. Idle \in StopCall
    BY DEF Idle, StopCall
  <2>2. PICK c : Stops(s, c) /\ c.pc = "returned" /\ c.result = "empty"
    BY <1>4, <2>1, ReturnStops
  <2>3. stop'[s] = c
    BY <2>2, StopsMovesOn
  <2>4. AnswerHolds(s)'
    BY <2>2, <2>3 DEF AnswerHolds
  <2>5. QED
    BY <1>2, <1>3, <2>2, <2>4, StopsStep
<1>5. ASSUME item_tasks[i] # NoList,
             Loop(s, [Idle EXCEPT !.list = item_tasks[i], !.asked = Listed(i)])
      PROVE  StopInv'
  <2> DEFINE l == lists[item_tasks[i]]
             call == [Idle EXCEPT !.list = item_tasks[i], !.asked = Listed(i)]
  <2>1. /\ item_tasks[i] \in Tasks /\ l \in Seq(Tasks)
        /\ Listed(i) = Elements(l) /\ Listed(i) \subseteq Tasks
    <3>1. item_tasks[i] \in Tasks
      BY <1>1, <1>5 DEF TypeOK
    <3>2. l \in Seq(Tasks) /\ Listed(i) = Elements(l)
      BY <1>1, <1>5, <3>1 DEF TypeOK, Listed
    <3>3. QED
      BY <3>1, <3>2 DEF Elements
  <2>2. /\ call \in StopCall /\ call.list = item_tasks[i] /\ call.pos = 1
        /\ call.asked = Elements(l)
    BY <2>1 DEF Idle, StopCall
  <2>3. DOMAIN l = 1 .. Len(l)
    BY <2>1
  <2>4. Loop(s, call)
    BY <1>5
  <2> HIDE DEF call, l
  <2>5. PICK c : /\ Stops(s, c)
                 /\ c.asked = Elements(l) /\ c.list = item_tasks[i]
                 /\ c.pc = "awaiting" => \E k \in DOMAIN l : c.task = l[k]
                 /\ c.pc # "awaiting" =>
                       /\ c.pc = "returned"
                       /\ c.result = "stopped" => \A k \in DOMAIN l : Over(l[k])
    BY <1>1, <2>1, <2>2, <2>3, <2>4, LoopEffect DEF l
  <2>6. /\ stop'[s] = c /\ item_tasks[i] # NoList
        /\ \A t \in Tasks : Over(t) => Over(t)'
    BY <1>5, <2>5, StopsMovesOn
  <2>7. \A t : Elements(l) = {t} =>
              \E k \in DOMAIN l : l[k] = t
    BY DEF Elements
  <2>8. \A t : Elements(l) = {t} => \A k \in DOMAIN l : l[k] = t
    BY DEF Elements
  <2>9. \A k \in DOMAIN l : l[k] \in Tasks
    BY <2>1
  <2>10. AnswerHolds(s)'
    <3>1. CASE c.pc = "awaiting"
      BY <2>5, <2>6, <2>8, <2>9, <3>1 DEF AnswerHolds
    <3>2. CASE c.pc # "awaiting"
      BY <2>5, <2>6, <2>7, <2>9, <3>2 DEF AnswerHolds
    <3>3. QED
      BY <3>1, <3>2
  <2>11. QED
    BY <1>2, <1>3, <2>5, <2>10, StopsStep
<1>6. QED
  BY <1>4, <1>5 DEF StopItemTasks

LEMMA WakeKeepsStopInv ==
    ASSUME StopInv, NEW s \in Stoppers, Wake(s)
    PROVE  StopInv'
<1> DEFINE call == stop[s]
<1>1. Inv /\ TypeOK /\ call \in StopCall
  BY DEF StopInv, Inv, TypeOK
<1>2. Inv'
  BY <1>1, WakeStep
<1>3. /\ ready # <<>> /\ ready' = Tail(ready)
      /\ Head(ready) = [kind |-> "wake", stopper |-> s]
  BY DEF Wake, RunHandle
<1>4. call.pc = "awaiting" /\ Over(call.task)
  <2>1. 1 \in DOMAIN ready /\ ready[1] = [kind |-> "wake", stopper |-> s]
    BY <1>1, <1>3, TailLemma DEF TypeOK
  <2>2. QED
    BY <2>1 DEF StopInv, WakeIsOver
<1>5. /\ call.task \in Tasks
      /\ call.list = NoList => call.asked = {call.task}
      /\ \A t \in Tasks : call.asked = {t} => Over(t)
  BY <1>4 DEF StopInv, AnswerHolds
<1>6. ASSUME NEW answer \in {"raised", "stopped"}, Return(s, answer, call),
             UNCHANGED <<state, tasks>>,
             answer = "stopped" => call.list = NoList
      PROVE  StopInv'
  <2>1. PICK c : /\ Stops(s, c) /\ c.pc = "returned" /\ c.result = answer
                 /\ c.asked = call.asked /\ c.list = call.list
    BY <1>1, <1>6, ReturnStops
  <2>2. stop'[s] = c
    BY <2>1, StopsMovesOn
  <2>3. AnswerHolds(s)'
    BY <1>4, <1>5, <1>6, <2>1, <2>2 DEF AnswerHolds, Over
  <2>4. QED
    BY <1>2, <1>3, <2>1, <2>3, StopsStep
<1>7. ASSUME call.list # NoList, Loop(s, call)
      PROVE  StopInv'
  <2> DEFINE l == lists[call.list]
  <2>1. call.list \in Tasks /\ l \in Seq(Tasks) /\ call.pos \in Nat
    BY <1>1, <1>7 DEF StopCall, TypeOK
  <2>2. PICK c : /\ Stops(s, c)
                 /\ c.asked = call.asked /\ c.list = call.list
                 /\ c.pc = "awaiting" => \E k \in call.pos .. Len(l) : c.task = l[k]
                 /\ c.pc # "awaiting" => c.pc = "returned"
    BY <1>1, <1>7, <2>1, LoopEffect
  <2>3. /\ stop'[s] = c
        /\ \A t \in Tasks : Over(t) => Over(t)'
    BY <2>2, StopsMovesOn
  <2>4. c.pc = "awaiting" => c.task \in Tasks
    BY <1>1, <2>2 DEF Stops, TypeOK
  <2>5. AnswerHolds(s)'
    BY <1>5, <1>7, <2>2, <2>3, <2>4 DEF AnswerHolds
  <2>6. QED
    BY <1>2, <1>3, <2>2, <2>5, StopsStep
<1>8. QED
  BY <1>6, <1>7 DEF Wake

-----------------------------------------------------------------------------
\* The steps that concern no stopping coroutine: tasks start, callbacks and
\* cleanups run.
LEMMA QuietStep ==
    ASSUME StopInv, Inv', stop' = stop, WakesOnce', CancellingIsPopped',
           \A k \in DOMAIN ready' : ready'[k].kind = "wake" =>
               \E j \in DOMAIN ready : ready'[k] = ready[j],
           \A t \in Tasks : state[t] \notin {"unborn", "running"} => state'[t] = state[t],
           \A t \in Tasks : state'[t] = "cancelling" => state[t] = "cancelling"
    PROVE  StopInv'
<1>1. TypeOK
  BY DEF StopInv, Inv
<1>2. \A t \in Tasks : Over(t) => Over(t)'
  BY DEF Over, OverStates
<1>3. AwaitedIsStopped'
  BY <1>2 DEF StopInv, AwaitedIsStopped, Awaits, Over
<1>4. CancelledHasOneStopper'
  BY DEF StopInv, CancelledHasOneStopper, Awaits
<1>5. WakeIsOver'
  <2>1. ASSUME NEW k \in DOMAIN ready', ready'[k].kind = "wake"
        PROVE  /\ ready'[k].stopper \in Stoppers
               /\ stop[ready'[k].stopper].pc = "awaiting"
               /\ state'[stop[ready'[k].stopper].task] \in OverStates
    <3>1. PICK j \in DOMAIN ready : ready'[k] = ready[j]
      BY <2>1
    <3> DEFINE r == ready'[k].stopper
    <3>2. r \in Stoppers /\ stop[r].pc = "awaiting" /\ Over(stop[r].task)
      BY <2>1, <3>1 DEF StopInv, WakeIsOver
    <3>3. stop[r].task \in Tasks
      BY <3>2 DEF StopInv, AnswerHolds
    <3>4. QED
      BY <1>2, <3>2, <3>3 DEF Over
  <2>2. QED
    BY <2>1 DEF WakeIsOver, Over
<1>6. ASSUME NEW r \in Stoppers PROVE AnswerHolds(r)'
  <2>1. AnswerHolds(r) /\ stop[r].asked \subseteq Tasks
    BY <1>1 DEF StopInv, TypeOK, StopCall
  <2>2. QED
    BY <1>2, <2>1 DEF AnswerHolds, Over
<1>7. QED
  BY <1>3, <1>4, <1>5, <1>6 DEF StopInv

LEMMA CreateKeepsStopInv ==
    ASSUME StopInv, NEW t \in Tasks, CreateTask(t)
    PROVE  StopInv'
<1>1. Inv /\ TypeOK
  BY DEF StopInv, Inv
<1>2. Inv'
  BY <1>1, CreateStep
<1>3. /\ stop' = stop /\ ready' = ready /\ tasks' = tasks \cup {t}
      /\ state[t] = "unborn" /\ state' = [state EXCEPT ![t] = "running"]
  BY DEF CreateTask
<1>4. /\ \A u \in Tasks : state[u] \notin {"unborn", "running"} => state'[u] = state[u]
      /\ \A u \in Tasks : state'[u] = "cancelling" => state[u] = "cancelling" /\ u # t
  BY <1>1, <1>3 DEF TypeOK
<1>5. CancellingIsPopped'
  BY <1>3, <1>4 DEF StopInv, CancellingIsPopped
<1>6. WakesOnce'
  BY <1>3 DEF StopInv, WakesOnce
<1>7. QED
  BY <1>2, <1>3, <1>4, <1>5, <1>6, QuietStep

LEMMA DoneCallbackKeepsStopInv ==
    ASSUME StopInv, NEW t \in Tasks, DoneCallback(t)
    PROVE  StopInv'
<1> DEFINE h == [kind |-> "cleanup", task |-> t]
           q == Tail(ready)
<1>1. Inv /\ TypeOK /\ WakesOnce
  BY DEF StopInv, Inv
<1>2. Inv'
  BY <1>1, DoneCallbackStep
<1>3. /\ stop' = stop /\ tasks' = tasks /\ state' = state
      /\ ready # <<>> /\ ready' = Append(q, h)
  BY DEF DoneCallback, RunHandle
<1>4. /\ q \in Seq(Handle)
      /\ \A k \in DOMAIN q : k + 1 \in DOMAIN ready /\ q[k] = ready[k + 1]
  BY <1>1, <1>3, TailLemma DEF TypeOK
<1>5. h \in Handle /\ h.kind # "wake"
  BY DEF Handle
<1> HIDE DEF h, q
<1>6. /\ Len(q) \in Nat /\ DOMAIN q = 1 .. Len(q)
      /\ DOMAIN ready' = 1 .. (Len(q) + 1)
      /\ \A k \in DOMAIN q : ready'[k] = q[k]
      /\ ready'[Len(q) + 1] = h
  BY <1>3, <1>4, <1>5, QueueAppend
<1>7. \A k \in DOMAIN ready' : ready'[k].kind = "wake" =>
          k \in Nat /\ k + 1 \in DOMAIN ready /\ ready'[k] = ready[k + 1]
  BY <1>4, <1>5, <1>6
<1>8. WakesOnce'
  <2>1. SUFFICES ASSUME NEW j \in DOMAIN ready', NEW k \in DOMAIN ready',
                        ready'[j].kind = "wake", ready'[k].kind = "wake",
                        ready'[j].stopper = ready'[k].stopper
                 PROVE  j = k
    BY DEF WakesOnce
  <2>2. j + 1 = k + 1 /\ j \in Nat /\ k \in Nat
    BY <1>1, <1>7, <2>1 DEF WakesOnce
  <2>3. QED
    BY <2>2
<1>9. CancellingIsPopped'
  BY <1>3 DEF StopInv, CancellingIsPopped
<1>10. QED
  BY <1>2, <1>3, <1>7, <1>8, <1>9, QuietStep

LEMMA CleanupKeepsStopInv ==
    ASSUME StopInv, NEW t \in Tasks, CleanupTask(t)
    PROVE  StopInv'
<1>1. Inv /\ TypeOK /\ WakesOnce
  BY DEF StopInv, Inv
<1>2. Inv'
  BY <1>1, CleanupStep
<1>3. /\ stop' = stop /\ tasks' = tasks \ {t} /\ state' = state
      /\ ready # <<>> /\ ready' = Tail(ready)
  BY DEF CleanupTask, RunHandle
<1>4. /\ WakesOnce'
      /\ \A k \in DOMAIN ready' : k + 1 \in DOMAIN ready /\ ready'[k] = ready[k + 1]
  BY <1>1, <1>3, WakesOfTail
<1>5. CancellingIsPopped'
  BY <1>3 DEF StopInv, CancellingIsPopped
<1>6. QED
  BY <1>2, <1>3, <1>4, <1>5, QuietStep

\* The end of a task wakes the coroutine that awaits it, and only that one.
LEMMA FinishKeepsStopInv ==
    ASSUME StopInv, NEW t \in Tasks, NEW o \in OverStates, Finish(t, o)
    PROVE  StopInv'
<1> DEFINE cb == [kind |-> "callback", task |-> t]
           w(s) == [kind |-> "wake", stopper |-> s]
<1>1. Inv /\ TypeOK /\ WakesOnce
  BY DEF StopInv, Inv
<1>2. Inv'
  BY <1>1, FinishStep
<1>3. /\ stop' = stop /\ tasks' = tasks
      /\ state[t] \in {"running", "cancelling"} /\ state' = [state EXCEPT ![t] = o]
  BY DEF Finish
<1>4. /\ \A u \in Tasks : Over(u) => Over(u)'
      /\ \A u \in Tasks : state'[u] = "cancelling" => state[u] = "cancelling" /\ u # t
      /\ \A u \in Tasks : state'[u] \in {"unborn", "running"} => state'[u] = state[u]
      /\ state'[t] \in OverStates
      /\ \A u \in Tasks : u # t => state'[u] = state[u]
  BY <1>1, <1>3 DEF TypeOK, Over, OverStates
<1>5. CancellingIsPopped' /\ CancelledHasOneStopper'
  BY <1>3, <1>4 DEF StopInv, CancellingIsPopped, CancelledHasOneStopper, Awaits
<1>6. AwaitedIsStopped'
  BY <1>3, <1>4 DEF StopInv, AwaitedIsStopped, Awaits, Over
<1>7. ASSUME NEW r \in Stoppers PROVE AnswerHolds(r)'
  <2>1. AnswerHolds(r) /\ stop[r].asked \subseteq Tasks
    BY <1>1 DEF StopInv, TypeOK, StopCall
  <2>2. QED
    BY <1>3, <1>4, <2>1 DEF AnswerHolds, Over
<1>8. ready \in Seq(Handle) /\ cb \in Handle /\ cb.kind = "callback"
  BY <1>1 DEF TypeOK, Handle
<1>9. \A k \in DOMAIN ready : ready[k].kind = "wake" =>
         /\ ready[k].stopper \in Stoppers
         /\ stop[ready[k].stopper].pc = "awaiting"
         /\ state'[stop[ready[k].stopper].task] \in OverStates
         /\ stop[ready[k].stopper].task # t
  <2>1. ASSUME NEW k \in DOMAIN ready, ready[k].kind = "wake"
        PROVE  /\ ready[k].stopper \in Stoppers
               /\ stop[ready[k].stopper].pc = "awaiting"
               /\ state'[stop[ready[k].stopper].task] \in OverStates
               /\ stop[ready[k].stopper].task # t
    <3> DEFINE r == ready[k].stopper
    <3>1. r \in Stoppers /\ stop[r].pc = "awaiting" /\ Over(stop[r].task)
      BY <2>1 DEF StopInv, WakeIsOver
    <3>2. stop[r].task \in Tasks
      BY <3>1 DEF StopInv, AnswerHolds
    <3>3. QED
      BY <1>3, <1>4, <3>1, <3>2 DEF Over, OverStates
  <2>2. QED
    BY <2>1
<1> DEFINE n == Len(ready)
<1>10. CASE ready' = Append(ready, cb)
  <2>1. /\ n \in Nat /\ DOMAIN ready = 1 .. n /\ DOMAIN ready' = 1 .. (n + 1)
        /\ \A k \in DOMAIN ready : ready'[k] = ready[k]
        /\ ready'[n + 1] = cb
    <3> HIDE DEF cb
    <3>1. QED
      BY <1>8, <1>10, QueueAppend
  <2> HIDE DEF cb, n
  <2>2. \A k \in DOMAIN ready' : ready'[k].kind = "wake" =>
            k \in DOMAIN ready /\ ready'[k] = ready[k]
    BY <1>8, <2>1
  <2>3. WakesOnce'
    BY <1>1, <2>2 DEF WakesOnce
  <2>4. WakeIsOver'
    BY <1>3, <1>9, <2>2 DEF WakeIsOver, Over
  <2>5. QED
    BY <1>2, <1>5, <1>6, <1>7, <2>3, <2>4 DEF StopInv
<1>11. ASSUME NEW s \in Stoppers, Awaits(s, t), ready' = ready \o <<cb, w(s)>>
       PROVE  StopInv'
  <2>1. w(s) \in Handle /\ w(s).kind = "wake" /\ w(s).stopper = s
    BY DEF Handle
  <2> HIDE DEF w, cb
  <2>2. ready' = Append(Append(ready, cb), w(s))
    BY <1>8, <1>11, <2>1
  <2>3. /\ n \in Nat /\ DOMAIN ready = 1 .. n
        /\ Append(ready, cb) \in Seq(Handle) /\ Len(Append(ready, cb)) = n + 1
        /\ DOMAIN Append(ready, cb) = 1 .. (n + 1)
        /\ \A k \in DOMAIN ready : Append(ready, cb)[k] = ready[k]
        /\ Append(ready, cb)[n + 1] = cb
    BY <1>8, QueueAppend
  <2>4. /\ DOMAIN ready' = 1 .. (n + 1 + 1)
        /\ \A k \in 1 .. (n + 1) : ready'[k] = Append(ready, cb)[k]
        /\ ready'[n + 1 + 1] = w(s)
    BY <2>1, <2>2, <2>3, QueueAppend
  <2> HIDE DEF n
  <2>5. \A k \in DOMAIN ready' : ready'[k].kind = "wake" =>
            \/ k \in DOMAIN ready /\ ready'[k] = ready[k]
            \/ k = n + 1 + 1 /\ ready'[k].stopper = s
    <3>1. ASSUME NEW k \in DOMAIN ready', ready'[k].kind = "wake"
          PROVE  \/ k \in DOMAIN ready /\ ready'[k] = ready[k]
                 \/ k = n + 1 + 1 /\ ready'[k].stopper = s
      <4>1. k \in 1 .. n \/ k = n + 1 \/ k = n + 1 + 1
        BY <2>3, <2>4, <3>1
      <4>2. k \in 1 .. n => k \in 1 .. (n + 1)
        BY <2>3
      <4>3. n + 1 \in 1 .. (n + 1)
        BY <2>3
      <4>4. k # n + 1
        BY <1>8, <2>3, <2>4, <3>1, <4>3
      <4>5. QED
        BY <2>1, <2>3, <2>4, <4>1, <4>2, <4>4
    <3>2. QED
      BY <3>1
  <2>6. stop[s].pc = "awaiting" /\ stop[s].task = t
    BY <1>11 DEF Awaits
  <2>7. \A k \in DOMAIN ready : ready[k].kind = "wake" => ready[k].stopper # s
    BY <1>9, <2>6
  <2>8. WakesOnce'
    BY <1>1, <2>5, <2>7 DEF WakesOnce
  <2>9. WakeIsOver'
    BY <1>3, <1>4, <1>9, <2>5, <2>6 DEF WakeIsOver, Over
  <2>10. QED
    BY <1>2, <1>5, <1>6, <1>7, <2>8, <2>9 DEF StopInv
<1>12. QED
  BY <1>10, <1>11 DEF Finish

LEMMA ForgetKeepsStopInv ==
    ASSUME StopInv, NEW s \in Stoppers, Forget(s)
    PROVE  StopInv'
<1>1. Inv /\ TypeOK
  BY DEF StopInv, Inv
<1>2. /\ stop[s].pc = "returned" /\ stop' = [stop EXCEPT ![s] = Idle]
      /\ UNCHANGED <<state, item, tasks, item_tasks, lists, ready>>
  BY DEF Forget
<1>3. Idle \in StopCall /\ Idle.pc = "idle"
  BY DEF Idle, StopCall
<1>4. Inv'
  BY <1>1, <1>2, <1>3 DEF Inv, TypeOK, RunningIsStoppable, HandlesAreOver, ListsAreOwn,
                          Listed, Over
<1>5. Stops(s, Idle)
  BY <1>2, <1>3 DEF Stops
<1>6. stop'[s] = Idle
  BY <1>5, StopsMovesOn
<1>7. AnswerHolds(s)'
  BY <1>3, <1>6 DEF AnswerHolds
<1>8. QED
  BY <1>2, <1>4, <1>5, <1>7, StopsStep

-----------------------------------------------------------------------------
\* The invariant of the stopping coroutines holds initially and every step
\* keeps it.
THEOREM StopInvariance == Spec => []StopInv
<1>1. Init => StopInv
  <2> SUFFICES ASSUME Init PROVE StopInv
    OBVIOUS
  <2>1. <<>> \in Seq(Tasks) /\ <<>> \in Seq(Handle) /\ DOMAIN <<>> = {}
    OBVIOUS
  <2>2. Idle \in StopCall /\ Idle.pc = "idle"
    BY DEF Idle, StopCall
  <2>3. Inv
    BY <2>1, <2>2 DEF Init, Inv, TypeOK, TaskStates, RunningIsStoppable,
                      HandlesAreOver, ListsAreOwn
  <2>4. CancellingIsPopped /\ CancelledHasOneStopper /\ WakeIsOver /\ WakesOnce
    BY <2>1 DEF Init, CancellingIsPopped, CancelledHasOneStopper, WakeIsOver, WakesOnce
  <2>5. AwaitedIsStopped /\ \A s \in Stoppers : AnswerHolds(s)
    BY <2>2 DEF Init, AwaitedIsStopped, Awaits, AnswerHolds
  <2>6. QED
    BY <2>3, <2>4, <2>5 DEF StopInv
<1>2. StopInv /\ [Next]_vars => StopInv'
  <2> SUFFICES ASSUME StopInv, [Next]_vars PROVE StopInv'
    OBVIOUS
  <2>1. ASSUME NEW t \in Tasks, CreateTask(t) PROVE StopInv'
    BY <2>1, CreateKeepsStopInv
  <2>2. ASSUME NEW t \in Tasks, NEW o \in OverStates, Finish(t, o) PROVE StopInv'
    BY <2>2, FinishKeepsStopInv
  <2>3. ASSUME NEW s \in Stoppers, NEW t \in Tasks, StopTask(s, t) PROVE StopInv'
    BY <2>3, StopTaskKeepsStopInv
  <2>4. ASSUME NEW s \in Stoppers, NEW i \in Items, StopItemTasks(s, i)
        PROVE  StopInv'
    BY <2>4, StopItemTasksKeepsStopInv
  <2>5. ASSUME NEW t \in Tasks, DoneCallback(t) PROVE StopInv'
    BY <2>5, DoneCallbackKeepsStopInv
  <2>6. ASSUME NEW t \in Tasks, CleanupTask(t) PROVE StopInv'
    BY <2>6, CleanupKeepsStopInv
  <2>7. ASSUME NEW s \in Stoppers, Wake(s) PROVE StopInv'
    BY <2>7, WakeKeepsStopInv
  <2>8. ASSUME NEW s \in Stoppers, Forget(s) PROVE StopInv'
    BY <2>8, ForgetKeepsStopInv
  <2>9. CASE UNCHANGED vars
    BY <2>9 DEF vars, StopInv, Inv, TypeOK, RunningIsStoppable, HandlesAreOver,
                ListsAreOwn, Listed, Over, CancellingIsPopped, AwaitedIsStopped, Awaits,
                CancelledHasOneStopper, WakeIsOver, WakesOnce, AnswerHolds
  <2>10. QED
    BY <2>1, <2>2, <2>3, <2>4, <2>5, <2>6, <2>7, <2>8, <2>9 DEF Next, RunReady
<1>3. QED
  BY <1>1, <1>2, PTL DEF Spec

\* However many coroutines race to stop a task, one of them cancels it and
\* awaits its end, and no other does.
THEOREM OneStopper == Spec => []CancelledHasOneStopper
<1>1. StopInv => CancelledHasOneStopper
  BY DEF StopInv
<1>2. QED
  BY <1>1, StopInvariance, PTL

\* The answers of stop_task are true when they are given.
THEOREM AnswersAreTrue == Spec => []StopTaskTellsTruth
<1>1. StopInv => StopTaskTellsTruth
  BY DEF StopInv, AnswerHolds, StopTaskTellsTruth
<1>2. QED
  BY <1>1, StopInvariance, PTL

\* stop_item_tasks says "stopped" of an item with one task only when that task
\* is over, whatever joins the list while it waits.
THEOREM OnlyTaskIsStopped == Spec => []OnlyTaskStopped
<1>1. StopInv => OnlyTaskStopped
  BY DEF StopInv, AnswerHolds, OnlyTaskStopped
<1>2. QED
  BY <1>1, StopInvariance, PTL

-----------------------------------------------------------------------------
\* Entries of tasks that are over: what a list holds belongs to its item and
\* is there once, so that one cleanup removes it.
Injective(l) == \A j, k \in DOMAIN l : l[j] = l[k] => j = k

ListedOfItem == \A i \in Items : \A t \in Listed(i) : item[t] = i

ListedOnce == \A i \in Items : item_tasks[i] # NoList => Injective(lists[item_tasks[i]])

EntryInv == Inv /\ NoStaleEntry /\ ListedOfItem /\ ListedOnce

\* list.remove leaves nothing of an entry that was there once.
LEMMA WithoutTaskOnce ==
    ASSUME NEW S, NEW l \in Seq(S), Injective(l), NEW t \in Elements(l)
    PROVE  /\ Elements(WithoutTask(l, t)) = Elements(l) \ {t}
           /\ Injective(WithoutTask(l, t))
<1> DEFINE k == CHOOSE j \in DOMAIN l : l[j] = t
           w == [j \in 1 .. (Len(l) - 1) |-> IF j < k THEN l[j] ELSE l[j + 1]]
<1>1. k \in DOMAIN l /\ l[k] = t
  BY DEF Elements
<1>2. DOMAIN l = 1 .. Len(l) /\ Len(l) \in Nat /\ Len(l) > 0
  BY <1>1
<1>3. Elements(l) \ {t} \subseteq Elements(w)
  BY WithoutTaskLemma DEF WithoutTask
<1>4. DOMAIN w = 1 .. (Len(l) - 1)
  OBVIOUS
<1> HIDE DEF k
<1>5. \A j \in DOMAIN w : \/ (j < k /\ j \in DOMAIN l /\ w[j] = l[j])
                          \/ (j >= k /\ j + 1 \in DOMAIN l /\ w[j] = l[j + 1])
  <2>1. SUFFICES ASSUME NEW j \in 1 .. (Len(l) - 1)
                 PROVE  \/ j < k /\ j \in DOMAIN l /\ w[j] = l[j]
                        \/ j >= k /\ j + 1 \in DOMAIN l /\ w[j] = l[j + 1]
    BY <1>4
  <2>2. j \in DOMAIN l /\ j + 1 \in DOMAIN l /\ (j < k \/ j >= k)
    BY <1>1, <1>2
  <2>3. w[j] = IF j < k THEN l[j] ELSE l[j + 1]
    OBVIOUS
  <2>4. j >= k => ~(j < k)
    BY <1>1, <1>2
  <2>5. QED
    BY <2>2, <2>3, <2>4
<1>6. k \in Nat /\ \A j \in DOMAIN w : j \in Nat
  BY <1>1, <1>2, <1>4
<1> HIDE DEF w
<1>7. \A j \in DOMAIN w : w[j] \in Elements(l) /\ w[j] # t
  BY <1>1, <1>5, <1>6 DEF Elements, Injective
<1>8. Elements(w) \subseteq Elements(l) \ {t}
  BY <1>7 DEF Elements
<1>9. Injective(w)
  <2>1. SUFFICES ASSUME NEW i \in DOMAIN w, NEW j \in DOMAIN w, w[i] = w[j]
                 PROVE  i = j
    BY DEF Injective
  <2>2. CASE i < k /\ j < k
    <3>1. w[i] = l[i] /\ w[j] = l[j] /\ i \in DOMAIN l /\ j \in DOMAIN l
      BY <1>5, <1>6, <2>2
    <3>2. QED
      BY <2>1, <3>1 DEF Injective
  <2>3. CASE i >= k /\ j >= k
    <3>1. w[i] = l[i + 1] /\ w[j] = l[j + 1] /\ i + 1 \in DOMAIN l /\ j + 1 \in DOMAIN l
      BY <1>5, <1>6, <2>3
    <3>2. i + 1 = j + 1
      BY <2>1, <3>1 DEF Injective
    <3>3. QED
      BY <1>6, <3>2
  <2>4. CASE i < k /\ j >= k
    <3>1. w[i] = l[i] /\ w[j] = l[j + 1] /\ i \in DOMAIN l /\ j + 1 \in DOMAIN l
      BY <1>5, <1>6, <2>4
    <3>2. i = j + 1
      BY <2>1, <3>1 DEF Injective
    <3>3. QED
      BY <1>6, <2>4, <3>2
  <2>5. CASE i >= k /\ j < k
    <3>1. w[i] = l[i + 1] /\ w[j] = l[j] /\ i + 1 \in DOMAIN l /\ j \in DOMAIN l
      BY <1>5, <1>6, <2>5
    <3>2. i + 1 = j
      BY <2>1, <3>1 DEF Injective
    <3>3. QED
      BY <1>6, <2>5, <3>2
  <2>6. QED
    BY <1>6, <2>2, <2>3, <2>4, <2>5
<1>10. QED
  BY <1>3, <1>8, <1>9 DEF w, k, WithoutTask

\* list.append of a task the list does not hold.
LEMMA AppendOnce ==
    ASSUME NEW S, NEW l \in Seq(S), Injective(l), NEW t \in S, t \notin Elements(l)
    PROVE  Injective(Append(l, t))
<1> DEFINE a == Append(l, t)
<1>1. /\ Len(l) \in Nat /\ DOMAIN l = 1 .. Len(l)
      /\ DOMAIN a = 1 .. (Len(l) + 1)
      /\ \A k \in DOMAIN l : a[k] = l[k]
      /\ a[Len(l) + 1] = t
  BY QueueAppend
<1> HIDE DEF a
<1>2. \A k \in DOMAIN l : a[k] # t
  BY <1>1 DEF Elements
<1>3. \A k \in DOMAIN a : k \in DOMAIN l \/ k = Len(l) + 1
  BY <1>1
<1>4. Injective(a)
  <2>1. SUFFICES ASSUME NEW j \in DOMAIN a, NEW k \in DOMAIN a, a[j] = a[k]
                 PROVE  j = k
    BY DEF Injective
  <2>2. QED
    BY <1>1, <1>2, <1>3, <2>1 DEF Injective
<1>5. QED
  BY <1>4 DEF a

\* Every handle but the first stays in the rest of the queue.
LEMMA TailKeeps ==
    ASSUME NEW S, NEW q \in Seq(S), q # <<>>, NEW k \in DOMAIN q, q[k] # Head(q)
    PROVE  \E j \in DOMAIN Tail(q) : Tail(q)[j] = q[k]
<1>1. Len(q) \in Nat /\ Len(q) > 0 /\ DOMAIN q = 1 .. Len(q)
  OBVIOUS
<1>2. /\ Head(q) = q[1] /\ Tail(q) \in Seq(S) /\ Len(Tail(q)) = Len(q) - 1
      /\ \A i \in 1 .. Len(Tail(q)) : Tail(q)[i] = q[i + 1]
  OBVIOUS
<1>3. k # 1
  BY <1>2
<1>4. k - 1 \in 1 .. Len(Tail(q)) /\ (k - 1) + 1 = k
  BY <1>1, <1>2, <1>3
<1>5. DOMAIN Tail(q) = 1 .. Len(Tail(q))
  BY <1>2
<1>6. Tail(q)[k - 1] = q[k]
  BY <1>2, <1>4
<1>7. QED
  BY <1>4, <1>5, <1>6

\* Whatever is left of the queue, no cleanup gets lost but those that ran.
LEMMA PendingStays ==
    ASSUME TypeOK, NEW u \in Tasks, CleanupPending(u), ready # <<>>,
           ~(Head(ready).kind \in {"callback", "cleanup"} /\ Head(ready).task = u)
    PROVE  \E k \in DOMAIN Tail(ready) : /\ Tail(ready)[k].kind \in {"callback", "cleanup"}
                                         /\ Tail(ready)[k].task = u
<1>1. PICK k \in DOMAIN ready : /\ ready[k].kind \in {"callback", "cleanup"}
                                /\ ready[k].task = u
  BY DEF CleanupPending
<1>2. ready[k] # Head(ready)
  BY <1>1
<1>3. \E j \in DOMAIN Tail(ready) : Tail(ready)[j] = ready[k]
  BY <1>2, TailKeeps DEF TypeOK
<1>4. QED
  BY <1>1, <1>3

-----------------------------------------------------------------------------
\* Whatever a request to stop does, it is one of the steps described by Stops.
LEMMA StopsIsAll ==
    ASSUME Inv, NEW s \in Stoppers,
           \/ \E t \in Tasks : StopTask(s, t)
           \/ \E i \in Items : StopItemTasks(s, i)
           \/ Wake(s)
    PROVE  \E c : Stops(s, c)
<1>1. TypeOK
  BY DEF Inv
<1>2. ASSUME NEW call \in StopCall, call.list \in Tasks, Loop(s, call)
      PROVE  \E c : Stops(s, c)
  BY <1>1, <1>2, LoopEffect
<1>3. ASSUME NEW t \in Tasks, StopTask(s, t)
      PROVE  \E c : Stops(s, c)
  <2> DEFINE call == [Idle EXCEPT !.asked = {t}]
             next == [call EXCEPT !.pc = "awaiting", !.task = t]
  <2>1. call \in StopCall
    BY DEF Idle, StopCall
  <2>2. next \in StopCall /\ next.pc = "awaiting" /\ next.task = t
    <3> HIDE DEF call
    <3>1. QED
      BY <2>1 DEF StopCall
  <2>3. tasks' = tasks \ {t}
    BY <1>3 DEF StopTask
  <2>4. ASSUME NEW answer \in {"notfound", "raised", "stopped"},
               Return(s, answer, call), UNCHANGED state
        PROVE  \E c : Stops(s, c)
    <3> HIDE DEF call
    <3>1. QED
      BY <2>1, <2>3, <2>4, ReturnStops
  <2>5. ASSUME t \in tasks, Live(t), Suspend(s, t, call)
        PROVE  \E c : Stops(s, c)
    <3>1. stop' = [stop EXCEPT ![s] = next] /\ state' = [state EXCEPT ![t] = "cancelling"]
      BY <2>5 DEF Suspend
    <3> HIDE DEF next
    <3>2. Stops(s, next)
      BY <2>2, <2>3, <2>5, <3>1 DEF Stops
    <3>3. QED
      BY <3>2
  <2> HIDE DEF call
  <2>6. \/ t \notin tasks /\ Return(s, "notfound", call) /\ UNCHANGED state
        \/ /\ t \in tasks /\ Over(t) /\ UNCHANGED state
           /\ Return(s, IF state[t] = "raised" THEN "raised" ELSE "stopped", call)
        \/ t \in tasks /\ Live(t) /\ Suspend(s, t, call)
    BY <1>3 DEF StopTask, call
  <2>7. QED
    BY <2>4, <2>5, <2>6
<1>4. ASSUME NEW i \in Items, StopItemTasks(s, i)
      PROVE  \E c : Stops(s, c)
  <2>1. CASE Return(s, "empty", Idle) /\ UNCHANGED <<state, tasks>>
    <3>1. Idle \in StopCall
      BY DEF Idle, StopCall
    <3>2. QED
      BY <2>1, <3>1, ReturnStops
  <2>2. ASSUME item_tasks[i] # NoList,
               Loop(s, [Idle EXCEPT !.list = item_tasks[i], !.asked = Listed(i)])
        PROVE  \E c : Stops(s, c)
    <3> DEFINE call == [Idle EXCEPT !.list = item_tasks[i], !.asked = Listed(i)]
    <3>1. item_tasks[i] \in Tasks /\ Listed(i) \in SUBSET Tasks
      <4>1. item_tasks[i] \in Tasks
        BY <1>1, <2>2 DEF TypeOK
      <4>2. lists[item_tasks[i]] \in Seq(Tasks)
        BY <1>1, <4>1 DEF TypeOK
      <4>3. QED
        BY <4>1, <4>2 DEF Listed, Elements
    <3>2. call \in StopCall /\ call.list \in Tasks
      BY <3>1 DEF Idle, StopCall
    <3>3. Loop(s, call)
      BY <2>2
    <3> HIDE DEF call
    <3>4. QED
      BY <1>2, <3>2, <3>3
  <2>3. QED
    BY <1>4, <2>1, <2>2 DEF StopItemTasks
<1>5. ASSUME Wake(s)
      PROVE  \E c : Stops(s, c)
  <2>1. stop[s] \in StopCall
    BY <1>1 DEF TypeOK
  <2>2. ASSUME NEW answer \in {"raised", "stopped"}, Return(s, answer, stop[s]),
               UNCHANGED <<state, tasks>>
        PROVE  \E c : Stops(s, c)
    BY <2>1, <2>2, ReturnStops
  <2>3. CASE stop[s].list # NoList /\ Loop(s, stop[s])
    <3>1. stop[s].list \in Tasks
      BY <2>1, <2>3 DEF StopCall
    <3>2. QED
      BY <1>2, <2>1, <2>3, <3>1
  <2>4. QED
    BY <1>5, <2>2, <2>3 DEF Wake
<1>6. QED
  BY <1>3, <1>4, <1>5

\* What the steps that leave the lists alone must keep: tasks that live or
\* whose cleanup is queued.
LEMMA SameListsStep ==
    ASSUME EntryInv, Inv', UNCHANGED <<item, item_tasks, lists>>, tasks' \subseteq tasks,
           \A u \in Tasks : Live(u) \/ CleanupPending(u) => Live(u)' \/ CleanupPending(u)'
    PROVE  EntryInv'
<1>1. ListedOfItem' /\ ListedOnce'
  BY DEF EntryInv, ListedOfItem, ListedOnce, Listed
<1>2. NoStaleEntry'
  BY DEF EntryInv, NoStaleEntry, Listed
<1>3. QED
  BY <1>1, <1>2 DEF EntryInv

LEMMA StopsKeepsEntries ==
    ASSUME EntryInv, Inv', NEW s \in Stoppers, NEW c, Stops(s, c),
           UNCHANGED <<item, item_tasks, lists>>,
           \/ ready' = ready
           \/ /\ ready # <<>> /\ ready' = Tail(ready)
              /\ Head(ready) = [kind |-> "wake", stopper |-> s]
    PROVE  EntryInv'
<1>1. TypeOK
  BY DEF EntryInv, Inv
<1>2. ASSUME NEW u \in Tasks, Live(u) PROVE Live(u)'
  BY <1>1, <1>2 DEF Stops, Live, TypeOK
<1>3. ASSUME NEW u \in Tasks, CleanupPending(u) PROVE CleanupPending(u)'
  <2>1. CASE ready' = ready
    BY <1>3, <2>1 DEF CleanupPending
  <2>2. CASE /\ ready # <<>> /\ ready' = Tail(ready)
             /\ Head(ready) = [kind |-> "wake", stopper |-> s]
    <3>1. Head(ready).kind = "wake"
      BY <2>2
    <3>2. QED
      BY <1>1, <1>3, <2>2, <3>1, PendingStays DEF CleanupPending
  <2>3. QED
    BY <2>1, <2>2
<1>4. tasks' \subseteq tasks
  BY DEF Stops
<1>5. QED
  BY <1>2, <1>3, <1>4, SameListsStep

LEMMA FinishKeepsEntries ==
    ASSUME EntryInv, NEW t \in Tasks, NEW o \in OverStates, Finish(t, o)
    PROVE  EntryInv'
<1> DEFINE cb == [kind |-> "callback", task |-> t]
           n == Len(ready)
<1>1. Inv /\ TypeOK
  BY DEF EntryInv, Inv
<1>2. Inv'
  BY <1>1, FinishStep
<1>3. /\ UNCHANGED <<item, tasks, item_tasks, lists>>
      /\ state' = [state EXCEPT ![t] = o]
  BY DEF Finish
<1>4. ready \in Seq(Handle) /\ cb \in Handle /\ cb.kind = "callback" /\ cb.task = t
  BY <1>1 DEF TypeOK, Handle
<1>5. /\ \A k \in DOMAIN ready : k \in DOMAIN ready' /\ ready'[k] = ready[k]
      /\ n + 1 \in DOMAIN ready' /\ ready'[n + 1] = cb
  <2> HIDE DEF cb, n
  <2>1. /\ n \in Nat /\ DOMAIN ready = 1 .. n
        /\ Append(ready, cb) \in Seq(Handle) /\ Len(Append(ready, cb)) = n + 1
        /\ DOMAIN Append(ready, cb) = 1 .. (n + 1)
        /\ \A k \in DOMAIN ready : Append(ready, cb)[k] = ready[k]
        /\ Append(ready, cb)[n + 1] = cb
    BY <1>4, QueueAppend DEF n
  <2>2. \A k \in DOMAIN ready : k \in 1 .. (n + 1)
    BY <2>1
  <2>3. CASE ready' = Append(ready, cb)
    BY <2>1, <2>2, <2>3
  <2>4. ASSUME NEW s \in Stoppers,
               ready' = ready \o <<cb, [kind |-> "wake", stopper |-> s]>>
        PROVE  /\ \A k \in DOMAIN ready : k \in DOMAIN ready' /\ ready'[k] = ready[k]
               /\ n + 1 \in DOMAIN ready' /\ ready'[n + 1] = cb
    <3> DEFINE w == [kind |-> "wake", stopper |-> s]
    <3>1. w \in Handle
      BY DEF Handle
    <3> HIDE DEF w
    <3>2. ready' = Append(Append(ready, cb), w)
      BY <1>4, <2>4, <3>1 DEF w
    <3>3. /\ DOMAIN ready' = 1 .. (n + 1 + 1)
          /\ \A k \in 1 .. (n + 1) : ready'[k] = Append(ready, cb)[k]
      BY <2>1, <3>1, <3>2, QueueAppend
    <3>4. \A k \in 1 .. (n + 1) : k \in DOMAIN ready'
      BY <2>1, <3>3
    <3>5. n + 1 \in 1 .. (n + 1)
      BY <2>1
    <3>6. QED
      BY <2>1, <2>2, <3>3, <3>4, <3>5
  <2>5. QED
    BY <2>3, <2>4 DEF Finish, cb
<1>6. ASSUME NEW u \in Tasks, Live(u) \/ CleanupPending(u)
      PROVE  Live(u)' \/ CleanupPending(u)'
  <2>1. CASE CleanupPending(u)
    BY <1>5, <2>1 DEF CleanupPending
  <2>2. CASE u = t
    BY <1>4, <1>5, <2>2 DEF CleanupPending
  <2>3. CASE Live(u) /\ u # t
    BY <1>1, <1>3, <2>3 DEF Live, TypeOK
  <2>4. QED
    BY <1>6, <2>1, <2>2, <2>3
<1>7. QED
  BY <1>2, <1>3, <1>6, SameListsStep

LEMMA DoneCallbackKeepsEntries ==
    ASSUME EntryInv, NEW t \in Tasks, DoneCallback(t)
    PROVE  EntryInv'
<1> DEFINE h == [kind |-> "cleanup", task |-> t]
           q == Tail(ready)
<1>1. Inv /\ TypeOK
  BY DEF EntryInv, Inv
<1>2. Inv'
  BY <1>1, DoneCallbackStep
<1>3. /\ UNCHANGED <<state, item, tasks, item_tasks, lists>>
      /\ ready # <<>> /\ ready' = Append(q, h)
      /\ Head(ready) = [kind |-> "callback", task |-> t]
  BY DEF DoneCallback, RunHandle
<1>4. q \in Seq(Handle) /\ h \in Handle /\ h.kind = "cleanup" /\ h.task = t
  BY <1>1, <1>3, TailLemma DEF TypeOK, Handle
<1>5. /\ Len(q) \in Nat /\ DOMAIN q = 1 .. Len(q)
      /\ DOMAIN ready' = 1 .. (Len(q) + 1)
      /\ \A k \in DOMAIN q : ready'[k] = q[k]
      /\ ready'[Len(q) + 1] = h
  <2> HIDE DEF h, q
  <2>1. QED
    BY <1>3, <1>4, QueueAppend
<1>6. /\ \A k \in DOMAIN q : k \in DOMAIN ready'
      /\ Len(q) + 1 \in DOMAIN ready'
  BY <1>5
<1>7. ASSUME NEW u \in Tasks, CleanupPending(u) PROVE CleanupPending(u)'
  <2>1. CASE u = t
    BY <1>4, <1>5, <1>6, <2>1 DEF CleanupPending
  <2>2. CASE u # t
    <3>1. ~(Head(ready).kind \in {"callback", "cleanup"} /\ Head(ready).task = u)
      BY <1>3, <2>2
    <3>2. \E k \in DOMAIN q : q[k].kind \in {"callback", "cleanup"} /\ q[k].task = u
      BY <1>1, <1>3, <1>7, <3>1, PendingStays
    <3>3. QED
      BY <1>5, <1>6, <3>2 DEF CleanupPending
  <2>3. QED
    BY <2>1, <2>2
<1>8. \A u \in Tasks : Live(u) => Live(u)'
  BY <1>3 DEF Live
<1>9. QED
  BY <1>2, <1>3, <1>7, <1>8, SameListsStep

\* create_task enters a task no list holds yet, into a list of its own item.
LEMMA CreateKeepsEntries ==
    ASSUME EntryInv, NEW t \in Tasks, CreateTask(t)
    PROVE  EntryInv'
<1> DEFINE i == item[t]
<1>1. Inv /\ TypeOK /\ ListsAreOwn /\ HandlesAreOver
  BY DEF EntryInv, Inv
<1>2. Inv'
  BY <1>1, CreateStep
<1>3. /\ state[t] = "unborn" /\ state' = [state EXCEPT ![t] = "running"]
      /\ tasks' = tasks \cup {t} /\ ready' = ready /\ item' = item
      /\ i \in Items
  BY <1>1 DEF CreateTask, TypeOK
<1>4. ~Live(t) /\ ~CleanupPending(t)
  BY <1>1, <1>3 DEF Live, CleanupPending, HandlesAreOver, Over, OverStates
<1>5. t \notin tasks /\ \A j \in Items : t \notin Listed(j)
  BY <1>4 DEF EntryInv, NoStaleEntry
<1>6. /\ \A u \in Tasks : Live(u) \/ CleanupPending(u) => Live(u)' \/ CleanupPending(u)'
      /\ Live(t)'
  BY <1>1, <1>3 DEF Live, CleanupPending, TypeOK
<1>7. /\ \A j \in Items : j # i => Listed(j)' = Listed(j)
      /\ Listed(i)' = Listed(i) \cup {t}
      /\ ListedOnce'
  <2>1. CASE Listed(i) # {} /\ lists' = [lists EXCEPT ![item_tasks[i]] = Append(@, t)]
             /\ UNCHANGED item_tasks
    <3> DEFINE L == item_tasks[i]
    <3>1. L \in Tasks /\ L # NoList /\ lists[L] \in Seq(Tasks)
      BY <1>1, <1>3, <2>1 DEF Listed, TypeOK
    <3>2. /\ lists'[L] = Append(lists[L], t)
          /\ Elements(lists'[L]) = Elements(lists[L]) \cup {t}
      BY <1>1, <2>1, <3>1, AppendLemma DEF TypeOK
    <3>3. Injective(lists[L]) /\ t \notin Elements(lists[L])
      BY <1>3, <1>5, <3>1 DEF EntryInv, ListedOnce, Listed
    <3>4. Injective(lists'[L])
      BY <3>1, <3>2, <3>3, AppendOnce
    <3>5. \A j \in Items : j # i /\ item_tasks[j] # NoList =>
              item_tasks[j] # L /\ lists'[item_tasks[j]] = lists[item_tasks[j]]
      BY <1>1, <1>3, <2>1, <3>1 DEF ListsAreOwn, TypeOK
    <3>6. ListedOnce'
      BY <2>1, <3>4, <3>5 DEF EntryInv, ListedOnce
    <3>7. \A j \in Items : j # i => Listed(j)' = Listed(j)
      BY <2>1, <3>5 DEF Listed
    <3>8. Listed(i)' = Listed(i) \cup {t}
      BY <1>3, <2>1, <3>1, <3>2 DEF Listed
    <3>9. QED
      BY <3>6, <3>7, <3>8
  <2>2. CASE Listed(i) = {} /\ lists' = [lists EXCEPT ![t] = <<t>>]
             /\ item_tasks' = [item_tasks EXCEPT ![i] = t]
    <3>1. lists'[t] = <<t>> /\ item_tasks'[i] = t /\ t # NoList
      BY <1>1, <1>3, <2>2, NoListAssumption DEF TypeOK
    <3>2. Injective(<<t>>) /\ Elements(<<t>>) = {t}
      BY DEF Injective, Elements
    <3>3. \A j \in Items : j # i /\ item_tasks[j] # NoList =>
              /\ item_tasks'[j] = item_tasks[j]
              /\ item_tasks[j] # t /\ lists'[item_tasks[j]] = lists[item_tasks[j]]
      BY <1>1, <1>3, <2>2 DEF ListsAreOwn, TypeOK
    <3>4. \A j \in Items : j # i => item_tasks'[j] = item_tasks[j]
      BY <1>1, <2>2 DEF TypeOK
    <3>5. ListedOnce'
      BY <3>1, <3>2, <3>3, <3>4 DEF EntryInv, ListedOnce
    <3>6. \A j \in Items : j # i => Listed(j)' = Listed(j)
      BY <3>3, <3>4 DEF Listed
    <3>7. Listed(i)' = Listed(i) \cup {t}
      BY <1>3, <2>2, <3>1, <3>2 DEF Listed
    <3>8. QED
      BY <3>5, <3>6, <3>7
  <2>3. QED
    BY <2>1, <2>2 DEF CreateTask
<1>8. ListedOfItem'
  BY <1>3, <1>7 DEF EntryInv, ListedOfItem
<1>9. NoStaleEntry'
  <2>1. ASSUME NEW u \in Tasks, u \in tasks' \/ \E j \in Items : u \in Listed(j)'
        PROVE  Live(u)' \/ CleanupPending(u)'
    <3>1. u = t \/ u \in tasks \/ \E j \in Items : u \in Listed(j)
      BY <1>3, <1>7, <2>1
    <3>2. QED
      BY <1>6, <3>1 DEF EntryInv, NoStaleEntry
  <2>2. QED
    BY <2>1 DEF NoStaleEntry
<1>10. QED
  BY <1>2, <1>7, <1>8, <1>9 DEF EntryInv

\* cleanup_task removes every entry of its task, and keeps the others.
LEMMA CleanupKeepsEntries ==
    ASSUME EntryInv, NEW t \in Tasks, CleanupTask(t)
    PROVE  EntryInv'
<1> DEFINE i == item[t]
<1>1. Inv /\ TypeOK /\ ListsAreOwn
  BY DEF EntryInv, Inv
<1>2. Inv'
  BY <1>1, CleanupStep
<1>3. /\ state' = state /\ tasks' = tasks \ {t} /\ item' = item /\ i \in Items
      /\ ready # <<>> /\ ready' = Tail(ready)
      /\ Head(ready) = [kind |-> "cleanup", task |-> t]
  BY <1>1 DEF CleanupTask, RunHandle, TypeOK
<1>4. /\ \A j \in Items : Listed(j)' \subseteq Listed(j) \ {t}
      /\ ListedOnce'
  <2>1. \A j \in Items : j # i => t \notin Listed(j)
    BY DEF EntryInv, ListedOfItem
  <2>2. CASE t \notin Listed(i) /\ UNCHANGED <<lists, item_tasks>>
    <3>1. \A j \in Items : Listed(j)' = Listed(j) /\ t \notin Listed(j)
      BY <2>1, <2>2 DEF Listed
    <3>2. ListedOnce'
      BY <2>2 DEF EntryInv, ListedOnce
    <3>3. QED
      BY <3>1, <3>2
  <2>3. CASE /\ t \in Listed(i)
             /\ lists' = [lists EXCEPT ![item_tasks[i]] = WithoutTask(@, t)]
             /\ item_tasks' = IF Listed(i) = {t}
                               THEN [item_tasks EXCEPT ![i] = NoList]
                               ELSE item_tasks
    <3> DEFINE L == item_tasks[i]
    <3>1. /\ L \in Tasks /\ L # NoList /\ lists[L] \in Seq(Tasks)
          /\ t \in Elements(lists[L]) /\ Listed(i) = Elements(lists[L])
      BY <1>1, <1>3, <2>3 DEF Listed, TypeOK
    <3>2. Injective(lists[L])
      BY <1>3, <3>1 DEF EntryInv, ListedOnce
    <3>3. /\ lists'[L] = WithoutTask(lists[L], t)
          /\ Elements(lists'[L]) = Elements(lists[L]) \ {t}
          /\ Injective(lists'[L])
      BY <1>1, <2>3, <3>1, <3>2, WithoutTaskOnce DEF TypeOK
    <3>4. \A j \in Items : j # i => item_tasks'[j] = item_tasks[j]
      BY <1>1, <2>3 DEF TypeOK
    <3>5. \A j \in Items : j # i /\ item_tasks[j] # NoList =>
              item_tasks[j] # L /\ lists'[item_tasks[j]] = lists[item_tasks[j]]
      BY <1>1, <1>3, <2>3, <3>1 DEF ListsAreOwn, TypeOK
    <3>6. item_tasks'[i] = NoList \/ item_tasks'[i] = L
      BY <1>1, <1>3, <2>3 DEF TypeOK
    <3>7. \A j \in Items : j # i => Listed(j)' = Listed(j)
      BY <3>4, <3>5 DEF Listed
    <3>8. Listed(i)' \subseteq Listed(i) \ {t}
      BY <1>3, <3>1, <3>3, <3>6 DEF Listed
    <3>9. ListedOnce'
      BY <3>3, <3>4, <3>5, <3>6 DEF EntryInv, ListedOnce
    <3>10. QED
      BY <1>3, <2>1, <3>7, <3>8, <3>9
  <2>4. QED
    BY <2>2, <2>3 DEF CleanupTask
<1>5. ListedOfItem'
  BY <1>3, <1>4 DEF EntryInv, ListedOfItem
<1>6. ASSUME NEW u \in Tasks, u # t, Live(u) \/ CleanupPending(u)
      PROVE  Live(u)' \/ CleanupPending(u)'
  <2>1. CASE Live(u)
    BY <1>3, <2>1 DEF Live
  <2>2. CASE CleanupPending(u)
    <3>1. Head(ready).task # u
      BY <1>3, <1>6
    <3>2. QED
      BY <1>1, <1>3, <2>2, <3>1, PendingStays DEF CleanupPending
  <2>3. QED
    BY <1>6, <2>1, <2>2
<1>7. NoStaleEntry'
  <2>1. ASSUME NEW u \in Tasks, u \in tasks' \/ \E j \in Items : u \in Listed(j)'
        PROVE  Live(u)' \/ CleanupPending(u)'
    <3>1. u # t /\ (u \in tasks \/ \E j \in Items : u \in Listed(j))
      BY <1>3, <1>4, <2>1
    <3>2. QED
      BY <1>6, <3>1 DEF EntryInv, NoStaleEntry
  <2>2. QED
    BY <2>1 DEF NoStaleEntry
<1>8. QED
  BY <1>2, <1>4, <1>5, <1>7 DEF EntryInv

\* The invariant of the entries holds initially and every step keeps it.
THEOREM EntryInvariance == Spec => []EntryInv
<1>1. Init => EntryInv
  <2> SUFFICES ASSUME Init PROVE EntryInv
    OBVIOUS
  <2>1. <<>> \in Seq(Tasks) /\ <<>> \in Seq(Handle) /\ DOMAIN <<>> = {}
    OBVIOUS
  <2>2. Idle \in StopCall
    BY DEF Idle, StopCall
  <2>3. Inv
    BY <2>1, <2>2 DEF Init, Inv, TypeOK, TaskStates, RunningIsStoppable,
                      HandlesAreOver, ListsAreOwn
  <2>4. tasks = {} /\ \A i \in Items : item_tasks[i] = NoList /\ Listed(i) = {}
    BY DEF Init, Listed
  <2>5. QED
    BY <2>3, <2>4 DEF EntryInv, NoStaleEntry, ListedOfItem, ListedOnce
<1>2. EntryInv /\ [Next]_vars => EntryInv'
  <2> SUFFICES ASSUME EntryInv, [Next]_vars PROVE EntryInv'
    OBVIOUS
  <2>0. Inv
    BY DEF EntryInv
  <2>1. ASSUME NEW t \in Tasks, CreateTask(t) PROVE EntryInv'
    BY <2>1, CreateKeepsEntries
  <2>2. ASSUME NEW t \in Tasks, NEW o \in OverStates, Finish(t, o) PROVE EntryInv'
    BY <2>2, FinishKeepsEntries
  <2>3. ASSUME NEW s \in Stoppers, NEW t \in Tasks, StopTask(s, t) PROVE EntryInv'
    <3>1. PICK c : Stops(s, c)
      BY <2>0, <2>3, StopsIsAll
    <3>2. Inv' /\ ready' = ready /\ UNCHANGED <<item, item_tasks, lists>>
      BY <2>0, <2>3, StopTaskStep DEF StopTask
    <3>3. QED
      BY <3>1, <3>2, StopsKeepsEntries
  <2>4. ASSUME NEW s \in Stoppers, NEW i \in Items, StopItemTasks(s, i)
        PROVE  EntryInv'
    <3>1. PICK c : Stops(s, c)
      BY <2>0, <2>4, StopsIsAll
    <3>2. Inv' /\ ready' = ready /\ UNCHANGED <<item, item_tasks, lists>>
      BY <2>0, <2>4, StopItemTasksStep DEF StopItemTasks
    <3>3. QED
      BY <3>1, <3>2, StopsKeepsEntries
  <2>5. ASSUME NEW t \in Tasks, DoneCallback(t) PROVE EntryInv'
    BY <2>5, DoneCallbackKeepsEntries
  <2>6. ASSUME NEW t \in Tasks, CleanupTask(t) PROVE EntryInv'
    BY <2>6, CleanupKeepsEntries
  <2>7. ASSUME NEW s \in Stoppers, Wake(s) PROVE EntryInv'
    <3>1. PICK c : Stops(s, c)
      BY <2>0, <2>7, StopsIsAll
    <3>2. /\ ready # <<>> /\ ready' = Tail(ready)
          /\ Head(ready) = [kind |-> "wake", stopper |-> s]
          /\ UNCHANGED <<item, item_tasks, lists>>
      BY <2>7 DEF Wake, RunHandle
    <3>3. Inv'
      BY <2>0, <2>7, WakeStep
    <3>4. QED
      BY <3>1, <3>2, <3>3, StopsKeepsEntries
  <2>8. ASSUME NEW s \in Stoppers, Forget(s) PROVE EntryInv'
    <3>1. UNCHANGED <<state, item, tasks, item_tasks, lists, ready>>
      BY <2>8 DEF Forget
    <3>2. Idle \in StopCall
      BY DEF Idle, StopCall
    <3>3. Inv'
      BY <2>0, <2>8, <3>2 DEF Forget, Inv, TypeOK, RunningIsStoppable, HandlesAreOver,
                              ListsAreOwn, Listed, Over
    <3>4. QED
      BY <3>1, <3>3, SameListsStep DEF Live, CleanupPending
  <2>9. CASE UNCHANGED vars
    BY <2>9 DEF vars, EntryInv, Inv, TypeOK, RunningIsStoppable, HandlesAreOver,
                ListsAreOwn, Listed, Over, NoStaleEntry, Live, CleanupPending,
                ListedOfItem, ListedOnce
  <2>10. QED
    BY <2>1, <2>2, <2>3, <2>4, <2>5, <2>6, <2>7, <2>8, <2>9 DEF Next, RunReady
<1>3. QED
  BY <1>1, <1>2, PTL DEF Spec

\* No entry of the registry outlives its task and the cleanup queued for it.
THEOREM NoEntryIsStale == Spec => []NoStaleEntry
<1>1. EntryInv => NoStaleEntry
  BY DEF EntryInv
<1>2. QED
  BY <1>1, EntryInvariance, PTL
=============================================================================
