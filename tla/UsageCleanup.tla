----------------------------- MODULE UsageCleanup -----------------------------
(***************************************************************************)
(* The models in use: periodic_usage_pool_cleanup and the usage handler of *)
(* backend/open_webui/socket/main.py, over RedisLock and RedisDict of      *)
(* socket/utils.py.                                                        *)
(*                                                                         *)
(* Clients report the models they use; a cleaner removes the reports that  *)
(* have timed out.  Every instance starts a cleaner, a lock that expires   *)
(* lets one of them run.  The Redis client is synchronous: between two of  *)
(* its commands an instance runs nothing else, other instances do.         *)
(*                                                                         *)
(* Time passes in ticks.  Timestamps are ages, sleeps and the lock's       *)
(* expiry are what is left of them.  (Ages saturate once timed out.)       *)
(***************************************************************************)
EXTENDS Naturals, FiniteSets, Functions

CONSTANTS Instances, Models, Sids,
          TimeoutDuration,  \* TIMEOUT_DURATION
          LockTimeout,      \* WEBSOCKET_REDIS_LOCK_TIMEOUT
          Stall,            \* how late an instance may be with what is due
          MaxCrashes,       \* bound
          None

ASSUME TimeAssumption == /\ TimeoutDuration \in Nat \ {0}
                         /\ LockTimeout \in Nat \ {0}
                         /\ Stall \in Nat /\ MaxCrashes \in Nat

VARIABLES
    home,     \* [Sids -> Instances], the instance a session is connected to
    lock,     \* [owner, ttl], the Redis key of the lock
    pool,     \* USAGE_POOL, a hash: model -> (session -> age of the report)
    pc,       \* [Instances -> Pc], the cleaner
    attempt,  \* [Instances -> 0..2], the attempt to get the lock
    delay,    \* [Instances -> Nat], its retry_delay
    wait,     \* [Instances -> Nat], what is left of its sleep
    late,     \* [Instances -> 0..Stall], since when it should go on
    work,     \* [Instances -> Pool], the models it still has to look at
    report,   \* [Instances -> Report], the usage handler
    crashes   \* how many crashes there were

vars == <<home, lock, pool, pc, attempt, delay, wait, late, work, report, crashes>>

Pc     == {"acquire", "renew", "items", "models", "release", "delete",
           "over", "crashed"}
Ages   == 0..(TimeoutDuration + 1)
Usage  == UNION {[S -> Ages] : S \in SUBSET Sids}
Pool   == UNION {[M -> Usage] : M \in SUBSET Models}
Report == [step : {"idle", "get", "set"}, model : Models \cup {None},
           sid : Sids \cup {None}, age : Ages, read : Usage]
Empty  == [x \in {} |-> None]
Idle   == [step |-> "idle", model |-> None, sid |-> None, age |-> 0, read |-> Empty]
NoLock == [owner |-> None, ttl |-> 0]
\* Deviation: any delay up to the lock's timeout.
Delays_Any == 1..LockTimeout
Delays == {d \in 1..LockTimeout : 2 * d >= LockTimeout}

\* The coroutines of an instance: the usage handler runs to its end, and so does
\* the cleaner until it sleeps.
Cleaning(i)   == pc[i] \in {"items", "models", "release", "delete"}
MayClean(i)   == report[i].step = "idle" /\ wait[i] = 0
MayReport(i)  == report[i].step = "idle" /\ ~Cleaning(i) /\ pc[i] # "crashed"

\* Between getting the lock and giving it up.
InLoop(i) == pc[i] \in {"renew", "items", "models"}

Init == /\ home \in [Sids -> Instances]
        /\ lock = NoLock /\ pool = Empty
        /\ pc = [i \in Instances |-> "acquire"]
        /\ attempt = [i \in Instances |-> 0]
        /\ delay \in [Instances -> Delays]
        /\ wait \in [Instances -> 0..LockTimeout]   \* when it starts
        /\ late = [i \in Instances |-> 0]
        /\ work = [i \in Instances |-> Empty]
        /\ report = [i \in Instances |-> Idle]
        /\ crashes = 0

-----------------------------------------------------------------------------
\* periodic_usage_pool_cleanup

Goto(i, from, to) == /\ MayClean(i) /\ pc[i] = from
                     /\ pc' = [pc EXCEPT ![i] = to]

Sleep(i, d) == /\ wait' = [wait EXCEPT ![i] = d]
               /\ late' = [late EXCEPT ![i] = 0]

\* Deviation: the lock is set without nx.
Acquire_Always(i) ==
    /\ Goto(i, "acquire", "renew")
    /\ lock' = [owner |-> i, ttl |-> LockTimeout]
    /\ UNCHANGED <<home, pool, attempt, delay, wait, late, work, report, crashes>>

\* aquire_func: set the lock's key if there is none
Acquire(i) ==
    /\ lock = NoLock
    /\ Goto(i, "acquire", "renew")
    /\ lock' = [owner |-> i, ttl |-> LockTimeout]
    /\ UNCHANGED <<home, pool, attempt, delay, wait, late, work, report, crashes>>

\* Deviation: the attempts are not limited.
Retry_Always(i) ==
    /\ lock # NoLock
    /\ Goto(i, "acquire", "acquire")
    /\ attempt' = [attempt EXCEPT ![i] = @ + 1]
    /\ Sleep(i, delay[i])
    /\ UNCHANGED <<home, lock, pool, delay, work, report, crashes>>

Retry(i) ==
    /\ lock # NoLock /\ attempt[i] < 2
    /\ Goto(i, "acquire", "acquire")
    /\ attempt' = [attempt EXCEPT ![i] = @ + 1]
    /\ Sleep(i, delay[i])
    /\ UNCHANGED <<home, lock, pool, delay, work, report, crashes>>

\* "Failed to acquire cleanup lock after retries."
GiveUp(i) ==
    /\ lock # NoLock /\ attempt[i] = 2
    /\ Goto(i, "acquire", "over")
    /\ UNCHANGED <<home, lock, pool, attempt, delay, wait, late, work, report, crashes>>

\* renew_func: set the lock's key if there is one, whoever has set it
Renew(i) ==
    /\ lock # NoLock
    /\ Goto(i, "renew", "items")
    /\ lock' = [owner |-> i, ttl |-> LockTimeout]
    /\ UNCHANGED <<home, pool, attempt, delay, wait, late, work, report, crashes>>

RenewFails(i) ==
    /\ lock = NoLock
    /\ Goto(i, "renew", "release")
    /\ UNCHANGED <<home, lock, pool, attempt, delay, wait, late, work, report, crashes>>

\* Deviation: a report times out when it is as old as the timeout.
Fresh_Early(usage) ==
    Restrict(usage, {s \in DOMAIN usage : usage[s] < TimeoutDuration})

\* The reports that have not timed out.
Fresh(usage) == Restrict(usage, {s \in DOMAIN usage : usage[s] <= TimeoutDuration})

\* The time, USAGE_POOL.items(), and what of each model has not timed out then.
Items(i) ==
    /\ Goto(i, "items", "models")
    /\ work' = [work EXCEPT ![i] = [m \in DOMAIN pool |-> Fresh(pool[m])]]
    /\ UNCHANGED <<home, lock, pool, attempt, delay, wait, late, report, crashes>>

Put(m, usage) == [n \in DOMAIN pool \cup {m} |-> IF n = m THEN usage ELSE pool[n]]
Drop(m)       == Restrict(pool, DOMAIN pool \ {m})

\* Deviation: a model nobody uses any more is written back like the others.
CleanModel_Keeps(i, m) ==
    /\ Goto(i, "models", "models")
    /\ m \in DOMAIN work[i]
    /\ work' = [work EXCEPT ![i] = Restrict(@, DOMAIN @ \ {m})]
    /\ pool' = Put(m, work[i][m])
    /\ UNCHANGED <<home, lock, attempt, delay, wait, late, report, crashes>>

\* One model: what has not timed out is written, or the model deleted.
CleanModel(i, m) ==
    /\ Goto(i, "models", "models")
    /\ m \in DOMAIN work[i]
    /\ work' = [work EXCEPT ![i] = Restrict(@, DOMAIN @ \ {m})]
    /\ work[i][m] = Empty => m \in DOMAIN pool
    /\ pool' = IF work[i][m] = Empty THEN Drop(m) ELSE Put(m, work[i][m])
    /\ UNCHANGED <<home, lock, attempt, delay, wait, late, report, crashes>>

\* KeyError: the model to delete has gone.
CleanFails(i, m) ==
    /\ Goto(i, "models", "release")
    /\ m \in DOMAIN work[i] \ DOMAIN pool /\ work[i][m] = Empty
    /\ work' = [work EXCEPT ![i] = Empty]
    /\ UNCHANGED <<home, lock, pool, attempt, delay, wait, late, report, crashes>>

Round(i) ==
    /\ work[i] = Empty
    /\ Goto(i, "models", "renew")
    /\ Sleep(i, TimeoutDuration)
    /\ UNCHANGED <<home, lock, pool, attempt, delay, work, report, crashes>>

\* release_func: get the key, then delete it if the value was one's own
ReleaseGet(i) ==
    /\ Goto(i, "release", IF lock.owner = i THEN "delete" ELSE "over")
    /\ UNCHANGED <<home, lock, pool, attempt, delay, wait, late, work, report, crashes>>

ReleaseDelete(i) ==
    /\ Goto(i, "delete", "over")
    /\ lock' = NoLock
    /\ UNCHANGED <<home, pool, attempt, delay, wait, late, work, report, crashes>>

-----------------------------------------------------------------------------
\* usage

\* model_id in USAGE_POOL
UsageStart(i, s, m) ==
    /\ MayReport(i) /\ home[s] = i
    /\ report' = [report EXCEPT ![i] =
          [step |-> IF m \in DOMAIN pool THEN "get" ELSE "set",
           model |-> m, sid |-> s, age |-> 0, read |-> Empty]]
    /\ UNCHANGED <<home, lock, pool, pc, attempt, delay, wait, late, work, crashes>>

\* USAGE_POOL[model_id], a KeyError if the model has gone
UsageGet(i) ==
    LET r == report[i] IN
    /\ r.step = "get"
    /\ report' = [report EXCEPT ![i] =
          IF r.model \in DOMAIN pool THEN [r EXCEPT !.step = "set", !.read = pool[r.model]]
          ELSE Idle]
    /\ UNCHANGED <<home, lock, pool, pc, attempt, delay, wait, late, work, crashes>>

UsageSet(i) ==
    LET r == report[i] IN
    /\ r.step = "set"
    /\ pool' = Put(r.model, [s \in DOMAIN r.read \cup {r.sid} |->
                                IF s = r.sid THEN r.age ELSE r.read[s]])
    /\ report' = [report EXCEPT ![i] = Idle]
    /\ UNCHANGED <<home, lock, pc, attempt, delay, wait, late, work, crashes>>

-----------------------------------------------------------------------------
\* The instance dies; whoever holds the lock is not there any more.
Crash(i) ==
    /\ pc[i] # "crashed" /\ crashes < MaxCrashes
    /\ crashes' = crashes + 1
    /\ pc' = [pc EXCEPT ![i] = "crashed"]
    /\ lock' = IF lock.owner = i THEN [lock EXCEPT !.owner = None] ELSE lock
    /\ work' = [work EXCEPT ![i] = Empty]
    /\ report' = [report EXCEPT ![i] = Idle]
    /\ Sleep(i, 0)
    /\ attempt' = [attempt EXCEPT ![i] = 0]
    /\ UNCHANGED <<home, pool, delay>>

\* A new process with a new lock_id and a new retry_delay.
Restart(i) ==
    /\ pc[i] = "crashed"
    /\ pc' = [pc EXCEPT ![i] = "acquire"]
    /\ \E d \in Delays : delay' = [delay EXCEPT ![i] = d]
    /\ UNCHANGED <<home, lock, pool, attempt, wait, late, work, report, crashes>>

Running(i) == pc[i] \notin {"over", "crashed"} \/ report[i].step # "idle"

Older(age)     == IF age > TimeoutDuration THEN age ELSE age + 1
Aged(usage)    == [s \in DOMAIN usage |-> Older(usage[s])]
AgedPool(p)    == [m \in DOMAIN p |-> Aged(p[m])]
Less(n)        == IF n = 0 THEN 0 ELSE n - 1

\* A second passes, unless an instance would be too late.
Tick ==
    /\ \A i \in Instances : (Running(i) /\ wait[i] = 0) => late[i] < Stall
    /\ lock' = IF lock.ttl <= 1 THEN NoLock ELSE [lock EXCEPT !.ttl = @ - 1]
    /\ pool' = AgedPool(pool)
    /\ work' = [i \in Instances |-> AgedPool(work[i])]
    /\ report' = [i \in Instances |-> [report[i] EXCEPT
                     !.age = IF report[i] = Idle THEN @ ELSE Older(@),
                     !.read = Aged(@)]]
    /\ wait' = [i \in Instances |-> Less(wait[i])]
    /\ late' = [i \in Instances |-> IF Running(i) /\ wait[i] = 0 THEN late[i] + 1
                                    ELSE late[i]]
    /\ UNCHANGED <<home, pc, attempt, delay, crashes>>

-----------------------------------------------------------------------------
Cleaner(i) == \/ Acquire(i) \/ Retry(i) \/ GiveUp(i) \/ Renew(i) \/ RenewFails(i)
              \/ Items(i) \/ Round(i) \/ ReleaseGet(i) \/ ReleaseDelete(i)
              \/ \E m \in Models : CleanModel(i, m) \/ CleanFails(i, m)

Handler(i) == UsageGet(i) \/ UsageSet(i)

Next == \/ Tick
        \/ \E i \in Instances :
              \/ Cleaner(i) \/ Handler(i) \/ Crash(i) \/ Restart(i)
              \/ \E s \in Sids, m \in Models : UsageStart(i, s, m)

Spec == Init /\ [][Next]_vars

\* Time passes, and what has started goes on.  A cleaner that is due takes its
\* turn among the handlers that keep coming: the event loop is first come, first
\* served.
Fairness == /\ WF_vars(Tick)
            /\ \A i \in Instances : SF_vars(Cleaner(i)) /\ WF_vars(Handler(i))

FairSpec == Spec /\ Fairness

\* Every instance that dies is started again.
FairRestartSpec == FairSpec /\ \A i \in Instances : WF_vars(Restart(i))

-----------------------------------------------------------------------------
\* Properties

\* Every variable has the type its comment gives.
TypeOK == /\ home \in [Sids -> Instances]
          /\ lock \in [owner : Instances \cup {None}, ttl : 0..LockTimeout]
          /\ pool \in Pool
          /\ pc \in [Instances -> Pc]
          /\ attempt \in [Instances -> 0..2]
          /\ delay \in [Instances -> Delays]
          /\ wait \in [Instances -> (0..LockTimeout) \cup (0..TimeoutDuration)]
          /\ late \in [Instances -> 0..Stall]
          /\ work \in [Instances -> Pool]
          /\ report \in [Instances -> Report]
          /\ crashes \in 0..MaxCrashes

\* The lock lets one instance clean at a time, sleeps between its rounds included.
OneCleaner == \A i, j \in Instances : InLoop(i) /\ InLoop(j) => i = j

\* A model that is reported as in use is in use by somebody.
NoModelWithoutUsage == \A m \in DOMAIN pool : pool[m] # Empty

\* What instance i read of model m, to write it back, is not what is there.
StaleRead(i, m) ==
    \/ report[i].step = "set" /\ report[i].model = m
          /\ report[i].read # (IF m \in DOMAIN pool THEN pool[m] ELSE Empty)
    \/ m \in DOMAIN work[i] /\ work[i][m] # Fresh(pool[m])

\* A report that has not timed out stays and is never replaced by an older one,
\* unless an instance writes back what another one has changed since it read it:
\* alone, an instance loses nothing.
LossNeedsStaleRead ==
    [][Tick \/ \A m \in DOMAIN pool : \A s \in DOMAIN pool[m] :
          pool[m][s] <= TimeoutDuration =>
              \/ /\ m \in DOMAIN pool' /\ s \in DOMAIN pool'[m]
                 /\ pool'[m][s] <= pool[m][s]
              \/ \E i \in Instances : StaleRead(i, m)]_vars

TimedOut(m, s) == /\ m \in DOMAIN pool /\ s \in DOMAIN pool[m]
                  /\ pool[m][s] > TimeoutDuration

\* A report that has timed out is removed, or replaced by a new one.
TimedOutIsRemoved ==
    \A m \in Models, s \in Sids : TimedOut(m, s) ~> ~TimedOut(m, s)
=============================================================================
