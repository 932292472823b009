-------------------------- MODULE UsageCleanupProofs --------------------------
(***************************************************************************)
(* Proofs about UsageCleanup, for any number of instances, sessions and    *)
(* models, any timeouts and any number of crashes.                         *)
(*                                                                         *)
(* OneCleaner: how late an instance may be without breaking the mutual     *)
(* exclusion of the cleaners.  The lock does not know who renews it, so    *)
(* what protects a cleaner is only that its lock has not expired yet: the  *)
(* invariant bounds what is left of the lock by what is left of the        *)
(* cleaner's sleep.                                                        *)
(*                                                                         *)
(* The pool: its type and that it names no model without a report; and     *)
(* that reports are lost only to what was read before another instance     *)
(* changed it, because the report a handler is about to write is the       *)
(* newest of its session (Newest).                                         *)
(***************************************************************************)
EXTENDS UsageCleanup, TLAPS

\* Between two renewals a cleaner sleeps, and is late before and after its sleep.
Prompt == TimeoutDuration + 2 * Stall < LockTimeout

Numbers == /\ lock \in [owner : Instances \cup {None}, ttl : Nat]
           /\ pc \in [Instances -> Pc]
           /\ wait \in [Instances -> Nat]
           /\ late \in [Instances -> 0..Stall]
           /\ delay \in [Instances -> Delays]
           /\ DOMAIN work = Instances

\* The lock of a cleaner outlasts its sleep by what it may yet be late.
LockLasts ==
    \A i \in Instances : InLoop(i) =>
        /\ lock.owner = i
        /\ pc[i] = "renew" => LockTimeout + wait[i] <= lock.ttl + Stall + TimeoutDuration + late[i]
        /\ pc[i] # "renew" => wait[i] = 0 /\ LockTimeout <= lock.ttl + late[i]

\* A cleaner never leaves its loop: it finds its lock, and nobody deletes the
\* models it has still to look at.
NeverReleases ==
    \A i \in Instances : /\ pc[i] \notin {"release", "delete"}
                         /\ pc[i] = "models" => DOMAIN work[i] \subseteq DOMAIN pool

IInv == Numbers /\ LockLasts /\ NeverReleases

-----------------------------------------------------------------------------
LEMMA LockIsAlive ==
    ASSUME Prompt, Numbers, LockLasts, NEW i \in Instances, InLoop(i)
    PROVE  lock.owner = i /\ lock.ttl > 0 /\ lock # NoLock
<1> USE TimeAssumption
<1>1. /\ lock.ttl \in Nat /\ wait[i] \in Nat /\ late[i] \in Nat /\ late[i] <= Stall
  BY DEF Numbers
<1>2. CASE pc[i] = "renew"
  <2>1. LockTimeout + wait[i] <= lock.ttl + Stall + TimeoutDuration + late[i]
    BY <1>2 DEF LockLasts
  <2> QED BY <1>1, <2>1 DEF Prompt, NoLock, LockLasts
<1>3. CASE pc[i] # "renew"
  <2>1. LockTimeout <= lock.ttl + late[i]
    BY <1>3 DEF LockLasts
  <2> QED BY <1>1, <2>1 DEF Prompt, NoLock, LockLasts
<1> QED BY <1>2, <1>3

LEMMA LoopIsExclusive ==
    ASSUME Prompt, Numbers, LockLasts, NEW i \in Instances, NEW j \in Instances,
           InLoop(i), InLoop(j)
    PROVE  i = j
BY DEF LockLasts

LEMMA InitIInv == Init => IInv
BY TimeAssumption DEF Init, IInv, Numbers, LockLasts, NeverReleases, InLoop, NoLock, Pc

LEMMA StepIInv ==
    ASSUME Prompt, IInv, [Next]_vars
    PROVE  IInv'
<1> USE TimeAssumption
<1>0. Numbers /\ LockLasts /\ NeverReleases
  BY DEF IInv
<1> USE DEF Numbers, Pc, NoLock
<1>1. CASE Tick
  <2>0. /\ \A i \in Instances : Running(i) /\ wait[i] = 0 => late[i] < Stall
        /\ lock' = IF lock.ttl <= 1 THEN NoLock ELSE [lock EXCEPT !.ttl = @ - 1]
        /\ wait' = [i \in Instances |-> Less(wait[i])]
        /\ late' = [i \in Instances |-> IF Running(i) /\ wait[i] = 0 THEN late[i] + 1
                                        ELSE late[i]]
        /\ work' = [i \in Instances |-> AgedPool(work[i])]
        /\ UNCHANGED <<pc, delay>>
    BY <1>1, Zenon DEF Tick
  <2>1. Numbers'
    <3>1. lock' \in [owner : Instances \cup {None}, ttl : Nat]
      BY <1>0, <2>0
    <3>2. wait' \in [Instances -> Nat]
      BY <1>0, <2>0 DEF Less
    <3>3. late' \in [Instances -> 0..Stall]
      BY <1>0, <2>0
    <3> QED BY <1>0, <2>0, <3>1, <3>2, <3>3
  <2>2. ASSUME NEW i \in Instances, InLoop(i)'
        PROVE  /\ lock'.owner = i
               /\ pc'[i] = "renew" =>
                    LockTimeout + wait'[i] <= lock'.ttl + Stall + TimeoutDuration + late'[i]
               /\ pc'[i] # "renew" => wait'[i] = 0 /\ LockTimeout <= lock'.ttl + late'[i]
    <3>1. InLoop(i) /\ Running(i) /\ pc'[i] = pc[i]
      BY <2>0, <2>2 DEF InLoop, Running
    <3>2. /\ wait[i] = 0 => /\ late[i] < Stall
                            /\ wait'[i] = 0 /\ late'[i] = late[i] + 1
          /\ wait[i] # 0 => wait'[i] = wait[i] - 1 /\ late'[i] = late[i]
      BY <1>0, <2>0, <3>1 DEF Less
    <3>3. /\ lock.owner = i
          /\ lock.ttl \in Nat /\ wait[i] \in Nat /\ late[i] \in Nat /\ late[i] <= Stall
          /\ pc[i] = "renew" =>
               LockTimeout + wait[i] <= lock.ttl + Stall + TimeoutDuration + late[i]
          /\ pc[i] # "renew" => wait[i] = 0 /\ LockTimeout <= lock.ttl + late[i]
      BY <1>0, <3>1 DEF LockLasts
    <3>4. lock.ttl > 1
      BY <3>2, <3>3 DEF Prompt
    <3>5. lock'.owner = i /\ lock'.ttl = lock.ttl - 1
      BY <1>0, <2>0, <3>3, <3>4
    <3> QED BY <3>1, <3>2, <3>3, <3>5
  <2>3. NeverReleases'
    <3>1. DOMAIN pool' = DOMAIN pool
      BY <1>1 DEF Tick, AgedPool
    <3>2. \A i \in Instances : DOMAIN work'[i] = DOMAIN work[i]
      BY <1>1 DEF Tick, AgedPool
    <3> QED BY <1>0, <1>1, <3>1, <3>2 DEF Tick, NeverReleases
  <2> QED BY <2>1, <2>2, <2>3 DEF IInv, LockLasts
<1>2. ASSUME NEW i \in Instances, Cleaner(i)
      PROVE  IInv'
  <2> USE <1>0
  <2>1. CASE Acquire(i)
    <3>1. \A j \in Instances : ~InLoop(j)
      BY <2>1, LockIsAlive DEF Acquire
    <3>2. Numbers'
      BY <2>1 DEF Acquire, Goto
    <3>3. LockLasts'
      BY <2>1, <3>1 DEF Acquire, Goto, MayClean, InLoop, LockLasts
    <3>4. NeverReleases'
      BY <2>1 DEF Acquire, Goto, NeverReleases
    <3> QED BY <3>2, <3>3, <3>4 DEF IInv
  <2>2. CASE Retry(i)
    <3>1. delay[i] \in Nat
      BY DEF Delays
    <3>2. Numbers'
      BY <2>2, <3>1 DEF Retry, Goto, Sleep
    <3>3. LockLasts'
      BY <2>2 DEF Retry, Goto, Sleep, InLoop, LockLasts
    <3>4. NeverReleases'
      BY <2>2 DEF Retry, Goto, NeverReleases
    <3> QED BY <3>2, <3>3, <3>4 DEF IInv
  <2>3. CASE GiveUp(i)
    <3>1. Numbers'
      BY <2>3 DEF GiveUp, Goto
    <3>2. LockLasts'
      BY <2>3 DEF GiveUp, Goto, InLoop, LockLasts
    <3>3. NeverReleases'
      BY <2>3 DEF GiveUp, Goto, NeverReleases
    <3> QED BY <3>1, <3>2, <3>3 DEF IInv
  <2>4. CASE Renew(i)
    <3>1. Numbers'
      BY <2>4 DEF Renew, Goto
    <3>2. \A j \in Instances : InLoop(j) => i = j
      BY <2>4, LoopIsExclusive DEF Renew, Goto, InLoop
    <3>3. LockLasts'
      BY <2>4, <3>2 DEF Renew, Goto, MayClean, InLoop, LockLasts
    <3>4. NeverReleases'
      BY <2>4 DEF Renew, Goto, NeverReleases
    <3> QED BY <3>1, <3>3, <3>4 DEF IInv
  <2>5. CASE RenewFails(i)
    <3>1. InLoop(i)
      BY <2>5 DEF RenewFails, Goto, InLoop
    <3> QED BY <2>5, <3>1, LockIsAlive DEF RenewFails
  <2>6. CASE Items(i)
    <3>1. Numbers'
      BY <2>6 DEF Items, Goto
    <3>2. LockLasts'
      BY <2>6 DEF Items, Goto, InLoop, LockLasts
    <3>3. DOMAIN work'[i] = DOMAIN pool /\ \A j \in Instances : j # i => work'[j] = work[j]
      BY <2>6 DEF Items
    <3>4. NeverReleases'
      BY <2>6, <3>3 DEF Items, Goto, NeverReleases
    <3> QED BY <3>1, <3>2, <3>4 DEF IInv
  <2>7. CASE Round(i)
    <3>1. Numbers'
      BY <2>7 DEF Round, Goto, Sleep
    <3>2. LockLasts'
      BY <2>7 DEF Round, Goto, Sleep, InLoop, LockLasts
    <3>3. NeverReleases'
      BY <2>7 DEF Round, Goto, NeverReleases
    <3> QED BY <3>1, <3>2, <3>3 DEF IInv
  <2>8. CASE ReleaseGet(i)
    BY <2>8 DEF ReleaseGet, Goto, NeverReleases
  <2>9. CASE ReleaseDelete(i)
    BY <2>9 DEF ReleaseDelete, Goto, NeverReleases
  <2>10. ASSUME NEW m \in Models, CleanModel(i, m)
         PROVE  IInv'
    <3>1. Numbers'
      BY <2>10 DEF CleanModel, Goto
    <3>2. LockLasts'
      BY <2>10 DEF CleanModel, Goto, InLoop, LockLasts
    <3>3. \A j \in Instances : pc[j] = "models" => j = i
      BY <2>10, LoopIsExclusive DEF CleanModel, Goto, InLoop
    <3>4. DOMAIN work'[i] = DOMAIN work[i] \ {m}
      BY <2>10 DEF CleanModel, Restrict
    <3>5. DOMAIN pool \ {m} \subseteq DOMAIN pool'
      BY <2>10 DEF CleanModel, Put, Drop, Restrict
    <3>6. NeverReleases'
      BY <2>10, <3>3, <3>4, <3>5 DEF CleanModel, Goto, NeverReleases
    <3> QED BY <3>1, <3>2, <3>6 DEF IInv
  <2>11. ASSUME NEW m \in Models, CleanFails(i, m)
         PROVE  IInv'
    BY <2>11 DEF CleanFails, Goto, NeverReleases
  <2> QED BY <1>2, <2>1, <2>2, <2>3, <2>4, <2>5, <2>6, <2>7, <2>8, <2>9, <2>10, <2>11
          DEF Cleaner
<1>3. ASSUME NEW i \in Instances, NEW s \in Sids, NEW m \in Models, UsageStart(i, s, m)
      PROVE  IInv'
  BY <1>0, <1>3 DEF UsageStart, IInv, LockLasts, NeverReleases, InLoop
<1>4. ASSUME NEW i \in Instances, Handler(i)
      PROVE  IInv'
  <2>1. UNCHANGED <<lock, pc, delay, wait, late, work>>
    BY <1>4 DEF Handler, UsageGet, UsageSet
  <2>2. DOMAIN pool \subseteq DOMAIN pool'
    BY <1>4 DEF Handler, UsageGet, UsageSet, Put
  <2> QED BY <1>0, <2>1, <2>2 DEF IInv, LockLasts, NeverReleases, InLoop
<1>5. ASSUME NEW i \in Instances, Crash(i)
      PROVE  IInv'
  <2>1. Numbers'
    BY <1>0, <1>5 DEF Crash, Sleep
  <2>2. LockLasts'
    BY <1>0, <1>5 DEF Crash, Sleep, InLoop, LockLasts
  <2>3. NeverReleases'
    BY <1>0, <1>5 DEF Crash, NeverReleases
  <2> QED BY <2>1, <2>2, <2>3 DEF IInv
<1>6. ASSUME NEW i \in Instances, Restart(i)
      PROVE  IInv'
  BY <1>0, <1>6 DEF Restart, IInv, LockLasts, NeverReleases, InLoop
<1>7. CASE UNCHANGED vars
  BY <1>0, <1>7 DEF vars, IInv, LockLasts, NeverReleases, InLoop
<1> QED BY <1>1, <1>2, <1>3, <1>4, <1>5, <1>6, <1>7 DEF Next

-----------------------------------------------------------------------------
\* If no instance is late by more than half of what the lock's timeout exceeds
\* the timeout of a report, one instance at a time cleans, whatever crashes.
THEOREM PromptCleanersAreAlone == Prompt => (Spec => []OneCleaner)
<1> SUFFICES ASSUME Prompt PROVE Spec => []OneCleaner
  OBVIOUS
<1>1. IInv /\ [Next]_vars => IInv'
  BY StepIInv
<1>2. IInv => OneCleaner
  BY LoopIsExclusive DEF IInv, OneCleaner
<1> QED BY <1>1, <1>2, InitIInv, PTL DEF Spec

-----------------------------------------------------------------------------
\* Usages and pools

LEMMA UsageFacts ==
    ASSUME NEW u \in Usage
    PROVE  /\ DOMAIN u \subseteq Sids /\ \A s \in DOMAIN u : u[s] \in Ages
           /\ u \in [DOMAIN u -> Ages]
<1>1. PICK S \in SUBSET Sids : u \in [S -> Ages]
  BY DEF Usage
<1>2. QED
  BY <1>1

LEMMA IsUsage ==
    ASSUME NEW S \in SUBSET Sids, NEW u \in [S -> Ages]
    PROVE  u \in Usage
BY DEF Usage

LEMMA PoolFacts ==
    ASSUME NEW p \in Pool
    PROVE  /\ DOMAIN p \subseteq Models /\ \A m \in DOMAIN p : p[m] \in Usage
           /\ p \in [DOMAIN p -> Usage]
<1>1. PICK M \in SUBSET Models : p \in [M -> Usage]
  BY DEF Pool
<1>2. QED
  BY <1>1

LEMMA IsPool ==
    ASSUME NEW M \in SUBSET Models, NEW p \in [M -> Usage]
    PROVE  p \in Pool
BY DEF Pool

LEMMA EmptyFacts == /\ Empty \in Usage /\ Empty \in Pool /\ DOMAIN Empty = {}
                    /\ \A u \in Usage : u # Empty => DOMAIN u # {}
<1>1. DOMAIN Empty = {} /\ Empty \in [{} -> Ages] /\ Empty \in [{} -> Usage]
  BY DEF Empty
<1>2. Empty \in Usage /\ Empty \in Pool
  BY <1>1, IsUsage, IsPool
<1>3. ASSUME NEW u \in Usage, DOMAIN u = {} PROVE u = Empty
  <2>1. u \in [{} -> Ages]
    BY <1>3, UsageFacts
  <2>2. QED
    BY <1>1, <2>1
<1>4. QED
  BY <1>1, <1>2, <1>3

LEMMA OlderFacts ==
    ASSUME NEW a \in Ages, NEW b \in Ages
    PROVE  Older(a) \in Ages /\ (a <= b => Older(a) <= Older(b))
BY TimeAssumption DEF Older, Ages

LEMMA AgedFacts ==
    ASSUME NEW u \in Usage
    PROVE  /\ Aged(u) \in Usage /\ DOMAIN Aged(u) = DOMAIN u
           /\ \A s \in DOMAIN u : Aged(u)[s] = Older(u[s])
<1>1. DOMAIN u \in SUBSET Sids /\ \A s \in DOMAIN u : Older(u[s]) \in Ages
  BY UsageFacts, OlderFacts
<1>2. Aged(u) = [s \in DOMAIN u |-> Older(u[s])]
  BY DEF Aged
<1>3. Aged(u) \in [DOMAIN u -> Ages]
  BY <1>1, <1>2
<1>4. QED
  BY <1>1, <1>2, <1>3, IsUsage

LEMMA AgedPoolFacts ==
    ASSUME NEW p \in Pool
    PROVE  /\ AgedPool(p) \in Pool /\ DOMAIN AgedPool(p) = DOMAIN p
           /\ \A m \in DOMAIN p : AgedPool(p)[m] = Aged(p[m])
<1>1. DOMAIN p \in SUBSET Models /\ \A m \in DOMAIN p : Aged(p[m]) \in Usage
  BY PoolFacts, AgedFacts
<1>2. AgedPool(p) = [m \in DOMAIN p |-> Aged(p[m])]
  BY DEF AgedPool
<1>3. AgedPool(p) \in [DOMAIN p -> Usage]
  BY <1>1, <1>2
<1>4. QED
  BY <1>1, <1>2, <1>3, IsPool

LEMMA FreshFacts ==
    ASSUME NEW u \in Usage
    PROVE  /\ Fresh(u) \in Usage
           /\ DOMAIN Fresh(u) = {s \in DOMAIN u : u[s] <= TimeoutDuration}
           /\ \A s \in DOMAIN Fresh(u) : Fresh(u)[s] = u[s]
<1> DEFINE S == {s \in DOMAIN u : u[s] <= TimeoutDuration}
<1>1. S \in SUBSET Sids /\ \A s \in S : u[s] \in Ages
  BY UsageFacts
<1>2. Fresh(u) = [s \in S |-> u[s]]
  BY DEF Fresh, Restrict
<1>3. Fresh(u) \in [S -> Ages]
  BY <1>1, <1>2
<1>4. QED
  BY <1>1, <1>2, <1>3, IsUsage

LEMMA RestrictFacts ==
    ASSUME NEW p \in Pool, NEW m
    PROVE  /\ Restrict(p, DOMAIN p \ {m}) \in Pool
           /\ DOMAIN Restrict(p, DOMAIN p \ {m}) = DOMAIN p \ {m}
           /\ \A n \in DOMAIN p \ {m} : Restrict(p, DOMAIN p \ {m})[n] = p[n]
<1> DEFINE M == DOMAIN p \ {m}
<1>1. M \in SUBSET Models /\ \A n \in M : p[n] \in Usage
  BY PoolFacts
<1>2. Restrict(p, M) = [n \in M |-> p[n]]
  BY DEF Restrict
<1>3. Restrict(p, M) \in [M -> Usage]
  BY <1>1, <1>2
<1>4. QED
  BY <1>1, <1>2, <1>3, IsPool

LEMMA PutFacts ==
    ASSUME pool \in Pool, NEW m \in Models, NEW u \in Usage
    PROVE  /\ Put(m, u) \in Pool /\ DOMAIN Put(m, u) = DOMAIN pool \cup {m}
           /\ \A n \in DOMAIN pool \cup {m} : Put(m, u)[n] = IF n = m THEN u ELSE pool[n]
<1> DEFINE M == DOMAIN pool \cup {m}
<1>1. M \in SUBSET Models /\ \A n \in DOMAIN pool : pool[n] \in Usage
  BY PoolFacts
<1>2. Put(m, u) = [n \in M |-> IF n = m THEN u ELSE pool[n]]
  BY DEF Put
<1>3. Put(m, u) \in [M -> Usage]
  BY <1>1, <1>2
<1>4. QED
  BY <1>1, <1>2, <1>3, IsPool

\* What the usage handler writes.
Written(r) == [s \in DOMAIN r.read \cup {r.sid} |-> IF s = r.sid THEN r.age ELSE r.read[s]]

LEMMA WrittenFacts ==
    ASSUME NEW r \in Report, r.sid \in Sids
    PROVE  /\ Written(r) \in Usage /\ DOMAIN Written(r) = DOMAIN r.read \cup {r.sid}
           /\ \A s \in DOMAIN Written(r) :
                 Written(r)[s] = IF s = r.sid THEN r.age ELSE r.read[s]
<1>1. r.age \in Ages /\ r.read \in Usage
  BY DEF Report
<1>2. /\ DOMAIN r.read \cup {r.sid} \in SUBSET Sids
      /\ \A s \in DOMAIN r.read : r.read[s] \in Ages
  BY <1>1, UsageFacts
<1>3. Written(r) \in [DOMAIN r.read \cup {r.sid} -> Ages]
  BY <1>1, <1>2 DEF Written
<1>4. Written(r) \in Usage
  BY <1>2, <1>3, IsUsage
<1>5. QED
  BY <1>4 DEF Written

-----------------------------------------------------------------------------
\* Types

\* A handler that has started knows its model and its session.
ReportsFull == \A i \in Instances : \/ report[i] = Idle
                                    \/ /\ report[i].step \in {"get", "set"}
                                       /\ report[i].model \in Models /\ report[i].sid \in Sids

TypeInv == TypeOK /\ ReportsFull

\* The steps of the cleaner that touch neither the pool nor its copy of it.
Waits(i) == \/ Acquire(i) \/ Retry(i) \/ GiveUp(i) \/ Renew(i) \/ RenewFails(i)
            \/ Round(i) \/ ReleaseGet(i) \/ ReleaseDelete(i)

LEMMA IdleFacts == Idle \in Report /\ Idle.step = "idle" /\ Idle.read = Empty
<1>1. 0 \in Ages
  BY TimeAssumption DEF Ages
<1>2. QED
  BY <1>1, EmptyFacts DEF Idle, Report

LEMMA InitTypes == Init => TypeInv
<1>1. SUFFICES ASSUME Init PROVE TypeInv
  OBVIOUS
<1> USE TimeAssumption
<1>2. /\ home \in [Sids -> Instances]
      /\ lock \in [owner : Instances \cup {None}, ttl : 0..LockTimeout]
      /\ pc \in [Instances -> Pc] /\ attempt \in [Instances -> 0..2]
      /\ delay \in [Instances -> Delays] /\ late \in [Instances -> 0..Stall]
      /\ crashes \in 0..MaxCrashes
  BY <1>1 DEF Init, NoLock, Pc
<1>3. wait \in [Instances -> (0..LockTimeout) \cup (0..TimeoutDuration)]
  BY <1>1 DEF Init
<1>4. pool \in Pool /\ work \in [Instances -> Pool]
  BY <1>1, EmptyFacts DEF Init
<1>5. report \in [Instances -> Report] /\ ReportsFull
  BY <1>1, IdleFacts DEF Init, ReportsFull
<1>6. QED
  BY <1>2, <1>3, <1>4, <1>5 DEF TypeInv, TypeOK

LEMMA WaitsFrame == ASSUME NEW i \in Instances, Waits(i)
                    PROVE  UNCHANGED <<home, pool, work, report, crashes>>
BY DEF Waits, Acquire, Retry, GiveUp, Renew, RenewFails, Round, ReleaseGet, ReleaseDelete

LEMMA WaitsTypes == ASSUME TypeInv, NEW i \in Instances, Waits(i) PROVE TypeInv'
<1> USE TimeAssumption
<1>1. /\ lock \in [owner : Instances \cup {None}, ttl : 0..LockTimeout]
      /\ pc \in [Instances -> Pc] /\ attempt \in [Instances -> 0..2]
      /\ delay \in [Instances -> Delays] /\ late \in [Instances -> 0..Stall]
      /\ wait \in [Instances -> (0..LockTimeout) \cup (0..TimeoutDuration)]
  BY DEF TypeInv, TypeOK
<1>2. pc' \in [Instances -> Pc]
  BY <1>1 DEF Waits, Acquire, Retry, GiveUp, Renew, RenewFails, Round, ReleaseGet, ReleaseDelete,
              Goto, Pc
<1>3. lock' \in [owner : Instances \cup {None}, ttl : 0..LockTimeout]
  BY <1>1 DEF Waits, Acquire, Retry, GiveUp, Renew, RenewFails, Round, ReleaseGet, ReleaseDelete,
              NoLock
<1>4. delay[i] \in 0..LockTimeout
  BY <1>1 DEF Delays
<1>5. /\ wait' \in [Instances -> (0..LockTimeout) \cup (0..TimeoutDuration)]
      /\ late' \in [Instances -> 0..Stall] /\ UNCHANGED delay
  <2>1. CASE Retry(i)
    BY <1>1, <1>4, <2>1 DEF Retry, Sleep
  <2>2. CASE Round(i)
    BY <1>1, <2>2 DEF Round, Sleep
  <2>3. CASE \/ Acquire(i) \/ GiveUp(i) \/ Renew(i) \/ RenewFails(i)
             \/ ReleaseGet(i) \/ ReleaseDelete(i)
    BY <1>1, <2>3 DEF Acquire, GiveUp, Renew, RenewFails, ReleaseGet, ReleaseDelete
  <2>4. QED
    BY <2>1, <2>2, <2>3 DEF Waits
<1>6. attempt' \in [Instances -> 0..2]
  <2>1. CASE Retry(i)
    <3>1. attempt[i] \in 0..2 /\ attempt[i] < 2 /\ attempt' = [attempt EXCEPT ![i] = @ + 1]
      BY <1>1, <2>1 DEF Retry
    <3>2. QED
      BY <1>1, <3>1
  <2>2. CASE ~Retry(i)
    BY <1>1, <2>2 DEF Waits, Acquire, GiveUp, Renew, RenewFails, Round, ReleaseGet, ReleaseDelete
  <2>3. QED
    BY <2>1, <2>2
<1>7. QED
  BY <1>1, <1>2, <1>3, <1>5, <1>6, WaitsFrame DEF TypeInv, TypeOK, ReportsFull

\* The steps of the cleaner on the pool: what its copy and the pool become.
LEMMA CleaningFacts ==
    ASSUME TypeInv, NEW i \in Instances, NEW m \in Models, CleanModel(i, m) \/ CleanFails(i, m)
    PROVE  /\ UNCHANGED <<home, lock, attempt, delay, wait, late, report, crashes>>
           /\ pc' \in [Instances -> Pc] /\ work' \in [Instances -> Pool] /\ pool' \in Pool
<1>1. /\ pc \in [Instances -> Pc] /\ work \in [Instances -> Pool] /\ pool \in Pool
      /\ work[i] \in Pool
  BY DEF TypeInv, TypeOK
<1>2. /\ UNCHANGED <<home, lock, attempt, delay, wait, late, report, crashes>>
      /\ pc' \in [Instances -> Pc]
  BY <1>1 DEF CleanModel, CleanFails, Goto, Pc
<1>3. CASE CleanModel(i, m)
  <2>1. /\ m \in DOMAIN work[i]
        /\ pool' = IF work[i][m] = Empty THEN Drop(m) ELSE Put(m, work[i][m])
        /\ work' = [work EXCEPT ![i] = Restrict(work[i], DOMAIN work[i] \ {m})]
    BY <1>3 DEF CleanModel
  <2>2. work[i][m] \in Usage
    BY <1>1, <2>1, PoolFacts
  <2>3. /\ Drop(m) \in Pool /\ Put(m, work[i][m]) \in Pool
        /\ Restrict(work[i], DOMAIN work[i] \ {m}) \in Pool
    BY <1>1, <2>2, RestrictFacts, PutFacts DEF Drop
  <2>4. QED
    BY <1>1, <1>2, <2>1, <2>3
<1>4. CASE CleanFails(i, m)
  BY <1>1, <1>2, <1>4, EmptyFacts DEF CleanFails
<1>5. QED
  BY <1>3, <1>4

\* The handler's record after each of its steps.
LEMMA HandlerFacts ==
    ASSUME TypeInv, NEW i \in Instances, NEW s \in Sids, NEW m \in Models,
           UsageStart(i, s, m) \/ UsageGet(i) \/ UsageSet(i)
    PROVE  /\ UNCHANGED <<home, lock, pc, attempt, delay, wait, late, work, crashes>>
           /\ pool' \in Pool
           /\ \E r \in Report :
                 /\ report' = [report EXCEPT ![i] = r]
                 /\ r = Idle \/ (r.step \in {"get", "set"} /\ r.model \in Models /\ r.sid \in Sids)
<1>1. /\ report[i] \in Report /\ pool \in Pool /\ 0 \in Ages
      /\ report[i].step # "idle" => report[i].model \in Models /\ report[i].sid \in Sids
  BY TimeAssumption, IdleFacts DEF TypeInv, TypeOK, ReportsFull, Ages
<1>2. UNCHANGED <<home, lock, pc, attempt, delay, wait, late, work, crashes>>
  BY DEF UsageStart, UsageGet, UsageSet
<1>3. CASE UsageStart(i, s, m)
  <2> DEFINE r == [step |-> IF m \in DOMAIN pool THEN "get" ELSE "set",
                   model |-> m, sid |-> s, age |-> 0, read |-> Empty]
  <2>1. report' = [report EXCEPT ![i] = r] /\ UNCHANGED pool
    BY <1>3 DEF UsageStart
  <2>2. r \in Report
    BY <1>1, EmptyFacts DEF Report
  <2>3. QED
    BY <1>1, <1>2, <2>1, <2>2
<1>4. CASE UsageGet(i)
  <2> DEFINE r == IF report[i].model \in DOMAIN pool
                  THEN [report[i] EXCEPT !.step = "set", !.read = pool[report[i].model]]
                  ELSE Idle
  <2>1. report' = [report EXCEPT ![i] = r] /\ UNCHANGED pool /\ report[i].step = "get"
    BY <1>4 DEF UsageGet
  <2>2. /\ r \in Report
        /\ r = Idle \/ (r.step = "set" /\ r.model = report[i].model /\ r.sid = report[i].sid)
    <3>1. CASE report[i].model \in DOMAIN pool
      <4>1. pool[report[i].model] \in Usage
        BY <1>1, <3>1, PoolFacts
      <4>2. QED
        BY <1>1, <3>1, <4>1 DEF Report
    <3>2. CASE report[i].model \notin DOMAIN pool
      BY <3>2, IdleFacts
    <3>3. QED
      BY <3>1, <3>2
  <2>3. QED
    BY <1>1, <1>2, <2>1, <2>2
<1>5. CASE UsageSet(i)
  <2>1. /\ report[i].step = "set" /\ report' = [report EXCEPT ![i] = Idle]
        /\ pool' = Put(report[i].model, Written(report[i]))
    BY <1>5 DEF UsageSet, Written
  <2>2. Written(report[i]) \in Usage
    BY <1>1, <2>1, WrittenFacts
  <2>3. pool' \in Pool
    BY <1>1, <2>1, <2>2, PutFacts
  <2>4. QED
    BY <1>2, <2>1, <2>3, IdleFacts
<1>6. QED
  BY <1>3, <1>4, <1>5

\* A handler's record when it is older by a tick.
OlderReport(r) == [r EXCEPT !.age = IF r = Idle THEN @ ELSE Older(@), !.read = Aged(@)]

LEMMA OlderReportFacts ==
    ASSUME NEW r \in Report
    PROVE  /\ OlderReport(r) \in Report /\ OlderReport(r).step = r.step
           /\ OlderReport(r).model = r.model /\ OlderReport(r).sid = r.sid
           /\ OlderReport(r).read = Aged(r.read)
           /\ OlderReport(r).age = IF r = Idle THEN r.age ELSE Older(r.age)
           /\ r = Idle => OlderReport(r) = Idle
<1>1. r.age \in Ages /\ r.read \in Usage
  BY DEF Report
<1>2. Aged(r.read) \in Usage /\ Older(r.age) \in Ages
  BY <1>1, AgedFacts, OlderFacts
<1>3. /\ OlderReport(r) \in Report /\ OlderReport(r).step = r.step
      /\ OlderReport(r).model = r.model /\ OlderReport(r).sid = r.sid
      /\ OlderReport(r).read = Aged(r.read)
      /\ OlderReport(r).age = IF r = Idle THEN r.age ELSE Older(r.age)
  BY <1>1, <1>2 DEF OlderReport, Report
<1>4. ASSUME r = Idle PROVE OlderReport(r) = Idle
  <2>1. r.read = Empty /\ DOMAIN Empty = {}
    BY <1>4, IdleFacts, EmptyFacts
  <2>2. Aged(Empty) = Empty
    BY EmptyFacts, AgedFacts
  <2>3. OlderReport(r) = [r EXCEPT !.age = r.age, !.read = r.read]
    BY <1>4, <2>1, <2>2 DEF OlderReport
  <2>4. QED
    BY <1>4, <2>3 DEF Report
<1>5. QED
  BY <1>3, <1>4

LEMMA TickFacts ==
    ASSUME TypeInv, Tick
    PROVE  /\ UNCHANGED <<home, pc, attempt, delay, crashes>>
           /\ pool' = AgedPool(pool)
           /\ work' = [i \in Instances |-> AgedPool(work[i])]
           /\ report' = [i \in Instances |-> OlderReport(report[i])]
BY Zenon DEF Tick, OlderReport

LEMMA TickTypes == ASSUME TypeInv, Tick PROVE TypeInv'
<1> USE TimeAssumption
<1>1. /\ UNCHANGED <<home, pc, attempt, delay, crashes>>
      /\ pool' = AgedPool(pool) /\ work' = [i \in Instances |-> AgedPool(work[i])]
      /\ report' = [i \in Instances |-> OlderReport(report[i])]
  BY TickFacts
<1>2. /\ pool \in Pool /\ work \in [Instances -> Pool] /\ report \in [Instances -> Report]
      /\ lock \in [owner : Instances \cup {None}, ttl : 0..LockTimeout]
      /\ wait \in [Instances -> (0..LockTimeout) \cup (0..TimeoutDuration)]
      /\ late \in [Instances -> 0..Stall]
  BY DEF TypeInv, TypeOK
<1>3. pool' \in Pool /\ work' \in [Instances -> Pool]
  BY <1>1, <1>2, AgedPoolFacts
<1>4. report' \in [Instances -> Report] /\ ReportsFull'
  BY <1>1, <1>2, OlderReportFacts DEF TypeInv, ReportsFull
<1>5. lock' \in [owner : Instances \cup {None}, ttl : 0..LockTimeout]
  <2>1. lock' = IF lock.ttl <= 1 THEN NoLock ELSE [lock EXCEPT !.ttl = @ - 1]
    BY Zenon DEF Tick
  <2>2. QED
    BY <1>2, <2>1 DEF NoLock
<1>6. wait' \in [Instances -> (0..LockTimeout) \cup (0..TimeoutDuration)]
  <2>1. wait' = [i \in Instances |-> Less(wait[i])]
    BY Zenon DEF Tick
  <2>2. ASSUME NEW n \in (0..LockTimeout) \cup (0..TimeoutDuration)
        PROVE  Less(n) \in (0..LockTimeout) \cup (0..TimeoutDuration)
    BY <2>2 DEF Less
  <2>3. QED
    BY <1>2, <2>1, <2>2
<1>7. late' \in [Instances -> 0..Stall]
  <2>1. /\ \A i \in Instances : (Running(i) /\ wait[i] = 0) => late[i] < Stall
        /\ late' = [i \in Instances |-> IF Running(i) /\ wait[i] = 0 THEN late[i] + 1
                                        ELSE late[i]]
    BY Zenon DEF Tick
  <2>2. ASSUME NEW i \in Instances PROVE late'[i] \in 0..Stall
    BY <1>2, <2>1
  <2>3. QED
    BY <2>1, <2>2
<1>8. QED
  BY <1>1, <1>3, <1>4, <1>5, <1>6, <1>7 DEF TypeInv, TypeOK

LEMMA CrashTypes == ASSUME TypeInv, NEW i \in Instances, Crash(i) \/ Restart(i) PROVE TypeInv'
<1> USE TimeAssumption
<1>1. CASE Crash(i)
  <2>1. lock' \in [owner : Instances \cup {None}, ttl : 0..LockTimeout]
    BY <1>1 DEF Crash, TypeInv, TypeOK
  <2>2. /\ pc' \in [Instances -> Pc] /\ attempt' \in [Instances -> 0..2]
        /\ wait' \in [Instances -> (0..LockTimeout) \cup (0..TimeoutDuration)]
        /\ late' \in [Instances -> 0..Stall] /\ crashes' \in 0..MaxCrashes
        /\ UNCHANGED <<home, pool, delay>>
    BY <1>1 DEF Crash, Sleep, TypeInv, TypeOK, Pc
  <2>3. work' \in [Instances -> Pool] /\ report' \in [Instances -> Report] /\ ReportsFull'
    BY <1>1, EmptyFacts, IdleFacts DEF Crash, TypeInv, TypeOK, ReportsFull
  <2>4. QED
    BY <2>1, <2>2, <2>3 DEF TypeInv, TypeOK
<1>2. CASE Restart(i)
  <2>1. /\ pc' \in [Instances -> Pc] /\ delay' \in [Instances -> Delays]
        /\ UNCHANGED <<home, lock, pool, attempt, wait, late, work, report, crashes>>
    BY <1>2 DEF Restart, TypeInv, TypeOK, Pc
  <2>2. QED
    BY <2>1 DEF TypeInv, TypeOK, ReportsFull
<1>3. QED
  BY <1>1, <1>2

LEMMA StepTypes == TypeInv /\ [Next]_vars => TypeInv'
<1>1. SUFFICES ASSUME TypeInv, [Next]_vars PROVE TypeInv'
  OBVIOUS
<1>2. CASE Tick
  BY <1>1, <1>2, TickTypes
<1>3. ASSUME NEW i \in Instances, Waits(i) PROVE TypeInv'
  BY <1>1, <1>3, WaitsTypes
<1>4. ASSUME NEW i \in Instances, NEW m \in Models, CleanModel(i, m) \/ CleanFails(i, m)
      PROVE  TypeInv'
  BY <1>1, <1>4, CleaningFacts DEF TypeInv, TypeOK, ReportsFull
<1>5. ASSUME NEW i \in Instances, Items(i) PROVE TypeInv'
  <2>1. /\ UNCHANGED <<home, lock, pool, attempt, delay, wait, late, report, crashes>>
        /\ pc' \in [Instances -> Pc]
        /\ work' = [work EXCEPT ![i] = [n \in DOMAIN pool |-> Fresh(pool[n])]]
    BY <1>1, <1>5 DEF Items, Goto, TypeInv, TypeOK, Pc
  <2>2. pool \in Pool /\ work \in [Instances -> Pool]
    BY <1>1 DEF TypeInv, TypeOK
  <2>3. [n \in DOMAIN pool |-> Fresh(pool[n])] \in Pool
    <3>1. DOMAIN pool \in SUBSET Models /\ \A n \in DOMAIN pool : Fresh(pool[n]) \in Usage
      BY <2>2, PoolFacts, FreshFacts
    <3>2. [n \in DOMAIN pool |-> Fresh(pool[n])] \in [DOMAIN pool -> Usage]
      BY <3>1
    <3>3. QED
      BY <3>1, <3>2, IsPool
  <2>4. QED
    BY <1>1, <2>1, <2>2, <2>3 DEF TypeInv, TypeOK, ReportsFull
<1>6. ASSUME NEW i \in Instances, NEW s \in Sids, NEW m \in Models,
             UsageStart(i, s, m) \/ UsageGet(i) \/ UsageSet(i)
      PROVE  TypeInv'
  BY <1>1, <1>6, HandlerFacts DEF TypeInv, TypeOK, ReportsFull
<1>7. ASSUME NEW i \in Instances, Handler(i) PROVE TypeInv'
  <2>1. report[i].step \in {"get", "set"}
    BY <1>7 DEF Handler, UsageGet, UsageSet
  <2>2. report[i].model \in Models /\ report[i].sid \in Sids
    BY <1>1, <2>1, IdleFacts DEF TypeInv, ReportsFull
  <2>3. QED
    BY <1>6, <1>7, <2>2 DEF Handler
<1>8. ASSUME NEW i \in Instances, Crash(i) \/ Restart(i) PROVE TypeInv'
  BY <1>1, <1>8, CrashTypes
<1>9. CASE UNCHANGED vars
  BY <1>1, <1>9 DEF vars, TypeInv, TypeOK, ReportsFull
<1>10. QED
  BY <1>1, <1>2, <1>3, <1>4, <1>5, <1>6, <1>7, <1>8, <1>9 DEF Next, Cleaner, Waits

\* Every variable has its type: what the cleaner and the handlers write back is a
\* pool again, whatever they have read and whoever has written meanwhile.
THEOREM TypeCorrect == Spec => []TypeOK
<1>1. TypeInv => TypeOK
  BY DEF TypeInv
<1>2. QED
  BY <1>1, InitTypes, StepTypes, PTL DEF Spec

\* The pool and the copy after a model has been cleaned.
LEMMA CleanModelFacts ==
    ASSUME TypeInv, NEW i \in Instances, NEW m \in Models, CleanModel(i, m)
    PROVE  /\ m \in DOMAIN work[i] /\ work[i][m] \in Usage
           /\ \A j \in Instances : \A n \in DOMAIN work'[j] :
                  n \in DOMAIN work[j] /\ work'[j][n] = work[j][n]
           /\ \A n \in DOMAIN pool' : \/ n \in DOMAIN pool /\ pool'[n] = pool[n]
                                      \/ n = m /\ pool'[n] = work[i][m] /\ work[i][m] # Empty
           /\ \A n \in DOMAIN pool : n # m => n \in DOMAIN pool' /\ pool'[n] = pool[n]
           /\ work[i][m] # Empty => m \in DOMAIN pool' /\ pool'[m] = work[i][m]
<1>1. pool \in Pool /\ work \in [Instances -> Pool] /\ work[i] \in Pool
  BY DEF TypeInv, TypeOK
<1>2. /\ m \in DOMAIN work[i]
      /\ pool' = IF work[i][m] = Empty THEN Drop(m) ELSE Put(m, work[i][m])
      /\ work' = [work EXCEPT ![i] = Restrict(work[i], DOMAIN work[i] \ {m})]
  BY DEF CleanModel
<1>3. work[i][m] \in Usage
  BY <1>1, <1>2, PoolFacts
<1>4. /\ DOMAIN Restrict(work[i], DOMAIN work[i] \ {m}) = DOMAIN work[i] \ {m}
      /\ \A n \in DOMAIN work[i] \ {m} :
            Restrict(work[i], DOMAIN work[i] \ {m})[n] = work[i][n]
  BY <1>1, RestrictFacts
<1>5. \A j \in Instances : \A n \in DOMAIN work'[j] :
         n \in DOMAIN work[j] /\ work'[j][n] = work[j][n]
  BY <1>1, <1>2, <1>4
<1>6. CASE work[i][m] = Empty
  <2>1. /\ DOMAIN Drop(m) = DOMAIN pool \ {m}
        /\ \A n \in DOMAIN pool \ {m} : Drop(m)[n] = pool[n]
    BY <1>1, RestrictFacts DEF Drop
  <2>2. pool' = Drop(m)
    BY <1>2, <1>6
  <2>3. QED
    BY <1>2, <1>3, <1>5, <1>6, <2>1, <2>2
<1>7. CASE work[i][m] # Empty
  <2> DEFINE u == work[i][m]
  <2>1. /\ DOMAIN Put(m, u) = DOMAIN pool \cup {m}
        /\ \A n \in DOMAIN pool \cup {m} : Put(m, u)[n] = IF n = m THEN u ELSE pool[n]
    BY <1>1, <1>3, PutFacts
  <2>2. pool' = Put(m, u)
    BY <1>2, <1>7
  <2>3. QED
    BY <1>2, <1>3, <1>5, <1>7, <2>1, <2>2
<1>8. QED
  BY <1>6, <1>7

\* The pool after a report has been written.
LEMMA UsageSetFacts ==
    ASSUME TypeInv, NEW i \in Instances, UsageSet(i)
    PROVE  /\ report[i].step = "set" /\ report' = [report EXCEPT ![i] = Idle]
           /\ report[i].model \in Models /\ report[i].sid \in Sids
           /\ Written(report[i]) \in Usage
           /\ DOMAIN pool' = DOMAIN pool \cup {report[i].model}
           /\ \A n \in DOMAIN pool : n # report[i].model => pool'[n] = pool[n]
           /\ pool'[report[i].model] = Written(report[i])
<1>1. pool \in Pool /\ report[i] \in Report
  BY DEF TypeInv, TypeOK
<1>2. /\ report[i].step = "set" /\ report' = [report EXCEPT ![i] = Idle]
      /\ pool' = Put(report[i].model, Written(report[i]))
  BY DEF UsageSet, Written
<1>3. report[i].model \in Models /\ report[i].sid \in Sids
  BY <1>2, IdleFacts DEF TypeInv, ReportsFull
<1>4. Written(report[i]) \in Usage
  BY <1>1, <1>3, WrittenFacts
<1> DEFINE m == report[i].model
           u == Written(report[i])
<1>5. /\ DOMAIN Put(m, u) = DOMAIN pool \cup {m}
      /\ \A n \in DOMAIN pool \cup {m} : Put(m, u)[n] = IF n = m THEN u ELSE pool[n]
  BY <1>1, <1>3, <1>4, PutFacts
<1>6. QED
  BY <1>2, <1>3, <1>4, <1>5

-----------------------------------------------------------------------------
\* No model without a report

Used == \A m \in DOMAIN pool : DOMAIN pool[m] # {}

LEMMA StepUsed == TypeInv /\ Used /\ [Next]_vars => Used'
<1>1. SUFFICES ASSUME TypeInv, Used, [Next]_vars PROVE Used'
  OBVIOUS
<1>2. /\ pool \in Pool /\ work \in [Instances -> Pool] /\ report \in [Instances -> Report]
  BY <1>1 DEF TypeInv, TypeOK
<1>3. ASSUME UNCHANGED pool PROVE Used'
  BY <1>1, <1>3 DEF Used
<1>4. CASE Tick
  <2>1. pool' = AgedPool(pool)
    BY <1>1, <1>4, TickFacts
  <2>2. \A m \in DOMAIN pool : pool[m] \in Usage
    BY <1>2, PoolFacts
  <2>3. \A m \in DOMAIN pool' : DOMAIN pool'[m] = DOMAIN pool[m] /\ m \in DOMAIN pool
    BY <1>2, <2>1, <2>2, AgedPoolFacts, AgedFacts
  <2>4. QED
    BY <1>1, <2>3 DEF Used
<1>5. ASSUME NEW i \in Instances, Waits(i) \/ Items(i) PROVE Used'
  BY <1>3, <1>5, WaitsFrame DEF Items
<1>6. ASSUME NEW i \in Instances, NEW m \in Models, CleanModel(i, m) PROVE Used'
  <2>1. /\ work[i][m] \in Usage
        /\ \A n \in DOMAIN pool' : \/ n \in DOMAIN pool /\ pool'[n] = pool[n]
                                   \/ n = m /\ pool'[n] = work[i][m] /\ work[i][m] # Empty
    BY <1>1, <1>6, CleanModelFacts
  <2>2. work[i][m] # Empty => DOMAIN work[i][m] # {}
    BY <2>1, EmptyFacts
  <2>3. QED
    BY <1>1, <2>1, <2>2 DEF Used
<1>7. ASSUME NEW i \in Instances, NEW m \in Models, CleanFails(i, m) PROVE Used'
  BY <1>3, <1>7 DEF CleanFails
<1>8. ASSUME NEW i \in Instances, Handler(i) PROVE Used'
  <2>1. CASE UsageGet(i)
    BY <1>3, <2>1 DEF UsageGet
  <2>2. CASE UsageSet(i)
    <3>1. /\ Written(report[i]) \in Usage /\ report[i].sid \in Sids
          /\ DOMAIN pool' = DOMAIN pool \cup {report[i].model}
          /\ \A n \in DOMAIN pool : n # report[i].model => pool'[n] = pool[n]
          /\ pool'[report[i].model] = Written(report[i])
      BY <1>1, <2>2, UsageSetFacts
    <3>2. report[i].sid \in DOMAIN Written(report[i])
      BY <1>2, <3>1, WrittenFacts
    <3>3. QED
      BY <1>1, <3>1, <3>2 DEF Used
  <2>3. QED
    BY <1>8, <2>1, <2>2 DEF Handler
<1>9. ASSUME NEW i \in Instances, NEW s \in Sids, NEW m \in Models, UsageStart(i, s, m)
      PROVE  Used'
  BY <1>3, <1>9 DEF UsageStart
<1>10. ASSUME NEW i \in Instances, Crash(i) \/ Restart(i) PROVE Used'
  BY <1>3, <1>10 DEF Crash, Restart
<1>11. CASE UNCHANGED vars
  BY <1>3, <1>11 DEF vars
<1>12. QED
  BY <1>1, <1>4, <1>5, <1>6, <1>7, <1>8, <1>9, <1>10, <1>11 DEF Next, Cleaner, Waits

\* A model that nobody has reported is never in the pool: neither what a cleaner
\* nor what a handler writes back, however old, is empty.
THEOREM ModelsAreUsed == Spec => []NoModelWithoutUsage
<1>1. Init => Used
  BY EmptyFacts DEF Init, Used
<1>2. Used => NoModelWithoutUsage
  BY EmptyFacts DEF Used, NoModelWithoutUsage
<1>3. QED
  BY <1>1, <1>2, InitTypes, StepTypes, StepUsed, PTL DEF Spec

-----------------------------------------------------------------------------
\* What is lost

\* In u there is no report of the session that is newer than the one instance i
\* is about to write.
NotNewer(i, u) == report[i].sid \in DOMAIN u => report[i].age <= u[report[i].sid]

\* The instance of a session handles its reports one after the other, so that
\* whatever was written or read of the session before is older.
Newest ==
    \A i \in Instances : report[i].step # "idle" =>
        /\ home[report[i].sid] = i
        /\ \A m \in DOMAIN pool : NotNewer(i, pool[m])
        /\ \A j \in Instances : \A m \in DOMAIN work[j] : NotNewer(i, work[j][m])
        /\ \A j \in Instances : NotNewer(i, report[j].read)

LEMMA NewestFrame ==
    ASSUME Newest, UNCHANGED <<home, pool, work, report>>
    PROVE  Newest'
BY DEF Newest, NotNewer

LEMMA TickNewest == ASSUME TypeInv, Newest, Tick PROVE Newest'
<1>1. /\ UNCHANGED home
      /\ pool' = AgedPool(pool) /\ work' = [i \in Instances |-> AgedPool(work[i])]
      /\ report' = [i \in Instances |-> OlderReport(report[i])]
  BY TickFacts
<1>2. /\ pool \in Pool /\ work \in [Instances -> Pool] /\ report \in [Instances -> Report]
  BY DEF TypeInv, TypeOK
<1>3. SUFFICES ASSUME NEW i \in Instances, report'[i].step # "idle"
               PROVE  /\ home'[report'[i].sid] = i
                      /\ \A m \in DOMAIN pool' : NotNewer(i, pool[m])'
                      /\ \A j \in Instances : \A m \in DOMAIN work'[j] : NotNewer(i, work[j][m])'
                      /\ \A j \in Instances : NotNewer(i, report[j].read)'
  BY DEF Newest
<1>4. /\ report[i] \in Report /\ report'[i] = OlderReport(report[i])
  BY <1>1, <1>2
<1>5. /\ report[i].step # "idle" /\ report'[i].sid = report[i].sid
      /\ report[i].age \in Ages /\ report'[i].age = Older(report[i].age)
  BY <1>3, <1>4, OlderReportFacts, IdleFacts DEF Report
\* Both ages grow.
<1>6. ASSUME NEW u \in Usage, NotNewer(i, u), report[i].sid \in DOMAIN Aged(u)
      PROVE  report'[i].age <= Aged(u)[report'[i].sid]
  <2>1. report[i].sid \in DOMAIN u /\ u[report[i].sid] \in Ages
    BY <1>6, AgedFacts, UsageFacts
  <2>2. report[i].age <= u[report[i].sid]
    BY <1>6, <2>1 DEF NotNewer
  <2>3. Older(report[i].age) <= Older(u[report[i].sid])
    BY <1>5, <2>1, <2>2, OlderFacts
  <2>4. QED
    BY <1>5, <2>1, <2>3, AgedFacts
<1>7. home'[report'[i].sid] = i
  BY <1>1, <1>5 DEF Newest
<1>8. ASSUME NEW m \in DOMAIN pool' PROVE NotNewer(i, pool[m])'
  <2>1. m \in DOMAIN pool /\ pool[m] \in Usage /\ pool'[m] = Aged(pool[m])
    BY <1>1, <1>2, <1>8, AgedPoolFacts, PoolFacts
  <2>2. NotNewer(i, pool[m])
    BY <1>5, <2>1 DEF Newest
  <2>3. QED
    BY <1>5, <1>6, <2>1, <2>2 DEF NotNewer
<1>9. ASSUME NEW j \in Instances, NEW m \in DOMAIN work'[j] PROVE NotNewer(i, work[j][m])'
  <2>1. work[j] \in Pool /\ work'[j] = AgedPool(work[j])
    BY <1>1, <1>2
  <2>2. m \in DOMAIN work[j] /\ work[j][m] \in Usage /\ work'[j][m] = Aged(work[j][m])
    BY <1>9, <2>1, AgedPoolFacts, PoolFacts
  <2>3. NotNewer(i, work[j][m])
    BY <1>5, <2>2 DEF Newest
  <2>4. QED
    BY <1>5, <1>6, <2>2, <2>3 DEF NotNewer
<1>10. ASSUME NEW j \in Instances PROVE NotNewer(i, report[j].read)'
  <2>1. report[j] \in Report /\ report'[j].read = Aged(report[j].read)
    BY <1>1, <1>2, OlderReportFacts
  <2>2. report[j].read \in Usage
    BY <2>1 DEF Report
  <2>3. NotNewer(i, report[j].read)
    BY <1>5 DEF Newest
  <2>4. QED
    BY <1>5, <1>6, <2>1, <2>2, <2>3 DEF NotNewer
<1>11. QED
  BY <1>7, <1>8, <1>9, <1>10

\* The cleaner only moves what it has read.
LEMMA CleanerNewest ==
    ASSUME TypeInv, Newest, NEW i \in Instances, Cleaner(i)
    PROVE  Newest'
<1>1. pool \in Pool /\ work \in [Instances -> Pool] /\ work[i] \in Pool
  BY DEF TypeInv, TypeOK
\* What the pool and the copies hold now was there before.
<1>2. ASSUME UNCHANGED <<home, report>>,
             \A m \in DOMAIN pool' :
                \/ m \in DOMAIN pool /\ pool'[m] = pool[m]
                \/ \E j \in Instances : m \in DOMAIN work[j] /\ pool'[m] = work[j][m],
             \A j \in Instances : \A m \in DOMAIN work'[j] :
                \/ m \in DOMAIN work[j] /\ work'[j][m] = work[j][m]
                \/ m \in DOMAIN pool /\ work'[j][m] = Fresh(pool[m])
      PROVE  Newest'
  <2>1. \A m \in DOMAIN pool :
           /\ DOMAIN Fresh(pool[m]) \subseteq DOMAIN pool[m]
           /\ \A s \in DOMAIN Fresh(pool[m]) : Fresh(pool[m])[s] = pool[m][s]
    BY <1>1, PoolFacts, FreshFacts
  <2>2. SUFFICES ASSUME NEW k \in Instances, report[k].step # "idle"
                 PROVE  /\ home[report[k].sid] = k
                        /\ \A m \in DOMAIN pool' : NotNewer(k, pool[m])'
                        /\ \A j \in Instances : \A m \in DOMAIN work'[j] :
                               NotNewer(k, work[j][m])'
                        /\ \A j \in Instances : NotNewer(k, report[j].read)'
    BY <1>2 DEF Newest
  <2>3. /\ home[report[k].sid] = k
        /\ \A m \in DOMAIN pool : NotNewer(k, pool[m])
        /\ \A j \in Instances : \A m \in DOMAIN work[j] : NotNewer(k, work[j][m])
        /\ \A j \in Instances : NotNewer(k, report[j].read)
    BY <2>2 DEF Newest
  <2>4. ASSUME NEW m \in DOMAIN pool' PROVE NotNewer(k, pool[m])'
    BY <1>2, <2>3, <2>4 DEF NotNewer
  <2>5. ASSUME NEW j \in Instances, NEW m \in DOMAIN work'[j] PROVE NotNewer(k, work[j][m])'
    BY <1>2, <2>1, <2>3, <2>5 DEF NotNewer
  <2>6. \A j \in Instances : NotNewer(k, report[j].read)'
    BY <1>2, <2>3 DEF NotNewer
  <2>7. QED
    BY <2>3, <2>4, <2>5, <2>6
<1>3. CASE Waits(i)
  BY <1>3, WaitsFrame, NewestFrame
<1>4. CASE Items(i)
  <2>1. /\ UNCHANGED <<home, report, pool>>
        /\ work' = [work EXCEPT ![i] = [m \in DOMAIN pool |-> Fresh(pool[m])]]
    BY <1>4 DEF Items
  <2>2. \A j \in Instances : \A m \in DOMAIN work'[j] :
           \/ m \in DOMAIN work[j] /\ work'[j][m] = work[j][m]
           \/ m \in DOMAIN pool /\ work'[j][m] = Fresh(pool[m])
    BY <1>1, <2>1
  <2>3. QED
    BY <1>2, <2>1, <2>2
<1>5. ASSUME NEW m \in Models, CleanModel(i, m) PROVE Newest'
  <2>1. UNCHANGED <<home, report>>
    BY <1>5 DEF CleanModel
  <2>2. /\ m \in DOMAIN work[i]
        /\ \A n \in DOMAIN pool' : \/ n \in DOMAIN pool /\ pool'[n] = pool[n]
                                   \/ n = m /\ pool'[n] = work[i][m] /\ work[i][m] # Empty
        /\ \A j \in Instances : \A n \in DOMAIN work'[j] :
               n \in DOMAIN work[j] /\ work'[j][n] = work[j][n]
    BY <1>5, CleanModelFacts
  <2>3. \A n \in DOMAIN pool' :
           \/ n \in DOMAIN pool /\ pool'[n] = pool[n]
           \/ \E j \in Instances : n \in DOMAIN work[j] /\ pool'[n] = work[j][n]
    BY <2>2
  <2>4. QED
    BY <1>2, <2>1, <2>2, <2>3
<1>6. ASSUME NEW m \in Models, CleanFails(i, m) PROVE Newest'
  <2>1. UNCHANGED <<home, report, pool>> /\ work' = [work EXCEPT ![i] = Empty]
    BY <1>6 DEF CleanFails
  <2>2. \A j \in Instances : \A n \in DOMAIN work'[j] :
           n \in DOMAIN work[j] /\ work'[j][n] = work[j][n]
    BY <1>1, <2>1, EmptyFacts
  <2>3. QED
    BY <1>2, <2>1, <2>2
<1>7. QED
  BY <1>3, <1>4, <1>5, <1>6 DEF Cleaner, Waits

LEMMA StartNewest ==
    ASSUME TypeInv, Newest, NEW i \in Instances, NEW s \in Sids, NEW m \in Models,
           UsageStart(i, s, m)
    PROVE  Newest'
<1>1. /\ pool \in Pool /\ work \in [Instances -> Pool] /\ report \in [Instances -> Report]
  BY DEF TypeInv, TypeOK
<1>2. /\ UNCHANGED <<home, pool, work>> /\ home[s] = i
      /\ report'[i].sid = s /\ report'[i].age = 0 /\ report'[i].read = Empty
      /\ \A j \in Instances : j # i => report'[j] = report[j]
  BY <1>1 DEF UsageStart, MayReport
<1>3. \A u \in Usage : NotNewer(i, u)'
  <2>1. SUFFICES ASSUME NEW u \in Usage, s \in DOMAIN u PROVE 0 <= u[s]
    BY <1>2 DEF NotNewer
  <2>2. u[s] \in Ages
    BY <2>1, UsageFacts
  <2>3. QED
    BY <2>2 DEF Ages
<1>4. \A j \in Instances : report'[j].read = Empty \/ report'[j].read = report[j].read
  BY <1>2
<1>5. SUFFICES ASSUME NEW k \in Instances, report'[k].step # "idle"
               PROVE  /\ home[report'[k].sid] = k
                      /\ \A n \in DOMAIN pool : NotNewer(k, pool[n])'
                      /\ \A j \in Instances : \A n \in DOMAIN work[j] : NotNewer(k, work[j][n])'
                      /\ \A j \in Instances : NotNewer(k, report[j].read)'
  BY <1>2 DEF Newest
<1>6. CASE k = i
  <2>1. /\ \A n \in DOMAIN pool : pool[n] \in Usage
        /\ \A j \in Instances : work[j] \in Pool /\ report[j] \in Report
    BY <1>1, PoolFacts
  <2>2. \A j \in Instances : \A n \in DOMAIN work[j] : work[j][n] \in Usage
    BY <2>1, PoolFacts
  <2>3. \A j \in Instances : report'[j].read \in Usage
    BY <1>4, <2>1, EmptyFacts DEF Report
  <2>4. \A n \in DOMAIN pool : NotNewer(k, pool[n])'
    BY <1>2, <1>3, <1>6, <2>1 DEF NotNewer
  <2>5. \A j \in Instances : \A n \in DOMAIN work[j] : NotNewer(k, work[j][n])'
    BY <1>2, <1>3, <1>6, <2>2 DEF NotNewer
  <2>6. \A j \in Instances : NotNewer(k, report[j].read)'
    BY <1>3, <1>6, <2>3 DEF NotNewer
  <2>7. QED
    BY <1>2, <1>6, <2>4, <2>5, <2>6
<1>7. CASE k # i
  <2>1. report'[k] = report[k] /\ report[k].step # "idle"
    BY <1>2, <1>5, <1>7
  <2>2. /\ home[report[k].sid] = k
        /\ \A n \in DOMAIN pool : NotNewer(k, pool[n])
        /\ \A j \in Instances : \A n \in DOMAIN work[j] : NotNewer(k, work[j][n])
        /\ \A j \in Instances : NotNewer(k, report[j].read)
    BY <2>1 DEF Newest
  <2>3. \A j \in Instances : NotNewer(k, report[j].read)'
    BY <1>4, <2>1, <2>2, EmptyFacts DEF NotNewer
  <2>4. QED
    BY <1>2, <2>1, <2>2, <2>3 DEF NotNewer
<1>8. QED
  BY <1>6, <1>7

\* A record that goes on, or is given up.
LEMMA GoesOnNewest ==
    ASSUME TypeInv, Newest, NEW i \in Instances, UNCHANGED home,
           \A j \in Instances :
              /\ \/ report'[j].step = "idle"
                 \/ /\ report[j].step # "idle"
                    /\ report'[j].sid = report[j].sid /\ report'[j].age = report[j].age
              /\ \/ report'[j].read = Empty \/ report'[j].read = report[j].read
                 \/ \E m \in DOMAIN pool : report'[j].read = pool[m],
           \A m \in DOMAIN pool' :
              \/ m \in DOMAIN pool /\ pool'[m] = pool[m]
              \/ /\ report'[i].step = "idle" /\ report[i].step # "idle"
                 /\ report[i] \in Report /\ report[i].sid \in Sids
                 /\ pool'[m] = Written(report[i]),
           \A j \in Instances : \A m \in DOMAIN work'[j] :
              m \in DOMAIN work[j] /\ work'[j][m] = work[j][m]
    PROVE  Newest'
<1>1. SUFFICES ASSUME NEW k \in Instances, report'[k].step # "idle"
               PROVE  /\ home'[report'[k].sid] = k
                      /\ \A m \in DOMAIN pool' : NotNewer(k, pool[m])'
                      /\ \A j \in Instances : \A m \in DOMAIN work'[j] : NotNewer(k, work[j][m])'
                      /\ \A j \in Instances : NotNewer(k, report[j].read)'
  BY DEF Newest
<1>2. /\ report[k].step # "idle"
      /\ report'[k].sid = report[k].sid /\ report'[k].age = report[k].age
  BY <1>1
<1>3. /\ home[report[k].sid] = k
      /\ \A m \in DOMAIN pool : NotNewer(k, pool[m])
      /\ \A j \in Instances : \A m \in DOMAIN work[j] : NotNewer(k, work[j][m])
      /\ \A j \in Instances : NotNewer(k, report[j].read)
  BY <1>2 DEF Newest
<1>4. ASSUME NEW m \in DOMAIN pool' PROVE NotNewer(k, pool[m])'
  <2>1. CASE m \in DOMAIN pool /\ pool'[m] = pool[m]
    BY <1>2, <1>3, <2>1 DEF NotNewer
  \* What was written is of another session, or was read before.
  <2>2. CASE /\ report'[i].step = "idle" /\ report[i].step # "idle"
             /\ report[i] \in Report /\ report[i].sid \in Sids
             /\ pool'[m] = Written(report[i])
    <3>1. k # i /\ report[k].sid # report[i].sid
      <4>1. home[report[i].sid] = i
        BY <2>2 DEF Newest
      <4>2. QED
        BY <1>1, <1>3, <2>2, <4>1
    <3>2. NotNewer(k, report[i].read)
      BY <1>3
    <3>3. /\ DOMAIN Written(report[i]) = DOMAIN report[i].read \cup {report[i].sid}
          /\ \A s \in DOMAIN Written(report[i]) :
                Written(report[i])[s] = IF s = report[i].sid THEN report[i].age
                                        ELSE report[i].read[s]
      BY <2>2, WrittenFacts
    <3>4. NotNewer(k, Written(report[i]))
      BY <3>1, <3>2, <3>3 DEF NotNewer
    <3>5. QED
      BY <1>2, <2>2, <3>4 DEF NotNewer
  <2>3. QED
    BY <1>4, <2>1, <2>2
<1>5. ASSUME NEW j \in Instances, NEW m \in DOMAIN work'[j] PROVE NotNewer(k, work[j][m])'
  <2>1. m \in DOMAIN work[j] /\ work'[j][m] = work[j][m]
    BY <1>5
  <2>2. QED
    BY <1>2, <1>3, <2>1 DEF NotNewer
<1>6. ASSUME NEW j \in Instances PROVE NotNewer(k, report[j].read)'
  <2>1. CASE report'[j].read = Empty
    BY <2>1, EmptyFacts DEF NotNewer
  <2>2. CASE report'[j].read = report[j].read
    BY <1>2, <1>3, <2>2 DEF NotNewer
  <2>3. CASE \E m \in DOMAIN pool : report'[j].read = pool[m]
    BY <1>2, <1>3, <2>3 DEF NotNewer
  <2>4. QED
    BY <2>1, <2>2, <2>3
<1>7. home'[report'[k].sid] = k
  BY <1>2, <1>3
<1>8. QED
  BY <1>4, <1>5, <1>6, <1>7

LEMMA HandlerNewest ==
    ASSUME TypeInv, Newest, NEW i \in Instances, Handler(i) \/ Crash(i)
    PROVE  Newest'
<1>1. /\ pool \in Pool /\ work \in [Instances -> Pool] /\ report \in [Instances -> Report]
      /\ report[i] \in Report
  BY DEF TypeInv, TypeOK
<1>2. Idle.step = "idle" /\ Idle.read = Empty /\ DOMAIN Empty = {}
  BY IdleFacts, EmptyFacts
<1>3. CASE UsageGet(i)
  <2>1. /\ report[i].step = "get" /\ UNCHANGED <<home, pool, work>>
        /\ report' = [report EXCEPT ![i] =
              IF report[i].model \in DOMAIN pool
              THEN [report[i] EXCEPT !.step = "set", !.read = pool[report[i].model]]
              ELSE Idle]
    BY <1>3 DEF UsageGet
  <2>2. CASE report[i].model \in DOMAIN pool
    <3>1. /\ report'[i].sid = report[i].sid /\ report'[i].age = report[i].age
          /\ report'[i].read = pool[report[i].model]
          /\ \A j \in Instances : j # i => report'[j] = report[j]
      BY <1>1, <2>1, <2>2 DEF Report
    <3>2. QED
      BY <2>1, <2>2, <3>1, GoesOnNewest
  <2>3. CASE report[i].model \notin DOMAIN pool
    <3>1. report'[i] = Idle /\ \A j \in Instances : j # i => report'[j] = report[j]
      BY <1>1, <2>1, <2>3
    <3>2. QED
      BY <1>2, <2>1, <3>1, GoesOnNewest
  <2>4. QED
    BY <2>2, <2>3
<1>4. CASE UsageSet(i)
  <2>1. /\ report[i].step = "set" /\ report' = [report EXCEPT ![i] = Idle]
        /\ report[i].sid \in Sids
        /\ DOMAIN pool' = DOMAIN pool \cup {report[i].model}
        /\ \A n \in DOMAIN pool : n # report[i].model => pool'[n] = pool[n]
        /\ pool'[report[i].model] = Written(report[i])
    BY <1>4, UsageSetFacts
  <2>2. UNCHANGED <<home, work>>
    BY <1>4 DEF UsageSet
  <2>3. report'[i] = Idle /\ \A j \in Instances : j # i => report'[j] = report[j]
    BY <1>1, <2>1
  <2>4. \A m \in DOMAIN pool' :
           \/ m \in DOMAIN pool /\ pool'[m] = pool[m]
           \/ /\ report'[i].step = "idle" /\ report[i].step # "idle"
              /\ report[i] \in Report /\ report[i].sid \in Sids
              /\ pool'[m] = Written(report[i])
    BY <1>1, <1>2, <2>1, <2>3
  <2>5. QED
    BY <1>2, <2>2, <2>3, <2>4, GoesOnNewest
<1>5. CASE Crash(i)
  <2>1. /\ UNCHANGED <<home, pool>> /\ work' = [work EXCEPT ![i] = Empty]
        /\ report' = [report EXCEPT ![i] = Idle]
    BY <1>5 DEF Crash
  <2>2. /\ report'[i] = Idle /\ work'[i] = Empty
        /\ \A j \in Instances : j # i => report'[j] = report[j] /\ work'[j] = work[j]
    BY <1>1, <2>1
  <2>3. \A j \in Instances : \A m \in DOMAIN work'[j] :
           m \in DOMAIN work[j] /\ work'[j][m] = work[j][m]
    BY <1>2, <2>2
  <2>4. QED
    BY <1>2, <2>1, <2>2, <2>3, GoesOnNewest
<1>6. QED
  BY <1>3, <1>4, <1>5 DEF Handler

LEMMA StepNewest == TypeInv /\ Newest /\ [Next]_vars => Newest'
<1>1. SUFFICES ASSUME TypeInv, Newest, [Next]_vars PROVE Newest'
  OBVIOUS
<1>2. CASE Tick
  BY <1>1, <1>2, TickNewest
<1>3. ASSUME NEW i \in Instances, Cleaner(i) PROVE Newest'
  BY <1>1, <1>3, CleanerNewest
<1>4. ASSUME NEW i \in Instances, NEW s \in Sids, NEW m \in Models, UsageStart(i, s, m)
      PROVE  Newest'
  BY <1>1, <1>4, StartNewest
<1>5. ASSUME NEW i \in Instances, Handler(i) \/ Crash(i) PROVE Newest'
  BY <1>1, <1>5, HandlerNewest
<1>6. ASSUME NEW i \in Instances, Restart(i) PROVE Newest'
  BY <1>1, <1>6, NewestFrame DEF Restart
<1>7. CASE UNCHANGED vars
  BY <1>1, <1>7, NewestFrame DEF vars
<1>8. QED
  BY <1>1, <1>2, <1>3, <1>4, <1>5, <1>6, <1>7 DEF Next

\* What LossNeedsStaleRead says of a step.
Kept(m, s) == /\ m \in DOMAIN pool' /\ s \in DOMAIN pool'[m]
              /\ pool'[m][s] <= pool[m][s]

LEMMA OnlyStaleReadsLose ==
    ASSUME TypeInv, Newest, [Next]_vars, ~Tick,
           NEW m \in DOMAIN pool, NEW s \in DOMAIN pool[m], pool[m][s] <= TimeoutDuration
    PROVE  Kept(m, s) \/ \E i \in Instances : StaleRead(i, m)
<1>1. pool \in Pool /\ pool[m] \in Usage /\ pool[m][s] \in Ages
  BY PoolFacts, UsageFacts DEF TypeInv, TypeOK
<1>2. pool[m][s] <= pool[m][s]
  BY <1>1 DEF Ages
<1>3. ASSUME UNCHANGED pool PROVE Kept(m, s)
  BY <1>2, <1>3 DEF Kept
<1>4. ASSUME NEW i \in Instances, NEW n \in Models, CleanModel(i, n), ~StaleRead(i, m)
      PROVE  Kept(m, s)
  <2>1. /\ n \in DOMAIN work[i]
        /\ m # n => m \in DOMAIN pool' /\ pool'[m] = pool[m]
        /\ work[i][n] # Empty => n \in DOMAIN pool' /\ pool'[n] = work[i][n]
    BY <1>4, CleanModelFacts
  <2>2. CASE m # n
    BY <1>2, <2>1, <2>2 DEF Kept
  <2>3. CASE m = n
    <3>1. work[i][m] = Fresh(pool[m])
      BY <1>4, <2>1, <2>3 DEF StaleRead
    <3>2. s \in DOMAIN Fresh(pool[m]) /\ Fresh(pool[m])[s] = pool[m][s]
      BY <1>1, FreshFacts
    <3>3. work[i][m] # Empty
      BY <3>1, <3>2, EmptyFacts
    <3>4. QED
      BY <1>2, <2>1, <2>3, <3>1, <3>2, <3>3 DEF Kept
  <2>4. QED
    BY <2>2, <2>3
<1>5. ASSUME NEW i \in Instances, UsageSet(i), ~StaleRead(i, m)
      PROVE  Kept(m, s)
  <2>1. /\ report[i].step = "set" /\ report[i].sid \in Sids
        /\ DOMAIN pool' = DOMAIN pool \cup {report[i].model}
        /\ \A n \in DOMAIN pool : n # report[i].model => pool'[n] = pool[n]
        /\ pool'[report[i].model] = Written(report[i])
    BY <1>5, UsageSetFacts
  <2>2. CASE m # report[i].model
    BY <1>2, <2>1, <2>2 DEF Kept
  <2>3. CASE m = report[i].model
    <3>1. report[i].read = pool[m]
      BY <1>5, <2>1, <2>3 DEF StaleRead
    <3>2. report[i] \in Report
      BY DEF TypeInv, TypeOK
    <3>3. /\ DOMAIN Written(report[i]) = DOMAIN report[i].read \cup {report[i].sid}
          /\ \A t \in DOMAIN Written(report[i]) :
                Written(report[i])[t] = IF t = report[i].sid THEN report[i].age
                                        ELSE report[i].read[t]
      BY <2>1, <3>2, WrittenFacts
    <3>4. s = report[i].sid => report[i].age <= pool[m][s]
      BY <2>1 DEF Newest, NotNewer
    <3>5. QED
      BY <1>2, <2>1, <2>3, <3>1, <3>3, <3>4 DEF Kept
  <2>4. QED
    BY <2>2, <2>3
<1>6. ASSUME NEW i \in Instances, Waits(i) PROVE Kept(m, s)
  BY <1>3, <1>6, WaitsFrame
<1>7. ASSUME NEW i \in Instances,
             \/ Items(i) \/ UsageGet(i) \/ Crash(i) \/ Restart(i)
             \/ \E n \in Models : CleanFails(i, n)
             \/ \E t \in Sids, n \in Models : UsageStart(i, t, n)
      PROVE  Kept(m, s)
  BY <1>3, <1>7 DEF Items, UsageGet, Crash, Restart, CleanFails, UsageStart
<1>8. CASE UNCHANGED vars
  BY <1>3, <1>8 DEF vars
<1>9. QED
  BY <1>4, <1>5, <1>6, <1>7, <1>8 DEF Next, Cleaner, Waits, Handler

\* A report that has not timed out is lost, or replaced by an older one, only when
\* an instance writes back what it has read before another instance changed it.
THEOREM StaleReadsLose == Spec => LossNeedsStaleRead
<1>1. Init => Newest
  BY IdleFacts DEF Init, Newest
<1>2. TypeInv /\ Newest /\ [Next]_vars =>
         [Tick \/ \A m \in DOMAIN pool : \A s \in DOMAIN pool[m] :
             pool[m][s] <= TimeoutDuration =>
                 \/ /\ m \in DOMAIN pool' /\ s \in DOMAIN pool'[m]
                    /\ pool'[m][s] <= pool[m][s]
                 \/ \E i \in Instances : StaleRead(i, m)]_vars
  BY OnlyStaleReadsLose DEF Kept
<1>3. QED
  BY <1>1, <1>2, InitTypes, StepTypes, StepNewest, PTL DEF Spec, LossNeedsStaleRead

=============================================================================
