---------------------------- MODULE AppConfigProofs ----------------------------
(***************************************************************************)
(* Proofs about AppConfig, for every set of instances, calls, options and  *)
(* values.                                                                 *)
(*                                                                         *)
(* Two facts are inductive on top of the types.  An option that nobody has *)
(* assigned or imported is in no store (Untouched), so that everybody has  *)
(* what the environment says.  What was last assigned of an option that is *)
(* neither broken nor stale is, as far as its assignment has come, in the  *)
(* table, in the copies of the instances that are fresh, in their values   *)
(* and in Redis (Kept).                                                    *)
(***************************************************************************)
EXTENDS AppConfig, SequenceTheorems, TLAPS

\* What is known of option k if nobody has changed it.
Blank(k) == /\ \A r \in DOMAIN rows : rows[r][k] = None
            /\ \A i \in Instances : data[i][k] = None /\ value[i][k] = EnvValue
            /\ last[k] = EnvValue

Untouched == useRedis => \A k \in Keys :
                 k \notin broken /\ Quiet(k) /\ redis[k] = None => Blank(k)

\* The instance has an assignment of the option that its CONFIG_DATA lacks.
Ahead(i, k) == \E c \in Calls : op[c].step = "value" /\ op[c].at = i /\ op[c].key = k

Intact(k) == k \notin broken \cup stale

TableKept(k)  == InTable(k) => Loaded(get_config)[k] = last[k]
CopiesKept(k) == \A i \in fresh[k] : Ahead(i, k) \/ Loaded(data[i])[k] = last[k]
ValuesKept(k) == \A i \in fresh[k] : useRedis \/ value[i][k] = last[k]
CallsKept(k)  == \A c \in Calls : Busy(c, k) => op[c].at \in fresh[k]
                                               /\ value[op[c].at][k] = last[k]
RedisKept(k)  == useRedis /\ Quiet(k) /\ redis[k] # None => redis[k] = last[k]

KeptOf(k) == TableKept(k) /\ CopiesKept(k) /\ ValuesKept(k) /\ CallsKept(k) /\ RedisKept(k)

Kept == \A k \in Keys : Intact(k) => KeptOf(k)

-----------------------------------------------------------------------------
\* The document that a start loads is one.
LEMMA ConfigIsDoc == rows \in Seq(Doc) => get_config \in Doc
BY DEF get_config, DEFAULT_CONFIG, Doc

\* What options are after a document is loaded are values.
LEMMA LoadedIsValue ==
    ASSUME NEW doc \in Doc PROVE Loaded(doc) \in [Keys -> Values]
BY ConfigAssumption DEF Loaded, Doc

\* After a save the rows are documents, each is as it was or the one that was
\* saved, and a start loads the one that was saved, if its row is new or the last.
LEMMA SaveEffect ==
    ASSUME rows \in Seq(Doc), NEW doc \in Doc, NEW row \in Nat, SaveTo(row, doc)
    PROVE  /\ rows' \in Seq(Doc)
           /\ \A r \in DOMAIN rows' : rows'[r] = doc \/ (r \in DOMAIN rows /\ rows'[r] = rows[r])
           /\ rows' # <<>> /\ Len(rows') \in DOMAIN rows'
           /\ IF row \in {0, Len(rows)} THEN rows'[Len(rows')] = doc
              ELSE rows # <<>> /\ rows'[Len(rows')] = rows[Len(rows)]
<1>1. CASE row = 0
    <2>1. rows' = Append(rows, doc)
        BY <1>1 DEF SaveTo
    <2>2. /\ rows' \in Seq(Doc) /\ Len(rows') = Len(rows) + 1 /\ rows'[Len(rows')] = doc
          /\ \A r \in 1..Len(rows) : rows'[r] = rows[r]
        BY <2>1, AppendProperties
    <2>3. DOMAIN rows' = 1..Len(rows') /\ DOMAIN rows = 1..Len(rows) /\ Len(rows) \in Nat
        BY <2>2, LenProperties
    <2>4. rows' # <<>> /\ Len(rows') \in DOMAIN rows'
        BY <2>2, <2>3, EmptySeq
    <2>5. \A r \in DOMAIN rows' : r = Len(rows') \/ r \in 1..Len(rows)
        BY <2>2, <2>3
    <2>6. QED
        BY <1>1, <2>2, <2>3, <2>4, <2>5
<1>2. CASE row # 0
    <2>1. row \in DOMAIN rows /\ rows' = [rows EXCEPT ![row] = doc]
        BY <1>2 DEF SaveTo
    <2>2. DOMAIN rows = 1..Len(rows)
        OBVIOUS
    <2>3. /\ rows' \in Seq(Doc) /\ Len(rows') = Len(rows)
          /\ \A r \in 1..Len(rows) : rows'[r] = IF r = row THEN doc ELSE rows[r]
        BY <2>1, <2>2, ExceptSeq, Zenon
    <2>4. DOMAIN rows' = 1..Len(rows)
        BY <2>3
    <2>5. Len(rows) \in 1..Len(rows) /\ row \in 1..Len(rows)
        BY <2>1, <2>2
    <2>6. rows' # <<>> /\ rows # <<>>
        BY <2>3, <2>5
    <2>7. QED
        BY <1>2, <2>2, <2>3, <2>4, <2>5, <2>6
<1>3. QED
    BY <1>1, <1>2

\* A call is of a running instance and of an option; what a read has taken is in
\* Redis, which forgets no option; what is down has no copy.
CallsKnown ==
    /\ \A c \in Calls : op[c].step # "idle" => op[c].at \in Instances /\ up[op[c].at] = "up"
    /\ \A c \in Calls : op[c].step \in {"value", "save", "redis", "read"} => op[c].key \in Keys
    /\ \A c \in Calls : op[c].step = "read" =>
           useRedis /\ op[c].val \in Values /\ redis[op[c].key] # None
    /\ \A i \in Instances, k \in Keys : up[i] = "down" => i \notin fresh[k]

TypeInv == TypeOK /\ CallsKnown

\* Nothing is called.
LEMMA IdleTyped == Idle \in Op /\ Idle.step = "idle"
BY DEF Idle, Op, Steps, DEFAULT_CONFIG, Doc

\* The initial states are well typed.
LEMMA InitTyped == Init => TypeInv
<1>1. SUFFICES ASSUME Init PROVE TypeInv
    OBVIOUS
<1>2. DEFAULT_CONFIG \in Doc
    BY DEF DEFAULT_CONFIG, Doc
<1>3. get_config \in Doc
    BY <1>1, <1>2 DEF Init, get_config
<1>4. Loaded(get_config) \in [Keys -> Values]
    BY <1>3, LoadedIsValue
<1>5. rows \in Seq(Doc) /\ redis \in Doc
    BY <1>1, <1>2 DEF Init
<1>6. data \in [Instances -> Doc] /\ value \in [Instances -> [Keys -> Values]]
    BY <1>1, <1>3, <1>4 DEF Init
<1>7. op \in [Calls -> Op] /\ CallsKnown
    BY <1>1, IdleTyped DEF Init, CallsKnown
<1>8. up \in [Instances -> {"up", "reset", "down"}] /\ useRedis \in BOOLEAN
    BY <1>1 DEF Init
<1>9. saves \in 0..MaxSaves /\ crashes \in 0..MaxCrashes
    BY <1>1, ConfigAssumption DEF Init
<1>10. last \in [Keys -> Values] /\ fresh \in [Keys -> SUBSET Instances]
    BY <1>1, <1>4 DEF Init
<1>11. broken \subseteq Keys /\ stale \subseteq Keys
    BY <1>1 DEF Init
<1>12. QED
    BY <1>5, <1>6, <1>7, <1>8, <1>9, <1>10, <1>11 DEF TypeOK, TypeInv

\* A call that ends leaves the others as they are.
LEMMA EndTyped ==
    ASSUME TypeInv, NEW c \in Calls, End(c), UNCHANGED <<up, fresh, useRedis>>,
           \A k \in Keys : redis[k] # None => redis'[k] # None
    PROVE  op' \in [Calls -> Op] /\ CallsKnown'
<1>1. op' = [op EXCEPT ![c] = Idle]
    BY DEF End
<1>2. op' \in [Calls -> Op]
    BY <1>1, IdleTyped DEF TypeInv, TypeOK
<1>3. \A d \in Calls : op'[d] = op[d] \/ op'[d].step = "idle"
    BY <1>1, IdleTyped DEF TypeInv, TypeOK
<1>4. QED
    BY <1>2, <1>3 DEF TypeInv, CallsKnown

\* Every step keeps the types.
LEMMA StepTyped == TypeInv /\ [Next]_vars => TypeInv'
<1>1. SUFFICES ASSUME TypeInv, [Next]_vars PROVE TypeInv'
    OBVIOUS
<1>2. \A row \in First : row \in Nat
    BY <1>1 DEF First, TypeInv, TypeOK
<1>3. /\ op \in [Calls -> Op] /\ rows \in Seq(Doc) /\ redis \in Doc
      /\ data \in [Instances -> Doc] /\ value \in [Instances -> [Keys -> Values]]
    BY <1>1 DEF TypeInv, TypeOK
<1>4. ASSUME NEW c \in Calls, NEW i \in Instances, NEW k \in Keys, ReadGet(c, i, k)
      PROVE TypeInv'
    <2>1. CASE useRedis /\ redis[k] # None
        <3>1. op' = [op EXCEPT ![c] = [Idle EXCEPT !.step = "read", !.at = i, !.key = k,
                                                   !.val = redis[k]]]
            BY <1>4, <2>1 DEF ReadGet
        <3>2. redis[k] \in Values
            BY <1>3, <2>1 DEF Doc
        <3>3. op' \in [Calls -> Op]
            BY <1>3, <3>1, <3>2, IdleTyped DEF Op, Steps
        <3>4. /\ op'[c].step = "read" /\ op'[c].at = i /\ op'[c].key = k
              /\ op'[c].val = redis[k] /\ \A d \in Calls \ {c} : op'[d] = op[d]
            BY <1>3, <3>1, IdleTyped DEF Op
        <3>5. up[i] = "up" /\ UNCHANGED <<up, redis, useRedis, fresh>>
            BY <1>4 DEF ReadGet, Begin, stores, ghosts
        <3>6. CallsKnown'
            BY <1>1, <2>1, <3>2, <3>4, <3>5 DEF TypeInv, CallsKnown
        <3>7. QED
            BY <1>1, <1>4, <3>3, <3>6
                DEF TypeInv, TypeOK, ReadGet, stores, bounds, ghosts
    <2>2. CASE ~(useRedis /\ redis[k] # None)
        <3>1. UNCHANGED vars
            BY <1>4, <2>2 DEF ReadGet, vars
        <3>2. QED
            BY <1>1, <3>1 DEF TypeInv, TypeOK, CallsKnown, vars, stores, bounds, ghosts
    <2>3. QED
        BY <2>1, <2>2
<1>5. ASSUME NEW c \in Calls, NEW i \in Instances, NEW k \in Keys, NEW v \in Values,
             Assign(c, i, k, v)
      PROVE TypeInv'
    <2>1. op' = [op EXCEPT ![c] = [Idle EXCEPT !.step = "value", !.at = i, !.key = k]]
        BY <1>5 DEF Assign
    <2>2. op' \in [Calls -> Op]
        BY <1>3, <2>1, IdleTyped DEF Op, Steps
    <2>3. /\ op'[c].step = "value" /\ op'[c].at = i /\ op'[c].key = k
          /\ \A d \in Calls \ {c} : op'[d] = op[d]
        BY <1>3, <2>1, IdleTyped DEF Op
    <2>4. up[i] = "up" /\ UNCHANGED <<up, redis, useRedis>>
        BY <1>5 DEF Assign, Begin, stores
    <2>5. fresh' = [fresh EXCEPT ![k] = {i}]
        BY <1>5 DEF Assign
    <2>6. fresh' \in [Keys -> SUBSET Instances]
        BY <1>1, <2>5 DEF TypeInv, TypeOK
    <2>7. CallsKnown'
        BY <1>1, <2>3, <2>4, <2>5 DEF TypeInv, TypeOK, CallsKnown
    <2>8. value' \in [Instances -> [Keys -> Values]] /\ last' \in [Keys -> Values]
        BY <1>1, <1>5 DEF TypeInv, TypeOK, Assign
    <2>9. saves' \in 0..MaxSaves
        BY <1>1, <1>5, ConfigAssumption DEF TypeInv, TypeOK, Assign
    <2>10. broken' \subseteq Keys /\ stale' \subseteq Keys
        BY <1>1, <1>5 DEF TypeInv, TypeOK, Assign
    <2>11. QED
        BY <1>1, <1>5, <2>2, <2>6, <2>7, <2>8, <2>9, <2>10
            DEF TypeInv, TypeOK, Assign, stores
<1>6. ASSUME NEW c \in Calls, NEW i \in Instances, NEW doc \in Imports, Import(c, i, doc)
      PROVE TypeInv'
    <2>1. PICK row \in First :
              op' = [op EXCEPT ![c] = [Idle EXCEPT !.step = "import", !.at = i,
                                                   !.doc = doc, !.row = row]]
        BY <1>6 DEF Import
    <2>2. doc \in Doc /\ row \in Nat
        BY <1>2, <2>1, ConfigAssumption
    <2>3. op' \in [Calls -> Op]
        BY <1>3, <2>1, <2>2, IdleTyped DEF Op, Steps
    <2>4. /\ op'[c].step = "import" /\ op'[c].at = i /\ \A d \in Calls \ {c} : op'[d] = op[d]
        BY <1>3, <2>1, IdleTyped DEF Op
    <2>5. up[i] = "up" /\ UNCHANGED <<up, redis, useRedis, fresh>>
        BY <1>6 DEF Import, Begin, stores, ghosts
    <2>6. CallsKnown'
        BY <1>1, <2>4, <2>5 DEF TypeInv, CallsKnown
    <2>7. saves' \in 0..MaxSaves
        BY <1>1, <1>6, ConfigAssumption DEF TypeInv, TypeOK, Import
    <2>8. QED
        BY <1>1, <1>6, <2>3, <2>6, <2>7 DEF TypeInv, TypeOK, Import, stores, ghosts
<1>7. ASSUME NEW c \in Calls, Save(c) PROVE TypeInv'
    <2>1. op[c] \in Op /\ op[c].at \in Instances /\ op[c].key \in Keys
        BY <1>1, <1>3, <1>7 DEF TypeInv, CallsKnown, Save
    <2>2. PICK row \in First : op' = [op EXCEPT ![c].step = "save", ![c].row = row]
        BY <1>7 DEF Save
    <2>3. op' \in [Calls -> Op]
        BY <1>2, <1>3, <2>1, <2>2 DEF Op, Steps
    <2>4. /\ op'[c].step = "save" /\ op'[c].at = op[c].at /\ op'[c].key = op[c].key
          /\ \A d \in Calls \ {c} : op'[d] = op[d]
        BY <1>3, <2>1, <2>2 DEF Op
    <2>5. op[c].step = "value" /\ UNCHANGED <<up, redis, useRedis, fresh>>
        BY <1>7 DEF Save, stores, ghosts
    <2>6. CallsKnown'
        BY <1>1, <2>4, <2>5 DEF TypeInv, CallsKnown
    <2>7. value[op[c].at][op[c].key] \in Values
        BY <1>3, <2>1
    <2>8. data' \in [Instances -> Doc]
        BY <1>3, <1>7, <2>1, <2>7 DEF Save, Doc
    <2>9. QED
        BY <1>1, <1>7, <2>3, <2>6, <2>8 DEF TypeInv, TypeOK, Save, stores, bounds, ghosts
<1>8. ASSUME NEW c \in Calls, Commit(c) PROVE TypeInv'
    <2>1. /\ op[c] \in Op /\ op[c].step = "save"
          /\ op[c].at \in Instances /\ op[c].key \in Keys
        BY <1>1, <1>3, <1>8 DEF TypeInv, CallsKnown, Commit
    <2>2. rows' \in Seq(Doc)
        BY <1>3, <1>8, <2>1, SaveEffect DEF Commit, Op
    <2>3. UNCHANGED <<up, redis, useRedis, fresh>>
        BY <1>8 DEF Commit
    <2>4. op' \in [Calls -> Op] /\ CallsKnown'
        <3>1. CASE useRedis
            <4>1. op' = [op EXCEPT ![c].step = "redis"]
                BY <1>8, <3>1 DEF Commit
            <4>2. op' \in [Calls -> Op]
                BY <1>3, <2>1, <4>1 DEF Op, Steps
            <4>3. /\ op'[c].step = "redis" /\ op'[c].at = op[c].at /\ op'[c].key = op[c].key
                  /\ \A d \in Calls \ {c} : op'[d] = op[d]
                BY <1>3, <2>1, <4>1 DEF Op
            <4>4. QED
                BY <1>1, <2>1, <2>3, <4>2, <4>3 DEF TypeInv, CallsKnown
        <3>2. CASE ~useRedis
            BY <1>1, <1>8, <2>3, <3>2, EndTyped DEF Commit
        <3>3. QED
            BY <3>1, <3>2
    <2>5. Undone(c) \subseteq Keys
        BY <2>1 DEF Undone
    <2>6. QED
        BY <1>1, <1>8, <2>2, <2>4, <2>5 DEF TypeInv, TypeOK, Commit, bounds
<1>9. ASSUME NEW c \in Calls, CommitFails(c) \/ SetRedisFails(c) PROVE TypeInv'
    <2>1. op[c].key \in Keys
        BY <1>1, <1>9 DEF TypeInv, CallsKnown, CommitFails, SetRedisFails
    <2>2. End(c) /\ UNCHANGED <<stores, up, fresh>>
        BY <1>9 DEF CommitFails, SetRedisFails
    <2>3. op' \in [Calls -> Op] /\ CallsKnown'
        BY <1>1, <2>2, EndTyped DEF stores
    <2>4. QED
        BY <1>1, <1>9, <2>1, <2>3
            DEF TypeInv, TypeOK, CommitFails, SetRedisFails, stores, bounds
<1>10. ASSUME NEW c \in Calls, SetRedis(c) PROVE TypeInv'
    <2>1. op[c].at \in Instances /\ op[c].key \in Keys
        BY <1>1, <1>10 DEF TypeInv, CallsKnown, SetRedis
    <2>2. value[op[c].at][op[c].key] \in Values
        BY <1>3, <2>1
    <2>3. redis' = [redis EXCEPT ![op[c].key] = value[op[c].at][op[c].key]]
        BY <1>10 DEF SetRedis
    <2>4. redis' \in Doc /\ \A k \in Keys : redis[k] # None => redis'[k] # None
        BY <1>3, <2>1, <2>2, <2>3, ConfigAssumption DEF Doc
    <2>5. End(c) /\ UNCHANGED <<useRedis, up, fresh>>
        BY <1>10 DEF SetRedis, ghosts
    <2>6. op' \in [Calls -> Op] /\ CallsKnown'
        BY <1>1, <2>4, <2>5, EndTyped
    <2>7. QED
        BY <1>1, <1>10, <2>4, <2>6 DEF TypeInv, TypeOK, SetRedis, bounds, ghosts
<1>11. ASSUME NEW c \in Calls, ReadSet(c) PROVE TypeInv'
    <2>1. op[c].at \in Instances /\ op[c].key \in Keys /\ op[c].val \in Values
        BY <1>1, <1>11 DEF TypeInv, CallsKnown, ReadSet
    <2>2. value' \in [Instances -> [Keys -> Values]]
        BY <1>3, <1>11, <2>1 DEF ReadSet
    <2>3. End(c) /\ UNCHANGED <<stores, up, fresh>>
        BY <1>11 DEF ReadSet
    <2>4. op' \in [Calls -> Op] /\ CallsKnown'
        BY <1>1, <2>3, EndTyped DEF stores
    <2>5. stale' \subseteq Keys
        BY <1>1, <1>11, <2>1 DEF TypeInv, TypeOK, ReadSet
    <2>6. QED
        BY <1>1, <1>11, <2>2, <2>4, <2>5 DEF TypeInv, TypeOK, ReadSet, stores, bounds
<1>12. ASSUME NEW c \in Calls, ImportCommit(c) PROVE TypeInv'
    <2>1. op[c] \in Op /\ op[c].doc \in Doc /\ op[c].row \in Nat /\ op[c].step = "import"
        BY <1>3, <1>12 DEF Op, ImportCommit
    <2>2. rows' \in Seq(Doc)
        BY <1>3, <1>12, <2>1, SaveEffect DEF ImportCommit
    <2>3. op' = [op EXCEPT ![c].step = "update"] /\ UNCHANGED <<useRedis, redis, up, fresh>>
        BY <1>12 DEF ImportCommit
    <2>4. op' \in [Calls -> Op]
        BY <1>3, <2>1, <2>3 DEF Op, Steps
    <2>5. /\ op'[c].step = "update" /\ op'[c].at = op[c].at
          /\ \A d \in Calls \ {c} : op'[d] = op[d]
        BY <1>3, <2>1, <2>3 DEF Op
    <2>6. CallsKnown'
        BY <1>1, <2>1, <2>3, <2>5 DEF TypeInv, CallsKnown
    <2>7. QED
        BY <1>1, <1>12, <2>2, <2>4, <2>6 DEF TypeInv, TypeOK, ImportCommit, bounds
<1>13. ASSUME NEW c \in Calls, ImportFails(c) PROVE TypeInv'
    <2>1. op' \in [Calls -> Op] /\ CallsKnown'
        BY <1>1, <1>13, EndTyped DEF ImportFails, stores, ghosts
    <2>2. QED
        BY <1>1, <1>13, <2>1 DEF TypeInv, TypeOK, ImportFails, stores, bounds, ghosts
<1>14. ASSUME NEW c \in Calls, Update(c) PROVE TypeInv'
    <2>1. op[c].at \in Instances /\ op[c].doc \in Doc
        BY <1>1, <1>3, <1>14 DEF TypeInv, CallsKnown, Op, Update
    <2>2. data' \in [Instances -> Doc]
        BY <1>3, <1>14, <2>1 DEF Update
    <2>3. [k \in Keys |-> IF op[c].doc[k] = None THEN value[op[c].at][k] ELSE op[c].doc[k]]
              \in [Keys -> Values]
        BY <1>3, <2>1 DEF Doc
    <2>4. value' \in [Instances -> [Keys -> Values]]
        BY <1>3, <1>14, <2>1, <2>3 DEF Update
    <2>5. op' \in [Calls -> Op] /\ CallsKnown'
        BY <1>1, <1>14, EndTyped DEF Update, stores
    <2>6. QED
        BY <1>1, <1>14, <2>2, <2>4, <2>5 DEF TypeInv, TypeOK, Update, stores, bounds
<1>15. ASSUME NEW i \in Instances, Crash(i) PROVE TypeInv'
    <2>1. DEFAULT_CONFIG \in Doc /\ Loaded(DEFAULT_CONFIG) \in [Keys -> Values]
        BY LoadedIsValue DEF DEFAULT_CONFIG, Doc
    <2>2. /\ data' = [data EXCEPT ![i] = DEFAULT_CONFIG]
          /\ value' = [value EXCEPT ![i] = Loaded(DEFAULT_CONFIG)]
          /\ up' = [up EXCEPT ![i] = "down"] /\ fresh' = [k \in Keys |-> fresh[k] \ {i}]
          /\ op' = [c \in Calls |-> IF op[c].at = i THEN Idle ELSE op[c]]
          /\ UNCHANGED <<useRedis, redis>>
        BY <1>15 DEF Crash, stores
    <2>3. data' \in [Instances -> Doc] /\ value' \in [Instances -> [Keys -> Values]]
        BY <1>3, <2>1, <2>2
    <2>4. /\ up' \in [Instances -> {"up", "reset", "down"}]
          /\ fresh' \in [Keys -> SUBSET Instances]
        BY <1>1, <2>2 DEF TypeInv, TypeOK
    <2>5. op' \in [Calls -> Op]
        BY <1>3, <2>2, IdleTyped
    <2>6. \A c \in Calls : op'[c].step # "idle" => op'[c] = op[c] /\ op[c].at # i
        BY <2>2, IdleTyped
    <2>7. CallsKnown'
        BY <1>1, <2>2, <2>6 DEF TypeInv, TypeOK, CallsKnown
    <2>8. crashes' \in 0..MaxCrashes
        BY <1>1, <1>15, ConfigAssumption DEF TypeInv, TypeOK, Crash
    <2>9. broken' \subseteq Keys
        BY <1>1, <1>15 DEF TypeInv, TypeOK, Crash
    <2>10. QED
        BY <1>1, <1>15, <2>3, <2>4, <2>5, <2>7, <2>8, <2>9 DEF TypeInv, TypeOK, Crash, stores
<1>16. ASSUME NEW i \in Instances, Start(i) PROVE TypeInv'
    <2>1. PICK new \in {"up", "reset"} : up' = [up EXCEPT ![i] = new]
        BY <1>16 DEF Start
    <2>2. get_config \in Doc
        BY <1>3, ConfigIsDoc
    <2>3. data' \in [Instances -> Doc] /\ value' \in [Instances -> [Keys -> Values]]
        BY <1>3, <1>16, <2>2, LoadedIsValue DEF Start
    <2>4. \A k \in Keys : fresh'[k] \in {fresh[k], fresh[k] \cup {i}}
        BY <1>16 DEF Start
    <2>5. fresh' \in [Keys -> SUBSET Instances]
        BY <1>1, <1>16 DEF TypeInv, TypeOK, Start
    <2>6. up[i] = "down" /\ UNCHANGED <<op, redis, useRedis>>
        BY <1>16 DEF Start, stores
    <2>7. up' \in [Instances -> {"up", "reset", "down"}]
        BY <1>1, <2>1 DEF TypeInv, TypeOK
    <2>8. CallsKnown'
        BY <1>1, <2>1, <2>4, <2>6 DEF TypeInv, TypeOK, CallsKnown
    <2>9. QED
        BY <1>1, <1>16, <2>3, <2>5, <2>7, <2>8 DEF TypeInv, TypeOK, Start, stores, bounds
<1>17. ASSUME NEW i \in Instances, Reset(i) PROVE TypeInv'
    <2>1. up' = [up EXCEPT ![i] = "up"] /\ UNCHANGED <<op, useRedis, redis, fresh>>
        BY <1>17 DEF Reset
    <2>2. CallsKnown' /\ up' \in [Instances -> {"up", "reset", "down"}]
        BY <1>1, <2>1 DEF TypeInv, TypeOK, CallsKnown
    <2>3. rows' \in Seq(Doc)
        BY <1>17 DEF Reset
    <2>4. QED
        BY <1>1, <1>17, <2>2, <2>3 DEF TypeInv, TypeOK, Reset, bounds
<1>18. CASE UNCHANGED vars
    BY <1>1, <1>18 DEF TypeInv, TypeOK, CallsKnown, vars, stores, bounds, ghosts
<1>19. QED
    BY <1>1, <1>4, <1>5, <1>6, <1>7, <1>8, <1>9, <1>10, <1>11, <1>12, <1>13, <1>14, <1>15,
       <1>16, <1>17, <1>18
        DEF Next

\* Every reachable state is well typed.
THEOREM TypeCorrect == Spec => []TypeOK
<1>1. TypeInv => TypeOK
    BY DEF TypeInv
<1>2. QED
    BY <1>1, InitTyped, StepTyped, PTL DEF Spec

-----------------------------------------------------------------------------
\* Kept is inductive.

LEMMA InitKept == Init => Kept
<1>1. SUFFICES ASSUME Init, NEW k \in Keys PROVE KeptOf(k)
    BY DEF Kept
<1>2. \A i \in Instances : data[i] = get_config /\ value[i] = Loaded(get_config)
    BY <1>1 DEF Init
<1>3. \A c \in Calls : ~Busy(c, k)
    BY <1>1, IdleTyped DEF Init, Busy
<1>4. last = Loaded(get_config) /\ fresh[k] = Instances /\ redis[k] = None
    BY <1>1 DEF Init, DEFAULT_CONFIG
<1>5. QED
    BY <1>2, <1>3, <1>4 DEF KeptOf, TableKept, CopiesKept, ValuesKept, CallsKept, RedisKept

\* No assignment of option k begins, ends or moves.
Still(k) == \A c \in Calls : op'[c] = op[c] \/ (~Busy(c, k) /\ ~Busy(c, k)')

\* Then what is said of the assignments of k stays true or false.
LEMMA StillSame ==
    ASSUME NEW k \in Keys, Still(k)
    PROVE  /\ Quiet(k)' <=> Quiet(k)
           /\ InTable(k)' <=> InTable(k)
           /\ \A i \in Instances : Ahead(i, k)' <=> Ahead(i, k)
           /\ \A c \in Calls : Busy(c, k)' => Busy(c, k) /\ op'[c] = op[c]
BY DEF Still, Quiet, InTable, Ahead, Busy, Unsaved

\* A step that changes nothing about option k keeps what is kept of it.
LEMMA KeptAlone ==
    ASSUME TypeInv, NEW k \in Keys, KeptOf(k), Still(k), UNCHANGED useRedis,
           get_config'[k] = get_config[k], redis'[k] = redis[k], last'[k] = last[k],
           fresh'[k] \subseteq fresh[k],
           \A i \in Instances : i \in fresh'[k] =>
               data'[i][k] = data[i][k] /\ value'[i][k] = value[i][k],
           \A c \in Calls : Busy(c, k) => op[c].at \in fresh'[k]
    PROVE  KeptOf(k)'
<1>1. fresh[k] \subseteq Instances
    BY DEF TypeInv, TypeOK
<1>2. /\ Loaded(get_config)'[k] = Loaded(get_config)[k]
      /\ \A i \in fresh'[k] : Loaded(data[i])'[k] = Loaded(data[i])[k]
    BY <1>1 DEF Loaded
<1>3. TableKept(k)' /\ CopiesKept(k)' /\ ValuesKept(k)' /\ RedisKept(k)'
    BY <1>1, <1>2, StillSame DEF KeptOf, TableKept, CopiesKept, ValuesKept, RedisKept
<1>4. CallsKept(k)'
    <2>1. SUFFICES ASSUME NEW c \in Calls, Busy(c, k)'
                   PROVE  op'[c].at \in fresh'[k] /\ value'[op'[c].at][k] = last'[k]
        BY DEF CallsKept
    <2>2. Busy(c, k) /\ op'[c] = op[c]
        BY <2>1, StillSame
    <2>3. op[c].at \in fresh'[k] /\ op[c].at \in Instances
        BY <1>1, <2>2
    <2>4. value[op[c].at][k] = last[k]
        BY <2>2 DEF KeptOf, CallsKept
    <2>5. QED
        BY <2>2, <2>3, <2>4
<1>5. QED
    BY <1>3, <1>4 DEF KeptOf

LEMMA StepKept == TypeInv /\ Kept /\ [Next]_vars => Kept'
<1>1. SUFFICES ASSUME TypeInv, Kept, [Next]_vars, NEW k \in Keys, Intact(k)'
               PROVE  KeptOf(k)'
    BY DEF Kept
<1>2. /\ op \in [Calls -> Op] /\ rows \in Seq(Doc) /\ redis \in Doc
      /\ data \in [Instances -> Doc] /\ value \in [Instances -> [Keys -> Values]]
      /\ last \in [Keys -> Values] /\ fresh \in [Keys -> SUBSET Instances]
    BY <1>1 DEF TypeInv, TypeOK
<1>3. ASSUME NEW c \in Calls, NEW i \in Instances, NEW l \in Keys, ReadGet(c, i, l)
      PROVE KeptOf(k)'
    <2>1. Intact(k) /\ UNCHANGED <<stores, data, value, ghosts>>
        BY <1>1, <1>3 DEF ReadGet, Intact, ghosts
    <2>2. Still(k)
        BY <1>2, <1>3, IdleTyped DEF ReadGet, Begin, Still, Busy, Op
    <2>3. KeptOf(k)
        BY <1>1, <2>1 DEF Kept
    <2>4. QED
        BY <1>1, <2>1, <2>2, <2>3, KeptAlone
            DEF stores, ghosts, get_config, KeptOf, CallsKept
<1>4. ASSUME NEW c \in Calls, NEW i \in Instances, NEW l \in Keys, NEW v \in Values,
             Assign(c, i, l, v)
      PROVE KeptOf(k)'
    <2>1. op' = [op EXCEPT ![c] = [Idle EXCEPT !.step = "value", !.at = i, !.key = l]]
        BY <1>4 DEF Assign
    <2>2. /\ op'[c].step = "value" /\ op'[c].at = i /\ op'[c].key = l
          /\ \A d \in Calls \ {c} : op'[d] = op[d]
        BY <1>2, <2>1, IdleTyped DEF Op
    <2>3. op[c].step = "idle" /\ UNCHANGED <<stores, data>>
        BY <1>4 DEF Assign, Begin
    <2>4. /\ value' = [value EXCEPT ![i][l] = v] /\ last' = [last EXCEPT ![l] = v]
          /\ fresh' = [fresh EXCEPT ![l] = {i}] /\ broken' = broken \ {l}
          /\ stale' = IF Quiet(l) THEN stale \ {l} ELSE stale \cup {l}
        BY <1>4 DEF Assign
    <2>5. CASE l = k
        <3>1. Quiet(k)
            BY <1>1, <2>4, <2>5 DEF Intact
        <3>2. ~InTable(k)' /\ ~Quiet(k)' /\ Ahead(i, k)'
            BY <2>2, <2>5 DEF InTable, Quiet, Ahead, Unsaved, Busy
        <3>3. \A d \in Calls : Busy(d, k)' => d = c
            BY <2>2, <3>1 DEF Quiet, Busy
        <3>4. fresh'[k] = {i} /\ value'[i][k] = v /\ last'[k] = v
            BY <1>2, <2>4, <2>5
        <3>5. QED
            BY <2>2, <3>2, <3>3, <3>4
                DEF KeptOf, TableKept, CopiesKept, ValuesKept, CallsKept, RedisKept
    <2>6. CASE l # k
        <3>1. Intact(k)
            BY <1>1, <2>4, <2>6 DEF Intact
        <3>2. Still(k)
            BY <2>2, <2>3, <2>6 DEF Still, Busy
        <3>3. /\ last'[k] = last[k] /\ fresh'[k] = fresh[k]
              /\ \A j \in Instances : value'[j][k] = value[j][k]
            BY <1>2, <2>4, <2>6
        <3>4. KeptOf(k)
            BY <1>1, <3>1 DEF Kept
        <3>5. QED
            BY <1>1, <2>3, <3>2, <3>3, <3>4, KeptAlone
                DEF stores, get_config, KeptOf, CallsKept
    <2>7. QED
        BY <2>5, <2>6
<1>5. ASSUME NEW c \in Calls, NEW i \in Instances, NEW doc \in Imports, Import(c, i, doc)
      PROVE KeptOf(k)'
    <2>1. PICK row \in First :
              op' = [op EXCEPT ![c] = [Idle EXCEPT !.step = "import", !.at = i,
                                                   !.doc = doc, !.row = row]]
        BY <1>5 DEF Import
    <2>2. Intact(k) /\ UNCHANGED <<stores, data, value, ghosts>>
        BY <1>1, <1>5 DEF Import, Intact, ghosts
    <2>3. Still(k)
        BY <1>2, <1>5, <2>1, IdleTyped DEF Import, Begin, Still, Busy, Op
    <2>4. KeptOf(k)
        BY <1>1, <2>2 DEF Kept
    <2>5. QED
        BY <1>1, <2>2, <2>3, <2>4, KeptAlone
            DEF stores, ghosts, get_config, KeptOf, CallsKept
<1>6. ASSUME NEW c \in Calls, Save(c) PROVE KeptOf(k)'
    <2>1. op[c].at \in Instances /\ op[c].key \in Keys /\ op[c].step = "value"
        BY <1>1, <1>6 DEF TypeInv, CallsKnown, Save
    <2>2. PICK row \in First : op' = [op EXCEPT ![c].step = "save", ![c].row = row]
        BY <1>6 DEF Save
    <2>3. /\ op'[c].step = "save" /\ op'[c].at = op[c].at /\ op'[c].key = op[c].key
          /\ \A d \in Calls \ {c} : op'[d] = op[d]
        BY <1>2, <2>2 DEF Op
    <2>4. Intact(k) /\ UNCHANGED <<stores, value, ghosts>>
        BY <1>1, <1>6 DEF Save, Intact, ghosts
    <2>5. KeptOf(k)
        BY <1>1, <2>4 DEF Kept
    <2>6. /\ InTable(k)' => InTable(k)
          /\ Quiet(k)' => Quiet(k)
          /\ \A d \in Calls : Busy(d, k)' => Busy(d, k) /\ op'[d].at = op[d].at
        BY <2>1, <2>3 DEF InTable, Unsaved, Quiet, Busy
    <2>7. TableKept(k)' /\ ValuesKept(k)' /\ CallsKept(k)' /\ RedisKept(k)'
        BY <2>4, <2>5, <2>6
            DEF stores, ghosts, KeptOf, get_config, TableKept, ValuesKept, CallsKept, RedisKept
    <2>8. ASSUME NEW j \in fresh[k], ~Ahead(j, k)' PROVE Loaded(data[j])'[k] = last[k]
        <3>1. data' = [data EXCEPT ![op[c].at][op[c].key] = value[op[c].at][op[c].key]]
            BY <1>6 DEF Save
        <3>2. j \in Instances
            BY <1>2
        <3>3. CASE j = op[c].at /\ k = op[c].key
            <4>1. value[j][k] = last[k] /\ last[k] \in Values
                BY <1>2, <2>1, <2>5, <3>3 DEF KeptOf, CallsKept, Busy
            <4>2. data'[j][k] = last[k]
                BY <1>2, <3>1, <3>2, <3>3, <4>1 DEF Doc
            <4>3. QED
                BY <4>1, <4>2, ConfigAssumption DEF Loaded
        <3>4. CASE ~(j = op[c].at /\ k = op[c].key)
            <4>1. ~Ahead(j, k)
                BY <2>3, <2>8, <3>4 DEF Ahead
            <4>2. data'[j][k] = data[j][k]
                BY <1>2, <3>1, <3>2, <3>4 DEF Doc
            <4>3. QED
                BY <2>5, <4>1, <4>2 DEF KeptOf, CopiesKept, Loaded
        <3>5. QED
            BY <3>3, <3>4
    <2>9. CopiesKept(k)'
        BY <2>4, <2>8 DEF CopiesKept, ghosts
    <2>10. QED
        BY <2>7, <2>9 DEF KeptOf
<1>7. ASSUME NEW c \in Calls, Commit(c) PROVE KeptOf(k)'
    <2>1. /\ op[c] \in Op /\ op[c].at \in Instances /\ op[c].key \in Keys
          /\ op[c].step = "save" /\ data[op[c].at] \in Doc /\ op[c].row \in Nat
        BY <1>1, <1>2, <1>7 DEF TypeInv, CallsKnown, Commit, Op
    <2>2. /\ op' = [op EXCEPT ![c] = IF useRedis THEN [@ EXCEPT !.step = "redis"] ELSE Idle]
        BY <1>7 DEF Commit, End
    <2>3. /\ op'[c].step = IF useRedis THEN "redis" ELSE "idle"
          /\ useRedis => op'[c].at = op[c].at /\ op'[c].key = op[c].key
          /\ \A d \in Calls \ {c} : op'[d] = op[d]
        BY <1>2, <2>1, <2>2, IdleTyped DEF Op
    <2>4. /\ UNCHANGED <<useRedis, redis, data, value, last, fresh, broken>>
          /\ SaveTo(op[c].row, data[op[c].at]) /\ stale' = stale \cup Undone(c)
        BY <1>7 DEF Commit
    <2>5. Intact(k) /\ k \notin Undone(c)
        BY <1>1, <2>4 DEF Intact
    <2>6. KeptOf(k)
        BY <1>1, <2>5 DEF Kept
    <2>7. /\ useRedis /\ Quiet(k)' => Quiet(k)
          /\ InTable(k)' /\ op[c].key # k => InTable(k)
          /\ \A i \in Instances : Ahead(i, k)' <=> Ahead(i, k)
          /\ \A d \in Calls : Busy(d, k)' => Busy(d, k) /\ op'[d].at = op[d].at
        BY <2>1, <2>3 DEF InTable, Unsaved, Quiet, Busy, Ahead
    <2>8. CopiesKept(k)' /\ ValuesKept(k)' /\ CallsKept(k)' /\ RedisKept(k)'
        BY <1>2, <2>4, <2>6, <2>7 DEF KeptOf, CopiesKept, ValuesKept, CallsKept, RedisKept
    <2>9. ASSUME InTable(k)' PROVE Loaded(get_config)'[k] = last[k]
        <3>1. /\ rows' # <<>>
              /\ IF op[c].row \in {0, Len(rows)} THEN rows'[Len(rows')] = data[op[c].at]
                 ELSE rows # <<>> /\ rows'[Len(rows')] = rows[Len(rows)]
            BY <1>2, <2>1, <2>4, SaveEffect
        <3>2. get_config' = rows'[Len(rows')]
            BY <3>1 DEF get_config
        <3>3. CASE op[c].row \in {0, Len(rows)}
            <4>1. op[c].at \in fresh[k]
                BY <2>5, <2>9, <3>3 DEF Undone
            <4>2. ~Ahead(op[c].at, k)
                BY <2>1, <2>7, <2>9 DEF Ahead, InTable, Unsaved
            <4>3. Loaded(data[op[c].at])[k] = last[k]
                BY <2>6, <4>1, <4>2 DEF KeptOf, CopiesKept
            <4>4. get_config' = data[op[c].at]
                BY <3>1, <3>2, <3>3
            <4>5. QED
                BY <4>3, <4>4 DEF Loaded
        <3>4. CASE op[c].row \notin {0, Len(rows)}
            <4>1. op[c].key # k
                BY <2>5, <3>4 DEF Undone
            <4>2. InTable(k)
                BY <2>7, <2>9, <4>1
            <4>3. get_config' = get_config
                BY <3>1, <3>2, <3>4 DEF get_config
            <4>4. QED
                BY <2>6, <4>2, <4>3 DEF KeptOf, TableKept, Loaded
        <3>5. QED
            BY <3>3, <3>4
    <2>10. TableKept(k)'
        BY <2>4, <2>9 DEF TableKept
    <2>11. QED
        BY <2>8, <2>10 DEF KeptOf
<1>8. ASSUME NEW c \in Calls, CommitFails(c) \/ SetRedisFails(c) PROVE KeptOf(k)'
    <2>1. /\ op' = [op EXCEPT ![c] = Idle] /\ broken' = broken \cup {op[c].key}
          /\ UNCHANGED <<stores, data, value, last, fresh, stale>>
        BY <1>8 DEF CommitFails, SetRedisFails, End
    <2>2. Intact(k) /\ op[c].key # k
        BY <1>1, <2>1 DEF Intact
    <2>3. Still(k)
        BY <1>2, <2>1, <2>2, IdleTyped DEF Still, Busy
    <2>4. KeptOf(k)
        BY <1>1, <2>2 DEF Kept
    <2>5. QED
        BY <1>1, <2>1, <2>3, <2>4, KeptAlone DEF stores, get_config, KeptOf, CallsKept
<1>9. ASSUME NEW c \in Calls, SetRedis(c) PROVE KeptOf(k)'
    <2>1. /\ op[c].at \in Instances /\ op[c].key \in Keys /\ op[c].step = "redis"
          /\ op' = [op EXCEPT ![c] = Idle]
          /\ redis' = [redis EXCEPT ![op[c].key] = value[op[c].at][op[c].key]]
          /\ UNCHANGED <<useRedis, rows, data, value, ghosts>>
        BY <1>1, <1>9 DEF TypeInv, CallsKnown, SetRedis, End
    <2>2. Intact(k)
        BY <1>1, <2>1 DEF Intact, ghosts
    <2>3. KeptOf(k)
        BY <1>1, <2>2 DEF Kept
    <2>4. CASE op[c].key = k
        <3>1. redis'[k] = last[k]
            BY <1>2, <2>1, <2>3, <2>4 DEF KeptOf, CallsKept, Busy, Doc
        <3>2. /\ InTable(k)' => InTable(k)
              /\ \A i \in Instances : Ahead(i, k)' <=> Ahead(i, k)
              /\ \A d \in Calls : Busy(d, k)' => Busy(d, k) /\ op'[d] = op[d]
            BY <1>2, <2>1, IdleTyped DEF InTable, Unsaved, Ahead, Busy
        <3>3. TableKept(k)'
            BY <2>1, <2>3, <3>2 DEF KeptOf, TableKept, get_config, ghosts
        <3>4. CopiesKept(k)' /\ ValuesKept(k)' /\ CallsKept(k)' /\ RedisKept(k)'
            BY <1>2, <2>1, <2>3, <3>1, <3>2
                DEF KeptOf, CopiesKept, ValuesKept, CallsKept, RedisKept, ghosts
        <3>5. QED
            BY <3>3, <3>4 DEF KeptOf
    <2>5. CASE op[c].key # k
        <3>1. Still(k)
            BY <1>2, <2>1, <2>5, IdleTyped DEF Still, Busy
        <3>2. redis'[k] = redis[k]
            BY <1>2, <2>1, <2>5 DEF Doc
        <3>3. QED
            BY <1>1, <2>1, <2>3, <3>1, <3>2, KeptAlone DEF ghosts, get_config, KeptOf, CallsKept
    <2>6. QED
        BY <2>4, <2>5
<1>10. ASSUME NEW c \in Calls, ReadSet(c) PROVE KeptOf(k)'
    <2>1. /\ op[c].step = "read" /\ op' = [op EXCEPT ![c] = Idle]
          /\ value' = [value EXCEPT ![op[c].at][op[c].key] = op[c].val]
          /\ UNCHANGED <<stores, data, last, fresh, broken>>
        BY <1>10 DEF ReadSet, End
    <2>2. /\ op[c].at \in Instances /\ op[c].key \in Keys /\ useRedis
        BY <1>1, <2>1 DEF TypeInv, CallsKnown
    <2>3. Intact(k)
        BY <1>1, <1>10 DEF ReadSet, Intact
    <2>4. KeptOf(k)
        BY <1>1, <2>3 DEF Kept
    <2>5. Still(k)
        BY <1>2, <2>1, IdleTyped DEF Still, Busy
    <2>6. \A d \in Calls : Busy(d, k) => value'[op[d].at][k] = value[op[d].at][k]
        <3>1. SUFFICES ASSUME NEW d \in Calls, Busy(d, k)
                       PROVE  value'[op[d].at][k] = value[op[d].at][k]
            OBVIOUS
        <3>2. op[d].at \in Instances
            BY <1>1, <3>1 DEF TypeInv, CallsKnown, Busy
        <3>3. CASE op[c].key = k /\ op[d].at = op[c].at
            <4>1. value[op[c].at][k] = op[c].val
                BY <1>1, <1>10, <3>1, <3>3 DEF ReadSet, Intact
            <4>2. QED
                BY <1>2, <2>1, <2>2, <3>3, <4>1
        <3>4. CASE ~(op[c].key = k /\ op[d].at = op[c].at)
            BY <1>2, <2>1, <2>2, <3>2, <3>4
        <3>5. QED
            BY <3>3, <3>4
    <2>7. TableKept(k)' /\ CopiesKept(k)' /\ RedisKept(k)'
        BY <1>2, <2>1, <2>4, <2>5, StillSame
            DEF stores, KeptOf, TableKept, CopiesKept, RedisKept, get_config
    <2>8. ValuesKept(k)'
        BY <2>1, <2>2 DEF ValuesKept, stores
    <2>9. CallsKept(k)'
        BY <2>1, <2>4, <2>5, <2>6, StillSame DEF KeptOf, CallsKept
    <2>10. QED
        BY <2>7, <2>8, <2>9 DEF KeptOf
<1>11. ASSUME NEW c \in Calls, ImportCommit(c) \/ Update(c) PROVE KeptOf(k)'
    BY <1>1, <1>11 DEF ImportCommit, Update, Intact
<1>12. ASSUME NEW c \in Calls, ImportFails(c) PROVE KeptOf(k)'
    <2>1. /\ op[c].step = "import" /\ op' = [op EXCEPT ![c] = Idle]
          /\ UNCHANGED <<stores, data, value, ghosts>>
        BY <1>12 DEF ImportFails, End
    <2>2. Intact(k) /\ Still(k)
        BY <1>1, <1>2, <2>1, IdleTyped DEF Intact, ghosts, Still, Busy
    <2>3. KeptOf(k)
        BY <1>1, <2>2 DEF Kept
    <2>4. QED
        BY <1>1, <2>1, <2>2, <2>3, KeptAlone DEF stores, ghosts, get_config, KeptOf, CallsKept
<1>13. ASSUME NEW i \in Instances, Crash(i) PROVE KeptOf(k)'
    <2>1. /\ op' = [c \in Calls |-> IF op[c].at = i THEN Idle ELSE op[c]]
          /\ broken' = broken \cup {l \in Keys : \E c \in Calls : op[c].at = i /\ Busy(c, l)}
          /\ data' = [data EXCEPT ![i] = DEFAULT_CONFIG]
          /\ value' = [value EXCEPT ![i] = Loaded(DEFAULT_CONFIG)]
          /\ fresh' = [l \in Keys |-> fresh[l] \ {i}]
          /\ UNCHANGED <<stores, last, stale>>
        BY <1>13 DEF Crash
    <2>2. Intact(k) /\ \A c \in Calls : Busy(c, k) => op[c].at # i
        BY <1>1, <2>1 DEF Intact
    <2>3. Still(k)
        BY <1>2, <2>1, <2>2, IdleTyped DEF Still, Busy
    <2>4. KeptOf(k)
        BY <1>1, <2>2 DEF Kept
    <2>5. \A c \in Calls : Busy(c, k) => op[c].at \in fresh'[k]
        BY <2>1, <2>2, <2>4 DEF KeptOf, CallsKept
    <2>6. QED
        BY <1>1, <1>2, <2>1, <2>3, <2>4, <2>5, KeptAlone DEF stores, get_config
<1>14. ASSUME NEW i \in Instances, Start(i) PROVE KeptOf(k)'
    <2>1. /\ up[i] = "down" /\ data' = [data EXCEPT ![i] = get_config]
          /\ value' = [value EXCEPT ![i] = Loaded(get_config)]
          /\ UNCHANGED <<stores, op, last, broken, stale>>
        BY <1>14 DEF Start
    <2>2. Intact(k)
        BY <1>1, <2>1 DEF Intact
    <2>3. KeptOf(k)
        BY <1>1, <2>2 DEF Kept
    <2>4. fresh'[k] = IF InTable(k) THEN fresh[k] \cup {i} ELSE fresh[k]
        BY <1>14, <2>2 DEF Start, Intact
    <2>5. i \notin fresh[k]
        BY <1>1, <2>1 DEF TypeInv, CallsKnown
    <2>6. \A j \in fresh[k] : data'[j] = data[j] /\ value'[j] = value[j]
        BY <1>2, <2>1, <2>5
    <2>7. data'[i] = get_config /\ value'[i] = Loaded(get_config)
        BY <1>2, <2>1
    <2>8. InTable(k) => Loaded(data[i])'[k] = last[k] /\ value'[i][k] = last[k]
        BY <2>3, <2>7 DEF KeptOf, TableKept, Loaded
    <2>9. \A j \in Instances : Ahead(j, k)' <=> Ahead(j, k)
        BY <2>1 DEF Ahead
    <2>10. CopiesKept(k)'
        <3>1. SUFFICES ASSUME NEW j \in fresh'[k], ~Ahead(j, k)'
                       PROVE  Loaded(data[j])'[k] = last[k]
            BY <2>1 DEF CopiesKept
        <3>2. CASE j = i
            BY <2>4, <2>5, <2>8, <3>1, <3>2
        <3>3. CASE j # i
            <4>1. j \in fresh[k] /\ j \in Instances
                BY <1>2, <2>4, <3>1, <3>3
            <4>2. Loaded(data[j])[k] = last[k]
                BY <2>3, <2>9, <3>1, <4>1 DEF KeptOf, CopiesKept
            <4>3. QED
                BY <2>6, <4>1, <4>2 DEF Loaded
        <3>4. QED
            BY <3>2, <3>3
    <2>11. ValuesKept(k)'
        BY <2>1, <2>3, <2>4, <2>6, <2>8 DEF KeptOf, ValuesKept, stores
    <2>12. TableKept(k)'
        BY <2>1, <2>3 DEF KeptOf, TableKept, InTable, Unsaved, stores, get_config, Loaded
    <2>13. CallsKept(k)'
        BY <2>1, <2>3, <2>4, <2>6 DEF KeptOf, CallsKept, Busy
    <2>14. RedisKept(k)'
        BY <2>1, <2>3 DEF KeptOf, RedisKept, Quiet, Busy, stores
    <2>15. QED
        BY <2>10, <2>11, <2>12, <2>13, <2>14 DEF KeptOf
<1>15. ASSUME NEW i \in Instances, Reset(i) PROVE KeptOf(k)'
    BY <1>1, <1>15 DEF Reset, Intact
<1>16. CASE UNCHANGED vars
    <2>1. Intact(k) /\ Still(k) /\ UNCHANGED <<stores, data, value, last, fresh>>
        BY <1>1, <1>16 DEF vars, ghosts, Intact, Still
    <2>2. KeptOf(k)
        BY <1>1, <2>1 DEF Kept
    <2>3. QED
        BY <1>1, <2>1, <2>2, KeptAlone DEF stores, get_config, KeptOf, CallsKept
<1>17. QED
    BY <1>1, <1>3, <1>4, <1>5, <1>6, <1>7, <1>8, <1>9, <1>10, <1>11, <1>12, <1>13, <1>14,
       <1>15, <1>16
        DEF Next

-----------------------------------------------------------------------------
\* Untouched is inductive.

LEMMA InitUntouched == Init => Untouched
<1>1. SUFFICES ASSUME Init, NEW k \in Keys PROVE Blank(k)
    BY DEF Untouched
<1>2. get_config[k] = None /\ Loaded(get_config)[k] = EnvValue
    BY <1>1 DEF Init, get_config, DEFAULT_CONFIG, Loaded
<1>3. \A i \in Instances : data[i] = get_config /\ value[i] = Loaded(get_config)
    BY <1>1 DEF Init
<1>4. last = Loaded(get_config) /\ DOMAIN rows = {}
    BY <1>1 DEF Init
<1>5. QED
    BY <1>2, <1>3, <1>4 DEF Blank

\* An assignment that leaves its call does so broken, or Redis has its value.
LEMMA StepUntouched == TypeInv /\ Untouched /\ [Next]_vars => Untouched'
<1>1. SUFFICES ASSUME TypeInv, Untouched, [Next]_vars, useRedis', NEW k \in Keys,
                      k \notin broken', Quiet(k)', redis'[k] = None
               PROVE  Blank(k)'
    BY DEF Untouched
<1>2. /\ op \in [Calls -> Op] /\ rows \in Seq(Doc) /\ redis \in Doc
      /\ data \in [Instances -> Doc] /\ value \in [Instances -> [Keys -> Values]]
      /\ last \in [Keys -> Values]
    BY <1>1 DEF TypeInv, TypeOK
<1>3. useRedis
    <2>1. ASSUME NEW c \in Calls, NEW i \in Instances,
                 \/ \E l \in Keys : ReadGet(c, i, l) \/ \E v \in Values : Assign(c, i, l, v)
                 \/ \E doc \in Imports : Import(c, i, doc)
          PROVE  UNCHANGED useRedis
        BY <2>1 DEF ReadGet, Assign, Import, stores
    <2>2. ASSUME NEW c \in Calls,
                 \/ Save(c) \/ Commit(c) \/ CommitFails(c) \/ SetRedis(c) \/ SetRedisFails(c)
                 \/ ReadSet(c) \/ ImportCommit(c) \/ ImportFails(c) \/ Update(c)
          PROVE  UNCHANGED useRedis
        BY <2>2 DEF Save, Commit, CommitFails, SetRedis, SetRedisFails, ReadSet, ImportCommit,
                    ImportFails, Update, stores
    <2>3. ASSUME NEW i \in Instances, Crash(i) \/ Start(i) \/ Reset(i)
          PROVE  UNCHANGED useRedis
        BY <2>3 DEF Crash, Start, Reset, stores
    <2>4. UNCHANGED vars => UNCHANGED useRedis
        BY DEF vars, stores
    <2>5. QED
        BY <1>1, <2>1, <2>2, <2>3, <2>4 DEF Next
<1>4. k \notin broken /\ Quiet(k) /\ redis[k] = None => Blank(k)
    BY <1>1, <1>3 DEF Untouched
<1>5. \A c \in Calls : ~Busy(c, k)'
    BY <1>1 DEF Quiet
<1>6. ASSUME k \notin broken, redis[k] = None, \A c \in Calls : ~Busy(c, k),
             UNCHANGED <<rows, data, value, last>>
      PROVE Blank(k)'
    BY <1>4, <1>6 DEF Blank, Quiet
<1>7. ASSUME NEW c \in Calls, NEW i \in Instances, NEW l \in Keys, ReadGet(c, i, l)
      PROVE Blank(k)'
    <2>1. \A d \in Calls : op[d] = op'[d] \/ op[d].step = "idle"
        BY <1>2, <1>7 DEF ReadGet, Begin
    <2>2. \A d \in Calls : ~Busy(d, k)
        BY <1>5, <2>1 DEF Busy
    <2>3. QED
        BY <1>1, <1>6, <1>7, <2>2 DEF ReadGet, stores, ghosts
<1>8. ASSUME NEW c \in Calls, NEW i \in Instances, NEW l \in Keys, NEW v \in Values,
             Assign(c, i, l, v)
      PROVE Blank(k)'
    <2>1. op' = [op EXCEPT ![c] = [Idle EXCEPT !.step = "value", !.at = i, !.key = l]]
        BY <1>8 DEF Assign
    <2>2. /\ op'[c].step = "value" /\ op'[c].key = l
          /\ \A d \in Calls \ {c} : op'[d] = op[d]
        BY <1>2, <2>1, IdleTyped DEF Op
    <2>3. l # k
        BY <1>5, <2>2 DEF Busy
    <2>4. \A d \in Calls : ~Busy(d, k)
        BY <1>5, <1>8, <2>2 DEF Busy, Assign, Begin
    <2>5. Blank(k) /\ rows' = rows /\ data' = data
        BY <1>1, <1>4, <1>8, <2>3, <2>4 DEF Assign, stores, Quiet
    <2>6. value' = [value EXCEPT ![i][l] = v] /\ last' = [last EXCEPT ![l] = v]
        BY <1>8 DEF Assign
    <2>7. last'[k] = last[k] /\ \A j \in Instances : value'[j][k] = value[j][k]
        BY <1>2, <2>3, <2>6
    <2>8. QED
        BY <2>5, <2>7 DEF Blank
<1>9. ASSUME NEW c \in Calls, NEW i \in Instances, NEW doc \in Imports, Import(c, i, doc)
      PROVE Blank(k)'
    <2>1. \A d \in Calls : op[d] = op'[d] \/ op[d].step = "idle"
        BY <1>2, <1>9 DEF Import, Begin
    <2>2. \A d \in Calls : ~Busy(d, k)
        BY <1>5, <2>1 DEF Busy
    <2>3. QED
        BY <1>1, <1>6, <1>9, <2>2 DEF Import, stores, ghosts
<1>10. ASSUME NEW c \in Calls, Save(c) PROVE Blank(k)'
    <2>1. op[c].at \in Instances /\ op[c].key \in Keys /\ op[c].step = "value"
        BY <1>1, <1>10 DEF TypeInv, CallsKnown, Save
    <2>2. PICK row \in First : op' = [op EXCEPT ![c].step = "save", ![c].row = row]
        BY <1>10 DEF Save
    <2>3. /\ op'[c].step = "save" /\ op'[c].key = op[c].key
          /\ \A d \in Calls \ {c} : op'[d] = op[d]
        BY <1>2, <2>2 DEF Op
    <2>4. op[c].key # k /\ \A d \in Calls : ~Busy(d, k)
        BY <1>5, <2>3 DEF Busy
    <2>5. Blank(k) /\ UNCHANGED <<rows, value, last>>
        BY <1>1, <1>4, <1>10, <2>4 DEF Save, stores, ghosts, Quiet
    <2>6. \A j \in Instances : data'[j][k] = data[j][k]
        BY <1>2, <1>10, <2>1, <2>4 DEF Save, Doc
    <2>7. QED
        BY <2>5, <2>6 DEF Blank
<1>11. ASSUME NEW c \in Calls, Commit(c) PROVE Blank(k)'
    <2>1. /\ op[c] \in Op /\ op[c].step = "save"
          /\ op[c].at \in Instances /\ data[op[c].at] \in Doc /\ op[c].row \in Nat
        BY <1>1, <1>2, <1>11 DEF TypeInv, CallsKnown, Commit, Op
    <2>2. op' = [op EXCEPT ![c].step = "redis"]
        BY <1>3, <1>11 DEF Commit
    <2>3. /\ op'[c].step = "redis" /\ op'[c].key = op[c].key
          /\ \A d \in Calls \ {c} : op'[d] = op[d]
        BY <1>2, <2>1, <2>2 DEF Op
    <2>4. \A d \in Calls : ~Busy(d, k)
        BY <1>5, <2>3 DEF Busy
    <2>5. Blank(k) /\ UNCHANGED <<data, value, last>>
        BY <1>1, <1>4, <1>11, <2>4 DEF Commit, Quiet
    <2>6. \A r \in DOMAIN rows' :
              rows'[r] = data[op[c].at] \/ (r \in DOMAIN rows /\ rows'[r] = rows[r])
        BY <1>2, <1>11, <2>1, SaveEffect DEF Commit
    <2>7. \A r \in DOMAIN rows' : rows'[r][k] = None
        BY <2>1, <2>5, <2>6 DEF Blank
    <2>8. QED
        BY <2>5, <2>7 DEF Blank
<1>12. ASSUME NEW c \in Calls, CommitFails(c) \/ SetRedisFails(c) PROVE Blank(k)'
    <2>1. /\ op' = [op EXCEPT ![c] = Idle] /\ broken' = broken \cup {op[c].key}
          /\ UNCHANGED <<stores, data, value, last>>
        BY <1>12 DEF CommitFails, SetRedisFails, End
    <2>2. k \notin broken /\ \A d \in Calls : ~Busy(d, k)
        BY <1>1, <1>2, <1>5, <2>1 DEF Busy
    <2>3. QED
        BY <1>1, <1>6, <2>1, <2>2 DEF stores
<1>13. ASSUME NEW c \in Calls, SetRedis(c) PROVE Blank(k)'
    <2>1. /\ op[c].at \in Instances /\ op[c].key \in Keys
          /\ op' = [op EXCEPT ![c] = Idle]
          /\ redis' = [redis EXCEPT ![op[c].key] = value[op[c].at][op[c].key]]
          /\ UNCHANGED <<rows, data, value, last, broken>>
        BY <1>1, <1>13 DEF TypeInv, CallsKnown, SetRedis, End, ghosts
    <2>2. op[c].key # k
        BY <1>1, <1>2, <2>1, ConfigAssumption DEF Doc
    <2>3. redis[k] = None /\ \A d \in Calls : ~Busy(d, k)
        BY <1>1, <1>2, <1>5, <2>1, <2>2 DEF Busy, Doc
    <2>4. QED
        BY <1>1, <1>6, <2>1, <2>3
<1>14. ASSUME NEW c \in Calls, ReadSet(c) PROVE Blank(k)'
    <2>1. /\ op[c].step = "read" /\ op' = [op EXCEPT ![c] = Idle]
          /\ value' = [value EXCEPT ![op[c].at][op[c].key] = op[c].val]
          /\ UNCHANGED <<stores, data, last, broken>>
        BY <1>14 DEF ReadSet, End
    <2>2. op[c].at \in Instances /\ op[c].key \in Keys /\ redis[op[c].key] # None
        BY <1>1, <2>1 DEF TypeInv, CallsKnown
    <2>3. op[c].key # k
        BY <1>1, <2>1, <2>2 DEF stores
    <2>4. \A d \in Calls : ~Busy(d, k)
        BY <1>2, <1>5, <2>1 DEF Busy
    <2>5. Blank(k)
        BY <1>1, <1>4, <2>1, <2>4 DEF stores, Quiet
    <2>6. \A j \in Instances : value'[j][k] = value[j][k]
        BY <1>2, <2>1, <2>2, <2>3
    <2>7. QED
        BY <2>1, <2>5, <2>6 DEF Blank, stores
<1>15. ASSUME NEW c \in Calls, ImportCommit(c) \/ Update(c) PROVE Blank(k)'
    BY <1>1, <1>15 DEF ImportCommit, Update
<1>16. ASSUME NEW c \in Calls, ImportFails(c) PROVE Blank(k)'
    <2>1. /\ op[c].step = "import" /\ op' = [op EXCEPT ![c] = Idle]
          /\ UNCHANGED <<stores, data, value, ghosts>>
        BY <1>16 DEF ImportFails, End
    <2>2. \A d \in Calls : ~Busy(d, k)
        BY <1>2, <1>5, <2>1 DEF Busy
    <2>3. QED
        BY <1>1, <1>6, <2>1, <2>2 DEF stores, ghosts
<1>17. ASSUME NEW i \in Instances, Crash(i) PROVE Blank(k)'
    <2>1. /\ op' = [c \in Calls |-> IF op[c].at = i THEN Idle ELSE op[c]]
          /\ broken' = broken \cup {l \in Keys : \E c \in Calls : op[c].at = i /\ Busy(c, l)}
          /\ data' = [data EXCEPT ![i] = DEFAULT_CONFIG]
          /\ value' = [value EXCEPT ![i] = Loaded(DEFAULT_CONFIG)]
          /\ UNCHANGED <<stores, last>>
        BY <1>17 DEF Crash
    <2>2. k \notin broken /\ \A d \in Calls : ~Busy(d, k)
        BY <1>1, <1>5, <2>1 DEF Busy
    <2>3. Blank(k)
        BY <1>1, <1>4, <2>1, <2>2 DEF stores, Quiet
    <2>4. DEFAULT_CONFIG[k] = None /\ Loaded(DEFAULT_CONFIG)[k] = EnvValue
        BY DEF DEFAULT_CONFIG, Loaded
    <2>5. \A j \in Instances : data'[j][k] = None /\ value'[j][k] = EnvValue
        BY <1>2, <2>1, <2>3, <2>4 DEF Blank
    <2>6. QED
        BY <2>1, <2>3, <2>5 DEF Blank, stores
<1>18. ASSUME NEW i \in Instances, Start(i) PROVE Blank(k)'
    <2>1. /\ data' = [data EXCEPT ![i] = get_config]
          /\ value' = [value EXCEPT ![i] = Loaded(get_config)]
          /\ UNCHANGED <<stores, op, last, broken>>
        BY <1>18 DEF Start
    <2>2. Blank(k)
        BY <1>1, <1>4, <1>5, <2>1 DEF stores, Quiet, Busy
    <2>3. get_config[k] = None
        <3>1. CASE rows = <<>>
            BY <3>1 DEF get_config, DEFAULT_CONFIG
        <3>2. CASE rows # <<>>
            BY <1>2, <2>2, <3>2, LenProperties, EmptySeq DEF get_config, Blank
        <3>3. QED
            BY <3>1, <3>2
    <2>4. Loaded(get_config)[k] = EnvValue
        BY <2>3 DEF Loaded
    <2>5. \A j \in Instances : data'[j][k] = None /\ value'[j][k] = EnvValue
        BY <1>2, <2>1, <2>2, <2>3, <2>4 DEF Blank
    <2>6. QED
        BY <2>1, <2>2, <2>5 DEF Blank, stores
<1>19. ASSUME NEW i \in Instances, Reset(i) PROVE Blank(k)'
    <2>1. rows' = <<>> /\ UNCHANGED <<redis, data, value, op, last, broken>>
        BY <1>19 DEF Reset
    <2>2. Blank(k)
        BY <1>1, <1>4, <1>5, <2>1 DEF Quiet, Busy
    <2>3. DOMAIN rows' = {}
        BY <2>1
    <2>4. QED
        BY <2>1, <2>2, <2>3 DEF Blank
<1>20. CASE UNCHANGED vars
    <2>1. \A c \in Calls : ~Busy(c, k)
        BY <1>5, <1>20 DEF vars, Busy
    <2>2. QED
        BY <1>1, <1>6, <1>20, <2>1 DEF vars, stores, ghosts
<1>21. QED
    BY <1>1, <1>7, <1>8, <1>9, <1>10, <1>11, <1>12, <1>13, <1>14, <1>15, <1>16, <1>17, <1>18,
       <1>19, <1>20
        DEF Next

-----------------------------------------------------------------------------
\* The two properties.

LEMMA UntouchedSuffices == TypeInv /\ Untouched => ReadsAgree
<1>1. SUFFICES ASSUME Untouched, useRedis, NEW k \in Keys \ broken, Quiet(k),
                      NEW i \in Instances, NEW j \in Instances
               PROVE  Seen(i, k) = Seen(j, k)
    BY DEF ReadsAgree
<1>2. CASE redis[k] = None
    BY <1>1, <1>2 DEF Untouched, Blank, Seen
<1>3. CASE redis[k] # None
    BY <1>1, <1>3 DEF Seen
<1>4. QED
    BY <1>2, <1>3

LEMMA KeptSuffices == Untouched /\ Kept => RestartKeeps
<1>1. SUFFICES ASSUME Untouched, Kept, NEW k \in Keys \ (broken \cup stale), Quiet(k)
               PROVE  /\ Loaded(get_config)[k] = last[k]
                      /\ \A i \in Instances : useRedis \/ i \in fresh[k] => Seen(i, k) = last[k]
    BY DEF RestartKeeps
<1>2. KeptOf(k) /\ InTable(k)
    BY <1>1 DEF Kept, Intact, Quiet, InTable, Busy, Unsaved
<1>3. Loaded(get_config)[k] = last[k]
    BY <1>2 DEF KeptOf, TableKept
<1>4. ASSUME NEW i \in Instances, useRedis \/ i \in fresh[k] PROVE Seen(i, k) = last[k]
    <2>1. CASE useRedis /\ redis[k] # None
        BY <1>1, <1>2, <2>1 DEF KeptOf, RedisKept, Seen
    <2>2. CASE useRedis /\ redis[k] = None
        BY <1>1, <2>2 DEF Untouched, Blank, Seen
    <2>3. CASE ~useRedis
        BY <1>2, <1>4, <2>3 DEF KeptOf, ValuesKept, Seen
    <2>4. QED
        BY <2>1, <2>2, <2>3
<1>5. QED
    BY <1>3, <1>4

\* With Redis all running instances read the same value of an option of which no
\* assignment is on its way or broke off, and which was not imported.
THEOREM InstancesAgree == Spec => []ReadsAgree
<1>1. Init => TypeInv /\ Untouched
    BY InitTyped, InitUntouched
<1>2. TypeInv /\ Untouched /\ [Next]_vars => (TypeInv /\ Untouched)'
    BY StepTyped, StepUntouched
<1>3. QED
    BY <1>1, <1>2, UntouchedSuffices, PTL DEF Spec

\* An assignment that was answered is what a restart loads and what the instances read,
\* unless it was broken or made stale by one of the causes that AppConfig names.
THEOREM RestartsKeep == Spec => []RestartKeeps
<1>1. Init => TypeInv /\ Untouched /\ Kept
    BY InitTyped, InitUntouched, InitKept
<1>2. TypeInv /\ Untouched /\ Kept /\ [Next]_vars => (TypeInv /\ Untouched /\ Kept)'
    BY StepTyped, StepUntouched, StepKept
<1>3. QED
    BY <1>1, <1>2, KeptSuffices, PTL DEF Spec
=============================================================================
