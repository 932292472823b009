------------------------------- MODULE AppConfig -------------------------------
(***************************************************************************)
(* The configuration that several instances share: config.py, with its     *)
(* table in the database and, with Redis, a key for each option.           *)
(*                                                                         *)
(* An instance reads the table once, when it starts, into CONFIG_DATA.  An *)
(* assignment of one option changes its value, then CONFIG_DATA, saves all *)
(* of CONFIG_DATA and sets the key.  A read takes the key of Redis into    *)
(* the value, and leaves CONFIG_DATA as it is.                             *)
(*                                                                         *)
(* A call is of any instance, and any two calls overlap: those of the      *)
(* event loop of one instance do not, but those of its synchronous         *)
(* endpoints, which run in threads, do.  A step is one command of a store  *)
(* or one change of memory.  A document of the table is a function from    *)
(* options to values; None is an option that the document lacks.           *)
(***************************************************************************)
EXTENDS Naturals, Sequences

CONSTANTS Instances, Keys, Values,
          Calls,        \* bound: what is called at the same time
          EnvValue,     \* env_value, what an option is if the table lacks it
          Imports,      \* bound: documents that are imported
          MaxSaves,     \* bound: assignments and imports
          MaxCrashes,   \* bound
          None

Doc == [Keys -> Values \cup {None}]

ASSUME ConfigAssumption == /\ EnvValue \in Values /\ None \notin Values
                           /\ Imports \subseteq Doc
                           /\ MaxSaves \in Nat /\ MaxCrashes \in Nat

VARIABLES
    useRedis,  \* BOOLEAN, REDIS_URL is set
    rows,      \* the table's documents, by id
    redis,     \* [Keys -> Values or None], the keys of Redis
    data,      \* [Instances -> Doc], CONFIG_DATA
    value,     \* [Instances -> [Keys -> Values]], the options' values
    up,        \* [Instances -> {"up", "reset", "down"}]
    op,        \* [Calls -> Op], the call and where it is
    saves,     \* how many there were
    crashes,   \* how many there were
    last,      \* [Keys -> Values], what was last assigned
    fresh,     \* [Keys -> SUBSET Instances], whose CONFIG_DATA has it: the instance that
               \* assigned it, and those that loaded the table since it was saved
    broken,    \* options that were imported, or an assignment of which broke off, since the
               \* last assignment of them began
    stale      \* options whose last assignment may have been undone, since it began: by
               \* another one of them at the same time, a read that overlapped it, the save
               \* of an instance that is not fresh, a save of a row that no start loads, or
               \* a reset of the table

stores == <<useRedis, rows, redis>>
bounds == <<saves, crashes>>
ghosts == <<last, fresh, broken, stale>>
vars == <<stores, data, value, up, op, bounds, ghosts>>

Steps == {"idle", "value", "save", "redis", "read", "import", "update"}

\* at is the instance, key what is assigned or read, val what a read has taken from
\* Redis, doc what is imported, row what first() has found or 0.
Op    == [step : Steps, at : Instances \cup {None}, key : Keys \cup {None},
          val : Values \cup {None}, doc : Doc, row : Nat]

DEFAULT_CONFIG == [k \in Keys |-> None]
Idle == [step |-> "idle", at |-> None, key |-> None, val |-> None,
         doc |-> DEFAULT_CONFIG, row |-> 0]

\* get_config: the row with the highest id
get_config == IF rows = <<>> THEN DEFAULT_CONFIG ELSE rows[Len(rows)]

\* PersistentConfig.__init__
Loaded(doc) == [k \in Keys |-> IF doc[k] = None THEN EnvValue ELSE doc[k]]

Init == /\ useRedis \in BOOLEAN
        /\ rows = <<>> /\ redis = DEFAULT_CONFIG
        /\ data = [i \in Instances |-> get_config]
        /\ value = [i \in Instances |-> Loaded(get_config)]
        /\ up = [i \in Instances |-> "up"] /\ op = [c \in Calls |-> Idle]
        /\ saves = 0 /\ crashes = 0
        /\ last = Loaded(get_config) /\ fresh = [k \in Keys |-> Instances]
        /\ broken = {} /\ stale = {}

\* The call is an assignment of the option, and has not saved it yet.
Unsaved(c, k) == op[c].step \in {"value", "save"} /\ op[c].key = k
Busy(c, k) == op[c].step \in {"value", "save", "redis"} /\ op[c].key = k
InTable(k) == \A c \in Calls : ~Unsaved(c, k)
Quiet(k)   == \A c \in Calls : ~Busy(c, k)

\* A free call begins in a running instance.
Begin(c, i) == op[c].step = "idle" /\ up[i] = "up"

\* The call ends.
End(c) == op' = [op EXCEPT ![c] = Idle]

-----------------------------------------------------------------------------
\* save_to_db

\* query(Config).first() has no order: it finds any row, if there is one.
First == IF rows = <<>> THEN {0} ELSE DOMAIN rows

\* Deviation: the change of a document that is there goes unnoticed.
SaveTo_Unnoticed(row, doc) == IF row = 0 THEN rows' = Append(rows, doc) ELSE UNCHANGED rows

\* The row that was found is updated, or one is added.
SaveTo(row, doc) ==
    IF row = 0 THEN rows' = Append(rows, doc)
    ELSE row \in DOMAIN rows /\ rows' = [rows EXCEPT ![row] = doc]

-----------------------------------------------------------------------------
\* AppConfig.__setattr__

Assign(c, i, k, v) ==
    /\ Begin(c, i) /\ saves < MaxSaves /\ saves' = saves + 1
    /\ value' = [value EXCEPT ![i][k] = v]
    /\ op' = [op EXCEPT ![c] = [Idle EXCEPT !.step = "value", !.at = i, !.key = k]]
    /\ last' = [last EXCEPT ![k] = v] /\ fresh' = [fresh EXCEPT ![k] = {i}]
    /\ broken' = broken \ {k} /\ stale' = IF Quiet(k) THEN stale \ {k} ELSE stale \cup {k}
    /\ UNCHANGED <<stores, data, up, crashes>>

\* CONFIG_DATA takes the value that the option has by now; save_to_db looks for its row.
Save(c) ==
    LET i == op[c].at   k == op[c].key IN
    /\ op[c].step = "value"
    /\ data' = [data EXCEPT ![i][k] = value[i][k]]
    /\ \E row \in First : op' = [op EXCEPT ![c].step = "save", ![c].row = row]
    /\ UNCHANGED <<stores, value, up, bounds, ghosts>>

\* What this save undoes: if starts load its row, the options of which the instance's
\* copy is not fresh, but for those about to be saved; else its own.
Undone(c) == IF op[c].row \in {0, Len(rows)}
             THEN {k \in Keys : op[c].at \notin fresh[k] /\ InTable(k)'} ELSE {op[c].key}

\* All of CONFIG_DATA is written, and with it what is stale in it.
Commit(c) ==
    /\ op[c].step = "save"
    /\ SaveTo(op[c].row, data[op[c].at])
    /\ IF useRedis THEN op' = [op EXCEPT ![c].step = "redis"] ELSE End(c)
    /\ stale' = stale \cup Undone(c)
    /\ UNCHANGED <<useRedis, redis, data, value, up, bounds, last, fresh, broken>>

\* The database fails, or the row has gone: value and CONFIG_DATA stay changed.
CommitFails(c) ==
    /\ op[c].step = "save" /\ End(c)
    /\ broken' = broken \cup {op[c].key}
    /\ UNCHANGED <<stores, data, value, up, bounds, last, fresh, stale>>

\* Deviation: the key is not set.
SetRedis_Not(c) ==
    /\ op[c].step = "redis" /\ End(c)
    /\ UNCHANGED <<stores, data, value, up, bounds, ghosts>>

SetRedis(c) ==
    LET i == op[c].at   k == op[c].key IN
    /\ op[c].step = "redis" /\ End(c)
    /\ redis' = [redis EXCEPT ![k] = value[i][k]]
    /\ UNCHANGED <<useRedis, rows, data, value, up, bounds, ghosts>>

SetRedisFails(c) ==
    /\ op[c].step = "redis" /\ End(c)
    /\ broken' = broken \cup {op[c].key}
    /\ UNCHANGED <<stores, data, value, up, bounds, last, fresh, stale>>

-----------------------------------------------------------------------------
\* AppConfig.__getattr__

\* What a read of the option returns.
Seen(i, k) == IF useRedis /\ redis[k] # None THEN redis[k] ELSE value[i][k]

\* The key of Redis is read, if there is one.
ReadGet(c, i, k) ==
    /\ Begin(c, i)
    /\ op' = IF useRedis /\ redis[k] # None
             THEN [op EXCEPT ![c] = [Idle EXCEPT !.step = "read", !.at = i, !.key = k,
                                                 !.val = redis[k]]]
             ELSE op
    /\ UNCHANGED <<stores, data, value, up, bounds, ghosts>>

\* The value becomes what was read, even if it was assigned since.
ReadSet(c) ==
    LET i == op[c].at   k == op[c].key IN
    /\ op[c].step = "read" /\ End(c)
    /\ value' = [value EXCEPT ![i][k] = op[c].val]
    /\ stale' = IF \E d \in Calls : Busy(d, k) /\ op[d].at = i /\ value[i][k] # op[c].val
                THEN stale \cup {k} ELSE stale
    /\ UNCHANGED <<stores, data, up, bounds, last, fresh, broken>>

-----------------------------------------------------------------------------
\* save_config, /configs/import

Import(c, i, doc) ==
    /\ Begin(c, i) /\ saves < MaxSaves /\ saves' = saves + 1
    /\ \E row \in First : op' = [op EXCEPT ![c] = [Idle EXCEPT !.step = "import", !.at = i,
                                                               !.doc = doc, !.row = row]]
    /\ UNCHANGED <<stores, data, value, up, crashes, ghosts>>

ImportCommit(c) ==
    /\ op[c].step = "import"
    /\ SaveTo(op[c].row, op[c].doc)
    /\ op' = [op EXCEPT ![c].step = "update"]
    /\ broken' = Keys
    /\ UNCHANGED <<useRedis, redis, data, value, up, bounds, last, fresh, stale>>

ImportFails(c) ==
    /\ op[c].step = "import" /\ End(c)
    /\ UNCHANGED <<stores, data, value, up, bounds, ghosts>>

\* Deviation: update() takes what the import lacks, too.
Update_All(c) ==
    LET i == op[c].at IN
    /\ op[c].step = "update" /\ End(c)
    /\ data' = [data EXCEPT ![i] = op[c].doc]
    /\ value' = [value EXCEPT ![i] = op[c].doc]
    /\ broken' = Keys
    /\ UNCHANGED <<stores, up, bounds, last, fresh, stale>>

\* CONFIG_DATA is replaced and update() takes the options that the import has.
\* Redis is not told.  Bound: no other call of the instance is between finding its row
\* and writing the CONFIG_DATA that is replaced.
Update(c) ==
    LET i == op[c].at   doc == op[c].doc IN
    /\ op[c].step = "update" /\ End(c)
    /\ ~\E d \in Calls : op[d].step = "save" /\ op[d].at = i
    /\ data' = [data EXCEPT ![i] = doc]
    /\ value' = [value EXCEPT ![i] =
                    [k \in Keys |-> IF doc[k] = None THEN value[i][k] ELSE doc[k]]]
    /\ broken' = Keys
    /\ UNCHANGED <<stores, up, bounds, last, fresh, stale>>

-----------------------------------------------------------------------------
\* Crashes and starts

\* What the process has in memory goes.
Crash(i) ==
    LET gone == {c \in Calls : op[c].at = i} IN
    /\ up[i] # "down" /\ crashes < MaxCrashes /\ crashes' = crashes + 1
    /\ up' = [up EXCEPT ![i] = "down"]
    /\ op' = [c \in Calls |-> IF c \in gone THEN Idle ELSE op[c]]
    /\ data' = [data EXCEPT ![i] = DEFAULT_CONFIG]
    /\ value' = [value EXCEPT ![i] = Loaded(DEFAULT_CONFIG)]
    /\ fresh' = [k \in Keys |-> fresh[k] \ {i}]
    /\ broken' = broken \cup {k \in Keys : \E c \in gone : Busy(c, k)}
    /\ UNCHANGED <<stores, saves, last, stale>>

\* config.py is imported.  RESET_CONFIG_ON_START is looked at in lifespan, when
\* the options have been loaded.
Start(i) ==
    /\ up[i] = "down"
    /\ \E new \in {"up", "reset"} : up' = [up EXCEPT ![i] = new]
    /\ data' = [data EXCEPT ![i] = get_config]
    /\ value' = [value EXCEPT ![i] = Loaded(get_config)]
    /\ fresh' = [k \in Keys |-> IF k \notin broken \cup stale /\ InTable(k)
                                THEN fresh[k] \cup {i} ELSE fresh[k]]
    /\ UNCHANGED <<stores, op, bounds, last, broken, stale>>

\* reset_config
Reset(i) ==
    /\ up[i] = "reset" /\ up' = [up EXCEPT ![i] = "up"]
    /\ rows' = <<>>
    /\ stale' = Keys
    /\ UNCHANGED <<useRedis, redis, data, value, op, bounds, last, fresh, broken>>

-----------------------------------------------------------------------------
Next == \/ \E c \in Calls, i \in Instances :
              \/ \E k \in Keys : ReadGet(c, i, k) \/ \E v \in Values : Assign(c, i, k, v)
              \/ \E doc \in Imports : Import(c, i, doc)
        \/ \E c \in Calls : \/ Save(c) \/ Commit(c) \/ CommitFails(c)
                           \/ SetRedis(c) \/ SetRedisFails(c) \/ ReadSet(c)
                           \/ ImportCommit(c) \/ ImportFails(c) \/ Update(c)
        \/ \E i \in Instances : Crash(i) \/ Start(i) \/ Reset(i)

Spec == Init /\ [][Next]_vars

-----------------------------------------------------------------------------
\* Properties

\* Every variable has the type its comment gives.
TypeOK == /\ useRedis \in BOOLEAN
          /\ rows \in Seq(Doc) /\ redis \in Doc
          /\ data \in [Instances -> Doc]
          /\ value \in [Instances -> [Keys -> Values]]
          /\ up \in [Instances -> {"up", "reset", "down"}]
          /\ op \in [Calls -> Op]
          /\ saves \in 0..MaxSaves /\ crashes \in 0..MaxCrashes
          /\ last \in [Keys -> Values] /\ fresh \in [Keys -> SUBSET Instances]
          /\ broken \subseteq Keys /\ stale \subseteq Keys

\* With Redis all running instances read the same value of an option, as soon as
\* no assignment of it is on its way, unless the last one broke off or it came with
\* an import, of which Redis is not told.
ReadsAgree ==
    useRedis => \A k \in Keys \ broken :
        Quiet(k) => \A i, j \in Instances :
                        up[i] # "down" /\ up[j] # "down" => Seen(i, k) = Seen(j, k)

\* An assignment that was answered is what a restart loads, what every instance reads
\* with Redis, and without it those that made or loaded it, until the option is assigned
\* again: neither a failed or overlapping call for another option, nor a crash, a late
\* read or a save of an instance that has it undoes it.  Only the causes that broken and
\* stale name may.
RestartKeeps ==
    \A k \in Keys \ (broken \cup stale) :
        Quiet(k) =>
            /\ Loaded(get_config)[k] = last[k]
            /\ \A i \in Instances :
                  up[i] # "down" /\ (useRedis \/ i \in fresh[k]) => Seen(i, k) = last[k]
=============================================================================
