# Verification of the Open WebUI chat system

The repository holds two programs:

* `open-webui/`, the Open WebUI server (Python, FastAPI, Socket.IO, an asyncio
  event loop per process, optionally several processes that share Redis and a
  database) and its Svelte client;
* `AI_making/`, a chat application of its own (React client, Express workers
  behind a balancer, a whisper service), which can also use Open WebUI through
  `server/openwebui-bridge.js`.

This directory has TLA+ modules of the parts whose correctness depends on the
order of events, TLC configurations that check them on small instances, and
proofs checked by TLAPS. `PROJECT.json` lists for every definition the source
lines it models, for every run its properties, and for every property a mutation
of the code under which it fails. Paths below are relative to `src/`, and
`ow/` stands for `open-webui/backend/open_webui/`.

## 1. The system

### Parts, their state and operations

| Part | State | Operations | Model |
|---|---|---|---|
| Background tasks, one process (`ow/tasks.py`) | dicts `tasks`, `item_tasks`; the asyncio tasks | `create_task`, `cleanup_task`, `stop_task`, `stop_item_tasks`, `list_*` | TaskRegistry |
| Background tasks over Redis (`ow/tasks.py`) | a hash of ids, a set of ids per item, the local dict of each instance, the command channel | the same, `redis_save_task`, `redis_cleanup_task`, the command listener | TaskRegistryRedis |
| Collaborative notes (`ow/socket/main.py`, `ow/socket/utils.py`, `open-webui/src/.../Collaboration.ts`) | update log and users of a document, Socket.IO room, session pool, each client's Y.Doc, debounced saves, the note | join, update, leave, disconnect, save; open, edit, close, reconnect | CollabDoc |
| Models in use (`ow/socket/main.py:165-214,292-302`) | usage pool, Redis lock, the cleaner of each instance | `usage`, `periodic_usage_pool_cleanup`, `RedisLock`, `RedisDict` | UsageCleanup |
| Bridge (`AI_making/server/openwebui-bridge.js`) | `conversationStore`, arrays of messages held by open requests | `/api/chat/stream`, `/api/session/reset`; the rest passes requests on | BridgeConversation |
| Configuration (`ow/config.py:75-285`) | a table in the database, a copy of it in each process, a Redis key per option | `AppConfig` get and set, `save_to_db`, `save_config`, `reset_config`, start | AppConfig |
| Chat response (`ow/main.py:1708`, `ow/utils/middleware.py`) | content blocks, tool calls, retries, MCP clients, what the client was told | `process_chat`, `process_chat_payload` (MCP), `process_chat_response`: stream handler, tool and code loops, saves, stops, failures | ChatResponse |
| Chat history (`ow/models/chats.py`) | one JSON document per chat | upsert of a message, `update_chat_by_id` | in ChatResponse, for one message |
| Rate limiter (`ow/utils/rate_limit.py`) | counters per bucket in Redis, a memory fallback | `is_limited`, `get_count`, `remaining` | not modelled |
| Chat worker and client of AI_making (`server/worker.js:503`, `src/api/chatApi.ts`, `src/components/ChatInterface.tsx`) | response, timers, abort controller, loading flag | stream, time out, disconnect, stop, complete | not modelled |
| Socket sessions and events (`ow/socket/main.py:306-449,699-839`) | session pool, rooms | connect, join, event emitter, event call | in part, in CollabDoc |
| Redis connections (`ow/utils/redis.py`) | connection cache, master | every command, with retries | not modelled |
| Everything else (routers, users, retrieval, storage, migrations, speech, interfaces, balancers) | rows, files, pages | requests | not modelled |

### How they interact

A chat request (`main.py` `chat_completion`) is started with `create_task` under
the chat's id and streams its events to the user's sockets; a stop request of the
client calls `stop_task`, which cancels the response at whatever it awaits. A note
update (`yjs_document_update`) first calls `stop_item_tasks` for the document, to cancel
the save it scheduled before, then appends to the log, broadcasts, and schedules a new
save with `create_task`.
`disconnect` takes a session out of every document and clears those without
users. The usage handler and the cleaner of every instance share the pool in
Redis. The bridge calls Open WebUI over HTTP; its conversations live in its own
memory.

Processes do not call each other: they share Redis keys, a pub/sub channel, and
the database. Inside a process coroutines interleave at `await` only; the Redis
clients of `RedisLock` and `RedisDict` are synchronous and hold the whole process,
those of `tasks.py` and `YdocManager` are not.

### What is hard

* suspension in the middle of an operation: `stop_item_tasks` iterates a list that
  changes, `yjs_document_update` appends after an `await`, a stream of the bridge
  ends with an array it read long before;
* failures and stops at any `await` of a long chain: a response that is stopped while
  it tells the client that it was stopped, a payload that fails with connections open,
  a stream that breaks in the third round of tools;
* whole documents written back by somebody who read them earlier: a chat's JSON, the
  configuration of an instance;
* commands of several processes between two commands of one: counting a set and
  deleting it, reading a usage entry and writing it back, comparing a lock's owner
  and deleting the lock;
* crashes and failures: an instance dies with its tasks in Redis, a listener dies,
  a Redis command fails between two others, the cleaner dies with the lock;
* time: a lock that expires under its owner, debounced saves, retries that end;
* overlapping requests of one user, reconnects under a new session id.

`PROJECT.json` has the complete list, each at its line, with the property that
would notice it going wrong; a few in parts that are not modelled have a note.

## 2. Plan

In this order, the most important behaviour first:

1. *done* **TaskRegistry**, **TaskRegistryRedis**: everything that generates or
   saves in the background goes through them.
2. *done* **CollabDoc**: the component with the most actors.
3. *done* **UsageCleanup**: lock, clock and crashes.
4. *done* **Conversation** (abstract), **BridgeConversation**, which implements it.
5. *done* **ChatResponse**: a chat request from its MCP clients to its last save.
6. *done* **AppConfig**: several instances, each with a copy of the configuration that
   it saves as a whole.
7. **WorkerStream**: worker, `chatApi.ts` and `ChatInterface.tsx`; every response
   ends, and the end of one response never touches the next.
8. **RateLimiter**: buckets against a sliding window as the abstract specification.

Theorems: section 5 states every safety property of the runs. Worth adding to them: the
safety part of the liveness properties, which the prover can reach. For ChatResponse a
measure in natural numbers (retries, rounds, chunks and calls that are left) that each
step of the task lowers; for TaskRegistry and TaskRegistryRedis that a task on its way
out always has a step that brings it further; for UsageCleanup that a timed-out report
always has a cleaner or a waiting instance. And what WorkerStream and RateLimiter will
promise.

## 3. Modules

### TaskRegistry

One process without Redis. Tasks are ids; `state` is what asyncio knows of each.
`item_tasks` holds references, and `lists` the list objects, because
`stop_item_tasks` keeps iterating a list that `cleanup_task` shortens. `ready` is
the event loop's queue, first in first out, restricted to the handles of this
component: the done callback of a task, the cleanup coroutine it starts, and the
wake-up of whoever awaits the task. So the two turns between a task's end and its
removal, and what other requests do in them, are as in asyncio. A call of
`stop_task` or `stop_item_tasks` runs to its first `await` or its end in one action
(StopTask, StopItemTasks), and goes on in Wake.

Checked: a running task can be stopped by id and by item; entries leave the
registry; one requester waits for each cancelled task; the answers are true; all
requesters get an answer.

### TaskRegistryRedis

Several instances. Each Redis command or pipeline (MULTI/EXEC) is an action, and
those of different coroutines are in no order: SaveTask may come after the cleanup
of the same task. Publish puts a stop command into the inbox of every instance that
listens, Listen cancels the task where it runs. A stop request is served by an
instance (`at`), and its loop publishes one id after the other. Crash, SaveFails,
CleanupFails, PublishFails and ListenerDies are the failures; MaxFailures bounds them
together. A publish that raises, with the command sent or not, and the death of the
stopper's instance both cut its loop off (Abort): the ids that are left are never
sent, and `aborted` remembers it, as the one cause on the stopper's side that
StopTakesEffect names.

The dict `item_tasks` is written in this mode too, but only read without Redis.

### CollabDoc

One note, its server side and its clients. Yjs updates commute and can be applied
twice, so the log and a replica are sets of updates; the content a client inserts
into a document it finds empty is an update of its own. Every handler is a chain of
actions, one for each stretch between two suspensions. In memory YdocManager's
methods do not suspend, and `turn` says which handler keeps the event loop; with
Redis (`useRedis`, which never changes; Modes says which values it may have) each is
a command others interleave with: the join handler enters the room, sees who is
there, and only after other handlers and instances have run does it read the log.
Events of a session arrive in order, their handlers run concurrently. The client's
part is the provider's: open, edit also before the document's state has arrived, apply
what comes, insert the stored content if the server says that it is alone and the log
is empty, close, open the note again on the same socket (Reopen), and reconnect under a
new session id. UpdateStop leaves open which saves `stop_item_tasks` stops, as its
failures are passed over. The scan for the document's users key is a step, the
removal of the session from it another.

A note that is opened again on one socket misses updates in two ways, which
NoMissedUpdate names: the `leave_room` of the earlier opening comes after the
`enter_room` of the later one (`expelled`), and the broadcast of an update that the
earlier opening sent skips its sender (`former`). ContentInsertedOnce says that nobody
inserts the content while a replica shows it from a session that is still there; it
reads all replicas, so an insertion that a client carries into its next session counts.

Not in the model: awareness messages (they leave no state), the explicit state
request a client sends after an exception, access checks, and the Yjs encoding.

### UsageCleanup

Instances with a cleaner and a usage handler each, the Redis lock with its expiry,
the pool as a hash from models to reports. Time passes in ticks. An age is what the
code computes from `updated_at`; sleeps and the lock are what is left of them.
Between two commands of the synchronous client an instance runs nothing else, so the
handler and the cleaner of one instance do not interleave (MayClean, MayReport),
those of different instances do. Stall is how many ticks an instance may be late
with what is due.

### ChatResponse

One request, an asyncio task of TaskRegistry. `pc` is what the task awaits, and a step
is what it does from one `await` to the next. The content is a sequence of blocks, a
block its kind, its size in chunks or calls, and how many results it has; `Shown` is
what `serialize_content_blocks` keeps of them. The actions follow the code: MCP clients
are connected one after the other (ConnectTo), the stream's chunks change the last block
(TextChunk, ReasoningChunk, OpenTag, CloseTag, CallChunk), its end, or that of a code
block (CloseCode), cleans the content up and enters the loops (StreamEnds, ToolLoop,
CodeLoop), which ask for another stream (NextStream) until Finish saves. A stop is handled
where the innermost `try` is:
StopHandled and StopTold in the handler of the stream, StopAborts in `process_chat`,
StopSwallowed where a bare `except` or no handler at all catches it. Fails is an
exception nobody but `process_chat` catches; those of the loops' own streams, and of
`response.background()` after one, end the loop (LeaveLoop, StreamEnds). Save is
`update_chat_by_id`, which swallows its exceptions and returns a None that nobody looks
at: it stores the content or sets `unsaved`.

OtherReads and OtherWrites are another writer of the chat, which reads all of its JSON
and writes it back. That loses the message's new content, and the properties say so.
Things the code does that a reader may not expect are in the properties' conditions:

* a save that fails is swallowed, and the client is told "done" all the same;
* the first stream's failure drops what was streamed, and so does a second stop during
  the first one's event;
* in real time mode nothing is saved at the end, so tool results and reasoning without
  later text are not stored, nor is the text that follows an empty code block;
* tool calls asked for during the code loop are never executed, nor are those of an
  answer to tools whose stream breaks, or after which `response.background()` raises;
* a client that failed to connect, or whose `disconnect()` raises, keeps those before it
  connected; a payload that fails leaves all clients connected.

After tools the model is sent the blocks as messages, calls with their results; after
code it is sent one raw text, from which `serialize_content_blocks` drops both, so
CallsAnswered speaks of the former only. Not in the model is a failure to read the
message when the stream starts. A stream of another content type goes back without an
event, and is one of the cases of WholeStarts.

The filters, the memory, the web search and the files of the payload change only what is
sent to the model. Solution tags are handled as reasoning tags. Usage, sources and
status events, which keep no state here, are left out; events are taken to go out.

### AppConfig

The rows of the table (any of which `first()` may return, for it has no order), the keys
of Redis, and for each instance `CONFIG_DATA` and the options' values. A call is of any
instance, and any two calls overlap: the event loop of an instance serialises its own, but
synchronous endpoints (`ow/routers/retrieval.py:1424,1580`) run in threads and read and
assign options too. An assignment changes the value (Assign), puts it into CONFIG_DATA and
looks for a row (Save), writes all of CONFIG_DATA (Commit) and sets the key (SetRedis), with
a chance in between for every other call, for a failure and for a crash. A read takes the
key of Redis (ReadGet) and later makes it the value (ReadSet), even if the option was
assigned in between; it leaves CONFIG_DATA alone, which the next assignment saves as a
whole. Import writes no key of Redis. Start loads the table before `lifespan` looks at
RESET_CONFIG_ON_START, so a reset does not reach the process that does it
(`open-webui/CHANGELOG.md:2388` says that settings revert to default).

Four history variables say what may have undone an assignment that was answered: `last`
is what was last assigned; `fresh` whose CONFIG_DATA has it; `broken` the options of which
an assignment failed or broke off, or that were imported; `stale` those of which it was
overlapped by another assignment or by a read, overwritten by the save of an instance that
is not fresh, written to a row that no start loads, or reset. Each cause of `stale` is
needed: without any one of them TLC finds RestartKeeps violated.

### Conversation and BridgeConversation

Conversation says what `AI_making/README.md:310-312` promises a user: each question
is sent with the last turns, an answer joins the conversation, a reset clears it.
BridgeConversation has the arrays of the JavaScript program as a heap, because a
request keeps its reference while the map gets another array. The refinement maps a
user's conversation to the array the map refers to. Users in Patient wait for each
answer; the others overlap their requests as they like.

`MAX_HISTORY_TURNS` 0 keeps everything (`slice(-0)`); Truncate says so, and the
bound in ContextIsOwn is for one turn and more.

## 4. Runs

| Run | Instance | What it shows |
|---|---|---|
| tasks | 2 tasks, 1 or 2 items, 2 requesters | registry and tasks agree, answers are true and given, entries go |
| tasks_stop_all (violated) | 3 tasks of an item | `stop_item_tasks` skips tasks and says that all are stopped |
| tasks_redis | 2 tasks, 1 item, 2 instances, 1 requester, 1 failure | what the Redis structures and the local dict promise; a stale entry has one of four causes; a stop takes effect on every id its loop has set out to send, unless the loop is cut off, and an ended task leaves Redis, the named failures apart |
| tasks_redis_item_list (violated) | 2 tasks of an item, 2 instances | the cleanup of one task removes the other from the item's set |
| collab | 2 sessions, 2 concurrent updates, 1 edit in memory and over Redis the insertions only, closed, reopened or cut off twice | no missed update but for the two ways of a note opened again, no lost document, content inserted once; over Redis the same with suspensions at every command, except ClearedWhenUnused |
| collab_reconnect (violated) | as collab over Redis | a disconnect clears the log under a session that came back |
| usage_safety | 2 instances, 1 model, 2 sessions, a lock that may expire under its owner | what two cleaners and a handler at once may lose, and what not |
| usage_restart | 2 prompt instances, 1 crash | one cleaner at a time; timed-out reports go |
| chat_response | up to 2 MCP servers, 3 chunks (less one per server), 1 call in a stream, 2 rounds of tools and 1 of code, 2 stops, saves that are swallowed, another writer; with and without real time saves | what is stored when the client is told done, what a stop or a failure may lose, which calls stay unanswered, which clients stay connected, every request ends |
| app_config | 2 instances, 2 calls at a time, 2 options, 2 values, 3 assignments or imports, 1 crash, with and without Redis | instances read the same unless told apart by a failure or an import; what was assigned is read and survives a restart, but for the causes in `broken` and `stale` |
| bridge_conversation | 2 users, one patient, 3 requests, 1 turn, 1 reset each | users are not mixed, order, the promise kept |
| bridge_reset (violated) | nobody patient | a stream brings back a conversation that was reset |

The violated runs each check one sentence of the repository, quoted under
"findings" in `PROJECT.json`.

### Bounds

* Two tasks, with items chosen freely, have every pair of operations on the same
  and on different lists; a third one matters only to the iterator, whence
  tasks_stop_all.
* In TaskRegistryRedis one failure is enough for each cause of StaleHasCause by
  itself, and tasks share nothing but the item's set. MCFairSpec fixes where one of the
  two tasks runs and has the stopper served there; the other task runs there or on the
  other instance. As instances and tasks are alike, this leaves out only that both run
  where the stopper is not.
* Two sessions are the least with a join against an update, and one of them can be
  the reconnect of the other. One edit besides the insertions gives updates of both
  kinds. A slot bounds handlers that run at the same time, not their number. Two moves
  (closing, reopening, being cut off) are a note that is closed and opened again, or two
  sessions that are closed or cut off, with the other session's join or a reconnect at any
  point; collab_reconnect has three. Reopen waits for the
  join handler of the earlier opening, and CloseNote for its leave handler; both are
  bounds, and so is that a session inserts the content in one of its openings only. The
  theorems of section 5 keep the latter bounds and hold for every MaxMoves.
* In usage_safety the timeout is one tick, the lock two and the lateness one, the
  least values for which a lock expires under a cleaner; in usage_restart no
  instance is late. The theorem of section 5 covers the values in between. Ages stop
  counting once timed out, which loses nothing, for the code compares them only
  with the timeout.
* In chat_response three chunks in all, over up to four streams, are enough for a call, a
  code block and a call in the answer to the code, a call in an answer to tools that
  breaks, or text, a tag and more text; two servers for one that is left because of the
  other; two stops for one that interrupts the other. A request that uses servers has one
  chunk less for each, as the clients do not meet the stream. Of 30 rounds of tools the
  run has 2, so that an answer to tools is followed by another round or breaks with rounds
  left; of 5 rounds of code it has 1: each loop is entered, left at its limit and left
  before.
* In app_config two calls at a time are an assignment with another one, a read or an
  import in it. Three saves are two that each add a row and one that goes to either of
  them, or an assignment, the save of a copy that is not fresh, and an assignment that
  repairs it. An imported document has one option and lacks the other. Update waits for other calls of
  its instance that have found their row: they would write the CONFIG_DATA object it
  replaces. But for that the theorems of section 5 hold without these bounds.
* Three requests are the least with a stream that ends after a reset and a request
  that shows it, or two streams that overlap and a later one. One turn makes
  truncation happen with the second message pair.

TaskRegistry, TaskRegistryRedis, CollabDoc and BridgeConversation come to rest when
all ids are used up, ChatResponse when the task has ended, hence CHECK_DEADLOCK FALSE.
UsageCleanup goes on for ever, and TLC checks that it does.

### Fairness

* TaskRegistry: the event loop runs what is ready, and a cancelled task ends. The
  second is an assumption about the coroutines: the code of the repository that
  handles CancelledError (`ow/utils/middleware.py:3660`, `ow/main.py:1732`)
  finishes. Nothing makes a running task end or a request arrive.
* TaskRegistryRedis: the same per task, and a listener that lives reads its
  messages. Commands are weakly fair one by one because each is a coroutine of its
  own.
* UsageCleanup: time passes, handlers finish (weak fairness), and a cleaner that is
  due again and again gets its turn (strong fairness, because each usage report
  holds the process for a moment; asyncio is first come, first served). A dead
  instance is started again in FairRestartSpec only: without that nobody
  cleans after a crash, as the other instances gave up after three attempts.
* ChatResponse: the task goes on while it can (weak fairness of its next step): the
  event loop runs it, a stream is finite, tools, MCP servers and the model answer or fail.
  The last is an assumption, as not all of those calls have a timeout.
* AppConfig, CollabDoc and BridgeConversation: safety only, no fairness is stated.

## 5. Proofs

Every safety invariant and action property of the passing runs, and the refinement of
Conversation, is a theorem of its module's `Spec`, for every value of the constants.
None of the properties is inductive by itself; each entry names what is added and why.

**TaskRegistryProofs** and **TaskRegistryStopProofs** (any number of tasks, items and
requesters):

* TypeCorrect: `Spec => []TypeOK`;
* RunningStaysStoppable: `Spec => []RunningIsStoppable`. A cleanup might remove a
  running task, or delete from a list that belongs to another item. Inv adds
  HandlesAreOver (only tasks that are over have callbacks or cleanups in the queue) and
  ListsAreOwn (the list of an item was made by a task of that item, so items never share
  a list). WithoutTaskLemma says that `list.remove` takes one task away and no other;
* OneStopper, AnswersAreTrue, OnlyTaskIsStopped: `Spec => []` CancelledHasOneStopper,
  StopTaskTellsTruth, OnlyTaskStopped, from one invariant, StopInv. A cancelled task has
  been popped, so that no second request finds it (CancellingIsPopped); nobody awaits a
  task that was not asked to stop (AwaitedIsStopped); a coroutine is woken once, and
  when the task it awaits is over (WakesOnce, WakeIsOver); AnswerHolds ties what a call
  awaits or has answered to what it was asked;
* NoEntryIsStale: `Spec => []NoStaleEntry`. EntryInv adds ListedOfItem and ListedOnce:
  the list of an item holds tasks of the item, each once, so that the one cleanup of a
  task removes all there is of it.

They assume that NoList and NoTask are no tasks.

**TaskRegistryRedisProofs** (any number of tasks, items, instances, requests, failures):

* TypeCorrect, RunningStaysCancellable, RunningStaysListed, ItemSetsAgree and
  StaleEntriesHaveCause: `Spec => []` TypeOK, RunningIsCancellable, RunningIsListed,
  ItemSetsAgreeWithHash, StaleHasCause. They hold together: a running task stays in the
  hash because its cleanup has not begun, and a stale entry has its cause because the
  cleanup has. Inv adds Phases, which relates how far the coroutine, the save and the
  cleanup of a task are. Fine is what Inv says of one task, and Others that a step of one
  task leaves the others as they are.

They assume that MaxFailures is a natural number.

**CollabDocProofs** (any number of sessions, edits, update handlers and instances, in
memory and over Redis). SessionInv, the life of a session (a client that is connected,
edits and has been entered is in the room; what has not begun has done nothing), is the
basis of all:

* TypeCorrect: `Spec => []TypeOK`;
* NothingIsMissed: `Spec => []NoMissedUpdate`. MissInv adds that a client has what it
  sent, on its way or being handled (InboxOwn, SlotOwn), or an earlier opening of it did
  (`former`), that a client which has no note open has nothing on its way (Quiet), and
  that a join handler which has read the log has what its client misses, but for updates
  whose broadcast is still to come (AnswerComplete). The room was entered commands before
  the log is read, so an update that is appended in between is in what is read or is
  broadcast later. Reopen, the one step that takes content from a session, is a case of
  its own (NoReopening is the others);
* UsersAreInRoom: `Spec => []UsersMatchRoom`, and LogOfNobody:
  `Spec => ClearedWhenUnusedInMemory`. In memory a handler holds the event loop between
  two awaits that suspend (Holds), so nobody joins between the count of the users and
  the clearing of the log (Matches);
* ContentIsInsertedOnce: `Spec => []ContentInsertedOnce` if there is a single instance.
  InsertInv says that an insertion comes from its own session (InsertedByOwner), after
  the session was told the state (InsertedWhenTold), and that of the sessions of one
  instance which are in the room at most one has inserted or may still do so (OneClaim).
  InsertedOncePerInstance states what holds with several. The hypothesis is
  needed: "alone" is read from the room of one instance
  (`get_session_ids_from_room`), so clients of two instances may both be alone.

They assume that edits are no sessions, that Free is no handler, and that MaxMoves is a
natural number.

**UsageCleanupProofs** (any number of instances, sessions, models and crashes):

* PromptCleanersAreAlone: if TimeoutDuration + 2 * Stall < LockTimeout then
  `Spec => []OneCleaner`. `renew_lock` sets the key whoever owns it, so mutual
  exclusion rests on time alone. The invariant IInv says that what is left of the
  lock exceeds what is left of the cleaner's sleep and of the lateness it may still
  have (LockLasts), and that a cleaner never leaves its loop (NeverReleases): it
  always finds its lock, and nobody else deletes a model it is about to delete.
  LockIsAlive derives that the lock has not expired. With the defaults (3 seconds,
  and a lock of 60) an instance may be late by 28 seconds. The bound is
  tight: TLC finds two cleaners for 1 + 2 * 1 = 3;
* TypeCorrect: `Spec => []TypeOK`, with ReportsFull, that a handler that has started
  knows its model and its session;
* ModelsAreUsed: `Spec => []NoModelWithoutUsage`, without any hypothesis on time: however
  cleaners and handlers interleave, nobody writes an entry without a report;
* StaleReadsLose: `Spec => LossNeedsStaleRead`. The invariant is Newest: the report a
  handler is about to write is the newest of its session, in the pool and in whatever any
  instance has read, because the instance of a session handles its reports in turn.

They assume that both timeouts are positive, and lateness and crashes natural numbers.

**BridgeConversationProofs** (any number of users, requests and resets):

* TypeCorrect: `Spec => []TypeOK`;
* UsersStayApart: `Spec => []ContextIsOwn`. What a user is sent comes from an array, so
  BridgeInv adds OneOwner (an array is within reach, through the map or through a
  request that keeps it, of one user only) and HeapIsOwn (its messages are of that user).
  TruncateIsSuffix says that truncation keeps the end of a conversation;
* KeptInOrder: `Spec => []InOrderOnce`, with HeapIsBorn: what an array holds was sent,
  and only requests that have ended have answers in it;
* PromiseIsKept: `Spec => PromiseKept`, that the bridge implements Conversation, if
  MaxHistoryTurns > 0. Initial states map to initial states, and each step to a step of
  one user or to a stutter, by PatientWaits: a user who waits has one request open, and it
  is on the array the map refers to. Without a bound (0) Conversation, which keeps
  that many turns, says something else.

They assume the bounds to be natural numbers, Patient to be users, None to be nobody.

**AppConfigProofs** (any number of instances, options, values, saves and crashes):

* TypeCorrect: `Spec => []TypeOK`, with CallsKnown: a call that is not idle knows its
  instance, and an assignment or a read its option;
* RestartsKeep: `Spec => []RestartKeeps`. The invariant is Kept, for each option that is
  neither broken nor stale: the last row of the table has what was last assigned unless
  that is still to be saved (TableKept), so do the copies of the fresh instances
  (CopiesKept) and, without Redis, their values (ValuesKept); an instance that is assigning
  the option is fresh and has that value (CallsKept), and the key of Redis has it when
  no assignment is on its way (RedisKept);
* InstancesAgree: `Spec => []ReadsAgree`. The invariant is Untouched: an option without a
  key in Redis, of which no assignment is on its way or broke off, is in no row and no
  copy, so that every instance has the environment's value.

They assume that None is no value, that EnvValue is one, and that Imports are documents.

**ChatResponseProofs** (any number of MCP servers, retries, chunks, calls and stops):

* CallsAreAnswered: `Spec => []CallsAnswered`, of what the model is sent after tools.
  AnswersInv follows the blocks through the
  stream and the loops: while tools run their block is the last one and the only one
  without results, code is run only if it ends the content, and a stream never starts
  with a block of calls as the last one, so that no chunk goes into it. PutBlock,
  AppendBlock and CleanedBlocks say what the three ways to change the blocks keep;
* ClientsDisconnected: `Spec => []McpLeftHasCause`, which is inductive together with the
  types: where `disconnect()` of a client raises, whether it had failed to connect or is
  stuck, those still open were connected before it;
* EndsAreTold: `Spec => []EndIsTold`. ToldInv says that where the task tells nothing any
  more, it has told something, was stopped, or had a whole response;
* DoneIsKept: `Spec => []DoneIsStored`, and LossesHaveCauses: `Spec => []LossHasCause`.
  StoreInv says what has been stored at each place of the task: in real time all text at
  every moment (TextsKept), otherwise everything from the end of the loops on
  (ContentKept), unless the save was swallowed (`unsaved`), or an exception or a further
  stop came before it (`cut`). ShownTexts
  and the lemmas after it say which text `serialize_content_blocks` keeps;
* CallsAreExecuted: `Spec => []UnansweredHasCause`. CountInv says where the
  calls are that are not executed: as long as the tool loop reads the streams, in the
  stream that is read or in the block whose tools run, and `tool_calls` is empty
  (CallsInv). Once that loop is left, they are explained by the code interpreter, by the
  rounds being used up or by a broken answer (ExplainedInv). Counts has the
  counters of the loops in their limits;
* TypeCorrect: `Spec => []TypeOK`, from all of these.

They assume that the bounds are natural numbers.

Only model-checked are the liveness properties: StopReturns and OverIsForgotten of
TaskRegistry, StopTakesEffect and EndedIsRemoved of TaskRegistryRedis, TimedOutIsRemoved
of UsageCleanup, ResponseEnds of ChatResponse. Reasoning with fairness and ENABLED is out
of the prover's reach. No module has a recursive definition.

## 6. What is not modelled

* Redis clients that repeat a command after a fail-over (`ow/utils/redis.py:47-120`):
  a command happens once or fails.
* The rate limiter, and the worker and client of AI_making: next in the plan.
* Content: messages, updates, notes and models are ids. Formatting, prompts, model
  back ends, retrieval and storage are calls whose results the modelled parts only
  pass on.
* Authentication and access control: checks without state of their own.
* Database rows other than the note, the message and the configuration: single-row
  operations that the database makes atomic.
* Rendering, speech, migrations, balancers and start scripts. No script starts
  `AI_making/server/process-manager.js`; the lock manager of a worker guards the
  creation of directories only.
