----------------------------- MODULE ChatResponse -----------------------------
(***************************************************************************)
(* One chat request from process_chat (chat_completion of main.py) to its  *)
(* end: process_chat_payload with its MCP clients, the model's answer, the *)
(* stream handler with its tool and code interpreter loops in              *)
(* process_chat_response (utils/middleware.py), and the message in the     *)
(* database (models/chats.py).                                             *)
(*                                                                         *)
(* The request is an asyncio task (see TaskRegistry): a stop cancels it at *)
(* whatever it awaits, and the handler of the innermost try decides what   *)
(* is still saved and told.  A step is what runs from one await to the     *)
(* next; an event is out when its emitter is awaited.                      *)
(*                                                                         *)
(* Every change of the chat rewrites the JSON of the whole chat, so that   *)
(* another writer (a client's save, an upsert on another instance) may     *)
(* put an older version of the message back.                               *)
(*                                                                         *)
(* content_blocks is a sequence of blocks; a block has a size, in chunks   *)
(* of the stream or in tool calls, and the number of results in it.        *)
(***************************************************************************)
EXTENDS Naturals, SequencesExt

CONSTANTS Servers,         \* bound: MCP servers a request uses
          MaxToolRetries,  \* CHAT_RESPONSE_MAX_TOOL_CALL_RETRIES
          MaxCodeRetries,  \* MAX_RETRIES
          MaxChunks,       \* bound: chunks of the response's streams, less one for each
                           \* server the request uses
          MaxCalls,        \* bound: tool calls of a stream
          MaxCancels,      \* bound: stops that reach the task
          None

ASSUME BoundsAssumption ==
    /\ {Servers, MaxToolRetries, MaxCodeRetries, MaxChunks, MaxCalls, MaxCancels} \subseteq Nat

VARIABLES
    realtime,     \* BOOLEAN, ENABLE_REALTIME_CHAT_SAVE
    pc,           \* what the task awaits
    client,       \* [1..Servers -> ClientStates], mcp_clients
    returned,     \* BOOLEAN, process_chat has the metadata with mcp_clients
    round,        \* whose stream is read: "first", "tool", "code"; "whole" if none is
    blocks,       \* content_blocks
    chunks,       \* chunks of all streams so far
    calls,        \* response_tool_calls, their number
    queue,        \* tool_calls, a list of such numbers
    results,      \* results, their number
    toolRetries,  \* tool_call_retries
    codeRetries,  \* retries
    told,         \* terminal events the client was sent
    cancels,      \* stops that have reached the task
    stored,       \* the content of the message in the database, serialized blocks
    copy,         \* the content another writer has read, or None
    overwritten,  \* BOOLEAN, it has put an older content back
    unsaved,      \* BOOLEAN, the last content was not saved, and nobody was told
    unanswered,   \* tool calls asked for and not executed (yet)
    late,         \* how many of them in an answer to the code interpreter
    broken,       \* BOOLEAN, an answer to tools broke after it had asked for calls
    cut           \* what was cut short: "saving" the content, "disconnecting" clients

mcp    == <<client, returned>>
loop   == <<queue, results, toolRetries, codeRetries>>
stream == <<round, blocks, chunks, calls>>
fate   == <<unanswered, late, broken>>
store  == <<stored, copy, overwritten, unsaved>>
vars   == <<realtime, pc, mcp, stream, loop, told, cancels, cut, fate, store>>

Pc     == {"payload", "answer", "whole", "wholeDone", "stream", "flush", "tools", "toolRequest",
           "code", "codeRequest", "done", "background", "stopping", "rest", "failing",
           "finally", "ended"}
ClientStates == {"none", "open", "failed", "closed", "stuck"}
Kinds  == {"text", "reasoning", "thinking", "code", "tools"}
Block(kind, size) == [kind |-> kind, size |-> size, out |-> 0]
Final  == Block("text", 1)

\* serialize_content_blocks: a text block without text leaves nothing.
Shown(bs) == Restrict(bs, {i \in DOMAIN bs : bs[i].kind = "text" => bs[i].size > 0})

\* A message that is continued has content already.
Init == /\ realtime \in BOOLEAN /\ pc = "payload"
        /\ client = [i \in 1..Servers |-> "none"] /\ returned = FALSE
        /\ round = "first" /\ blocks = <<>> /\ chunks = 0 /\ calls = 0
        /\ queue = <<>> /\ results = 0 /\ toolRetries = 0 /\ codeRetries = 0
        /\ told = {} /\ cancels = 0
        /\ stored \in {<<>>, <<Final>>}
        /\ copy = None /\ overwritten = FALSE /\ unsaved = FALSE
        /\ unanswered = 0 /\ late = 0 /\ broken = FALSE /\ cut = {}

Goto(from, to) == pc = from /\ pc' = to
Tell(events)   == told' = told \cup events

\* upsert_message_to_chat_by_id_and_message_id with the content: update_chat_by_id
\* swallows its exceptions, and nobody looks at the None it returns then.
Save(content) ==
    /\ \/ stored' = content /\ overwritten' = FALSE /\ unsaved' = FALSE
       \/ unsaved' = TRUE /\ UNCHANGED <<stored, overwritten>>
    /\ UNCHANGED copy

-----------------------------------------------------------------------------
\* process_chat_payload

\* The client is in mcp_clients before it connects, and stays there if that fails.
ConnectTo(i) ==
    /\ pc = "payload" /\ client[i] = "none"
    /\ \A j \in 1..(i - 1) : client[j] # "none"
    /\ \E outcome \in {"open", "failed"} : client' = [client EXCEPT ![i] = outcome]
    /\ UNCHANGED <<realtime, pc, returned, stream, loop, told, cancels, cut, fate, store>>

\* There are no more servers, and the payload is complete; mcp_clients is in the
\* metadata that it returns.
PayloadReturns ==
    /\ Goto("payload", "answer")
    /\ returned' = TRUE
    /\ UNCHANGED <<realtime, client, stream, loop, told, cancels, cut, fate, store>>

-----------------------------------------------------------------------------
\* The model's answer.

\* chat_completion_handler returned a stream: what is stored is the first block.
StreamStarts ==
    /\ Goto("answer", "stream")
    /\ blocks' = <<IF stored = <<>> THEN Block("text", 0) ELSE Final>>
    /\ UNCHANGED <<realtime, mcp, round, chunks, calls, loop, told, cancels, cut, fate,
                   store>>

\* It returned the whole response: an error is sent, and nothing if there is no
\* content, or it is a stream of another type, which goes back as it is.  Otherwise
\* content and done are sent, and only then is it saved.
WholeStarts ==
    /\ round' = "whole"
    /\ \/ Goto("answer", "whole") /\ blocks' = <<Final>> /\ UNCHANGED told
       \/ /\ Goto("answer", "finally") /\ UNCHANGED blocks
          /\ \E events \in {{}, {"error"}} : Tell(events)
    /\ UNCHANGED <<realtime, mcp, chunks, calls, loop, cancels, cut, fate, store>>

WholeTold ==
    /\ Goto("whole", "wholeDone")
    /\ Tell({"done"})
    /\ UNCHANGED <<realtime, mcp, stream, loop, cancels, cut, fate, store>>

WholeSaved ==
    /\ Goto("wholeDone", "background")
    /\ Save(Shown(blocks))
    /\ UNCHANGED <<realtime, mcp, stream, loop, told, cancels, cut, fate>>

-----------------------------------------------------------------------------
\* stream_body_handler

Top       == Last(blocks)
Push(b)   == Append(blocks, b)
\* The last block becomes b.
Put(bs, b) == Append(Front(bs), b)
Grown(bs) == Put(bs, [Last(bs) EXCEPT !.size = @ + 1])

\* A chunk has come and the blocks are bs now.
Chunk(bs) ==
    /\ pc = "stream" /\ chunks < MaxChunks
    /\ \A i \in 1..Servers : client[i] # "none" => chunks + i < MaxChunks
    /\ chunks' = chunks + 1
    /\ blocks' = bs
    /\ UNCHANGED <<realtime, mcp, round, loop, told, cancels, cut, broken>>

SaveChunk == IF realtime THEN Save(Shown(blocks')) ELSE UNCHANGED store

\* Content: after reasoning it starts a text block, otherwise it goes to the
\* last block, whatever that is.
TextChunk ==
    /\ Chunk(IF Top.kind = "reasoning" THEN Push(Final) ELSE Grown(blocks))
    /\ SaveChunk
    /\ UNCHANGED <<pc, calls, unanswered, late>>

\* reasoning_content; in real time it is not saved by itself
ReasoningChunk ==
    /\ Chunk(IF Top.kind \in {"reasoning", "thinking"}
             THEN Grown(blocks) ELSE Push(Block("reasoning", 1)))
    /\ UNCHANGED <<pc, calls, unanswered, late, store>>

\* tag_content_handler, a start tag in a text block: an empty one is replaced.
OpenTag(kind) ==
    /\ pc = "stream" /\ Top.kind = "text"
    /\ Chunk(IF Top.size = 0 THEN Put(blocks, Block(kind, 0)) ELSE Push(Block(kind, 0)))
    /\ SaveChunk
    /\ UNCHANGED <<pc, calls, unanswered, late>>

\* An end tag: an empty block is replaced, and text goes on.
CloseTag ==
    /\ pc = "stream" /\ Top.kind = "thinking"
    /\ Chunk(IF Top.size = 0 THEN Put(blocks, Block("text", 0)) ELSE Push(Block("text", 0)))
    /\ SaveChunk
    /\ UNCHANGED <<pc, calls, unanswered, late>>

\* tool_calls: a call with a new index; arguments only grow.
CallChunk ==
    /\ calls < MaxCalls
    /\ Chunk(blocks)
    /\ calls' = calls + 1
    /\ unanswered' = unanswered + 1
    /\ late' = IF round = "code" THEN late + 1 ELSE late
    /\ UNCHANGED <<pc, store>>

\* What the stream leaves: an empty text block goes, unless it is the only one.
Cleaned(bs) == IF Last(bs) # Block("text", 0) \/ Len(bs) = 1 THEN bs ELSE Front(bs)

\* Deviation: the content is saved in real time mode only.
Finish_Realtime(bs) ==
    /\ pc' = "done"
    /\ IF realtime THEN Save(Shown(bs)) ELSE UNCHANGED store

\* The events a response ends with; the content is saved first.
Finish(bs) ==
    /\ pc' = "done"
    /\ IF realtime THEN UNCHANGED store ELSE Save(Shown(bs))

\* Deviation: the code is run before the retries are counted.
CodeLoop_Uncounted(bs) ==
    IF Last(bs).kind = "code"
    THEN /\ pc' = "code" /\ codeRetries' = codeRetries /\ UNCHANGED store
    ELSE Finish(bs) /\ UNCHANGED codeRetries

\* The code interpreter loop: code that ends the content is run.
CodeLoop(bs) ==
    IF Last(bs).kind = "code" /\ codeRetries < MaxCodeRetries
    THEN /\ pc' = "code" /\ codeRetries' = codeRetries + 1 /\ UNCHANGED store
    ELSE Finish(bs) /\ UNCHANGED codeRetries

\* Deviation: the last of the retries is not used.
ToolLoop_Early(bs, q) ==
    IF q # <<>> /\ toolRetries + 1 < MaxToolRetries
    THEN /\ pc' = "tools" /\ toolRetries' = toolRetries + 1
         /\ blocks' = Append(bs, Block("tools", Head(q)))
         /\ queue' = Tail(q) /\ results' = 0
         /\ UNCHANGED <<codeRetries, store>>
    ELSE /\ CodeLoop(bs) /\ blocks' = bs /\ queue' = q
         /\ UNCHANGED <<toolRetries, results>>

\* Deviation: one retry too many.
ToolLoop_More(bs, q) ==
    IF q # <<>> /\ toolRetries <= MaxToolRetries
    THEN /\ pc' = "tools" /\ toolRetries' = toolRetries + 1
         /\ blocks' = Append(bs, Block("tools", Head(q)))
         /\ queue' = Tail(q) /\ results' = 0
         /\ UNCHANGED <<codeRetries, store>>
    ELSE /\ CodeLoop(bs) /\ blocks' = bs /\ queue' = q
         /\ UNCHANGED <<toolRetries, results>>

\* The tool loop: the calls of a stream become a block, and are executed.
ToolLoop(bs, q) ==
    IF q # <<>> /\ toolRetries < MaxToolRetries
    THEN /\ pc' = "tools" /\ toolRetries' = toolRetries + 1
         /\ blocks' = Append(bs, Block("tools", Head(q)))
         /\ queue' = Tail(q) /\ results' = 0
         /\ UNCHANGED <<codeRetries, store>>
    ELSE /\ CodeLoop(bs) /\ blocks' = bs /\ queue' = q
         /\ UNCHANGED <<toolRetries, results>>

\* Back in the loop that reads the streams.  After the tool loop the calls of a
\* stream are put into tool_calls, but nobody looks there.
Continue(bs, q) ==
    IF round = "code" THEN /\ CodeLoop(bs) /\ blocks' = bs /\ queue' = q
                           /\ UNCHANGED <<toolRetries, results>>
                      ELSE ToolLoop(bs, q)

\* The end tag of code ends the stream, whatever is still to come.  A block without
\* code is replaced by the text after the tag, which is not saved here.
CloseCode ==
    /\ Goto("stream", "flush") /\ Top.kind = "code"
    /\ \/ Top.size > 0 /\ UNCHANGED <<blocks, unsaved>>
       \/ Top.size = 0 /\ blocks' = Put(blocks, Block("text", 0)) /\ UNCHANGED unsaved
       \/ Top.size = 0 /\ blocks' = Put(blocks, Final) /\ unsaved' = TRUE
    /\ UNCHANGED <<realtime, mcp, round, chunks, calls, loop, told, cancels, cut, fate, stored,
                   copy, overwritten>>

Streaming  == pc \in {"stream", "flush"}
InToolLoop == pc = "toolRequest" \/ (Streaming /\ round = "tool")
InCodeLoop == pc = "codeRequest" \/ (Streaming /\ round = "code")

\* An exception in a loop, or an answer that is no stream: the loop is left.
LeaveWith(bs, q) ==
    /\ blocks' = bs /\ queue' = q
    /\ \/ InToolLoop /\ CodeLoop(bs) /\ broken' = (broken \/ (Streaming /\ calls > 0))
       \/ InCodeLoop /\ Finish(bs) /\ UNCHANGED <<codeRetries, broken>>
    /\ UNCHANGED <<realtime, mcp, round, chunks, calls, results, toolRetries, told, cancels,
                   cut, unanswered, late>>

\* The stream is over, and its calls are in tool_calls; response.background() may
\* raise then.
StreamEnds ==
    LET q == IF calls = 0 THEN queue ELSE Append(queue, calls)
    IN /\ Streaming
       /\ \/ /\ Continue(Cleaned(blocks), q)
             /\ UNCHANGED <<realtime, mcp, round, chunks, calls, told, cancels, cut, fate>>
          \/ LeaveWith(Cleaned(blocks), q)

-----------------------------------------------------------------------------
\* The loops.

\* One call is executed; an exception is a result too, and so is "".
ToolReturns ==
    /\ pc = "tools" /\ results < Top.size
    /\ results' = results + 1 /\ unanswered' = unanswered - 1
    /\ UNCHANGED <<realtime, pc, mcp, stream, queue, toolRetries, codeRetries, told,
                   cancels, cut, late, broken, store>>

\* Deviation: the text block is appended before the results are set.
ToolsDone_Late ==
    /\ Goto("tools", "toolRequest") /\ results = Top.size
    /\ blocks' = Push([Block("text", 0) EXCEPT !.out = results])
    /\ UNCHANGED <<realtime, mcp, round, chunks, calls, loop, told, cancels, cut, fate,
                   store>>

ToolsDone ==
    /\ Goto("tools", "toolRequest") /\ results = Top.size
    /\ blocks' = Append(Put(blocks, [Top EXCEPT !.out = results]), Block("text", 0))
    /\ UNCHANGED <<realtime, mcp, round, chunks, calls, loop, told, cancels, cut, fate,
                   store>>

\* The code has run, or failed: its output is text.
CodeDone ==
    /\ Goto("code", "codeRequest")
    /\ blocks' = Append(Put(blocks, [Top EXCEPT !.out = 1]), Block("text", 0))
    /\ UNCHANGED <<realtime, mcp, round, chunks, calls, loop, told, cancels, cut, fate,
                   store>>

\* The model was sent the results, and answers with a stream.
NextStream(from, kind) ==
    /\ Goto(from, "stream")
    /\ round' = kind /\ calls' = 0
    /\ UNCHANGED <<realtime, mcp, blocks, chunks, loop, told, cancels, cut, fate, store>>

\* It does not answer with a stream, or not at all, or its stream breaks, which is not
\* cleaned up and whose calls are dropped.
LeaveLoop == LeaveWith(blocks, queue)

\* {done: True, content, title} is sent.
DoneTold ==
    /\ Goto("done", "background")
    /\ Tell({"done"})
    /\ UNCHANGED <<realtime, mcp, stream, loop, cancels, cut, fate, store>>

\* background_tasks_handler has made follow-ups, title and tags.
BackgroundDone ==
    /\ Goto("background", IF round = "whole" THEN "finally" ELSE "rest")
    /\ UNCHANGED <<realtime, mcp, stream, loop, told, cancels, cut, fate, store>>

-----------------------------------------------------------------------------
\* Stops and failures.

\* Where CancelledError or an exception leaves the try of response_handler.  The
\* part that handles a whole response has no handler for CancelledError.
InHandler == /\ pc \in {"stream", "flush", "tools", "toolRequest", "code", "codeRequest", "done",
                        "background"}
             /\ round # "whole"
InWhole   == pc \in {"whole", "wholeDone", "background"} /\ round = "whole"

\* The clients that the end of process_chat has still to disconnect.
Pending == {i \in 1..Servers : returned /\ client[i] \in {"open", "failed"}}

\* Where what was streamed is still to be saved.
Unsaving == Streaming \/ pc \in {"tools", "toolRequest", "code", "codeRequest", "stopping"}

Stop == cancels < MaxCancels /\ cancels' = cancels + 1

\* The handler of response_handler starts to tell the client.
StopHandled ==
    /\ Stop /\ InHandler
    /\ pc' = "stopping"
    /\ UNCHANGED <<realtime, mcp, stream, loop, told, cut, fate, store>>

\* Deviation: what was streamed is not saved.
StopTold_Unsaved ==
    /\ Goto("stopping", "rest")
    /\ Tell({"cancel"})
    /\ UNCHANGED <<realtime, mcp, stream, loop, cancels, cut, fate, store>>

\* The client was told; now the content is saved, and the task goes on.
StopTold ==
    /\ Goto("stopping", "rest")
    /\ Tell({"cancel"})
    /\ IF realtime THEN UNCHANGED store ELSE Save(Shown(blocks))
    /\ UNCHANGED <<realtime, mcp, stream, loop, cancels, cut, fate>>

\* Anywhere else process_chat handles it: the client is told under a shield.
StopAborts ==
    /\ Stop /\ (InWhole \/ pc \in {"payload", "answer", "stopping", "rest"})
    /\ pc' = "finally"
    /\ Tell({"cancel"})
    /\ cut' = IF pc = "stopping" THEN cut \cup {"saving"} ELSE cut
    /\ UNCHANGED <<realtime, mcp, stream, loop, fate, store>>

\* A stop while a failure is told is swallowed, and so is the event; one while
\* clients are disconnected ends the task.
StopSwallowed ==
    /\ Stop
    /\ \/ Goto("failing", "finally") /\ UNCHANGED cut
       \/ Goto("finally", "ended") /\ Pending # {} /\ cut' = cut \cup {"disconnecting"}
    /\ UNCHANGED <<realtime, mcp, stream, loop, told, fate, store>>

\* An exception, process_chat handles it: the error is saved in the message, the
\* content is not.  The loops have handlers of their own for their streams.
Fails ==
    /\ \/ pc \in {"payload", "answer", "stopping", "rest"}
       \/ InHandler /\ (Streaming => round = "first")
    /\ pc' = "failing"
    /\ cut' = IF Unsaving THEN cut \cup {"saving"} ELSE cut
    /\ UNCHANGED <<realtime, mcp, stream, loop, told, cancels, fate, store>>

\* An exception in the part for a whole response is logged.
WholeFails ==
    /\ InWhole
    /\ pc' = "finally"
    /\ UNCHANGED <<realtime, mcp, stream, loop, told, cancels, cut, fate, store>>

\* Deviation: the error is saved, and no event is sent.
FailureTold_Silent ==
    /\ Goto("failing", "finally")
    /\ UNCHANGED <<realtime, mcp, stream, loop, told, cancels, cut, fate, store>>

FailureTold ==
    /\ Goto("failing", "finally")
    /\ Tell({"error", "cancel"})
    /\ UNCHANGED <<realtime, mcp, stream, loop, cancels, cut, fate, store>>

\* response.background()
RestDone ==
    /\ Goto("rest", "finally")
    /\ UNCHANGED <<realtime, mcp, stream, loop, told, cancels, cut, fate, store>>

\* disconnect() raises for a client that never connected, and may for another, which is
\* stuck then: the exception ends the loop.
DisconnectOne(i) ==
    /\ \/ client[i] = "open" /\ client' = [client EXCEPT ![i] = "closed"] /\ UNCHANGED pc
       \/ client[i] = "open" /\ client' = [client EXCEPT ![i] = "stuck"] /\ pc' = "ended"
       \/ client[i] = "failed" /\ pc' = "ended" /\ UNCHANGED client
    /\ UNCHANGED <<realtime, returned, stream, loop, told, cancels, cut, fate, store>>

\* Deviation: the clients are disconnected in the order they were connected.
Disconnect_Oldest ==
    pc = "finally" /\ \E i \in Pending : (\A j \in Pending : i <= j) /\ DisconnectOne(i)

\* The last client first.
Disconnect ==
    pc = "finally" /\ \E i \in Pending : (\A j \in Pending : j <= i) /\ DisconnectOne(i)

Ends ==
    /\ Pending = {}
    /\ Goto("finally", "ended")
    /\ UNCHANGED <<realtime, mcp, stream, loop, told, cancels, cut, fate, store>>

-----------------------------------------------------------------------------
\* Another writer of the chat reads it and writes it back: a save from a client, or
\* an upsert on another instance.  (Bounds: one writer at a time, from the model's
\* answer to the end of the task.)

OtherReads ==
    /\ pc \notin {"payload", "ended"} /\ copy = None
    /\ copy' = stored
    /\ UNCHANGED <<realtime, pc, mcp, stream, loop, told, cancels, cut, fate, stored,
                   overwritten, unsaved>>

OtherWrites ==
    /\ pc # "ended" /\ copy # None
    /\ stored' = copy /\ copy' = None
    /\ overwritten' = (overwritten \/ copy # stored)
    /\ UNCHANGED <<realtime, pc, mcp, stream, loop, told, cancels, cut, fate, unsaved>>

-----------------------------------------------------------------------------
Reading == \/ TextChunk \/ ReasoningChunk \/ CloseTag \/ CallChunk \/ StreamEnds \/ CloseCode
           \/ \E kind \in {"thinking", "code"} : OpenTag(kind)

Task == \/ \E i \in 1..Servers : ConnectTo(i)
        \/ PayloadReturns \/ StreamStarts \/ WholeStarts \/ WholeTold \/ WholeSaved
        \/ Reading \/ ToolReturns \/ ToolsDone \/ CodeDone
        \/ NextStream("toolRequest", "tool") \/ NextStream("codeRequest", "code")
        \/ LeaveLoop \/ DoneTold \/ BackgroundDone
        \/ StopTold \/ Fails \/ WholeFails \/ FailureTold \/ RestDone \/ Disconnect \/ Ends

Next == \/ Task
        \/ StopHandled \/ StopAborts \/ StopSwallowed
        \/ OtherReads \/ OtherWrites

Spec == Init /\ [][Next]_vars

\* The event loop runs the task; streams are finite; tools, MCP servers and clients
\* answer or time out.
FairSpec == Spec /\ WF_vars(Task)

-----------------------------------------------------------------------------
\* Properties

Blocks == Seq([kind : Kinds, size : Nat, out : Nat])

\* Blocks, each at its place in the message; some left nothing.
IsContent(c) == /\ DOMAIN c \subseteq Nat
                /\ \A i \in DOMAIN c : c[i] \in [kind : Kinds, size : Nat, out : Nat]

\* Every variable has the type its comment gives.
TypeOK == /\ realtime \in BOOLEAN /\ pc \in Pc
          /\ client \in [1..Servers -> ClientStates]
          /\ returned \in BOOLEAN
          /\ round \in {"first", "tool", "code", "whole"}
          /\ blocks \in Blocks /\ IsContent(stored)
          /\ copy = None \/ IsContent(copy)
          /\ overwritten \in BOOLEAN /\ unsaved \in BOOLEAN /\ broken \in BOOLEAN
          /\ chunks \in 0..MaxChunks /\ calls \in 0..MaxCalls
          /\ queue \in Seq(1..MaxCalls) /\ results \in 0..MaxCalls
          /\ toolRetries \in 0..MaxToolRetries /\ codeRetries \in 0..MaxCodeRetries
          /\ told \subseteq {"done", "cancel", "error"}
          /\ cancels \in 0..MaxCancels /\ cut \subseteq {"saving", "disconnecting"}
          /\ unanswered \in 0..MaxChunks /\ late \in 0..unanswered

Texts(c) == Restrict(c, {i \in DOMAIN c : c[i].kind = "text" /\ c[i].size > 0})

\* A client that was told a streamed response is done finds all of it when it loads
\* the chat, unless the last save was swallowed or another writer has put older
\* content back.  With real-time saves the text is there, but for what followed code
\* that was empty; what tools, code and reasoning left may not be.
DoneIsStored ==
    "done" \in told /\ round # "whole" /\ ~overwritten /\ ~unsaved =>
        IF realtime THEN Texts(stored) = Texts(blocks) ELSE stored = Shown(blocks)

\* What was streamed before a request ended is kept.  It is lost only if the save was
\* swallowed, or if an exception (the first stream broke, say) or a second stop came
\* before it.
LossHasCause ==
    pc = "ended" /\ round # "whole" /\ blocks # <<>> /\ ~realtime /\ ~overwritten =>
        stored = Shown(blocks) \/ unsaved \/ "saving" \in cut

\* When the model is sent the results of tools, as messages made of the blocks, every
\* call of every round has its result, and no result is without its call.  (After code
\* it is sent one text, which has neither.)
CallsAnswered ==
    pc = "toolRequest" =>
        \A i \in DOMAIN blocks :
            blocks[i].kind # "code" =>
                blocks[i].out = IF blocks[i].kind = "tools" THEN blocks[i].size ELSE 0

\* When a response is done, every call it asked for has been executed, but for those
\* of answers to the code interpreter, those that wait when the rounds are used up,
\* and those of an answer to tools that broke.
UnansweredHasCause ==
    "done" \in told /\ round # "whole" =>
        \/ unanswered = late
        \/ toolRetries = MaxToolRetries /\ queue # <<>>
        \/ broken

\* The client learns how its response ended, unless a failure was being told when
\* it was stopped, or the answer came as a whole.
EndIsTold == pc = "ended" /\ told = {} => cancels > 0 \/ round = "whole"

\* An MCP client stays connected only if the payload never came back, if one that was
\* connected after it had failed or could not be disconnected, or if the task was
\* stopped while it disconnected them.
McpLeftHasCause ==
    \A i \in 1..Servers : pc = "ended" /\ client[i] = "open" =>
        \/ ~returned \/ "disconnecting" \in cut
        \/ \E j \in (i + 1)..Servers : client[j] \in {"failed", "stuck"}

\* Every request comes to its end: the loops are bounded.
ResponseEnds == <>(pc = "ended")
=============================================================================
