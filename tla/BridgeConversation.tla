-------------------------- MODULE BridgeConversation --------------------------
(***************************************************************************)
(* The conversations of AI_making/server/openwebui-bridge.js: the map from *)
(* users to message arrays, POST /api/chat/stream and POST                 *)
(* /api/session/reset.                                                     *)
(*                                                                         *)
(* The map holds references: a request keeps the array it found and pushes *)
(* to it when its stream ends, whatever the map holds by then.  Arrays are *)
(* therefore modelled as a heap, and a reference is an index into it.  The *)
(* system message, which every array starts with and no truncation drops,  *)
(* is left out.                                                            *)
(***************************************************************************)
EXTENDS Naturals, Sequences

CONSTANTS Users,
          Streams,          \* requests to /api/chat/stream, each sent once
          MaxHistoryTurns,  \* MAX_HISTORY_TURNS
          MaxResets,        \* bound on the resets of a user
          Patient,          \* the users who wait for each answer
          None

ASSUME BridgeAssumption == /\ MaxHistoryTurns \in Nat
                           /\ MaxResets \in Nat
                           /\ Patient \subseteq Users
                           /\ None \notin Users \cup Streams

VARIABLES
    heap,    \* Seq(Seq(Message)), the arrays
    store,   \* [Users -> Nat], conversationStore; 0 for no entry
    pc,      \* [Streams -> Pc]
    user,    \* [Streams -> Users \cup {None}], userId
    ref,     \* [Streams -> Nat], history
    sent,    \* [Streams -> Seq(Message)], boundedHistory
    text,    \* [Streams -> BOOLEAN], is there any assistantText?
    resets,  \* [Users -> 0..MaxResets]
    born     \* [Streams -> Nat], how many resets there had been when it was sent

vars == <<heap, store, pc, user, ref, sent, text, resets, born>>

Pc          == {"new", "waiting", "streaming", "ended", "failed"}
Message     == [role : {"user", "assistant"}, of : Streams]
Question(s) == [role |-> "user", of |-> s]
\* Deviation: the answer is pushed as a system message.
Reply_System(s) == [role |-> "system", of |-> s]
Reply(s)    == [role |-> "assistant", of |-> s]

\* Deviation: one message too many is kept.
Truncate_OneMore(array) ==
    LET n == 2 * MaxHistoryTurns + 1 IN
    IF Len(array) <= n THEN array
    ELSE SubSeq(array, Len(array) - n + 1, Len(array))

\* truncateConversation.  slice(-0) is the whole array.
Truncate(array) ==
    LET n == 2 * MaxHistoryTurns IN
    IF n = 0 \/ Len(array) <= n THEN array
    ELSE SubSeq(array, Len(array) - n + 1, Len(array))

Open(s)      == pc[s] \in {"waiting", "streaming"}
OpenOf(u)    == {s \in Streams : user[s] = u /\ Open(s)}
MayCall(u)   == u \in Patient => OpenOf(u) = {}

Init == /\ heap = <<>>
        /\ store = [u \in Users |-> 0]
        /\ pc = [s \in Streams |-> "new"]
        /\ user = [s \in Streams |-> None]
        /\ ref = [s \in Streams |-> 0]
        /\ sent = [s \in Streams |-> <<>>]
        /\ text = [s \in Streams |-> FALSE]
        /\ resets = [u \in Users |-> 0]
        /\ born = [s \in Streams |-> 0]

-----------------------------------------------------------------------------
\* getConversation and pushUserMessage, then the request to OpenWebUI with the
\* truncated history.  The map's array itself is not truncated.
Start(s, u) ==
    LET known == store[u] # 0
        r     == IF known THEN store[u] ELSE Len(heap) + 1
        array == Append(IF known THEN heap[r] ELSE <<>>, Question(s))
    IN  /\ pc[s] = "new" /\ MayCall(u)
        /\ pc' = [pc EXCEPT ![s] = "waiting"]
        /\ user' = [user EXCEPT ![s] = u]
        /\ ref' = [ref EXCEPT ![s] = r]
        /\ heap' = IF known THEN [heap EXCEPT ![r] = array] ELSE Append(heap, array)
        /\ store' = [store EXCEPT ![u] = r]
        /\ sent' = [sent EXCEPT ![s] = Truncate(array)]
        /\ born' = [born EXCEPT ![s] = resets[u]]
        /\ UNCHANGED <<text, resets>>

\* A request without a message gets an error, but a conversation.
StartEmpty(u) ==
    /\ store[u] = 0
    /\ heap' = Append(heap, <<>>)
    /\ store' = [store EXCEPT ![u] = Len(heap')]
    /\ UNCHANGED <<pc, user, ref, sent, text, resets, born>>

Respond(s) ==
    /\ pc[s] = "waiting"
    /\ pc' = [pc EXCEPT ![s] = "streaming"]
    /\ UNCHANGED <<heap, store, user, ref, sent, text, resets, born>>

\* A delta with content; one [DONE] event more or less makes no difference.
Chunk(s) ==
    /\ pc[s] = "streaming" /\ ~text[s]
    /\ text' = [text EXCEPT ![s] = TRUE]
    /\ UNCHANGED <<heap, store, pc, user, ref, sent, resets, born>>

\* Deviation: the truncated array is dropped, the map keeps the old one.
End_KeepsArray(s) ==
    /\ pc[s] = "streaming"
    /\ pc' = [pc EXCEPT ![s] = "ended"]
    /\ heap' = IF text[s] THEN [heap EXCEPT ![ref[s]] = Append(@, Reply(s))] ELSE heap
    /\ UNCHANGED <<store, user, ref, sent, text, resets, born>>

\* Deviation: when no answer came, the question is pushed again to be retried.
End_AsksAgain(s) ==
    LET array == heap[ref[s]] \o (IF text[s] THEN <<Reply(s)>> ELSE <<Question(s)>>) IN
    /\ pc[s] = "streaming"
    /\ pc' = [pc EXCEPT ![s] = "ended"]
    /\ heap' = Append([heap EXCEPT ![ref[s]] = array], Truncate(array))
    /\ store' = [store EXCEPT ![user[s]] = Len(heap')]
    /\ UNCHANGED <<user, ref, sent, text, resets, born>>

\* 'end': the answer, unless it is blank, is pushed to the request's array, and
\* a truncated copy becomes the user's conversation.
End(s) ==
    LET array == IF text[s] THEN Append(heap[ref[s]], Reply(s)) ELSE heap[ref[s]] IN
    /\ pc[s] = "streaming"
    /\ pc' = [pc EXCEPT ![s] = "ended"]
    /\ heap' = Append([heap EXCEPT ![ref[s]] = array], Truncate(array))
    /\ store' = [store EXCEPT ![user[s]] = Len(heap')]
    /\ UNCHANGED <<user, ref, sent, text, resets, born>>

\* The request fails or times out, the stream breaks, or the client goes away
\* and the response is destroyed.  Nothing is taken back.
Break(s) ==
    /\ Open(s)
    /\ pc' = [pc EXCEPT ![s] = "failed"]
    /\ UNCHANGED <<heap, store, user, ref, sent, text, resets, born>>

\* POST /api/session/reset
Reset(u) ==
    /\ MayCall(u) /\ resets[u] < MaxResets
    /\ heap' = Append(heap, <<>>)
    /\ store' = [store EXCEPT ![u] = Len(heap')]
    /\ resets' = [resets EXCEPT ![u] = @ + 1]
    /\ UNCHANGED <<pc, user, ref, sent, text, born>>

Next == \/ \E u \in Users : StartEmpty(u) \/ Reset(u)
        \/ \E s \in Streams : \/ Respond(s) \/ Chunk(s) \/ End(s) \/ Break(s)
                              \/ \E u \in Users : Start(s, u)

Spec == Init /\ [][Next]_vars

-----------------------------------------------------------------------------
\* Properties

\* Every variable has the type its comment gives, and references are valid.
TypeOK == /\ heap \in Seq(Seq(Message))
          /\ store \in [Users -> 0..Len(heap)]
          /\ pc \in [Streams -> Pc]
          /\ user \in [Streams -> Users \cup {None}]
          /\ ref \in [Streams -> 0..Len(heap)]
          /\ sent \in [Streams -> Seq(Message)]
          /\ text \in [Streams -> BOOLEAN]
          /\ resets \in [Users -> 0..MaxResets]
          /\ born \in [Streams -> 0..MaxResets]

\* What is sent ends with the request's own question, is as long as the turns
\* allow, and holds no message of another user: arrays shared between requests
\* are never shared between users.
ContextIsOwn ==
    \A s \in Streams : pc[s] # "new" =>
        /\ Len(sent[s]) > 0 /\ sent[s][Len(sent[s])] = Question(s)
        /\ MaxHistoryTurns > 0 => Len(sent[s]) <= 2 * MaxHistoryTurns
        /\ \A k \in DOMAIN sent[s] : user[sent[s][k].of] = user[s]

\* Requests on the same array never bring an answer before its question or a
\* message twice, however their streams overlap.
InOrderOnce ==
    \A r \in DOMAIN heap : \A j, k \in DOMAIN heap[r] : j < k =>
        /\ heap[r][j] # heap[r][k]
        /\ ~(heap[r][j].role = "assistant" /\ heap[r][k] = Question(heap[r][j].of))

\* After a reset nothing of what was said before is sent again: README.md:312
\* "POST /api/session/reset" clears the current conversation.
ResetForgets ==
    \A s \in Streams : \A k \in DOMAIN sent[s] : born[sent[s][k].of] = born[s]

\* To the users who wait for each answer the bridge keeps what Conversation
\* promises, whatever the others do.
Talk(u) == IF store[u] = 0 THEN <<>> ELSE heap[store[u]]
Promise == INSTANCE Conversation WITH
    Users <- Patient,
    Questions <- Streams,
    talk <- [u \in Patient |-> Talk(u)],
    open <- [u \in Patient |-> IF OpenOf(u) = {} THEN None
                               ELSE CHOOSE s \in OpenOf(u) : TRUE],
    context <- [s \in Streams |-> IF user[s] \in Patient THEN sent[s] ELSE <<>>]
PromiseKept == Promise!Spec
=============================================================================
