----------------------------- MODULE Conversation -----------------------------
(***************************************************************************)
(* What the bridge promises about a user's conversation (AI_making         *)
(* README.md:310-312): each question is sent with the most recent turns,   *)
(* an answer becomes part of the conversation, a reset clears it.  A user  *)
(* has one question open at a time.                                        *)
(***************************************************************************)
EXTENDS Naturals, Sequences

CONSTANTS Users, Questions,
          MaxHistoryTurns,  \* a natural number
          None

VARIABLES talk,     \* [Users -> Seq(Message)]
          open,     \* [Users -> Questions \cup {None}], the open question
          context   \* [Questions -> Seq(Message)], what was sent with it

vars == <<talk, open, context>>

Message     == [role : {"user", "assistant"}, of : Questions]
Question(q) == [role |-> "user", of |-> q]
Reply(q)    == [role |-> "assistant", of |-> q]

\* The last turns of a conversation: MaxHistoryTurns messages of each side.
Recent(talked) ==
    LET n == 2 * MaxHistoryTurns IN
    IF Len(talked) <= n THEN talked
    ELSE SubSeq(talked, Len(talked) - n + 1, Len(talked))

Init == /\ talk = [u \in Users |-> <<>>]
        /\ open = [u \in Users |-> None]
        /\ context = [q \in Questions |-> <<>>]

Ask(u, q) ==
    /\ open[u] = None /\ context[q] = <<>>
    /\ talk' = [talk EXCEPT ![u] = Append(@, Question(q))]
    /\ open' = [open EXCEPT ![u] = q]
    /\ context' = [context EXCEPT ![q] = Recent(talk'[u])]

Close(u) == /\ open[u] # None
            /\ open' = [open EXCEPT ![u] = None]
            /\ UNCHANGED context

\* The answer, which may be empty.
Answer(u) ==
    /\ Close(u)
    /\ \/ talk' = [talk EXCEPT ![u] = Recent(Append(@, Reply(open[u])))]
       \/ talk' = [talk EXCEPT ![u] = Recent(@)]

\* There is no answer; the question stays in the conversation.
Fail(u) == Close(u) /\ UNCHANGED talk

Reset(u) ==
    /\ open[u] = None
    /\ talk' = [talk EXCEPT ![u] = <<>>]
    /\ UNCHANGED <<open, context>>

Next == \E u \in Users : \/ Answer(u) \/ Fail(u) \/ Reset(u)
                         \/ \E q \in Questions : Ask(u, q)

Spec == Init /\ [][Next]_vars
=============================================================================
