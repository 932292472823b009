-------------------------- MODULE ChatResponseProofs --------------------------
(***************************************************************************)
(* Proofs about ChatResponse, for any number of MCP servers, retries,      *)
(* chunks, tool calls and stops: each safety invariant of the module.      *)
(* The inductive invariants are                                            *)
(*   McpInv      the MCP clients a request leaves connected,               *)
(*   ToldInv     where the task is and what was told,                      *)
(*   AnswersInv  the results of the blocks, by the place of the task,      *)
(*   StoreInv    the blocks, what was told and what is stored of them,     *)
(*   CountInv    the calls that wait, and the counters of the loops.       *)
(* The last two build on AnswersInv, which says what the last block is.    *)
(***************************************************************************)
EXTENDS ChatResponse, SequenceTheorems, TLAPS

-----------------------------------------------------------------------------
\* The MCP clients

McpInv == client \in [1..Servers -> ClientStates] /\ McpLeftHasCause

\* A step that leaves the clients alone and does not end the task.
Calm == UNCHANGED client /\ UNCHANGED returned /\ pc' # "ended"

LEMMA InitMcp == Init => McpInv
BY BoundsAssumption DEF Init, McpInv, McpLeftHasCause, ClientStates

LEMMA CalmStep == ASSUME McpInv, Calm PROVE McpInv'
BY DEF McpInv, Calm, McpLeftHasCause

\* Where a step that reads a stream goes, and what it does not touch.
LEMMA ReadingGoesOn ==
    ASSUME Reading
    PROVE  /\ Streaming /\ pc' \in {"stream", "flush", "tools", "code", "done"}
           /\ UNCHANGED <<realtime, mcp, round, told, cancels, cut>>
<1>1. ASSUME NEW bs, Chunk(bs), UNCHANGED pc
      PROVE  Streaming /\ pc' = "stream" /\ UNCHANGED <<realtime, mcp, round, told,
                                                        cancels, cut>>
  BY <1>1 DEF Chunk, Streaming
<1>2. CASE TextChunk \/ ReasoningChunk \/ CloseTag \/ CallChunk
  BY <1>1, <1>2 DEF TextChunk, ReasoningChunk, CloseTag, CallChunk
<1>3. ASSUME NEW kind \in {"thinking", "code"}, OpenTag(kind)
      PROVE  Streaming /\ pc' = "stream" /\ UNCHANGED <<realtime, mcp, round, told,
                                                        cancels, cut>>
  BY <1>1, <1>3 DEF OpenTag
<1>4. CASE CloseCode
  BY <1>4 DEF CloseCode, Goto, Streaming
<1>5. CASE StreamEnds
  <2>1. /\ Streaming
        /\ \/ \E q : Continue(Cleaned(blocks), q)
                     /\ UNCHANGED <<realtime, mcp, round, told, cancels, cut>>
           \/ \E q : LeaveWith(Cleaned(blocks), q)
    BY <1>5 DEF StreamEnds
  <2>2. ASSUME NEW q, Continue(Cleaned(blocks), q) PROVE pc' \in {"tools", "code", "done"}
    BY <2>2 DEF Continue, ToolLoop, CodeLoop, Finish
  <2>3. ASSUME NEW q, LeaveWith(Cleaned(blocks), q)
        PROVE  /\ pc' \in {"code", "done"}
               /\ UNCHANGED <<realtime, mcp, round, told, cancels, cut>>
    BY <2>3 DEF LeaveWith, CodeLoop, Finish
  <2>4. QED
    BY <2>1, <2>2, <2>3
<1>6. QED
  BY <1>2, <1>3, <1>4, <1>5 DEF Reading

LEMMA ReadingIsCalm == ASSUME Reading PROVE Calm
BY ReadingGoesOn DEF Calm, mcp

LEMMA StepMcp == McpInv /\ [Next]_vars => McpInv'
<1>1. SUFFICES ASSUME McpInv, [Next]_vars PROVE McpInv'
  OBVIOUS
<1> USE DEF mcp
<1>2. client \in [1..Servers -> ClientStates] /\ Servers \in Nat
  BY <1>1, BoundsAssumption DEF McpInv
<1>3. ASSUME Calm PROVE McpInv'
  BY <1>1, <1>3, CalmStep
<1>4. ASSUME NEW i \in 1..Servers, ConnectTo(i) PROVE McpInv'
  <2>1. pc' # "ended"
    BY <1>4 DEF ConnectTo
  <2>2. client' \in [1..Servers -> ClientStates]
    BY <1>2, <1>4 DEF ConnectTo, ClientStates
  <2>3. QED
    BY <1>2, <2>1, <2>2 DEF McpInv, McpLeftHasCause
<1>5. CASE PayloadReturns
  <2>1. UNCHANGED client /\ pc' = "answer"
    BY <1>5 DEF PayloadReturns, Goto
  <2>2. QED
    BY <1>2, <2>1 DEF McpInv, McpLeftHasCause
<1>6. CASE Reading
  BY <1>1, <1>3, <1>6, ReadingIsCalm
<1>7. CASE \/ StreamStarts \/ WholeStarts \/ WholeTold \/ WholeSaved
           \/ NextStream("toolRequest", "tool") \/ NextStream("codeRequest", "code")
  BY <1>2, <1>3, <1>7
     DEF StreamStarts, WholeStarts, WholeTold, WholeSaved, NextStream, Goto, Calm
<1>8. CASE ToolReturns \/ ToolsDone \/ CodeDone \/ LeaveLoop \/ DoneTold \/ BackgroundDone
  BY <1>2, <1>3, <1>8
     DEF ToolReturns, ToolsDone, CodeDone, LeaveLoop, LeaveWith, CodeLoop, Finish, DoneTold,
         BackgroundDone, Goto, Calm
<1>9. CASE \/ StopTold \/ Fails \/ WholeFails \/ FailureTold \/ RestDone
           \/ OtherReads \/ OtherWrites
  BY <1>2, <1>3, <1>9
     DEF StopTold, Fails, WholeFails, FailureTold, RestDone, OtherReads, OtherWrites, Goto, Calm
<1>10. CASE StopHandled \/ StopAborts
  BY <1>2, <1>3, <1>10 DEF StopHandled, StopAborts, Stop, Calm
\* Whoever stops the task while the clients are disconnected is a cause.
<1>11. CASE StopSwallowed
  <2>1. UNCHANGED client /\ (pc' = "finally" \/ "disconnecting" \in cut')
    BY <1>11 DEF StopSwallowed, Goto
  <2>2. QED
    BY <1>2, <2>1 DEF McpInv, McpLeftHasCause
<1>12. CASE Disconnect
  <2>1. PICK i \in Pending : (\A j \in Pending : j <= i) /\ DisconnectOne(i)
    BY <1>12 DEF Disconnect
  <2>2. i \in 1..Servers /\ returned /\ client[i] \in {"open", "failed"}
    BY <2>1 DEF Pending
  <2>3. CASE client' = [client EXCEPT ![i] = "closed"] /\ UNCHANGED pc
    <3>1. client' \in [1..Servers -> ClientStates] /\ pc' = "finally"
      BY <1>2, <1>12, <2>3 DEF ClientStates, Disconnect
    <3>2. QED
      BY <3>1 DEF McpInv, McpLeftHasCause
  <2>4. CASE \/ client' = [client EXCEPT ![i] = "stuck"]
             \/ client[i] = "failed" /\ UNCHANGED client
    <3>1. client' \in [1..Servers -> ClientStates] /\ client'[i] \in {"failed", "stuck"}
      BY <1>2, <2>2, <2>4 DEF ClientStates
    \* Those that are left were connected before the one that raised.
    <3>2. ASSUME NEW j \in 1..Servers, client'[j] = "open" PROVE i \in (j + 1)..Servers
      <4>1. j # i /\ client[j] = "open"
        BY <1>2, <2>2, <2>4, <3>1, <3>2
      <4>2. j \in Pending
        BY <2>2, <4>1 DEF Pending
      <4>3. j <= i
        BY <2>1, <4>2
      <4>4. QED
        BY <1>2, <2>2, <4>1, <4>3
    <3>3. QED
      BY <3>1, <3>2 DEF McpInv, McpLeftHasCause
  <2>5. QED
    BY <2>1, <2>3, <2>4 DEF DisconnectOne
<1>13. CASE Ends
  <2>1. Pending = {} /\ UNCHANGED <<client, returned>>
    BY <1>13 DEF Ends
  <2>2. \A j \in 1..Servers : client[j] = "open" => ~returned
    BY <2>1 DEF Pending
  <2>3. QED
    BY <1>2, <2>1, <2>2 DEF McpInv, McpLeftHasCause
<1>14. CASE UNCHANGED vars
  BY <1>1, <1>14 DEF vars, McpInv, McpLeftHasCause
<1>15. QED
  BY <1>1, <1>4, <1>5, <1>6, <1>7, <1>8, <1>9, <1>10, <1>11, <1>12, <1>13, <1>14
     DEF Next, Task

\* A request leaves an MCP client connected only for one of the causes that
\* McpLeftHasCause lists: process_chat disconnects the others, the last one first.
THEOREM ClientsDisconnected == Spec => []McpLeftHasCause
<1>1. McpInv => McpLeftHasCause
  BY DEF McpInv
<1>2. QED
  BY <1>1, InitMcp, StepMcp, PTL DEF Spec

-----------------------------------------------------------------------------
\* The end is told

\* Where nothing is told any more, it was told, or there is a cause.
ToldInv == /\ cancels \in Nat
           /\ pc \in {"wholeDone", "background", "rest", "finally", "ended"} /\ told = {} =>
                  cancels > 0 \/ round = "whole"

LEMMA StepTold == ToldInv /\ [Next]_vars => ToldInv'
<1>1. SUFFICES ASSUME ToldInv, [Next]_vars PROVE ToldInv'
  OBVIOUS
<1>2. cancels \in Nat
  BY <1>1 DEF ToldInv
<1>3. ASSUME NEW i \in 1..Servers, ConnectTo(i) PROVE ToldInv'
  BY <1>2, <1>3 DEF ConnectTo, ToldInv
<1>4. CASE PayloadReturns \/ StreamStarts
  BY <1>2, <1>4 DEF PayloadReturns, StreamStarts, Goto, ToldInv
<1>5. CASE WholeStarts
  BY <1>2, <1>5 DEF WholeStarts, Goto, ToldInv
<1>6. CASE WholeTold \/ DoneTold
  BY <1>2, <1>6 DEF WholeTold, DoneTold, Goto, Tell, ToldInv
<1>7. CASE Reading
  BY <1>2, <1>7, ReadingGoesOn DEF ToldInv
<1>8. CASE NextStream("toolRequest", "tool") \/ NextStream("codeRequest", "code")
  BY <1>2, <1>8 DEF NextStream, Goto, ToldInv
<1>9. CASE ToolReturns \/ ToolsDone \/ CodeDone \/ LeaveLoop
  BY <1>2, <1>9 DEF ToolReturns, ToolsDone, CodeDone, LeaveLoop, LeaveWith, CodeLoop, Finish,
                                  Goto, ToldInv
<1>10. CASE WholeSaved
  BY <1>1, <1>2, <1>10 DEF WholeSaved, Goto, stream, ToldInv
<1>11. CASE BackgroundDone \/ RestDone
  BY <1>1, <1>2, <1>11 DEF BackgroundDone, RestDone, Goto, stream, ToldInv
<1>12. CASE StopTold \/ FailureTold
  BY <1>2, <1>12 DEF StopTold, FailureTold, Goto, Tell, ToldInv
<1>13. CASE Fails
  BY <1>2, <1>13 DEF Fails, ToldInv
<1>14. CASE WholeFails
  BY <1>2, <1>14 DEF WholeFails, InWhole, stream, ToldInv
<1>15. CASE StopHandled \/ StopAborts \/ StopSwallowed
  BY <1>2, <1>15 DEF StopHandled, StopAborts, StopSwallowed, Stop, ToldInv
<1>16. CASE Disconnect \/ Ends
  BY <1>1, <1>2, <1>16 DEF Disconnect, DisconnectOne, Ends, Goto, stream, ToldInv
<1>17. CASE OtherReads \/ OtherWrites
  BY <1>1, <1>2, <1>17 DEF OtherReads, OtherWrites, stream, ToldInv
<1>18. CASE UNCHANGED vars
  BY <1>1, <1>18 DEF vars, stream, ToldInv
<1>19. QED
  BY <1>1, <1>3, <1>4, <1>5, <1>6, <1>7, <1>8, <1>9, <1>10, <1>11, <1>12, <1>13, <1>14,
     <1>15, <1>16, <1>17, <1>18
     DEF Next, Task

\* The client of a streamed response is told how it ended unless the task was
\* stopped: no path through the loops, their failures and the handlers of
\* process_chat ends in silence.
THEOREM EndsAreTold == Spec => []EndIsTold
<1>1. Init => ToldInv
  BY DEF Init, ToldInv
<1>2. ToldInv => EndIsTold
  BY DEF ToldInv, EndIsTold
<1>3. QED
  BY <1>1, <1>2, StepTold, PTL DEF Spec

-----------------------------------------------------------------------------
\* Every call has its result

OneBlock == [kind : Kinds, size : Nat, out : Nat]

\* A block of tool calls has a result for each, and the others have none.
HasResults(b) == b.kind # "code" => b.out = IF b.kind = "tools" THEN b.size ELSE 0

Answered(bs) == bs \in Blocks /\ bs # <<>> /\ \A i \in 1..Len(bs) : HasResults(bs[i])

\* While tools run, their block is the last one and the only one without results.
Unanswered(bs) == /\ bs \in Blocks /\ bs # <<>>
                  /\ \A i \in 1..(Len(bs) - 1) : HasResults(bs[i])
                  /\ Last(bs).kind = "tools"

AnswersInv ==
    /\ queue \in Seq(Nat) /\ calls \in Nat /\ results \in Nat
    /\ pc \in {"stream", "flush", "toolRequest", "code", "codeRequest"} => Answered(blocks)
    /\ pc \in {"stream", "flush", "toolRequest", "codeRequest"} =>
           Last(blocks).kind # "tools"
    /\ pc = "tools"  => Unanswered(blocks)
    /\ pc = "code"   => Last(blocks).kind = "code"

LEMMA LastOfBlocks ==
    ASSUME NEW bs \in Blocks, bs # <<>>
    PROVE  Len(bs) \in Nat /\ Len(bs) >= 1 /\ Last(bs) = bs[Len(bs)] /\ Last(bs) \in OneBlock
<1>1. bs \in Seq(OneBlock) /\ Len(bs) \in Nat /\ Len(bs) # 0
  BY EmptySeq, LenProperties DEF Blocks, OneBlock
<1>2. Len(bs) \in 1..Len(bs)
  BY <1>1
<1>3. bs[Len(bs)] \in OneBlock
  BY <1>1, <1>2, ElementOfSeq
<1>4. QED
  BY <1>1, <1>3 DEF Last

LEMMA PushBlock ==
    ASSUME NEW bs \in Blocks, NEW b \in OneBlock
    PROVE  /\ Append(bs, b) \in Blocks /\ Append(bs, b) # <<>>
           /\ Len(bs) \in Nat /\ Len(Append(bs, b)) = Len(bs) + 1
           /\ Last(Append(bs, b)) = b
           /\ \A i \in 1..Len(bs) : Append(bs, b)[i] = bs[i]
           /\ Append(bs, b)[Len(bs) + 1] = b
<1>1. Blocks = Seq(OneBlock)
  BY DEF Blocks, OneBlock
<1>2. /\ Append(bs, b) \in Seq(OneBlock) /\ Append(bs, b) # <<>>
      /\ Len(Append(bs, b)) = Len(bs) + 1
      /\ \A i \in 1..Len(bs) : Append(bs, b)[i] = bs[i]
      /\ Append(bs, b)[Len(bs) + 1] = b
  BY <1>1, AppendProperties
<1>3. Last(Append(bs, b)) = b
  BY <1>2 DEF Last
<1>4. QED
  BY <1>1, <1>2, <1>3, LenProperties

LEMMA FrontOfBlocks ==
    ASSUME NEW bs \in Blocks, bs # <<>>
    PROVE  /\ Front(bs) \in Blocks /\ Len(Front(bs)) = Len(bs) - 1
           /\ \A i \in 1..(Len(bs) - 1) : Front(bs)[i] = bs[i]
<1>1. Blocks = Seq(OneBlock)
  BY DEF Blocks, OneBlock
<1>2. Len(bs) \in Nat /\ Len(bs) >= 1
  BY LastOfBlocks
<1>3. \A i \in 1..(Len(bs) - 1) : bs[i] \in OneBlock
  BY <1>1, <1>2, ElementOfSeq
<1>4. Front(bs) = SubSeq(bs, 1, Len(bs) - 1)
  BY DEF Front
<1>5. /\ Front(bs) \in Seq(OneBlock)
      /\ \A i \in 1..((Len(bs) - 1) - 1 + 1) : Front(bs)[i] = bs[1 + i - 1]
  <2>1. 1 \in Int /\ Len(bs) - 1 \in Int
    BY <1>2
  <2>2. QED
    BY <1>3, <1>4, <2>1, SubSeqProperties
<1>6. Len(Front(bs)) = Len(bs) - 1
  <2>1. CASE Len(bs) = 1
    <3>1. Front(bs) = <<>>
      BY <1>4, <2>1, SubSeqEmpty
    <3>2. QED
      BY <2>1, <3>1, EmptySeq
  <2>2. CASE Len(bs) > 1
    <3>1. 1 \in Int /\ Len(bs) - 1 \in Int /\ 1 <= Len(bs) - 1
      BY <1>2, <2>2
    <3>2. Len(Front(bs)) = (Len(bs) - 1) - 1 + 1
      BY <1>3, <1>4, <3>1, SubSeqProperties
    <3>3. QED
      BY <1>2, <3>2
  <2>3. QED
    BY <1>2, <2>1, <2>2
<1>7. ASSUME NEW i \in 1..(Len(bs) - 1) PROVE Front(bs)[i] = bs[i]
  <2>1. i \in 1..((Len(bs) - 1) - 1 + 1) /\ 1 + i - 1 = i
    BY <1>2
  <2>2. QED
    BY <1>5, <2>1
<1>8. QED
  BY <1>1, <1>5, <1>6, <1>7

\* Put and Append in blocks that are answered.
LEMMA PutBlock ==
    ASSUME NEW bs \in Blocks, bs # <<>>, NEW b \in OneBlock, HasResults(b),
           \A i \in 1..(Len(bs) - 1) : HasResults(bs[i])
    PROVE  Answered(Put(bs, b)) /\ Last(Put(bs, b)) = b
<1>1. /\ Front(bs) \in Blocks /\ Len(Front(bs)) = Len(bs) - 1
      /\ \A i \in 1..(Len(bs) - 1) : Front(bs)[i] = bs[i]
  BY FrontOfBlocks
<1>2. Len(bs) \in Nat
  BY LastOfBlocks
<1>3. /\ Put(bs, b) \in Blocks /\ Put(bs, b) # <<>> /\ Last(Put(bs, b)) = b
      /\ Len(Put(bs, b)) = Len(bs)
      /\ \A i \in 1..(Len(bs) - 1) : Put(bs, b)[i] = bs[i]
      /\ Put(bs, b)[Len(bs)] = b
  BY <1>1, <1>2, PushBlock DEF Put
<1>4. \A i \in 1..Len(bs) : HasResults(Put(bs, b)[i])
  <2>1. TAKE i \in 1..Len(bs)
  <2>2. CASE i = Len(bs)
    BY <1>3, <2>2
  <2>3. CASE i # Len(bs)
    BY <1>2, <1>3, <2>3
  <2>4. QED
    BY <2>2, <2>3
<1>5. QED
  BY <1>3, <1>4 DEF Answered

LEMMA AppendBlock ==
    ASSUME NEW bs, Answered(bs), NEW b \in OneBlock, HasResults(b)
    PROVE  Answered(Append(bs, b)) /\ Last(Append(bs, b)) = b
<1>1. /\ Append(bs, b) \in Blocks /\ Append(bs, b) # <<>> /\ Last(Append(bs, b)) = b
      /\ Len(bs) \in Nat /\ Len(Append(bs, b)) = Len(bs) + 1
      /\ \A i \in 1..Len(bs) : Append(bs, b)[i] = bs[i]
      /\ Append(bs, b)[Len(bs) + 1] = b
  BY PushBlock DEF Answered
<1>2. \A i \in 1..(Len(bs) + 1) : HasResults(Append(bs, b)[i])
  <2>1. TAKE i \in 1..(Len(bs) + 1)
  <2>2. CASE i = Len(bs) + 1
    BY <1>1, <2>2
  <2>3. CASE i # Len(bs) + 1
    BY <1>1, <2>3 DEF Answered
  <2>4. QED
    BY <2>2, <2>3
<1>3. QED
  BY <1>1, <1>2 DEF Answered

LEMMA AppendCalls ==
    ASSUME NEW bs, Answered(bs), NEW n \in Nat
    PROVE  Unanswered(Append(bs, Block("tools", n)))
<1>1. Block("tools", n) \in OneBlock /\ Block("tools", n).kind = "tools"
  BY DEF Block, OneBlock, Kinds
<1>2. LET as == Append(bs, Block("tools", n))
      IN  /\ as \in Blocks /\ as # <<>> /\ Last(as) = Block("tools", n)
          /\ Len(bs) \in Nat /\ Len(as) = Len(bs) + 1
          /\ \A i \in 1..Len(bs) : as[i] = bs[i]
  BY <1>1, PushBlock DEF Answered
<1>3. \A i \in 1..Len(bs) : HasResults(Append(bs, Block("tools", n))[i])
  BY <1>2 DEF Answered
<1>4. QED
  BY <1>1, <1>2, <1>3 DEF Unanswered

LEMMA CleanedBlocks ==
    ASSUME NEW bs, Answered(bs)
    PROVE  Answered(Cleaned(bs))
<1>1. bs \in Blocks /\ bs # <<>> /\ Len(bs) \in Nat /\ Len(bs) >= 1
  BY LastOfBlocks DEF Answered
<1>2. CASE Last(bs) = Block("text", 0) /\ Len(bs) # 1
  <2>1. /\ Front(bs) \in Blocks /\ Len(Front(bs)) = Len(bs) - 1
        /\ \A i \in 1..(Len(bs) - 1) : Front(bs)[i] = bs[i]
    BY <1>1, FrontOfBlocks
  <2>2. Front(bs) # <<>>
    BY <1>1, <1>2, <2>1, EmptySeq
  <2>3. \A i \in 1..(Len(bs) - 1) : HasResults(Front(bs)[i])
    BY <1>1, <2>1 DEF Answered
  <2>4. QED
    BY <1>2, <2>1, <2>2, <2>3 DEF Cleaned, Answered
<1>3. CASE ~(Last(bs) = Block("text", 0) /\ Len(bs) # 1)
  BY <1>3 DEF Cleaned
<1>4. QED
  BY <1>2, <1>3

LEMMA Fresh ==
    ASSUME NEW kind \in Kinds \ {"tools"}, NEW size \in Nat
    PROVE  /\ Block(kind, size) \in OneBlock /\ HasResults(Block(kind, size))
           /\ Block(kind, size).kind = kind
BY DEF Block, OneBlock, HasResults

\* The loops take the blocks over as they are, or add the calls of a round.
LEMMA ContinueAnswers ==
    ASSUME NEW bs, Answered(bs), NEW q \in Seq(Nat), AnswersInv, Continue(bs, q), UNCHANGED calls
    PROVE  AnswersInv'
<1>1. calls' \in Nat /\ results \in Nat
  BY DEF AnswersInv
<1>2. CASE q # <<>> /\ toolRetries < MaxToolRetries /\ round # "code"
  <2>1. /\ pc' = "tools" /\ blocks' = Append(bs, Block("tools", Head(q)))
        /\ queue' = Tail(q) /\ results' = 0
    BY <1>2 DEF Continue, ToolLoop
  <2>2. Head(q) \in Nat /\ Tail(q) \in Seq(Nat)
    BY <1>2, HeadTailProperties
  <2>3. Unanswered(blocks')
    BY <2>1, <2>2, AppendCalls
  <2>4. QED
    BY <1>1, <2>1, <2>2, <2>3 DEF AnswersInv
<1>3. CASE ~(q # <<>> /\ toolRetries < MaxToolRetries /\ round # "code")
  <2>1. CodeLoop(bs) /\ blocks' = bs /\ queue' = q /\ UNCHANGED results
    BY <1>3 DEF Continue, ToolLoop
  <2>2. pc' = "done" \/ (pc' = "code" /\ Last(bs).kind = "code")
    BY <2>1 DEF CodeLoop, Finish
  <2>3. QED
    BY <1>1, <2>1, <2>2 DEF AnswersInv
<1>4. QED
  BY <1>2, <1>3

LEMMA LeaveAnswers ==
    ASSUME NEW bs, Answered(bs), NEW q \in Seq(Nat), AnswersInv, LeaveWith(bs, q)
    PROVE  AnswersInv'
<1>1. /\ CodeLoop(bs) \/ Finish(bs)
      /\ blocks' = bs /\ queue' = q /\ UNCHANGED <<calls, results>>
  BY DEF LeaveWith
<1>2. pc' = "done" \/ (pc' = "code" /\ Last(bs).kind = "code")
  BY <1>1 DEF CodeLoop, Finish
<1>3. QED
  BY <1>1, <1>2 DEF AnswersInv

LEMMA StreamEndsAnswers == ASSUME AnswersInv, StreamEnds PROVE AnswersInv'
<1> DEFINE q == IF calls = 0 THEN queue ELSE Append(queue, calls)
<1>1. queue \in Seq(Nat) /\ calls \in Nat
  BY DEF AnswersInv
<1>2. q \in Seq(Nat)
  BY <1>1, AppendProperties
<1>3. Answered(Cleaned(blocks))
  BY CleanedBlocks DEF StreamEnds, Streaming, AnswersInv
<1>4. \/ Continue(Cleaned(blocks), q) /\ UNCHANGED calls
      \/ LeaveWith(Cleaned(blocks), q)
  BY DEF StreamEnds
<1> HIDE DEF q
<1>5. QED
  BY <1>2, <1>3, <1>4, ContinueAnswers, LeaveAnswers

LEMMA ChunkAnswers ==
    ASSUME NEW bs, Answered(bs), Last(bs).kind # "tools", AnswersInv,
           Chunk(bs), UNCHANGED pc, calls' \in Nat
    PROVE  AnswersInv'
<1>1. pc' = "stream" /\ blocks' = bs /\ UNCHANGED <<queue, results>>
  BY DEF Chunk, loop
<1>2. QED
  BY <1>1 DEF AnswersInv

LEMMA ReadingAnswers == ASSUME AnswersInv, Reading PROVE AnswersInv'
<1>1. Streaming
  BY ReadingGoesOn
<1>2. Answered(blocks) /\ Top.kind # "tools" /\ calls \in Nat
  BY <1>1 DEF AnswersInv, Top, Streaming
<1>3. /\ blocks \in Blocks /\ blocks # <<>> /\ Len(blocks) \in Nat /\ Len(blocks) >= 1
      /\ Top = blocks[Len(blocks)] /\ Top \in OneBlock
  BY <1>2, LastOfBlocks DEF Answered, Top
<1>4. HasResults(Top) /\ \A i \in 1..(Len(blocks) - 1) : HasResults(blocks[i])
  BY <1>2, <1>3 DEF Answered
<1>5. ASSUME NEW kind \in Kinds \ {"tools"}, NEW size \in Nat
      PROVE  /\ Answered(Push(Block(kind, size))) /\ Last(Push(Block(kind, size))).kind # "tools"
             /\ Answered(Put(blocks, Block(kind, size)))
             /\ Last(Put(blocks, Block(kind, size))).kind # "tools"
  <2>1. /\ Block(kind, size) \in OneBlock /\ HasResults(Block(kind, size))
        /\ Block(kind, size).kind # "tools"
    BY Fresh
  <2>2. QED
    BY <1>2, <1>3, <1>4, <2>1, AppendBlock, PutBlock DEF Push
<1>6. Answered(Grown(blocks)) /\ Last(Grown(blocks)).kind # "tools"
  <2>1. [Top EXCEPT !.size = @ + 1] \in OneBlock
    BY <1>3 DEF OneBlock
  <2>2. [Top EXCEPT !.size = @ + 1].kind = Top.kind /\ [Top EXCEPT !.size = @ + 1].out = Top.out
    BY <1>3 DEF OneBlock
  <2>3. HasResults([Top EXCEPT !.size = @ + 1])
    BY <1>2, <1>4, <2>2 DEF HasResults
  <2>4. Grown(blocks) = Put(blocks, [Top EXCEPT !.size = @ + 1])
    BY DEF Grown, Top
  <2>5. QED
    BY <1>2, <1>3, <1>4, <2>1, <2>2, <2>3, <2>4, PutBlock
<1>7. CASE TextChunk
  <2>1. /\ Chunk(IF Top.kind = "reasoning" THEN Push(Final) ELSE Grown(blocks))
        /\ UNCHANGED <<pc, calls>>
    BY <1>7 DEF TextChunk
  <2>2. Answered(Push(Final)) /\ Last(Push(Final)).kind # "tools"
    BY <1>5 DEF Final, Kinds
  <2>3. QED
    BY <1>2, <1>6, <2>1, <2>2, ChunkAnswers
<1>8. CASE ReasoningChunk
  <2>1. /\ Chunk(IF Top.kind \in {"reasoning", "thinking"}
                 THEN Grown(blocks) ELSE Push(Block("reasoning", 1)))
        /\ UNCHANGED <<pc, calls>>
    BY <1>8 DEF ReasoningChunk
  <2>2. Answered(Push(Block("reasoning", 1))) /\ Last(Push(Block("reasoning", 1))).kind # "tools"
    BY <1>5 DEF Kinds
  <2>3. QED
    BY <1>2, <1>6, <2>1, <2>2, ChunkAnswers
<1>9. ASSUME NEW kind \in {"thinking", "code"}, OpenTag(kind) PROVE AnswersInv'
  <2>1. /\ Chunk(IF Top.size = 0 THEN Put(blocks, Block(kind, 0)) ELSE Push(Block(kind, 0)))
        /\ UNCHANGED <<pc, calls>>
    BY <1>9 DEF OpenTag
  <2>2. kind \in Kinds \ {"tools"}
    BY DEF Kinds
  <2>3. QED
    BY <1>2, <1>5, <2>1, <2>2, ChunkAnswers
<1>10. CASE CloseTag
  <2>1. /\ Chunk(IF Top.size = 0 THEN Put(blocks, Block("text", 0)) ELSE Push(Block("text", 0)))
        /\ UNCHANGED <<pc, calls>>
    BY <1>10 DEF CloseTag
  <2>2. "text" \in Kinds \ {"tools"}
    BY DEF Kinds
  <2>3. QED
    BY <1>2, <1>5, <2>1, <2>2, ChunkAnswers
<1>11. CASE CallChunk
  <2>1. Chunk(blocks) /\ UNCHANGED pc /\ calls' = calls + 1
    BY <1>11 DEF CallChunk
  <2>2. QED
    BY <1>2, <2>1, ChunkAnswers DEF Top
<1>12. CASE StreamEnds
  BY <1>12, StreamEndsAnswers
<1>13. CASE CloseCode
  <2>1. /\ pc' = "flush" /\ UNCHANGED <<queue, calls, results>>
        /\ blocks' \in {blocks, Put(blocks, Block("text", 0)), Put(blocks, Block("text", 1))}
    BY <1>13 DEF CloseCode, Goto, loop, Final
  <2>2. Answered(blocks') /\ Last(blocks').kind # "tools"
    <3>1. ASSUME NEW size \in {0, 1}
          PROVE  /\ Answered(Put(blocks, Block("text", size)))
                 /\ Last(Put(blocks, Block("text", size))).kind # "tools"
      BY <1>5 DEF Kinds
    <3>2. QED
      BY <1>2, <2>1, <3>1 DEF Top
  <2>3. QED
    BY <2>1, <2>2 DEF AnswersInv
<1>14. QED
  BY <1>7, <1>8, <1>9, <1>10, <1>11, <1>12, <1>13 DEF Reading

LEMMA StepAnswers == AnswersInv /\ [Next]_vars => AnswersInv'
<1>1. SUFFICES ASSUME AnswersInv, [Next]_vars PROVE AnswersInv'
  OBVIOUS
<1>2. queue \in Seq(Nat) /\ calls \in Nat /\ results \in Nat
  BY <1>1 DEF AnswersInv
\* The step leaves the blocks alone, and goes where nothing is said of them.
<1>3. ASSUME UNCHANGED <<queue, results>>, calls' \in Nat,
             pc' \notin {"stream", "flush", "tools", "toolRequest", "code", "codeRequest"}
      PROVE  AnswersInv'
  BY <1>2, <1>3 DEF AnswersInv
<1>4. ASSUME UNCHANGED <<pc, stream, queue, results>> PROVE AnswersInv'
  BY <1>1, <1>4 DEF AnswersInv, Answered, Unanswered, stream
<1>5. ASSUME NEW i \in 1..Servers, ConnectTo(i) PROVE AnswersInv'
  BY <1>4, <1>5 DEF ConnectTo, loop
<1>6. CASE PayloadReturns \/ WholeStarts \/ WholeTold \/ WholeSaved
  BY <1>2, <1>3, <1>6 DEF PayloadReturns, WholeStarts, WholeTold, WholeSaved, Goto, loop, stream
<1>7. CASE StreamStarts
  <2>1. PICK b \in {Block("text", 0), Block("text", 1)} : blocks' = <<b>>
    BY <1>7 DEF StreamStarts, Final
  <2>2. b \in OneBlock /\ HasResults(b) /\ b.kind = "text"
    BY <2>1, Fresh DEF Kinds
  <2>3. Answered(blocks') /\ Last(blocks') = b
    BY <2>1, <2>2 DEF Answered, Blocks, OneBlock, Last
  <2>4. pc' = "stream" /\ UNCHANGED <<queue, results, calls>>
    BY <1>7 DEF StreamStarts, Goto, loop
  <2>5. QED
    BY <1>2, <2>2, <2>3, <2>4 DEF AnswersInv
<1>8. CASE Reading
  BY <1>1, <1>8, ReadingAnswers
<1>9. CASE ToolReturns
  <2>1. UNCHANGED <<pc, queue, calls, blocks>> /\ results' = results + 1 /\ pc = "tools"
    BY <1>9 DEF ToolReturns, stream
  <2>2. QED
    BY <1>1, <1>2, <2>1 DEF AnswersInv
<1>10. CASE ToolsDone
  <2>1. /\ blocks' = Append(Put(blocks, [Top EXCEPT !.out = results]), Block("text", 0))
        /\ results = Top.size /\ pc' = "toolRequest" /\ Unanswered(blocks)
        /\ UNCHANGED <<queue, results, calls>>
    BY <1>1, <1>10 DEF ToolsDone, Goto, AnswersInv, loop
  <2>2. Top \in OneBlock /\ Top.kind = "tools"
    BY <2>1, LastOfBlocks DEF Unanswered, Top
  <2>3. [Top EXCEPT !.out = results] \in OneBlock /\ HasResults([Top EXCEPT !.out = results])
    BY <1>2, <2>1, <2>2 DEF OneBlock, HasResults
  <2>4. Answered(Put(blocks, [Top EXCEPT !.out = results]))
    BY <2>1, <2>3, PutBlock DEF Unanswered
  <2>5. Answered(blocks') /\ Last(blocks').kind # "tools"
    <3>1. "text" \in Kinds \ {"tools"}
      BY DEF Kinds
    <3>2. QED
      BY <2>1, <2>4, <3>1, Fresh, AppendBlock
  <2>6. QED
    BY <1>2, <2>1, <2>5 DEF AnswersInv
<1>11. CASE CodeDone
  <2>1. /\ blocks' = Append(Put(blocks, [Top EXCEPT !.out = 1]), Block("text", 0))
        /\ pc' = "codeRequest" /\ Answered(blocks) /\ Top.kind = "code"
        /\ UNCHANGED <<queue, results, calls>>
    BY <1>1, <1>11 DEF CodeDone, Goto, AnswersInv, loop, Top
  <2>2. /\ Top \in OneBlock /\ Len(blocks) \in Nat
        /\ \A i \in 1..(Len(blocks) - 1) : HasResults(blocks[i])
    BY <2>1, LastOfBlocks DEF Answered, Top
  <2>3. [Top EXCEPT !.out = 1] \in OneBlock /\ HasResults([Top EXCEPT !.out = 1])
    BY <2>1, <2>2 DEF OneBlock, HasResults
  <2>4. Answered(Put(blocks, [Top EXCEPT !.out = 1]))
    BY <2>1, <2>2, <2>3, PutBlock DEF Answered
  <2>5. Answered(blocks') /\ Last(blocks').kind # "tools"
    <3>1. "text" \in Kinds \ {"tools"}
      BY DEF Kinds
    <3>2. QED
      BY <2>1, <2>4, <3>1, Fresh, AppendBlock
  <2>6. QED
    BY <1>2, <2>1, <2>5 DEF AnswersInv
<1>12. CASE NextStream("toolRequest", "tool") \/ NextStream("codeRequest", "code")
  <2>1. /\ pc \in {"toolRequest", "codeRequest"} /\ pc' = "stream"
        /\ UNCHANGED <<queue, results, blocks>> /\ calls' = 0
    BY <1>12 DEF NextStream, Goto, loop
  <2>2. QED
    BY <1>1, <2>1 DEF AnswersInv
<1>13. CASE LeaveLoop
  <2>1. LeaveWith(blocks, queue) /\ (InToolLoop \/ InCodeLoop)
    BY <1>13 DEF LeaveLoop, LeaveWith
  <2>2. Answered(blocks)
    BY <1>1, <2>1 DEF AnswersInv, InToolLoop, InCodeLoop, Streaming
  <2>3. QED
    BY <1>1, <1>2, <2>1, <2>2, LeaveAnswers
<1>14. CASE DoneTold \/ BackgroundDone \/ RestDone \/ StopTold \/ FailureTold
  BY <1>2, <1>3, <1>14 DEF DoneTold, BackgroundDone, RestDone, StopTold, FailureTold, Goto,
                            loop, stream
<1>15. CASE Fails \/ WholeFails \/ StopHandled \/ StopAborts \/ StopSwallowed
  BY <1>2, <1>3, <1>15 DEF Fails, WholeFails, StopHandled, StopAborts, StopSwallowed, Goto,
                            loop, stream
<1>16. CASE Disconnect \/ Ends
  <2>1. UNCHANGED <<stream, loop>> /\ pc' \in {"finally", "ended"}
    BY <1>16 DEF Disconnect, DisconnectOne, Ends, Goto
  <2>2. QED
    BY <1>2, <1>3, <2>1 DEF loop, stream
<1>17. CASE OtherReads \/ OtherWrites
  BY <1>4, <1>17 DEF OtherReads, OtherWrites, loop
<1>18. CASE UNCHANGED vars
  BY <1>4, <1>18 DEF vars, loop
<1>19. QED
  BY <1>1, <1>5, <1>6, <1>7, <1>8, <1>9, <1>10, <1>11, <1>12, <1>13, <1>14, <1>15, <1>16,
     <1>17, <1>18
     DEF Next, Task

\* Whenever the model is sent the results of its tools, every call that was executed
\* in any round has its result in what it is sent.
THEOREM CallsAreAnswered == Spec => []CallsAnswered
<1>1. Init => AnswersInv
  BY EmptySeq DEF Init, AnswersInv
<1>2. AnswersInv => CallsAnswered
  <2>1. SUFFICES ASSUME AnswersInv, pc = "toolRequest", NEW i \in DOMAIN blocks
                 PROVE  HasResults(blocks[i])
    BY DEF CallsAnswered, HasResults
  <2>2. Answered(blocks)
    BY <2>1 DEF AnswersInv
  <2>3. DOMAIN blocks = 1..Len(blocks)
    BY <2>2, LenProperties DEF Answered, Blocks
  <2>4. QED
    BY <2>1, <2>2, <2>3 DEF Answered
<1>3. QED
  BY <1>1, <1>2, StepAnswers, PTL DEF Spec

-----------------------------------------------------------------------------
\* What is shown and stored

HasText(b) == b.kind = "text" /\ b.size > 0

LEMMA TextsAgree ==
    ASSUME NEW c, NEW d,
           \A i : (i \in DOMAIN c /\ HasText(c[i])) <=> (i \in DOMAIN d /\ HasText(d[i])),
           \A i \in DOMAIN c : HasText(c[i]) => c[i] = d[i]
    PROVE  Texts(c) = Texts(d)
<1> DEFINE S(f) == {i \in DOMAIN f : HasText(f[i])}
<1>1. Texts(c) = [i \in S(c) |-> c[i]] /\ Texts(d) = [i \in S(d) |-> d[i]]
  BY DEF Texts, Restrict, HasText
<1>2. S(c) = S(d)
  OBVIOUS
<1>3. \A i \in S(c) : c[i] = d[i]
  OBVIOUS
<1>4. QED
  BY <1>1, <1>2, <1>3

\* What is shown of a message holds its texts.
LEMMA ShownTexts == ASSUME NEW bs PROVE Texts(Shown(bs)) = Texts(bs)
<1> DEFINE S == {i \in DOMAIN bs : bs[i].kind = "text" => bs[i].size > 0}
<1>1. Shown(bs) = [i \in S |-> bs[i]]
  BY DEF Shown, Restrict
<1>2. DOMAIN Shown(bs) = S /\ \A i \in S : Shown(bs)[i] = bs[i]
  BY <1>1
<1>3. \A i : (i \in DOMAIN Shown(bs) /\ HasText(Shown(bs)[i]))
               <=> (i \in DOMAIN bs /\ HasText(bs[i]))
  BY <1>2 DEF HasText
<1>4. QED
  BY <1>2, <1>3, TextsAgree

LEMMA ShownIsContent == ASSUME NEW bs \in Blocks PROVE IsContent(Shown(bs))
<1> DEFINE S == {i \in DOMAIN bs : bs[i].kind = "text" => bs[i].size > 0}
<1>1. Shown(bs) = [i \in S |-> bs[i]]
  BY DEF Shown, Restrict
<1>2. bs \in Seq(OneBlock) /\ DOMAIN bs = 1..Len(bs) /\ Len(bs) \in Nat
  BY LenProperties DEF Blocks, OneBlock
<1>3. \A i \in DOMAIN bs : i \in Nat /\ bs[i] \in OneBlock
  BY <1>2, ElementOfSeq
<1>4. QED
  BY <1>1, <1>3 DEF IsContent, OneBlock

LEMMA PushTexts ==
    ASSUME NEW bs \in Blocks, NEW b \in OneBlock, ~HasText(b)
    PROVE  Texts(Append(bs, b)) = Texts(bs)
<1>1. /\ Append(bs, b) \in Blocks /\ Len(bs) \in Nat /\ Len(Append(bs, b)) = Len(bs) + 1
      /\ \A i \in 1..Len(bs) : Append(bs, b)[i] = bs[i]
      /\ Append(bs, b)[Len(bs) + 1] = b
  BY PushBlock
<1>2. DOMAIN Append(bs, b) = 1..(Len(bs) + 1) /\ DOMAIN bs = 1..Len(bs)
  BY <1>1, LenProperties DEF Blocks
<1>3. ASSUME NEW i
      PROVE  (i \in DOMAIN Append(bs, b) /\ HasText(Append(bs, b)[i]))
                 <=> (i \in DOMAIN bs /\ HasText(bs[i]))
  <2>1. CASE i = Len(bs) + 1
    BY <1>1, <1>2, <2>1
  <2>2. CASE i # Len(bs) + 1
    <3>1. i \in DOMAIN Append(bs, b) <=> i \in DOMAIN bs
      BY <1>1, <1>2, <2>2
    <3>2. QED
      BY <1>1, <1>2, <3>1
  <2>3. QED
    BY <2>1, <2>2
<1>4. \A i \in DOMAIN bs : bs[i] = Append(bs, b)[i]
  BY <1>1, <1>2
<1>5. Texts(bs) = Texts(Append(bs, b))
  BY <1>3, <1>4, TextsAgree
<1>6. QED
  BY <1>5

LEMMA FrontTexts ==
    ASSUME NEW bs \in Blocks, bs # <<>>, ~HasText(Last(bs))
    PROVE  Texts(Front(bs)) = Texts(bs)
<1>1. /\ Front(bs) \in Blocks /\ Len(Front(bs)) = Len(bs) - 1
      /\ \A i \in 1..(Len(bs) - 1) : Front(bs)[i] = bs[i]
  BY FrontOfBlocks
<1>2. Len(bs) \in Nat /\ Len(bs) >= 1 /\ Last(bs) = bs[Len(bs)]
  BY LastOfBlocks
<1>3. DOMAIN Front(bs) = 1..(Len(bs) - 1) /\ DOMAIN bs = 1..Len(bs)
  BY <1>1, LenProperties DEF Blocks
<1>4. ASSUME NEW i
      PROVE  (i \in DOMAIN Front(bs) /\ HasText(Front(bs)[i]))
                 <=> (i \in DOMAIN bs /\ HasText(bs[i]))
  <2>1. CASE i = Len(bs)
    <3>1. i \notin DOMAIN Front(bs)
      BY <1>2, <1>3, <2>1
    <3>2. QED
      BY <1>2, <2>1, <3>1
  <2>2. CASE i # Len(bs)
    <3>1. i \in DOMAIN Front(bs) <=> i \in DOMAIN bs
      BY <1>2, <1>3, <2>2
    <3>2. QED
      BY <1>1, <1>3, <3>1
  <2>3. QED
    BY <2>1, <2>2
<1>5. \A i \in DOMAIN Front(bs) : Front(bs)[i] = bs[i]
  BY <1>1, <1>3
<1>6. QED
  BY <1>4, <1>5, TextsAgree

LEMMA PutTexts ==
    ASSUME NEW bs \in Blocks, bs # <<>>, NEW b \in OneBlock, ~HasText(Last(bs)), ~HasText(b)
    PROVE  Texts(Put(bs, b)) = Texts(bs)
<1>1. Front(bs) \in Blocks
  BY FrontOfBlocks
<1>2. Texts(Put(bs, b)) = Texts(Front(bs))
  BY <1>1, PushTexts DEF Put
<1>3. QED
  BY <1>2, FrontTexts

LEMMA PutIsBlocks ==
    ASSUME NEW bs \in Blocks, bs # <<>>, NEW b \in OneBlock
    PROVE  Put(bs, b) \in Blocks /\ Put(bs, b) # <<>> /\ Last(Put(bs, b)) = b
<1>1. Front(bs) \in Blocks
  BY FrontOfBlocks
<1>2. QED
  BY <1>1, PushBlock DEF Put

\* A step of the loops: where it goes, that its blocks are blocks, and that what
\* is stored holds all of them, or is left alone.  In real time nothing with text
\* is left for later; otherwise the end of the loops saves.
Loop == {"stream", "flush", "tools", "toolRequest", "code", "codeRequest"}

LoopStep == /\ pc \in Loop /\ pc' \in Loop \cup {"done"}
            /\ blocks' \in Blocks /\ blocks' # <<>>
            /\ UNCHANGED <<realtime, told, cancels>>
            /\ round' \in {round, "tool", "code"}
            /\ \/ Save(Shown(blocks'))
               \/ /\ UNCHANGED store
                  /\ pc' = "done" => realtime
                  /\ realtime => Texts(blocks') = Texts(blocks)
               \/ UNCHANGED <<stored, copy, overwritten>> /\ unsaved' = TRUE

LEMMA LoopBlocks ==
    ASSUME AnswersInv, pc \in Loop
    PROVE  /\ blocks \in Blocks /\ blocks # <<>> /\ Top \in OneBlock
           /\ pc = "tools" => Top.kind = "tools"
           /\ pc = "code"  => Top.kind = "code"
<1>1. blocks \in Blocks /\ blocks # <<>>
  BY DEF AnswersInv, Loop, Answered, Unanswered
<1>2. Top \in OneBlock
  BY <1>1, LastOfBlocks DEF Top
<1>3. QED
  BY <1>1, <1>2 DEF AnswersInv, Unanswered, Top

LEMMA CodeLoopSaves ==
    ASSUME NEW bs, CodeLoop(bs) \/ Finish(bs)
    PROVE  /\ pc' \in {"code", "done"}
           /\ \/ Save(Shown(bs))
              \/ UNCHANGED store /\ (pc' = "done" => realtime)
BY DEF CodeLoop, Finish

LEMMA CleanedTexts ==
    ASSUME NEW bs \in Blocks, bs # <<>>
    PROVE  /\ Cleaned(bs) \in Blocks /\ Cleaned(bs) # <<>>
           /\ Texts(Cleaned(bs)) = Texts(bs)
<1>1. /\ Len(bs) \in Nat /\ Len(bs) >= 1 /\ Front(bs) \in Blocks
      /\ Len(Front(bs)) = Len(bs) - 1
  BY LastOfBlocks, FrontOfBlocks
<1>2. CASE Last(bs) = Block("text", 0) /\ Len(bs) # 1
  <2>1. Cleaned(bs) = Front(bs) /\ Front(bs) # <<>>
    BY <1>1, <1>2, EmptySeq DEF Cleaned
  <2>2. ~HasText(Last(bs))
    BY <1>2 DEF Block, HasText
  <2>3. QED
    BY <1>1, <2>1, <2>2, FrontTexts
<1>3. CASE ~(Last(bs) = Block("text", 0) /\ Len(bs) # 1)
  BY <1>3 DEF Cleaned
<1>4. QED
  BY <1>2, <1>3

LEMMA LeaveIsLoopStep ==
    ASSUME NEW bs \in Blocks, bs # <<>>, Texts(bs) = Texts(blocks), NEW q, LeaveWith(bs, q)
    PROVE  LoopStep
<1>1. /\ blocks' = bs /\ pc \in Loop
      /\ UNCHANGED <<realtime, round, told, cancels>>
  BY DEF LeaveWith, InToolLoop, InCodeLoop, Streaming, Loop
<1>2. CodeLoop(bs) \/ Finish(bs)
  BY DEF LeaveWith
<1>3. /\ pc' \in {"code", "done"}
      /\ \/ Save(Shown(bs))
         \/ UNCHANGED store /\ (pc' = "done" => realtime)
  BY <1>2, CodeLoopSaves
<1>4. QED
  BY <1>1, <1>3 DEF LoopStep, Loop

LEMMA StreamEndsIsLoopStep ==
    ASSUME AnswersInv, blocks \in Blocks, blocks # <<>>, StreamEnds
    PROVE  LoopStep
<1> DEFINE c == Cleaned(blocks)
           q == IF calls = 0 THEN queue ELSE Append(queue, calls)
<1>1. c \in Blocks /\ c # <<>> /\ Texts(c) = Texts(blocks)
  BY CleanedTexts
<1>2. /\ Streaming
      /\ \/ Continue(c, q) /\ UNCHANGED <<realtime, round, told, cancels>>
         \/ LeaveWith(c, q)
  BY DEF StreamEnds
<1>3. q \in Seq(Nat)
  BY AppendProperties DEF AnswersInv
<1> HIDE DEF c, q
<1>4. CASE LeaveWith(c, q)
  BY <1>1, <1>4, LeaveIsLoopStep
<1>5. CASE Continue(c, q) /\ UNCHANGED <<realtime, round, told, cancels>>
  <2>1. CASE q # <<>> /\ toolRetries < MaxToolRetries /\ round # "code"
    <3>1. pc' = "tools" /\ blocks' = Append(c, Block("tools", Head(q))) /\ UNCHANGED store
      BY <1>5, <2>1 DEF Continue, ToolLoop
    <3>2. Block("tools", Head(q)) \in OneBlock /\ ~HasText(Block("tools", Head(q)))
      BY <1>3, <2>1, HeadTailProperties DEF Block, OneBlock, Kinds, HasText
    <3>3. blocks' \in Blocks /\ blocks' # <<>> /\ Texts(blocks') = Texts(blocks)
      BY <1>1, <3>1, <3>2, PushBlock, PushTexts
    <3>4. QED
      BY <1>2, <1>5, <3>1, <3>3 DEF LoopStep, Loop, Streaming
  <2>2. CASE ~(q # <<>> /\ toolRetries < MaxToolRetries /\ round # "code")
    <3>1. CodeLoop(c) /\ blocks' = c
      BY <1>5, <2>2 DEF Continue, ToolLoop
    <3>2. /\ pc' \in {"code", "done"}
          /\ \/ Save(Shown(c))
             \/ UNCHANGED store /\ (pc' = "done" => realtime)
      BY <3>1, CodeLoopSaves
    <3>3. QED
      BY <1>1, <1>2, <1>5, <3>1, <3>2 DEF LoopStep, Loop, Streaming
  <2>3. QED
    BY <2>1, <2>2
<1>6. QED
  BY <1>2, <1>4, <1>5

LEMMA ChunkIsLoopStep ==
    ASSUME NEW bs \in Blocks, bs # <<>>, Chunk(bs), UNCHANGED pc,
           SaveChunk \/ (UNCHANGED store /\ Texts(bs) = Texts(blocks))
    PROVE  LoopStep
<1>1. /\ pc = "stream" /\ pc' = "stream" /\ blocks' = bs
      /\ UNCHANGED <<realtime, round, told, cancels>>
  BY DEF Chunk
<1>2. QED
  BY <1>1 DEF SaveChunk, LoopStep, Loop

LEMMA ReadingIsLoopStep == ASSUME AnswersInv, Reading PROVE LoopStep
<1>1. Streaming
  BY ReadingGoesOn
<1>2. blocks \in Blocks /\ blocks # <<>> /\ Top \in OneBlock
  BY <1>1, LoopBlocks DEF Loop, Streaming
<1>3. ASSUME NEW kind \in Kinds \ {"tools"}, NEW size \in Nat
      PROVE  /\ Push(Block(kind, size)) \in Blocks /\ Push(Block(kind, size)) # <<>>
             /\ Put(blocks, Block(kind, size)) \in Blocks
             /\ Put(blocks, Block(kind, size)) # <<>>
  BY <1>2, Fresh, PushBlock, PutIsBlocks DEF Push
<1>4. [Top EXCEPT !.size = @ + 1] \in OneBlock
  BY <1>2 DEF OneBlock
<1>5. /\ Grown(blocks) = Put(blocks, [Top EXCEPT !.size = @ + 1])
      /\ Grown(blocks) \in Blocks /\ Grown(blocks) # <<>>
  BY <1>2, <1>4, PutIsBlocks DEF Grown, Top
<1>6. CASE TextChunk
  <2>1. /\ Chunk(IF Top.kind = "reasoning" THEN Push(Final) ELSE Grown(blocks))
        /\ UNCHANGED pc /\ SaveChunk
    BY <1>6 DEF TextChunk
  <2>2. Push(Final) \in Blocks /\ Push(Final) # <<>>
    BY <1>3 DEF Final, Kinds
  <2>3. QED
    BY <1>5, <2>1, <2>2, ChunkIsLoopStep
<1>7. CASE ReasoningChunk
  <2>1. /\ Chunk(IF Top.kind \in {"reasoning", "thinking"}
                 THEN Grown(blocks) ELSE Push(Block("reasoning", 1)))
        /\ UNCHANGED pc /\ UNCHANGED store
    BY <1>7 DEF ReasoningChunk
  <2>2. CASE Top.kind \in {"reasoning", "thinking"}
    <3>1. ~HasText(Last(blocks)) /\ ~HasText([Top EXCEPT !.size = @ + 1])
      BY <1>2, <2>2 DEF HasText, Top, OneBlock
    <3>2. Texts(Grown(blocks)) = Texts(blocks)
      BY <1>2, <1>4, <1>5, <3>1, PutTexts
    <3>3. QED
      BY <1>5, <2>1, <2>2, <3>2, ChunkIsLoopStep
  <2>3. CASE Top.kind \notin {"reasoning", "thinking"}
    <3>1. Block("reasoning", 1) \in OneBlock /\ ~HasText(Block("reasoning", 1))
      BY DEF Block, OneBlock, Kinds, HasText
    <3>2. /\ Push(Block("reasoning", 1)) \in Blocks /\ Push(Block("reasoning", 1)) # <<>>
          /\ Texts(Push(Block("reasoning", 1))) = Texts(blocks)
      BY <1>2, <3>1, PushBlock, PushTexts DEF Push
    <3>3. QED
      BY <2>1, <2>3, <3>2, ChunkIsLoopStep
  <2>4. QED
    BY <2>2, <2>3
<1>8. ASSUME NEW kind \in {"thinking", "code"}, OpenTag(kind) PROVE LoopStep
  <2>1. /\ Chunk(IF Top.size = 0 THEN Put(blocks, Block(kind, 0)) ELSE Push(Block(kind, 0)))
        /\ UNCHANGED pc /\ SaveChunk
    BY <1>8 DEF OpenTag
  <2>2. kind \in Kinds \ {"tools"}
    BY DEF Kinds
  <2>3. QED
    BY <1>3, <2>1, <2>2, ChunkIsLoopStep
<1>9. CASE CloseTag
  <2>1. /\ Chunk(IF Top.size = 0 THEN Put(blocks, Block("text", 0)) ELSE Push(Block("text", 0)))
        /\ UNCHANGED pc /\ SaveChunk
    BY <1>9 DEF CloseTag
  <2>2. "text" \in Kinds \ {"tools"}
    BY DEF Kinds
  <2>3. QED
    BY <1>3, <2>1, <2>2, ChunkIsLoopStep
<1>10. CASE CallChunk
  BY <1>2, <1>10, ChunkIsLoopStep DEF CallChunk
<1>11. CASE StreamEnds
  BY <1>2, <1>11, StreamEndsIsLoopStep
<1>12. CASE CloseCode
  <2>1. /\ pc = "stream" /\ pc' = "flush" /\ Top.kind = "code"
        /\ UNCHANGED <<realtime, round, told, cancels, stored, copy, overwritten>>
    BY <1>12 DEF CloseCode, Goto
  <2>2. CASE UNCHANGED <<blocks, unsaved>>
    BY <1>2, <2>1, <2>2 DEF LoopStep, Loop, store
  <2>3. CASE blocks' = Put(blocks, Block("text", 0)) /\ UNCHANGED unsaved
    <3>1. blocks' \in Blocks /\ blocks' # <<>>
      BY <1>3, <2>3 DEF Kinds
    <3>2. /\ Block("text", 0) \in OneBlock /\ ~HasText(Block("text", 0))
          /\ ~HasText(Last(blocks))
      BY <2>1 DEF Block, OneBlock, Kinds, HasText, Top
    <3>3. Texts(blocks') = Texts(blocks)
      BY <1>2, <2>3, <3>2, PutTexts
    <3>4. QED
      BY <2>1, <2>3, <3>1, <3>3 DEF LoopStep, Loop, store
  <2>4. CASE blocks' = Put(blocks, Final) /\ unsaved' = TRUE
    <3>1. blocks' \in Blocks /\ blocks' # <<>>
      BY <1>3, <2>4 DEF Kinds, Final
    <3>2. QED
      BY <2>1, <2>4, <3>1 DEF LoopStep, Loop
  <2>5. QED
    BY <1>12, <2>2, <2>3, <2>4 DEF CloseCode
<1>13. QED
  BY <1>6, <1>7, <1>8, <1>9, <1>10, <1>11, <1>12 DEF Reading

\* The results of tools and code are set in the last block, and a text block is added.
LEMMA ResultsAreLoopStep ==
    ASSUME AnswersInv, ToolsDone \/ CodeDone
    PROVE  LoopStep
<1>1. PICK out \in Nat :
          blocks' = Append(Put(blocks, [Top EXCEPT !.out = out]), Block("text", 0))
  BY DEF ToolsDone, CodeDone, AnswersInv
<1>2. /\ \/ pc = "tools" /\ pc' = "toolRequest"
         \/ pc = "code" /\ pc' = "codeRequest"
      /\ UNCHANGED <<realtime, round, told, cancels, store>>
  BY DEF ToolsDone, CodeDone, Goto
<1>3. blocks \in Blocks /\ blocks # <<>> /\ Top \in OneBlock /\ Top.kind \in {"tools", "code"}
  BY <1>2, LoopBlocks DEF Loop
<1>4. /\ [Top EXCEPT !.out = out] \in OneBlock
      /\ ~HasText([Top EXCEPT !.out = out]) /\ ~HasText(Last(blocks))
  BY <1>1, <1>3 DEF OneBlock, HasText, Top
<1>5. /\ Put(blocks, [Top EXCEPT !.out = out]) \in Blocks
      /\ Texts(Put(blocks, [Top EXCEPT !.out = out])) = Texts(blocks)
  BY <1>3, <1>4, PutIsBlocks, PutTexts
<1>6. Block("text", 0) \in OneBlock /\ ~HasText(Block("text", 0))
  BY DEF Block, OneBlock, Kinds, HasText
<1>7. blocks' \in Blocks /\ blocks' # <<>> /\ Texts(blocks') = Texts(blocks)
  BY <1>1, <1>5, <1>6, PushBlock, PushTexts
<1>8. QED
  BY <1>2, <1>7 DEF LoopStep, Loop

LEMMA LoopIsLoopStep ==
    ASSUME AnswersInv,
           \/ ToolReturns \/ LeaveLoop
           \/ NextStream("toolRequest", "tool") \/ NextStream("codeRequest", "code")
    PROVE  LoopStep
<1>1. pc \in Loop
  BY DEF ToolReturns, LeaveLoop, LeaveWith, InToolLoop, InCodeLoop, Streaming, NextStream, Goto,
         Loop
<1>2. blocks \in Blocks /\ blocks # <<>>
  BY <1>1, LoopBlocks
<1>3. CASE ToolReturns
  BY <1>1, <1>2, <1>3 DEF ToolReturns, LoopStep, Loop, stream
<1>4. CASE NextStream("toolRequest", "tool") \/ NextStream("codeRequest", "code")
  BY <1>1, <1>2, <1>4 DEF NextStream, Goto, LoopStep, Loop
<1>5. CASE LeaveLoop
  BY <1>2, <1>5, LeaveIsLoopStep DEF LeaveLoop
<1>6. QED
  BY <1>3, <1>4, <1>5

-----------------------------------------------------------------------------
\* What is told is stored

ContentTypes ==
    /\ realtime \in BOOLEAN /\ cancels \in Nat
    /\ blocks \in Blocks /\ IsContent(stored)
    /\ overwritten \in BOOLEAN /\ unsaved \in BOOLEAN
    /\ copy = None \/ IsContent(copy)

\* What goes with the places of the task: a response has blocks from its first
\* chunk on, and a streamed one is told nothing before it is done.
Places ==
    /\ pc \in {"payload", "answer"} =>
           /\ blocks = <<>> /\ told = {} /\ round # "whole"
           /\ stored \in {<<>>, <<Final>>} /\ (copy = None \/ copy = stored)
    /\ pc \in Loop \cup {"done"} => told = {} /\ round # "whole" /\ blocks # <<>>
    /\ pc \in {"whole", "wholeDone"} => round = "whole"
    /\ pc = "background" /\ round # "whole" => "done" \in told
    /\ "done" \in told /\ round # "whole" => blocks # <<>>

Streamed == round # "whole" /\ blocks # <<>> /\ ~overwritten /\ ~unsaved

\* In real time the text is stored at every moment.
TextsKept == Streamed /\ realtime => Texts(stored) = Texts(blocks)

\* Otherwise everything is, from the end of the loops on; and the handlers of
\* stops and failures lose it only if they leave before it was saved.
ContentKept ==
    Streamed /\ ~realtime =>
        /\ pc \in {"done", "rest"} \/ "done" \in told => stored = Shown(blocks)
        /\ pc \in {"failing", "finally", "ended"} =>
               stored = Shown(blocks) \/ "saving" \in cut

StoreInv == ContentTypes /\ Places /\ TextsKept /\ ContentKept

LEMMA InitStore == Init => StoreInv
<1>1. SUFFICES ASSUME Init PROVE StoreInv
  OBVIOUS
<1>2. <<>> \in Blocks
  BY EmptySeq DEF Blocks
<1>3. /\ blocks = <<>> /\ told = {} /\ round = "first" /\ pc = "payload" /\ copy = None
      /\ cancels = 0 /\ overwritten = FALSE /\ unsaved = FALSE /\ realtime \in BOOLEAN
      /\ stored \in {<<>>, <<Final>>}
  BY <1>1 DEF Init
<1>4. IsContent(<<>>) /\ IsContent(<<Final>>)
  BY DEF IsContent, Final, Block, Kinds
<1>5. QED
  BY <1>2, <1>3, <1>4
     DEF StoreInv, ContentTypes, Places, TextsKept, ContentKept, Streamed, Loop

\* What a step has to show when it leaves the blocks and what is stored alone.
LEMMA SameStore ==
    ASSUME StoreInv, UNCHANGED <<realtime, stream, store>>, cancels' \in Nat,
           Places', ContentKept'
    PROVE  StoreInv'
BY DEF StoreInv, ContentTypes, TextsKept, Streamed, stream, store

LEMMA LoopKeepsStore == ASSUME StoreInv, LoopStep PROVE StoreInv'
<1>1. /\ pc \in Loop /\ pc' \in Loop \cup {"done"}
      /\ blocks' \in Blocks /\ blocks' # <<>>
      /\ UNCHANGED <<realtime, told, cancels>> /\ round' \in {round, "tool", "code"}
  BY DEF LoopStep
<1>2. told = {} /\ round # "whole" /\ blocks # <<>>
  BY <1>1 DEF StoreInv, Places
<1>3. Places'
  BY <1>1, <1>2 DEF Places, Loop
<1>4. CASE Save(Shown(blocks'))
  <2>1. CASE stored' = Shown(blocks') /\ overwritten' = FALSE /\ unsaved' = FALSE
    <3>1. UNCHANGED copy /\ IsContent(stored')
      BY <1>1, <1>4, <2>1, ShownIsContent DEF Save
    <3>2. Texts(stored') = Texts(blocks')
      BY <2>1, ShownTexts
    <3>3. QED
      BY <1>1, <1>3, <2>1, <3>1, <3>2 DEF StoreInv, ContentTypes, TextsKept, ContentKept
  <2>2. CASE unsaved' = TRUE /\ UNCHANGED <<stored, copy, overwritten>>
    BY <1>1, <1>3, <2>2 DEF StoreInv, ContentTypes, TextsKept, ContentKept, Streamed
  <2>3. QED
    BY <1>4, <2>1, <2>2 DEF Save
<1>5. CASE /\ UNCHANGED store
           /\ pc' = "done" => realtime
           /\ realtime => Texts(blocks') = Texts(blocks)
  <2>1. UNCHANGED <<stored, copy, overwritten, unsaved>>
    BY <1>5 DEF store
  <2>2. ContentTypes'
    BY <1>1, <2>1 DEF StoreInv, ContentTypes
  <2>3. TextsKept'
    BY <1>1, <1>2, <1>5, <2>1 DEF StoreInv, TextsKept, Streamed
  <2>4. ContentKept'
    BY <1>1, <1>2, <1>5 DEF ContentKept, Loop
  <2>5. QED
    BY <1>3, <2>2, <2>3, <2>4 DEF StoreInv
<1>6. CASE UNCHANGED <<stored, copy, overwritten>> /\ unsaved' = TRUE
  BY <1>1, <1>3, <1>6 DEF StoreInv, ContentTypes, TextsKept, ContentKept, Streamed
<1>7. QED
  BY <1>4, <1>5, <1>6 DEF LoopStep

LEMMA StartsKeepStore ==
    ASSUME StoreInv, PayloadReturns \/ StreamStarts \/ WholeStarts \/ WholeTold \/ WholeSaved
    PROVE  StoreInv'
<1> USE DEF stream, store
<1>1. CASE PayloadReturns
  <2>1. pc = "payload" /\ pc' = "answer" /\ UNCHANGED <<realtime, stream, store, told,
                                                        cancels>>
    BY <1>1 DEF PayloadReturns, Goto
  <2>2. QED
    BY <2>1 DEF StoreInv, ContentTypes, Places, TextsKept, ContentKept, Streamed, Loop
<1>2. CASE StreamStarts
  <2>1. /\ pc = "answer" /\ pc' = "stream" /\ told = {} /\ round # "whole"
        /\ blocks' = <<IF stored = <<>> THEN Block("text", 0) ELSE Final>>
        /\ UNCHANGED <<realtime, round, store, told, cancels>>
        /\ stored \in {<<>>, <<Final>>}
    BY <1>2 DEF StreamStarts, Goto, StoreInv, Places
  <2>2. Block("text", 0) \in OneBlock /\ Final \in OneBlock
    BY DEF Block, Final, OneBlock, Kinds
  <2>3. blocks' \in Blocks /\ blocks' # <<>>
    BY <2>1, <2>2 DEF Blocks, OneBlock
  <2>4. Texts(stored) = Texts(blocks')
    <3>1. CASE stored = <<>>
      <4>1. blocks' = <<Block("text", 0)>>
        BY <2>1, <3>1
      <4>2. \A i \in DOMAIN blocks' : ~HasText(blocks'[i])
        BY <4>1 DEF Block, HasText
      <4>3. DOMAIN stored = {}
        BY <3>1
      <4>4. QED
        BY <4>2, <4>3, TextsAgree
    <3>2. CASE stored = <<Final>>
      BY <2>1, <3>2
    <3>3. QED
      BY <2>1, <3>1, <3>2
  <2>5. QED
    BY <2>1, <2>3, <2>4
       DEF StoreInv, ContentTypes, Places, TextsKept, ContentKept, Streamed, Loop
<1>3. CASE WholeStarts
  <2>1. /\ pc = "answer" /\ round' = "whole" /\ pc' \in {"whole", "finally"}
        /\ blocks' \in {blocks, <<Final>>} /\ UNCHANGED <<realtime, store, cancels>>
    BY <1>3 DEF WholeStarts, Goto
  <2>2. <<Final>> \in Blocks
    BY DEF Block, Final, Blocks, Kinds
  <2>3. QED
    BY <2>1, <2>2 DEF StoreInv, ContentTypes, Places, TextsKept, ContentKept, Streamed, Loop
<1>4. CASE WholeTold
  <2>1. /\ pc = "whole" /\ pc' = "wholeDone" /\ round = "whole"
        /\ UNCHANGED <<realtime, stream, store, cancels>>
    BY <1>4 DEF WholeTold, Goto, StoreInv, Places
  <2>2. QED
    BY <2>1 DEF StoreInv, ContentTypes, Places, TextsKept, ContentKept, Streamed, Loop
<1>5. CASE WholeSaved
  <2>1. /\ pc = "wholeDone" /\ pc' = "background" /\ round = "whole"
        /\ UNCHANGED <<realtime, stream, cancels, copy>> /\ stored' \in {stored,
                       Shown(blocks)}
        /\ overwritten' \in {overwritten, FALSE} /\ unsaved' \in BOOLEAN
    BY <1>5 DEF WholeSaved, Goto, Save, StoreInv, Places
  <2>2. IsContent(stored')
    BY <2>1, ShownIsContent DEF StoreInv, ContentTypes
  <2>3. QED
    BY <2>1, <2>2 DEF StoreInv, ContentTypes, Places, TextsKept, ContentKept, Streamed, Loop
<1>6. QED
  BY <1>1, <1>2, <1>3, <1>4, <1>5

LEMMA EndsKeepStore ==
    ASSUME StoreInv, DoneTold \/ BackgroundDone \/ RestDone \/ StopTold
    PROVE  StoreInv'
<1> USE DEF stream, store
<1>1. CASE DoneTold
  <2>1. /\ pc = "done" /\ pc' = "background" /\ told' = told \cup {"done"}
        /\ UNCHANGED <<realtime, stream, store, cancels>>
    BY <1>1 DEF DoneTold, Goto, Tell
  <2>2. QED
    BY <2>1 DEF StoreInv, ContentTypes, Places, TextsKept, ContentKept, Streamed, Loop
<1>2. CASE BackgroundDone
  <2>1. /\ pc = "background" /\ pc' = IF round = "whole" THEN "finally" ELSE "rest"
        /\ UNCHANGED <<realtime, stream, store, told, cancels>>
    BY <1>2 DEF BackgroundDone, Goto
  <2>2. QED
    BY <2>1 DEF StoreInv, ContentTypes, Places, TextsKept, ContentKept, Streamed, Loop
<1>3. CASE RestDone
  <2>1. /\ pc = "rest" /\ pc' = "finally"
        /\ UNCHANGED <<realtime, stream, store, told, cancels>>
    BY <1>3 DEF RestDone, Goto
  <2>2. QED
    BY <2>1 DEF StoreInv, ContentTypes, Places, TextsKept, ContentKept, Streamed, Loop
<1>4. CASE StopTold
  <2>1. /\ pc = "stopping" /\ pc' = "rest" /\ told' = told \cup {"cancel"}
        /\ UNCHANGED <<realtime, stream, cancels>>
        /\ IF realtime THEN UNCHANGED store ELSE Save(Shown(blocks))
    BY <1>4 DEF StopTold, Goto, Tell
  <2>2. CASE realtime
    BY <2>1, <2>2 DEF StoreInv, ContentTypes, Places, TextsKept, ContentKept, Streamed, Loop
  <2>3. CASE ~realtime
    <3>1. CASE stored' = Shown(blocks) /\ overwritten' = FALSE /\ unsaved' = FALSE
      <4>1. IsContent(stored') /\ UNCHANGED copy
        BY <2>1, <2>3, <3>1, ShownIsContent DEF StoreInv, ContentTypes, Save
      <4>2. QED
        BY <2>1, <2>3, <3>1, <4>1
           DEF StoreInv, ContentTypes, Places, TextsKept, ContentKept, Streamed, Loop
    <3>2. CASE unsaved' = TRUE /\ UNCHANGED <<stored, copy, overwritten>>
      BY <2>1, <2>3, <3>2
         DEF StoreInv, ContentTypes, Places, TextsKept, ContentKept, Streamed, Loop
    <3>3. QED
      BY <2>1, <2>3, <3>1, <3>2 DEF Save
  <2>4. QED
    BY <2>2, <2>3
<1>5. QED
  BY <1>1, <1>2, <1>3, <1>4

\* A failure comes before the content is saved, or it finds everything stored.
LEMMA FailuresKeepStore ==
    ASSUME StoreInv, Fails \/ WholeFails \/ FailureTold \/ Disconnect \/ Ends
    PROVE  StoreInv'
<1>1. cancels \in Nat
  BY DEF StoreInv, ContentTypes
<1>2. CASE Fails
  <2>1. /\ \/ pc \in {"payload", "answer", "rest", "done"}
           \/ pc = "background" /\ round # "whole"
           \/ pc \in Loop \cup {"stopping"} /\ "saving" \in cut'
        /\ pc' = "failing" /\ UNCHANGED <<realtime, stream, store, told, cancels>>
    BY <1>2 DEF Fails, InHandler, Unsaving, Streaming, Loop
  <2>2. Places'
    BY <2>1 DEF StoreInv, Places, Loop, stream
  <2>3. ContentKept'
    BY <2>1 DEF StoreInv, Places, ContentKept, Streamed, stream, store
  <2>4. QED
    BY <1>1, <2>1, <2>2, <2>3, SameStore
<1>3. CASE WholeFails
  <2>1. /\ round = "whole" /\ pc' = "finally"
        /\ UNCHANGED <<realtime, stream, store, told, cancels>>
    BY <1>3 DEF WholeFails, InWhole
  <2>2. Places' /\ ContentKept'
    BY <2>1 DEF StoreInv, Places, ContentKept, Streamed, Loop, stream, store
  <2>3. QED
    BY <1>1, <2>1, <2>2, SameStore
<1>4. CASE FailureTold
  <2>1. /\ pc = "failing" /\ pc' = "finally" /\ told' = told \cup {"error", "cancel"}
        /\ UNCHANGED <<realtime, stream, store, cancels, cut>>
    BY <1>4 DEF FailureTold, Goto, Tell
  <2>2. Places' /\ ContentKept'
    BY <2>1 DEF StoreInv, Places, ContentKept, Streamed, Loop, stream, store
  <2>3. QED
    BY <1>1, <2>1, <2>2, SameStore
<1>5. CASE Disconnect \/ Ends
  <2>1. /\ pc = "finally" /\ pc' \in {"finally", "ended"}
        /\ UNCHANGED <<realtime, stream, store, told, cancels, cut>>
    BY <1>5 DEF Disconnect, DisconnectOne, Ends, Goto
  <2>2. Places' /\ ContentKept'
    BY <2>1 DEF StoreInv, Places, ContentKept, Streamed, Loop, stream, store
  <2>3. QED
    BY <1>1, <2>1, <2>2, SameStore
<1>6. QED
  BY <1>2, <1>3, <1>4, <1>5

LEMMA StopsKeepStore ==
    ASSUME StoreInv, StopHandled \/ StopAborts \/ StopSwallowed
    PROVE  StoreInv'
<1>1. cancels \in Nat
  BY DEF StoreInv, ContentTypes
<1>2. /\ cancels' = cancels + 1 /\ cancels' \in Nat
      /\ UNCHANGED <<realtime, stream, store>>
  BY <1>1 DEF StopHandled, StopAborts, StopSwallowed, Stop
<1>3. CASE StopHandled
  <2>1. pc' = "stopping" /\ UNCHANGED told
    BY <1>3 DEF StopHandled
  <2>2. Places' /\ ContentKept'
    BY <1>1, <1>2, <2>1 DEF StoreInv, Places, ContentKept, Streamed, Loop, stream, store
  <2>3. QED
    BY <1>2, <2>2, SameStore
<1>4. CASE StopAborts
  <2>1. /\ pc' = "finally" /\ told' = told \cup {"cancel"}
        /\ \/ round = "whole" \/ pc \in {"payload", "answer", "rest"}
           \/ pc = "stopping" /\ "saving" \in cut'
    BY <1>4 DEF StopAborts, InWhole, Tell
  <2>2. Places'
    BY <1>1, <1>2, <2>1 DEF StoreInv, Places, Loop, stream
  <2>3. ContentKept'
    BY <1>1, <1>2, <2>1 DEF StoreInv, Places, ContentKept, Streamed, Loop, stream, store
  <2>4. QED
    BY <1>2, <2>2, <2>3, SameStore
<1>5. CASE StopSwallowed
  <2>1. /\ \/ pc = "failing" /\ pc' = "finally"
           \/ pc = "finally" /\ pc' = "ended"
        /\ UNCHANGED told /\ ("saving" \in cut => "saving" \in cut')
    BY <1>5 DEF StopSwallowed, Goto
  <2>2. Places'
    BY <1>1, <1>2, <2>1 DEF StoreInv, Places, Loop, stream
  <2>3. ContentKept'
    BY <1>1, <1>2, <2>1 DEF StoreInv, Places, ContentKept, Streamed, Loop, stream, store
  <2>4. QED
    BY <1>2, <2>2, <2>3, SameStore
<1>6. QED
  BY <1>3, <1>4, <1>5

\* What another writer puts back is what is stored, or it is an older content.
LEMMA OthersKeepStore == ASSUME StoreInv, OtherReads \/ OtherWrites PROVE StoreInv'
<1>1. UNCHANGED <<realtime, pc, stream, told, cancels, cut, unsaved>>
  BY DEF OtherReads, OtherWrites
<1>2. Places /\ ContentTypes
  BY DEF StoreInv
<1>3. CASE OtherReads
  <2>1. pc # "payload" /\ copy' = stored /\ UNCHANGED <<stored, overwritten>>
    BY <1>3 DEF OtherReads
  <2>2. QED
    BY <1>1, <2>1
       DEF StoreInv, ContentTypes, Places, TextsKept, ContentKept, Streamed, stream
<1>4. CASE OtherWrites
  <2>1. /\ copy # None /\ stored' = copy /\ copy' = None
        /\ overwritten' = (overwritten \/ copy # stored)
    BY <1>4 DEF OtherWrites
  <2>2. overwritten' \in BOOLEAN /\ (~overwritten' => ~overwritten /\ copy = stored)
    <3>1. (overwritten \/ copy # stored) \in BOOLEAN
      BY <1>2 DEF ContentTypes
    <3>2. CASE overwritten \/ copy # stored
      BY <2>1, <3>2, Zenon
    <3>3. CASE ~(overwritten \/ copy # stored)
      BY <2>1, <3>3, Zenon
    <3>4. QED
      BY <3>2, <3>3
  <2>3. ContentTypes'
    BY <1>1, <1>2, <2>1, <2>2 DEF ContentTypes, stream
  <2>4. Places'
    BY <1>1, <1>2, <2>1 DEF Places, stream
  <2>5. TextsKept' /\ ContentKept'
    BY <1>1, <2>1, <2>2 DEF StoreInv, TextsKept, ContentKept, Streamed, stream
  <2>6. QED
    BY <2>3, <2>4, <2>5 DEF StoreInv
<1>5. QED
  BY <1>3, <1>4

LEMMA StepStore == AnswersInv /\ StoreInv /\ [Next]_vars => StoreInv'
<1>1. SUFFICES ASSUME AnswersInv, StoreInv, [Next]_vars PROVE StoreInv'
  OBVIOUS
<1>2. ASSUME UNCHANGED <<realtime, pc, stream, told, cancels, cut, store>> PROVE StoreInv'
  <2>1. UNCHANGED <<round, blocks, stored, copy, overwritten, unsaved>>
    BY <1>2 DEF stream, store
  <2>2. QED
    BY <1>1, <1>2, <2>1 DEF StoreInv, ContentTypes, Places, TextsKept, ContentKept, Streamed
<1>3. ASSUME NEW i \in 1..Servers, ConnectTo(i) PROVE StoreInv'
  BY <1>2, <1>3 DEF ConnectTo
<1>4. CASE PayloadReturns \/ StreamStarts \/ WholeStarts \/ WholeTold \/ WholeSaved
  BY <1>1, <1>4, StartsKeepStore
<1>5. CASE Reading \/ ToolsDone \/ CodeDone
  BY <1>1, <1>5, ReadingIsLoopStep, ResultsAreLoopStep, LoopKeepsStore
<1>6. CASE \/ ToolReturns \/ LeaveLoop
           \/ NextStream("toolRequest", "tool") \/ NextStream("codeRequest", "code")
  BY <1>1, <1>6, LoopIsLoopStep, LoopKeepsStore
<1>7. CASE DoneTold \/ BackgroundDone \/ RestDone \/ StopTold
  BY <1>1, <1>7, EndsKeepStore
<1>8. CASE Fails \/ WholeFails \/ FailureTold \/ Disconnect \/ Ends
  BY <1>1, <1>8, FailuresKeepStore
<1>9. CASE StopHandled \/ StopAborts \/ StopSwallowed
  BY <1>1, <1>9, StopsKeepStore
<1>10. CASE OtherReads \/ OtherWrites
  BY <1>1, <1>10, OthersKeepStore
<1>11. CASE UNCHANGED vars
  BY <1>2, <1>11 DEF vars
<1>12. QED
  BY <1>1, <1>3, <1>4, <1>5, <1>6, <1>7, <1>8, <1>9, <1>10, <1>11 DEF Next, Task

LEMMA InitAnswers == Init => AnswersInv
BY EmptySeq DEF Init, AnswersInv

LEMMA StoreInvariant == Spec => [](AnswersInv /\ StoreInv)
BY InitAnswers, InitStore, StepAnswers, StepStore, PTL DEF Spec

\* A client that is told that a streamed response is done finds all of it in the
\* database, or all its text with real-time saves: through any rounds of tools and code,
\* stops and failures, only a last save that was swallowed, or another writer of the chat,
\* can have undone it.
THEOREM DoneIsKept == Spec => []DoneIsStored
<1>1. StoreInv => DoneIsStored
  <2>1. SUFFICES ASSUME StoreInv, "done" \in told, round # "whole", ~overwritten, ~unsaved
                 PROVE  IF realtime THEN Texts(stored) = Texts(blocks) ELSE stored = Shown(blocks)
    BY DEF DoneIsStored
  <2>2. Streamed
    BY <2>1 DEF StoreInv, Places, Streamed
  <2>3. QED
    BY <2>1, <2>2 DEF StoreInv, TextsKept, ContentKept
<1>2. QED
  BY <1>1, StoreInvariant, PTL

\* What was streamed before a request ended is stored, unless the save was swallowed, or
\* an exception or a second stop left response_handler before it.
THEOREM LossesHaveCauses == Spec => []LossHasCause
<1>1. StoreInv => LossHasCause
  BY DEF StoreInv, ContentKept, Streamed, LossHasCause
<1>2. QED
  BY <1>1, StoreInvariant, PTL

-----------------------------------------------------------------------------
\* Calls that are not executed

Counts ==
    /\ chunks \in 0..MaxChunks /\ calls \in 0..MaxCalls
    /\ queue \in Seq(1..MaxCalls) /\ results \in 0..MaxCalls
    /\ toolRetries \in 0..MaxToolRetries /\ codeRetries \in 0..MaxCodeRetries
    /\ cancels \in 0..MaxCancels
    /\ unanswered \in 0..chunks /\ late \in 0..unanswered /\ broken \in BOOLEAN

\* The calls that were not executed have one of the causes of UnansweredHasCause.
Explained == \/ unanswered = late
             \/ toolRetries = MaxToolRetries /\ queue # <<>>
             \/ broken

\* Where the calls are that are not executed: as long as the tool loop reads the
\* streams, in the stream that is read or in the block whose tools run.
CallsInv ==
    /\ pc \in {"payload", "answer"} => calls = 0
    /\ pc \in {"payload", "answer", "toolRequest"} => unanswered = 0
    /\ pc \in {"payload", "answer", "tools", "toolRequest"} => queue = <<>> /\ late = 0
    /\ Streaming /\ round # "code" => queue = <<>> /\ late = 0 /\ unanswered = calls
    /\ pc = "tools" => /\ results <= Top.size /\ Top.size <= MaxCalls
                       /\ unanswered = Top.size - results

\* Then they have their causes, and done is told.
ExplainedInv ==
    /\ pc \in {"code", "codeRequest", "done"} \/ (Streaming /\ round = "code") => Explained
    /\ "done" \in told /\ round # "whole" => Explained
    /\ pc \in Loop \cup {"payload", "answer"} => "done" \notin told
    /\ pc \in {"whole", "wholeDone"} => round = "whole"

CountInv == Counts /\ CallsInv /\ ExplainedInv

LEMMA Bounds == /\ Servers \in Nat /\ MaxToolRetries \in Nat /\ MaxCodeRetries \in Nat
                /\ MaxChunks \in Nat /\ MaxCalls \in Nat /\ MaxCancels \in Nat
BY BoundsAssumption

LEMMA InitCount == Init => CountInv
<1>1. <<>> \in Seq(1..MaxCalls)
  BY EmptySeq
<1>2. SUFFICES ASSUME Init PROVE CountInv
  OBVIOUS
<1>3. /\ pc = "payload" /\ told = {} /\ chunks = 0 /\ calls = 0 /\ queue = <<>> /\ results = 0
      /\ toolRetries = 0 /\ codeRetries = 0
      /\ cancels = 0 /\ unanswered = 0 /\ late = 0 /\ broken = FALSE
  BY <1>2 DEF Init
<1>4. Counts
  <2>1. broken \in BOOLEAN
    BY <1>3
  <2>2. unanswered \in 0..chunks /\ late \in 0..unanswered
    BY <1>3
  <2>3. /\ chunks \in 0..MaxChunks /\ calls \in 0..MaxCalls /\ results \in 0..MaxCalls
        /\ toolRetries \in 0..MaxToolRetries /\ codeRetries \in 0..MaxCodeRetries
        /\ cancels \in 0..MaxCancels
    BY <1>3, Bounds
  <2>4. QED
    BY <1>1, <1>3, <2>1, <2>2, <2>3 DEF Counts
<1>5. CallsInv /\ ExplainedInv
  BY <1>3 DEF CallsInv, ExplainedInv, Streaming, Loop
<1>6. QED
  BY <1>4, <1>5 DEF CountInv

LEMMA CodeLoopCounts ==
    ASSUME CountInv, NEW bs, CodeLoop(bs) \/ (Finish(bs) /\ UNCHANGED codeRetries)
    PROVE  codeRetries' \in 0..MaxCodeRetries /\ pc' \in {"code", "done"}
<1>1. codeRetries \in 0..MaxCodeRetries /\ MaxCodeRetries \in Nat
  BY Bounds DEF CountInv, Counts
<1>2. \/ pc' = "done" /\ UNCHANGED codeRetries
      \/ pc' = "code" /\ codeRetries' = codeRetries + 1 /\ codeRetries < MaxCodeRetries
  BY DEF CodeLoop, Finish
<1>3. QED
  BY <1>1, <1>2

\* The tool loop is left, or the code loop goes on or is left: what is not executed
\* has a cause then.
LEMMA ToolLoopLeft ==
    ASSUME CountInv, NEW bs, CodeLoop(bs) \/ (Finish(bs) /\ UNCHANGED codeRetries),
           queue' \in Seq(1..MaxCalls), Explained', broken' \in BOOLEAN,
           UNCHANGED <<round, chunks, calls, results, toolRetries, told, cancels,
                       unanswered, late>>,
           pc \in Loop
    PROVE  CountInv'
<1>1. codeRetries' \in 0..MaxCodeRetries /\ pc' \in {"code", "done"}
  BY CodeLoopCounts
<1>2. Counts'
  BY <1>1 DEF CountInv, Counts
<1>3. CallsInv'
  BY <1>1 DEF CallsInv, Streaming
<1>4. ExplainedInv'
  BY <1>1 DEF CountInv, ExplainedInv, Streaming, Loop
<1>5. QED
  BY <1>2, <1>3, <1>4 DEF CountInv

LEMMA LeaveCounts ==
    ASSUME CountInv, NEW bs, NEW q \in Seq(1..MaxCalls), LeaveWith(bs, q),
           queue # <<>> => q # <<>>
    PROVE  CountInv'
<1>1. /\ queue' = q
      /\ UNCHANGED <<round, chunks, calls, results, toolRetries, told, cancels,
                     unanswered, late>>
  BY DEF LeaveWith
<1>2. /\ calls \in 0..MaxCalls /\ MaxCalls \in Nat /\ broken \in BOOLEAN
      /\ unanswered \in Nat /\ late \in Nat
  BY Bounds DEF CountInv, Counts
<1>3. CASE InToolLoop /\ CodeLoop(bs) /\ broken' = (broken \/ (Streaming /\ calls > 0))
  <2>1. pc \in Loop
    BY <1>3 DEF InToolLoop, Streaming, Loop
  <2>2. CASE Streaming /\ calls > 0
    <3>1. broken'
      BY <1>3, <2>2
    <3>2. broken' \in BOOLEAN
      BY <1>3
    <3>3. QED
      BY <1>1, <1>3, <2>1, <3>1, <3>2, ToolLoopLeft DEF Explained
  <2>3. CASE ~(Streaming /\ calls > 0)
    <3>1. unanswered = 0 /\ late = 0
      BY <1>2, <1>3, <2>3 DEF CountInv, CallsInv, InToolLoop
    <3>2. Explained' /\ broken' \in BOOLEAN
      BY <1>1, <1>3, <3>1 DEF Explained
    <3>3. QED
      BY <1>1, <1>3, <2>1, <3>2, ToolLoopLeft
  <2>4. QED
    BY <2>2, <2>3
<1>4. CASE InCodeLoop /\ Finish(bs) /\ UNCHANGED <<codeRetries, broken>>
  <2>1. pc \in Loop
    BY <1>4 DEF InCodeLoop, Streaming, Loop
  <2>2. Explained
    BY <1>4 DEF CountInv, ExplainedInv, InCodeLoop
  <2>3. Explained'
    BY <1>1, <1>4, <2>2 DEF Explained
  <2>4. QED
    BY <1>1, <1>2, <1>4, <2>1, <2>3, ToolLoopLeft
<1>5. QED
  BY <1>3, <1>4 DEF LeaveWith

LEMMA StreamEndsCounts ==
    ASSUME CountInv, blocks \in Blocks, blocks # <<>>, StreamEnds
    PROVE  CountInv'
<1> DEFINE c == Cleaned(blocks)
           q == IF calls = 0 THEN queue ELSE Append(queue, calls)
<1>1. c \in Blocks
  BY CleanedTexts
<1>2. /\ Streaming
      /\ \/ /\ Continue(c, q)
            /\ UNCHANGED <<round, chunks, calls, told, cancels, unanswered, late, broken>>
         \/ LeaveWith(c, q)
  BY DEF StreamEnds, fate
<1>3. /\ calls \in 0..MaxCalls /\ queue \in Seq(1..MaxCalls) /\ MaxCalls \in Nat
      /\ toolRetries \in 0..MaxToolRetries /\ MaxToolRetries \in Nat
      /\ broken \in BOOLEAN /\ pc \in Loop
  BY <1>2, Bounds DEF CountInv, Counts, Streaming, Loop
<1>4. q \in Seq(1..MaxCalls) /\ (queue # <<>> => q # <<>>) /\ (calls # 0 => q # <<>>)
  <2>1. CASE calls = 0
    BY <1>3, <2>1
  <2>2. CASE calls # 0
    <3>1. calls \in 1..MaxCalls
      BY <1>3, <2>2
    <3>2. QED
      BY <1>3, <2>2, <3>1, AppendProperties
  <2>3. QED
    BY <2>1, <2>2
<1>5. CASE LeaveWith(c, q)
  <2> HIDE DEF c, q
  <2>1. QED
    BY <1>4, <1>5, LeaveCounts
<1>6. CASE /\ Continue(c, q) /\ q # <<>> /\ toolRetries < MaxToolRetries /\ round # "code"
           /\ UNCHANGED <<round, chunks, calls, told, cancels, unanswered, late, broken>>
  <2>1. queue = <<>> /\ late = 0 /\ unanswered = calls
    BY <1>2, <1>6 DEF CountInv, CallsInv
  <2>2. q = <<calls>> /\ calls # 0
    BY <1>6, <2>1
  <2>3. Head(q) = calls /\ Tail(q) = <<>>
    BY <2>2
  <2> HIDE DEF c, q
  <2>4. /\ pc' = "tools" /\ toolRetries' = toolRetries + 1
        /\ blocks' = Append(c, Block("tools", calls)) /\ queue' = <<>> /\ results' = 0
        /\ UNCHANGED codeRetries
    BY <1>6, <2>3 DEF Continue, ToolLoop
  <2>5. Block("tools", calls) \in OneBlock /\ Block("tools", calls).size = calls
    BY <1>3 DEF Block, OneBlock, Kinds
  <2>6. Top' = Block("tools", calls)
    BY <1>1, <2>4, <2>5, PushBlock DEF Top
  <2>7. queue' \in Seq(1..MaxCalls)
    BY <2>4, EmptySeq
  <2>8. Counts'
    BY <1>3, <1>6, <2>4, <2>7 DEF CountInv, Counts
  <2>9. CallsInv'
    BY <1>3, <1>6, <2>1, <2>4, <2>5, <2>6 DEF CallsInv, Streaming
  <2>10. ExplainedInv'
    BY <1>3, <1>6, <2>4 DEF CountInv, ExplainedInv, Streaming
  <2>11. QED
    BY <2>8, <2>9, <2>10 DEF CountInv
<1>7. CASE /\ Continue(c, q) /\ ~(q # <<>> /\ toolRetries < MaxToolRetries /\ round # "code")
           /\ UNCHANGED <<round, chunks, calls, told, cancels, unanswered, late, broken>>
  <2> HIDE DEF c, q
  <2>1. CodeLoop(c) /\ queue' = q /\ UNCHANGED <<toolRetries, results>>
    BY <1>7 DEF Continue, ToolLoop
  <2>2. Explained'
    <3>1. CASE round = "code"
      <4>1. Explained
        BY <1>2, <3>1 DEF CountInv, ExplainedInv
      <4>2. QED
        BY <1>4, <1>7, <2>1, <4>1 DEF Explained
    <3>2. CASE round # "code"
      <4>1. late = 0 /\ unanswered = calls
        BY <1>2, <3>2 DEF CountInv, CallsInv
      <4>2. calls = 0 \/ toolRetries = MaxToolRetries
        BY <1>3, <1>4, <1>7, <3>2
      <4>3. QED
        BY <1>4, <1>7, <2>1, <4>1, <4>2 DEF Explained
    <3>3. QED
      BY <3>1, <3>2
  <2>3. QED
    BY <1>3, <1>4, <1>7, <2>1, <2>2, ToolLoopLeft
<1>8. QED
  BY <1>2, <1>5, <1>6, <1>7

LEMMA ReadingCounts == ASSUME AnswersInv, CountInv, Reading PROVE CountInv'
<1>1. Streaming
  BY ReadingGoesOn
<1>2. blocks \in Blocks /\ blocks # <<>>
  BY <1>1, LoopBlocks DEF Loop, Streaming
<1>3. ASSUME NEW bs, Chunk(bs), UNCHANGED <<pc, calls, unanswered, late>> PROVE CountInv'
  <2>1. /\ chunks < MaxChunks /\ chunks' = chunks + 1 /\ UNCHANGED <<round, told,
                                                                     cancels, broken>>
        /\ UNCHANGED <<queue, results, toolRetries, codeRetries>> /\ pc = "stream"
    BY <1>3 DEF Chunk, loop
  <2>2. Counts'
    BY <1>3, <2>1, Bounds DEF CountInv, Counts
  <2>3. CallsInv' /\ ExplainedInv'
    BY <1>3, <2>1 DEF CountInv, CallsInv, ExplainedInv, Explained, Streaming
  <2>4. QED
    BY <2>2, <2>3 DEF CountInv
<1>4. CASE TextChunk \/ ReasoningChunk \/ CloseTag
  BY <1>3, <1>4 DEF TextChunk, ReasoningChunk, CloseTag
<1>5. ASSUME NEW kind \in {"thinking", "code"}, OpenTag(kind) PROVE CountInv'
  BY <1>3, <1>5 DEF OpenTag
\* A call of an answer to the code interpreter is late from the start.
<1>6. CASE CallChunk
  <2>1. /\ chunks < MaxChunks /\ chunks' = chunks + 1 /\ UNCHANGED <<round, told,
                                                                     cancels, broken>>
        /\ UNCHANGED <<queue, results, toolRetries,
                       codeRetries>> /\ pc = "stream" /\ UNCHANGED pc
        /\ calls < MaxCalls /\ calls' = calls + 1 /\ unanswered' = unanswered + 1
        /\ late' = IF round = "code" THEN late + 1 ELSE late
    BY <1>6 DEF CallChunk, Chunk, loop
  <2>2. Counts'
    BY <2>1, Bounds DEF CountInv, Counts
  <2>3. CallsInv'
    BY <2>1 DEF CountInv, CallsInv, Streaming
  <2>4. round = "code" => (Explained => Explained')
    BY <2>1 DEF Explained
  <2>5. ExplainedInv'
    BY <2>1, <2>4 DEF CountInv, ExplainedInv, Streaming, Loop
  <2>6. QED
    BY <2>2, <2>3, <2>5 DEF CountInv
<1>7. CASE StreamEnds
  BY <1>2, <1>7, StreamEndsCounts
<1>8. CASE CloseCode
  <2>1. /\ pc = "stream" /\ pc' = "flush"
        /\ UNCHANGED <<round, chunks, calls, queue, results, toolRetries, codeRetries, told,
                       cancels, unanswered, late, broken>>
    BY <1>8 DEF CloseCode, Goto, loop, fate
  <2>2. QED
    BY <2>1 DEF CountInv, Counts, CallsInv, ExplainedInv, Explained, Streaming, Loop
<1>9. QED
  BY <1>4, <1>5, <1>6, <1>7, <1>8 DEF Reading

LEMMA LoopCounts ==
    ASSUME AnswersInv, CountInv,
           \/ ToolReturns \/ ToolsDone \/ CodeDone \/ LeaveLoop
           \/ NextStream("toolRequest", "tool") \/ NextStream("codeRequest", "code")
    PROVE  CountInv'
<1> USE DEF loop, stream, fate
<1>1. CASE ToolReturns
  <2>1. /\ pc = "tools" /\ results < Top.size /\ results' = results + 1
        /\ unanswered' = unanswered - 1
        /\ UNCHANGED <<pc, round, blocks, chunks, calls, queue, toolRetries, codeRetries, told,
                       cancels, late, broken>>
    BY <1>1 DEF ToolReturns
  <2>2. /\ Top.size \in Nat /\ Top.size <= MaxCalls /\ late = 0 /\ queue = <<>>
        /\ unanswered = Top.size - results
    <3>1. Top \in OneBlock
      BY <2>1, LoopBlocks DEF Loop
    <3>2. QED
      BY <2>1, <3>1 DEF CountInv, CallsInv, OneBlock
  <2>3. Counts'
    BY <2>1, <2>2, Bounds DEF CountInv, Counts
  <2>4. CallsInv'
    BY <2>1, <2>2, Bounds DEF CountInv, Counts, CallsInv, Streaming, Top
  <2>5. ExplainedInv'
    BY <2>1 DEF CountInv, ExplainedInv, Streaming, Loop
  <2>6. QED
    BY <2>3, <2>4, <2>5 DEF CountInv
<1>2. CASE ToolsDone
  <2>1. /\ pc = "tools" /\ pc' = "toolRequest" /\ results = Top.size
        /\ UNCHANGED <<round, chunks, calls, loop, told, cancels, fate>>
    BY <1>2 DEF ToolsDone, Goto
  <2>2. unanswered = 0 /\ late = 0 /\ queue = <<>>
    BY <2>1, Bounds DEF CountInv, Counts, CallsInv
  <2>3. QED
    BY <2>1, <2>2 DEF CountInv, Counts, CallsInv, ExplainedInv, Streaming, Loop
<1>3. CASE CodeDone
  <2>1. /\ pc = "code" /\ pc' = "codeRequest"
        /\ UNCHANGED <<round, chunks, calls, loop, told, cancels, fate>>
    BY <1>3 DEF CodeDone, Goto
  <2>2. QED
    BY <2>1 DEF CountInv, Counts, CallsInv, ExplainedInv, Explained, Streaming, Loop
<1>4. CASE NextStream("toolRequest", "tool") \/ NextStream("codeRequest", "code")
  <2>1. /\ \/ pc = "toolRequest" /\ round' = "tool"
           \/ pc = "codeRequest" /\ round' = "code"
        /\ pc' = "stream" /\ calls' = 0 /\ UNCHANGED <<chunks, loop, told, cancels, fate>>
    BY <1>4 DEF NextStream, Goto
  <2>2. QED
    BY <2>1, Bounds DEF CountInv, Counts, CallsInv, ExplainedInv, Explained, Streaming, Loop
<1>5. CASE LeaveLoop
  <2>1. queue \in Seq(1..MaxCalls)
    BY DEF CountInv, Counts
  <2>2. QED
    BY <1>5, <2>1, LeaveCounts DEF LeaveLoop
<1>6. QED
  BY <1>1, <1>2, <1>3, <1>4, <1>5

LEMMA StepCount == AnswersInv /\ CountInv /\ [Next]_vars => CountInv'
<1>1. SUFFICES ASSUME AnswersInv, CountInv, [Next]_vars PROVE CountInv'
  OBVIOUS
\* The step leaves the counts alone, and goes where no calls are read.
<1>2. ASSUME UNCHANGED <<chunks, calls, loop, fate>>, cancels' \in 0..MaxCancels,
             round' \in {round, "whole"}, pc' \notin Loop \cup {"payload", "answer", "done"},
             pc' \in {"whole", "wholeDone"} => round' = "whole",
             "done" \in told' => "done" \in told \/ pc = "done" \/ round' = "whole"
      PROVE  CountInv'
  <2>1. Counts' /\ CallsInv'
    BY <1>1, <1>2 DEF CountInv, Counts, CallsInv, Streaming, Loop, loop, fate
  <2>2. Explained => Explained'
    BY <1>2 DEF Explained, loop, fate
  <2>3. ExplainedInv'
    BY <1>1, <1>2, <2>2 DEF CountInv, ExplainedInv, Streaming, Loop
  <2>4. QED
    BY <2>1, <2>3 DEF CountInv
<1>3. ASSUME UNCHANGED <<pc, stream, loop, told, cancels, fate>> PROVE CountInv'
  BY <1>1, <1>3
     DEF CountInv, Counts, CallsInv, ExplainedInv, Explained, Streaming, Top, stream, loop, fate
<1>4. cancels \in 0..MaxCancels /\ MaxCancels \in Nat
  BY <1>1, Bounds DEF CountInv, Counts
<1>5. ASSUME NEW i \in 1..Servers, ConnectTo(i) PROVE CountInv'
  BY <1>3, <1>5 DEF ConnectTo
<1>6. CASE PayloadReturns \/ StreamStarts
  <2>1. /\ \/ pc = "payload" /\ pc' = "answer"
           \/ pc = "answer" /\ pc' = "stream"
        /\ UNCHANGED <<round, chunks, calls, loop, told, cancels, fate>>
    BY <1>6 DEF PayloadReturns, StreamStarts, Goto, stream
  <2>2. QED
    BY <1>1, <2>1
       DEF CountInv, Counts, CallsInv, ExplainedInv, Explained, Streaming, Loop, loop, fate
<1>7. CASE WholeStarts \/ WholeTold \/ WholeSaved
  <2>1. /\ UNCHANGED <<chunks, calls, loop, fate, cancels>>
        /\ \/ pc' \in {"whole", "finally"} /\ round' = "whole"
           \/ pc = "whole" /\ pc' = "wholeDone" /\ UNCHANGED round
           \/ pc = "wholeDone" /\ pc' = "background" /\ UNCHANGED <<round, told>>
    BY <1>7 DEF WholeStarts, WholeTold, WholeSaved, Goto, stream
  <2>2. pc \in {"whole", "wholeDone"} => round = "whole"
    BY <1>1 DEF CountInv, ExplainedInv
  <2>3. QED
    BY <1>2, <1>4, <2>1, <2>2 DEF Loop
<1>8. CASE Reading
  BY <1>1, <1>8, ReadingCounts
<1>9. CASE \/ ToolReturns \/ ToolsDone \/ CodeDone \/ LeaveLoop
           \/ NextStream("toolRequest", "tool") \/ NextStream("codeRequest", "code")
  BY <1>1, <1>9, LoopCounts
<1>10. CASE DoneTold \/ BackgroundDone \/ RestDone \/ StopTold
  <2>1. /\ UNCHANGED <<stream, loop, fate, cancels>> /\ pc' \in {"background", "finally",
                       "rest"}
        /\ \/ pc = "done"
           \/ told' = told \/ told' = told \cup {"cancel"}
    BY <1>10 DEF DoneTold, BackgroundDone, RestDone, StopTold, Goto, Tell
  <2>2. QED
    BY <1>2, <1>4, <2>1 DEF stream, Loop
<1>11. CASE Fails \/ WholeFails \/ FailureTold
  <2>1. /\ UNCHANGED <<stream, loop, fate, cancels>> /\ pc' \in {"failing", "finally"}
        /\ told' = told \/ told' = told \cup {"error", "cancel"}
    BY <1>11 DEF Fails, WholeFails, FailureTold, Goto, Tell
  <2>2. QED
    BY <1>2, <1>4, <2>1 DEF stream, Loop
<1>12. CASE Disconnect \/ Ends
  <2>1. UNCHANGED <<stream, loop, fate, told, cancels>> /\ pc' \in {"finally", "ended"}
    BY <1>12 DEF Disconnect, DisconnectOne, Ends, Goto
  <2>2. QED
    BY <1>2, <1>4, <2>1 DEF stream, Loop
<1>13. CASE StopHandled \/ StopAborts \/ StopSwallowed
  <2>1. /\ UNCHANGED <<stream, loop, fate>> /\ pc' \in {"stopping", "finally", "ended"}
        /\ told' = told \/ told' = told \cup {"cancel"}
    BY <1>13 DEF StopHandled, StopAborts, StopSwallowed, Goto, Tell
  <2>2. cancels' \in 0..MaxCancels
    BY <1>4, <1>13 DEF StopHandled, StopAborts, StopSwallowed, Stop
  <2>3. QED
    BY <1>2, <2>1, <2>2 DEF stream, Loop
<1>14. CASE OtherReads \/ OtherWrites
  BY <1>3, <1>14 DEF OtherReads, OtherWrites
<1>15. CASE UNCHANGED vars
  BY <1>3, <1>15 DEF vars
<1>16. QED
  BY <1>1, <1>5, <1>6, <1>7, <1>8, <1>9, <1>10, <1>11, <1>12, <1>13, <1>14, <1>15
     DEF Next, Task

LEMMA CountInvariant == Spec => [](AnswersInv /\ CountInv)
BY InitAnswers, InitCount, StepAnswers, StepCount, PTL DEF Spec

\* Every tool call that the answers before the code interpreter asked for has been
\* executed when the response is done, unless the rounds were used up while calls
\* waited, or an answer to tools broke.
THEOREM CallsAreExecuted == Spec => []UnansweredHasCause
<1>1. CountInv => UnansweredHasCause
  BY DEF CountInv, ExplainedInv, Explained, UnansweredHasCause
<1>2. QED
  BY <1>1, CountInvariant, PTL

-----------------------------------------------------------------------------
\* Types

PlainTypes == /\ pc \in Pc /\ returned \in BOOLEAN
              /\ round \in {"first", "tool", "code", "whole"}
              /\ told \subseteq {"done", "cancel", "error"}
              /\ cut \subseteq {"saving", "disconnecting"}

LEMMA StepPlain == AnswersInv /\ PlainTypes /\ [Next]_vars => PlainTypes'
<1>1. SUFFICES ASSUME AnswersInv, PlainTypes, [Next]_vars PROVE PlainTypes'
  OBVIOUS
<1>2. ASSUME LoopStep, UNCHANGED <<returned, cut>> PROVE PlainTypes'
  BY <1>1, <1>2 DEF LoopStep, Loop, PlainTypes, Pc
<1>3. ASSUME NEW i \in 1..Servers, ConnectTo(i) PROVE PlainTypes'
  BY <1>1, <1>3 DEF ConnectTo, PlainTypes, stream
<1>4. CASE PayloadReturns \/ StreamStarts \/ WholeStarts \/ WholeTold \/ WholeSaved
  BY <1>1, <1>4
     DEF PayloadReturns, StreamStarts, WholeStarts, WholeTold, WholeSaved, Goto, Tell,
         PlainTypes, Pc, stream, mcp
<1>5. CASE Reading
  BY <1>1, <1>2, <1>5, ReadingGoesOn, ReadingIsLoopStep DEF mcp
<1>6. CASE ToolsDone \/ CodeDone
  <2>1. UNCHANGED <<returned, cut>>
    BY <1>6 DEF ToolsDone, CodeDone, mcp
  <2>2. QED
    BY <1>1, <1>2, <1>6, <2>1, ResultsAreLoopStep
<1>7. CASE \/ ToolReturns \/ LeaveLoop
           \/ NextStream("toolRequest", "tool") \/ NextStream("codeRequest", "code")
  <2>1. UNCHANGED <<returned, cut>>
    BY <1>7 DEF ToolReturns, LeaveLoop, LeaveWith, NextStream, mcp
  <2>2. QED
    BY <1>1, <1>2, <1>7, <2>1, LoopIsLoopStep
<1>8. CASE DoneTold \/ BackgroundDone \/ RestDone \/ StopTold
  BY <1>1, <1>8
     DEF DoneTold, BackgroundDone, RestDone, StopTold, Goto, Tell, PlainTypes, Pc, stream, mcp
<1>9. CASE Fails \/ WholeFails \/ FailureTold \/ Ends
  BY <1>1, <1>9
     DEF Fails, WholeFails, FailureTold, Ends, Goto, Tell, PlainTypes, Pc, stream, mcp
<1>10. CASE Disconnect
  BY <1>1, <1>10 DEF Disconnect, DisconnectOne, PlainTypes, Pc, stream
<1>11. CASE StopHandled \/ StopAborts \/ StopSwallowed
  BY <1>1, <1>11
     DEF StopHandled, StopAborts, StopSwallowed, Goto, Tell, PlainTypes, Pc, stream, mcp
<1>12. CASE OtherReads \/ OtherWrites
  BY <1>1, <1>12 DEF OtherReads, OtherWrites, PlainTypes, stream, mcp
<1>13. CASE UNCHANGED vars
  BY <1>1, <1>13 DEF vars, PlainTypes, stream, mcp
<1>14. QED
  BY <1>1, <1>3, <1>4, <1>5, <1>6, <1>7, <1>8, <1>9, <1>10, <1>11, <1>12, <1>13
     DEF Next, Task

\* Every variable has its type; the limits on the rounds of tools and of code bound
\* the counters that are compared with them, and no result is without its call.
THEOREM TypeCorrect == Spec => []TypeOK
<1>1. Init => PlainTypes
  BY DEF Init, PlainTypes, Pc
<1>2. McpInv /\ StoreInv /\ CountInv /\ PlainTypes => TypeOK
  <2>1. SUFFICES ASSUME McpInv, StoreInv, CountInv, PlainTypes PROVE TypeOK
    OBVIOUS
  <2>2. unanswered \in 0..MaxChunks
    BY <2>1, Bounds DEF CountInv, Counts
  <2>3. QED
    BY <2>1, <2>2 DEF McpInv, StoreInv, ContentTypes, CountInv, Counts, PlainTypes, TypeOK
<1>3. QED
  BY <1>1, <1>2, InitMcp, StepMcp, StoreInvariant, CountInvariant, StepPlain, PTL DEF Spec

=============================================================================
