--------------------------- MODULE CollabDocProofs ---------------------------
(***************************************************************************)
(* Proofs about CollabDoc, for any number of sessions, edits, update       *)
(* handlers and instances, with the log in memory and in Redis.            *)
(* The inductive invariants are                                            *)
(*   TypeInv     types, and what is handled came from a session,           *)
(*   SessionInv  the life of a session, on which the others build,         *)
(*   MissInv     who has an update, or is about to get it,                 *)
(*   MemoryInv   in memory, a handler between two suspensions runs alone,  *)
(*   InsertInv   who inserted the stored content or may still do so.       *)
(***************************************************************************)
EXTENDS CollabDoc, FiniteSetTheorems, SequenceTheorems, TLAPS

-----------------------------------------------------------------------------
\* Types

Turns == {Free} \cup ({"join", "leave", "bye"} \X Sids) \cup ({"update"} \X Slots)

\* An update that is being handled came from a session, and only it did.
Handling == \A k \in Slots : slot[k].pc # "free" <=> slot[k].by \in Sids

TypeInv == TypeOK /\ turn \in Turns /\ IsFiniteSet(room) /\ Handling

LEMMA InitType == Init => TypeInv
<1> SUFFICES ASSUME Init PROVE TypeInv
  OBVIOUS
<1>1. TypeOK
  BY ModesAssumption, BoundAssumption, EmptySeq
     DEF Init, TypeOK, JoinPc, LeavePc, ByePc, EditorStates, NothingSeen, Finished, Handler,
         Message, Text, Ops
<1>2. turn \in Turns /\ IsFiniteSet(room) /\ Handling
  BY FS_EmptySet, NamesAssumption DEF Init, Turns, Handling, Finished
<1>3. QED
  BY <1>1, <1>2 DEF TypeInv

\* What a replica shows is text.
LEMMA ShownIsText ==
    ASSUME loaded \in [Sids -> SUBSET Text], NEW S
    PROVE  Shown(S) \subseteq Text
BY DEF Shown, Text

\* A message that a client sends is the last of its inbox.
LEMMA SendAppends ==
    ASSUME inbox \in [Sids -> Seq(Message)], NEW s \in Sids,
           NEW ops \in SUBSET Ops, NEW text \in SUBSET Text, Send(s, ops, text)
    PROVE  /\ inbox' \in [Sids -> Seq(Message)]
           /\ \A r \in Sids \ {s} : inbox'[r] = inbox[r]
           /\ Len(inbox'[s]) = Len(inbox[s]) + 1
           /\ \A i \in 1..Len(inbox[s]) : inbox'[s][i] = inbox[s][i]
           /\ inbox'[s][Len(inbox[s]) + 1].ops = ops
<1> DEFINE m == [ops |-> ops, text |-> text]
<1>1. m \in Message /\ m.ops = ops
  BY DEF Message
<1>2. inbox' = [inbox EXCEPT ![s] = Append(inbox[s], m)]
  BY DEF Send
<1> HIDE DEF m
<1>3. inbox[s] \in Seq(Message)
  OBVIOUS
<1>4. /\ Append(inbox[s], m) \in Seq(Message)
      /\ Len(Append(inbox[s], m)) = Len(inbox[s]) + 1
      /\ \A i \in 1..Len(inbox[s]) : Append(inbox[s], m)[i] = inbox[s][i]
      /\ Append(inbox[s], m)[Len(inbox[s]) + 1] = m
  BY <1>1, <1>3, AppendProperties
<1>5. inbox'[s] = Append(inbox[s], m) /\ \A r \in Sids \ {s} : inbox'[r] = inbox[r]
  BY <1>2
<1>6. inbox' \in [Sids -> Seq(Message)]
  BY <1>2, <1>4
<1>7. QED
  BY <1>1, <1>4, <1>5, <1>6

LEMMA ClientTypes ==
    ASSUME TypeInv, NEW s \in Sids,
           \/ OpenNote(s) \/ CloseNote(s) \/ Reopen(s)
           \/ \E r \in Sids : Reconnect(s, r)
           \/ \E e \in Edits : Edit(s, e)
    PROVE  TypeInv'
<1>1. TypeOK /\ UNCHANGED turn /\ UNCHANGED room /\ Handling'
  BY DEF TypeInv, OpenNote, CloseNote, Reopen, Reconnect, Edit, Handling
<1>2. CASE OpenNote(s)
  BY <1>1, <1>2 DEF OpenNote, TypeInv, TypeOK, hist, net, doc, client, db, JoinPc, EditorStates
<1>3. CASE CloseNote(s)
  BY <1>1, <1>3, BoundAssumption
     DEF CloseNote, Move, TypeInv, TypeOK, hist, net, doc, client, db, LeavePc, EditorStates
<1>4. ASSUME NEW r \in Sids, Reconnect(s, r) PROVE TypeInv'
  BY <1>1, <1>4 DEF Reconnect, TypeInv, TypeOK, hist, net, doc, client, db, JoinPc, EditorStates
<1>5. ASSUME NEW e \in Edits, Edit(s, e) PROVE TypeInv'
  <2>1. /\ author' = [author EXCEPT ![e] = s] /\ view' = [view EXCEPT ![s] = @ \cup {e}]
        /\ UNCHANGED <<net, doc, room, join, seen, leave, bye, slot, editor, loaded, db, turn,
                       hist, moves>>
        /\ UNCHANGED inbox \/ Send(s, {e}, Shown(view'[s]))
    BY <1>5 DEF Edit
  <2>2. inbox' \in [Sids -> Seq(Message)]
    BY <1>1, <2>1, SendAppends, ShownIsText DEF TypeOK, Ops
  <2>3. QED
    BY <1>1, <2>1, <2>2 DEF TypeInv, TypeOK, hist, net, doc, db, Ops
<1>6. CASE Reopen(s)
  <2>1. former' \in [Sids -> SUBSET Ops]
    <3>1. UNION {slot[k].msg.ops : k \in {k \in Slots : slot[k].by = s}} \in SUBSET Ops
      BY <1>1 DEF TypeOK, Handler, Message
    <3>2. QED
      BY <1>1, <1>6, <3>1 DEF Reopen, TypeOK
  <2>2. QED
    BY <1>1, <1>6, <2>1, BoundAssumption
       DEF Reopen, Move, TypeInv, TypeOK, net, doc, db, JoinPc, EditorStates
<1>7. QED
  BY <1>2, <1>3, <1>4, <1>5, <1>6

\* A command leaves the event loop with the handler or with nobody.
LEMMA HandlersMayHoldTheLoop ==
    ASSUME NEW s \in Sids, NEW k \in Slots
    PROVE  /\ <<"join", s>> \in Turns /\ <<"leave", s>> \in Turns /\ <<"bye", s>> \in Turns
           /\ <<"update", k>> \in Turns /\ Free \in Turns
BY DEF Turns

LEMMA JoinTypes ==
    ASSUME TypeInv, NEW s \in Sids,
           JoinAdd(s) \/ JoinEnter(s) \/ JoinRead(s) \/ JoinEmit(s)
    PROVE  TypeInv'
<1>1. TypeOK /\ <<"join", s>> \in Turns /\ Free \in Turns /\ IsFiniteSet(room)
      /\ UNCHANGED slot /\ Handling'
  BY DEF TypeInv, Turns, Handling, JoinAdd, JoinEnter, JoinRead, JoinEmit
<1>2. CASE JoinAdd(s)
  BY <1>1, <1>2 DEF JoinAdd, TypeInv, TypeOK, hist, net, client, db, JoinPc, Command
<1>3. CASE JoinEnter(s)
  <2>1. IsFiniteSet(room')
    <3>1. IsFiniteSet(room \cup {s})
      BY <1>1, FS_AddElement
    <3>2. QED
      BY <1>1, <1>3, <3>1 DEF JoinEnter
  <2> DEFINE alone == Cardinality({r \in room' : inst[r] = inst[s]}) = 1
  <2>2. alone \in BOOLEAN /\ seen' = [seen EXCEPT ![s].alone = alone]
    BY <1>3 DEF JoinEnter
  <2> HIDE DEF alone
  <2>3. seen' \in [Sids -> [log : SUBSET Ops, alone : BOOLEAN]]
    BY <1>1, <2>2 DEF TypeOK
  <2>4. room' \subseteq Sids
    BY <1>1, <1>3 DEF JoinEnter, TypeOK
  <2>5. QED
    BY <1>1, <1>3, <2>1, <2>3, <2>4
       DEF JoinEnter, TypeInv, TypeOK, hist, net, doc, client, db, JoinPc, Command
<1>4. CASE JoinRead(s)
  BY <1>1, <1>4 DEF JoinRead, TypeInv, TypeOK, hist, net, doc, client, db, JoinPc, Command
<1>5. CASE JoinEmit(s)
  <2>1. /\ join' = [join EXCEPT ![s] = "idle"] /\ seen' = [seen EXCEPT ![s] = NothingSeen]
        /\ turn' = Free
        /\ UNCHANGED <<net, doc, room, leave, bye, slot, loaded, author, db, hist, moves>>
        /\ \/ UNCHANGED <<editor, view, inbox>>
           \/ editor' = [editor EXCEPT ![s] = "synced"]
    BY <1>5 DEF JoinEmit, Await
  <2>2. \/ UNCHANGED <<view, inbox>>
        \/ view' = [view EXCEPT ![s] = {s}] /\ Send(s, {s}, loaded[s])
        \/ view' = [view EXCEPT ![s] = @ \cup seen[s].log] /\ UNCHANGED inbox
        \/ Send(s, view[s], {}) /\ UNCHANGED view
    BY <1>5 DEF JoinEmit
  <2> DEFINE read == seen[s].log
  <2>a. read \in SUBSET Ops /\ view[s] \in SUBSET Ops /\ {s} \in SUBSET Ops
        /\ loaded[s] \in SUBSET Text /\ {} \in SUBSET Text
        /\ view \in [Sids -> SUBSET Ops] /\ inbox \in [Sids -> Seq(Message)]
    BY <1>1 DEF TypeOK, Ops
  <2> HIDE DEF read
  <2>3. view' \in [Sids -> SUBSET Ops]
    <3>1. \/ UNCHANGED view
          \/ view' = [view EXCEPT ![s] = {s}]
          \/ view' = [view EXCEPT ![s] = view[s] \cup read]
      BY <2>2 DEF read
    <3>2. QED
      BY <2>a, <3>1
  <2>4. inbox' \in [Sids -> Seq(Message)]
    <3>1. UNCHANGED inbox \/ Send(s, {s}, loaded[s]) \/ Send(s, view[s], {})
      BY <2>2
    <3>2. QED
      BY <2>a, <3>1, SendAppends
  <2>5. editor' \in [Sids -> EditorStates] /\ join' \in [Sids -> JoinPc]
    BY <1>1, <2>1 DEF TypeOK, EditorStates, JoinPc
  <2>6. seen' \in [Sids -> [log : SUBSET Ops, alone : BOOLEAN]]
    BY <1>1, <2>1 DEF TypeOK, NothingSeen
  <2>7. QED
    BY <1>1, <2>1, <2>3, <2>4, <2>5, <2>6 DEF TypeInv, TypeOK, hist, net, doc, db
<1>6. QED
  BY <1>2, <1>3, <1>4, <1>5

LEMMA LeaveTypes ==
    ASSUME TypeInv, NEW s \in Sids,
           \/ LeaveRemove(s) \/ LeaveRoom(s) \/ LeaveExists(s) \/ LeaveCount(s)
           \/ LeaveClear(s) \/ LeaveClearUsers(s)
    PROVE  TypeInv'
<1>1. TypeOK /\ <<"leave", s>> \in Turns /\ Free \in Turns /\ IsFiniteSet(room)
      /\ UNCHANGED slot /\ Handling'
  BY DEF TypeInv, Turns, Handling, LeaveRemove, LeaveRoom, LeaveExists, LeaveCount, LeaveClear,
         LeaveClearUsers, LeaveStep
<1>2. PICK from \in LeavePc, to \in LeavePc : LeaveStep(s, from, to)
  BY DEF LeaveRemove, LeaveRoom, LeaveExists, LeaveCount, LeaveClear, LeaveClearUsers, LeavePc
<1>3. leave' \in [Sids -> LeavePc]
  BY <1>1, <1>2 DEF LeaveStep, TypeOK
<1>4. /\ users' = users \/ users' = users \ {s} \/ users' = {}
      /\ updates' = updates \/ updates' = {}
      /\ room' = room \/ room' = room \ {s}
      /\ turn' = Free \/ turn' = <<"leave", s>>
      /\ expelled' = expelled \/ expelled' = expelled \cup {s}
  BY DEF LeaveRemove, LeaveRoom, LeaveExists, LeaveCount, LeaveClear, LeaveClearUsers,
         Await, Command, doc
<1>5. IsFiniteSet(room')
  BY <1>1, <1>4, FS_RemoveElement
<1>6. QED
  BY <1>1, <1>2, <1>3, <1>4, <1>5 DEF LeaveStep, TypeInv, TypeOK, net, client, db

LEMMA ByeTypes ==
    ASSUME TypeInv, NEW s \in Sids,
           \/ Disconnect(s) \/ ByeScan(s) \/ ByeRemove(s) \/ ByeCount(s) \/ ByeClear(s)
           \/ ByeClearUsers(s) \/ ByeRoom(s)
    PROVE  TypeInv'
<1>1. TypeOK /\ <<"bye", s>> \in Turns /\ Free \in Turns /\ IsFiniteSet(room)
      /\ UNCHANGED slot /\ Handling'
  BY DEF TypeInv, Turns, Handling, Disconnect, ByeScan, ByeRemove, ByeCount, ByeClear,
         ByeClearUsers, ByeRoom, ByeStep
<1>2. PICK from \in ByePc, to \in ByePc : ByeStep(s, from, to)
  BY DEF Disconnect, ByeScan, ByeRemove, ByeCount, ByeClear, ByeClearUsers, ByeRoom, ByePc
<1>3. bye' \in [Sids -> ByePc]
  BY <1>1, <1>2 DEF ByeStep, TypeOK
<1>4. /\ users' = users \/ users' = users \ {s} \/ users' = {}
      /\ updates' = updates \/ updates' = {}
      /\ room' = room \/ room' = room \ {s}
      /\ turn' = Free \/ turn' = <<"bye", s>>
      /\ session' \subseteq session
  BY DEF Disconnect, ByeScan, ByeRemove, ByeCount, ByeClear, ByeClearUsers, ByeRoom, Await,
         Command, doc
<1>5. /\ \/ UNCHANGED socket
         \/ socket' = [socket EXCEPT ![s] = "closing"]
         \/ socket' = [socket EXCEPT ![s] = "gone"]
      /\ \/ UNCHANGED editor
         \/ editor' = [editor EXCEPT ![s] = IF Open(s) THEN "offline" ELSE @]
      /\ \/ UNCHANGED inbox
         \/ inbox' = [inbox EXCEPT ![s] = <<>>]
  BY DEF Disconnect, ByeScan, ByeRemove, ByeCount, ByeClear, ByeClearUsers, ByeRoom
<1>6. IsFiniteSet(room')
  BY <1>1, <1>4, FS_RemoveElement
<1>7. socket' \in [Sids -> {"off", "on", "closing", "gone"}]
  BY <1>1, <1>5 DEF TypeOK
<1>8. editor' \in [Sids -> EditorStates]
  BY <1>1, <1>5 DEF TypeOK, EditorStates, Open
<1>9. inbox' \in [Sids -> Seq(Message)]
  <2>1. <<>> \in Seq(Message)
    BY EmptySeq
  <2>2. /\ inbox \in [Sids -> Seq(Message)]
        /\ UNCHANGED inbox \/ inbox' = [inbox EXCEPT ![s] = <<>>]
    BY <1>1, <1>5 DEF TypeOK
  <2>3. QED
    BY <2>1, <2>2
<1>10. /\ UNCHANGED <<useRedis, inst, join, seen, leave, slot, loaded, view, author>>
       /\ UNCHANGED <<former, expelled>> /\ UNCHANGED saves /\ UNCHANGED stored
  BY <1>2 DEF ByeStep, db, hist
<1>11. moves' \in 0 .. MaxMoves
  <2>1. UNCHANGED moves \/ Move
    BY DEF Disconnect, ByeScan, ByeRemove, ByeCount, ByeClear, ByeClearUsers, ByeRoom
  <2>2. QED
    BY <1>1, <2>1, BoundAssumption DEF TypeOK, Move
<1>12. QED
  BY <1>1, <1>3, <1>4, <1>6, <1>7, <1>8, <1>9, <1>10, <1>11 DEF TypeInv, TypeOK

\* Whichever saves are left, they are saves.
LEMMA UpdateTypes ==
    ASSUME TypeInv, NEW k \in Slots, Updating(k)
    PROVE  TypeInv'
<1>1. TypeOK /\ <<"update", k>> \in Turns /\ Free \in Turns /\ IsFiniteSet(room) /\ Handling
  BY DEF TypeInv, Turns
<1>2. slot[k] \in Handler /\ slot \in [Slots -> Handler] /\ saves \in Seq(Save)
  BY <1>1 DEF TypeOK
<1>3. ASSUME NEW s \in Sids, UpdateStop(k, s) PROVE TypeInv'
  <2>1. inbox \in [Sids -> Seq(Message)] /\ inbox[s] \in Seq(Message) /\ inbox[s] # <<>>
    BY <1>1, <1>3 DEF TypeOK, UpdateStop
  <2>2. Head(inbox[s]) \in Message /\ Tail(inbox[s]) \in Seq(Message)
    BY <2>1, HeadTailProperties
  <2>3. inbox' = [inbox EXCEPT ![s] = Tail(inbox[s])]
    BY <1>3 DEF UpdateStop
  <2>4. slot' = [slot EXCEPT ![k] = [pc |-> "append", by |-> s, msg |-> Head(inbox[s])]]
    BY <1>3 DEF UpdateStop
  <2>5. slot' \in [Slots -> Handler] /\ Handling'
    <3>1. [pc |-> "append", by |-> s, msg |-> Head(inbox[s])] \in Handler
      BY <2>2 DEF Handler
    <3>2. QED
      BY <1>1, <1>2, <2>4, <3>1 DEF Handling
  <2>6. saves' \in Seq(Save)
    <3>1. PICK n \in 0..Len(saves) :
             \E kept \in [1..n -> DOMAIN saves] : saves' = [i \in 1..n |-> saves[kept[i]]]
      BY <1>3 DEF UpdateStop
    <3>2. PICK kept \in [1..n -> DOMAIN saves] : saves' = [i \in 1..n |-> saves[kept[i]]]
      BY <3>1
    <3>3. n \in Nat /\ DOMAIN saves = 1..Len(saves) /\ saves \in [1..Len(saves) -> Save]
      BY <1>2, LenProperties
    <3>4. \A i \in 1..n : saves[kept[i]] \in Save
      BY <3>2, <3>3
    <3>5. saves' \in [1..n -> Save]
      BY <3>2, <3>4
    <3>6. QED
      BY <3>3, <3>5, SeqDef
  <2>7. turn' \in Turns
    BY <1>1, <1>3 DEF UpdateStop, Command, Await
  <2>8. inbox' \in [Sids -> Seq(Message)]
    BY <2>1, <2>2, <2>3
  <2>9. UNCHANGED <<net, doc, room, join, seen, leave, bye, client, stored, hist, moves>>
    BY <1>3 DEF UpdateStop
  <2>10. QED
    BY <1>1, <2>5, <2>6, <2>7, <2>8, <2>9 DEF TypeInv, TypeOK, hist, net, doc, client
<1>4. CASE UpdateAppend(k)
  <2>1. /\ slot' = [slot EXCEPT ![k].pc = "emit"] /\ updates' = updates \cup slot[k].msg.ops
        /\ turn' \in Turns
        /\ UNCHANGED <<net, users, room, join, seen, leave, bye, inbox, client, db, hist,
                       moves>>
    BY <1>1, <1>4 DEF UpdateAppend, Command
  <2>2. slot' \in [Slots -> Handler] /\ slot[k].msg.ops \in SUBSET Ops /\ Handling'
    BY <1>1, <1>2, <1>4, <2>1 DEF Handler, Message, Handling, UpdateAppend
  <2>3. QED
    BY <1>1, <2>1, <2>2 DEF TypeInv, TypeOK, hist, net, client, db
<1>5. CASE UpdateEmit(k)
  <2> DEFINE ops == slot[k].msg.ops
  <2> DEFINE news == {r \in room \ {slot[k].by} :
                         Connected(r) /\ Open(r) /\ ~(ops \subseteq view[r])}
  <2>1. /\ slot' = [slot EXCEPT ![k].pc = "save"] /\ turn' = Free
        /\ view' = [r \in Sids |-> IF r \in news THEN view[r] \cup ops ELSE view[r]]
        /\ inbox' = [r \in Sids |->
              IF r \in news
              THEN Append(inbox[r], [ops |-> ops, text |-> Shown(view'[r])])
              ELSE inbox[r]]
        /\ UNCHANGED <<net, doc, room, join, seen, leave, bye, editor, loaded, author, db,
                       hist, moves>>
    BY <1>5 DEF UpdateEmit, Await
  <2>2. slot' \in [Slots -> Handler] /\ ops \in SUBSET Ops /\ Handling'
    <3>1. slot[k].pc # "free" /\ slot[k].by \in Sids
      BY <1>1, <1>5 DEF UpdateEmit, Handling
    <3>2. QED
      BY <1>1, <1>2, <2>1, <3>1 DEF Handler, Message, Handling
  <2> HIDE DEF ops, news
  <2>3. view' \in [Sids -> SUBSET Ops]
    BY <1>1, <2>1, <2>2 DEF TypeOK
  <2>4. ASSUME NEW r \in Sids PROVE inbox'[r] \in Seq(Message)
    <3>1. inbox[r] \in Seq(Message) /\ Shown(view'[r]) \subseteq Text
      BY <1>1, ShownIsText DEF TypeOK
    <3>2. [ops |-> ops, text |-> Shown(view'[r])] \in Message
      BY <2>2, <3>1 DEF Message
    <3>3. QED
      BY <2>1, <3>1, <3>2, AppendProperties
  <2>5. inbox' \in [Sids -> Seq(Message)]
    BY <2>1, <2>4
  <2>6. QED
    BY <1>1, <2>1, <2>2, <2>3, <2>5 DEF TypeInv, TypeOK, hist, net, doc, db
<1>6. CASE UpdateSave(k)
  <2>1. /\ slot' = [slot EXCEPT ![k] = Finished] /\ turn' = Free
        /\ slot[k].pc = "save"
        /\ UNCHANGED <<net, doc, room, join, seen, leave, bye, inbox, client, stored,
                       hist, moves>>
        /\ \/ UNCHANGED saves
           \/ saves' = Append(saves, [by |-> slot[k].by, text |-> slot[k].msg.text])
    BY <1>6 DEF UpdateSave, Await
  <2>2. slot' \in [Slots -> Handler] /\ Handling'
    BY <1>1, <1>2, <2>1, NamesAssumption DEF Handler, Finished, Message, Handling
  <2>3. [by |-> slot[k].by, text |-> slot[k].msg.text] \in Save
    BY <1>1, <1>2, <2>1 DEF Handling, Handler, Message, Save
  <2>4. saves' \in Seq(Save)
    BY <1>2, <2>1, <2>3, AppendProperties
  <2>5. QED
    BY <1>1, <2>1, <2>2, <2>4 DEF TypeInv, TypeOK, hist, net, doc, client
<1>7. QED
  BY <1>3, <1>4, <1>5, <1>6 DEF Updating

LEMMA SaveTypes ==
    ASSUME TypeInv, NEW i \in DOMAIN saves, SaveNote(i)
    PROVE  TypeInv'
<1>1. TypeOK /\ saves \in Seq(Save) /\ Len(saves) \in Nat /\ i \in 1..Len(saves)
      /\ \A j \in 1..Len(saves) : saves[j] \in Save
  BY LenProperties, ElementOfSeq DEF TypeInv, TypeOK
<1>2. saves' \in Seq(Save)
  <2>1. SubSeq(saves, 1, i - 1) \in Seq(Save)
    BY <1>1, SubSeqProperties
  <2>2. SubSeq(saves, i + 1, Len(saves)) \in Seq(Save)
    BY <1>1, SubSeqProperties
  <2>3. QED
    BY <2>1, <2>2, ConcatProperties DEF SaveNote, RemoveAt
<1>3. stored' \subseteq Text
  BY <1>1 DEF TypeOK, SaveNote, Save
<1>4. QED
  BY <1>1, <1>2, <1>3 DEF SaveNote, TypeInv, TypeOK, Handling, hist, net, doc, client

LEMMA TypeInvariance == Spec => []TypeInv
<1>1. TypeInv /\ [Next]_vars => TypeInv'
  <2> SUFFICES ASSUME TypeInv, [Next]_vars PROVE TypeInv'
    OBVIOUS
  <2>1. CASE UNCHANGED vars
    BY <2>1 DEF vars, hist, net, doc, client, db, TypeInv, TypeOK, Handling
  <2>2. CASE Next
    BY <2>2, ClientTypes, JoinTypes, LeaveTypes, ByeTypes, UpdateTypes, SaveTypes
       DEF Next, Handlers
  <2>3. QED
    BY <2>1, <2>2
<1>2. QED
  BY <1>1, InitType, PTL DEF Spec

\* Every variable has the type its comment gives: in particular a save that is
\* created belongs to the session whose update is being handled (UpdateSave).
THEOREM TypeCorrect == Spec => []TypeOK
<1>1. TypeInv => TypeOK
  BY DEF TypeInv
<1>2. QED
  BY <1>1, TypeInvariance, PTL
-----------------------------------------------------------------------------
\* The life of a session

\* A session that has not begun has done nothing; its disconnect handler runs
\* when the socket is gone; the join handler is over when the client has synced;
\* and a connected client that edits the document is in the room once its join
\* handler has entered it, unless an earlier opening has expelled it.
Lives(s) == /\ editor[s] = "closed" <=> socket[s] = "off"
            /\ socket[s] = "off" => join[s] = "idle" /\ bye[s] = "idle" /\ view[s] = {}
            /\ Connected(s) => bye[s] = "idle" /\ editor[s] # "offline"
            /\ socket[s] = "off" => leave[s] = "idle"
            /\ editor[s] = "synced" => join[s] = "idle"
            /\ Connected(s) /\ Open(s) /\ s \notin expelled
               /\ (join[s] \in {"read", "emit"} \/ editor[s] = "synced")
                   => s \in room

SessionInv == \A s \in Sids : Lives(s)

\* A step leaves session r as it is.
Untouched(r) == /\ socket'[r] = socket[r] /\ editor'[r] = editor[r] /\ join'[r] = join[r]
                /\ leave'[r] = leave[r] /\ bye'[r] = bye[r] /\ view'[r] = view[r]
                /\ r \in room' <=> r \in room
                /\ r \in expelled' <=> r \in expelled

LEMMA UntouchedLives == ASSUME NEW r \in Sids, Lives(r), Untouched(r) PROVE Lives(r)'
BY DEF Lives, Untouched, Connected, Open

LEMMA OneSession ==
    ASSUME SessionInv, NEW s \in Sids, \A r \in Sids \ {s} : Untouched(r), Lives(s)'
    PROVE  SessionInv'
<1>1. \A r \in Sids \ {s} : Lives(r)'
  BY UntouchedLives DEF SessionInv
<1>2. \A r \in Sids : Lives(r)'
  BY <1>1
<1>3. QED
  BY <1>2 DEF SessionInv

LEMMA InitSession == Init => SessionInv
<1>1. SUFFICES ASSUME Init, NEW s \in Sids PROVE Lives(s)
  BY DEF SessionInv
<1>2. /\ editor[s] = "closed" /\ socket[s] = "off" /\ join[s] = "idle" /\ leave[s] = "idle"
      /\ bye[s] = "idle" /\ view[s] = {}
  BY <1>1 DEF Init
<1>3. QED
  BY <1>2 DEF Lives, Connected, Open

LEMMA SessionStep == TypeInv /\ SessionInv /\ [Next]_vars => SessionInv'
<1>1. SUFFICES ASSUME TypeInv, SessionInv, [Next]_vars PROVE SessionInv'
  OBVIOUS
<1> USE DEF net, doc, client, db, hist, Connected, Open
<1>2. TypeOK /\ \A s \in Sids : Lives(s)
  BY <1>1 DEF TypeInv, SessionInv
<1>3. ASSUME NEW s \in Sids, OpenNote(s) PROVE SessionInv'
  <2>1. \A r \in Sids \ {s} : Untouched(r)
    BY <1>2, <1>3 DEF OpenNote, Untouched, TypeOK
  <2>2. Lives(s)'
    BY <1>2, <1>3 DEF OpenNote, Lives, TypeOK
  <2>3. QED
    BY <1>1, <2>1, <2>2, OneSession
<1>4. ASSUME NEW s \in Sids, CloseNote(s) PROVE SessionInv'
  <2>1. \A r \in Sids \ {s} : Untouched(r)
    BY <1>2, <1>4 DEF CloseNote, Untouched, TypeOK
  <2>2. Lives(s)'
    <3>1. /\ editor'[s] = "left" /\ socket[s] = "on"
          /\ UNCHANGED <<socket, join, bye, view, expelled, room>>
      BY <1>2, <1>4 DEF CloseNote, TypeOK
    <3>2. QED
      BY <1>2, <3>1 DEF Lives
  <2>3. QED
    BY <1>1, <2>1, <2>2, OneSession
<1>0. ASSUME NEW s \in Sids, Reopen(s) PROVE SessionInv'
  <2>1. \A r \in Sids \ {s} : Untouched(r)
    BY <1>2, <1>0 DEF Reopen, Untouched, TypeOK
  <2>2. Lives(s)'
    BY <1>2, <1>0 DEF Reopen, Lives, TypeOK
  <2>3. QED
    BY <1>1, <2>1, <2>2, OneSession
<1>5. ASSUME NEW s \in Sids, NEW r \in Sids, Reconnect(s, r) PROVE SessionInv'
  <2>1. s # r /\ editor[s] = "offline"
    BY <1>2, <1>5 DEF Reconnect, Lives
  <2>2. \A q \in Sids \ {s, r} : Untouched(q)
    BY <1>2, <1>5 DEF Reconnect, Untouched, TypeOK
  <2>3. Lives(r)'
    BY <1>2, <1>5, <2>1 DEF Reconnect, Lives, TypeOK
  <2>4. Lives(s)'
    BY <1>2, <1>5, <2>1 DEF Reconnect, Lives, TypeOK
  <2>5. \A q \in Sids : Lives(q)'
    BY <1>2, <2>2, <2>3, <2>4, UntouchedLives
  <2>6. QED
    BY <2>5 DEF SessionInv
<1>6. ASSUME NEW s \in Sids, NEW e \in Edits, Edit(s, e) PROVE SessionInv'
  <2>1. \A r \in Sids \ {s} : Untouched(r)
    BY <1>2, <1>6 DEF Edit, Untouched, TypeOK
  <2>2. Lives(s)'
    BY <1>2, <1>6 DEF Edit, Lives, TypeOK
  <2>3. QED
    BY <1>1, <2>1, <2>2, OneSession
<1>7. ASSUME NEW s \in Sids, JoinAdd(s) \/ JoinEnter(s) \/ JoinRead(s) PROVE SessionInv'
  <2>1. \A r \in Sids \ {s} : Untouched(r)
    BY <1>2, <1>7 DEF JoinAdd, JoinEnter, JoinRead, Untouched, TypeOK
  <2>2. Lives(s)'
    BY <1>2, <1>7 DEF JoinAdd, JoinEnter, JoinRead, Lives, TypeOK
  <2>3. QED
    BY <1>1, <2>1, <2>2, OneSession
<1>8. ASSUME NEW s \in Sids, JoinEmit(s) PROVE SessionInv'
  <2>1. /\ join[s] = "emit" /\ join' = [join EXCEPT ![s] = "idle"]
        /\ UNCHANGED <<socket, room, leave, bye, expelled>>
        /\ \/ UNCHANGED <<editor, view>>
           \/ /\ Connected(s) /\ Open(s) /\ editor' = [editor EXCEPT ![s] = "synced"]
              /\ \/ UNCHANGED view
                 \/ view' = [view EXCEPT ![s] = {s}]
                 \/ view' = [view EXCEPT ![s] = @ \cup seen[s].log]
    BY <1>8 DEF JoinEmit
  <2>2. \A r \in Sids \ {s} : Untouched(r)
    BY <1>2, <2>1 DEF Untouched, TypeOK
  <2>3. Lives(s)'
    BY <1>2, <2>1 DEF Lives, TypeOK
  <2>4. QED
    BY <1>1, <2>2, <2>3, OneSession
<1>9. ASSUME NEW s \in Sids,
             \/ LeaveRemove(s) \/ LeaveRoom(s) \/ LeaveExists(s) \/ LeaveCount(s)
             \/ LeaveClear(s) \/ LeaveClearUsers(s)
      PROVE  SessionInv'
  <2>1. PICK from \in LeavePc \ {"idle"}, to \in LeavePc : LeaveStep(s, from, to)
    BY <1>9 DEF LeaveRemove, LeaveRoom, LeaveExists, LeaveCount, LeaveClear, LeaveClearUsers,
                LeavePc
  <2>2. \/ UNCHANGED <<room, expelled>>
        \/ /\ room' = room \ {s}
           /\ expelled' = IF Open(s) /\ join[s] \notin {"add", "enter"} THEN expelled \cup {s}
                                                                       ELSE expelled
    BY <1>9 DEF LeaveRemove, LeaveRoom, LeaveExists, LeaveCount, LeaveClear, LeaveClearUsers
  <2>3. \A r \in Sids \ {s} : Untouched(r)
    BY <1>2, <2>1, <2>2 DEF LeaveStep, Untouched, TypeOK
  <2>4. Lives(s)'
    <3>1. /\ leave[s] # "idle" /\ UNCHANGED <<socket, editor, join, bye, view>>
          /\ UNCHANGED <<room, expelled>> \/ s \in expelled' \/ ~Open(s)
             \/ join[s] \in {"add", "enter"}
      BY <1>2, <2>1, <2>2 DEF LeaveStep, TypeOK
    <3>2. QED
      BY <1>2, <3>1 DEF Lives
  <2>5. QED
    BY <1>1, <2>3, <2>4, OneSession
<1>10. ASSUME NEW s \in Sids, Disconnect(s) PROVE SessionInv'
  <2>1. \A r \in Sids \ {s} : Untouched(r)
    BY <1>2, <1>10 DEF Disconnect, ByeStep, Untouched, TypeOK
  <2>2. Lives(s)'
    <3>1. /\ socket[s] = "on" /\ socket'[s] = "closing"
          /\ editor'[s] = "offline" \/ (editor'[s] = editor[s] /\ ~Open(s))
          /\ UNCHANGED <<join, view, leave, expelled>>
      BY <1>2, <1>10 DEF Disconnect, ByeStep, TypeOK
    <3>2. QED
      BY <1>2, <3>1 DEF Lives
  <2>3. QED
    BY <1>1, <2>1, <2>2, OneSession
<1>11. ASSUME NEW s \in Sids,
              ByeScan(s) \/ ByeRemove(s) \/ ByeCount(s) \/ ByeClear(s) \/ ByeClearUsers(s) \/ ByeRoom(s)
       PROVE  SessionInv'
  <2>1. PICK from \in ByePc \ {"idle"}, to \in ByePc : ByeStep(s, from, to)
    BY <1>11 DEF ByeScan, ByeRemove, ByeCount, ByeClear, ByeClearUsers, ByeRoom, ByePc
  <2>2. /\ UNCHANGED room \/ room' = room \ {s}
        /\ UNCHANGED socket \/ socket' = [socket EXCEPT ![s] = "gone"]
        /\ UNCHANGED editor
    BY <1>11 DEF ByeScan, ByeRemove, ByeCount, ByeClear, ByeClearUsers, ByeRoom
  <2>3. \A r \in Sids \ {s} : Untouched(r)
    BY <1>2, <2>1, <2>2 DEF ByeStep, Untouched, TypeOK
  <2>4. Lives(s)'
    BY <1>2, <2>1, <2>2 DEF ByeStep, Lives, TypeOK
  <2>5. QED
    BY <1>1, <2>3, <2>4, OneSession
<1>12. ASSUME UNCHANGED <<socket, editor, join, leave, bye, room, expelled>>,
              \A r \in Sids : socket[r] = "off" => view'[r] = view[r]
       PROVE  SessionInv'
  <2>1. \A r \in Sids : Lives(r)'
    BY <1>2, <1>12 DEF Lives
  <2>2. QED
    BY <2>1 DEF SessionInv
<1>13. ASSUME NEW k \in Slots, Updating(k) PROVE SessionInv'
  <2>1. CASE UpdateEmit(k)
    BY <1>2, <1>12, <2>1 DEF UpdateEmit
  <2>2. CASE \/ \E s \in Sids : UpdateStop(k, s)
             \/ UpdateAppend(k) \/ UpdateSave(k)
    BY <1>12, <2>2 DEF UpdateStop, UpdateAppend, UpdateSave
  <2>3. QED
    BY <1>13, <2>1, <2>2 DEF Updating
<1>14. ASSUME NEW i \in DOMAIN saves, SaveNote(i) PROVE SessionInv'
  BY <1>12, <1>14 DEF SaveNote
<1>15. CASE UNCHANGED vars
  BY <1>12, <1>15 DEF vars
<1>16. QED
  BY <1>1, <1>0, <1>3, <1>4, <1>5, <1>6, <1>7, <1>8, <1>9, <1>10, <1>11, <1>13, <1>14, <1>15
     DEF Next, Handlers

LEMMA SessionInvariance == Spec => [](TypeInv /\ SessionInv)
BY InitSession, SessionStep, TypeInvariance, PTL DEF Spec
-----------------------------------------------------------------------------
\* No client misses an update

\* A client has what it sent, whether it is on its way or being handled, unless
\* it has opened the note again in between; it does so with nothing on its way.
Quiet    == \A s \in Sids : ~Open(s) => inbox[s] = <<>>
InboxOwn == \A s \in Sids : \A i \in 1..Len(inbox[s]) : inbox[s][i].ops \subseteq view[s]
SlotOwn  == \A k \in Slots : slot[k].pc # "free" =>
                slot[k].msg.ops \subseteq view[slot[k].by] \cup former[slot[k].by]

\* A join handler that has read the log has what the client misses.
AnswerComplete ==
    \A s \in Sids : Connected(s) /\ Open(s) /\ s \notin expelled /\ join[s] = "emit" =>
        \A o \in updates :
            o \in seen[s].log \/ o \in view[s] \/ Broadcasting(o) \/ o \in former[s]

MissInv == Quiet /\ InboxOwn /\ SlotOwn /\ AnswerComplete /\ NoMissedUpdate

LEMMA InitMiss == Init => MissInv
BY DEF Init, MissInv, Quiet, InboxOwn, SlotOwn, AnswerComplete, NoMissedUpdate, Finished

\* What a session has, or has had in an earlier opening of the note.
Had(s) == view[s] \cup former[s]

\* A client never loses an update while it has the note open: it inserts the
\* stored content into an empty replica only.
LEMMA ViewsGrow ==
    ASSUME TypeInv, SessionInv, [Next]_vars
    PROVE  \A r \in Sids : ~Reopen(r) => view[r] \subseteq view'[r] /\ former'[r] = former[r]
<1> USE DEF net, doc, client, db, hist
<1> DEFINE Grows(r) == view[r] \subseteq view'[r] /\ former'[r] = former[r]
<1>1. /\ view \in [Sids -> SUBSET Ops] /\ former \in [Sids -> SUBSET Ops]
      /\ \A s \in Sids : Lives(s)
  BY DEF TypeInv, TypeOK, SessionInv
<1>2. ASSUME UNCHANGED <<view, former>> PROVE \A r \in Sids : Grows(r)
  BY <1>2
<1>3. ASSUME NEW s \in Sids, NEW r \in Sids, Reconnect(s, r) PROVE \A q \in Sids : Grows(q)
  <2>1. view[r] = {} /\ view' = [view EXCEPT ![r] = view[s]] /\ UNCHANGED former
    BY <1>1, <1>3 DEF Reconnect, Lives
  <2>2. QED
    BY <1>1, <2>1
<1>4. ASSUME NEW s \in Sids, NEW e \in Edits, Edit(s, e) PROVE \A r \in Sids : Grows(r)
  BY <1>1, <1>4 DEF Edit
<1>5. ASSUME NEW s \in Sids, JoinEmit(s) PROVE \A r \in Sids : Grows(r)
  <2>1. /\ \/ UNCHANGED view
           \/ view[s] = {} /\ view' = [view EXCEPT ![s] = {s}]
           \/ view' = [view EXCEPT ![s] = @ \cup seen[s].log]
        /\ UNCHANGED former
    BY <1>5 DEF JoinEmit, MayInsert
  <2>2. QED
    BY <1>1, <2>1
<1>6. ASSUME NEW k \in Slots, UpdateEmit(k) PROVE \A r \in Sids : Grows(r)
  BY <1>1, <1>6 DEF UpdateEmit
<1>7. ASSUME NEW s \in Sids, OpenNote(s) \/ CloseNote(s) \/ Disconnect(s)
      PROVE  UNCHANGED <<view, former>>
  BY <1>7 DEF OpenNote, CloseNote, Disconnect, ByeStep
<1>8. ASSUME NEW s \in Sids, Handlers(s), ~JoinEmit(s) PROVE UNCHANGED <<view, former>>
  BY <1>8
     DEF Handlers, JoinAdd, JoinEnter, JoinRead, LeaveStep, LeaveRemove, LeaveRoom, LeaveExists,
         LeaveCount, LeaveClear, LeaveClearUsers, ByeStep, ByeScan, ByeRemove, ByeCount, ByeClear,
         ByeClearUsers, ByeRoom
<1>9. ASSUME NEW k \in Slots, Updating(k), ~UpdateEmit(k) PROVE UNCHANGED <<view, former>>
  BY <1>9 DEF Updating, UpdateStop, UpdateAppend, UpdateSave
<1>10. ASSUME NEW i \in DOMAIN saves, SaveNote(i) PROVE UNCHANGED <<view, former>>
  BY <1>10 DEF SaveNote
<1>11. CASE UNCHANGED vars
  BY <1>2, <1>11 DEF vars
<1>12. ASSUME NEW s \in Sids, Reopen(s) PROVE \A r \in Sids \ {s} : Grows(r)
  BY <1>1, <1>12 DEF Reopen
<1>13. ASSUME NEW r \in Sids, ~Reopen(r) PROVE Grows(r)
  <2>1. ASSUME NEW s \in Sids, Reopen(s) PROVE Grows(r)
    BY <1>12, <1>13, <2>1
  <2>2. QED
    BY <1>2, <1>3, <1>4, <1>5, <1>6, <1>7, <1>8, <1>9, <1>10, <1>11, <2>1 DEF Next
<1>14. QED
  BY <1>13

\* A session that opens the note again keeps what is being handled as what it had.
LEMMA Reopening ==
    ASSUME TypeInv, SessionInv, NEW s \in Sids, Reopen(s)
    PROVE  /\ view' = [view EXCEPT ![s] = {}]
           /\ former'[s] = UNION {slot[k].msg.ops : k \in {k \in Slots : slot[k].by = s}}
           /\ \A r \in Sids \ {s} : former'[r] = former[r] /\ view'[r] = view[r]
           /\ ~Open(s) /\ s \notin view[s]
           /\ UNCHANGED <<inbox, slot, updates, seen>>
BY DEF Reopen, TypeInv, TypeOK, Open, doc

\* The steps in which nobody opens the note again.
NoReopening == \A s \in Sids : ~Reopen(s)

LEMMA InboxStep ==
    ASSUME TypeInv, SessionInv, InboxOwn, [Next]_vars, NoReopening
    PROVE  InboxOwn'
<1> USE DEF net, doc, client, db, hist
<1>1. /\ inbox \in [Sids -> Seq(Message)] /\ view \in [Sids -> SUBSET Ops]
      /\ seen \in [Sids -> [log : SUBSET Ops, alone : BOOLEAN]]
      /\ loaded \in [Sids -> SUBSET Text]
  BY DEF TypeInv, TypeOK
<1>2. \A r \in Sids : view[r] \subseteq view'[r]
  BY ViewsGrow DEF NoReopening
<1>3. ASSUME UNCHANGED inbox PROVE InboxOwn'
  BY <1>2, <1>3 DEF InboxOwn
<1>4. ASSUME NEW s \in Sids, NEW ops \in SUBSET Ops, NEW text \in SUBSET Text,
             Send(s, ops, text), ops \subseteq view'[s]
      PROVE  InboxOwn'
  <2>1. \A r \in Sids \ {s} : inbox'[r] = inbox[r]
    BY <1>1, <1>4, SendAppends
  <2>2. /\ Len(inbox'[s]) = Len(inbox[s]) + 1
        /\ \A i \in 1..Len(inbox[s]) : inbox'[s][i] = inbox[s][i]
        /\ inbox'[s][Len(inbox[s]) + 1].ops = ops
    BY <1>1, <1>4, SendAppends
  <2>3. \A r \in Sids \ {s} : \A i \in 1..Len(inbox'[r]) : inbox'[r][i].ops \subseteq view'[r]
    BY <1>2, <2>1 DEF InboxOwn
  <2>4. Len(inbox[s]) \in Nat
    BY <1>1, LenProperties
  <2>5. ASSUME NEW i \in 1..Len(inbox'[s]) PROVE inbox'[s][i].ops \subseteq view'[s]
    <3>1. i \in 1..Len(inbox[s]) \/ i = Len(inbox[s]) + 1
      BY <2>2, <2>4
    <3>2. CASE i \in 1..Len(inbox[s])
      BY <1>2, <2>2, <3>2 DEF InboxOwn
    <3>3. CASE i = Len(inbox[s]) + 1
      BY <1>4, <2>2, <3>3
    <3>4. QED
      BY <3>1, <3>2, <3>3
  <2>6. QED
    BY <2>3, <2>5 DEF InboxOwn
<1>5. ASSUME NEW s \in Sids, NEW e \in Edits, Edit(s, e) PROVE InboxOwn'
  <2>1. /\ view' = [view EXCEPT ![s] = @ \cup {e}] /\ UNCHANGED loaded
        /\ UNCHANGED inbox \/ Send(s, {e}, Shown(view'[s]))
    BY <1>5 DEF Edit
  <2>2. {e} \in SUBSET Ops /\ {e} \subseteq view'[s]
    BY <1>1, <2>1 DEF Ops
  <2>3. Shown(view'[s]) \in SUBSET Text
    BY <1>1, ShownIsText
  <2>4. QED
    BY <1>3, <1>4, <2>1, <2>2, <2>3
<1>6. ASSUME NEW s \in Sids, JoinEmit(s) PROVE InboxOwn'
  <2>1. \/ UNCHANGED inbox
        \/ view' = [view EXCEPT ![s] = {s}] /\ Send(s, {s}, loaded[s])
        \/ Send(s, view[s], {}) /\ UNCHANGED view
    BY <1>6 DEF JoinEmit
  <2>2. CASE UNCHANGED inbox
    BY <1>3, <2>2
  <2>3. CASE view' = [view EXCEPT ![s] = {s}] /\ Send(s, {s}, loaded[s])
    <3>1. {s} \in SUBSET Ops /\ {s} \subseteq view'[s] /\ loaded[s] \in SUBSET Text
      BY <1>1, <2>3 DEF Ops
    <3>2. QED
      BY <1>4, <2>3, <3>1
  <2>4. CASE Send(s, view[s], {}) /\ UNCHANGED view
    <3>1. view[s] \in SUBSET Ops /\ {} \in SUBSET Text /\ view[s] \subseteq view'[s]
      BY <1>1, <2>4
    <3>2. QED
      BY <1>4, <2>4, <3>1
  <2>5. QED
    BY <2>1, <2>2, <2>3, <2>4
<1>7. ASSUME NEW k \in Slots, NEW s \in Sids, UpdateStop(k, s) PROVE InboxOwn'
  <2>1. /\ inbox' = [inbox EXCEPT ![s] = Tail(inbox[s])]
        /\ inbox[s] # <<>> /\ inbox[s] \in Seq(Message)
    BY <1>1, <1>7 DEF UpdateStop
  <2>2. /\ Len(inbox[s]) \in Nat /\ Len(Tail(inbox[s])) = Len(inbox[s]) - 1
        /\ \A i \in 1..Len(Tail(inbox[s])) : Tail(inbox[s])[i] = inbox[s][i + 1]
    BY <2>1, HeadTailProperties, LenProperties
  <2>3. \A i \in 1..Len(Tail(inbox[s])) : Tail(inbox[s])[i].ops \subseteq view[s]
    BY <2>2 DEF InboxOwn
  <2>4. ASSUME NEW r \in Sids, NEW i \in 1..Len(inbox'[r]) PROVE inbox'[r][i].ops \subseteq view[r]
    <3>1. CASE r = s
      BY <1>1, <2>1, <2>3, <2>4, <3>1
    <3>2. CASE r # s
      BY <1>1, <2>1, <2>4, <3>2 DEF InboxOwn
    <3>3. QED
      BY <3>1, <3>2
  <2>5. QED
    BY <1>2, <2>4 DEF InboxOwn
<1>8. ASSUME NEW k \in Slots, UpdateEmit(k) PROVE InboxOwn'
  <2> DEFINE ops == slot[k].msg.ops
  <2> DEFINE news == {r \in room \ {slot[k].by} :
                         Connected(r) /\ Open(r) /\ ~(ops \subseteq view[r])}
  <2>1. /\ view' = [r \in Sids |-> IF r \in news THEN view[r] \cup ops ELSE view[r]]
        /\ inbox' = [r \in Sids |->
              IF r \in news
              THEN Append(inbox[r], [ops |-> ops, text |-> Shown(view'[r])])
              ELSE inbox[r]]
        /\ UNCHANGED loaded
    BY <1>8 DEF UpdateEmit
  <2>2. ops \in SUBSET Ops
    BY DEF TypeInv, TypeOK, Handler, Message
  <2> HIDE DEF ops, news
  <2>3. ASSUME NEW r \in Sids, NEW i \in 1..Len(inbox'[r]) PROVE inbox'[r][i].ops \subseteq view'[r]
    <3>1. CASE r \notin news
      BY <1>2, <2>1, <2>3, <3>1 DEF InboxOwn
    <3>2. CASE r \in news
      <4> DEFINE m == [ops |-> ops, text |-> Shown(view'[r])]
      <4>1. m \in Message /\ m.ops = ops
        BY <1>1, <2>1, <2>2, ShownIsText DEF Message
      <4>2. inbox[r] \in Seq(Message) /\ inbox'[r] = Append(inbox[r], m) /\ ops \subseteq view'[r]
        BY <1>1, <2>1, <3>2
      <4> HIDE DEF m
      <4>3. /\ Len(inbox[r]) \in Nat /\ Len(inbox'[r]) = Len(inbox[r]) + 1
            /\ \A j \in 1..Len(inbox[r]) : inbox'[r][j] = inbox[r][j]
            /\ inbox'[r][Len(inbox[r]) + 1] = m
        BY <4>1, <4>2, AppendProperties, LenProperties
      <4>4. CASE i \in 1..Len(inbox[r])
        BY <1>2, <4>3, <4>4 DEF InboxOwn
      <4>5. CASE i = Len(inbox[r]) + 1
        BY <4>1, <4>2, <4>3, <4>5
      <4>6. QED
        BY <2>3, <4>3, <4>4, <4>5
    <3>3. QED
      BY <3>1, <3>2
  <2>4. QED
    BY <2>3 DEF InboxOwn
<1>9. ASSUME NEW s \in Sids, Disconnect(s) PROVE InboxOwn'
  <2>1. inbox' = [inbox EXCEPT ![s] = <<>>]
    BY <1>9 DEF Disconnect
  <2>2. ASSUME NEW r \in Sids, NEW i \in 1..Len(inbox'[r]) PROVE r # s /\ inbox'[r] = inbox[r]
    BY <1>1, <2>1, <2>2, EmptySeq
  <2>3. QED
    BY <1>2, <2>2 DEF InboxOwn
<1>10. ASSUME NEW s \in Sids, \/ OpenNote(s) \/ CloseNote(s)
                              \/ \E r \in Sids : Reconnect(s, r)
                              \/ Handlers(s) /\ ~JoinEmit(s)
       PROVE  UNCHANGED inbox
  BY <1>10
     DEF OpenNote, CloseNote, Reconnect, Handlers, JoinAdd, JoinEnter, JoinRead, LeaveStep,
         LeaveRemove, LeaveRoom, LeaveExists, LeaveCount, LeaveClear, LeaveClearUsers,
         ByeScan, ByeRemove, ByeCount, ByeClear, ByeClearUsers, ByeRoom
<1>11. ASSUME NEW k \in Slots, UpdateAppend(k) \/ UpdateSave(k) PROVE UNCHANGED inbox
  BY <1>11 DEF UpdateAppend, UpdateSave
<1>12. ASSUME NEW i \in DOMAIN saves, SaveNote(i) PROVE UNCHANGED inbox
  BY <1>12 DEF SaveNote
<1>13. CASE UNCHANGED vars
  BY <1>3, <1>13 DEF vars
<1>14. QED
  BY <1>3, <1>5, <1>6, <1>7, <1>8, <1>9, <1>10, <1>11, <1>12, <1>13 DEF Next, Updating, NoReopening

\* A client sends only while it has the note open, and a note is closed with
\* nothing on its way.
LEMMA QuietStep == ASSUME TypeInv, SessionInv, Quiet, [Next]_vars PROVE Quiet'
<1> USE DEF net, doc, client, db, hist
<1>1. /\ inbox \in [Sids -> Seq(Message)] /\ editor \in [Sids -> EditorStates]
      /\ slot \in [Slots -> Handler]
  BY DEF TypeInv, TypeOK
\* Nobody closes the note, and a message comes from a client that has it open.
<1>2. ASSUME \A r \in Sids : Open(r) => Open(r)',
             \A r \in Sids : inbox'[r] = inbox[r] \/ Open(r)
      PROVE  Quiet'
  BY <1>2 DEF Quiet
<1>3. ASSUME NEW s \in Sids, OpenNote(s) PROVE Quiet'
  BY <1>1, <1>2, <1>3 DEF OpenNote, Open
<1>4. ASSUME NEW s \in Sids, CloseNote(s) PROVE Quiet'
  <2>1. /\ inbox[s] = <<>> /\ UNCHANGED inbox
        /\ \A r \in Sids \ {s} : editor'[r] = editor[r]
    BY <1>1, <1>4 DEF CloseNote
  <2>2. QED
    BY <2>1 DEF Quiet, Open
<1>5. ASSUME NEW s \in Sids, Reopen(s) PROVE Quiet'
  BY <1>1, <1>2, <1>5 DEF Reopen, Open
<1>6. ASSUME NEW s \in Sids, Disconnect(s) PROVE Quiet'
  <2>1. /\ inbox' = [inbox EXCEPT ![s] = <<>>]
        /\ \A r \in Sids \ {s} : editor'[r] = editor[r]
    BY <1>1, <1>6 DEF Disconnect
  <2>2. inbox'[s] = <<>> /\ \A r \in Sids \ {s} : inbox'[r] = inbox[r]
    BY <1>1, <2>1
  <2>3. QED
    BY <2>1, <2>2 DEF Quiet, Open
<1>7. ASSUME NEW s \in Sids, NEW r \in Sids, Reconnect(s, r) PROVE Quiet'
  BY <1>1, <1>2, <1>7 DEF Reconnect, Open
<1>8. ASSUME NEW s \in Sids, NEW e \in Edits, Edit(s, e) PROVE Quiet'
  <2>1. /\ UNCHANGED inbox \/ (Open(s) /\ Send(s, {e}, Shown(view'[s])))
        /\ UNCHANGED editor
    BY <1>8 DEF Edit, Open
  <2>2. \A r \in Sids : inbox'[r] = inbox[r] \/ Open(r)
    BY <1>1, <2>1 DEF Send
  <2>3. QED
    BY <1>2, <2>1, <2>2 DEF Open
<1>9. ASSUME NEW s \in Sids, JoinEmit(s) PROVE Quiet'
  <2>1. /\ UNCHANGED editor \/ editor' = [editor EXCEPT ![s] = "synced"]
        /\ UNCHANGED inbox \/ (Open(s) /\ \E ops, text : Send(s, ops, text))
    BY <1>9 DEF JoinEmit
  <2>2. \A r \in Sids : inbox'[r] = inbox[r] \/ Open(r)
    BY <1>1, <2>1 DEF Send
  <2>3. QED
    BY <1>1, <1>2, <2>1, <2>2 DEF Open
<1>10. ASSUME NEW k \in Slots, NEW s \in Sids, UpdateStop(k, s) PROVE Quiet'
  <2>1. inbox' = [inbox EXCEPT ![s] = Tail(inbox[s])] /\ inbox[s] # <<>> /\ UNCHANGED editor
    BY <1>10 DEF UpdateStop
  <2>2. \A r \in Sids : inbox'[r] = inbox[r] \/ Open(r)
    BY <1>1, <2>1 DEF Quiet
  <2>3. QED
    BY <1>2, <2>1, <2>2 DEF Open
<1>11. ASSUME NEW k \in Slots, UpdateEmit(k) PROVE Quiet'
  <2>1. /\ \A r \in Sids : inbox'[r] = inbox[r] \/ Open(r)
        /\ UNCHANGED editor
    BY <1>11 DEF UpdateEmit
  <2>2. QED
    BY <1>2, <2>1 DEF Open
<1>12. ASSUME NEW s \in Sids, Handlers(s), ~JoinEmit(s) PROVE UNCHANGED <<inbox, editor>>
  BY <1>12
     DEF Handlers, JoinAdd, JoinEnter, JoinRead, LeaveStep, LeaveRemove, LeaveRoom, LeaveExists,
         LeaveCount, LeaveClear, LeaveClearUsers, ByeScan, ByeRemove, ByeCount, ByeClear,
         ByeClearUsers, ByeRoom
<1>13. ASSUME NEW k \in Slots, UpdateAppend(k) \/ UpdateSave(k) PROVE UNCHANGED <<inbox,
                                                                                  editor>>
  BY <1>13 DEF UpdateAppend, UpdateSave
<1>14. ASSUME NEW i \in DOMAIN saves, SaveNote(i) PROVE UNCHANGED <<inbox, editor>>
  BY <1>14 DEF SaveNote
<1>15. ASSUME UNCHANGED <<inbox, editor>> PROVE Quiet'
  BY <1>2, <1>15 DEF Open
<1>16. CASE UNCHANGED vars
  BY <1>15, <1>16 DEF vars
<1>17. QED
  BY <1>3, <1>4, <1>5, <1>6, <1>7, <1>8, <1>9, <1>10, <1>11, <1>12, <1>13, <1>14, <1>15, <1>16
     DEF Next, Updating

LEMMA SlotStep ==
    ASSUME TypeInv, SessionInv, InboxOwn, SlotOwn, [Next]_vars, NoReopening
    PROVE  SlotOwn'
<1> USE DEF net, doc, client, db, hist
<1>1. /\ slot \in [Slots -> Handler] /\ view \in [Sids -> SUBSET Ops]
      /\ \A k \in Slots : slot[k].pc # "free" => slot[k].by \in Sids
  BY DEF TypeInv, TypeOK, Handling
<1>2. \A r \in Sids : Had(r) \subseteq Had(r)'
  BY ViewsGrow DEF NoReopening, Had
\* The handler is the same, or it is done.
<1> DEFINE Same(k) == \/ slot'[k].pc = "free"
                      \/ /\ slot[k].pc # "free"
                         /\ slot'[k].by = slot[k].by /\ slot'[k].msg = slot[k].msg
<1>3. ASSUME \A k \in Slots : Same(k) PROVE SlotOwn'
  BY <1>1, <1>2, <1>3 DEF SlotOwn, Had
<1>4. ASSUME UNCHANGED slot PROVE SlotOwn'
  <2>1. \A k \in Slots : Same(k)
    BY <1>4
  <2>2. QED
    BY <1>3, <2>1
<1>5. ASSUME NEW k \in Slots, UpdateAppend(k) \/ UpdateEmit(k) \/ UpdateSave(k) PROVE SlotOwn'
  <2>1. /\ slot[k].pc # "free"
        /\ \/ slot' = [slot EXCEPT ![k].pc = "emit"]
           \/ slot' = [slot EXCEPT ![k].pc = "save"]
           \/ slot' = [slot EXCEPT ![k] = Finished]
    BY <1>5 DEF UpdateAppend, UpdateEmit, UpdateSave
  <2>2. \A j \in Slots \ {k} : slot'[j] = slot[j]
    BY <1>1, <2>1
  <2>3. Same(k)
    BY <1>1, <2>1 DEF Handler, Finished
  <2>4. \A j \in Slots : Same(j)
    BY <2>2, <2>3
  <2>5. QED
    BY <1>3, <2>4
<1>6. ASSUME NEW k \in Slots, NEW s \in Sids, UpdateStop(k, s) PROVE SlotOwn'
  <2>1. /\ slot' = [slot EXCEPT ![k] = [pc |-> "append", by |-> s, msg |-> Head(inbox[s])]]
        /\ inbox[s] # <<>> /\ UNCHANGED view
    BY <1>6 DEF UpdateStop
  <2>2. inbox[s] \in Seq(Message)
    BY DEF TypeInv, TypeOK
  <2>3. Head(inbox[s]) = inbox[s][1] /\ 1 \in 1..Len(inbox[s])
    BY <2>1, <2>2, EmptySeq
  <2>4. Head(inbox[s]).ops \subseteq view[s]
    BY <2>3 DEF InboxOwn
  <2>5. slot'[k].by = s /\ slot'[k].msg = Head(inbox[s]) /\ \A j \in Slots \ {k} : slot'[j] = slot[j]
    BY <1>1, <2>1
  <2>6. ASSUME NEW j \in Slots, slot'[j].pc # "free"
        PROVE  slot'[j].msg.ops \subseteq view'[slot'[j].by] \cup former'[slot'[j].by]
    <3>1. CASE j = k
      BY <2>1, <2>4, <2>5, <3>1
    <3>2. CASE j # k
      <4>1. slot'[j] = slot[j] /\ slot[j].pc # "free"
        BY <2>5, <2>6, <3>2
      <4>2. slot[j].by \in Sids /\ slot[j].msg.ops \subseteq Had(slot[j].by)
        BY <1>1, <4>1 DEF SlotOwn, Had
      <4>3. QED
        BY <1>2, <4>1, <4>2 DEF Had
    <3>3. QED
      BY <3>1, <3>2
  <2>7. QED
    BY <2>6 DEF SlotOwn
<1>7. ASSUME NEW s \in Sids, \/ OpenNote(s) \/ CloseNote(s) \/ Disconnect(s) \/ Handlers(s)
                             \/ \E r \in Sids : Reconnect(s, r)
                             \/ \E e \in Edits : Edit(s, e)
      PROVE  UNCHANGED slot
  BY <1>7
     DEF OpenNote, CloseNote, Reconnect, Edit, Disconnect, Handlers, JoinAdd, JoinEnter, JoinRead,
         JoinEmit, LeaveStep, LeaveRemove, LeaveRoom, LeaveExists, LeaveCount, LeaveClear,
         LeaveClearUsers, ByeStep, ByeScan, ByeRemove, ByeCount, ByeClear, ByeClearUsers, ByeRoom
<1>8. ASSUME NEW i \in DOMAIN saves, SaveNote(i) PROVE UNCHANGED slot
  BY <1>8 DEF SaveNote
<1>9. CASE UNCHANGED vars
  BY <1>4, <1>9 DEF vars
<1>10. QED
  BY <1>4, <1>5, <1>6, <1>7, <1>8, <1>9 DEF Next, Updating, NoReopening

\* What AnswerComplete and NoMissedUpdate say of one session.
Answered(s) ==
    /\ Connected(s) /\ Open(s) /\ s \notin expelled /\ join[s] = "emit" =>
          \A o \in updates : o \in seen[s].log \/ o \in Had(s) \/ Broadcasting(o)
    /\ Connected(s) /\ editor[s] = "synced" /\ s \notin expelled =>
          \A o \in updates : o \in Had(s) \/ Broadcasting(o)

\* A step makes no promise to session r.
NoPromise(r) ==
    /\ (Connected(r) /\ Open(r) /\ r \notin expelled /\ join[r] = "emit")' =>
          /\ Connected(r) /\ Open(r) /\ r \notin expelled /\ join[r] = "emit"
          /\ seen'[r].log = seen[r].log
    /\ (Connected(r) /\ editor[r] = "synced" /\ r \notin expelled)' =>
          Connected(r) /\ editor[r] = "synced" /\ r \notin expelled

LEMMA StaysAnswered ==
    ASSUME NEW r \in Sids, Answered(r), NoPromise(r), Had(r) \subseteq Had(r)',
           updates' \subseteq updates,
           \A o \in updates : Broadcasting(o) => o \in Had(r)' \/ Broadcasting(o)'
    PROVE  Answered(r)'
BY DEF Answered, NoPromise

\* Opening the note again promises nothing yet, and what is being handled stays
\* what the session had.
LEMMA ReopenStep ==
    ASSUME TypeInv, SessionInv, MissInv, NEW s \in Sids, Reopen(s)
    PROVE  InboxOwn' /\ SlotOwn' /\ \A r \in Sids : Answered(r)'
<1>1. /\ view' = [view EXCEPT ![s] = {}]
      /\ former'[s] = UNION {slot[k].msg.ops : k \in {k \in Slots : slot[k].by = s}}
      /\ \A r \in Sids \ {s} : former'[r] = former[r] /\ view'[r] = view[r]
      /\ ~Open(s) /\ UNCHANGED <<inbox, slot, updates, seen>>
  BY Reopening
<1>2. /\ inbox \in [Sids -> Seq(Message)]
      /\ \A k \in Slots : slot[k].pc # "free" => slot[k].by \in Sids
  BY DEF TypeInv, TypeOK, Handling
<1>3. InboxOwn'
  <2>1. inbox'[s] = <<>>
    BY <1>1 DEF MissInv, Quiet
  <2>2. ASSUME NEW r \in Sids, NEW i \in 1..Len(inbox'[r]) PROVE inbox'[r][i].ops \subseteq view'[r]
    <3>1. r # s
      BY <2>1, <2>2, EmptySeq
    <3>2. QED
      BY <1>1, <2>2, <3>1 DEF MissInv, InboxOwn
  <2>3. QED
    BY <2>2 DEF InboxOwn
<1>4. SlotOwn'
  <2>1. ASSUME NEW k \in Slots, slot[k].pc # "free"
        PROVE  slot[k].msg.ops \subseteq view'[slot[k].by] \cup former'[slot[k].by]
    <3>1. CASE slot[k].by = s
      BY <1>1, <3>1
    <3>2. CASE slot[k].by # s
      BY <1>1, <1>2, <2>1, <3>2 DEF MissInv, SlotOwn
    <3>3. QED
      BY <3>1, <3>2
  <2>2. QED
    BY <1>1, <2>1 DEF SlotOwn
<1>5. ASSUME NEW r \in Sids PROVE Answered(r)'
  <2>1. CASE r = s
    <3>1. editor'[s] = "waiting" /\ join'[s] = "add"
      BY DEF Reopen, TypeInv, TypeOK
    <3>2. QED
      BY <2>1, <3>1 DEF Answered
  <2>2. CASE r # s
    <3>1. NoPromise(r)
      BY <1>1, <2>2 DEF Reopen, TypeInv, TypeOK, NoPromise, Connected, Open, net
    <3>2. Answered(r)
      BY DEF MissInv, AnswerComplete, NoMissedUpdate, Answered, Had
    <3>3. Had(r)' = Had(r) /\ \A o : Broadcasting(o)' <=> Broadcasting(o)
      BY <1>1, <2>2 DEF Had, Broadcasting
    <3>4. QED
      BY <1>1, <3>1, <3>2, <3>3, StaysAnswered
  <2>3. QED
    BY <2>1, <2>2
<1>6. QED
  BY <1>3, <1>4, <1>5

LEMMA AnsweredStep ==
    ASSUME TypeInv, SessionInv, MissInv, [Next]_vars, NoReopening
    PROVE  \A r \in Sids : Answered(r)'
<1> USE DEF net, doc, client, db, hist
<1>1. TypeOK /\ (\A s \in Sids : Lives(s)) /\ (\A s \in Sids : Answered(s)) /\ SlotOwn
  BY DEF TypeInv, SessionInv, MissInv, Answered, AnswerComplete, NoMissedUpdate, Had
<1>2. \A r \in Sids : view[r] \subseteq view'[r] /\ former'[r] = former[r] /\ Had(r) \subseteq Had(r)'
  BY ViewsGrow DEF NoReopening, Had
\* The steps after which there is nothing new to promise.
<1>3. ASSUME updates' \subseteq updates, UNCHANGED slot, NEW r \in Sids, NoPromise(r)
      PROVE  Answered(r)'
  <2>1. \A o : Broadcasting(o) => Broadcasting(o)'
    BY <1>3 DEF Broadcasting
  <2>2. QED
    BY <1>1, <1>2, <1>3, <2>1, StaysAnswered
<1>4. ASSUME UNCHANGED slot, updates' \subseteq updates, \A r \in Sids : NoPromise(r)
      PROVE  \A r \in Sids : Answered(r)'
  BY <1>3, <1>4
<1>5. ASSUME NEW s \in Sids, \/ OpenNote(s) \/ CloseNote(s) \/ Disconnect(s)
                             \/ \E r \in Sids : Reconnect(s, r)
                             \/ \E e \in Edits : Edit(s, e)
      PROVE  \A r \in Sids : Answered(r)'
  <2>1. UNCHANGED <<slot, updates, seen>>
    BY <1>5 DEF OpenNote, CloseNote, Disconnect, ByeStep, Reconnect, Edit
  <2>2. \A r \in Sids : NoPromise(r)
    <3>1. CASE OpenNote(s)
      BY <1>1, <3>1 DEF OpenNote, NoPromise, TypeOK, Connected, Open
    <3>2. CASE CloseNote(s) \/ \E e \in Edits : Edit(s, e)
      BY <1>1, <3>2 DEF CloseNote, Edit, NoPromise, TypeOK, Connected, Open
    <3>3. CASE Disconnect(s)
      BY <1>1, <3>3 DEF Disconnect, ByeStep, NoPromise, TypeOK, Connected, Open
    <3>4. ASSUME NEW q \in Sids, Reconnect(s, q) PROVE \A r \in Sids : NoPromise(r)
      BY <1>1, <3>4 DEF Reconnect, NoPromise, TypeOK, Connected, Open
    <3>5. QED
      BY <1>5, <3>1, <3>2, <3>3, <3>4
  <2>3. QED
    BY <1>4, <2>1, <2>2
<1>6. ASSUME NEW s \in Sids, JoinAdd(s) \/ JoinEnter(s) PROVE \A r \in Sids : Answered(r)'
  <2>1. /\ UNCHANGED <<slot, updates, socket, editor, expelled>>
        /\ \/ join' = [join EXCEPT ![s] = "enter"] /\ UNCHANGED seen
           \/ /\ join' = [join EXCEPT ![s] = "read"]
              /\ \E alone : seen' = [seen EXCEPT ![s].alone = alone]
    BY <1>6 DEF JoinAdd, JoinEnter
  <2>2. \A r \in Sids : NoPromise(r)
    BY <1>1, <2>1 DEF NoPromise, TypeOK, Connected, Open
  <2>3. QED
    BY <1>4, <2>1, <2>2
<1>7. ASSUME NEW s \in Sids, JoinRead(s) PROVE \A r \in Sids : Answered(r)'
  <2>1. \A r \in Sids \ {s} : NoPromise(r)
    BY <1>1, <1>7 DEF JoinRead, NoPromise, TypeOK, Connected, Open
  <2>2. UNCHANGED <<slot, updates>>
    BY <1>7 DEF JoinRead
  <2>3. seen'[s].log = updates' /\ editor[s] # "synced" /\ UNCHANGED editor
    BY <1>1, <1>7 DEF JoinRead, Lives, TypeOK
  <2>4. Answered(s)'
    BY <2>3 DEF Answered
  <2>5. QED
    BY <1>3, <2>1, <2>2, <2>4
<1>8. ASSUME NEW s \in Sids, JoinEmit(s) PROVE \A r \in Sids : Answered(r)'
  <2>1. /\ join[s] = "emit" /\ join' = [join EXCEPT ![s] = "idle"]
        /\ seen' = [seen EXCEPT ![s] = NothingSeen]
        /\ UNCHANGED <<slot, updates, socket, expelled>>
    BY <1>8 DEF JoinEmit
  <2>2. \/ UNCHANGED editor
        \/ /\ Connected(s) /\ Open(s) /\ editor' = [editor EXCEPT ![s] = "synced"]
           /\ seen[s].log \subseteq view'[s]
    BY <1>1, <1>8 DEF JoinEmit, MayInsert, TypeOK
  <2>3. \A r \in Sids \ {s} : NoPromise(r)
    BY <1>1, <2>1, <2>2 DEF NoPromise, TypeOK, Connected, Open
  <2>4. CASE UNCHANGED editor
    <3>1. NoPromise(s)
      BY <1>1, <2>1, <2>4 DEF NoPromise, TypeOK, Connected, Open
    <3>2. QED
      BY <1>3, <2>1, <2>3, <3>1
  <2>5. CASE Connected(s) /\ Open(s) /\ seen[s].log \subseteq view'[s]
    <3>1. s \notin expelled =>
             \A o \in updates : o \in seen[s].log \/ o \in Had(s) \/ Broadcasting(o)
      BY <1>1, <2>1, <2>5 DEF Answered
    <3>2. s \notin expelled' => \A o \in updates' : o \in Had(s)' \/ Broadcasting(o)'
      BY <1>2, <2>1, <2>5, <3>1 DEF Broadcasting, Had
    <3>3. Answered(s)'
      BY <3>2 DEF Answered
    <3>4. QED
      BY <1>3, <2>1, <2>3, <3>3
  <2>6. QED
    BY <2>2, <2>4, <2>5
<1>9. ASSUME NEW s \in Sids,
             \/ LeaveRemove(s) \/ LeaveRoom(s) \/ LeaveExists(s) \/ LeaveCount(s)
             \/ LeaveClear(s) \/ LeaveClearUsers(s)
             \/ ByeScan(s) \/ ByeRemove(s) \/ ByeCount(s) \/ ByeClear(s) \/ ByeClearUsers(s) \/ ByeRoom(s)
      PROVE  \A r \in Sids : Answered(r)'
  <2>1. /\ UNCHANGED <<slot, editor, join, seen>> /\ updates' \subseteq updates
        /\ UNCHANGED socket \/ socket' = [socket EXCEPT ![s] = "gone"]
        /\ expelled \subseteq expelled'
    BY <1>9
       DEF LeaveStep, LeaveRemove, LeaveRoom, LeaveExists, LeaveCount, LeaveClear, LeaveClearUsers,
           ByeStep, ByeScan, ByeRemove, ByeCount, ByeClear, ByeClearUsers, ByeRoom
  <2>2. \A r \in Sids : NoPromise(r)
    BY <1>1, <2>1 DEF NoPromise, TypeOK, Connected, Open
  <2>3. QED
    BY <1>4, <2>1, <2>2
<1>10. ASSUME NEW k \in Slots, Updating(k) PROVE \A r \in Sids : Answered(r)'
  <2>1. slot \in [Slots -> Handler]
    BY <1>1 DEF TypeOK
  <2>2. \A r \in Sids : NoPromise(r)
    BY <1>10 DEF Updating, UpdateStop, UpdateAppend, UpdateEmit, UpdateSave, NoPromise,
                 Connected, Open
  <2>3. CASE (\E s \in Sids : UpdateStop(k, s)) \/ UpdateSave(k)
    <3>1. /\ slot[k].pc # "emit" /\ UNCHANGED updates
          /\ \A j \in Slots \ {k} : slot'[j] = slot[j]
      BY <2>1, <2>3 DEF UpdateStop, UpdateSave
    <3>2. \A o : Broadcasting(o) => Broadcasting(o)'
      BY <3>1 DEF Broadcasting
    <3>3. QED
      BY <1>1, <1>2, <2>2, <3>1, <3>2, StaysAnswered
  <2>4. CASE UpdateAppend(k)
    <3>1. /\ slot[k].pc = "append" /\ slot' = [slot EXCEPT ![k].pc = "emit"]
          /\ updates' = updates \cup slot[k].msg.ops
          /\ UNCHANGED <<socket, editor, join, seen, view, former, expelled>>
      BY <2>4 DEF UpdateAppend
    <3>2. /\ slot'[k].pc = "emit" /\ slot'[k].msg = slot[k].msg
          /\ \A j \in Slots \ {k} : slot'[j] = slot[j]
      BY <2>1, <3>1 DEF Handler
    <3>3. /\ \A o : Broadcasting(o) => Broadcasting(o)'
          /\ \A o \in slot[k].msg.ops : Broadcasting(o)'
      BY <3>1, <3>2 DEF Broadcasting
    <3>4. QED
      BY <1>1, <3>1, <3>3 DEF Answered, Connected, Open, Had
  <2>5. CASE UpdateEmit(k)
    <3> DEFINE ops == slot[k].msg.ops
    <3> DEFINE news == {r \in room \ {slot[k].by} :
                           Connected(r) /\ Open(r) /\ ~(ops \subseteq view[r])}
    <3>1. /\ slot[k].pc = "emit" /\ slot' = [slot EXCEPT ![k].pc = "save"]
          /\ view' = [r \in Sids |-> IF r \in news THEN view[r] \cup ops ELSE view[r]]
          /\ UNCHANGED <<updates, socket, editor, join, seen, former, expelled>>
      BY <2>5 DEF UpdateEmit
    <3>2. \A j \in Slots \ {k} : slot'[j] = slot[j]
      BY <2>1, <3>1
    <3>3. \A o : Broadcasting(o) => o \in ops \/ Broadcasting(o)'
      BY <3>2 DEF Broadcasting
    \* Whoever is promised something is in the room, or is the sender.
    <3>4. ASSUME NEW r \in Sids, Connected(r), Open(r), r \notin expelled,
                 join[r] = "emit" \/ editor[r] = "synced"
          PROVE  ops \subseteq Had(r)'
      <4>1. r \in room
        BY <1>1, <3>4 DEF Lives
      <4>2. CASE r = slot[k].by
        BY <1>1, <1>2, <3>1, <4>2 DEF SlotOwn, Had
      <4>3. CASE r # slot[k].by
        BY <3>1, <3>4, <4>1, <4>3 DEF Had
      <4>4. QED
        BY <4>2, <4>3
    <3> HIDE DEF ops, news
    <3>5. ASSUME NEW r \in Sids PROVE Answered(r)'
      <4>1. CASE /\ Connected(r) /\ Open(r) /\ r \notin expelled
                 /\ join[r] = "emit" \/ editor[r] = "synced"
        BY <1>1, <1>2, <2>2, <3>1, <3>3, <3>4, <4>1, StaysAnswered
      <4>2. CASE ~(/\ Connected(r) /\ Open(r) /\ r \notin expelled
                   /\ join[r] = "emit" \/ editor[r] = "synced")
        BY <3>1, <4>2 DEF Answered, Connected, Open
      <4>3. QED
        BY <4>1, <4>2
    <3>6. QED
      BY <3>5
  <2>6. QED
    BY <1>10, <2>3, <2>4, <2>5 DEF Updating
<1>11. ASSUME NEW i \in DOMAIN saves, SaveNote(i) PROVE \A r \in Sids : Answered(r)'
  BY <1>4, <1>11 DEF SaveNote, NoPromise, Connected, Open
<1>12. CASE UNCHANGED vars
  BY <1>4, <1>12 DEF vars, NoPromise, Connected, Open
<1>13. QED
  BY <1>5, <1>6, <1>7, <1>8, <1>9, <1>10, <1>11, <1>12
     DEF Next, Handlers, NoReopening

LEMMA MissInvariance == Spec => []MissInv
<1>1. TypeInv /\ SessionInv /\ MissInv /\ [Next]_vars => MissInv'
  <2>1. SUFFICES ASSUME TypeInv, SessionInv, MissInv, [Next]_vars PROVE MissInv'
    OBVIOUS
  <2>2. Quiet'
    BY <2>1, QuietStep DEF MissInv
  <2>3. InboxOwn' /\ SlotOwn' /\ \A r \in Sids : Answered(r)'
    <3>1. CASE NoReopening
      BY <2>1, <3>1, InboxStep, SlotStep, AnsweredStep DEF MissInv
    <3>2. CASE ~NoReopening
      BY <2>1, <3>2, ReopenStep DEF NoReopening
    <3>3. QED
      BY <3>1, <3>2
  <2>4. AnswerComplete' /\ NoMissedUpdate'
    BY <2>3 DEF Answered, AnswerComplete, NoMissedUpdate, Had
  <2>5. QED
    BY <2>2, <2>3, <2>4 DEF MissInv
<1>2. QED
  BY <1>1, InitMiss, SessionInvariance, PTL DEF Spec

\* A client that joined and is connected has every update of the log or is about
\* to get it, whatever updates are handled while it joins, also between entering
\* the room and reading the log from Redis (ydoc_document_join): the handler enters
\* the room before it reads, and an update is appended before it is broadcast.
THEOREM NothingIsMissed == Spec => []NoMissedUpdate
<1>1. MissInv => NoMissedUpdate
  BY DEF MissInv
<1>2. QED
  BY <1>1, MissInvariance, PTL
-----------------------------------------------------------------------------
\* The log in memory

\* A handler in the middle of its synchronous steps holds the event loop.
Holds(s) == /\ join[s] \in {"enter", "read", "emit"} => turn = <<"join", s>>
            /\ leave[s] \in {"room", "count", "clear", "users"} => turn = <<"leave", s>>
            /\ bye[s] # "idle" => turn = <<"bye", s>>

\* Nobody can change the users between their count and the clearing of the log,
\* and a connected session is a user and in the room, or neither, but for the one
\* whose handler holds the event loop between the two.
Matches(s) == /\ join[s] = "enter" => s \in users
              /\ leave[s] = "room" => s \notin users
              /\ leave[s] \in {"clear", "users"} \/ bye[s] \in {"clear", "users"} => users = {}
              /\ socket[s] = "off" => s \notin users /\ s \notin room
              /\ Connected(s) /\ s \in users => s \in room \/ join[s] = "enter"
              /\ Connected(s) /\ s \in room => s \in users \/ leave[s] = "room"

MemoryInv == ~useRedis => \A s \in Sids : Holds(s) /\ Matches(s)

LEMMA InitMemory == Init => MemoryInv
BY DEF Init, MemoryInv, Holds, Matches, Connected

\* Two handlers do not hold the event loop at once.
LEMMA TurnsDiffer ==
    ASSUME NEW s \in Sids, NEW r \in Sids
    PROVE  /\ <<"join", s>> # <<"leave", r>> /\ <<"join", s>> # <<"bye", r>>
           /\ <<"leave", s>> # <<"bye", r>>
           /\ Free # <<"join", s>> /\ Free # <<"leave", s>> /\ Free # <<"bye", s>>
           /\ s # r => <<"join", s>> # <<"join", r>>
           /\ s # r => <<"leave", s>> # <<"leave", r>>
           /\ s # r => <<"bye", s>> # <<"bye", r>>
BY NamesAssumption

LEMMA UpdateTurnsDiffer ==
    ASSUME NEW s \in Sids, NEW k \in Slots
    PROVE  /\ <<"join", s>> # <<"update", k>> /\ <<"leave", s>> # <<"update", k>>
           /\ <<"bye", s>> # <<"update", k>>
           /\ Free # <<"join", s>> /\ Free # <<"leave", s>> /\ Free # <<"bye", s>>
BY NamesAssumption

LEMMA MemoryStep == TypeInv /\ SessionInv /\ MemoryInv /\ [Next]_vars => MemoryInv'
<1>1. SUFFICES ASSUME TypeInv, SessionInv, MemoryInv, [Next]_vars, ~useRedis'
               PROVE  \A r \in Sids : Holds(r)' /\ Matches(r)'
  BY DEF MemoryInv
<1> USE DEF net, doc, client, db, hist, Connected, MayRun, Await, Command
<1>2. TypeOK /\ \A r \in Sids : Lives(r)
  BY <1>1 DEF TypeInv, SessionInv
<1>3. ASSUME UNCHANGED useRedis PROVE ~useRedis /\ \A r \in Sids : Holds(r) /\ Matches(r)
  BY <1>1, <1>3 DEF MemoryInv
<1>4. ASSUME UNCHANGED <<useRedis, turn, users, room, join, leave, bye, socket>>
      PROVE  \A r \in Sids : Holds(r)' /\ Matches(r)'
  BY <1>3, <1>4 DEF Holds, Matches
<1>5. ASSUME NEW s \in Sids, OpenNote(s)
      PROVE  \A r \in Sids : Holds(r)' /\ Matches(r)'
  <2>1. /\ socket[s] = "off" /\ turn = Free
        /\ socket' = [socket EXCEPT ![s] = "on"] /\ join' = [join EXCEPT ![s] = "add"]
        /\ UNCHANGED <<useRedis, turn, users, room, leave, bye>>
    BY <1>1, <1>5 DEF OpenNote
  <2>2. \A r \in Sids : Holds(r)'
    BY <1>2, <1>3, <2>1, TurnsDiffer DEF Holds, TypeOK
  <2>3. \A r \in Sids : Matches(r)'
    BY <1>2, <1>3, <2>1, TurnsDiffer DEF Holds, Matches, TypeOK
  <2>4. QED
    BY <2>2, <2>3
<1>6. ASSUME NEW s \in Sids, NEW q \in Sids, Reconnect(s, q)
      PROVE  \A r \in Sids : Holds(r)' /\ Matches(r)'
  <2>1. /\ socket[q] = "off" /\ turn = Free
        /\ socket' = [socket EXCEPT ![q] = "on"] /\ join' = [join EXCEPT ![q] = "add"]
        /\ UNCHANGED <<useRedis, turn, users, room, leave, bye>>
    BY <1>1, <1>6 DEF Reconnect
  <2>2. \A r \in Sids : Holds(r)'
    BY <1>2, <1>3, <2>1, TurnsDiffer DEF Holds, TypeOK
  <2>3. \A r \in Sids : Matches(r)'
    BY <1>2, <1>3, <2>1, TurnsDiffer DEF Holds, Matches, TypeOK
  <2>4. QED
    BY <2>2, <2>3
<1>7. ASSUME NEW s \in Sids, CloseNote(s)
      PROVE  \A r \in Sids : Holds(r)' /\ Matches(r)'
  <2>1. /\ leave' = [leave EXCEPT ![s] = "remove"] /\ turn = Free
        /\ UNCHANGED <<useRedis, turn, users, room, join, bye, socket>>
    BY <1>1, <1>7 DEF CloseNote
  <2>2. \A r \in Sids : Holds(r)'
    BY <1>2, <1>3, <2>1, TurnsDiffer DEF Holds, TypeOK
  <2>3. \A r \in Sids : Matches(r)'
    BY <1>2, <1>3, <2>1, TurnsDiffer DEF Holds, Matches, TypeOK
  <2>4. QED
    BY <2>2, <2>3
<1>0. ASSUME NEW s \in Sids, Reopen(s)
      PROVE  \A r \in Sids : Holds(r)' /\ Matches(r)'
  <2>1. /\ socket[s] = "on" /\ turn = Free /\ join[s] = "idle"
        /\ join' = [join EXCEPT ![s] = "add"]
        /\ UNCHANGED <<useRedis, turn, users, room, leave, bye, socket>>
    BY <1>1, <1>0 DEF Reopen
  <2>2. \A r \in Sids : Holds(r)'
    BY <1>2, <1>3, <2>1, TurnsDiffer DEF Holds, TypeOK
  <2>3. \A r \in Sids : Matches(r)'
    BY <1>2, <1>3, <2>1, TurnsDiffer DEF Holds, Matches, TypeOK
  <2>4. QED
    BY <2>2, <2>3
<1>8. ASSUME NEW s \in Sids, JoinAdd(s)
      PROVE  \A r \in Sids : Holds(r)' /\ Matches(r)'
  <2>1. /\ turn \in {Free, <<"join", s>>} /\ join[s] = "add"
        /\ users' = users \cup {s} /\ join' = [join EXCEPT ![s] = "enter"]
        /\ turn' = <<"join", s>> /\ UNCHANGED <<useRedis, room, leave, bye, socket>>
    BY <1>1, <1>8 DEF JoinAdd
  <2>2. \A r \in Sids : Holds(r)'
    BY <1>2, <1>3, <2>1, TurnsDiffer DEF Holds, Lives, TypeOK
  <2>3. \A r \in Sids : Matches(r)'
    BY <1>2, <1>3, <2>1, TurnsDiffer DEF Holds, Matches, Lives, TypeOK
  <2>4. QED
    BY <2>2, <2>3
<1>9. ASSUME NEW s \in Sids, JoinEnter(s)
      PROVE  \A r \in Sids : Holds(r)' /\ Matches(r)'
  <2>1. /\ turn \in {Free, <<"join", s>>} /\ join[s] = "enter"
        /\ room' = IF Connected(s) THEN room \cup {s} ELSE room
        /\ join' = [join EXCEPT ![s] = "read"]
        /\ turn' = <<"join", s>> /\ UNCHANGED <<useRedis, users, leave, bye, socket>>
    BY <1>1, <1>9 DEF JoinEnter
  <2>2. \A r \in Sids : Holds(r)'
    BY <1>2, <1>3, <2>1, TurnsDiffer DEF Holds, Lives, TypeOK
  <2>3. \A r \in Sids : Matches(r)'
    BY <1>2, <1>3, <2>1, TurnsDiffer DEF Holds, Matches, Lives, TypeOK
  <2>4. QED
    BY <2>2, <2>3
<1>10. ASSUME NEW s \in Sids, JoinRead(s) \/ JoinEmit(s)
      PROVE  \A r \in Sids : Holds(r)' /\ Matches(r)'
  <2>1. /\ turn \in {Free, <<"join", s>>} /\ join[s] \in {"read", "emit"}
        /\ \/ join' = [join EXCEPT ![s] = "emit"] /\ turn' = <<"join", s>>
           \/ join' = [join EXCEPT ![s] = "idle"] /\ turn' = Free
        /\ UNCHANGED <<useRedis, users, room, leave, bye, socket>>
    BY <1>1, <1>10 DEF JoinRead, JoinEmit
  <2>2. \A r \in Sids : Holds(r)'
    BY <1>2, <1>3, <2>1, TurnsDiffer DEF Holds, TypeOK
  <2>3. \A r \in Sids : Matches(r)'
    BY <1>2, <1>3, <2>1, TurnsDiffer DEF Holds, Matches, TypeOK
  <2>4. QED
    BY <2>2, <2>3
<1>11. ASSUME NEW s \in Sids, LeaveRemove(s)
      PROVE  \A r \in Sids : Holds(r)' /\ Matches(r)'
  <2>1. /\ turn \in {Free, <<"leave", s>>}
        /\ UNCHANGED <<useRedis, join, bye, socket>>
        /\ leave[s] = "remove" /\ leave' = [leave EXCEPT ![s] = "room"]
        /\ users' = users \ {s} /\ turn' = <<"leave", s>> /\ UNCHANGED room
    BY <1>1, <1>11 DEF LeaveRemove, LeaveStep
  <2>2. \A r \in Sids : Holds(r)'
    BY <1>2, <1>3, <2>1, TurnsDiffer DEF Holds, TypeOK
  <2>3. \A r \in Sids : Matches(r)'
    BY <1>2, <1>3, <2>1, TurnsDiffer DEF Holds, Matches, TypeOK
  <2>4. QED
    BY <2>2, <2>3
<1>12. ASSUME NEW s \in Sids, LeaveRoom(s)
      PROVE  \A r \in Sids : Holds(r)' /\ Matches(r)'
  <2>1. /\ turn \in {Free, <<"leave", s>>}
        /\ UNCHANGED <<useRedis, join, bye, socket>>
        /\ leave[s] = "room" /\ leave' = [leave EXCEPT ![s] = "exists"]
        /\ room' = room \ {s} /\ turn' = Free /\ UNCHANGED users
    BY <1>1, <1>12 DEF LeaveRoom, LeaveStep
  <2>2. \A r \in Sids : Holds(r)'
    BY <1>2, <1>3, <2>1, TurnsDiffer DEF Holds, TypeOK
  <2>3. \A r \in Sids : Matches(r)'
    BY <1>2, <1>3, <2>1, TurnsDiffer DEF Holds, Matches, TypeOK
  <2>4. QED
    BY <2>2, <2>3
<1>13. ASSUME NEW s \in Sids, LeaveExists(s) \/ LeaveCount(s)
      PROVE  \A r \in Sids : Holds(r)' /\ Matches(r)'
  <2>1. /\ turn \in {Free, <<"leave", s>>}
        /\ UNCHANGED <<useRedis, join, bye, socket>>
        /\ leave[s] \in {"exists", "count"} /\ UNCHANGED <<users, room>>
        /\ \/ leave' = [leave EXCEPT ![s] = "idle"] /\ turn' = Free
           \/ leave' = [leave EXCEPT ![s] = "count"] /\ turn' = <<"leave", s>>
           \/ /\ leave' = [leave EXCEPT ![s] = "clear"] /\ turn' = <<"leave", s>>
              /\ users = {}
    BY <1>1, <1>13 DEF LeaveExists, LeaveCount, LeaveStep
  <2>2. \A r \in Sids : Holds(r)'
    BY <1>2, <1>3, <2>1, TurnsDiffer DEF Holds, TypeOK
  <2>3. \A r \in Sids : Matches(r)'
    BY <1>2, <1>3, <2>1, TurnsDiffer DEF Holds, Matches, TypeOK
  <2>4. QED
    BY <2>2, <2>3
<1>14. ASSUME NEW s \in Sids, LeaveClear(s) \/ LeaveClearUsers(s)
      PROVE  \A r \in Sids : Holds(r)' /\ Matches(r)'
  <2>1. /\ turn \in {Free, <<"leave", s>>}
        /\ UNCHANGED <<useRedis, join, bye, socket>>
        /\ leave[s] \in {"clear", "users"} /\ UNCHANGED room
        /\ users' = users \/ users' = {}
        /\ \/ leave' = [leave EXCEPT ![s] = "users"] /\ turn' = <<"leave", s>>
           \/ leave' = [leave EXCEPT ![s] = "idle"] /\ turn' = Free
    BY <1>1, <1>14 DEF LeaveClear, LeaveClearUsers, LeaveStep
  <2>2. \A r \in Sids : Holds(r)'
    BY <1>2, <1>3, <2>1, TurnsDiffer DEF Holds, TypeOK
  <2>3. \A r \in Sids : Matches(r)'
    BY <1>2, <1>3, <2>1, TurnsDiffer DEF Holds, Matches, TypeOK
  <2>4. QED
    BY <2>2, <2>3
<1>15. ASSUME NEW s \in Sids, Disconnect(s)
      PROVE  \A r \in Sids : Holds(r)' /\ Matches(r)'
  <2>1. /\ turn \in {Free, <<"bye", s>>}
        /\ UNCHANGED <<useRedis, join, leave>>
        /\ Connected(s) /\ turn = Free /\ turn' = <<"bye", s>>
        /\ bye' = [bye EXCEPT ![s] = "scan"] /\ socket' = [socket EXCEPT ![s] = "closing"]
        /\ UNCHANGED <<users, room>>
    BY <1>1, <1>15 DEF Disconnect, ByeStep
  <2>2. \A r \in Sids : Holds(r)'
    BY <1>2, <1>3, <2>1, TurnsDiffer DEF Holds, TypeOK
  <2>3. \A r \in Sids : Matches(r)'
    BY <1>2, <1>3, <2>1, TurnsDiffer DEF Holds, Matches, TypeOK
  <2>4. QED
    BY <2>2, <2>3
<1>16. ASSUME NEW s \in Sids, ByeScan(s) \/ ByeRemove(s) \/ ByeCount(s)
      PROVE  \A r \in Sids : Holds(r)' /\ Matches(r)'
  <2>1. /\ turn \in {Free, <<"bye", s>>}
        /\ UNCHANGED <<useRedis, join, leave>>
        /\ bye[s] \in {"scan", "remove", "count"} /\ turn' = <<"bye", s>>
        /\ \/ bye' = [bye EXCEPT ![s] = "room"]
           \/ bye' = [bye EXCEPT ![s] = "remove"]
           \/ bye' = [bye EXCEPT ![s] = "count"]
           \/ bye' = [bye EXCEPT ![s] = "clear"] /\ users = {}
        /\ users' = users \/ users' = users \ {s}
        /\ UNCHANGED <<socket, room>>
    BY <1>1, <1>16 DEF ByeScan, ByeRemove, ByeCount, ByeStep
  <2>2. \A r \in Sids : Holds(r)'
    BY <1>2, <1>3, <2>1, TurnsDiffer DEF Holds, Lives, TypeOK
  <2>3. \A r \in Sids : Matches(r)'
    BY <1>2, <1>3, <2>1, TurnsDiffer DEF Holds, Matches, Lives, TypeOK
  <2>4. QED
    BY <2>2, <2>3
<1>17. ASSUME NEW s \in Sids, ByeClear(s) \/ ByeClearUsers(s)
      PROVE  \A r \in Sids : Holds(r)' /\ Matches(r)'
  <2>1. /\ turn \in {Free, <<"bye", s>>}
        /\ UNCHANGED <<useRedis, join, leave>>
        /\ bye[s] \in {"clear", "users"} /\ turn' = <<"bye", s>>
        /\ \/ bye' = [bye EXCEPT ![s] = "users"]
           \/ bye' = [bye EXCEPT ![s] = "room"]
        /\ users' = users \/ users' = {}
        /\ UNCHANGED <<socket, room>>
    BY <1>1, <1>17 DEF ByeClear, ByeClearUsers, ByeStep
  <2>2. \A r \in Sids : Holds(r)'
    BY <1>2, <1>3, <2>1, TurnsDiffer DEF Holds, TypeOK
  <2>3. \A r \in Sids : Matches(r)'
    BY <1>2, <1>3, <2>1, TurnsDiffer DEF Holds, Matches, TypeOK
  <2>4. QED
    BY <2>2, <2>3
<1>18. ASSUME NEW s \in Sids, ByeRoom(s)
      PROVE  \A r \in Sids : Holds(r)' /\ Matches(r)'
  <2>1. /\ turn \in {Free, <<"bye", s>>}
        /\ UNCHANGED <<useRedis, join, leave>>
        /\ bye[s] = "room" /\ bye' = [bye EXCEPT ![s] = "idle"] /\ turn' = Free
        /\ socket' = [socket EXCEPT ![s] = "gone"] /\ room' = room \ {s}
        /\ UNCHANGED users
    BY <1>1, <1>18 DEF ByeRoom, ByeStep
  <2>2. \A r \in Sids : Holds(r)'
    BY <1>2, <1>3, <2>1, TurnsDiffer DEF Holds, Lives, TypeOK
  <2>3. \A r \in Sids : Matches(r)'
    BY <1>2, <1>3, <2>1, TurnsDiffer DEF Holds, Matches, Lives, TypeOK
  <2>4. QED
    BY <2>2, <2>3
<1>19. ASSUME NEW k \in Slots, Updating(k)
      PROVE  \A r \in Sids : Holds(r)' /\ Matches(r)'
  <2>1. /\ turn \in {Free, <<"update", k>>} /\ turn' \in {Free, <<"update", k>>}
        /\ UNCHANGED <<useRedis, users, room, join, leave, bye, socket>>
    BY <1>1, <1>19 DEF Updating, UpdateStop, UpdateAppend, UpdateEmit, UpdateSave
  <2>2. \A r \in Sids : Holds(r)'
    BY <1>2, <1>3, <2>1, UpdateTurnsDiffer DEF Holds, TypeOK
  <2>3. \A r \in Sids : Matches(r)'
    BY <1>2, <1>3, <2>1, UpdateTurnsDiffer DEF Holds, Matches, TypeOK
  <2>4. QED
    BY <2>2, <2>3
<1>20. ASSUME NEW s \in Sids, NEW e \in Edits, Edit(s, e)
       PROVE  \A r \in Sids : Holds(r)' /\ Matches(r)'
  BY <1>4, <1>20 DEF Edit
<1>21. ASSUME NEW i \in DOMAIN saves, SaveNote(i)
       PROVE  \A r \in Sids : Holds(r)' /\ Matches(r)'
  BY <1>4, <1>21 DEF SaveNote
<1>22. CASE UNCHANGED vars
  BY <1>4, <1>22 DEF vars
<1>23. QED
  BY <1>1, <1>0, <1>5, <1>6, <1>7, <1>8, <1>9, <1>10, <1>11, <1>12, <1>13, <1>14, <1>15, <1>16,
     <1>17, <1>18, <1>19, <1>20, <1>21, <1>22
     DEF Next, Handlers

LEMMA MemoryInvariance == Spec => [](TypeInv /\ SessionInv /\ MemoryInv)
BY InitMemory, MemoryStep, SessionInvariance, PTL DEF Spec

\* With the log in memory, the users of the document are the connected sessions
\* that are in its room (YdocManager.add_user and remove_user, enter_room and
\* leave_room), whenever no handler is between the two.
THEOREM UsersAreInRoom == Spec => []UsersMatchRoom
<1>1. TypeInv /\ SessionInv /\ MemoryInv => UsersMatchRoom
  <2>1. SUFFICES ASSUME TypeInv, MemoryInv, turn = Free, ~useRedis, NEW s \in Sids, Connected(s)
                 PROVE  s \in users <=> s \in room
    BY DEF UsersMatchRoom, TypeInv, TypeOK
  <2>2. Holds(s) /\ Matches(s)
    BY <2>1 DEF MemoryInv
  <2>3. join[s] # "enter" /\ leave[s] # "room"
    BY <2>1, <2>2, TurnsDiffer DEF Holds
  <2>4. QED
    BY <2>1, <2>2, <2>3 DEF Matches
<1>2. QED
  BY <1>1, MemoryInvariance, PTL

\* With the log in memory, a document that a connected client edits has users, but
\* for the moment in which the handler of that client's own leave takes it out.
LEMMA InUseHasUsers ==
    ASSUME TypeInv, MemoryInv, ~useRedis, InUse
    PROVE  users # {} \/ \E s \in Sids : turn = <<"leave", s>> /\ leave[s] = "room"
<1>1. PICK s \in room : Connected(s) /\ Open(s)
  BY DEF InUse
<1>2. s \in Sids /\ Matches(s) /\ Holds(s)
  BY DEF TypeInv, TypeOK, MemoryInv
<1>3. QED
  BY <1>1, <1>2 DEF Matches, Holds

\* With the log in memory, the log is only thrown away when no connected client
\* edits the document (yjs_document_leave and remove_user_from_all_documents).
THEOREM LogOfNobody == Spec => ClearedWhenUnusedInMemory
<1>1. TypeInv /\ SessionInv /\ MemoryInv /\ [Next]_vars
         => [LogCleared /\ ~useRedis => ~InUse]_vars
  <2>1. SUFFICES ASSUME TypeInv, SessionInv, MemoryInv, Next, LogCleared, ~useRedis
                 PROVE  ~InUse
    BY DEF vars
  <2> DEFINE Alone == users = {} /\ ~\E r \in Sids : turn = <<"leave", r>> /\ leave[r] = "room"
  <2>2. ASSUME NEW s \in Sids, LeaveClear(s) PROVE Alone
    <3>1. leave[s] = "clear" /\ Holds(s) /\ Matches(s)
      BY <2>1, <2>2 DEF LeaveClear, LeaveStep, MemoryInv
    <3>2. users = {} /\ turn = <<"leave", s>>
      BY <3>1 DEF Holds, Matches
    <3>3. QED
      BY <3>1, <3>2, TurnsDiffer
  <2>3. ASSUME NEW s \in Sids, ByeClear(s) PROVE Alone
    <3>1. bye[s] = "clear" /\ Holds(s) /\ Matches(s)
      BY <2>1, <2>3 DEF ByeClear, ByeStep, MemoryInv
    <3>2. users = {} /\ turn = <<"bye", s>>
      BY <3>1 DEF Holds, Matches
    <3>3. QED
      BY <3>1, <3>2, TurnsDiffer
  \* No other step shrinks the log.
  <2>4. Alone
    <3>1. updates # {} /\ updates' = {}
      BY <2>1 DEF LogCleared
    <3>2. ASSUME NEW s \in Sids, \/ OpenNote(s) \/ CloseNote(s) \/ Reopen(s) \/ Disconnect(s)
                                 \/ \E r \in Sids : Reconnect(s, r)
                                 \/ \E e \in Edits : Edit(s, e)
          PROVE  updates' = updates
      BY <3>2 DEF OpenNote, CloseNote, Reopen, Disconnect, Reconnect, Edit, doc
    <3>3. ASSUME NEW s \in Sids, Handlers(s), ~LeaveClear(s), ~ByeClear(s)
          PROVE  updates' = updates
      BY <3>3
         DEF Handlers, JoinAdd, JoinEnter, JoinRead, JoinEmit, LeaveRemove, LeaveRoom,
             LeaveExists, LeaveCount, LeaveClearUsers, ByeScan, ByeRemove, ByeCount, ByeClearUsers,
             ByeRoom, doc
    <3>4. ASSUME NEW k \in Slots, Updating(k) PROVE updates \subseteq updates'
      BY <3>4 DEF Updating, UpdateStop, UpdateAppend, UpdateEmit, UpdateSave, doc
    <3>5. ASSUME NEW i \in DOMAIN saves, SaveNote(i) PROVE updates' = updates
      BY <3>5 DEF SaveNote, doc
    <3>6. QED
      BY <2>1, <2>2, <2>3, <3>1, <3>2, <3>3, <3>4, <3>5 DEF Next
  <2>5. QED
    BY <2>1, <2>4, InUseHasUsers
<1>2. QED
  BY <1>1, MemoryInvariance, PTL DEF Spec, ClearedWhenUnusedInMemory
-----------------------------------------------------------------------------
\* The stored content is inserted once

\* The insertion of a session comes from its own replica, and a client is told
\* the document's state by then.
InsertedByOwner ==
    \A s, r \in Sids : s \in Had(r) \/ s \in updates \/ s \in seen[r].log => s \in view[s]
InsertedWhenTold == \A s \in Sids : s \in view[s] => editor[s] \notin {"closed", "waiting"}

\* A connected client that inserted the content, or found nobody else of its
\* instance in the room and may insert it, and that was not expelled from the room.
Claims(s) == /\ Connected(s) /\ Open(s) /\ s \notin expelled
             /\ (join[s] \in {"read", "emit"} /\ seen[s].alone) \/ s \in view[s]

OneClaim == \A s, r \in Sids : Claims(s) /\ Claims(r) /\ inst[s] = inst[r] => s = r

InsertInv == InsertedByOwner /\ InsertedWhenTold /\ OneClaim

LEMMA InitInsert == Init => InsertInv
BY DEF Init, InsertInv, InsertedByOwner, Had, InsertedWhenTold, OneClaim, Claims, Connected, NothingSeen

LEMMA OwnerStep ==
    ASSUME TypeInv, SessionInv, MissInv, InsertedByOwner, [Next]_vars
    PROVE  InsertedByOwner'
<1> USE DEF net, doc, client, db, hist
<1>1. /\ TypeOK /\ SlotOwn /\ \A k \in Slots : slot[k].pc # "free" <=> slot[k].by \in Sids
      /\ \A k \in Slots : slot[k].pc # "free" => slot[k].msg.ops \subseteq Had(slot[k].by)
  BY DEF TypeInv, MissInv, Handling, SlotOwn, Had
<1>2. \A r \in Sids : r \in view[r] => r \in view'[r]
  BY ViewsGrow DEF Reopen
\* Whatever turns up somewhere was somewhere before.
<1>3. ASSUME \A s, r \in Sids : s \in Had(r)' \/ s \in updates' \/ s \in seen'[r].log =>
                 s \in view'[s] \/ \E q \in Sids : s \in Had(q) \/ s \in updates \/ s \in seen[q].log
      PROVE  InsertedByOwner'
  BY <1>2, <1>3 DEF InsertedByOwner
<1>4. ASSUME \A r \in Sids : Had(r)' \subseteq Had(r), updates' \subseteq updates,
             \A r \in Sids : seen'[r].log \subseteq updates \/ seen'[r].log \subseteq seen[r].log
      PROVE  InsertedByOwner'
  BY <1>3, <1>4
<1>0. ASSUME NEW s \in Sids, Reopen(s) PROVE InsertedByOwner'
  <2>1. /\ view' = [view EXCEPT ![s] = {}]
        /\ former'[s] = UNION {slot[k].msg.ops : k \in {k \in Slots : slot[k].by = s}}
        /\ \A r \in Sids \ {s} : former'[r] = former[r] /\ view'[r] = view[r]
        /\ UNCHANGED <<updates, seen>>
    BY <1>0, Reopening
  <2>2. view'[s] = {}
    BY <1>1, <2>1 DEF TypeOK
  <2>3. former'[s] \subseteq Had(s)
    BY <1>1, <2>1
  <2>4. \A r \in Sids : Had(r)' \subseteq Had(r)
    BY <2>1, <2>2, <2>3 DEF Had
  <2>5. QED
    BY <1>4, <2>1, <2>4
<1>5. ASSUME NEW s \in Sids, NEW q \in Sids, Reconnect(s, q) PROVE InsertedByOwner'
  <2>1. view' = [view EXCEPT ![q] = view[s]] /\ UNCHANGED <<updates, seen, former>>
    BY <1>5 DEF Reconnect
  <2>2. \A r \in Sids : Had(r)' = Had(r) \/ Had(r)' \subseteq Had(r) \cup Had(s)
    BY <1>1, <2>1 DEF TypeOK, Had
  <2>3. QED
    BY <1>3, <2>1, <2>2
<1>6. ASSUME NEW s \in Sids, NEW e \in Edits, Edit(s, e) PROVE InsertedByOwner'
  <2>1. view' = [view EXCEPT ![s] = @ \cup {e}] /\ UNCHANGED <<updates, seen, former>>
    BY <1>6 DEF Edit
  <2>2. \A r \in Sids : Had(r)' \subseteq Had(r) \cup {e}
    BY <1>1, <2>1 DEF TypeOK, Had
  <2>3. e \notin Sids
    BY NamesAssumption
  <2>4. QED
    BY <1>3, <2>1, <2>2, <2>3
<1>7. ASSUME NEW s \in Sids, JoinAdd(s) \/ JoinEnter(s) \/ JoinRead(s) PROVE InsertedByOwner'
  <2>1. /\ UNCHANGED <<view, updates, former>>
        /\ \/ UNCHANGED seen
           \/ \E alone : seen' = [seen EXCEPT ![s].alone = alone]
           \/ seen' = [seen EXCEPT ![s].log = updates]
    BY <1>7 DEF JoinAdd, JoinEnter, JoinRead
  <2>2. seen \in [Sids -> [log : SUBSET Ops, alone : BOOLEAN]]
    BY <1>1 DEF TypeOK
  <2>3. ASSUME NEW alone, seen' = [seen EXCEPT ![s].alone = alone]
        PROVE  \A r \in Sids : seen'[r].log = seen[r].log
    BY <2>2, <2>3
  <2>4. \A r \in Sids : seen'[r].log = updates \/ seen'[r].log = seen[r].log
    BY <2>1, <2>2, <2>3
  <2>5. QED
    BY <1>4, <2>1, <2>4 DEF Had
<1>8. ASSUME NEW s \in Sids, JoinEmit(s) PROVE InsertedByOwner'
  <2>1. /\ seen' = [seen EXCEPT ![s] = NothingSeen] /\ UNCHANGED <<updates, former>>
        /\ \/ UNCHANGED view
           \/ view' = [view EXCEPT ![s] = {s}]
           \/ view' = [view EXCEPT ![s] = view[s] \cup seen[s].log]
    BY <1>8 DEF JoinEmit
  <2>2. \A r \in Sids : seen'[r].log \subseteq seen[r].log
    BY <1>1, <2>1 DEF TypeOK, NothingSeen
  <2>3. CASE view' = [view EXCEPT ![s] = {s}]
    <3>1. s \in view'[s] /\ \A r \in Sids : Had(r)' \subseteq Had(r) \cup {s}
      BY <1>1, <2>1, <2>3 DEF TypeOK, Had
    <3>2. QED
      BY <1>3, <2>1, <2>2, <3>1
  <2>4. CASE view' = [view EXCEPT ![s] = view[s] \cup seen[s].log]
    <3>1. \A r \in Sids : Had(r)' \subseteq Had(r) \cup seen[s].log
      BY <1>1, <2>1, <2>4 DEF TypeOK, Had
    <3>2. QED
      BY <1>3, <2>1, <2>2, <3>1
  <2>5. CASE UNCHANGED view
    BY <1>4, <2>1, <2>2, <2>5 DEF Had
  <2>6. QED
    BY <2>1, <2>3, <2>4, <2>5
<1>9. ASSUME NEW k \in Slots, UpdateAppend(k) PROVE InsertedByOwner'
  <2>1. /\ updates' = updates \cup slot[k].msg.ops /\ slot[k].pc = "append"
        /\ UNCHANGED <<view, seen, former>>
    BY <1>9 DEF UpdateAppend
  <2>2. slot[k].by \in Sids /\ slot[k].msg.ops \subseteq Had(slot[k].by)
    BY <1>1, <2>1
  <2>3. \A r \in Sids : Had(r)' = Had(r)
    BY <2>1 DEF Had
  <2>4. QED
    BY <1>3, <2>1, <2>2, <2>3
<1>10. ASSUME NEW k \in Slots, UpdateEmit(k) PROVE InsertedByOwner'
  <2>1. /\ UNCHANGED <<updates, seen, former>> /\ slot[k].pc = "emit"
        /\ \A r \in Sids : view'[r] \subseteq view[r] \cup slot[k].msg.ops
    BY <1>10 DEF UpdateEmit
  <2>2. slot[k].by \in Sids /\ slot[k].msg.ops \subseteq Had(slot[k].by)
    BY <1>1, <2>1
  <2>3. \A r \in Sids : Had(r)' \subseteq Had(r) \cup slot[k].msg.ops
    BY <2>1 DEF Had
  <2>4. QED
    BY <1>3, <2>1, <2>2, <2>3
<1>11. ASSUME NEW s \in Sids,
              \/ OpenNote(s) \/ CloseNote(s) \/ Disconnect(s)
              \/ LeaveRemove(s) \/ LeaveRoom(s) \/ LeaveExists(s) \/ LeaveCount(s)
              \/ LeaveClear(s) \/ LeaveClearUsers(s)
              \/ ByeScan(s) \/ ByeRemove(s) \/ ByeCount(s) \/ ByeClear(s) \/ ByeClearUsers(s) \/ ByeRoom(s)
       PROVE  InsertedByOwner'
  <2>1. UNCHANGED <<view, former, seen>> /\ updates' \subseteq updates
    BY <1>11
       DEF OpenNote, CloseNote, Disconnect, LeaveStep, LeaveRemove, LeaveRoom, LeaveExists,
           LeaveCount, LeaveClear, LeaveClearUsers, ByeStep, ByeScan, ByeRemove, ByeCount, ByeClear,
           ByeClearUsers, ByeRoom
  <2>2. QED
    BY <1>4, <2>1 DEF Had
<1>12. ASSUME NEW k \in Slots, UpdateSave(k) \/ \E s \in Sids : UpdateStop(k, s)
       PROVE  InsertedByOwner'
  BY <1>4, <1>12 DEF UpdateSave, UpdateStop, Had
<1>13. ASSUME NEW i \in DOMAIN saves, SaveNote(i) PROVE InsertedByOwner'
  BY <1>4, <1>13 DEF SaveNote, Had
<1>14. CASE UNCHANGED vars
  BY <1>4, <1>14 DEF vars, Had
<1>15. QED
  BY <1>0, <1>5, <1>6, <1>7, <1>8, <1>9, <1>10, <1>11, <1>12, <1>13, <1>14
     DEF Next, Handlers, Updating

\* Only the client itself inserts the content it fetched.
LEMMA NewInsertion ==
    ASSUME TypeInv, SessionInv, MissInv, InsertedByOwner, [Next]_vars,
           NEW s \in Sids, s \in view'[s], s \notin view[s]
    PROVE  /\ JoinEmit(s) /\ MayInsert(s)
           /\ Connected(s) /\ Open(s) /\ editor'[s] = "synced"
<1> USE DEF net, doc, client, db, hist
<1>1. /\ TypeOK /\ SlotOwn /\ (\A k \in Slots : slot[k].pc # "free" => slot[k].by \in Sids)
      /\ \A k \in Slots : slot[k].pc # "free" => slot[k].msg.ops \subseteq Had(slot[k].by)
      /\ view \in [Sids -> SUBSET Ops] /\ editor \in [Sids -> EditorStates]
  BY DEF TypeInv, TypeOK, MissInv, SlotOwn, Handling, Had
<1>2. \A r \in Sids : s \notin Had(r) /\ s \notin view[r] /\ s \notin seen[r].log
  BY DEF InsertedByOwner, Had
<1>3. ASSUME NEW q \in Sids, NEW r \in Sids, Reconnect(q, r) PROVE FALSE
  BY <1>1, <1>2, <1>3 DEF Reconnect
<1>4. ASSUME NEW q \in Sids, NEW e \in Edits, Edit(q, e) PROVE FALSE
  BY <1>1, <1>2, <1>4, NamesAssumption DEF Edit
<1>5. ASSUME NEW q \in Sids, JoinEmit(q) PROVE q = s /\ MayInsert(s) /\ Connected(s) /\ Open(s)
                                               /\ editor'[s] = "synced"
  <2>1. \/ UNCHANGED view
        \/ /\ Connected(q) /\ Open(q) /\ editor' = [editor EXCEPT ![q] = "synced"]
           /\ MayInsert(q) /\ view' = [view EXCEPT ![q] = {q}]
        \/ view' = [view EXCEPT ![q] = view[q] \cup seen[q].log]
    BY <1>5 DEF JoinEmit
  <2>2. QED
    BY <1>1, <1>2, <2>1
<1>6. ASSUME NEW k \in Slots, UpdateEmit(k) PROVE FALSE
  <2>1. slot[k].pc = "emit" /\ view'[s] \subseteq view[s] \cup slot[k].msg.ops
    BY <1>6 DEF UpdateEmit
  <2>2. slot[k].msg.ops \subseteq Had(slot[k].by) /\ slot[k].by \in Sids
    BY <1>1, <2>1
  <2>3. QED
    BY <1>2, <2>1, <2>2
<1>0. ASSUME NEW q \in Sids, Reopen(q) PROVE FALSE
  BY <1>1, <1>0 DEF Reopen
<1>7. ASSUME NEW q \in Sids, OpenNote(q) \/ CloseNote(q) \/ Disconnect(q) PROVE FALSE
  BY <1>7 DEF OpenNote, CloseNote, Disconnect, ByeStep
<1>8. ASSUME NEW q \in Sids, Handlers(q), ~JoinEmit(q) PROVE FALSE
  BY <1>8
     DEF Handlers, JoinAdd, JoinEnter, JoinRead, LeaveStep, LeaveRemove, LeaveRoom, LeaveExists,
         LeaveCount, LeaveClear, LeaveClearUsers, ByeStep, ByeScan, ByeRemove, ByeCount, ByeClear,
         ByeClearUsers, ByeRoom
<1>9. ASSUME NEW k \in Slots, Updating(k), ~UpdateEmit(k) PROVE FALSE
  BY <1>9 DEF Updating, UpdateStop, UpdateAppend, UpdateSave
<1>10. ASSUME NEW i \in DOMAIN saves, SaveNote(i) PROVE FALSE
  BY <1>10 DEF SaveNote
<1>11. CASE UNCHANGED vars
  BY <1>11 DEF vars
<1>12. QED
  BY <1>0, <1>3, <1>4, <1>5, <1>6, <1>7, <1>8, <1>9, <1>10, <1>11 DEF Next

\* Whoever claims the document is in the room.
LEMMA ClaimantsAreInRoom ==
    ASSUME SessionInv, InsertedWhenTold, NEW s \in Sids, Claims(s)
    PROVE  s \in room
BY DEF SessionInv, Lives, InsertedWhenTold, Claims, Open

LEMMA ToldStep ==
    ASSUME TypeInv, SessionInv, MissInv, InsertedByOwner, InsertedWhenTold, [Next]_vars
    PROVE  InsertedWhenTold'
<1> USE DEF net, doc, client, db, hist
<1>1. TypeOK /\ \A s \in Sids : Lives(s)
  BY DEF TypeInv, SessionInv
<1>2. SUFFICES ASSUME NEW s \in Sids, s \in view'[s] PROVE editor'[s] \notin {"closed", "waiting"}
  BY DEF InsertedWhenTold
<1>3. CASE s \notin view[s]
  BY <1>2, <1>3, NewInsertion
<1>4. CASE s \in view[s]
  <2>1. editor[s] \notin {"closed", "waiting"} /\ socket[s] # "off"
    BY <1>1, <1>4 DEF InsertedWhenTold, Lives
  <2>2. CASE UNCHANGED editor
    BY <2>1, <2>2
  <2>3. ASSUME NEW q \in Sids, OpenNote(q) \/ CloseNote(q) \/ Disconnect(q)
        PROVE  editor'[s] \notin {"closed", "waiting"}
    BY <1>1, <2>1, <2>3 DEF OpenNote, CloseNote, Disconnect, TypeOK, Open
  <2>0. ASSUME NEW q \in Sids, Reopen(q) PROVE editor'[s] \notin {"closed", "waiting"}
    BY <1>1, <1>4, <2>1, <2>0 DEF Reopen, TypeOK
  <2>4. ASSUME NEW q \in Sids, NEW r \in Sids, Reconnect(q, r)
        PROVE  editor'[s] \notin {"closed", "waiting"}
    BY <1>1, <2>1, <2>4 DEF Reconnect, TypeOK
  <2>5. ASSUME NEW q \in Sids, JoinEmit(q)
        PROVE  editor'[s] \notin {"closed", "waiting"}
    <3>1. UNCHANGED editor \/ editor' = [editor EXCEPT ![q] = "synced"]
      BY <2>5 DEF JoinEmit
    <3>2. QED
      BY <1>1, <2>1, <3>1 DEF TypeOK
  <2>6. ASSUME NEW q \in Sids, Handlers(q), ~JoinEmit(q) PROVE UNCHANGED editor
    BY <2>6
       DEF Handlers, JoinAdd, JoinEnter, JoinRead, LeaveStep, LeaveRemove, LeaveRoom,
           LeaveExists, LeaveCount, LeaveClear, LeaveClearUsers, ByeScan, ByeRemove, ByeCount,
           ByeClear, ByeClearUsers, ByeRoom
  <2>7. ASSUME NEW q \in Sids, NEW e \in Edits, Edit(q, e) PROVE UNCHANGED editor
    BY <2>7 DEF Edit
  <2>8. ASSUME NEW k \in Slots, Updating(k) PROVE UNCHANGED editor
    BY <2>8 DEF Updating, UpdateStop, UpdateAppend, UpdateEmit, UpdateSave
  <2>9. ASSUME NEW i \in DOMAIN saves, SaveNote(i) PROVE UNCHANGED editor
    BY <2>9 DEF SaveNote
  <2>10. CASE UNCHANGED vars
    BY <2>1, <2>10 DEF vars
  <2>11. QED
    BY <2>0, <2>2, <2>3, <2>4, <2>5, <2>6, <2>7, <2>8, <2>9, <2>10 DEF Next
<1>5. QED
  BY <1>3, <1>4

\* But for opening the note again, nobody is connected, edits or comes back from
\* being expelled, and what the join handler saw in the room stays what it saw.
LEMMA NoReturn ==
    ASSUME TypeInv, SessionInv, [Next]_vars, NEW s \in Sids, ~JoinEnter(s), ~Reopen(s)
    PROVE  /\ Connected(s)' => Connected(s) \/ (socket[s] = "off" /\ join'[s] = "add")
           /\ Open(s)' => Open(s) \/ editor[s] = "closed"
           /\ s \in expelled => s \in expelled'
           /\ join'[s] \in {"read", "emit"} =>
                 join[s] \in {"read", "emit"} /\ seen'[s].alone = seen[s].alone
<1> USE DEF net, doc, client, db, hist, Connected, Open
<1>1. TypeOK
  BY DEF TypeInv
<1> DEFINE Kept ==
             /\ socket'[s] = "on" => socket[s] = "on" \/ (socket[s] = "off" /\ join'[s] = "add")
             /\ editor'[s] \in {"waiting", "synced"} =>
                   editor[s] \in {"closed", "waiting", "synced"}
             /\ s \in expelled => s \in expelled'
             /\ join'[s] \in {"read", "emit"} =>
                   join[s] \in {"read", "emit"} /\ seen'[s].alone = seen[s].alone
<1>2. ASSUME UNCHANGED <<socket, editor, join, seen>>,
                         expelled \subseteq expelled' PROVE Kept
  BY <1>2
<1>0. ASSUME NEW q \in Sids, Reopen(q) PROVE Kept
  <2>1. q # s
    BY <1>0
  <2>2. QED
    BY <1>1, <1>0, <2>1 DEF Reopen, TypeOK
<1>3. ASSUME NEW q \in Sids, OpenNote(q) PROVE Kept
  <2>1. editor[q] = "closed"
    BY <1>3 DEF OpenNote, SessionInv, Lives
  <2>2. QED
    BY <1>1, <1>3, <2>1 DEF OpenNote, TypeOK
<1>4. ASSUME NEW q \in Sids, CloseNote(q) PROVE Kept
  BY <1>1, <1>4 DEF CloseNote, TypeOK
<1>5. ASSUME NEW q \in Sids, Disconnect(q) PROVE Kept
  BY <1>1, <1>5 DEF Disconnect, ByeStep, TypeOK
<1>6. ASSUME NEW q \in Sids, NEW r \in Sids, Reconnect(q, r) PROVE Kept
  <2>1. editor[r] = "closed"
    BY <1>6 DEF Reconnect, SessionInv, Lives
  <2>2. QED
    BY <1>1, <1>6, <2>1 DEF Reconnect, TypeOK
<1>7. ASSUME NEW q \in Sids, JoinAdd(q) PROVE Kept
  BY <1>1, <1>7 DEF JoinAdd, TypeOK
<1>8. ASSUME NEW q \in Sids, JoinEnter(q) PROVE Kept
  <2>1. q # s
    BY <1>8
  <2>2. /\ UNCHANGED <<socket, editor, expelled>> /\ join' = [join EXCEPT ![q] = "read"]
        /\ \E alone : seen' = [seen EXCEPT ![q].alone = alone]
    BY <1>8 DEF JoinEnter
  <2>3. QED
    BY <1>1, <2>1, <2>2 DEF TypeOK
<1>9. ASSUME NEW q \in Sids, JoinRead(q) PROVE Kept
  BY <1>1, <1>9 DEF JoinRead, TypeOK
<1>10. ASSUME NEW q \in Sids, JoinEmit(q) PROVE Kept
  <2>1. /\ join[q] = "emit" /\ join' = [join EXCEPT ![q] = "idle"]
        /\ seen' = [seen EXCEPT ![q] = NothingSeen] /\ UNCHANGED <<socket, expelled>>
        /\ \/ UNCHANGED editor
           \/ /\ editor[q] \in {"waiting", "synced"}
              /\ editor' = [editor EXCEPT ![q] = "synced"]
    BY <1>10 DEF JoinEmit
  <2>2. QED
    BY <1>1, <2>1 DEF TypeOK
<1>11. ASSUME NEW q \in Sids, ByeRoom(q) PROVE Kept
  BY <1>1, <1>11 DEF ByeRoom, ByeStep, TypeOK
<1>12. ASSUME NEW q \in Sids,
              \/ LeaveRemove(q) \/ LeaveRoom(q) \/ LeaveExists(q) \/ LeaveCount(q)
              \/ LeaveClear(q) \/ LeaveClearUsers(q)
              \/ ByeScan(q) \/ ByeRemove(q) \/ ByeCount(q) \/ ByeClear(q) \/ ByeClearUsers(q)
              \/ \E e \in Edits : Edit(q, e)
       PROVE  Kept
  BY <1>2, <1>12
     DEF LeaveStep, LeaveRemove, LeaveRoom, LeaveExists, LeaveCount, LeaveClear, LeaveClearUsers,
         ByeStep, ByeScan, ByeRemove, ByeCount, ByeClear, ByeClearUsers, Edit
<1>13. ASSUME NEW k \in Slots, Updating(k) PROVE Kept
  BY <1>2, <1>13 DEF Updating, UpdateStop, UpdateAppend, UpdateEmit, UpdateSave
<1>14. ASSUME NEW i \in DOMAIN saves, SaveNote(i) PROVE Kept
  BY <1>2, <1>14 DEF SaveNote
<1>15. ASSUME UNCHANGED vars PROVE Kept
  BY <1>2, <1>15 DEF vars
<1> HIDE DEF Kept, net, doc, client, db, hist, Connected, Open
<1>16. Kept
  <2>1. ASSUME NEW q \in Sids, Handlers(q) PROVE Kept
    BY <1>7, <1>8, <1>9, <1>10, <1>11, <1>12, <2>1 DEF Handlers
  <2>2. QED
    BY <1>0, <1>3, <1>4, <1>5, <1>6, <1>12, <1>13, <1>14, <1>15, <2>1 DEF Next
<1>17. QED
  BY <1>16 DEF Kept, Connected, Open

\* Only entering the room can begin a claim.
LEMMA ClaimsBegin ==
    ASSUME TypeInv, SessionInv, MissInv, InsertedByOwner, InsertedWhenTold, [Next]_vars,
           NEW s \in Sids, Claims(s)', ~JoinEnter(s)
    PROVE  Claims(s)
<1>1. TypeOK /\ Lives(s)
  BY DEF TypeInv, SessionInv
<1>0. ~Reopen(s)
  <2>1. SUFFICES ASSUME Reopen(s) PROVE FALSE
    OBVIOUS
  <2>2. view'[s] = {} /\ join'[s] = "add"
    BY <1>1, <2>1 DEF Reopen, TypeOK
  <2>3. QED
    BY <2>2 DEF Claims
<1>2. CASE s \in view'[s] /\ s \notin view[s]
  <2>1. JoinEmit(s) /\ MayInsert(s) /\ Connected(s) /\ Open(s)
    BY <1>2, NewInsertion
  <2>2. QED
    BY <2>1 DEF JoinEmit, MayInsert, Claims, hist
<1>3. CASE s \in view[s]
  <2>1. editor[s] # "closed" /\ socket[s] # "off"
    BY <1>1, <1>3 DEF InsertedWhenTold, Lives
  <2>2. Connected(s)' /\ Open(s)'
    BY DEF Claims
  <2>3. QED
    BY <1>0, <1>3, <2>1, <2>2, NoReturn DEF Claims
<1>4. CASE s \notin view'[s]
  <2>1. /\ Connected(s)' /\ Open(s)'
        /\ join'[s] \in {"read", "emit"} /\ seen'[s].alone
    BY <1>4 DEF Claims
  <2>2. join[s] \in {"read", "emit"} /\ seen[s].alone
    BY <1>0, <2>1, NoReturn
  <2>3. editor[s] # "closed"
    BY <1>1, <2>2 DEF Lives
  <2>4. QED
    BY <1>0, <1>1, <2>1, <2>2, <2>3, NoReturn DEF Claims
<1>5. QED
  BY <1>2, <1>3, <1>4

\* Two sessions of an instance cannot both have found nobody else in the room.
LEMMA ClaimStep ==
    ASSUME TypeInv, SessionInv, MissInv, InsertInv, [Next]_vars
    PROVE  OneClaim'
<1>1. SUFFICES ASSUME NEW s \in Sids, NEW r \in Sids, Claims(s)', Claims(r)', inst'[s] = inst'[r],
                      s # r
               PROVE  FALSE
  BY DEF OneClaim
<1>2. UNCHANGED inst
  <2>1. ASSUME NEW p \in Sids, \/ OpenNote(p) \/ CloseNote(p) \/ Reopen(p) \/ Disconnect(p)
                               \/ Handlers(p)
                               \/ \E q \in Sids : Reconnect(p, q)
                               \/ \E e \in Edits : Edit(p, e)
        PROVE  UNCHANGED inst
    BY <2>1
       DEF OpenNote, CloseNote, Reopen, Reconnect, Edit, Disconnect, Handlers, JoinAdd,
           JoinEnter, JoinRead, JoinEmit, LeaveStep, LeaveRemove, LeaveRoom, LeaveExists,
           LeaveCount, LeaveClear, LeaveClearUsers, ByeStep, ByeScan, ByeRemove, ByeCount,
           ByeClear, ByeClearUsers, ByeRoom, net
  <2>2. ASSUME NEW k \in Slots, Updating(k) PROVE UNCHANGED inst
    BY <2>2 DEF Updating, UpdateStop, UpdateAppend, UpdateEmit, UpdateSave, net
  <2>3. ASSUME NEW i \in DOMAIN saves, SaveNote(i) PROVE UNCHANGED inst
    BY <2>3 DEF SaveNote, net
  <2>4. CASE UNCHANGED vars
    BY <2>4 DEF vars, net
  <2>5. QED
    BY <2>1, <2>2, <2>3, <2>4 DEF Next
<1>3. ASSUME NEW p \in Sids, NEW q \in Sids, p # q, JoinEnter(p), Claims(p)', Claims(q)',
             inst[p] = inst[q]
      PROVE  FALSE
  <2>1. /\ room' = IF Connected(p) THEN room \cup {p} ELSE room
        /\ seen' = [seen EXCEPT ![p].alone = Cardinality({x \in room' : inst[x] = inst[p]}) = 1]
        /\ UNCHANGED <<socket, view, editor>> /\ join[p] = "enter"
    BY <1>3 DEF JoinEnter, net, client
  <2> DEFINE there == {x \in room' : inst[x] = inst[p]}
  <2>2. p \in room' /\ room \subseteq room'
    BY <1>3, <2>1 DEF Claims, Connected
  <2>3. p \notin view[p]
    BY <1>3, <2>1 DEF InsertInv, InsertedWhenTold, SessionInv, Lives, Claims, Connected, Open
  <2>4. Cardinality(there) = 1
    <3>1. seen'[p].alone
      BY <1>3, <2>1, <2>3 DEF Claims
    <3>2. QED
      BY <2>1, <3>1 DEF TypeInv, TypeOK
  <2>5. ~JoinEnter(q)
    BY <1>3 DEF JoinEnter, TypeInv, TypeOK
  <2>6. q \in room
    BY <1>3, <2>5, ClaimsBegin, ClaimantsAreInRoom DEF InsertInv
  <2>7. p \in there /\ q \in there
    BY <1>3, <2>2, <2>6
  <2>8. IsFiniteSet(there)
    <3>1. IsFiniteSet(room')
      <4>1. IsFiniteSet(room) /\ IsFiniteSet(room \cup {p})
        BY FS_AddElement DEF TypeInv
      <4>2. QED
        BY <2>1, <4>1
    <3>2. QED
      BY <3>1, FS_Subset
  <2>9. QED
    BY <1>3, <2>4, <2>7, <2>8, FS_Singleton
<1>4. CASE JoinEnter(s)
  BY <1>1, <1>2, <1>3, <1>4
<1>5. CASE JoinEnter(r)
  BY <1>1, <1>2, <1>3, <1>5
<1>6. CASE ~JoinEnter(s) /\ ~JoinEnter(r)
  BY <1>1, <1>2, <1>6, ClaimsBegin DEF InsertInv, OneClaim
<1>7. QED
  BY <1>4, <1>5, <1>6

LEMMA InsertInvariance == Spec => []InsertInv
<1>1. TypeInv /\ SessionInv /\ MissInv /\ InsertInv /\ [Next]_vars => InsertInv'
  BY OwnerStep, ToldStep, ClaimStep DEF InsertInv
<1>2. QED
  BY <1>1, InitInsert, SessionInvariance, MissInvariance, PTL DEF Spec

\* A client inserts the stored content only when no replica shows it from another
\* session of its instance that is still there: not from one that joined at the
\* same time, nor carried over a reconnect by somebody else (Collaboration.ts: the
\* client that is alone in an empty document inserts it).
THEOREM InsertedOncePerInstance ==
    Spec => [][\A s \in Sids \ expelled : s \in view'[s] /\ s \notin view[s] =>
                  \A r \in Sids : \A i \in (view[r] \cap Sids) \ {s} :
                      AuthorIsHere(i) => inst[i] # inst[s]]_vars
<1>1. /\ TypeInv /\ SessionInv /\ MissInv /\ InsertInv /\ [Next]_vars
      => [\A s \in Sids \ expelled : s \in view'[s] /\ s \notin view[s] =>
             \A r \in Sids : \A i \in (view[r] \cap Sids) \ {s} :
                 AuthorIsHere(i) => inst[i] # inst[s]]_vars
  <2>1. SUFFICES ASSUME TypeInv, SessionInv, MissInv, InsertInv, Next,
                        NEW s \in Sids \ expelled, s \in view'[s], s \notin view[s],
                        NEW r \in Sids, NEW i \in (view[r] \cap Sids) \ {s}, AuthorIsHere(i)
                 PROVE  inst[i] # inst[s]
    OBVIOUS
  <2>2. JoinEmit(s) /\ MayInsert(s) /\ Connected(s) /\ Open(s)
    BY <2>1, NewInsertion DEF InsertInv
  <2>3. Claims(s)
    BY <2>1, <2>2 DEF JoinEmit, MayInsert, Claims
  <2>4. i \in view[i]
    BY <2>1 DEF InsertInv, InsertedByOwner, Had
  <2>5. Claims(i)
    BY <2>1, <2>4 DEF AuthorIsHere, Claims, Open
  <2>6. QED
    BY <2>1, <2>3, <2>5 DEF InsertInv, OneClaim
<1>2. QED
  BY <1>1, InsertInvariance, SessionInvariance, MissInvariance, PTL DEF Spec

\* With one instance, a client inserts the stored content only when no replica
\* shows it from another session that is still there.
THEOREM ContentIsInsertedOnce ==
    ASSUME \A m, n \in Instances : m = n
    PROVE  Spec => ContentInsertedOnce
<1>1. TypeInv /\ [\A s \in Sids \ expelled : s \in view'[s] /\ s \notin view[s] =>
                    \A r \in Sids : \A i \in (view[r] \cap Sids) \ {s} :
                        AuthorIsHere(i) => inst[i] # inst[s]]_vars
      => [\A s \in Sids \ expelled : s \in view'[s] /\ s \notin view[s] =>
             \A r \in Sids : \A i \in (view[r] \cap Sids) \ {s} : ~AuthorIsHere(i)]_vars
  <2>1. TypeInv => \A s, i \in Sids : inst[s] = inst[i]
    BY DEF TypeInv, TypeOK
  <2>2. QED
    BY <2>1
<1>2. QED
  BY <1>1, TypeInvariance, InsertedOncePerInstance, PTL DEF ContentInsertedOnce
=============================================================================
