------------------------------ MODULE CollabDoc ------------------------------
(***************************************************************************)
(* Collaborative editing of one note: the ydoc:document:* handlers of      *)
(* backend/open_webui/socket/main.py, YdocManager of socket/utils.py and   *)
(* the client of src/lib/components/common/RichTextInput/Collaboration.ts. *)
(*                                                                         *)
(* The server keeps the note's Yjs document as a log of updates, and the   *)
(* sessions that edit it; every client keeps a replica.  Yjs updates       *)
(* commute and are idempotent, so a log and a replica are sets.            *)
(*                                                                         *)
(* useRedis tells where YdocManager keeps its state, which a deployment    *)
(* settles for good.  In memory its methods never suspend, and a handler   *)
(* runs on until it awaits something else: `turn' then holds the handler   *)
(* that has the event loop.  With Redis every method is a command other    *)
(* handlers can run before and after, here or on another instance.         *)
(***************************************************************************)
EXTENDS Naturals, SequencesExt

CONSTANTS Sids,       \* Socket.IO session ids; a reconnect gets a new one
          Edits,      \* changes users make
          Slots,      \* bound: update handlers that run at the same time
          Instances,  \* server processes
          Modes,      \* SUBSET BOOLEAN, the deployments: with Redis or without
          RedisEdits, \* bound: the changes made in a deployment with Redis
          MaxMoves,   \* bound: how often clients close, reopen or are cut off
          Original,   \* the content the note had at the start
          Free        \* no handler holds the event loop

ASSUME ModesAssumption == Modes \subseteq BOOLEAN /\ RedisEdits \subseteq Edits
ASSUME BoundAssumption == MaxMoves \in Nat
ASSUME NamesAssumption ==
    /\ Edits \cap Sids = {}
    /\ Free \notin Sids \cup ({"join", "leave", "bye"} \X Sids) \cup ({"update"} \X Slots)

VARIABLES
    useRedis, \* BOOLEAN
    inst,     \* [Sids -> Instances], who serves the session
    socket,   \* [Sids -> {"off", "on", "closing", "gone"}]
    session,  \* SUBSET Sids, SESSION_POOL
    users,    \* SUBSET Sids, the document's users in YdocManager
    updates,  \* SUBSET Ops, the document's log in YdocManager
    room,     \* SUBSET Sids, the Socket.IO room doc_<id>
    join,     \* [Sids -> JoinPc], ydoc_document_join
    seen,     \* [Sids -> [log, alone]], what the join handler has read
    leave,    \* [Sids -> LeavePc], yjs_document_leave
    bye,      \* [Sids -> ByePc], disconnect
    inbox,    \* [Sids -> Seq(Message)], ydoc:document:update on its way
    slot,     \* [Slots -> Handler], ydoc:document:update being handled
    editor,   \* [Sids -> EditorStates], the client's provider
    view,     \* [Sids -> SUBSET Ops], the client's Y.Doc
    loaded,   \* [Sids -> SUBSET Text], the note as the client fetched it
    author,   \* [Edits -> Sids \cup {Free}], who made the edit
    saves,    \* Seq(Save), debounced saves that sleep, oldest first
    stored,   \* SUBSET Text, the note in the database
    turn,     \* who holds the event loop
    former,   \* [Sids -> SUBSET Ops], history: what the session's last opening
              \*   of the note had still being handled when it opened it again
    expelled, \* SUBSET Sids, history: the leave_room of an earlier opening
              \*   came after the enter_room of the later one
    moves     \* how often a client closed, reopened or was cut off

net    == <<useRedis, inst, socket, session>>
doc    == <<users, updates>>
client == <<editor, view, loaded, author>>
db     == <<saves, stored>>
hist   == <<former, expelled>>
vars   == <<net, doc, room, join, seen, leave, bye, inbox, slot, client, db, turn, hist,
            moves>>

\* A session id doubles as the update by which that client inserts the content
\* it fetched into an empty document.
Ops  == Edits \cup Sids
Text == Edits \cup {Original}

\* What a replica that applied the updates S shows.
Shown(S) == (S \cap Edits) \cup UNION {loaded[s] : s \in S \cap Sids}

EditorStates == {"closed", "waiting", "synced", "offline", "left"}
JoinPc  == {"idle", "add", "enter", "read", "emit"}
LeavePc == {"idle", "remove", "room", "exists", "count", "clear", "users"}
ByePc   == {"idle", "scan", "remove", "count", "clear", "users", "room"}
Message == [ops : SUBSET Ops, text : SUBSET Text]
Handler == [pc : {"free", "append", "emit", "save"}, by : Sids \cup {Free},
            msg : Message]
Save    == [by : Sids, text : SUBSET Text]
NothingSeen == [log |-> {}, alone |-> FALSE]
Finished == [pc |-> "free", by |-> Free, msg |-> [ops |-> {}, text |-> {}]]
Increasing(f) == \A i, j \in DOMAIN f : i < j => f[i] < f[j]

MayRun(h) == turn \in {Free, h}
Await     == turn' = Free                            \* suspends in any mode
Command(h) == turn' = IF useRedis THEN Free ELSE h   \* suspends with Redis

\* Handlers start in the order their events arrive; in memory the first step of
\* a handler is therefore done before the next event of the session is handled.
Started(s) == useRedis \/ (join[s] # "add" /\ leave[s] # "remove")

Connected(s) == socket[s] = "on"
Open(s)      == editor[s] \in {"waiting", "synced"}

Init == /\ useRedis \in Modes
        /\ inst \in [Sids -> Instances]
        /\ socket = [s \in Sids |-> "off"]
        /\ session = {} /\ users = {} /\ updates = {} /\ room = {}
        /\ join = [s \in Sids |-> "idle"]
        /\ seen = [s \in Sids |-> NothingSeen]
        /\ leave = [s \in Sids |-> "idle"]
        /\ bye = [s \in Sids |-> "idle"]
        /\ inbox = [s \in Sids |-> <<>>]
        /\ slot = [k \in Slots |-> Finished]
        /\ editor = [s \in Sids |-> "closed"]
        /\ view = [s \in Sids |-> {}]
        /\ loaded = [s \in Sids |-> {}]
        /\ author = [e \in Edits |-> Free]
        /\ saves = <<>> /\ stored = {Original}
        /\ turn = Free
        /\ former = [s \in Sids |-> {}] /\ expelled = {}
        /\ moves = 0

-----------------------------------------------------------------------------
\* The client.

\* connect, then the user opens the note: the page fetches it and the provider
\* sends ydoc:document:join.
OpenNote(s) ==
    /\ MayRun(Free) /\ socket[s] = "off"
    /\ socket' = [socket EXCEPT ![s] = "on"]
    /\ session' = session \cup {s}
    /\ editor' = [editor EXCEPT ![s] = "waiting"]
    /\ loaded' = [loaded EXCEPT ![s] = stored]
    /\ join' = [join EXCEPT ![s] = "add"]
    /\ UNCHANGED <<useRedis, inst, doc, room, seen, leave, bye, inbox, slot, view,
                   author, db, turn, hist, moves>>

\* The socket of s is lost and comes back as r: the replica survives.
Reconnect(s, r) ==
    /\ MayRun(Free) /\ editor[s] = "offline" /\ socket[r] = "off"
    /\ socket' = [socket EXCEPT ![r] = "on"]
    /\ session' = session \cup {r}
    /\ editor' = [editor EXCEPT ![s] = "left", ![r] = "waiting"]
    /\ view' = [view EXCEPT ![r] = view[s]]
    /\ loaded' = [loaded EXCEPT ![r] = loaded[s]]
    /\ join' = [join EXCEPT ![r] = "add"]
    /\ UNCHANGED <<useRedis, inst, doc, room, seen, leave, bye, inbox, slot, author, db,
                   turn, hist, moves>>

Send(s, ops, text) ==
    inbox' = [inbox EXCEPT ![s] = Append(@, [ops |-> ops, text |-> text])]

\* The user types, also before the document's state has come; while the socket
\* is down nothing is sent.
Edit(s, e) ==
    /\ MayRun(Free) /\ author[e] = Free
    /\ useRedis => e \in RedisEdits
    /\ editor[s] \in {"waiting", "synced", "offline"}
    /\ author' = [author EXCEPT ![e] = s]
    /\ view' = [view EXCEPT ![s] = @ \cup {e}]
    /\ IF editor[s] = "offline" THEN UNCHANGED inbox
       ELSE Send(s, {e}, Shown(view'[s]))
    /\ UNCHANGED <<net, doc, room, join, seen, leave, bye, slot, editor, loaded,
                   db, turn, hist, moves>>

Move == moves < MaxMoves /\ moves' = moves + 1

\* destroy(): sends ydoc:document:leave, after what was sent before.  (Bound: the
\* leave handler of an earlier opening has ended.)
CloseNote(s) ==
    /\ MayRun(Free) /\ Open(s) /\ Connected(s) /\ Started(s)
    /\ inbox[s] = <<>> /\ leave[s] = "idle"
    /\ Move
    /\ editor' = [editor EXCEPT ![s] = "left"]
    /\ leave' = [leave EXCEPT ![s] = "remove"]
    /\ UNCHANGED <<net, doc, room, join, seen, bye, inbox, slot, view, loaded, author,
                   db, turn, hist>>

\* The user opens the note again, with a new provider on the same socket: its
\* leave and its join are two handlers.  (Bounds: the join handler of the earlier
\* opening has ended, and that opening did not insert the content, as s would
\* then stand for two updates.)
Reopen(s) ==
    /\ MayRun(Free) /\ editor[s] = "left" /\ Connected(s) /\ Started(s)
    /\ join[s] = "idle" /\ s \notin view[s]
    /\ Move
    /\ editor' = [editor EXCEPT ![s] = "waiting"]
    /\ view' = [view EXCEPT ![s] = {}]
    /\ loaded' = [loaded EXCEPT ![s] = stored]
    /\ join' = [join EXCEPT ![s] = "add"]
    /\ former' = [former EXCEPT ![s] =
                     UNION {slot[k].msg.ops : k \in {k \in Slots : slot[k].by = s}}]
    /\ expelled' = expelled \ {s}
    /\ UNCHANGED <<net, doc, room, seen, leave, bye, inbox, slot, author, db, turn>>

-----------------------------------------------------------------------------
\* ydoc_document_join

\* add_user
JoinAdd(s) ==
    /\ MayRun(<<"join", s>>) /\ join[s] = "add"
    /\ users' = users \cup {s}
    /\ join' = [join EXCEPT ![s] = "enter"]
    /\ Command(<<"join", s>>)
    /\ UNCHANGED <<net, updates, room, seen, leave, bye, inbox, slot, client, db, hist,
                   moves>>

\* Deviation: the room is not entered.
JoinEnter_NoRoom(s) ==
    /\ MayRun(<<"join", s>>) /\ join[s] = "enter"
    /\ seen' = [seen EXCEPT ![s].alone = \A r \in room : inst[r] # inst[s]]
    /\ join' = [join EXCEPT ![s] = "read"]
    /\ Command(<<"join", s>>)
    /\ UNCHANGED <<net, doc, room, leave, bye, inbox, slot, client, db, hist, moves>>

\* enter_room, which has no effect for a session that is going, and the
\* sessions of this instance in the room; then get_updates awaits lrange if the
\* log is in Redis
JoinEnter(s) ==
    /\ MayRun(<<"join", s>>) /\ join[s] = "enter"
    /\ room' = IF Connected(s) THEN room \cup {s} ELSE room
    /\ seen' = [seen EXCEPT ![s].alone =
                   Cardinality({r \in room' : inst[r] = inst[s]}) = 1]
    /\ join' = [join EXCEPT ![s] = "read"]
    /\ Command(<<"join", s>>)
    /\ UNCHANGED <<net, doc, leave, bye, inbox, slot, client, db, hist, moves>>

\* get_updates
JoinRead(s) ==
    /\ MayRun(<<"join", s>>) /\ join[s] = "read"
    /\ seen' = [seen EXCEPT ![s].log = updates]
    /\ join' = [join EXCEPT ![s] = "emit"]
    /\ Command(<<"join", s>>)
    /\ UNCHANGED <<net, doc, room, leave, bye, inbox, slot, client, db, hist, moves>>

\* Deviation: the client does not ask who else is there.
MayInsert_NotAlone(s) == seen[s].log = {} /\ view[s] = {}

\* The document and the editor are empty and nobody else is in the room.
MayInsert(s) == seen[s].log = {} /\ view[s] = {} /\ seen[s].alone

\* ydoc:document:state reaches the client.  Into an empty document the client
\* that is alone inserts the content it fetched; one that has content sends
\* its whole replica (without `data': nothing is saved).
JoinEmit(s) ==
    /\ MayRun(<<"join", s>>) /\ join[s] = "emit"
    /\ join' = [join EXCEPT ![s] = "idle"]
    /\ seen' = [seen EXCEPT ![s] = NothingSeen]
    /\ IF ~(Connected(s) /\ Open(s))
       THEN UNCHANGED <<editor, view, inbox>>
       ELSE /\ editor' = [editor EXCEPT ![s] = "synced"]
            /\ \/ /\ MayInsert(s)
                  /\ view' = [view EXCEPT ![s] = {s}]
                  /\ Send(s, {s}, loaded[s])
               \/ /\ ~MayInsert(s) /\ (seen[s].log # {} \/ view[s] = {})
                  /\ view' = [view EXCEPT ![s] = @ \cup seen[s].log]
                  /\ UNCHANGED inbox
               \/ /\ seen[s].log = {} /\ view[s] # {}
                  /\ Send(s, view[s], {})
                  /\ UNCHANGED view
    /\ Await
    /\ UNCHANGED <<net, doc, room, leave, bye, slot, loaded, author, db, hist, moves>>

-----------------------------------------------------------------------------
\* yjs_document_update

\* stop_item_tasks, whose failures are passed over: in memory it suspends if there
\* is a save to stop, and it stops one at least.  Which others it stops is left
\* open: it returns early when one cannot be stopped, skips ids of the list it
\* iterates, or raises on the way (see TaskRegistry and TaskRegistryRedis).
UpdateStop(k, s) ==
    /\ MayRun(Free) /\ slot[k].pc = "free" /\ inbox[s] # <<>> /\ Started(s)
    /\ inbox' = [inbox EXCEPT ![s] = Tail(@)]
    /\ slot' = [slot EXCEPT ![k] = [pc |-> "append", by |-> s, msg |-> Head(inbox[s])]]
    /\ \E n \in 0..Len(saves) : \E kept \in [1..n -> DOMAIN saves] :
          /\ Increasing(kept)
          /\ ~useRedis /\ saves # <<>> => n < Len(saves)
          /\ saves' = [i \in 1..n |-> saves[kept[i]]]
    /\ IF saves = <<>> THEN Command(<<"update", k>>) ELSE Await
    /\ UNCHANGED <<net, doc, room, join, seen, leave, bye, client, stored, hist, moves>>

\* append_to_updates
UpdateAppend(k) ==
    /\ MayRun(<<"update", k>>) /\ slot[k].pc = "append"
    /\ updates' = updates \cup slot[k].msg.ops
    /\ slot' = [slot EXCEPT ![k].pc = "emit"]
    /\ Command(<<"update", k>>)
    /\ UNCHANGED <<net, users, room, join, seen, leave, bye, inbox, client, db, hist,
                   moves>>

\* The broadcast to the room, without the sender.  A client whose document
\* changes sends the change on as one of its own, because it calls applyUpdate
\* without an origin.
UpdateEmit(k) ==
    LET ops  == slot[k].msg.ops
        news == {r \in room \ {slot[k].by} :
                    Connected(r) /\ Open(r) /\ ~(ops \subseteq view[r])}
    IN  /\ MayRun(<<"update", k>>) /\ slot[k].pc = "emit"
        /\ slot' = [slot EXCEPT ![k].pc = "save"]
        /\ view' = [r \in Sids |-> IF r \in news THEN view[r] \cup ops ELSE view[r]]
        /\ inbox' = [r \in Sids |->
              IF r \in news
              THEN Append(inbox[r], [ops |-> ops, text |-> Shown(view'[r])])
              ELSE inbox[r]]
        /\ Await
        /\ UNCHANGED <<net, doc, room, join, seen, leave, bye, editor, loaded,
                       author, db, hist, moves>>

\* Deviation: the save is made out to the handler's slot after it was freed.
UpdateSave_Late(k) ==
    /\ MayRun(<<"update", k>>) /\ slot[k].pc = "save"
    /\ slot' = [slot EXCEPT ![k] = Finished]
    /\ saves' = IF slot[k].msg.text = {} THEN saves
                ELSE Append(saves, [by |-> slot'[k].by, text |-> slot[k].msg.text])
    /\ Await
    /\ UNCHANGED <<net, doc, room, join, seen, leave, bye, inbox, client, stored, hist,
                   moves>>

\* create_task(debounced_save()), if the message has data
UpdateSave(k) ==
    /\ MayRun(<<"update", k>>) /\ slot[k].pc = "save"
    /\ saves' = IF slot[k].msg.text = {} THEN saves
                ELSE Append(saves, [by |-> slot[k].by, text |-> slot[k].msg.text])
    /\ slot' = [slot EXCEPT ![k] = Finished]
    /\ Await
    /\ UNCHANGED <<net, doc, room, join, seen, leave, bye, inbox, client, stored, hist,
                   moves>>

\* debounced_save after its sleep, which is as long for all the saves of an
\* instance: without a session for the sender, document_save_handler fails on
\* user.get.
SaveNote(i) ==
    /\ MayRun(Free)
    /\ \A j \in 1..(i - 1) : inst[saves[j].by] # inst[saves[i].by]
    /\ saves' = RemoveAt(saves, i)
    /\ stored' = IF saves[i].by \in session THEN saves[i].text ELSE stored
    /\ UNCHANGED <<net, doc, room, join, seen, leave, bye, inbox, slot, client, turn,
                   hist, moves>>

-----------------------------------------------------------------------------
\* yjs_document_leave

LeaveStep(s, from, to) ==
    /\ MayRun(<<"leave", s>>) /\ leave[s] = from
    /\ leave' = [leave EXCEPT ![s] = to]
    /\ UNCHANGED <<net, join, seen, bye, inbox, slot, client, db, former, moves>>

\* Deviation: the user stays a user of the document.
LeaveRemove_Keeps(s) ==
    /\ LeaveStep(s, "remove", "room")
    /\ Command(<<"leave", s>>)
    /\ UNCHANGED <<doc, room, expelled>>

\* remove_user
LeaveRemove(s) ==
    /\ LeaveStep(s, "remove", "room")
    /\ users' = users \ {s}
    /\ Command(<<"leave", s>>)
    /\ UNCHANGED <<updates, room, expelled>>

\* leave_room, then the others are told
LeaveRoom(s) ==
    /\ LeaveStep(s, "room", "exists")
    /\ room' = room \ {s}
    /\ expelled' = IF Open(s) /\ join[s] \notin {"add", "enter"} THEN expelled \cup {s}
                                                                ELSE expelled
    /\ Await
    /\ UNCHANGED doc

LeaveExists(s) ==
    /\ LeaveStep(s, "exists", IF updates = {} THEN "idle" ELSE "count")
    /\ IF updates = {} THEN Await ELSE Command(<<"leave", s>>)
    /\ UNCHANGED <<doc, room, expelled>>

\* Deviation: the users that are left are not counted.
LeaveCount_Skipped(s) ==
    /\ LeaveStep(s, "count", "clear")
    /\ Command(<<"leave", s>>)
    /\ UNCHANGED <<doc, room, expelled>>

LeaveCount(s) ==
    /\ LeaveStep(s, "count", IF users = {} THEN "clear" ELSE "idle")
    /\ IF users = {} THEN Command(<<"leave", s>>) ELSE Await
    /\ UNCHANGED <<doc, room, expelled>>

\* clear_document deletes the log, then the users
LeaveClear(s) ==
    /\ LeaveStep(s, "clear", "users")
    /\ updates' = {}
    /\ Command(<<"leave", s>>)
    /\ UNCHANGED <<users, room, expelled>>

LeaveClearUsers(s) ==
    /\ LeaveStep(s, "users", "idle")
    /\ users' = {}
    /\ Await
    /\ UNCHANGED <<updates, room, expelled>>

-----------------------------------------------------------------------------
\* disconnect

ByeStep(s, from, to) ==
    /\ MayRun(<<"bye", s>>) /\ bye[s] = from
    /\ bye' = [bye EXCEPT ![s] = to]
    /\ UNCHANGED <<useRedis, inst, join, seen, leave, slot, loaded, view, author, db, hist>>

\* The socket closes, and what is on its way is lost; the session is deleted
\* before anything is awaited.
Disconnect(s) ==
    /\ MayRun(Free) /\ Connected(s) /\ Started(s)
    /\ ByeStep(s, "idle", "scan") /\ Move
    /\ socket' = [socket EXCEPT ![s] = "closing"]
    /\ session' = session \ {s}
    /\ editor' = [editor EXCEPT ![s] = IF Open(s) THEN "offline" ELSE @]
    /\ inbox' = [inbox EXCEPT ![s] = <<>>]
    /\ Command(<<"bye", s>>)
    /\ UNCHANGED <<doc, room>>

\* remove_user_from_all_documents.  The scan finds the document's users key only
\* if it has users; in memory a document the session is no user of is passed over.
ByeScan(s) ==
    LET skip == users = {} \/ (~useRedis /\ s \notin users) IN
    /\ ByeStep(s, "scan", IF skip THEN "room" ELSE "remove")
    /\ Command(<<"bye", s>>)
    /\ UNCHANGED <<inbox, socket, session, doc, room, editor, moves>>

ByeRemove(s) ==
    /\ ByeStep(s, "remove", "count")
    /\ users' = users \ {s}
    /\ Command(<<"bye", s>>)
    /\ UNCHANGED <<inbox, socket, session, updates, room, editor, moves>>

ByeCount(s) ==
    /\ ByeStep(s, "count", IF users = {} THEN "clear" ELSE "room")
    /\ Command(<<"bye", s>>)
    /\ UNCHANGED <<inbox, socket, session, doc, room, editor, moves>>

ByeClear(s) ==
    /\ ByeStep(s, "clear", "users")
    /\ updates' = {}
    /\ Command(<<"bye", s>>)
    /\ UNCHANGED <<inbox, socket, session, users, room, editor, moves>>

ByeClearUsers(s) ==
    /\ ByeStep(s, "users", "room")
    /\ users' = {}
    /\ Command(<<"bye", s>>)
    /\ UNCHANGED <<inbox, socket, session, updates, room, editor, moves>>

\* Socket.IO takes the session out of its rooms when the handler is done.
ByeRoom(s) ==
    /\ ByeStep(s, "room", "idle")
    /\ socket' = [socket EXCEPT ![s] = "gone"]
    /\ room' = room \ {s}
    /\ Await
    /\ UNCHANGED <<inbox, session, doc, editor, moves>>

-----------------------------------------------------------------------------
Handlers(s) ==
    \/ JoinAdd(s) \/ JoinEnter(s) \/ JoinRead(s) \/ JoinEmit(s)
    \/ LeaveRemove(s) \/ LeaveRoom(s) \/ LeaveExists(s) \/ LeaveCount(s)
    \/ LeaveClear(s) \/ LeaveClearUsers(s)
    \/ ByeScan(s) \/ ByeRemove(s) \/ ByeCount(s) \/ ByeClear(s) \/ ByeClearUsers(s)
    \/ ByeRoom(s)

Updating(k) == \/ \E s \in Sids : UpdateStop(k, s)
               \/ UpdateAppend(k) \/ UpdateEmit(k) \/ UpdateSave(k)

Next == \/ \E s \in Sids : \/ OpenNote(s) \/ CloseNote(s) \/ Reopen(s) \/ Disconnect(s)
                           \/ Handlers(s)
                           \/ \E r \in Sids : Reconnect(s, r)
                           \/ \E e \in Edits : Edit(s, e)
        \/ \E k \in Slots : Updating(k)
        \/ \E i \in DOMAIN saves : SaveNote(i)

Spec == Init /\ [][Next]_vars

-----------------------------------------------------------------------------
\* Properties

\* Every variable has the type its comment gives.
TypeOK == /\ useRedis \in Modes /\ inst \in [Sids -> Instances]
          /\ socket \in [Sids -> {"off", "on", "closing", "gone"}]
          /\ session \subseteq Sids /\ users \subseteq Sids
          /\ updates \subseteq Ops /\ room \subseteq Sids
          /\ join \in [Sids -> JoinPc]
          /\ seen \in [Sids -> [log : SUBSET Ops, alone : BOOLEAN]]
          /\ leave \in [Sids -> LeavePc] /\ bye \in [Sids -> ByePc]
          /\ inbox \in [Sids -> Seq(Message)] /\ slot \in [Slots -> Handler]
          /\ editor \in [Sids -> EditorStates]
          /\ view \in [Sids -> SUBSET Ops]
          /\ loaded \in [Sids -> SUBSET Text]
          /\ author \in [Edits -> Sids \cup {Free}]
          /\ saves \in Seq(Save) /\ stored \subseteq Text
          /\ former \in [Sids -> SUBSET Ops] /\ expelled \subseteq Sids
          /\ moves \in 0 .. MaxMoves

\* An update that is in the log and whose broadcast is still to come.
Broadcasting(o) == \E k \in Slots : slot[k].pc = "emit" /\ o \in slot[k].msg.ops

\* A client that joined and is connected has every update of the log, or is
\* about to get it: joining and updating never miss each other, because the
\* handler enters the room before it reads the log, and an update is appended
\* before it is broadcast.  Two things do miss, both of a note that is opened
\* again on one socket: the leave_room of the earlier opening takes the session
\* out of the room, and the broadcast of an update that the earlier opening sent
\* skips the session.
NoMissedUpdate ==
    \A s \in Sids : (editor[s] = "synced" /\ Connected(s) /\ s \notin expelled) =>
        \A o \in updates : o \in view[s] \/ Broadcasting(o) \/ o \in former[s]

\* With the log in memory, whoever is in the room is a user of the document, and
\* the other way round, except while its own handler is between the two.
UsersMatchRoom ==
    turn = Free /\ ~useRedis =>
        {s \in users : Connected(s)} = {s \in room : Connected(s)}

LogCleared == updates # {} /\ updates' = {}
InUse      == \E s \in room : Connected(s) /\ Open(s)

\* The log is only thrown away when no connected client edits the document:
\* main.py:661 "Cleaning up document {document_id} as no users are left".
ClearedWhenUnused == [][LogCleared => ~InUse]_vars

\* The same, with the log in memory.
ClearedWhenUnusedInMemory == [][LogCleared /\ ~useRedis => ~InUse]_vars

\* The session that inserted the content still edits the note, and is in the room.
AuthorIsHere(s) == Connected(s) /\ editor[s] = "synced" /\ s \notin expelled

\* A client inserts the stored content only when no replica shows it from a
\* session that is still there: it is shown twice only if the author of the
\* earlier insertion had been cut off or had closed the note before, or one of
\* the two was expelled.  (Then it is: a client that reconnects after the log
\* was cleared sends what it had next to what another one has inserted.)
ContentInsertedOnce ==
    [][\A s \in Sids \ expelled : s \in view'[s] /\ s \notin view[s] =>
          \A r \in Sids : \A i \in (view[r] \cap Sids) \ {s} : ~AuthorIsHere(i)]_vars
=============================================================================
