--------------------------- MODULE WhiteboardRoom ---------------------------
(***************************************************************************)
(* The life of one room of the collaboration server: its sockets join and  *)
(* leave, the first one loads the whiteboard from the database, every      *)
(* broadcast is merged into the in-memory snapshot, a throttled function   *)
(* saves the snapshot, and the last socket to leave flushes the throttle,  *)
(* saves once more and drops the snapshot.  Every Map of server.ts is      *)
(* keyed by the room's identifier, so rooms do not interact and one room   *)
(* is enough.                                                              *)
(*                                                                         *)
(* A step of the model is what the event loop runs between two real        *)
(* suspension points: a reply of the integration queue, a timer, a message *)
(* of a socket.  An await on the in-memory socket.io adapter resolves in   *)
(* the same turn and is not a suspension point.                            *)
(*                                                                         *)
(* Content is the set of edits a scene includes.  Reconciliation keeps the *)
(* newer version of every element, so merging is a union.                  *)
(***************************************************************************)
EXTENDS Naturals, FiniteSets

CONSTANTS
    Sockets,        \* socket identifiers; one that is gone may come back as a new client
    Edits,          \* what users draw
    Base,           \* the edits the database holds at first
    SaveSlots,      \* bound: save requests that await their reply at one time
    CloserSlots,    \* bound: DELETE_ROOM handlers suspended at one time
    MaxLate,        \* bound: copies of given-up save requests still in the queue
    Misbehaviours,  \* which of the integration's and the process's failures happen
    NoSnapshot, NoSave

ASSUME RoomAssumption ==
    /\ Base \subseteq Edits
    /\ \A content \in SUBSET Edits : content # NoSnapshot
    /\ NoSave \notin SaveSlots
    /\ MaxLate \in Nat
    /\ Misbehaviours \subseteq {"fetch", "save", "timeout", "crash"}

VARIABLES
    members,    \* the sockets in the room, as the socket.io adapter has them
    pc,         \* where the JOIN_ROOM handler of each socket is
    answer,     \* what the server put into the FETCH reply a handler awaits
    seen,       \* history: the edits that were sent to each member
    snapshot,   \* snapshots.get(roomId)
    throttle,   \* throttledSaveFnMap.get(roomId)
    tracker,    \* contributionTrackers.has(roomId)
    saves,      \* the SAVE requests that await their reply
    closers,    \* the suspended DELETE_ROOM handlers
    db,         \* what the database holds (external)
    late,       \* copies of given-up SAVE requests (external)
    accepted,   \* history: the edits that were broadcast to the room, and Base
    unsaved,    \* history: the snapshot took an edit that no save has read yet
    fault       \* history: the first event that may lose an edit, or "none"

vars == <<members, pc, answer, seen, snapshot, throttle, tracker, saves,
          closers, db, late, accepted, unsaved, fault>>

Content == SUBSET Edits
Faults == {"none", "emptyLoad", "staleLoad", "tornDown", "unsavedClose",
           "staleSave", "crash"}

IdleSave == [waiting |-> FALSE, applied |-> FALSE, content |-> {}]
IdleCloser == [phase |-> "none", save |-> NoSave, reopened |-> FALSE]
NoThrottle == [made |-> FALSE, armed |-> FALSE, pending |-> FALSE, last |-> NoSave]
FreshThrottle == [made |-> TRUE, armed |-> FALSE, pending |-> FALSE, last |-> NoSave]

Init ==
    /\ members = {}
    /\ pc = [s \in Sockets |-> "idle"]
    /\ answer = [s \in Sockets |-> {}]
    /\ seen = [s \in Sockets |-> {}]
    /\ snapshot = NoSnapshot
    /\ throttle = NoThrottle
    /\ tracker = FALSE
    /\ saves = [i \in SaveSlots |-> IdleSave]
    /\ closers = [c \in CloserSlots |-> IdleCloser]
    /\ db = Base
    /\ late = {}
    /\ accepted = Base
    /\ unsaved = FALSE
    /\ fault = "none"

HasSnapshot == snapshot # NoSnapshot

\* What the room's content is: in memory, or else in the database.
Current == IF HasSnapshot THEN snapshot ELSE db

\* Remember the first event after which an accepted edit may be missing.
BlameIf(cond, what) ==
    fault' = IF cond /\ fault = "none" THEN what ELSE fault

-----------------------------------------------------------------------------
(* The throttled save: a lodash throttle with leading = false.              *)

\* saveRoom reads the snapshot when it starts; afterwards no edit is unsaved.
StartSave(i, content) ==
    /\ ~saves[i].waiting
    /\ saves' = [saves EXCEPT ![i] =
                   [waiting |-> TRUE, applied |-> FALSE, content |-> content]]
    /\ unsaved' = FALSE

\* lodash's invokeFunc: the remembered call is used up, the result is kept.
InvokedKeepingCall(rearm, promise) ==  \* mutant: the call is kept
    [throttle EXCEPT !.armed = rearm, !.last = promise]
Invoked(rearm, promise) ==
    [throttle EXCEPT !.armed = rearm, !.pending = FALSE, !.last = promise]

\* The throttled function runs saveRoom; `rearm` tells if its timer goes on.
\* Without a snapshot saveRoom returns at once and sends nothing.
InvokeSave(content, rearm) ==
    IF content = NoSnapshot
      THEN /\ throttle' = Invoked(rearm, NoSave)
           /\ UNCHANGED <<saves, unsaved>>
      ELSE \E i \in SaveSlots :
             /\ StartSave(i, content)
             /\ throttle' = Invoked(rearm, i)

\* queueSave: the call is remembered and the timer runs.
QueueSaveDroppingFirst ==  \* mutant: the call that starts the timer is not kept
    /\ throttle.made
    /\ throttle' = [throttle EXCEPT !.armed = TRUE, !.pending = throttle.armed]
    /\ unsaved' = (unsaved \/ HasSnapshot)
    /\ UNCHANGED saves
QueueSave ==
    /\ throttle.made
    /\ throttle' = [throttle EXCEPT !.armed = TRUE, !.pending = TRUE]
    /\ unsaved' = (unsaved \/ HasSnapshot)
    /\ UNCHANGED saves

\* queueSave when the timer is due but has not been served: lodash runs the
\* function inside the call and starts the timer again.
QueueOverdueSave(content) ==
    /\ throttle.made /\ throttle.armed
    /\ InvokeSave(content, TRUE)

ThrottleFires ==
    /\ throttle.armed
    /\ \/ /\ throttle.pending
          /\ InvokeSave(snapshot, FALSE)
       \/ /\ ~throttle.pending
          /\ throttle' = [throttle EXCEPT !.armed = FALSE]
          /\ UNCHANGED <<saves, unsaved>>
    /\ UNCHANGED <<members, pc, answer, seen, snapshot, tracker, closers, db,
                   late, accepted, fault>>

-----------------------------------------------------------------------------
(* JOIN_ROOM and the load of the snapshot.                                  *)

OpenRoomUnlessClosing ==  \* mutant: a handler that still closes keeps it from starting
    /\ tracker' = \A c \in CloserSlots : closers[c].phase = "none"
    /\ throttle' = FreshThrottle
    /\ closers' = [c \in CloserSlots |->
                     IF closers[c].phase = "none" THEN closers[c]
                       ELSE [closers[c] EXCEPT !.reopened = TRUE]]

\* CREATE_ROOM, on the first join: the contribution tracker and a fresh
\* throttled function.  Handlers that still close the room are not told.
OpenRoom ==
    /\ tracker' = TRUE
    /\ throttle' = FreshThrottle
    /\ closers' = [c \in CloserSlots |->
                     IF closers[c].phase = "none" THEN closers[c]
                       ELSE [closers[c] EXCEPT !.reopened = TRUE]]

\* The scene a joining socket is sent when loadSnapshot finds the Map's snapshot.
StoredScene == db  \* mutant: what the database holds
InitScene == snapshot

\* The socket joins; loadSnapshot finds the snapshot in the Map, or sends FETCH.
Join(s) ==
    /\ s \notin members /\ pc[s] = "idle"
    /\ members' = members \cup {s}
    /\ IF members = {} THEN OpenRoom ELSE UNCHANGED <<tracker, throttle, closers>>
    /\ \/ /\ HasSnapshot
          /\ pc' = [pc EXCEPT ![s] = "active"]
          /\ seen' = [seen EXCEPT ![s] = InitScene]
       \/ /\ ~HasSnapshot
          /\ pc' = [pc EXCEPT ![s] = "fetching"]
          /\ UNCHANGED seen
    /\ UNCHANGED <<answer, snapshot, saves, db, late, accepted, unsaved, fault>>

\* A socket that was gone before its INFO call was answered joins nothing, but its
\* handler loads the whiteboard all the same.
LoadForGone(s) ==
    /\ s \notin members /\ pc[s] = "idle"
    /\ ~HasSnapshot
    /\ pc' = [pc EXCEPT ![s] = "fetching"]
    /\ UNCHANGED <<members, answer, seen, snapshot, throttle, tracker, saves, closers,
                   db, late, accepted, unsaved, fault>>

\* The server reads the database.  A retry of the request reads it again.
FetchAnswered(s) ==
    /\ pc[s] \in {"fetching", "answered"}
    /\ pc' = [pc EXCEPT ![s] = "answered"]
    /\ answer' = [answer EXCEPT ![s] = db]
    /\ UNCHANGED <<members, seen, snapshot, throttle, tracker, saves, closers,
                   db, late, accepted, unsaved, fault>>

\* The handler goes on after the load; a socket that is gone gets nothing.
AfterLoadIfConnected(s) ==  \* mutant: waits for a socket that is gone
    IF s \in members THEN "active" ELSE pc[s]
AfterLoad(s) == IF s \in members THEN "active" ELSE "idle"

\* loadSnapshot stores what it fetched, whatever the Map holds by now, and the
\* scene goes to the socket if it is still there.
StoreLoaded(s, content) ==
    /\ snapshot' = content
    /\ answer' = [answer EXCEPT ![s] = {}]
    /\ pc' = [pc EXCEPT ![s] = AfterLoad(s)]
    /\ seen' = [seen EXCEPT ![s] = IF s \in members THEN @ \cup content ELSE {}]
    /\ UNCHANGED <<members, throttle, tracker, saves, closers, db, late,
                   accepted, unsaved>>

FetchSucceeds(s) ==
    /\ pc[s] = "answered"
    /\ StoreLoaded(s, answer[s])
    /\ BlameIf(~(Current \subseteq answer[s]), "staleLoad")

\* Any error, and a timeout, loads an empty whiteboard.
FetchFails(s) ==
    /\ "fetch" \in Misbehaviours
    /\ pc[s] \in {"fetching", "answered"}
    /\ StoreLoaded(s, {})
    /\ BlameIf(Current # {}, "emptyLoad")

-----------------------------------------------------------------------------
(* SERVER_BROADCAST: relay to the room, merge, queue a save.                *)

\* The relay reaches all members, also those whose load is not finished.
Relay(e) ==
    [t \in Sockets |-> IF t \in members THEN seen[t] \cup {e} ELSE seen[t]]

\* createAndStoreLatestSnapshot: an edit without a snapshot is dropped.
Replaced(e) ==  \* mutant: the broadcast replaces the scene
    IF HasSnapshot THEN {e} ELSE NoSnapshot
Merged(e) == IF HasSnapshot THEN snapshot \cup {e} ELSE NoSnapshot

Broadcast(s, e) ==
    /\ s \in members /\ pc[s] = "active"
    /\ e \notin accepted
    /\ accepted' = accepted \cup {e}
    /\ seen' = Relay(e)
    /\ snapshot' = Merged(e)
    /\ QueueSave \/ QueueOverdueSave(Merged(e))
    /\ UNCHANGED <<members, pc, answer, tracker, closers, db, late, fault>>

-----------------------------------------------------------------------------
(* A socket leaves, and the DELETE_ROOM handler of the last one.            *)

\* What flush() would await, once request i has returned.
LastUnless(i) == IF throttle.last = i THEN NoSave ELSE throttle.last

\* The handler's last lines: cancel the throttled function that is in the Map
\* now, and drop the snapshot that is there now.
EndClose(c) ==
    /\ throttle' = [throttle EXCEPT
                      !.armed = FALSE, !.pending = FALSE,
                      !.last = LastUnless(closers[c].save)]
    /\ snapshot' = NoSnapshot
    /\ unsaved' = FALSE
    /\ closers' = [closers EXCEPT ![c] = IdleCloser]

\* A handler is suspended: it awaits a request in `phase`.
Suspend(phase, i) ==
    \E c \in CloserSlots :
        /\ closers[c].phase = "none"
        /\ closers' = [closers EXCEPT ![c] =
                         [phase |-> phase, save |-> i, reopened |-> FALSE]]

\* The flush runs the pending call and awaits it.
FlushQueued ==
    /\ throttle.pending /\ HasSnapshot
    /\ InvokeSave(snapshot, FALSE)
    /\ Suspend("flush", throttle'.last)

\* Nothing is pending: the flush returns the promise of the last call, which may
\* still be under way.
FlushAwaitsLast ==
    /\ ~throttle.pending /\ throttle.last # NoSave
    /\ Suspend("flush", throttle.last)
    /\ throttle' = [throttle EXCEPT !.armed = FALSE]
    /\ UNCHANGED <<saves, unsaved>>

\* Nothing to flush: flushThrottledSave saves without the deleted elements.
SaveAtOnce ==
    /\ ~throttle.pending /\ throttle.last = NoSave /\ HasSnapshot
    /\ \E i \in SaveSlots : StartSave(i, snapshot) /\ Suspend("final", i)
    /\ throttle' = [throttle EXCEPT !.armed = FALSE]

\* No snapshot to save: the handler ends in the same turn.
NothingToSave ==
    /\ ~HasSnapshot /\ (throttle.pending \/ throttle.last = NoSave)
    /\ throttle' = [throttle EXCEPT !.armed = FALSE, !.pending = FALSE,
                                    !.last = NoSave]
    /\ UNCHANGED <<closers, saves, unsaved>>

\* DELETE_ROOM until its first suspension.
CloseRoom ==
    /\ tracker' = FALSE
    /\ FlushQueued \/ FlushAwaitsLast \/ SaveAtOnce \/ NothingToSave

\* A socket is disconnected.  Its JOIN_ROOM handler, if suspended, goes on.
Leave(s) ==
    /\ s \in members
    /\ members' = members \ {s}
    /\ pc' = [pc EXCEPT ![s] = IF @ = "active" THEN "idle" ELSE @]
    /\ seen' = [seen EXCEPT ![s] = {}]
    /\ IF members' = {}
         THEN CloseRoom
         ELSE UNCHANGED <<tracker, throttle, closers, saves, unsaved>>
    /\ UNCHANGED <<answer, snapshot, db, late, accepted, fault>>

-----------------------------------------------------------------------------
(* SAVE requests.                                                           *)

\* The server stores the content of a request.  A copy that a retry sent may
\* be served as well.
SaveApplied(i) ==
    /\ saves[i].waiting
    /\ ~saves[i].applied \/ "timeout" \in Misbehaviours
    /\ db' = saves[i].content
    /\ saves' = [saves EXCEPT ![i].applied = TRUE]
    /\ BlameIf(~(db \subseteq saves[i].content), "staleSave")
    /\ UNCHANGED <<members, pc, answer, seen, snapshot, throttle, tracker,
                   closers, late, accepted, unsaved>>

\* What a call may return: success once the server stored it, an error any time.
MayReturn(i, ok) ==
    /\ saves[i].waiting
    /\ IF ok THEN saves[i].applied ELSE "save" \in Misbehaviours

\* A returned call may leave the copy of an attempt that timed out in the queue.
LeaveCopies(i) ==
    \/ UNCHANGED late
    \/ /\ "timeout" \in Misbehaviours
       /\ Cardinality(late \cup {saves[i].content}) <= MaxLate
       /\ late' = late \cup {saves[i].content}

KeepPromise(i) == UNCHANGED throttle  \* mutant: flush() goes on to await it
ForgetPromise(i) ==
    throttle' = [throttle EXCEPT !.last = LastUnless(i)]

NoAwaiterConsidered(i) == TRUE  \* mutant: the reply never gets to the handler
NobodyAwaits(i) == \A c \in CloserSlots : closers[c].save # i

\* An automatic save no DELETE_ROOM handler awaits: the room is notified.
AutoSaveReturns(i, ok) ==
    /\ MayReturn(i, ok)
    /\ NobodyAwaits(i)
    /\ saves' = [saves EXCEPT ![i] = IdleSave]
    /\ ForgetPromise(i)
    /\ LeaveCopies(i)
    /\ UNCHANGED <<members, pc, answer, seen, snapshot, tracker, closers, db,
                   accepted, unsaved, fault>>

\* The flush of a DELETE_ROOM handler returned: it saves the snapshot it finds
\* now, or, finding none, ends.
FlushReturns(c, ok) ==
    LET i == closers[c].save IN
    /\ closers[c].phase = "flush"
    /\ MayReturn(i, ok)
    /\ LeaveCopies(i)
    /\ IF HasSnapshot
         THEN /\ saves' = [saves EXCEPT ![i] =
                   [waiting |-> TRUE, applied |-> FALSE, content |-> snapshot]]
              /\ closers' = [closers EXCEPT ![c].phase = "final"]
              /\ unsaved' = FALSE
              /\ ForgetPromise(i)
              /\ UNCHANGED snapshot
         ELSE /\ saves' = [saves EXCEPT ![i] = IdleSave]
              /\ EndClose(c)
    /\ UNCHANGED <<members, pc, answer, seen, tracker, db, accepted, fault>>

\* The last save of a DELETE_ROOM handler returned; its result is not looked at.
FinalSaveReturns(c, ok) ==
    LET i == closers[c].save IN
    /\ closers[c].phase = "final"
    /\ MayReturn(i, ok)
    /\ LeaveCopies(i)
    /\ saves' = [saves EXCEPT ![i] = IdleSave]
    /\ EndClose(c)
    /\ fault' = IF fault # "none" \/ ~HasSnapshot THEN fault
                ELSE IF closers[c].reopened THEN "tornDown"
                ELSE IF ~ok THEN "unsavedClose" ELSE fault
    /\ UNCHANGED <<members, pc, answer, seen, tracker, db, accepted>>

\* The server serves, or the broker drops, a copy of a call that returned.
LateSave(content) ==
    /\ content \in late
    /\ late' = late \ {content}
    /\ \/ /\ db' = content
          /\ BlameIf(~(db \subseteq content), "staleSave")
       \/ UNCHANGED <<db, fault>>
    /\ UNCHANGED <<members, pc, answer, seen, snapshot, throttle, tracker,
                   saves, closers, accepted, unsaved>>

-----------------------------------------------------------------------------
\* The process dies and restarts: what was only in memory is gone, requests it
\* had sent may still be served.
Crash ==
    /\ "crash" \in Misbehaviours
    /\ members' = {}
    /\ pc' = [s \in Sockets |-> "idle"]
    /\ answer' = [s \in Sockets |-> {}]
    /\ seen' = [s \in Sockets |-> {}]
    /\ snapshot' = NoSnapshot
    /\ throttle' = NoThrottle
    /\ tracker' = FALSE
    /\ saves' = [i \in SaveSlots |-> IdleSave]
    /\ closers' = [c \in CloserSlots |-> IdleCloser]
    /\ \E sent \in SUBSET {saves[i].content : i \in {j \in SaveSlots : saves[j].waiting}} :
         /\ Cardinality(late \cup sent) <= MaxLate
         /\ late' = late \cup sent
    /\ unsaved' = FALSE
    /\ BlameIf(~(Current \subseteq db), "crash")
    /\ UNCHANGED <<db, accepted>>

-----------------------------------------------------------------------------
SaveReturns ==
    \E ok \in BOOLEAN :
        \/ \E i \in SaveSlots : AutoSaveReturns(i, ok)
        \/ \E c \in CloserSlots : FlushReturns(c, ok) \/ FinalSaveReturns(c, ok)

Next ==
    \/ \E s \in Sockets :
          \/ Join(s)
          \/ LoadForGone(s)
          \/ FetchAnswered(s)
          \/ FetchSucceeds(s)
          \/ FetchFails(s)
          \/ \E e \in Edits : Broadcast(s, e)
          \/ Leave(s)
    \/ ThrottleFires
    \/ \E i \in SaveSlots : SaveApplied(i)
    \/ SaveReturns
    \/ \E content \in late : LateSave(content)
    \/ Crash

Spec == Init /\ [][Next]_vars

-----------------------------------------------------------------------------
(* Properties.                                                              *)

TypeOK ==
    /\ members \subseteq Sockets
    /\ pc \in [Sockets -> {"idle", "fetching", "answered", "active"}]
    /\ answer \in [Sockets -> Content]
    /\ seen \in [Sockets -> Content]
    /\ HasSnapshot => snapshot \in Content
    /\ throttle \in [made : BOOLEAN, armed : BOOLEAN, pending : BOOLEAN,
                     last : SaveSlots \cup {NoSave}]
    /\ tracker \in BOOLEAN
    /\ saves \in [SaveSlots -> [waiting : BOOLEAN, applied : BOOLEAN, content : Content]]
    /\ closers \in [CloserSlots -> [phase : {"none", "flush", "final"},
                                    save : SaveSlots \cup {NoSave},
                                    reopened : BOOLEAN]]
    /\ db \in Content
    /\ late \subseteq Content
    /\ accepted \in Content
    /\ unsaved \in BOOLEAN
    /\ throttle.last # NoSave => saves[throttle.last].waiting
    /\ \A c \in CloserSlots :
          closers[c].phase # "none" <=> closers[c].save # NoSave
    /\ \A c \in CloserSlots :
          closers[c].phase # "none" => saves[closers[c].save].waiting
    /\ fault \in Faults

\* A room has its contribution tracker exactly while sockets are in it, and a
\* throttled function whenever they are, although a DELETE_ROOM handler may
\* still be suspended when the room is created again (server.ts:187-199, 227).
TrackedIffOpen ==
    /\ tracker <=> members # {}
    /\ members # {} => throttle.made

\* No automatic save is queued for a room that everybody left: the flush takes
\* the queued call with it (server.ts:229, 731).
EmptyRoomIsQuiet == members = {} => ~throttle.pending

\* An edit merged into the snapshot is never forgotten by the savers: until a
\* save has read it, one is queued or a closing handler has one yet to start
\* (server.ts:338-344, 221-233).
DirtyIsScheduled ==
    unsaved => /\ HasSnapshot
               /\ \/ throttle.armed /\ throttle.pending
                  \/ \E c \in CloserSlots : closers[c].phase = "flush"

\* The ways to lose an accepted edit are exactly the recorded faults: until one
\* has happened, everything that was broadcast is in the snapshot, and in the
\* database once the snapshot is gone, whatever the joins, closes, saves and
\* their retries interleave (server.ts:201-234, 439-455, 747-795).
NothingLost ==
    fault = "none" => accepted \subseteq Current

\* Until an accepted edit may be lost, every socket whose scene was initialised has
\* been sent the whole snapshot: by SCENE_INIT, or by the broadcasts it got from
\* the moment it joined (handlers.ts:109, 135, server.ts:304-306).
ActiveHasSeenAll ==
    fault = "none" =>
      \A s \in members : pc[s] = "active" =>
          HasSnapshot /\ snapshot \subseteq seen[s]

\* What a member is shown, once its scene was initialised.
View == [s \in Sockets |->
           IF s \in members /\ pc[s] = "active" THEN seen[s] ELSE NoSnapshot]

Board == INSTANCE DurableBoard WITH
    Clients <- Sockets, Strokes <- Edits, Initial <- Base, NoView <- NoSnapshot,
    board <- accepted, stored <- db, held <- HasSnapshot, view <- View,
    broken <- (fault # "none")

\* The room is one durable board that all its initialised members see, through joins
\* during a load, closes that overlap with joins, retries and crashes, until a recorded
\* fault breaks the promise (server.ts:201-234, 304-306, 439-455, 747-795).
ImplementsBoard == Board!Spec

\* The comment of DELETE_ROOM (server.ts:208-211): a room that still has sockets
\* is left alone.  Only a process that dies takes the snapshot from its members.
LiveRoomKeepsSnapshot ==
    [][HasSnapshot /\ snapshot' = NoSnapshot => members = {} \/ members' = {}]_vars

-----------------------------------------------------------------------------
(* Liveness.  Timers fire; a call on the queue returns, by its reply or by   *)
(* its timeout; nothing makes users come, draw or leave.                     *)

Fairness ==
    /\ \A s \in Sockets : /\ WF_vars(FetchAnswered(s) /\ pc[s] = "fetching")
                         /\ WF_vars(FetchSucceeds(s) \/ FetchFails(s))
    /\ WF_vars(ThrottleFires)
    /\ \A i \in SaveSlots : /\ WF_vars(SaveApplied(i) /\ ~saves[i].applied)
                           /\ WF_vars(\E ok \in BOOLEAN : AutoSaveReturns(i, ok))
    /\ \A c \in CloserSlots :
          WF_vars(\E ok \in BOOLEAN : FlushReturns(c, ok) \/ FinalSaveReturns(c, ok))

FairSpec == Spec /\ Fairness

\* Every JOIN_ROOM handler ends, also when its socket is gone.
JoinEnds == \A s \in Sockets : pc[s] = "fetching" ~> pc[s] \in {"active", "idle"}

\* Every DELETE_ROOM handler ends, although it awaits the save of a throttled
\* function that a new CREATE_ROOM has replaced meanwhile.
CloseEnds == \A c \in CloserSlots : closers[c].phase # "none" ~> closers[c].phase = "none"

\* With an integration that answers, an accepted edit reaches the database, in
\* the room that stays open as in the one that closes, unless a fault came first.
EditReachesStorage == \A e \in Edits : e \in accepted ~> (e \in db \/ fault # "none")
=============================================================================
