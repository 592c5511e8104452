---------------------- MODULE WhiteboardRoomDurability ----------------------
(* What WhiteboardRoom keeps of the users' edits, for every value of its    *)
(* constants: theorems on top of the bookkeeping of WhiteboardRoomProofs.   *)
EXTENDS WhiteboardRoomProofs

\* A closing handler that no CREATE_ROOM has overtaken closes an empty room.
ReopenedUnlessEmpty ==
    \A c \in CloserSlots :
        closers[c].phase # "none" /\ ~closers[c].reopened => members = {}

\* Whatever is stored, loaded or sent was once broadcast, or was there at first.
NothingInvented ==
    /\ db \subseteq accepted
    /\ HasSnapshot => snapshot \subseteq accepted
    /\ \A s \in Sockets : answer[s] \subseteq accepted
    /\ \A i \in SaveSlots : saves[i].content \subseteq accepted
    /\ \A content \in late : content \subseteq accepted

\* The last save of a handler that nobody has overtaken has every edit.
FinalHoldsAll ==
    \A c \in CloserSlots :
        closers[c].phase = "final" /\ ~closers[c].reopened
        => accepted \subseteq saves[closers[c].save].content

\* What the server has stored for a request under way is still stored.
AppliedIsStored ==
    \A i \in SaveSlots :
        saves[i].waiting /\ saves[i].applied => saves[i].content \subseteq db

KeptInMemory == accepted \subseteq Current

SeenByActive ==
    \A s \in members :
        pc[s] = "active" => HasSnapshot /\ snapshot \subseteq seen[s]

Durable == FinalHoldsAll /\ AppliedIsStored /\ KeptInMemory /\ SeenByActive

Storage ==
    /\ ReopenedUnlessEmpty
    /\ NothingInvented
    /\ fault = "none" => Durable

LEMMA StorageInit == Init => Storage
BY RoomAssumption
   DEF Init, Storage, ReopenedUnlessEmpty, NothingInvented, Durable, FinalHoldsAll,
       AppliedIsStored, KeptInMemory, SeenByActive, Current, HasSnapshot,
       IdleSave, IdleCloser

\* What a closing handler awaits is a request under way.
LEMMA AwaitedIsWaiting ==
    ASSUME Control, NEW c \in CloserSlots, closers[c].phase # "none"
    PROVE  closers[c].save \in SaveSlots /\ saves[closers[c].save].waiting
BY DEF Control, TypeOK

\* A request that starts in a free slot disturbs no other.
LEMMA StorageStart ==
    ASSUME Control, Storage, NEW i \in SaveSlots, ~saves[i].waiting,
           NEW content \in Content, content \subseteq accepted', accepted \subseteq accepted',
           saves' = [saves EXCEPT ![i] =
                       [waiting |-> TRUE, applied |-> FALSE, content |-> content]],
           db' = db
    PROVE  /\ \A j \in SaveSlots : saves'[j].content \subseteq accepted'
           /\ AppliedIsStored => AppliedIsStored'
           /\ \A c \in CloserSlots : closers[c].phase # "none" =>
                 saves'[closers[c].save] = saves[closers[c].save]
           /\ saves'[i].content = content
<1>1. saves \in [SaveSlots -> SaveType]
  BY DEF Control, TypeOK, SaveType
<1>2. \A j \in SaveSlots \ {i} : saves'[j] = saves[j]
  BY <1>1
<1>3. saves'[i].content = content /\ saves'[i].applied = FALSE
  BY <1>1
<1>4. \A j \in SaveSlots : saves[j].content \subseteq accepted
  BY DEF Storage, NothingInvented
<1>5. \A c \in CloserSlots : closers[c].phase # "none" => closers[c].save \in SaveSlots \ {i}
  BY AwaitedIsWaiting
<1> QED BY <1>2, <1>3, <1>4, <1>5 DEF AppliedIsStored

LEMMA StorageInvoke ==
    ASSUME Control, Storage, NEW content, NEW rearm \in BOOLEAN,
           content # NoSnapshot => content \in Content /\ content \subseteq accepted',
           accepted \subseteq accepted',
           InvokeSave(content, rearm), db' = db
    PROVE  /\ \A j \in SaveSlots : saves'[j].content \subseteq accepted'
           /\ AppliedIsStored => AppliedIsStored'
           /\ \A c \in CloserSlots : closers[c].phase # "none" =>
                 saves'[closers[c].save] = saves[closers[c].save]
<1>1. CASE content = NoSnapshot
  <2>1. saves' = saves
    BY <1>1 DEF InvokeSave
  <2> QED BY <2>1 DEF Storage, NothingInvented, AppliedIsStored
<1>2. CASE content # NoSnapshot
  <2>1. PICK i \in SaveSlots : StartSave(i, content)
    BY <1>2 DEF InvokeSave
  <2> QED BY <1>2, <2>1, StorageStart DEF StartSave
<1> QED BY <1>1, <1>2

LEMMA StorageJoin ==
    ASSUME Control, Storage, NEW s \in Sockets, Join(s)
    PROVE  Storage'
<1>1. /\ members' = members \cup {s}
      /\ UNCHANGED <<answer, snapshot, saves, db, late, accepted, unsaved, fault>>
  BY DEF Join
<1>2. TypeOK
  BY DEF Control
<1>3. /\ \A c \in CloserSlots : /\ closers'[c].phase = closers[c].phase
                                /\ closers'[c].save = closers[c].save
                                /\ ~closers'[c].reopened => ~closers[c].reopened
      /\ \A c \in CloserSlots :
            closers[c].phase # "none" => closers'[c].reopened
  <2>1. CASE members = {}
    <3>1. closers' = [c \in CloserSlots |->
                        IF closers[c].phase = "none" THEN closers[c]
                        ELSE [closers[c] EXCEPT !.reopened = TRUE]]
      BY <2>1 DEF Join, OpenRoom
    <3> QED BY <1>2, <3>1 DEF TypeOK
  <2>2. CASE members # {}
    BY <2>2 DEF Join, Storage, ReopenedUnlessEmpty
  <2> QED BY <2>1, <2>2
<1>4. ReopenedUnlessEmpty'
  BY <1>3 DEF ReopenedUnlessEmpty
<1>5. NothingInvented'
  BY <1>1 DEF Storage, NothingInvented, HasSnapshot
<1>6. ASSUME fault = "none" PROVE Durable'
  <2>1. FinalHoldsAll'
    BY <1>3 DEF FinalHoldsAll
  <2>2. AppliedIsStored' /\ KeptInMemory'
    BY <1>1, <1>6 DEF Storage, Durable, AppliedIsStored, KeptInMemory, Current, HasSnapshot
  <2>3. SeenByActive'
    BY <1>1, <1>2, <1>6 DEF Join, InitScene, TypeOK, Storage, Durable, SeenByActive, HasSnapshot
  <2> QED BY <2>1, <2>2, <2>3 DEF Durable
<1> QED BY <1>1, <1>4, <1>5, <1>6 DEF Storage

LEMMA StorageLoadForGone ==
    ASSUME Control, Storage, NEW s \in Sockets, LoadForGone(s)
    PROVE  Storage'
<1>1. /\ UNCHANGED <<members, answer, seen, snapshot, throttle, tracker, saves, closers,
                     db, late, accepted, unsaved, fault>>
      /\ pc' = [pc EXCEPT ![s] = "fetching"]
  BY DEF LoadForGone
<1>2. TypeOK
  BY DEF Control
<1>3. ReopenedUnlessEmpty' /\ NothingInvented'
  BY <1>1 DEF Storage, ReopenedUnlessEmpty, NothingInvented, HasSnapshot
<1>4. ASSUME fault = "none" PROVE Durable'
  BY <1>1, <1>2, <1>4 DEF Storage, Durable, FinalHoldsAll, AppliedIsStored, KeptInMemory,
     SeenByActive, Current, HasSnapshot, TypeOK
<1> QED BY <1>1, <1>3, <1>4 DEF Storage

LEMMA StorageFetchAnswered ==
    ASSUME Control, Storage, NEW s \in Sockets, FetchAnswered(s)
    PROVE  Storage'
<1>1. /\ UNCHANGED <<members, seen, snapshot, throttle, tracker, saves, closers,
                     db, late, accepted, unsaved, fault>>
      /\ pc' = [pc EXCEPT ![s] = "answered"]
      /\ answer' = [answer EXCEPT ![s] = db]
  BY DEF FetchAnswered
<1>2. TypeOK
  BY DEF Control
<1>3. ReopenedUnlessEmpty' /\ NothingInvented'
  BY <1>1, <1>2 DEF Storage, ReopenedUnlessEmpty, NothingInvented, HasSnapshot, TypeOK
<1>4. ASSUME fault = "none" PROVE Durable'
  BY <1>1, <1>2, <1>4 DEF Storage, Durable, FinalHoldsAll, AppliedIsStored, KeptInMemory,
     SeenByActive, Current, HasSnapshot, TypeOK
<1> QED BY <1>1, <1>3, <1>4 DEF Storage

\* The content that a handler stores: either the server's answer or nothing.
LEMMA StorageLoaded ==
    ASSUME Control, Storage, NEW s \in Sockets, NEW content \in Content,
           StoreLoaded(s, content), content \subseteq accepted,
           fault' = "none" => fault = "none" /\ Current \subseteq content
    PROVE  Storage'
<1>1. /\ UNCHANGED <<members, throttle, tracker, saves, closers, db, late,
                     accepted, unsaved>>
      /\ snapshot' = content /\ answer' = [answer EXCEPT ![s] = {}]
      /\ pc' = [pc EXCEPT ![s] = AfterLoad(s)]
  BY DEF StoreLoaded
<1>2. TypeOK /\ HasSnapshot'
  BY <1>1, RoomAssumption DEF Control, HasSnapshot, Content
<1>3. ReopenedUnlessEmpty' /\ NothingInvented'
  BY <1>1, <1>2 DEF Storage, ReopenedUnlessEmpty, NothingInvented, TypeOK
<1>4. ASSUME fault' = "none" PROVE Durable'
  <2>1. Durable /\ Current \subseteq content
    BY <1>4 DEF Storage
  <2>2. FinalHoldsAll' /\ AppliedIsStored'
    BY <1>1, <2>1 DEF Durable, FinalHoldsAll, AppliedIsStored
  <2>3. KeptInMemory'
    BY <1>1, <1>2, <2>1 DEF Durable, KeptInMemory, Current
  <2>4. ASSUME NEW t \in members', pc'[t] = "active"
        PROVE  snapshot' \subseteq seen'[t]
    <3>1. CASE t = s
      BY <1>1, <1>2, <3>1, <2>4 DEF StoreLoaded, TypeOK
    <3>2. CASE t # s
      <4>1. pc[t] = "active" /\ seen'[t] = seen[t] /\ t \in members
        BY <1>1, <1>2, <2>4, <3>2 DEF StoreLoaded, TypeOK
      <4>2. HasSnapshot /\ snapshot \subseteq seen[t] /\ accepted \subseteq snapshot
        BY <2>1, <4>1 DEF Durable, SeenByActive, KeptInMemory, Current
      <4> QED BY <1>1, <4>1, <4>2
    <3> QED BY <3>1, <3>2
  <2> QED BY <1>2, <2>2, <2>3, <2>4 DEF Durable, SeenByActive
<1> QED BY <1>3, <1>4 DEF Storage

LEMMA StorageFetch ==
    ASSUME Control, Storage, NEW s \in Sockets, FetchSucceeds(s) \/ FetchFails(s)
    PROVE  Storage'
<1>1. TypeOK
  BY DEF Control
<1>2. CASE FetchSucceeds(s)
  <2>1. answer[s] \in Content /\ answer[s] \subseteq accepted
    BY <1>1 DEF TypeOK, Storage, NothingInvented
  <2>2. fault' = "none" => fault = "none" /\ Current \subseteq answer[s]
    BY <1>2 DEF FetchSucceeds, BlameIf
  <2> QED BY <1>2, <2>1, <2>2, StorageLoaded DEF FetchSucceeds
<1>3. CASE FetchFails(s)
  <2>1. fault' = "none" => fault = "none" /\ Current \subseteq {}
    BY <1>3 DEF FetchFails, BlameIf
  <2> QED BY <1>3, <2>1, StorageLoaded DEF FetchFails, Content
<1> QED BY <1>2, <1>3

LEMMA StorageBroadcast ==
    ASSUME Control, Storage, NEW s \in Sockets, NEW e \in Edits, Broadcast(s, e)
    PROVE  Storage'
<1>1. /\ UNCHANGED <<members, pc, answer, tracker, closers, db, late, fault>>
      /\ s \in members /\ pc[s] = "active"
      /\ accepted' = accepted \cup {e} /\ seen' = Relay(e) /\ snapshot' = Merged(e)
  BY DEF Broadcast
<1>2. TypeOK
  BY DEF Control
<1>3. /\ Merged(e) # NoSnapshot => Merged(e) \in Content /\ Merged(e) \subseteq accepted'
      /\ accepted \subseteq accepted'
  BY <1>1, <1>2 DEF TypeOK, Merged, HasSnapshot, Content, Storage, NothingInvented
<1>4. /\ \A j \in SaveSlots : saves'[j].content \subseteq accepted'
      /\ AppliedIsStored => AppliedIsStored'
  <2>1. CASE saves' = saves
    BY <1>1, <1>3, <2>1 DEF Storage, NothingInvented, AppliedIsStored
  <2>2. CASE InvokeSave(Merged(e), TRUE)
    <3>1. TRUE \in BOOLEAN /\ db' = db
      BY <1>1
    <3> QED BY <1>3, <2>2, <3>1, StorageInvoke
  <2> QED BY <2>1, <2>2 DEF Broadcast, QueueSave, QueueOverdueSave
<1>5. ReopenedUnlessEmpty'
  BY <1>1 DEF Storage, ReopenedUnlessEmpty
<1>6. NothingInvented'
  BY <1>1, <1>3, <1>4 DEF Storage, NothingInvented, HasSnapshot
<1>7. ASSUME fault = "none" PROVE Durable'
  <2>1. HasSnapshot /\ accepted \subseteq snapshot
    BY <1>1, <1>7 DEF Storage, Durable, SeenByActive, KeptInMemory, Current
  <2>2. snapshot' = snapshot \cup {e} /\ snapshot' \in Content /\ HasSnapshot'
    BY <1>1, <1>2, <2>1, RoomAssumption DEF Merged, HasSnapshot, TypeOK, Content
  <2>3. FinalHoldsAll'
    BY <1>1 DEF FinalHoldsAll, Storage, ReopenedUnlessEmpty
  <2>4. AppliedIsStored'
    BY <1>4, <1>7 DEF Storage, Durable
  <2>5. KeptInMemory'
    BY <1>1, <2>1, <2>2 DEF KeptInMemory, Current
  <2>6. SeenByActive'
    BY <1>1, <1>2, <1>7, <2>2 DEF Relay, TypeOK, Storage, Durable, SeenByActive
  <2> QED BY <2>3, <2>4, <2>5, <2>6 DEF Durable
<1> QED BY <1>1, <1>5, <1>6, <1>7 DEF Storage

LEMMA StorageThrottleFires ==
    ASSUME Control, Storage, ThrottleFires
    PROVE  Storage'
<1>1. UNCHANGED <<members, pc, answer, seen, snapshot, tracker, closers, db,
                  late, accepted, fault>>
  BY DEF ThrottleFires
<1>2. snapshot # NoSnapshot => snapshot \in Content /\ snapshot \subseteq accepted'
  BY <1>1 DEF Control, TypeOK, HasSnapshot, Storage, NothingInvented
<1>3. /\ \A j \in SaveSlots : saves'[j].content \subseteq accepted'
      /\ AppliedIsStored => AppliedIsStored'
      /\ \A c \in CloserSlots : closers[c].phase # "none" =>
            saves'[closers[c].save] = saves[closers[c].save]
  <2>1. CASE saves' = saves
    BY <1>1, <2>1 DEF Storage, NothingInvented, AppliedIsStored
  <2>2. CASE InvokeSave(snapshot, FALSE)
    <3>1. FALSE \in BOOLEAN /\ accepted \subseteq accepted' /\ db' = db
      BY <1>1
    <3> QED BY <1>2, <2>2, <3>1, StorageInvoke
  <2> QED BY <2>1, <2>2 DEF ThrottleFires
<1>4. ReopenedUnlessEmpty' /\ NothingInvented'
  BY <1>1, <1>3 DEF Storage, ReopenedUnlessEmpty, NothingInvented, HasSnapshot
<1>5. ASSUME fault = "none" PROVE Durable'
  BY <1>1, <1>3, <1>5 DEF Storage, Durable, FinalHoldsAll, KeptInMemory, SeenByActive,
     Current, HasSnapshot
<1> QED BY <1>1, <1>4, <1>5 DEF Storage

\* A handler suspends: it is a new one, and the others stay as they were.
LEMMA StorageSuspend ==
    ASSUME Control, NEW phase \in {"flush", "final"}, NEW i \in SaveSlots, Suspend(phase, i)
    PROVE  \A d \in CloserSlots :
              \/ closers'[d] = closers[d]
              \/ closers'[d].phase = phase /\ closers'[d].save = i
<1>1. closers \in [CloserSlots -> CloserType]
  BY DEF Control, TypeOK, CloserType
<1> QED BY <1>1, SuspendEffect

LEMMA StorageLeave ==
    ASSUME Control, Storage, NEW s \in Sockets, Leave(s)
    PROVE  Storage'
<1>1. /\ s \in members /\ members' = members \ {s}
      /\ UNCHANGED <<answer, snapshot, db, late, accepted, fault>>
      /\ pc' = [pc EXCEPT ![s] = IF @ = "active" THEN "idle" ELSE @]
      /\ seen' = [seen EXCEPT ![s] = {}]
  BY DEF Leave
<1>2. TypeOK
  BY DEF Control
<1>3. snapshot # NoSnapshot => snapshot \in Content /\ snapshot \subseteq accepted'
  BY <1>1, <1>2 DEF TypeOK, HasSnapshot, Storage, NothingInvented
<1>4. SeenByActive => SeenByActive'
  BY <1>1, <1>2 DEF TypeOK, SeenByActive, HasSnapshot
<1>5. CASE members' # {}
  <2>1. UNCHANGED <<closers, saves>>
    BY <1>5 DEF Leave
  <2>2. ReopenedUnlessEmpty' /\ NothingInvented'
    BY <1>1, <2>1 DEF Storage, ReopenedUnlessEmpty, NothingInvented, HasSnapshot
  <2>3. ASSUME fault = "none" PROVE Durable'
    BY <1>1, <1>4, <2>1, <2>3 DEF Storage, Durable, FinalHoldsAll, AppliedIsStored,
       KeptInMemory, Current, HasSnapshot
  <2> QED BY <1>1, <2>2, <2>3 DEF Storage
<1>6. CASE members' = {}
  <2>1. /\ \A j \in SaveSlots : saves'[j].content \subseteq accepted'
        /\ AppliedIsStored => AppliedIsStored'
        /\ \A c \in CloserSlots : closers[c].phase # "none" =>
              saves'[closers[c].save] = saves[closers[c].save]
        /\ \A d \in CloserSlots :
              \/ closers'[d] = closers[d]
              \/ closers'[d].phase = "flush"
              \/ /\ closers'[d].phase = "final" /\ HasSnapshot
                 /\ saves'[closers'[d].save].content = snapshot
    <3>0. /\ accepted \subseteq accepted' /\ db' = db
          /\ FALSE \in BOOLEAN
      BY <1>1
    <3>1. CASE FlushQueued
      <4>1. /\ InvokeSave(snapshot, FALSE) /\ snapshot # NoSnapshot
            /\ Suspend("flush", throttle'.last)
        BY <3>1 DEF FlushQueued, HasSnapshot
      <4>2. throttle'.last \in SaveSlots
        BY <1>2, <1>3, <3>0, <4>1, InvokeSends
      <4>3. \A d \in CloserSlots : closers'[d] = closers[d] \/ closers'[d].phase = "flush"
        BY <4>1, <4>2, StorageSuspend
      <4> QED BY <1>3, <3>0, <4>1, <4>3, StorageInvoke
    <3>2. CASE FlushAwaitsLast
      <4>1. saves' = saves /\ throttle.last \in SaveSlots /\ Suspend("flush", throttle.last)
        BY <1>2, <3>2 DEF FlushAwaitsLast, TypeOK
      <4>2. \A d \in CloserSlots : closers'[d] = closers[d] \/ closers'[d].phase = "flush"
        BY <4>1, StorageSuspend
      <4> QED BY <1>1, <4>1, <4>2 DEF Storage, NothingInvented, AppliedIsStored
    <3>3. CASE SaveAtOnce
      <4>1. PICK i \in SaveSlots : StartSave(i, snapshot) /\ Suspend("final", i)
        BY <3>3 DEF SaveAtOnce
      <4>2. /\ snapshot \in Content /\ HasSnapshot
            /\ ~saves[i].waiting
            /\ saves' = [saves EXCEPT ![i] =
                 [waiting |-> TRUE, applied |-> FALSE, content |-> snapshot]]
        BY <1>3, <3>3, <4>1 DEF SaveAtOnce, StartSave, HasSnapshot
      <4>3. /\ \A j \in SaveSlots : saves'[j].content \subseteq accepted'
            /\ AppliedIsStored => AppliedIsStored'
            /\ \A c \in CloserSlots : closers[c].phase # "none" =>
                  saves'[closers[c].save] = saves[closers[c].save]
            /\ saves'[i].content = snapshot
        BY <1>3, <3>0, <4>2, StorageStart DEF HasSnapshot
      <4>4. \A d \in CloserSlots :
              \/ closers'[d] = closers[d]
              \/ closers'[d].phase = "final" /\ closers'[d].save = i
        BY <4>1, StorageSuspend
      <4> QED BY <4>2, <4>3, <4>4
    <3>4. CASE NothingToSave
      BY <1>1, <3>4 DEF NothingToSave, Storage, NothingInvented, AppliedIsStored
    <3> QED BY <1>6, <3>1, <3>2, <3>3, <3>4 DEF Leave, CloseRoom
  <2>2. ReopenedUnlessEmpty'
    BY <1>6 DEF ReopenedUnlessEmpty
  <2>3. NothingInvented'
    BY <1>1, <2>1 DEF Storage, NothingInvented, HasSnapshot
  <2>4. ASSUME fault = "none" PROVE Durable'
    <3>1. Durable
      BY <2>4 DEF Storage
    <3>2. AppliedIsStored' /\ KeptInMemory' /\ SeenByActive'
      BY <1>1, <1>4, <2>1, <3>1 DEF Durable, KeptInMemory, Current, HasSnapshot
    <3>3. ASSUME NEW d \in CloserSlots, closers'[d].phase = "final", ~closers'[d].reopened
          PROVE  accepted' \subseteq saves'[closers'[d].save].content
      <4>1. CASE closers'[d] = closers[d]
        <5>1. closers[d].phase # "none" /\ closers[d].phase = "final" /\ ~closers[d].reopened
          BY <3>3, <4>1
        <5>2. saves'[closers'[d].save] = saves[closers[d].save]
          BY <2>1, <4>1, <5>1
        <5> QED BY <1>1, <3>1, <5>1, <5>2 DEF Durable, FinalHoldsAll
      <4>2. CASE HasSnapshot /\ saves'[closers'[d].save].content = snapshot
        BY <1>1, <3>1, <4>2 DEF Durable, KeptInMemory, Current
      <4> QED BY <2>1, <3>3, <4>1, <4>2
    <3> QED BY <3>2, <3>3 DEF Durable, FinalHoldsAll
  <2> QED BY <1>1, <2>2, <2>3, <2>4 DEF Storage
<1> QED BY <1>5, <1>6

\* A request returns that no handler awaits, or whose handler is done with it.
LEMMA StorageSettled ==
    ASSUME Control, Storage, NEW i \in SaveSlots,
           saves' = [saves EXCEPT ![i] = IdleSave],
           LeaveCopies(i), db' = db, accepted' = accepted, answer' = answer
    PROVE  /\ \A j \in SaveSlots \ {i} : saves'[j] = saves[j]
           /\ \A j \in SaveSlots : saves'[j].content \subseteq accepted'
           /\ \A content \in late' : content \subseteq accepted'
           /\ AppliedIsStored => AppliedIsStored'
<1>1. saves \in [SaveSlots -> SaveType]
  BY DEF Control, TypeOK, SaveType
<1>2. /\ \A j \in SaveSlots \ {i} : saves'[j] = saves[j]
      /\ saves'[i] = IdleSave
  BY <1>1
<1>3. IdleSave.content = {} /\ IdleSave.waiting = FALSE
  BY DEF IdleSave
<1>4. \A content \in late' : content \subseteq accepted'
  BY DEF LeaveCopies, Storage, NothingInvented
<1> QED BY <1>2, <1>3, <1>4 DEF Storage, NothingInvented, AppliedIsStored

LEMMA StorageAutoSaveReturns ==
    ASSUME Control, Storage, NEW i \in SaveSlots, NEW ok \in BOOLEAN, AutoSaveReturns(i, ok)
    PROVE  Storage'
<1>1. /\ UNCHANGED <<members, pc, answer, seen, snapshot, tracker, closers, db,
                     accepted, unsaved, fault>>
      /\ \A c \in CloserSlots : closers[c].save # i
      /\ saves' = [saves EXCEPT ![i] = IdleSave] /\ LeaveCopies(i)
  BY DEF AutoSaveReturns, NobodyAwaits
<1>2. /\ \A j \in SaveSlots \ {i} : saves'[j] = saves[j]
      /\ \A j \in SaveSlots : saves'[j].content \subseteq accepted'
      /\ \A content \in late' : content \subseteq accepted'
      /\ AppliedIsStored => AppliedIsStored'
  BY <1>1, StorageSettled
<1>3. ReopenedUnlessEmpty' /\ NothingInvented'
  BY <1>1, <1>2 DEF Storage, ReopenedUnlessEmpty, NothingInvented, HasSnapshot
<1>4. ASSUME fault = "none" PROVE Durable'
  <2>1. Durable
    BY <1>4 DEF Storage
  <2>2. FinalHoldsAll'
    BY <1>1, <1>2, <2>1, AwaitedIsWaiting DEF Durable, FinalHoldsAll
  <2> QED
    BY <1>1, <1>2, <2>1, <2>2 DEF Durable, KeptInMemory, SeenByActive, Current, HasSnapshot
<1> QED BY <1>1, <1>3, <1>4 DEF Storage

\* A closing handler ends, and what it was still needed for is in the database.
LEMMA StorageEndClose ==
    ASSUME Control, Storage, NEW c \in CloserSlots, closers[c].phase # "none",
           saves' = [saves EXCEPT ![closers[c].save] = IdleSave],
           EndClose(c), LeaveCopies(closers[c].save),
           UNCHANGED <<members, pc, answer, seen, tracker, db, accepted>>,
           fault' = "none" =>
              /\ fault = "none"
              /\ HasSnapshot => members = {} /\ accepted \subseteq db
    PROVE  Storage'
<1>1. /\ closers[c].save \in SaveSlots
      /\ \A d \in CloserSlots \ {c} :
            closers[d].phase # "none" => closers[d].save \in SaveSlots \ {closers[c].save}
  BY AwaitedIsWaiting DEF Control, Awaiting, AwaitsItsOwn
<1>2. /\ \A j \in SaveSlots \ {closers[c].save} : saves'[j] = saves[j]
      /\ \A j \in SaveSlots : saves'[j].content \subseteq accepted'
      /\ \A content \in late' : content \subseteq accepted'
      /\ AppliedIsStored => AppliedIsStored'
  BY <1>1, StorageSettled
<1>3. /\ closers'[c].phase = "none"
      /\ \A d \in CloserSlots \ {c} : closers'[d] = closers[d]
      /\ snapshot' = NoSnapshot
  BY EndCloseEffect
<1>4. ReopenedUnlessEmpty' /\ NothingInvented'
  BY <1>2, <1>3 DEF Storage, ReopenedUnlessEmpty, NothingInvented, HasSnapshot
<1>5. ASSUME fault' = "none" PROVE Durable'
  <2>1. Durable /\ (HasSnapshot => members = {} /\ accepted \subseteq db)
    BY <1>5 DEF Storage
  <2>2. FinalHoldsAll'
    <3> SUFFICES ASSUME NEW d \in CloserSlots, closers'[d].phase = "final",
                        ~closers'[d].reopened
                 PROVE  accepted' \subseteq saves'[closers'[d].save].content
      BY DEF FinalHoldsAll
    <3>1. d # c /\ closers'[d] = closers[d]
      BY <1>3
    <3>2. closers[d].phase = "final" /\ ~closers[d].reopened
      BY <3>1
    <3>3. saves'[closers[d].save] = saves[closers[d].save]
      BY <1>1, <1>2, <3>1, <3>2
    <3> QED BY <2>1, <3>1, <3>2, <3>3 DEF Durable, FinalHoldsAll
  <2>3. KeptInMemory'
    BY <1>3, <2>1 DEF Durable, KeptInMemory, Current, HasSnapshot
  <2>4. SeenByActive'
    BY <2>1 DEF Durable, SeenByActive
  <2> QED BY <1>2, <2>1, <2>2, <2>3, <2>4 DEF Durable
<1> QED BY <1>4, <1>5 DEF Storage

LEMMA StorageFinalSaveReturns ==
    ASSUME Control, Storage, NEW c \in CloserSlots, NEW ok \in BOOLEAN,
           FinalSaveReturns(c, ok)
    PROVE  Storage'
<1>1. /\ closers[c].phase = "final"
      /\ MayReturn(closers[c].save, ok)
      /\ saves' = [saves EXCEPT ![closers[c].save] = IdleSave]
      /\ EndClose(c) /\ LeaveCopies(closers[c].save)
      /\ UNCHANGED <<members, pc, answer, seen, tracker, db, accepted>>
  BY DEF FinalSaveReturns
<1>2. ASSUME fault' = "none"
      PROVE  /\ fault = "none"
             /\ HasSnapshot => members = {} /\ accepted \subseteq db
  <2>1. fault = "none" /\ (HasSnapshot => ~closers[c].reopened /\ ok)
    BY <1>2 DEF FinalSaveReturns
  <2>2. ASSUME HasSnapshot PROVE members = {} /\ accepted \subseteq db
    <3>1. ~closers[c].reopened /\ Durable
      BY <2>1, <2>2 DEF Storage
    <3>2. members = {} /\ accepted \subseteq saves[closers[c].save].content
      BY <1>1, <3>1 DEF Storage, ReopenedUnlessEmpty, Durable, FinalHoldsAll
    <3>3. closers[c].save \in SaveSlots /\ saves[closers[c].save].waiting
      BY <1>1, AwaitedIsWaiting
    <3>4. saves[closers[c].save].applied
      BY <1>1, <2>1, <2>2 DEF MayReturn
    <3> QED BY <3>1, <3>2, <3>3, <3>4 DEF Durable, AppliedIsStored
  <2> QED BY <2>1, <2>2
<1> QED BY <1>1, <1>2, StorageEndClose

LEMMA StorageFlushReturns ==
    ASSUME Control, Storage, NEW c \in CloserSlots, NEW ok \in BOOLEAN,
           FlushReturns(c, ok)
    PROVE  Storage'
<1>1. /\ closers[c].phase = "flush"
      /\ LeaveCopies(closers[c].save)
      /\ UNCHANGED <<members, pc, answer, seen, tracker, db, accepted, fault>>
  BY DEF FlushReturns
<1>2. /\ closers[c].save \in SaveSlots
      /\ \A d \in CloserSlots \ {c} :
            closers[d].phase # "none" => closers[d].save \in SaveSlots \ {closers[c].save}
  BY <1>1, AwaitedIsWaiting DEF Control, Awaiting, AwaitsItsOwn
<1>3. CASE ~HasSnapshot
  <2>1. EndClose(c) /\ saves' = [saves EXCEPT ![closers[c].save] = IdleSave]
    BY <1>3 DEF FlushReturns
  <2> QED BY <1>1, <1>3, <2>1, StorageEndClose
<1>4. CASE HasSnapshot
  <2>1. /\ saves' = [saves EXCEPT ![closers[c].save] =
              [waiting |-> TRUE, applied |-> FALSE, content |-> snapshot]]
        /\ closers' = [closers EXCEPT ![c].phase = "final"]
        /\ snapshot' = snapshot
    BY <1>4 DEF FlushReturns
  <2>2. TypeOK /\ snapshot \subseteq accepted
    BY <1>4 DEF Control, Storage, NothingInvented
  <2>3. /\ saves'[closers[c].save].content = snapshot
        /\ saves'[closers[c].save].applied = FALSE
        /\ \A j \in SaveSlots \ {closers[c].save} : saves'[j] = saves[j]
    BY <1>2, <2>1, <2>2 DEF TypeOK
  <2>4. /\ closers'[c].save = closers[c].save /\ closers'[c].reopened = closers[c].reopened
        /\ \A d \in CloserSlots \ {c} : closers'[d] = closers[d]
    BY <2>1, <2>2 DEF TypeOK
  <2>5. \A content \in late' : content \subseteq accepted
    BY <1>1, <1>2 DEF LeaveCopies, Storage, NothingInvented
  <2>6. ReopenedUnlessEmpty'
    BY <1>1, <2>4 DEF Storage, ReopenedUnlessEmpty
  <2>7. NothingInvented'
    BY <1>1, <2>1, <2>2, <2>3, <2>5 DEF Storage, NothingInvented, HasSnapshot
  <2>8. ASSUME fault = "none" PROVE Durable'
    <3>1. Durable /\ accepted \subseteq snapshot
      BY <1>4, <2>8 DEF Storage, Durable, KeptInMemory, Current
    <3>2. ASSUME NEW d \in CloserSlots, closers'[d].phase = "final", ~closers'[d].reopened
          PROVE  accepted \subseteq saves'[closers'[d].save].content
      <4>1. CASE d = c
        BY <2>3, <2>4, <3>1, <4>1
      <4>2. CASE d # c
        <5>1. closers[d].phase = "final" /\ ~closers[d].reopened /\ closers'[d] = closers[d]
          BY <2>4, <3>2, <4>2
        <5>2. saves'[closers[d].save] = saves[closers[d].save]
          BY <1>2, <2>3, <4>2, <5>1
        <5> QED BY <3>1, <5>1, <5>2 DEF Durable, FinalHoldsAll
      <4> QED BY <4>1, <4>2
    <3>3. AppliedIsStored'
      BY <1>1, <2>3, <3>1 DEF Durable, AppliedIsStored
    <3>4. KeptInMemory' /\ SeenByActive'
      BY <1>1, <2>1, <3>1 DEF Durable, KeptInMemory, SeenByActive, Current, HasSnapshot
    <3> QED BY <1>1, <3>2, <3>3, <3>4 DEF Durable, FinalHoldsAll
  <2> QED BY <1>1, <2>6, <2>7, <2>8 DEF Storage
<1> QED BY <1>3, <1>4

\* The server stores the content of a request, or of a copy that was given up.
LEMMA StorageStored ==
    ASSUME Control, Storage, NEW content, content \subseteq accepted, db' = content,
           fault' = "none" => fault = "none" /\ db \subseteq content,
           \A i \in SaveSlots : /\ saves'[i].content = saves[i].content
                                /\ saves'[i].waiting = saves[i].waiting
                                /\ \/ saves'[i].applied = saves[i].applied
                                   \/ saves[i].content = content,
           late' \subseteq late,
           UNCHANGED <<members, pc, answer, seen, snapshot, closers, accepted>>
    PROVE  Storage'
<1>1. ReopenedUnlessEmpty' /\ NothingInvented'
  BY DEF Storage, ReopenedUnlessEmpty, NothingInvented, HasSnapshot
<1>2. ASSUME fault' = "none" PROVE Durable'
  <2>1. Durable /\ db \subseteq db'
    BY <1>2 DEF Storage
  <2>2. FinalHoldsAll'
    BY <2>1, AwaitedIsWaiting DEF Durable, FinalHoldsAll
  <2>3. AppliedIsStored'
    BY <2>1 DEF Durable, AppliedIsStored
  <2>4. KeptInMemory' /\ SeenByActive'
    BY <2>1 DEF Durable, KeptInMemory, SeenByActive, Current, HasSnapshot
  <2> QED BY <2>2, <2>3, <2>4 DEF Durable
<1> QED BY <1>1, <1>2 DEF Storage

LEMMA StorageServer ==
    ASSUME Control, Storage,
           \/ \E i \in SaveSlots : SaveApplied(i)
           \/ \E content \in late : LateSave(content)
    PROVE  Storage'
<1>1. CASE \E i \in SaveSlots : SaveApplied(i)
  <2>1. PICK i \in SaveSlots : SaveApplied(i)
    BY <1>1
  <2>2. /\ db' = saves[i].content /\ saves[i].content \subseteq accepted
        /\ fault' = "none" => fault = "none" /\ db \subseteq saves[i].content
        /\ UNCHANGED <<members, pc, answer, seen, snapshot, closers, accepted, late>>
    BY <2>1 DEF SaveApplied, BlameIf, Storage, NothingInvented
  <2>3. \A j \in SaveSlots : /\ saves'[j].content = saves[j].content
                             /\ saves'[j].waiting = saves[j].waiting
                             /\ j = i \/ saves'[j].applied = saves[j].applied
    BY <2>1 DEF SaveApplied, Control, TypeOK
  <2> QED BY <2>2, <2>3, StorageStored
<1>2. CASE \E content \in late : LateSave(content)
  <2>1. PICK content \in late : LateSave(content)
    BY <1>2
  <2>2. /\ content \subseteq accepted /\ late' \subseteq late
        /\ UNCHANGED <<members, pc, answer, seen, snapshot, saves, closers, accepted>>
    BY <2>1 DEF LateSave, Storage, NothingInvented
  <2>3. CASE db' = content /\ BlameIf(~(db \subseteq content), "staleSave")
    <3>1. fault' = "none" => fault = "none" /\ db \subseteq content
      BY <2>3 DEF BlameIf
    <3> QED BY <2>2, <2>3, <3>1, StorageStored
  <2>4. CASE UNCHANGED <<db, fault>>
    BY <2>2, <2>4 DEF Storage, ReopenedUnlessEmpty, NothingInvented, Durable, FinalHoldsAll,
       AppliedIsStored, KeptInMemory, SeenByActive, Current, HasSnapshot
  <2> QED BY <2>1, <2>3, <2>4 DEF LateSave
<1> QED BY <1>1, <1>2

LEMMA StorageCrash ==
    ASSUME Control, Storage, Crash
    PROVE  Storage'
<1>1. /\ members' = {} /\ snapshot' = NoSnapshot /\ UNCHANGED <<db, accepted>>
      /\ \A s \in Sockets : answer'[s] = {}
  BY DEF Crash
<1>2. \A i \in SaveSlots : saves'[i].content = {} /\ saves'[i].waiting = FALSE
  BY DEF Crash, IdleSave
<1>3. \A c \in CloserSlots : closers'[c].phase = "none"
  BY DEF Crash, IdleCloser
<1>4. \A content \in late' : content \subseteq accepted
  BY DEF Crash, Storage, NothingInvented
<1>5. fault' = "none" => accepted \subseteq db
  BY DEF Crash, BlameIf, Storage, Durable, KeptInMemory
<1>6. ReopenedUnlessEmpty' /\ NothingInvented'
  BY <1>1, <1>2, <1>3, <1>4 DEF Storage, ReopenedUnlessEmpty, NothingInvented, HasSnapshot
<1> QED
  BY <1>1, <1>2, <1>3, <1>5, <1>6
     DEF Storage, Durable, FinalHoldsAll, AppliedIsStored, KeptInMemory, SeenByActive,
         Current, HasSnapshot

LEMMA StorageNext ==
    ASSUME Control, Storage, [Next]_vars
    PROVE  Storage'
<1>1. CASE UNCHANGED vars
  BY <1>1 DEF vars, Storage, ReopenedUnlessEmpty, NothingInvented, Durable, FinalHoldsAll,
              AppliedIsStored, KeptInMemory, SeenByActive, Current, HasSnapshot
<1>2. ASSUME NEW s \in Sockets,
             \/ Join(s) \/ LoadForGone(s)
             \/ FetchAnswered(s) \/ FetchSucceeds(s) \/ FetchFails(s)
             \/ \E e \in Edits : Broadcast(s, e)
             \/ Leave(s)
      PROVE  Storage'
  BY <1>2, StorageJoin, StorageLoadForGone, StorageFetchAnswered, StorageFetch,
     StorageBroadcast, StorageLeave
<1>3. ASSUME SaveReturns PROVE Storage'
  BY <1>3, StorageAutoSaveReturns, StorageFlushReturns, StorageFinalSaveReturns DEF SaveReturns
<1> QED
  BY <1>1, <1>2, <1>3, StorageThrottleFires, StorageServer, StorageCrash DEF Next

THEOREM StorageInvariant == Spec => []Storage
<1>1. Init => Storage
  BY StorageInit
<1>2. Control /\ Storage /\ [Next]_vars => Storage'
  BY StorageNext
<1> QED BY <1>1, <1>2, ControlInvariant, PTL DEF Spec

\* An accepted edit is lost only by one of the recorded faults: without one it is
\* in the snapshot, or in the database once the snapshot was dropped.
THEOREM NothingIsLost == Spec => []NothingLost
<1>1. Storage => NothingLost
  BY DEF Storage, Durable, KeptInMemory, NothingLost
<1> QED BY <1>1, StorageInvariant, PTL

\* Without a fault every initialised socket was sent everything in the snapshot.
THEOREM ActiveSawEverything == Spec => []ActiveHasSeenAll
<1>1. Storage => ActiveHasSeenAll
  BY DEF Storage, Durable, SeenByActive, ActiveHasSeenAll
<1> QED BY <1>1, StorageInvariant, PTL

-----------------------------------------------------------------------------
(* Every edit in the snapshot waits for a save.                             *)

LEMMA DirtyInit == Init => DirtyIsScheduled
BY DEF Init, DirtyIsScheduled

\* A throttled function that runs leaves nothing unsaved.
LEMMA DirtyInvoke ==
    ASSUME NEW content, NEW rearm \in BOOLEAN, InvokeSave(content, rearm)
    PROVE  unsaved' = FALSE \/ (content = NoSnapshot /\ unsaved' = unsaved)
BY DEF InvokeSave, StartSave

LEMMA DirtyQueued ==
    ASSUME Control, DirtyIsScheduled, QueueSave
    PROVE  /\ throttle'.armed /\ throttle'.pending
           /\ unsaved' => HasSnapshot
<1>1. throttle \in ThrottleType
  BY DEF Control, TypeOK, ThrottleType
<1> QED BY <1>1 DEF QueueSave, DirtyIsScheduled, ThrottleType

LEMMA DirtyUsers ==
    ASSUME Control, DirtyIsScheduled, NEW s \in Sockets,
           \/ Join(s) \/ LoadForGone(s)
           \/ FetchAnswered(s) \/ FetchSucceeds(s) \/ FetchFails(s)
           \/ \E e \in Edits : Broadcast(s, e)
    PROVE  DirtyIsScheduled'
<1>1. TypeOK /\ EmptyRoomIsQuiet
  BY DEF Control
<1>2. CASE Join(s)
  <2>1. snapshot' = snapshot /\ unsaved' = unsaved
    BY <1>2 DEF Join
  <2>2. CASE members = {}
    <3>1. \A c \in CloserSlots : closers'[c].phase = closers[c].phase
      BY <1>1, <1>2, <2>2 DEF Join, OpenRoom, TypeOK
    <3> QED BY <1>1, <2>1, <2>2, <3>1 DEF EmptyRoomIsQuiet, DirtyIsScheduled, HasSnapshot
  <2>3. CASE members # {}
    BY <1>2, <2>1, <2>3 DEF Join, DirtyIsScheduled, HasSnapshot
  <2> QED BY <2>2, <2>3
<1>3. CASE LoadForGone(s) \/ FetchAnswered(s)
  BY <1>3 DEF LoadForGone, FetchAnswered, DirtyIsScheduled, HasSnapshot
<1>4. CASE FetchSucceeds(s) \/ FetchFails(s)
  <2>1. snapshot' \in Content /\ UNCHANGED <<unsaved, throttle, closers>>
    BY <1>1, <1>4 DEF FetchSucceeds, FetchFails, StoreLoaded, TypeOK, Content
  <2> QED BY <2>1, RoomAssumption DEF DirtyIsScheduled, HasSnapshot, Content
<1>5. ASSUME NEW e \in Edits, Broadcast(s, e) PROVE DirtyIsScheduled'
  <2>1. snapshot' = Merged(e) /\ closers' = closers
    BY <1>5 DEF Broadcast
  <2>2. /\ HasSnapshot => Merged(e) \in Content
        /\ ~HasSnapshot => Merged(e) = NoSnapshot
    BY <1>1 DEF TypeOK, Merged, Content, HasSnapshot
  <2>3. HasSnapshot <=> HasSnapshot'
    BY <2>1, <2>2, RoomAssumption DEF HasSnapshot, Content
  <2>4. CASE QueueSave
    BY <2>3, <2>4, DirtyQueued DEF DirtyIsScheduled
  <2>5. CASE InvokeSave(Merged(e), TRUE)
    BY <2>1, <2>3, <2>5, DirtyInvoke DEF DirtyIsScheduled, HasSnapshot
  <2> QED BY <1>5, <2>4, <2>5 DEF Broadcast, QueueOverdueSave
<1> QED BY <1>2, <1>3, <1>4, <1>5

LEMMA DirtyThrottleFires ==
    ASSUME Control, DirtyIsScheduled, ThrottleFires
    PROVE  DirtyIsScheduled'
<1>1. snapshot' = snapshot /\ closers' = closers
  BY DEF ThrottleFires
<1>2. CASE InvokeSave(snapshot, FALSE)
  <2>1. unsaved' = FALSE \/ (snapshot = NoSnapshot /\ unsaved' = unsaved)
    BY <1>2 DEF InvokeSave, StartSave
  <2> QED BY <1>1, <2>1 DEF DirtyIsScheduled, HasSnapshot
<1>3. CASE ~throttle.pending /\ UNCHANGED <<saves, unsaved>>
  BY <1>1, <1>3 DEF DirtyIsScheduled, HasSnapshot
<1> QED BY <1>2, <1>3 DEF ThrottleFires

LEMMA DirtyLeave ==
    ASSUME Control, DirtyIsScheduled, NEW s \in Sockets, Leave(s)
    PROVE  DirtyIsScheduled'
<1>1. snapshot' = snapshot
  BY DEF Leave
<1>2. CASE members' # {}
  BY <1>1, <1>2 DEF Leave, DirtyIsScheduled, HasSnapshot
<1>3. CASE members' = {}
  <2>1. CASE FlushQueued
    BY <2>1, DirtyInvoke DEF FlushQueued, HasSnapshot, DirtyIsScheduled
  <2>2. CASE FlushAwaitsLast
    <3>1. /\ throttle.last \in SaveSlots /\ Suspend("flush", throttle.last)
          /\ closers \in [CloserSlots -> CloserType] /\ unsaved' = unsaved
      BY <2>2 DEF FlushAwaitsLast, Control, TypeOK, CloserType
    <3>2. \E c \in CloserSlots : closers'[c].phase = "flush"
      BY <3>1, SuspendEffect
    <3> QED BY <1>1, <3>1, <3>2 DEF DirtyIsScheduled, HasSnapshot
  <2>3. CASE SaveAtOnce
    BY <2>3 DEF SaveAtOnce, StartSave, DirtyIsScheduled
  <2>4. CASE NothingToSave
    BY <2>4 DEF NothingToSave, DirtyIsScheduled
  <2> QED BY <1>3, <2>1, <2>2, <2>3, <2>4 DEF Leave, CloseRoom
<1> QED BY <1>2, <1>3

LEMMA DirtyReturns ==
    ASSUME Control, DirtyIsScheduled, SaveReturns
    PROVE  DirtyIsScheduled'
<1>1. ASSUME NEW i \in SaveSlots, NEW ok \in BOOLEAN, AutoSaveReturns(i, ok)
      PROVE  DirtyIsScheduled'
  <2>1. UNCHANGED <<snapshot, closers, unsaved>>
    BY <1>1 DEF AutoSaveReturns
  <2>2. throttle'.armed = throttle.armed /\ throttle'.pending = throttle.pending
    BY <1>1 DEF AutoSaveReturns, ForgetPromise, Control, TypeOK
  <2> QED BY <2>1, <2>2 DEF DirtyIsScheduled, HasSnapshot
<1>2. ASSUME NEW c \in CloserSlots, NEW ok \in BOOLEAN,
             FlushReturns(c, ok) \/ FinalSaveReturns(c, ok)
      PROVE  DirtyIsScheduled'
  BY <1>2 DEF FlushReturns, FinalSaveReturns, EndClose, DirtyIsScheduled
<1> QED BY <1>1, <1>2 DEF SaveReturns

LEMMA DirtyNext ==
    ASSUME Control, DirtyIsScheduled, [Next]_vars
    PROVE  DirtyIsScheduled'
<1>1. CASE UNCHANGED vars
  BY <1>1 DEF vars, DirtyIsScheduled, HasSnapshot
<1>2. CASE \E i \in SaveSlots : SaveApplied(i)
  BY <1>2 DEF SaveApplied, DirtyIsScheduled, HasSnapshot
<1>3. CASE \E content \in late : LateSave(content)
  BY <1>3 DEF LateSave, DirtyIsScheduled, HasSnapshot
<1>4. CASE Crash
  BY <1>4 DEF Crash, DirtyIsScheduled
<1> QED
  BY <1>1, <1>2, <1>3, <1>4, DirtyUsers, DirtyThrottleFires, DirtyLeave, DirtyReturns DEF Next

\* An edit in the snapshot that no save has read yet always has a save to come.
THEOREM DirtyStaysScheduled == Spec => []DirtyIsScheduled
<1>1. Control /\ DirtyIsScheduled /\ [Next]_vars => DirtyIsScheduled'
  BY DirtyNext
<1> QED BY <1>1, DirtyInit, ControlInvariant, PTL DEF Spec
-----------------------------------------------------------------------------
(* The room implements the abstract board.                                  *)

\* Nobody was ever shown what was not drawn.
SeenWasDrawn == \A s \in Sockets : seen[s] \subseteq accepted

LEMMA SeenNext == Control /\ Storage /\ SeenWasDrawn /\ [Next]_vars => SeenWasDrawn'
<1> SUFFICES ASSUME Control, Storage, SeenWasDrawn, [Next]_vars PROVE SeenWasDrawn'
  OBVIOUS
<1> USE DEF SeenWasDrawn
<1>0. TypeOK /\ NothingInvented
  BY DEF Control, Storage
<1>1. ASSUME NEW s \in Sockets, Join(s) PROVE SeenWasDrawn'
  BY <1>0, <1>1 DEF Join, InitScene, TypeOK, NothingInvented
<1>2. ASSUME NEW s \in Sockets, NEW content, content \subseteq accepted,
             StoreLoaded(s, content)
      PROVE  SeenWasDrawn'
  BY <1>0, <1>2 DEF StoreLoaded, TypeOK
<1>3. ASSUME NEW s \in Sockets, FetchSucceeds(s) \/ FetchFails(s) PROVE SeenWasDrawn'
  BY <1>0, <1>2, <1>3 DEF FetchSucceeds, FetchFails, NothingInvented
<1>4. ASSUME NEW s \in Sockets, NEW e \in Edits, Broadcast(s, e) PROVE SeenWasDrawn'
  BY <1>4 DEF Broadcast, Relay
<1>5. ASSUME NEW s \in Sockets, Leave(s) PROVE SeenWasDrawn'
  BY <1>0, <1>5 DEF Leave, TypeOK
<1>6. CASE SaveReturns
  BY <1>6 DEF SaveReturns, AutoSaveReturns, FlushReturns, FinalSaveReturns
<1>7. CASE Crash
  BY <1>7 DEF Crash
<1>8. CASE UNCHANGED <<seen, accepted>>
  BY <1>8
<1>9. ASSUME NEW s \in Sockets, LoadForGone(s) \/ FetchAnswered(s) PROVE SeenWasDrawn'
  BY <1>8, <1>9 DEF LoadForGone, FetchAnswered
<1>10. CASE ThrottleFires
  BY <1>8, <1>10 DEF ThrottleFires
<1>11. ASSUME NEW i \in SaveSlots, SaveApplied(i) PROVE SeenWasDrawn'
  BY <1>8, <1>11 DEF SaveApplied
<1>12. ASSUME NEW content \in late, LateSave(content) PROVE SeenWasDrawn'
  BY <1>8, <1>12 DEF LateSave
<1> QED
  BY <1>1, <1>3, <1>4, <1>5, <1>6, <1>7, <1>8, <1>9, <1>10, <1>11, <1>12 DEF Next, vars

LEMMA SeenInvariant == Spec => []SeenWasDrawn
<1>1. Init => SeenWasDrawn
  BY DEF Init, SeenWasDrawn
<1> QED BY <1>1, SeenNext, ControlInvariant, StorageInvariant, PTL DEF Spec

Initialised(s) == s \in members /\ pc[s] = "active"

\* Until a fault there is one board: the snapshot, or the database once the snapshot is
\* gone; and it is what every initialised member sees.
OneBoard ==
    fault = "none" =>
      /\ HasSnapshot \/ db = accepted
      /\ (\E s \in Sockets : Initialised(s)) => HasSnapshot
      /\ View = [s \in Sockets |-> IF Initialised(s) THEN accepted ELSE NoSnapshot]

LEMMA StorageGivesOneBoard == Storage /\ SeenWasDrawn => OneBoard
<1> SUFFICES ASSUME Storage, SeenWasDrawn, fault = "none" PROVE OneBoard
  BY DEF OneBoard
<1>1. KeptInMemory /\ SeenByActive /\ NothingInvented
  BY DEF Storage, Durable
<1>2. HasSnapshot \/ db = accepted
  BY <1>1 DEF KeptInMemory, NothingInvented, Current
<1>3. ASSUME NEW s \in Sockets, Initialised(s) PROVE HasSnapshot /\ seen[s] = accepted
  BY <1>1, <1>3 DEF KeptInMemory, SeenByActive, SeenWasDrawn, Current, Initialised
<1> QED BY <1>2, <1>3 DEF OneBoard, View, Initialised

\* A fault is remembered.
LEMMA FaultStays ==
    ASSUME [Next]_vars, fault' = "none"
    PROVE  fault = "none"
BY DEF Next, vars, Join, LoadForGone, FetchAnswered, FetchSucceeds, FetchFails, BlameIf,
       Broadcast, Leave, ThrottleFires, SaveApplied, SaveReturns, AutoSaveReturns,
       FlushReturns, FinalSaveReturns, LateSave, Crash

\* Without a fault, every step of the room is a step of the board, or none.
LEMMA StepImplementsBoard ==
    Control /\ OneBoard /\ OneBoard' /\ Storage' /\ [Next]_vars => [Board!Next]_(Board!vars)
<1> SUFFICES ASSUME Control, OneBoard, OneBoard', Storage', [Next]_vars
             PROVE  [Board!Next]_(Board!vars)
  OBVIOUS
<1>1. CASE fault' # "none"
  BY <1>1 DEF Board!Next, Board!Break
<1>2. CASE fault' = "none"
  <2> DEFINE Shown(b) == [s \in Sockets |-> IF Initialised(s) THEN b ELSE NoSnapshot]
  <2>0. fault = "none" /\ TypeOK /\ accepted # NoSnapshot
    BY <1>2, FaultStays, RoomAssumption DEF Control, TypeOK, Content
  <2>1. /\ View = Shown(accepted)
        /\ View' = Shown(accepted)'
        /\ HasSnapshot' \/ db' = accepted'
        /\ HasSnapshot' \/ \A s \in Sockets : ~Initialised(s)'
        /\ \A s \in Sockets : Initialised(s) => HasSnapshot
    BY <1>2, <2>0 DEF OneBoard
  <2>2. ASSUME ~HasSnapshot', UNCHANGED <<accepted, db>> PROVE Board!Drop
    BY <1>2, <2>0, <2>1, <2>2 DEF Board!Drop
  <2>3. ASSUME NEW s \in Sockets, Initialised(s)', HasSnapshot',
               \A t \in Sockets \ {s} : Initialised(t)' = Initialised(t),
               UNCHANGED <<accepted, db>>
        PROVE  Board!Load
    <3>1. View' = [View EXCEPT ![s] = accepted]
      BY <2>1, <2>3
    <3> QED BY <1>2, <2>0, <2>3, <3>1 DEF Board!Load
  <2>4. ASSUME HasSnapshot', \A t \in Sockets : Initialised(t)' = Initialised(t),
               UNCHANGED <<accepted, db>>
        PROVE  Board!Load
    <3>1. View' = View
      BY <2>1, <2>4
    <3> QED BY <1>2, <2>0, <2>4, <3>1 DEF Board!Load
  <2>5. ASSUME \A t \in Sockets : Initialised(t)' = Initialised(t),
               UNCHANGED <<accepted, snapshot>>, db \subseteq db'
        PROVE  Board!Store
    <3>1. View' = View /\ HasSnapshot' = HasSnapshot
      BY <2>1, <2>5 DEF HasSnapshot
    <3>2. db' \subseteq accepted
      BY <2>5 DEF Storage, NothingInvented
    <3> QED BY <1>2, <2>0, <2>5, <3>1, <3>2 DEF Board!Store
  <2>6. ASSUME UNCHANGED <<members, pc, accepted, db>> PROVE [Board!Next]_(Board!vars)
    <3>1. \A t \in Sockets : Initialised(t)' = Initialised(t)
      BY <2>6 DEF Initialised
    <3> QED BY <2>2, <2>4, <2>6, <3>1 DEF Board!Next
  <2>7. ASSUME NEW s \in Sockets, Join(s) PROVE [Board!Next]_(Board!vars)
    <3>1. \A t \in Sockets \ {s} : Initialised(t)' = Initialised(t)
      BY <2>0, <2>7 DEF Join, Initialised, TypeOK
    <3>2. snapshot' = snapshot /\ UNCHANGED <<accepted, db>>
      BY <2>7 DEF Join
    <3>3. CASE HasSnapshot
      <4>1. Initialised(s)' /\ HasSnapshot'
        BY <2>0, <2>7, <3>2, <3>3 DEF Join, Initialised, TypeOK, HasSnapshot
      <4> QED BY <2>3, <3>1, <3>2, <4>1 DEF Board!Next
    <3>4. CASE ~HasSnapshot
      BY <2>2, <3>2, <3>4 DEF Board!Next, HasSnapshot
    <3> QED BY <3>3, <3>4
  <2>8. ASSUME NEW s \in Sockets, LoadForGone(s) \/ FetchAnswered(s)
        PROVE  [Board!Next]_(Board!vars)
    <3>1. /\ UNCHANGED <<snapshot, accepted, db>> /\ ~Initialised(s)
          /\ \A t \in Sockets : Initialised(t)' = Initialised(t)
      BY <2>0, <2>8 DEF LoadForGone, FetchAnswered, Initialised, TypeOK
    <3> QED BY <2>5, <3>1 DEF Board!Next
  <2>9. ASSUME NEW s \in Sockets, FetchSucceeds(s) \/ FetchFails(s)
        PROVE  [Board!Next]_(Board!vars)
    <3>1. /\ HasSnapshot' /\ UNCHANGED <<accepted, db, members>>
          /\ pc' = [pc EXCEPT ![s] = AfterLoad(s)] /\ pc[s] # "active"
      BY <2>0, <2>9, RoomAssumption
         DEF FetchSucceeds, FetchFails, StoreLoaded, HasSnapshot, TypeOK, Content
    <3>2. \A t \in Sockets \ {s} : Initialised(t)' = Initialised(t)
      BY <2>0, <3>1 DEF Initialised, TypeOK
    <3>3. Initialised(s)' \/ Initialised(s)' = Initialised(s)
      BY <2>0, <3>1 DEF Initialised, TypeOK, AfterLoad
    <3> QED BY <2>3, <2>4, <3>1, <3>2, <3>3 DEF Board!Next
  <2>10. ASSUME NEW s \in Sockets, NEW e \in Edits, Broadcast(s, e)
         PROVE  [Board!Next]_(Board!vars)
    <3>1. /\ UNCHANGED <<members, pc, db>> /\ Initialised(s)
          /\ e \notin accepted /\ accepted' = accepted \cup {e}
      BY <2>10 DEF Broadcast, Initialised
    <3>2. \A t \in Sockets : Initialised(t)' = Initialised(t)
      BY <3>1 DEF Initialised
    <3>3. HasSnapshot /\ HasSnapshot'
      BY <2>1, <3>1, <3>2
    <3>4. View' = [t \in Sockets |->
                     IF View[t] = NoSnapshot THEN NoSnapshot ELSE View[t] \cup {e}]
      BY <2>0, <2>1, <3>1, <3>2
    <3>5. Board!Draw(s, e)
      BY <1>2, <2>0, <2>1, <3>1, <3>3, <3>4 DEF Board!Draw
    <3> QED BY <3>5 DEF Board!Next
  <2>11. ASSUME NEW s \in Sockets, Leave(s) PROVE [Board!Next]_(Board!vars)
    <3>1. /\ UNCHANGED <<snapshot, accepted, db>> /\ ~Initialised(s)'
          /\ \A t \in Sockets \ {s} : Initialised(t)' = Initialised(t)
      BY <2>0, <2>11 DEF Leave, Initialised, TypeOK
    <3>2. View' = [View EXCEPT ![s] = NoSnapshot]
      BY <2>1, <3>1
    <3>3. Board!Leave(s)
      BY <1>2, <2>0, <3>1, <3>2 DEF Board!Leave, HasSnapshot
    <3> QED BY <3>3 DEF Board!Next
  <2>12. ASSUME NEW i \in SaveSlots, SaveApplied(i) PROVE [Board!Next]_(Board!vars)
    <3>1. /\ UNCHANGED <<members, pc, snapshot, accepted>> /\ db \subseteq db'
      BY <1>2, <2>12 DEF SaveApplied, BlameIf
    <3> QED BY <2>5, <3>1 DEF Board!Next, Initialised
  <2>13. ASSUME NEW content \in late, LateSave(content) PROVE [Board!Next]_(Board!vars)
    <3>1. /\ UNCHANGED <<members, pc, snapshot, accepted>> /\ db \subseteq db'
      BY <1>2, <2>13 DEF LateSave, BlameIf
    <3> QED BY <2>5, <3>1 DEF Board!Next, Initialised
  <2>14. CASE ThrottleFires
    BY <2>6, <2>14 DEF ThrottleFires
  <2>15. CASE SaveReturns
    BY <2>6, <2>15 DEF SaveReturns, AutoSaveReturns, FlushReturns, FinalSaveReturns
  <2>16. CASE Crash
    <3>1. ~HasSnapshot' /\ UNCHANGED <<accepted, db>>
      BY <2>16 DEF Crash, HasSnapshot
    <3> QED BY <2>2, <3>1 DEF Board!Next
  <2>17. CASE UNCHANGED vars
    BY <2>6, <2>17 DEF vars
  <2> QED
    BY <2>7, <2>8, <2>9, <2>10, <2>11, <2>12, <2>13, <2>14, <2>15, <2>16, <2>17 DEF Next
<1> QED BY <1>1, <1>2

\* Through every interleaving of joins, loads, broadcasts, saves, closes and crashes the
\* room is the one durable board it promises to be, until a recorded fault.
THEOREM RoomImplementsBoard == Spec => ImplementsBoard
<1>1. Init => Board!Init
  BY DEF Init, Board!Init, View, HasSnapshot
<1>2. Spec => []OneBoard
  BY StorageGivesOneBoard, StorageInvariant, SeenInvariant, PTL
<1> QED
  BY <1>1, <1>2, StepImplementsBoard, ControlInvariant, StorageInvariant, PTL
     DEF Spec, ImplementsBoard, Board!Spec

-----------------------------------------------------------------------------
(* Every edit reaches the database.                                         *)

\* A request that has yet to be served brings the edit.
Carries(i, e) == Unserved(i) /\ e \in saves[i].content

\* What a save has read is on its way to the database, or is there.
ReadIsCarried ==
    fault = "none" /\ HasSnapshot /\ ~unsaved =>
        \A e \in snapshot : e \in db \/ \E i \in SaveSlots : Carries(i, e)

\* Where nothing is unsaved after a step, a request has just read the snapshot, or
\* nothing was before it and the content is the same.
LEMMA ReadOrKept ==
    ASSUME Control, Storage, [Next]_vars, fault' = "none", HasSnapshot', ~unsaved'
    PROVE  \/ \E i \in SaveSlots :
                 saves'[i] = [waiting |-> TRUE, applied |-> FALSE, content |-> snapshot']
           \/ ~unsaved /\ snapshot' = Current
<1>0. TypeOK /\ fault = "none" /\ NothingInvented /\ KeptInMemory
  BY FaultStays DEF Control, Storage, Durable
<1>1. CASE \/ \E i \in SaveSlots : SaveApplied(i)
           \/ \E i \in SaveSlots, ok \in BOOLEAN : AutoSaveReturns(i, ok)
           \/ \E content \in late : LateSave(content)
           \/ \E s \in Sockets : Join(s) \/ LoadForGone(s) \/ FetchAnswered(s)
           \/ UNCHANGED vars
  <2>1. snapshot' = snapshot /\ unsaved' = unsaved
    BY <1>1 DEF SaveApplied, AutoSaveReturns, LateSave, Join, LoadForGone, FetchAnswered, vars
  <2> QED  BY <2>1 DEF Current, HasSnapshot
<1>2. ASSUME NEW s \in Sockets, FetchSucceeds(s) \/ FetchFails(s) PROVE ~unsaved /\ snapshot' = Current
  <2>1. CASE FetchSucceeds(s)
    <3>1. unsaved' = unsaved /\ snapshot' = answer[s] /\ Current \subseteq answer[s]
      BY <1>0, <2>1 DEF FetchSucceeds, StoreLoaded, BlameIf
    <3>2. answer[s] \subseteq Current
      BY <1>0 DEF NothingInvented, KeptInMemory
    <3> QED  BY <3>1, <3>2
  <2>2. CASE FetchFails(s)
    BY <1>0, <2>2 DEF FetchFails, StoreLoaded, BlameIf
  <2> QED  BY <1>2, <2>1, <2>2
<1>3. ASSUME NEW s \in Sockets, NEW e \in Edits, Broadcast(s, e)
      PROVE  \E i \in SaveSlots :
                saves'[i] = [waiting |-> TRUE, applied |-> FALSE, content |-> snapshot']
  <2>1. snapshot' = Merged(e) /\ HasSnapshot /\ Merged(e) # NoSnapshot /\ Merged(e) \in Content
    BY <1>0, <1>3, RoomAssumption DEF Broadcast, Merged, HasSnapshot, TypeOK, Content
  <2>2. InvokeSave(Merged(e), TRUE)
    BY <1>3, <2>1 DEF Broadcast, QueueSave, QueueOverdueSave
  <2>3. PICK i \in SaveSlots : StartSave(i, Merged(e))
    BY <2>1, <2>2 DEF InvokeSave
  <2> QED  BY <1>0, <2>1, <2>3 DEF StartSave, TypeOK
<1>4. ASSUME UNCHANGED snapshot,
             \/ \E rearm \in BOOLEAN : InvokeSave(snapshot, rearm)
             \/ \E i \in SaveSlots : StartSave(i, snapshot)
             \/ UNCHANGED unsaved
      PROVE  \/ \E i \in SaveSlots :
                   saves'[i] = [waiting |-> TRUE, applied |-> FALSE, content |-> snapshot']
             \/ ~unsaved /\ snapshot' = Current
  <2>1. HasSnapshot
    BY <1>4 DEF HasSnapshot
  <2>2. CASE \E i \in SaveSlots : StartSave(i, snapshot)
    BY <1>0, <1>4, <2>2 DEF StartSave, TypeOK
  <2>3. CASE UNCHANGED unsaved
    BY <1>4, <2>1, <2>3 DEF Current
  <2> QED  BY <1>4, <2>1, <2>2, <2>3 DEF InvokeSave, HasSnapshot
<1>5. ASSUME NEW s \in Sockets, Leave(s)
      PROVE  \/ \E rearm \in BOOLEAN : InvokeSave(snapshot, rearm)
             \/ \E i \in SaveSlots : StartSave(i, snapshot)
             \/ UNCHANGED unsaved
  BY <1>5 DEF Leave, CloseRoom, FlushQueued, FlushAwaitsLast, SaveAtOnce, NothingToSave
<1>6. (\E s \in Sockets : Leave(s)) \/ ThrottleFires => UNCHANGED snapshot
  BY DEF Leave, ThrottleFires
<1>7. ThrottleFires => (\E rearm \in BOOLEAN : InvokeSave(snapshot, rearm)) \/ UNCHANGED unsaved
  BY DEF ThrottleFires
<1>8. ASSUME NEW c \in CloserSlots, NEW ok \in BOOLEAN, FlushReturns(c, ok)
      PROVE  \E i \in SaveSlots :
                saves'[i] = [waiting |-> TRUE, applied |-> FALSE, content |-> snapshot']
  <2>1. closers[c].save \in SaveSlots
    BY <1>8, AwaitedIsWaiting DEF FlushReturns
  <2>2. HasSnapshot
    BY <1>8 DEF FlushReturns, EndClose, HasSnapshot
  <2> QED  BY <1>0, <1>8, <2>1, <2>2 DEF FlushReturns, TypeOK
<1>9. ~Crash /\ \A c \in CloserSlots, ok \in BOOLEAN : ~FinalSaveReturns(c, ok)
  BY DEF Crash, FinalSaveReturns, EndClose, HasSnapshot
<1> QED
  BY <1>1, <1>2, <1>3, <1>4, <1>5, <1>6, <1>7, <1>8, <1>9 DEF Next, SaveReturns

\* Without a fault what is stored stays stored, and what is carried is stored.
LEMMA CarriedArrives ==
    ASSUME "save" \notin Misbehaviours, Control, Storage, [Next]_vars, fault' = "none",
           NEW e \in Edits
    PROVE  /\ e \in db => e \in db'
           /\ \A i \in SaveSlots : Carries(i, e) =>
                 /\ Carries(i, e)' \/ e \in db'
                 /\ Applies(i) => e \in db'
<1>0. TypeOK /\ fault = "none" /\ NothingInvented /\ KeptInMemory
  BY FaultStays DEF Control, Storage, Durable
<1>1. e \in db => e \in db'
  BY <1>0 DEF Next, vars, Join, LoadForGone, FetchAnswered, FetchSucceeds, FetchFails,
       StoreLoaded, BlameIf, Broadcast, Leave, ThrottleFires, SaveApplied, SaveReturns,
       AutoSaveReturns, FlushReturns, FinalSaveReturns, LateSave, Crash
<1>2. ASSUME NEW i \in SaveSlots, Carries(i, e)
      PROVE  (Carries(i, e)' \/ e \in db') /\ (Applies(i) => e \in db')
  <2>1. saves[i].waiting /\ ~saves[i].applied /\ e \in saves[i].content
    BY <1>2 DEF Carries, Unserved
  <2>2. SaveApplied(i) => e \in db'
    BY <2>1 DEF SaveApplied
  <2>3. Crash => e \in db'
    BY <1>0, <2>1 DEF Crash, BlameIf, NothingInvented, KeptInMemory
  <2>4. \A ok \in BOOLEAN : ~MayReturn(i, ok)
    BY <2>1 DEF MayReturn
  <2>5. saves'[i] = saves[i] => Carries(i, e)'
    BY <2>1 DEF Carries, Unserved
  <2>6. saves'[i] = saves[i] \/ SaveApplied(i) \/ Crash
    <3>1. \A ok \in BOOLEAN : ~AutoSaveReturns(i, ok)
      BY <2>4 DEF AutoSaveReturns
    <3>2. \A c \in CloserSlots, ok \in BOOLEAN :
              closers[c].save = i => ~FlushReturns(c, ok) /\ ~FinalSaveReturns(c, ok)
      BY <2>4 DEF FlushReturns, FinalSaveReturns
    <3>3. saves[i].waiting /\ [Next]_vars
      BY <2>1
    <3>4. \/ saves'[i] = saves[i]
          \/ SaveApplied(i)
          \/ \E ok \in BOOLEAN : AutoSaveReturns(i, ok)
          \/ \E c \in CloserSlots, ok \in BOOLEAN :
                closers[c].save = i /\ (FlushReturns(c, ok) \/ FinalSaveReturns(c, ok))
          \/ Crash
      BY <3>3, SaveMoves, Zenon
    <3> QED BY <3>1, <3>2, <3>4
  <2> QED  BY <2>2, <2>3, <2>5, <2>6 DEF Applies
<1> QED  BY <1>1, <1>2

LEMMA ReadIsCarriedNext ==
    "save" \notin Misbehaviours /\ Control /\ Storage /\ ReadIsCarried /\ [Next]_vars
        => ReadIsCarried'
<1> SUFFICES ASSUME "save" \notin Misbehaviours, Control, Storage, ReadIsCarried, [Next]_vars,
                    fault' = "none", HasSnapshot', ~unsaved', NEW e \in snapshot'
             PROVE  e \in db' \/ \E i \in SaveSlots : Carries(i, e)'
  BY DEF ReadIsCarried
<1>1. CASE \E i \in SaveSlots :
              saves'[i] = [waiting |-> TRUE, applied |-> FALSE, content |-> snapshot']
  BY <1>1 DEF Carries, Unserved
<1>2. CASE ~unsaved /\ snapshot' = Current
  <2>1. fault = "none" /\ e \in Edits
    BY <1>2, FaultStays DEF Control, TypeOK, Current, Content
  <2>2. e \in db \/ \E i \in SaveSlots : Carries(i, e)
    BY <1>2, <2>1 DEF ReadIsCarried, Current
  <2> QED  BY <2>1, <2>2, CarriedArrives
<1> QED  BY <1>1, <1>2, ReadOrKept

\* While no SAVE call returns an error, what a save has read is carried until it is stored.
LEMMA ReadStaysCarried == "save" \notin Misbehaviours => (Spec => []ReadIsCarried)
<1> SUFFICES ASSUME "save" \notin Misbehaviours PROVE Spec => []ReadIsCarried
  OBVIOUS
<1>1. Init => ReadIsCarried
  BY DEF Init, ReadIsCarried, HasSnapshot
<1>2. Control /\ Storage /\ ReadIsCarried /\ [Next]_vars => ReadIsCarried'
  BY ReadIsCarriedNext
<1> QED  BY <1>1, <1>2, ControlInvariant, StorageInvariant, PTL DEF Spec

\* The throttle can fire unless it has to save and every slot is taken; a reply to a save
\* that nobody awaits can be served.
CanFire ==
    /\ throttle.armed
    /\ throttle.pending /\ HasSnapshot => \E i \in SaveSlots : ~saves[i].waiting
Replied(i) == saves[i].waiting /\ saves[i].applied /\ NobodyAwaits(i)
AutoReturns(i) == \E ok \in BOOLEAN : AutoSaveReturns(i, ok)

ThrottleServed == Serves(CanFire, ThrottleFires)
RepliesServed == \A i \in SaveSlots : Serves(Replied(i), AutoReturns(i))
SaversServed == SavesServed /\ ClosersServed /\ ThrottleServed /\ RepliesServed

Closing == \E c \in CloserSlots : closers[c].phase # "none"

\* While something stays unsaved, no request starts, no handler ends, and the throttle,
\* when no handler closes, has yet to fire.
LEMMA UnsavedMoves ==
    ASSUME Control, DirtyIsScheduled, [Next]_vars, unsaved, unsaved'
    PROVE  /\ \A c \in CloserSlots : closers[c].phase # "none" => closers'[c].phase # "none"
           /\ \A i \in SaveSlots : ~saves[i].waiting => ~saves'[i].waiting
           /\ \A i \in SaveSlots : saves[i].waiting /\ saves[i].applied /\ saves'[i].waiting
                 => saves'[i].applied
           /\ ThrottleFires => Closing
<1>0. TypeOK /\ HasSnapshot
  BY DEF Control, DirtyIsScheduled
<1>1. ~Crash /\ \A c \in CloserSlots, ok \in BOOLEAN : ~FlushReturns(c, ok) /\ ~FinalSaveReturns(c, ok)
  BY DEF Crash, FlushReturns, FinalSaveReturns, EndClose
<1>2. \A c \in CloserSlots : closers[c].phase # "none" => closers'[c].phase # "none"
  BY <1>1, CloserMoves
<1>3. ASSUME NEW i \in SaveSlots, saves[i].waiting, saves[i].applied, saves'[i].waiting
      PROVE  saves'[i].applied
  <2>1. \A ok \in BOOLEAN : ~AutoSaveReturns(i, ok)
    BY <1>0, <1>3 DEF AutoSaveReturns, IdleSave, TypeOK
  <2>2. saves'[i] = saves[i] \/ saves'[i] = [saves[i] EXCEPT !.applied = TRUE]
    BY <1>1, <1>3, <2>1, SaveMoves
  <2> QED  BY <1>0, <1>3, <2>2 DEF TypeOK
<1>4. \A content : (\A i \in SaveSlots : ~StartSave(i, content))
                   /\ \A rearm : InvokeSave(content, rearm) => content = NoSnapshot /\ saves' = saves
  BY DEF InvokeSave, StartSave
<1>5. ASSUME NEW s \in Sockets, NEW e \in Edits, Broadcast(s, e) PROVE saves' = saves
  BY <1>4, <1>5 DEF Broadcast, QueueSave, QueueOverdueSave
<1>6. ASSUME NEW s \in Sockets, Leave(s) PROVE saves' = saves
  BY <1>4, <1>6 DEF Leave, CloseRoom, FlushQueued, FlushAwaitsLast, SaveAtOnce, NothingToSave
<1>7. ASSUME ThrottleFires PROVE saves' = saves /\ Closing
  BY <1>0, <1>4, <1>7 DEF ThrottleFires, DirtyIsScheduled, HasSnapshot, Closing
<1>8. ASSUME NEW i \in SaveSlots, ~saves[i].waiting, NEW j \in SaveSlots,
             SaveApplied(j) \/ \E ok \in BOOLEAN : AutoSaveReturns(j, ok)
      PROVE  ~saves'[i].waiting
  BY <1>0, <1>8 DEF SaveApplied, AutoSaveReturns, MayReturn, TypeOK
<1>9. ASSUME NEW s \in Sockets,
             \/ Join(s) \/ LoadForGone(s) \/ FetchAnswered(s) \/ FetchSucceeds(s)
             \/ FetchFails(s)
      PROVE  saves' = saves
  BY <1>9 DEF Join, LoadForGone, FetchAnswered, FetchSucceeds, FetchFails, StoreLoaded
<1>10. (\E content \in late : LateSave(content)) \/ UNCHANGED vars => saves' = saves
  BY DEF LateSave, vars
<1>11. ASSUME NEW i \in SaveSlots, ~saves[i].waiting PROVE ~saves'[i].waiting
  BY <1>1, <1>5, <1>6, <1>7, <1>8, <1>9, <1>10, <1>11 DEF Next, SaveReturns
<1> QED  BY <1>2, <1>3, <1>7, <1>11

\* A handler that closes leaves nothing unsaved when it ends.
LEMMA ClosingReads ==
    ASSUME NEW c \in CloserSlots
    PROVE  Spec /\ SavesServed /\ ClosersServed
              => [](closers[c].phase # "none" => <>~unsaved)
<1> DEFINE P == closers[c].phase # "none"
           Q == closers[c].phase = "none"
           U == unsaved
<1>1. Control /\ DirtyIsScheduled /\ [Next]_vars /\ U /\ U' /\ P => P'
  BY UnsavedMoves
<1>2. Spec /\ SavesServed /\ ClosersServed => (P ~> Q)
  BY ClosesEnd DEF CloseEnds
<1>3. P <=> ~Q
  OBVIOUS
<1> HIDE DEF P, Q, U
<1>4. Spec /\ SavesServed /\ ClosersServed => [](P => <>~U)
  BY <1>1, <1>2, <1>3, ControlInvariant, DirtyStaysScheduled, PTL DEF Spec
<1> QED  BY <1>4 DEF P, U

LEMMA ClosingsRead ==
    Spec /\ SavesServed /\ ClosersServed => [](Closing => <>~unsaved)
<1> DEFINE Busy(c) == closers[c].phase # "none"
           Free(c) == ~unsaved
<1>1. Spec /\ SavesServed /\ ClosersServed => \A c \in CloserSlots : [](Busy(c) => <>Free(c))
  BY ClosingReads
<1>2. Closing => \E c \in CloserSlots : Busy(c)
  BY DEF Closing
<1> HIDE DEF Busy, Free
<1>3. (\A c \in CloserSlots : [](Busy(c) => <>Free(c)))
         => [](\A c \in CloserSlots : Busy(c) => <>Free(c))
  OBVIOUS
<1>4. (\A c \in CloserSlots : Busy(c) => <>Free(c)) => (Closing => <>~unsaved)
  BY <1>2 DEF Free
<1> QED  BY <1>1, <1>3, <1>4, PTL

\* Whatever fails, a snapshot with an unsaved edit is read by a save: the throttle fires
\* once a slot is free, unless a closing handler saves first.
THEOREM UnsavedIsRead == SaveSlots # {} => (Spec /\ SaversServed => [](unsaved => <>~unsaved))
<1> SUFFICES ASSUME NEW i \in SaveSlots
             PROVE  Spec /\ SaversServed => [](unsaved => <>~unsaved)
  OBVIOUS
<1> DEFINE U == unsaved
           C == Closing
           X == Unserved(i)
           Y == saves[i].waiting /\ saves[i].applied
           Z == ~saves[i].waiting
           R == Replied(i)
           T == CanFire
           Apply == Applies(i)
           Answers == AutoReturns(i)
<1>1. SaversServed => Serves(X, Apply) /\ Serves(R, Answers) /\ Serves(T, ThrottleFires)
  BY DEF SaversServed, SavesServed, RepliesServed, ThrottleServed
<1>2. Control => X \/ Y \/ Z
  BY DEF Unserved
<1>3. Control /\ DirtyIsScheduled /\ U /\ ~C => (Y => R) /\ (Z => T)
  <2> SUFFICES ASSUME Control, DirtyIsScheduled, unsaved, ~Closing PROVE (Y => R) /\ (Z => T)
    OBVIOUS
  <2>1. \A c \in CloserSlots : closers[c].save = NoSave
    BY DEF Control, TypeOK, Closing
  <2>2. NobodyAwaits(i)
    BY <2>1, RoomAssumption DEF NobodyAwaits
  <2>3. throttle.armed
    BY DEF DirtyIsScheduled, Closing
  <2> QED  BY <2>2, <2>3 DEF Replied, CanFire
<1>4. Control /\ DirtyIsScheduled /\ [Next]_vars /\ U /\ U' =>
        /\ Z => Z'
        /\ Y => Y' \/ Z'
        /\ ThrottleFires => C
  BY UnsavedMoves
<1>5. Control /\ Apply => Y'
  BY DEF Applies, SaveApplied, Control, TypeOK
<1>6. Control /\ Answers => Z'
  BY DEF AutoReturns, AutoSaveReturns, IdleSave, Control, TypeOK
<1>7. Spec /\ SaversServed => [](C => <>~U)
  BY ClosingsRead DEF SaversServed
<1> HIDE DEF U, C, X, Y, Z, R, T, Apply, Answers
<1>8. Spec /\ SaversServed => [](U => <>~U)
  BY <1>1, <1>2, <1>3, <1>4, <1>5, <1>6, <1>7, ControlInvariant, DirtyStaysScheduled, PTL
     DEF Spec, Serves
<1> QED  BY <1>8 DEF U

Safe(e) == e \in db \/ fault # "none"

\* A request that carries an edit stores it, unless a fault comes first.
LEMMA CarriedIsStored ==
    ASSUME "save" \notin Misbehaviours, NEW e \in Edits
    PROVE  Spec /\ SavesServed => []((\E i \in SaveSlots : Carries(i, e)) => <>Safe(e))
<1> DEFINE Busy(i) == Carries(i, e)
           Free(i) == Safe(e)
<1>1. ASSUME NEW i \in SaveSlots
      PROVE  Spec /\ SavesServed => [](Busy(i) => <>Free(i))
  <2> DEFINE P == Carries(i, e)
             D == Safe(e)
             X == Unserved(i)
             Apply == Applies(i)
  <2>1. SavesServed => Serves(X, Apply)
    BY DEF SavesServed
  <2>2. P => X
    BY DEF Carries
  <2>3. Control /\ Storage /\ [Next]_vars /\ P => (P' \/ D') /\ (Apply => D')
    BY CarriedArrives DEF Safe
  <2> HIDE DEF P, D, X, Apply
  <2>4. Spec /\ SavesServed => [](P => <>D)
    BY <2>1, <2>2, <2>3, ControlInvariant, StorageInvariant, PTL DEF Spec, Serves
  <2> QED  BY <2>4 DEF P, D
<1> HIDE DEF Busy, Free
<1>2. Spec /\ SavesServed => \A i \in SaveSlots : [](Busy(i) => <>Free(i))
  BY <1>1
<1>3. (\A i \in SaveSlots : [](Busy(i) => <>Free(i)))
         => [](\A i \in SaveSlots : Busy(i) => <>Free(i))
  OBVIOUS
<1>4. (\A i \in SaveSlots : Busy(i) => <>Free(i))
         => ((\E i \in SaveSlots : Carries(i, e)) => <>Safe(e))
  BY DEF Busy, Free
<1> QED  BY <1>2, <1>3, <1>4, PTL

\* While no SAVE call returns an error, every accepted edit reaches the database or a fault
\* is recorded, also when attempts are retried and served late, loads fail or the process
\* dies: the snapshot has it, a save reads that snapshot, and the request that carries it
\* is served.  (After an error it may not: the throttle does not save again by itself.)
THEOREM EditsReachStorage ==
    SaveSlots # {} /\ "save" \notin Misbehaviours => (Spec /\ SaversServed => EditReachesStorage)
<1> SUFFICES ASSUME SaveSlots # {}, "save" \notin Misbehaviours, NEW e \in Edits
             PROVE  Spec /\ SaversServed => (e \in accepted ~> (e \in db \/ fault # "none"))
  BY DEF EditReachesStorage
<1> DEFINE A == e \in accepted
           D == Safe(e)
           K == \E i \in SaveSlots : Carries(i, e)
           U == unsaved
<1>1. Storage /\ ReadIsCarried => (A => D \/ K \/ U)
  BY DEF Storage, Durable, KeptInMemory, Current, ReadIsCarried, Safe
<1>2. [Next]_vars => (A => A')
  BY DEF Next, vars, Join, LoadForGone, FetchAnswered, FetchSucceeds, FetchFails,
       StoreLoaded, Broadcast, Leave, ThrottleFires, SaveApplied, SaveReturns,
       AutoSaveReturns, FlushReturns, FinalSaveReturns, LateSave, Crash
<1>3. Spec /\ SaversServed => [](K => <>D)
  BY CarriedIsStored DEF SaversServed
<1>4. Spec /\ SaversServed => [](U => <>~U)
  BY UnsavedIsRead
<1>5. Spec => []ReadIsCarried
  BY ReadStaysCarried
<1>6. D <=> (e \in db \/ fault # "none")
  BY DEF Safe
<1> HIDE DEF A, D, K, U
<1>7. Spec /\ SaversServed => (A ~> D)
  BY <1>1, <1>2, <1>3, <1>4, <1>5, StorageInvariant, PTL DEF Spec
<1>8. A <=> e \in accepted
  BY DEF A
<1> QED  BY <1>6, <1>7, <1>8, PTL

-----------------------------------------------------------------------------
(* Who loses a snapshot in use.                                             *)

\* The exceptions to LiveRoomKeepsSnapshot are faults: the snapshot of a room with members
\* goes only with the process, or with a handler that a CREATE_ROOM has overtaken, and both
\* are recorded (server.ts:201-234).
THEOREM TearDownIsRecorded ==
    Spec => [][HasSnapshot /\ snapshot' = NoSnapshot /\ fault' = "none"
                 => members = {} \/ members' = {}]_vars
<1> DEFINE Kept == HasSnapshot /\ snapshot' = NoSnapshot /\ fault' = "none"
                      => members = {} \/ members' = {}
<1>1. ASSUME Control, Storage, [Next]_vars PROVE Kept
  <2> SUFFICES ASSUME HasSnapshot, snapshot' = NoSnapshot, fault' = "none"
               PROVE  members = {} \/ members' = {}
    OBVIOUS
  <2>1. ASSUME NEW s \in Sockets,
               \/ Join(s) \/ LoadForGone(s) \/ FetchAnswered(s) \/ FetchSucceeds(s)
               \/ FetchFails(s) \/ (\E e \in Edits : Broadcast(s, e)) \/ Leave(s)
        PROVE  FALSE
    <3>1. /\ answer[s] # NoSnapshot /\ {} # NoSnapshot
          /\ \A e \in Edits : Merged(e) # NoSnapshot
      BY <1>1, RoomAssumption DEF Control, TypeOK, Content, Merged, HasSnapshot
    <3> QED
      BY <2>1, <3>1 DEF Join, LoadForGone, FetchAnswered, FetchSucceeds, FetchFails,
         StoreLoaded, Broadcast, Leave, HasSnapshot
  <2>2. ASSUME NEW c \in CloserSlots, NEW ok \in BOOLEAN, FinalSaveReturns(c, ok)
        PROVE  members = {}
    <3>1. closers[c].phase = "final" /\ ~closers[c].reopened
      BY <2>2 DEF FinalSaveReturns
    <3> QED  BY <1>1, <3>1 DEF Storage, ReopenedUnlessEmpty
  <2>3. Crash => members' = {}
    BY DEF Crash
  <2>4. \/ ThrottleFires \/ (\E i \in SaveSlots : SaveApplied(i))
        \/ (\E i \in SaveSlots, ok \in BOOLEAN : AutoSaveReturns(i, ok))
        \/ (\E c \in CloserSlots, ok \in BOOLEAN : FlushReturns(c, ok))
        \/ (\E content \in late : LateSave(content)) \/ UNCHANGED vars
        => snapshot' = snapshot
    BY DEF ThrottleFires, SaveApplied, AutoSaveReturns, FlushReturns, LateSave, vars
  <2> QED  BY <1>1, <2>1, <2>2, <2>3, <2>4 DEF Next, SaveReturns, HasSnapshot
<1>2. Control /\ Storage /\ [Next]_vars => Kept
  BY <1>1
<1> QED  BY <1>2, ControlInvariant, StorageInvariant, PTL DEF Spec

\* The comment of fetchContentFromDbOrEmpty (util.service.ts:73) has the empty content for
\* a whiteboard that is not found, but the code makes it of any error.  The exceptions are
\* faults: a load that leaves an empty scene of a whiteboard that is stored is recorded.
THEOREM EmptyLoadIsRecorded ==
    Spec => [][\A s \in Sockets :
                  /\ pc[s] \in {"fetching", "answered"}
                  /\ pc'[s] \notin {"fetching", "answered"}
                  /\ snapshot' = {} /\ fault' = "none"
                  => db = {}]_vars
<1> DEFINE Honest(s) == /\ pc[s] \in {"fetching", "answered"}
                        /\ pc'[s] \notin {"fetching", "answered"}
                        /\ snapshot' = {} /\ fault' = "none"
                        => db = {}
<1>1. ASSUME Control, Storage, [Next]_vars, NEW s \in Sockets PROVE Honest(s)
  <2> SUFFICES ASSUME pc[s] \in {"fetching", "answered"},
                      pc'[s] \notin {"fetching", "answered"},
                      snapshot' = {}, fault' = "none"
               PROVE  db = {}
    OBVIOUS
  <2>1. FetchSucceeds(s) \/ FetchFails(s) \/ Crash
    <3>1. ASSUME NEW t \in Sockets,
                 \/ Join(t) \/ LoadForGone(t) \/ FetchAnswered(t) \/ FetchSucceeds(t)
                 \/ FetchFails(t) \/ (\E e \in Edits : Broadcast(t, e)) \/ Leave(t)
          PROVE  FetchSucceeds(s) \/ FetchFails(s)
      BY <1>1, <3>1 DEF Control, TypeOK, Join, LoadForGone, FetchAnswered, FetchSucceeds,
         FetchFails, StoreLoaded, Broadcast, Leave
    <3>2. ASSUME \/ ThrottleFires \/ SaveReturns
                 \/ \E i \in SaveSlots : SaveApplied(i)
                 \/ \E content \in late : LateSave(content)
                 \/ UNCHANGED vars
          PROVE  FALSE
      BY <3>2 DEF ThrottleFires, SaveReturns, SaveApplied, AutoSaveReturns, FlushReturns,
         FinalSaveReturns, LateSave, vars
    <3> QED  BY <1>1, <3>1, <3>2 DEF Next
  <2>2. ~Crash
    BY RoomAssumption DEF Crash, Content
  <2>3. fault = "none" /\ Current = {}
    BY <2>1, <2>2 DEF FetchSucceeds, FetchFails, StoreLoaded, BlameIf
  <2> QED  BY <1>1, <2>3 DEF Storage, Durable, KeptInMemory, NothingInvented
<1>2. Control /\ Storage /\ [Next]_vars => \A s \in Sockets : Honest(s)
  BY <1>1
<1> QED  BY <1>2, ControlInvariant, StorageInvariant, PTL DEF Spec

-----------------------------------------------------------------------------
(* What the invariants say together.                                        *)

\* The database has all that was drawn whenever no save is owed: nothing is unsaved and
\* every request under way has been served, in a room that is open as in one that closed.
THEOREM SettledRoomIsStored ==
    "save" \notin Misbehaviours =>
        (Spec => [](fault = "none" /\ ~unsaved /\ (\A i \in SaveSlots : ~Unserved(i))
                      => db = accepted))
<1> SUFFICES ASSUME "save" \notin Misbehaviours
             PROVE  Spec => [](fault = "none" /\ ~unsaved /\ (\A i \in SaveSlots : ~Unserved(i))
                                 => db = accepted)
  OBVIOUS
<1>1. Storage /\ ReadIsCarried =>
         (fault = "none" /\ ~unsaved /\ (\A i \in SaveSlots : ~Unserved(i)) => db = accepted)
  <2> SUFFICES ASSUME Storage, ReadIsCarried, fault = "none", ~unsaved,
                      \A i \in SaveSlots : ~Unserved(i)
               PROVE  db = accepted
    OBVIOUS
  <2>1. db \subseteq accepted /\ accepted \subseteq Current
    BY DEF Storage, Durable, KeptInMemory, NothingInvented
  <2>2. Current \subseteq db
    BY DEF ReadIsCarried, Carries, Current
  <2> QED  BY <2>1, <2>2
<1>2. Spec => []ReadIsCarried
  BY ReadStaysCarried
<1> QED  BY <1>1, <1>2, StorageInvariant, PTL

\* Until a fault all initialised members were sent the same edits, and those are all that
\* was drawn, although they joined at different times, some during a load.
THEOREM MembersSeeTheSame ==
    Spec => [](fault = "none" => \A s \in Sockets : Initialised(s) => seen[s] = accepted)
<1>1. Storage /\ SeenWasDrawn =>
         (fault = "none" => \A s \in Sockets : Initialised(s) => seen[s] = accepted)
  BY DEF Storage, Durable, KeptInMemory, SeenByActive, SeenWasDrawn, Current, Initialised
<1> QED  BY <1>1, StorageInvariant, SeenInvariant, PTL
=============================================================================
