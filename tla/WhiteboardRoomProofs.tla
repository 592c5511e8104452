------------------------ MODULE WhiteboardRoomProofs ------------------------
(* Theorems about WhiteboardRoom, for every value of its constants. *)
EXTENDS WhiteboardRoom, TLAPS

\* Two closing handlers never await the same request, and what the present
\* throttled function would make a flush await is awaited only by the handler
\* that closes the room nobody has entered since.
AwaitsItsOwn ==
    \A c, d \in CloserSlots :
        closers[c].phase # "none" /\ closers[c].save = closers[d].save => c = d
AwaitsLast ==
    \A c \in CloserSlots :
        closers[c].phase # "none" /\ closers[c].save = throttle.last
        => closers[c].phase = "flush" /\ members = {}
Awaiting == AwaitsItsOwn /\ AwaitsLast

Control == TypeOK /\ Awaiting /\ TrackedIffOpen /\ EmptyRoomIsQuiet

ThrottleType == [made : BOOLEAN, armed : BOOLEAN, pending : BOOLEAN,
                 last : SaveSlots \cup {NoSave}]

SaveType == [waiting : BOOLEAN, applied : BOOLEAN, content : Content]
CloserType == [phase : {"none", "flush", "final"}, save : SaveSlots \cup {NoSave},
               reopened : BOOLEAN]

LEMMA ControlInit == Init => Control
<1> SUFFICES ASSUME Init PROVE Control
  OBVIOUS
<1>1. /\ throttle \in ThrottleType /\ throttle.made = FALSE
      /\ throttle.pending = FALSE /\ throttle.last = NoSave
  BY DEF Init, NoThrottle, ThrottleType
<1>2. saves \in [SaveSlots -> SaveType]
  BY DEF Init, IdleSave, SaveType, Content
<1>3. /\ closers \in [CloserSlots -> CloserType]
      /\ \A c \in CloserSlots : closers[c].phase = "none" /\ closers[c].save = NoSave
  BY DEF Init, IdleCloser, CloserType
<1>4. /\ members = {} /\ tracker = FALSE /\ unsaved = FALSE /\ late = {}
      /\ db \in Content /\ accepted \in Content /\ fault \in Faults /\ ~HasSnapshot
      /\ pc \in [Sockets -> {"idle", "fetching", "answered", "active"}]
      /\ answer \in [Sockets -> Content] /\ seen \in [Sockets -> Content]
  BY RoomAssumption DEF Init, Content, Faults, HasSnapshot
<1>5. TypeOK
  BY <1>1, <1>2, <1>3, <1>4 DEF TypeOK, ThrottleType, SaveType, CloserType
<1> QED
  BY <1>1, <1>3, <1>4, <1>5 DEF Control, Awaiting, AwaitsItsOwn, AwaitsLast, TrackedIffOpen, EmptyRoomIsQuiet

LEMMA ControlJoin ==
    ASSUME Control, NEW s \in Sockets, Join(s)
    PROVE  Control'
<1>1. TypeOK /\ Awaiting /\ TrackedIffOpen /\ EmptyRoomIsQuiet
  BY DEF Control
<1>2. /\ members' = members \cup {s} /\ members' # {}
      /\ UNCHANGED <<answer, snapshot, saves, db, late, accepted, unsaved, fault>>
  BY DEF Join
<1>3. /\ pc' \in [Sockets -> {"idle", "fetching", "answered", "active"}]
      /\ seen' \in [Sockets -> Content]
  <2>1. /\ pc \in [Sockets -> {"idle", "fetching", "answered", "active"}]
        /\ seen \in [Sockets -> Content] /\ (HasSnapshot => snapshot \in Content)
    BY <1>1 DEF TypeOK
  <2> QED BY <2>1 DEF Join, InitScene
<1>4. CASE members = {}
  <2>0. OpenRoom
    BY <1>4 DEF Join
  <2>1. /\ throttle' \in ThrottleType /\ throttle'.made = TRUE /\ throttle'.last = NoSave
    <3>1. throttle' = FreshThrottle
      BY <2>0 DEF OpenRoom
    <3> QED BY <3>1 DEF FreshThrottle, ThrottleType
  <2>2. /\ closers' \in [CloserSlots -> CloserType]
        /\ \A c \in CloserSlots : /\ closers'[c].phase = closers[c].phase
                                  /\ closers'[c].save = closers[c].save
    <3>1. closers \in [CloserSlots -> CloserType]
      BY <1>1 DEF TypeOK, CloserType
    <3>2. closers' = [c \in CloserSlots |->
                        IF closers[c].phase = "none" THEN closers[c]
                          ELSE [closers[c] EXCEPT !.reopened = TRUE]]
      BY <2>0 DEF OpenRoom
    <3> QED BY <3>1, <3>2 DEF CloserType
  <2>3. tracker' = TRUE
    BY <2>0 DEF OpenRoom
  <2>4. TypeOK'
    BY <1>1, <1>2, <1>3, <2>1, <2>2, <2>3
       DEF TypeOK, ThrottleType, CloserType, HasSnapshot
  <2>5. Awaiting'
    BY <1>1, <2>1, <2>2 DEF TypeOK, Awaiting, AwaitsItsOwn, AwaitsLast
  <2> QED
    BY <1>2, <2>1, <2>3, <2>4, <2>5 DEF Control, TrackedIffOpen, EmptyRoomIsQuiet
<1>5. CASE members # {}
  <2>1. UNCHANGED <<tracker, throttle, closers>>
    BY <1>5 DEF Join
  <2>2. TypeOK'
    BY <1>1, <1>2, <1>3, <2>1 DEF TypeOK, HasSnapshot
  <2>3. Awaiting'
    BY <1>1, <1>5, <2>1 DEF Awaiting, AwaitsItsOwn, AwaitsLast
  <2> QED
    BY <1>1, <1>2, <1>5, <2>1, <2>2, <2>3 DEF Control, TrackedIffOpen, EmptyRoomIsQuiet
<1> QED BY <1>4, <1>5

LEMMA ControlFetch ==
    ASSUME Control, NEW s \in Sockets,
           LoadForGone(s) \/ FetchAnswered(s) \/ FetchSucceeds(s) \/ FetchFails(s)
    PROVE  Control'
BY RoomAssumption
   DEF LoadForGone, FetchAnswered, FetchSucceeds, FetchFails, StoreLoaded, AfterLoad, BlameIf, Current,
       Control, TypeOK, Awaiting, AwaitsItsOwn, AwaitsLast, TrackedIffOpen, EmptyRoomIsQuiet,
       Content, Faults, HasSnapshot

\* What the throttled function does when it runs: it uses up the queued call, and
\* either sends the snapshot in a free slot or, without a snapshot, nothing.
LEMMA InvokeSaveEffect ==
    ASSUME TypeOK, NEW content, NEW rearm \in BOOLEAN,
           content # NoSnapshot => content \in Content,
           InvokeSave(content, rearm)
    PROVE  /\ throttle' \in ThrottleType
           /\ throttle'.made = throttle.made
           /\ throttle'.armed = rearm
           /\ throttle'.pending = FALSE
           /\ \/ /\ content = NoSnapshot
                 /\ throttle'.last = NoSave
                 /\ saves' = saves /\ unsaved' = unsaved
              \/ /\ content # NoSnapshot
                 /\ throttle'.last \in SaveSlots
                 /\ ~saves[throttle'.last].waiting
                 /\ saves' = [saves EXCEPT ![throttle'.last] =
                      [waiting |-> TRUE, applied |-> FALSE, content |-> content]]
                 /\ unsaved' = FALSE
<1>1. throttle \in ThrottleType
  BY DEF TypeOK, ThrottleType
<1>2. ASSUME NEW promise \in SaveSlots \cup {NoSave}, throttle' = Invoked(rearm, promise)
      PROVE  /\ throttle' \in ThrottleType
             /\ throttle'.made = throttle.made
             /\ throttle'.armed = rearm
             /\ throttle'.pending = FALSE
             /\ throttle'.last = promise
  BY <1>1, <1>2 DEF Invoked, ThrottleType
<1>3. CASE content = NoSnapshot
  BY <1>2, <1>3 DEF InvokeSave
<1>4. CASE content # NoSnapshot
  BY <1>2, <1>4 DEF InvokeSave, StartSave
<1> QED BY <1>3, <1>4

LEMMA InvokeSends ==
    ASSUME TypeOK, NEW content \in Content, content # NoSnapshot, NEW rearm \in BOOLEAN,
           InvokeSave(content, rearm)
    PROVE  /\ throttle' \in ThrottleType
           /\ throttle'.pending = FALSE
           /\ throttle'.last \in SaveSlots
           /\ ~saves[throttle'.last].waiting
           /\ saves' = [saves EXCEPT ![throttle'.last] =
                [waiting |-> TRUE, applied |-> FALSE, content |-> content]]
           /\ unsaved' = FALSE
<1>1. PICK i \in SaveSlots : StartSave(i, content) /\ throttle' = Invoked(rearm, i)
  BY DEF InvokeSave
<1>2. throttle' \in ThrottleType /\ throttle'.pending = FALSE /\ throttle'.last = i
  BY <1>1 DEF Invoked, TypeOK, ThrottleType
<1> QED BY <1>1, <1>2 DEF StartSave

\* A save that starts in a free slot and becomes the throttle's last promise keeps
\* the bookkeeping of the handlers that close the room.
LEMMA ControlInvoke ==
    ASSUME Control, NEW content, NEW rearm \in BOOLEAN,
           content # NoSnapshot => content \in Content,
           InvokeSave(content, rearm),
           closers' = closers
    PROVE  /\ saves' \in [SaveSlots -> [waiting : BOOLEAN, applied : BOOLEAN, content : Content]]
           /\ unsaved' \in BOOLEAN
           /\ throttle'.last # NoSave => saves'[throttle'.last].waiting
           /\ \A c \in CloserSlots :
                closers[c].phase # "none" =>
                  saves'[closers[c].save].waiting /\ closers[c].save # throttle'.last
<1>1. TypeOK /\ Awaiting
  BY DEF Control
<1>2. CASE throttle'.last = NoSave /\ saves' = saves /\ unsaved' = unsaved
  BY <1>1, <1>2 DEF TypeOK, Awaiting, AwaitsItsOwn, AwaitsLast
<1>3. CASE /\ content # NoSnapshot
           /\ throttle'.last \in SaveSlots
           /\ ~saves[throttle'.last].waiting
           /\ saves' = [saves EXCEPT ![throttle'.last] =
                [waiting |-> TRUE, applied |-> FALSE, content |-> content]]
           /\ unsaved' = FALSE
  <2>1. content \in Content
    BY <1>3
  <2>2. saves' \in [SaveSlots -> SaveType]
    BY <1>1, <1>3, <2>1 DEF TypeOK, SaveType
  <2>3. saves'[throttle'.last].waiting
    BY <1>1, <1>3 DEF TypeOK
  <2>4. ASSUME NEW c \in CloserSlots, closers[c].phase # "none"
        PROVE  saves'[closers[c].save].waiting /\ closers[c].save # throttle'.last
    <3>1. closers[c].save \in SaveSlots /\ saves[closers[c].save].waiting
      BY <1>1, <2>4 DEF TypeOK
    <3> QED BY <1>1, <1>3, <3>1 DEF TypeOK
  <2> QED BY <1>3, <2>2, <2>3, <2>4 DEF SaveType
<1> QED BY <1>1, <1>2, <1>3, InvokeSaveEffect

LEMMA ControlBroadcast ==
    ASSUME Control, NEW s \in Sockets, NEW e \in Edits, Broadcast(s, e)
    PROVE  Control'
<1>1. TypeOK /\ Awaiting /\ TrackedIffOpen /\ EmptyRoomIsQuiet
  BY DEF Control
<1>2. /\ members' = members /\ members # {} /\ pc' = pc /\ answer' = answer
      /\ tracker' = tracker /\ closers' = closers
      /\ db' = db /\ late' = late /\ fault' = fault
      /\ accepted' = accepted \cup {e} /\ seen' = Relay(e) /\ snapshot' = Merged(e)
  BY DEF Broadcast
<1>3. /\ seen' \in [Sockets -> Content] /\ accepted' \in Content
      /\ Merged(e) # NoSnapshot => Merged(e) \in Content
  BY <1>1, <1>2 DEF TypeOK, Relay, Merged, Content, HasSnapshot
<1>4. CASE QueueSave
  <2>1. /\ throttle' \in ThrottleType /\ throttle'.made = throttle.made
        /\ throttle'.last = throttle.last /\ saves' = saves /\ unsaved' \in BOOLEAN
    BY <1>1, <1>4 DEF QueueSave, TypeOK, ThrottleType
  <2> QED
    BY <1>1, <1>2, <1>3, <2>1
       DEF Control, TypeOK, ThrottleType, Awaiting, AwaitsItsOwn, AwaitsLast, TrackedIffOpen, EmptyRoomIsQuiet, HasSnapshot
<1>5. CASE QueueOverdueSave(Merged(e))
  <2>1. InvokeSave(Merged(e), TRUE)
    BY <1>5 DEF QueueOverdueSave
  <2>2. throttle' \in ThrottleType /\ throttle'.made = throttle.made
    BY <1>1, <1>3, <2>1, InvokeSaveEffect
  <2> QED
    BY <1>1, <1>2, <1>3, <2>1, <2>2, ControlInvoke
       DEF Control, TypeOK, ThrottleType, Awaiting, AwaitsItsOwn, AwaitsLast, TrackedIffOpen, EmptyRoomIsQuiet, HasSnapshot
<1> QED BY <1>4, <1>5 DEF Broadcast

LEMMA ControlThrottleFires ==
    ASSUME Control, ThrottleFires
    PROVE  Control'
<1>1. TypeOK /\ Awaiting /\ TrackedIffOpen /\ EmptyRoomIsQuiet
  BY DEF Control
<1>2. UNCHANGED <<members, pc, answer, seen, snapshot, tracker, closers, db,
                  late, accepted, fault>>
  BY DEF ThrottleFires
<1>3. CASE throttle.pending /\ InvokeSave(snapshot, FALSE)
  <2>1. snapshot # NoSnapshot => snapshot \in Content
    BY <1>1 DEF TypeOK, HasSnapshot
  <2>2. throttle' \in ThrottleType /\ throttle'.made = throttle.made
    BY <1>1, <1>3, <2>1, InvokeSaveEffect
  <2>3. members # {}
    BY <1>1, <1>3 DEF EmptyRoomIsQuiet
  <2> QED
    BY <1>1, <1>2, <1>3, <2>1, <2>2, <2>3, ControlInvoke
       DEF Control, TypeOK, ThrottleType, Awaiting, AwaitsItsOwn, AwaitsLast, TrackedIffOpen, EmptyRoomIsQuiet, HasSnapshot
<1>4. CASE /\ ~throttle.pending
           /\ throttle' = [throttle EXCEPT !.armed = FALSE]
           /\ UNCHANGED <<saves, unsaved>>
  <2>1. /\ throttle' \in ThrottleType /\ throttle'.made = throttle.made
        /\ throttle'.last = throttle.last /\ throttle'.pending = FALSE
    BY <1>1, <1>4 DEF TypeOK, ThrottleType
  <2> QED
    BY <1>1, <1>2, <1>4, <2>1
       DEF Control, TypeOK, ThrottleType, Awaiting, AwaitsItsOwn, AwaitsLast, TrackedIffOpen, EmptyRoomIsQuiet, HasSnapshot
<1> QED BY <1>3, <1>4 DEF ThrottleFires

\* The last lines of a handler that closes the room.
LEMMA EndCloseEffect ==
    ASSUME Control, NEW c \in CloserSlots, closers[c].phase # "none", EndClose(c)
    PROVE  /\ throttle' \in ThrottleType
           /\ throttle'.made = throttle.made /\ throttle'.pending = FALSE
           /\ throttle'.last \in {throttle.last, NoSave}
           /\ throttle'.last # closers[c].save
           /\ closers' \in [CloserSlots -> CloserType]
           /\ closers'[c].phase = "none" /\ closers'[c].save = NoSave
           /\ \A d \in CloserSlots \ {c} : closers'[d] = closers[d]
           /\ snapshot' = NoSnapshot /\ unsaved' = FALSE
<1>1. TypeOK
  BY DEF Control
<1>2. closers[c].save \in SaveSlots
  BY <1>1 DEF TypeOK
<1>3. /\ throttle' \in ThrottleType
      /\ throttle'.made = throttle.made /\ throttle'.pending = FALSE
      /\ throttle'.last = LastUnless(closers[c].save)
  <2>1. LastUnless(closers[c].save) \in SaveSlots \cup {NoSave}
    BY <1>1 DEF TypeOK, LastUnless
  <2> QED BY <1>1, <2>1 DEF EndClose, TypeOK, ThrottleType
<1>4. IdleCloser \in CloserType /\ IdleCloser.phase = "none" /\ IdleCloser.save = NoSave
  BY DEF IdleCloser, CloserType
<1>5. /\ closers' \in [CloserSlots -> CloserType]
      /\ closers'[c] = IdleCloser
      /\ \A d \in CloserSlots \ {c} : closers'[d] = closers[d]
  BY <1>1, <1>4 DEF EndClose, TypeOK, CloserType
<1> QED BY <1>2, <1>3, <1>4, <1>5, RoomAssumption DEF EndClose, LastUnless

\* A request that returned leaves its slot free, and nobody waits for it.
LEMMA ControlSettled ==
    ASSUME Control, NEW c \in CloserSlots, closers[c].phase # "none",
           saves' = [saves EXCEPT ![closers[c].save] = IdleSave],
           EndClose(c), late' \subseteq Content,
           fault' \in Faults,
           UNCHANGED <<members, pc, answer, seen, tracker, db, accepted>>
    PROVE  Control'
<1>1. TypeOK /\ Awaiting /\ TrackedIffOpen /\ EmptyRoomIsQuiet
  BY DEF Control
<1>2. IdleSave \in SaveType
  BY DEF IdleSave, SaveType, Content
<1>3. closers[c].save \in SaveSlots
  BY <1>1 DEF TypeOK
<1>4. /\ saves' \in [SaveSlots -> SaveType]
      /\ \A i \in SaveSlots : i # closers[c].save => saves'[i] = saves[i]
  BY <1>1, <1>2, <1>3 DEF TypeOK, SaveType
<1>0. /\ throttle' \in ThrottleType
      /\ throttle'.made = throttle.made /\ throttle'.pending = FALSE
      /\ throttle'.last \in {throttle.last, NoSave}
      /\ throttle'.last # closers[c].save
      /\ closers' \in [CloserSlots -> CloserType]
      /\ closers'[c].phase = "none" /\ closers'[c].save = NoSave
      /\ \A d \in CloserSlots \ {c} : closers'[d] = closers[d]
      /\ snapshot' = NoSnapshot /\ unsaved' = FALSE
  BY EndCloseEffect
<1>5. throttle'.last # NoSave => saves'[throttle'.last].waiting
  BY <1>1, <1>4, <1>0 DEF TypeOK
<1>6. \A d \in CloserSlots : closers'[d].phase # "none" <=> closers'[d].save # NoSave
  BY <1>1, <1>0 DEF TypeOK
<1>7. \A d \in CloserSlots : closers'[d].phase # "none" => saves'[closers'[d].save].waiting
  <2> SUFFICES ASSUME NEW d \in CloserSlots, closers'[d].phase # "none"
               PROVE  saves'[closers'[d].save].waiting
    OBVIOUS
  <2>1. d # c /\ closers'[d] = closers[d]
    BY <1>0
  <2>2. /\ closers[d].save \in SaveSlots /\ saves[closers[d].save].waiting
        /\ closers[d].save # closers[c].save
    BY <1>1, <2>1 DEF TypeOK, Awaiting, AwaitsItsOwn, AwaitsLast
  <2> QED BY <1>4, <2>1, <2>2
<1>8. ~HasSnapshot' /\ unsaved' \in BOOLEAN
  BY <1>0 DEF HasSnapshot
<1>9. TypeOK'
  BY <1>1, <1>4, <1>5, <1>6, <1>7, <1>8, <1>0
     DEF TypeOK, SaveType, CloserType, ThrottleType
<1>10. Awaiting'
  <2>1. AwaitsItsOwn'
    <3> SUFFICES ASSUME NEW d \in CloserSlots, NEW e \in CloserSlots,
                        closers'[d].phase # "none", closers'[d].save = closers'[e].save
                 PROVE  d = e
      BY DEF AwaitsItsOwn
    <3>1. d # c /\ e # c
      BY <1>6, <1>0
    <3>2. closers'[d] = closers[d] /\ closers'[e] = closers[e]
      BY <3>1, <1>0
    <3> QED BY <1>1, <3>2 DEF Awaiting, AwaitsItsOwn
  <2>2. AwaitsLast'
    <3> SUFFICES ASSUME NEW d \in CloserSlots,
                        closers'[d].phase # "none", closers'[d].save = throttle'.last
                 PROVE  closers'[d].phase = "flush" /\ members' = {}
      BY DEF AwaitsLast
    <3>1. d # c /\ closers'[d] = closers[d] /\ throttle'.last # NoSave
      BY <1>6, <1>0
    <3>2. throttle'.last = throttle.last
      BY <1>0, <3>1
    <3> QED BY <1>1, <3>1, <3>2 DEF Awaiting, AwaitsLast
  <2> QED BY <2>1, <2>2 DEF Awaiting
<1> QED
  BY <1>1, <1>9, <1>10, <1>0 DEF Control, TrackedIffOpen, EmptyRoomIsQuiet

LEMMA ControlFinalSaveReturns ==
    ASSUME Control, NEW c \in CloserSlots, NEW ok \in BOOLEAN, FinalSaveReturns(c, ok)
    PROVE  Control'
<1>1. TypeOK
  BY DEF Control
<1>2. closers[c].phase # "none" /\ closers[c].save \in SaveSlots
  BY <1>1 DEF FinalSaveReturns, TypeOK
<1>3. late' \subseteq Content
  BY <1>1, <1>2 DEF FinalSaveReturns, LeaveCopies, TypeOK
<1>4. fault' \in Faults
  BY <1>1 DEF FinalSaveReturns, TypeOK, Faults
<1> QED BY <1>2, <1>3, <1>4, ControlSettled DEF FinalSaveReturns

LEMMA ControlFlushReturns ==
    ASSUME Control, NEW c \in CloserSlots, NEW ok \in BOOLEAN, FlushReturns(c, ok)
    PROVE  Control'
<1>1. TypeOK /\ Awaiting /\ TrackedIffOpen /\ EmptyRoomIsQuiet
  BY DEF Control
<1>2. closers[c].phase = "flush" /\ closers[c].save \in SaveSlots
  BY <1>1 DEF FlushReturns, TypeOK
<1>3. late' \subseteq Content
  BY <1>1, <1>2 DEF FlushReturns, LeaveCopies, TypeOK
<1>4. fault' \in Faults /\ UNCHANGED <<members, pc, answer, seen, tracker, db, accepted, fault>>
  BY <1>1 DEF FlushReturns, TypeOK
<1>5. CASE ~HasSnapshot
  BY <1>2, <1>3, <1>4, <1>5, ControlSettled DEF FlushReturns
<1>6. CASE HasSnapshot
  <2>1. /\ saves' = [saves EXCEPT ![closers[c].save] =
              [waiting |-> TRUE, applied |-> FALSE, content |-> snapshot]]
        /\ closers' = [closers EXCEPT ![c].phase = "final"]
        /\ unsaved' = FALSE /\ snapshot' = snapshot
        /\ throttle' = [throttle EXCEPT !.last = LastUnless(closers[c].save)]
    BY <1>6 DEF FlushReturns, ForgetPromise
  <2>2. /\ throttle' \in ThrottleType
        /\ throttle'.made = throttle.made /\ throttle'.pending = throttle.pending
        /\ throttle'.last = LastUnless(closers[c].save)
    <3>1. LastUnless(closers[c].save) \in SaveSlots \cup {NoSave}
      BY <1>1 DEF TypeOK, LastUnless
    <3> QED BY <1>1, <2>1, <3>1 DEF TypeOK, ThrottleType
  <2>3. /\ saves' \in [SaveSlots -> SaveType]
        /\ saves'[closers[c].save].waiting
        /\ \A i \in SaveSlots : i # closers[c].save => saves'[i] = saves[i]
    BY <1>1, <1>2, <1>6, <2>1 DEF TypeOK, SaveType
  <2>4. /\ closers' \in [CloserSlots -> CloserType]
        /\ closers'[c].phase = "final"
        /\ \A d \in CloserSlots : /\ closers'[d].save = closers[d].save
                                  /\ d # c => closers'[d] = closers[d]
    BY <1>1, <2>1 DEF TypeOK, CloserType
  <2>5. throttle'.last # NoSave => saves'[throttle'.last].waiting
    BY <1>1, <2>2, <2>3 DEF TypeOK, LastUnless
  <2>6. \A d \in CloserSlots : closers'[d].phase # "none" <=> closers'[d].save # NoSave
    BY <1>1, <1>2, <2>4 DEF TypeOK
  <2>7. \A d \in CloserSlots : closers'[d].phase # "none" => saves'[closers'[d].save].waiting
    BY <1>1, <2>3, <2>4 DEF TypeOK
  <2>8. TypeOK'
    BY <1>1, <1>3, <1>4, <2>1, <2>2, <2>3, <2>4, <2>5, <2>6, <2>7
       DEF TypeOK, SaveType, CloserType, ThrottleType, HasSnapshot
  <2>9. Awaiting'
    <3>1. AwaitsItsOwn'
      BY <1>1, <1>2, <2>4 DEF TypeOK, Awaiting, AwaitsItsOwn
    <3>2. ASSUME NEW d \in CloserSlots, closers'[d].phase # "none",
                 closers'[d].save = throttle'.last
          PROVE  closers'[d].phase = "flush" /\ members' = {}
      <4>1. closers[d].save \in SaveSlots /\ closers[d].phase # "none"
        BY <1>1, <1>2, <2>4, <3>2 DEF TypeOK
      <4>2. closers[d].save = throttle.last /\ d # c
        BY <1>2, <2>2, <2>4, <3>2, <4>1, RoomAssumption DEF LastUnless
      <4> QED BY <1>1, <1>4, <2>4, <4>1, <4>2 DEF Awaiting, AwaitsLast
    <3> QED BY <3>1, <3>2 DEF Awaiting, AwaitsLast
  <2> QED
    BY <1>1, <1>4, <2>2, <2>8, <2>9 DEF Control, TrackedIffOpen, EmptyRoomIsQuiet
<1> QED BY <1>5, <1>6

\* A handler that suspends takes a free slot and leaves the others alone.
LEMMA SuspendEffect ==
    ASSUME closers \in [CloserSlots -> CloserType],
           NEW phase \in {"flush", "final"}, NEW i \in SaveSlots, Suspend(phase, i)
    PROVE  /\ closers' \in [CloserSlots -> CloserType]
           /\ \E c \in CloserSlots :
                /\ closers[c].phase = "none"
                /\ closers'[c].phase = phase /\ closers'[c].save = i
                /\ \A d \in CloserSlots \ {c} : closers'[d] = closers[d]
<1>1. PICK c \in CloserSlots :
        /\ closers[c].phase = "none"
        /\ closers' = [closers EXCEPT ![c] =
                         [phase |-> phase, save |-> i, reopened |-> FALSE]]
  BY DEF Suspend
<1>2. [phase |-> phase, save |-> i, reopened |-> FALSE] \in CloserType
  BY DEF CloserType
<1> QED BY <1>1, <1>2

\* The bookkeeping after a handler suspended on a request nobody awaited.
LEMMA ControlSuspend ==
    ASSUME Control, NEW phase \in {"flush", "final"}, NEW i \in SaveSlots,
           Suspend(phase, i), members' = {},
           saves' \in [SaveSlots -> SaveType], saves'[i].waiting,
           \A j \in SaveSlots : saves[j].waiting => saves'[j].waiting,
           \A c \in CloserSlots : closers[c].phase # "none" => closers[c].save # i,
           throttle'.last # NoSave => saves'[throttle'.last].waiting,
           throttle'.last = i => phase = "flush",
           \A c \in CloserSlots :
              closers[c].phase # "none" /\ closers[c].save = throttle'.last
              => closers[c].phase = "flush"
    PROVE  /\ closers' \in [CloserSlots -> CloserType]
           /\ \A c \in CloserSlots : closers'[c].phase # "none" <=> closers'[c].save # NoSave
           /\ \A c \in CloserSlots : closers'[c].phase # "none" => saves'[closers'[c].save].waiting
           /\ Awaiting'
<1>1. TypeOK /\ Awaiting
  BY DEF Control
<1>2. closers \in [CloserSlots -> CloserType]
  BY <1>1 DEF TypeOK, CloserType
<1>3. closers' \in [CloserSlots -> CloserType]
  BY <1>2, SuspendEffect
<1>4. PICK c \in CloserSlots :
                /\ closers[c].phase = "none"
                /\ closers'[c].phase = phase /\ closers'[c].save = i
                /\ \A d \in CloserSlots \ {c} : closers'[d] = closers[d]
  BY <1>2, SuspendEffect
<1>5. ASSUME NEW d \in CloserSlots
      PROVE  /\ closers'[d].phase # "none" <=> closers'[d].save # NoSave
             /\ closers'[d].phase # "none" => saves'[closers'[d].save].waiting
  <2>1. CASE d = c
    BY <1>4, <2>1, RoomAssumption
  <2>2. CASE d # c
    BY <1>1, <1>4, <2>2 DEF TypeOK
  <2> QED BY <2>1, <2>2
<1>6. AwaitsItsOwn'
  <2> SUFFICES ASSUME NEW d \in CloserSlots, NEW f \in CloserSlots,
                      closers'[d].phase # "none", closers'[d].save = closers'[f].save
               PROVE  d = f
    BY DEF AwaitsItsOwn
  <2>1. closers'[f].phase # "none"
    BY <1>5
  <2>2. CASE d # c /\ f # c
    BY <1>1, <1>4, <2>2 DEF Awaiting, AwaitsItsOwn
  <2>3. CASE d = c \/ f = c
    BY <1>4, <2>1, <2>3
  <2> QED BY <2>2, <2>3
<1>7. AwaitsLast'
  BY <1>4 DEF AwaitsLast
<1> QED BY <1>3, <1>5, <1>6, <1>7 DEF Awaiting

\* DELETE_ROOM up to its first suspension, in each of its four courses.
LEMMA ControlClose ==
    ASSUME Control, members # {}, members' = {}, snapshot' = snapshot, CloseRoom
    PROVE  /\ throttle' \in ThrottleType /\ throttle'.pending = FALSE
           /\ saves' \in [SaveSlots -> SaveType]
           /\ unsaved' \in BOOLEAN
           /\ tracker' = FALSE
           /\ throttle'.last # NoSave => saves'[throttle'.last].waiting
           /\ closers' \in [CloserSlots -> CloserType]
           /\ \A c \in CloserSlots : closers'[c].phase # "none" <=> closers'[c].save # NoSave
           /\ \A c \in CloserSlots : closers'[c].phase # "none" => saves'[closers'[c].save].waiting
           /\ Awaiting'
<1>1. TypeOK /\ Awaiting
  BY DEF Control
<1>2. \A c \in CloserSlots :
         closers[c].phase # "none" => /\ closers[c].save # throttle.last
                                      /\ closers[c].save \in SaveSlots
                                      /\ saves[closers[c].save].waiting
  BY <1>1 DEF TypeOK, Awaiting, AwaitsLast
<1>3. snapshot # NoSnapshot => snapshot \in Content
  BY <1>1 DEF TypeOK, HasSnapshot
<1>4. tracker' = FALSE
  BY DEF CloseRoom
<1>5. CASE FlushQueued
  <2>1. InvokeSave(snapshot, FALSE) /\ snapshot # NoSnapshot /\ Suspend("flush", throttle'.last)
    BY <1>5 DEF FlushQueued, HasSnapshot
  <2>2. /\ throttle' \in ThrottleType /\ throttle'.pending = FALSE
        /\ throttle'.last \in SaveSlots
        /\ ~saves[throttle'.last].waiting
        /\ saves' = [saves EXCEPT ![throttle'.last] =
             [waiting |-> TRUE, applied |-> FALSE, content |-> snapshot]]
        /\ unsaved' = FALSE
    BY <1>1, <1>3, <2>1, InvokeSends
  <2>3. /\ saves' \in [SaveSlots -> SaveType] /\ saves'[throttle'.last].waiting
        /\ \A j \in SaveSlots : saves[j].waiting => saves'[j].waiting
    BY <1>1, <1>3, <2>1, <2>2 DEF TypeOK, SaveType
  <2>4. \A c \in CloserSlots : closers[c].phase # "none" => closers[c].save # throttle'.last
    BY <1>2, <2>2
  <2> QED BY <1>4, <2>1, <2>2, <2>3, <2>4, ControlSuspend
<1>6. CASE FlushAwaitsLast
  <2>1. /\ throttle.last # NoSave /\ ~throttle.pending /\ Suspend("flush", throttle.last)
        /\ saves' = saves /\ unsaved' = unsaved
    BY <1>6 DEF FlushAwaitsLast
  <2>2. /\ throttle' \in ThrottleType /\ throttle'.pending = FALSE
        /\ throttle'.last = throttle.last
    BY <1>1, <1>6 DEF FlushAwaitsLast, TypeOK, ThrottleType
  <2>3. /\ throttle.last \in SaveSlots /\ saves[throttle.last].waiting
        /\ saves' \in [SaveSlots -> SaveType]
    BY <1>1, <2>1 DEF TypeOK, SaveType
  <2> QED BY <1>1, <1>2, <1>4, <2>1, <2>2, <2>3, ControlSuspend DEF TypeOK
<1>7. CASE SaveAtOnce
  <2>1. PICK i \in SaveSlots : StartSave(i, snapshot) /\ Suspend("final", i)
    BY <1>7 DEF SaveAtOnce
  <2>2. /\ throttle' \in ThrottleType /\ throttle'.pending = FALSE
        /\ throttle'.last = NoSave
    BY <1>1, <1>7 DEF SaveAtOnce, TypeOK, ThrottleType
  <2>3. /\ saves' \in [SaveSlots -> SaveType] /\ saves'[i].waiting /\ ~saves[i].waiting
        /\ \A j \in SaveSlots : saves[j].waiting => saves'[j].waiting
        /\ unsaved' = FALSE
    <3>1. snapshot \in Content
      BY <1>3, <1>7 DEF SaveAtOnce, HasSnapshot
    <3>2. /\ ~saves[i].waiting /\ unsaved' = FALSE
          /\ saves' = [saves EXCEPT ![i] =
               [waiting |-> TRUE, applied |-> FALSE, content |-> snapshot]]
      BY <2>1 DEF StartSave
    <3> QED BY <1>1, <3>1, <3>2 DEF TypeOK, SaveType
  <2>4. \A c \in CloserSlots : closers[c].phase # "none" => closers[c].save # i
    BY <1>2, <2>3
  <2>5. \A c \in CloserSlots :
           closers[c].phase # "none" => closers[c].save # throttle'.last
    BY <1>2, <2>2, RoomAssumption
  <2>6. throttle'.last # i
    BY <2>2, RoomAssumption
  <2> QED BY <1>4, <2>1, <2>2, <2>3, <2>4, <2>5, <2>6, ControlSuspend
<1>8. CASE NothingToSave
  <2>1. /\ throttle' \in ThrottleType /\ throttle'.pending = FALSE
        /\ throttle'.last = NoSave
    BY <1>1, <1>8 DEF NothingToSave, TypeOK, ThrottleType
  <2>2. UNCHANGED <<closers, saves, unsaved>>
    BY <1>8 DEF NothingToSave
  <2>3. Awaiting'
    <3>1. AwaitsItsOwn'
      BY <1>1, <2>2 DEF Awaiting, AwaitsItsOwn
    <3>2. AwaitsLast'
      BY <1>2, <2>1, <2>2, RoomAssumption DEF AwaitsLast
    <3> QED BY <3>1, <3>2 DEF Awaiting
  <2> QED BY <1>1, <1>4, <2>1, <2>2, <2>3 DEF TypeOK, SaveType, CloserType
<1> QED BY <1>5, <1>6, <1>7, <1>8 DEF CloseRoom

LEMMA ControlLeave ==
    ASSUME Control, NEW s \in Sockets, Leave(s)
    PROVE  Control'
<1>1. TypeOK /\ Awaiting /\ TrackedIffOpen /\ EmptyRoomIsQuiet
  BY DEF Control
<1>2. /\ s \in members /\ members' = members \ {s}
      /\ UNCHANGED <<answer, snapshot, db, late, accepted, fault>>
      /\ pc' \in [Sockets -> {"idle", "fetching", "answered", "active"}]
      /\ seen' \in [Sockets -> Content]
  BY <1>1 DEF Leave, TypeOK, Content
<1>3. CASE members' # {}
  <2>1. UNCHANGED <<tracker, throttle, closers, saves, unsaved>>
    BY <1>3 DEF Leave
  <2>2. TypeOK'
    BY <1>1, <1>2, <2>1 DEF TypeOK, HasSnapshot
  <2>3. Awaiting'
    BY <1>1, <1>2, <2>1 DEF Awaiting, AwaitsItsOwn, AwaitsLast
  <2> QED
    BY <1>1, <1>2, <1>3, <2>1, <2>2, <2>3 DEF Control, TrackedIffOpen, EmptyRoomIsQuiet
<1>4. CASE members' = {}
  <2>1. CloseRoom
    BY <1>4 DEF Leave
  <2>2. /\ throttle' \in ThrottleType /\ throttle'.pending = FALSE
        /\ saves' \in [SaveSlots -> SaveType]
        /\ unsaved' \in BOOLEAN
        /\ tracker' = FALSE
        /\ throttle'.last # NoSave => saves'[throttle'.last].waiting
        /\ closers' \in [CloserSlots -> CloserType]
        /\ \A c \in CloserSlots : closers'[c].phase # "none" <=> closers'[c].save # NoSave
        /\ \A c \in CloserSlots : closers'[c].phase # "none" => saves'[closers'[c].save].waiting
        /\ Awaiting'
    BY <1>2, <1>4, <2>1, ControlClose
  <2>3. TypeOK'
    BY <1>1, <1>2, <1>4, <2>2 DEF TypeOK, ThrottleType, SaveType, CloserType, HasSnapshot
  <2> QED
    BY <1>4, <2>2, <2>3 DEF Control, TrackedIffOpen, EmptyRoomIsQuiet
<1> QED BY <1>3, <1>4

LEMMA ControlAutoSaveReturns ==
    ASSUME Control, NEW i \in SaveSlots, NEW ok \in BOOLEAN, AutoSaveReturns(i, ok)
    PROVE  Control'
<1>1. TypeOK /\ Awaiting /\ TrackedIffOpen /\ EmptyRoomIsQuiet
  BY DEF Control
<1>2. /\ UNCHANGED <<members, pc, answer, seen, snapshot, tracker, closers, db,
                     accepted, unsaved, fault>>
      /\ \A c \in CloserSlots : closers[c].save # i
      /\ saves' = [saves EXCEPT ![i] = IdleSave]
  BY DEF AutoSaveReturns, NobodyAwaits
<1>3. late' \subseteq Content
  BY <1>1 DEF AutoSaveReturns, LeaveCopies, TypeOK
<1>4. /\ throttle' \in ThrottleType
      /\ throttle'.made = throttle.made /\ throttle'.pending = throttle.pending
      /\ throttle'.last = LastUnless(i)
  <2>1. LastUnless(i) \in SaveSlots \cup {NoSave}
    BY <1>1 DEF TypeOK, LastUnless
  <2> QED BY <1>1, <2>1 DEF AutoSaveReturns, ForgetPromise, TypeOK, ThrottleType
<1>5. IdleSave \in SaveType
  BY DEF IdleSave, SaveType, Content
<1>6. /\ saves' \in [SaveSlots -> SaveType]
      /\ \A j \in SaveSlots : j # i => saves'[j] = saves[j]
  BY <1>1, <1>2, <1>5 DEF TypeOK, SaveType
<1>7. throttle'.last # NoSave => saves'[throttle'.last].waiting
  BY <1>1, <1>4, <1>6, RoomAssumption DEF TypeOK, LastUnless
<1>8. \A c \in CloserSlots : closers'[c].phase # "none" => saves'[closers'[c].save].waiting
  BY <1>1, <1>2, <1>6 DEF TypeOK
<1>9. TypeOK'
  BY <1>1, <1>2, <1>3, <1>4, <1>6, <1>7, <1>8
     DEF TypeOK, ThrottleType, SaveType, HasSnapshot
<1>10. Awaiting'
  <2>1. AwaitsItsOwn'
    BY <1>1, <1>2 DEF Awaiting, AwaitsItsOwn
  <2>2. ASSUME NEW c \in CloserSlots, closers[c].phase # "none", closers[c].save = throttle'.last
        PROVE  closers[c].save = throttle.last
    BY <1>1, <1>4, <2>2 DEF TypeOK, LastUnless
  <2>3. AwaitsLast'
    BY <1>1, <1>2, <2>2 DEF Awaiting, AwaitsLast
  <2> QED BY <2>1, <2>3 DEF Awaiting
<1> QED
  BY <1>1, <1>2, <1>4, <1>9, <1>10 DEF Control, TrackedIffOpen, EmptyRoomIsQuiet

LEMMA ControlServer ==
    ASSUME Control,
           \/ \E i \in SaveSlots : SaveApplied(i)
           \/ \E content \in late : LateSave(content)
    PROVE  Control'
<1>1. TypeOK /\ Awaiting /\ TrackedIffOpen /\ EmptyRoomIsQuiet
  BY DEF Control
<1>2. CASE \E i \in SaveSlots : SaveApplied(i)
  <2>1. PICK i \in SaveSlots : SaveApplied(i)
    BY <1>2
  <2>2. /\ saves' \in [SaveSlots -> SaveType]
        /\ \A j \in SaveSlots : saves'[j].waiting = saves[j].waiting
    <3>1. saves \in [SaveSlots -> SaveType]
      BY <1>1 DEF TypeOK, SaveType
    <3>2. saves' = [saves EXCEPT ![i].applied = TRUE]
      BY <2>1 DEF SaveApplied
    <3> QED BY <3>1, <3>2 DEF SaveType
  <2>3. /\ db' \in Content /\ fault' \in Faults
        /\ UNCHANGED <<members, pc, answer, seen, snapshot, throttle, tracker,
                       closers, late, accepted, unsaved>>
    BY <1>1, <2>1 DEF SaveApplied, BlameIf, TypeOK, Faults
  <2>4. TypeOK'
    BY <1>1, <2>2, <2>3 DEF TypeOK, SaveType, HasSnapshot
  <2> QED
    BY <1>1, <2>3, <2>4 DEF Control, Awaiting, AwaitsItsOwn, AwaitsLast, TrackedIffOpen, EmptyRoomIsQuiet
<1>3. CASE \E content \in late : LateSave(content)
  <2>1. /\ db' \in Content /\ fault' \in Faults /\ late' \subseteq Content
        /\ UNCHANGED <<members, pc, answer, seen, snapshot, throttle, tracker,
                       saves, closers, accepted, unsaved>>
    BY <1>1, <1>3 DEF LateSave, BlameIf, TypeOK, Faults
  <2>2. TypeOK'
    BY <1>1, <2>1 DEF TypeOK, HasSnapshot
  <2> QED
    BY <1>1, <2>1, <2>2 DEF Control, Awaiting, AwaitsItsOwn, AwaitsLast, TrackedIffOpen, EmptyRoomIsQuiet
<1> QED BY <1>2, <1>3

LEMMA ControlCrash ==
    ASSUME Control, Crash
    PROVE  Control'
<1>1. TypeOK
  BY DEF Control
<1>2. /\ throttle' \in ThrottleType /\ throttle'.made = FALSE
      /\ throttle'.pending = FALSE /\ throttle'.last = NoSave
  BY DEF Crash, NoThrottle, ThrottleType
<1>3. saves' \in [SaveSlots -> SaveType]
  BY DEF Crash, IdleSave, SaveType, Content
<1>4. /\ closers' \in [CloserSlots -> CloserType]
      /\ \A c \in CloserSlots : closers'[c].phase = "none" /\ closers'[c].save = NoSave
  BY DEF Crash, IdleCloser, CloserType
<1>5. /\ members' = {} /\ tracker' = FALSE /\ unsaved' = FALSE
      /\ db' \in Content /\ accepted' \in Content /\ ~HasSnapshot'
      /\ pc' \in [Sockets -> {"idle", "fetching", "answered", "active"}]
      /\ answer' \in [Sockets -> Content] /\ seen' \in [Sockets -> Content]
  BY <1>1 DEF Crash, TypeOK, Content, HasSnapshot
<1>6. late' \subseteq Content
  BY <1>1 DEF Crash, TypeOK
<1>7. fault' \in Faults
  BY <1>1 DEF Crash, BlameIf, TypeOK, Faults
<1>8. TypeOK'
  BY <1>2, <1>3, <1>4, <1>5, <1>6, <1>7 DEF TypeOK, ThrottleType, SaveType, CloserType
<1> QED
  BY <1>2, <1>4, <1>5, <1>8
     DEF Control, Awaiting, AwaitsItsOwn, AwaitsLast, TrackedIffOpen, EmptyRoomIsQuiet

LEMMA ControlNext ==
    ASSUME Control, [Next]_vars
    PROVE  Control'
<1>1. CASE UNCHANGED vars
  BY <1>1 DEF vars, Control, TypeOK, HasSnapshot, Awaiting, AwaitsItsOwn, AwaitsLast,
              TrackedIffOpen, EmptyRoomIsQuiet
<1>2. ASSUME NEW s \in Sockets,
             \/ Join(s) \/ LoadForGone(s) \/ FetchAnswered(s) \/ FetchSucceeds(s) \/ FetchFails(s)
             \/ \E e \in Edits : Broadcast(s, e)
             \/ Leave(s)
      PROVE  Control'
  BY <1>2, ControlJoin, ControlFetch, ControlBroadcast, ControlLeave
<1>3. ASSUME SaveReturns PROVE Control'
  BY <1>3, ControlAutoSaveReturns, ControlFlushReturns, ControlFinalSaveReturns DEF SaveReturns
<1> QED
  BY <1>1, <1>2, <1>3, ControlThrottleFires, ControlServer, ControlCrash DEF Next

THEOREM ControlInvariant == Spec => []Control
<1>1. Init => Control
  BY ControlInit
<1>2. Control /\ [Next]_vars => Control'
  BY ControlNext
<1> QED BY <1>1, <1>2, PTL DEF Spec

\* The state of a room is well-formed, and every promise that the throttled
\* function or a closing handler holds is a request still under way.
THEOREM RoomIsWellFormed == Spec => []TypeOK
BY ControlInvariant, PTL DEF Control

\* A room has its contribution tracker exactly while it has members, however its
\* closing handlers overlap with new joins.
THEOREM RoomIsTracked == Spec => []TrackedIffOpen
BY ControlInvariant, PTL DEF Control

\* No automatic save is left queued for a room that everybody left.
THEOREM EmptyRoomStaysQuiet == Spec => []EmptyRoomIsQuiet
BY ControlInvariant, PTL DEF Control

-----------------------------------------------------------------------------
(* How one step may move a request, a closing handler and a joining one.    *)

\* A request that starts takes a slot that is free.
LEMMA StartsElsewhere ==
    ASSUME NEW i \in SaveSlots, saves[i].waiting, saves' = saves \/ DOMAIN saves = SaveSlots,
           NEW content,
           \/ \E j \in SaveSlots : StartSave(j, content)
           \/ \E rearm \in BOOLEAN : InvokeSave(content, rearm)
    PROVE  saves'[i] = saves[i]
BY DEF InvokeSave, StartSave

\* A request that is under way is served, returns to who awaits it, or dies with the process.
LEMMA SaveMoves ==
    ASSUME Control, [Next]_vars, NEW i \in SaveSlots, saves[i].waiting
    PROVE  \/ saves'[i] = saves[i]
           \/ SaveApplied(i) /\ saves'[i] = [saves[i] EXCEPT !.applied = TRUE]
           \/ \E ok \in BOOLEAN : AutoSaveReturns(i, ok)
           \/ \E c \in CloserSlots, ok \in BOOLEAN :
                 closers[c].save = i /\ (FlushReturns(c, ok) \/ FinalSaveReturns(c, ok))
           \/ Crash
<1>0. TypeOK /\ DOMAIN saves = SaveSlots
  BY DEF Control, TypeOK
<1>1. ASSUME NEW s \in Sockets,
             \/ Join(s) \/ LoadForGone(s) \/ FetchAnswered(s) \/ FetchSucceeds(s)
             \/ FetchFails(s)
      PROVE  saves' = saves
  BY <1>1 DEF Join, LoadForGone, FetchAnswered, FetchSucceeds, FetchFails, StoreLoaded
<1>2. ASSUME NEW s \in Sockets, NEW e \in Edits, Broadcast(s, e) PROVE saves'[i] = saves[i]
  BY <1>0, <1>2, StartsElsewhere DEF Broadcast, QueueSave, QueueOverdueSave
<1>3. ASSUME NEW s \in Sockets, Leave(s) PROVE saves'[i] = saves[i]
  BY <1>0, <1>3, StartsElsewhere
     DEF Leave, CloseRoom, FlushQueued, FlushAwaitsLast, SaveAtOnce, NothingToSave
<1>4. ASSUME ThrottleFires PROVE saves'[i] = saves[i]
  BY <1>0, <1>4, StartsElsewhere DEF ThrottleFires
<1>5. ASSUME NEW j \in SaveSlots, SaveApplied(j)
      PROVE  saves'[i] = saves[i] \/ (j = i /\ saves'[i] = [saves[i] EXCEPT !.applied = TRUE])
  BY <1>0, <1>5 DEF SaveApplied
<1>6. ASSUME NEW j \in SaveSlots, NEW ok \in BOOLEAN, AutoSaveReturns(j, ok), j # i
      PROVE  saves'[i] = saves[i]
  BY <1>0, <1>6 DEF AutoSaveReturns
<1>7. ASSUME NEW c \in CloserSlots, NEW ok \in BOOLEAN,
             FlushReturns(c, ok) \/ FinalSaveReturns(c, ok), closers[c].save # i
      PROVE  saves'[i] = saves[i]
  BY <1>0, <1>7 DEF FlushReturns, FinalSaveReturns
<1>8. (\E content \in late : LateSave(content)) \/ UNCHANGED vars => saves' = saves
  BY DEF LateSave, vars
<1> QED
  BY <1>1, <1>2, <1>3, <1>4, <1>5, <1>6, <1>7, <1>8 DEF Next, SaveReturns

\* A suspended handler goes on only when its own request returns, or dies with the process.
LEMMA CloserMoves ==
    ASSUME Control, [Next]_vars, NEW c \in CloserSlots, closers[c].phase # "none"
    PROVE  \/ closers'[c].phase = closers[c].phase /\ closers'[c].save = closers[c].save
           \/ \E ok \in BOOLEAN : FlushReturns(c, ok) \/ FinalSaveReturns(c, ok)
           \/ Crash
<1>0. TypeOK
  BY DEF Control
<1>1. ASSUME NEW s \in Sockets, Join(s)
      PROVE  closers'[c].phase = closers[c].phase /\ closers'[c].save = closers[c].save
  BY <1>0, <1>1 DEF Join, OpenRoom, TypeOK
<1>2. ASSUME NEW s \in Sockets, Leave(s) PROVE closers'[c] = closers[c]
  BY <1>0, <1>2 DEF Leave, CloseRoom, FlushQueued, FlushAwaitsLast, SaveAtOnce,
                    NothingToSave, Suspend, TypeOK
<1>3. ASSUME NEW s \in Sockets,
             \/ LoadForGone(s) \/ FetchAnswered(s) \/ FetchSucceeds(s)
             \/ FetchFails(s) \/ \E e \in Edits : Broadcast(s, e)
      PROVE  closers' = closers
  BY <1>3 DEF LoadForGone, FetchAnswered, FetchSucceeds, FetchFails, StoreLoaded, Broadcast
<1>4. ASSUME NEW d \in CloserSlots, NEW ok \in BOOLEAN, d # c,
             FlushReturns(d, ok) \/ FinalSaveReturns(d, ok)
      PROVE  closers'[c] = closers[c]
  BY <1>0, <1>4 DEF FlushReturns, FinalSaveReturns, EndClose, TypeOK
<1>5. \/ ThrottleFires \/ \E j \in SaveSlots : SaveApplied(j)
      \/ \E j \in SaveSlots, ok \in BOOLEAN : AutoSaveReturns(j, ok)
      \/ \E content \in late : LateSave(content)
      \/ UNCHANGED vars
      => closers' = closers
  BY DEF ThrottleFires, SaveApplied, AutoSaveReturns, LateSave, vars
<1> QED  BY <1>1, <1>2, <1>3, <1>4, <1>5 DEF Next, SaveReturns

\* A JOIN_ROOM handler that loads goes on when its own FETCH does, or dies with the process.
LEMMA LoadMoves ==
    ASSUME Control, [Next]_vars, NEW s \in Sockets
    PROVE  /\ pc[s] = "fetching" => pc'[s] \in {"fetching", "answered", "active", "idle"}
           /\ pc[s] = "answered" => pc'[s] \in {"answered", "active", "idle"}
           /\ FetchAnswered(s) => pc'[s] = "answered"
           /\ FetchSucceeds(s) \/ FetchFails(s) => pc'[s] \in {"active", "idle"}
<1> USE DEF Control, TypeOK
<1>1. /\ FetchAnswered(s) => pc'[s] = "answered"
      /\ FetchSucceeds(s) \/ FetchFails(s) => pc'[s] \in {"active", "idle"}
  BY DEF FetchAnswered, FetchSucceeds, FetchFails, StoreLoaded, AfterLoad
<1>2. ASSUME NEW t \in Sockets, pc[s] \in {"fetching", "answered"},
             \/ Join(t) \/ LoadForGone(t) \/ FetchAnswered(t) \/ FetchSucceeds(t)
             \/ FetchFails(t) \/ (\E e \in Edits : Broadcast(t, e)) \/ Leave(t)
      PROVE  \/ pc'[s] = pc[s]
             \/ FetchAnswered(s) \/ FetchSucceeds(s) \/ FetchFails(s)
  BY <1>2 DEF Join, LoadForGone, FetchAnswered, FetchSucceeds, FetchFails, StoreLoaded,
              Broadcast, Leave
<1>3. \/ ThrottleFires \/ SaveReturns \/ UNCHANGED vars
      \/ \E i \in SaveSlots : SaveApplied(i)
      \/ \E content \in late : LateSave(content)
      => pc' = pc
  BY DEF ThrottleFires, SaveReturns, AutoSaveReturns, FlushReturns, FinalSaveReturns,
         SaveApplied, LateSave, vars
<1>4. Crash => pc'[s] = "idle"
  BY DEF Crash
<1> HIDE DEF Control, TypeOK
<1>5. pc[s] \in {"fetching", "answered"} =>
         \/ pc'[s] = pc[s] \/ pc'[s] = "idle"
         \/ FetchAnswered(s) \/ FetchSucceeds(s) \/ FetchFails(s)
  BY <1>2, <1>3, <1>4 DEF Next
<1> QED  BY <1>1, <1>5

-----------------------------------------------------------------------------
(* Handlers end.  Fairness is stated with guards under which the steps are  *)
(* enabled: whenever a timer or a request can go on for ever, it goes on.   *)

Serves(guard, step) == []<>~guard \/ []<><<step>>_vars

LoadsServed ==
    \A s \in Sockets :
        /\ Serves(pc[s] = "fetching", FetchAnswered(s) /\ pc[s] = "fetching")
        /\ Serves(pc[s] = "answered", FetchSucceeds(s) \/ FetchFails(s))

\* A request that the server has not stored yet, and a handler whose request it has.
Unserved(i) == saves[i].waiting /\ ~saves[i].applied
Stored(c, i) == closers[c].save = i /\ saves[i].applied
Applies(i) == SaveApplied(i) /\ ~saves[i].applied
CloserGoesOn(c) == \E ok \in BOOLEAN : FlushReturns(c, ok) \/ FinalSaveReturns(c, ok)

SavesServed == \A i \in SaveSlots : Serves(Unserved(i), Applies(i))
ClosersServed ==
    \A c \in CloserSlots :
        Serves(closers[c].phase # "none" /\ saves[closers[c].save].applied, CloserGoesOn(c))

\* Every load ends, by the scene or by the empty one that stands for a failure, also when
\* the socket left meanwhile and whatever else stores a snapshot.
THEOREM JoinsEnd == Spec /\ LoadsServed => JoinEnds
<1> SUFFICES ASSUME NEW s \in Sockets
             PROVE  Spec /\ LoadsServed => (pc[s] = "fetching" ~> pc[s] \in {"active", "idle"})
  BY DEF JoinEnds
<1> DEFINE F == pc[s] = "fetching"
           A == pc[s] = "answered"
           E == pc[s] \in {"active", "idle"}
           Ask == FetchAnswered(s) /\ F
           End == FetchSucceeds(s) \/ FetchFails(s)
<1>1. LoadsServed => Serves(F, Ask) /\ Serves(A, End)
  BY DEF LoadsServed
<1>2. Control /\ [Next]_vars =>
        /\ F => F' \/ A' \/ E'
        /\ F /\ Ask => A'
        /\ A => A' \/ E'
        /\ End => E'
  BY LoadMoves
<1> HIDE DEF F, A, E, Ask, End
<1>3. Spec /\ LoadsServed => (F ~> E)
  BY <1>1, <1>2, ControlInvariant, PTL DEF Spec, Serves
<1> QED  BY <1>3 DEF F, E

\* Where a closing handler is that awaits request i.
Flushing(c, i, done) ==
    closers[c].phase = "flush" /\ closers[c].save = i /\ saves[i].applied = done
Saving(c, i, done) ==
    closers[c].phase = "final" /\ closers[c].save = i /\ saves[i].applied = done
Ended(c) == closers[c].phase = "none"

\* The handler awaits its request, goes from its flush to its final save in the same slot,
\* or ends.
LEMMA ClosingMoves ==
    ASSUME Control, [Next]_vars, NEW c \in CloserSlots, NEW i \in SaveSlots,
           closers[c].phase # "none", closers[c].save = i
    PROVE  /\ saves[i].waiting
           /\ \/ /\ closers'[c].phase = closers[c].phase /\ closers'[c].save = i
                 /\ saves[i].applied \/ Applies(i) => saves'[i].applied
                 /\ ~CloserGoesOn(c)
              \/ /\ closers[c].phase = "flush"
                 /\ closers'[c].phase = "final" /\ closers'[c].save = i
                 /\ ~saves'[i].applied /\ ~Applies(i)
              \/ Ended(c)'
<1>0. TypeOK /\ AwaitsItsOwn /\ saves[i].waiting
  BY DEF Control, Awaiting, TypeOK
<1>1. CASE CloserGoesOn(c)
  <2>1. PICK ok \in BOOLEAN : FlushReturns(c, ok) \/ FinalSaveReturns(c, ok)
    BY <1>1 DEF CloserGoesOn
  <2>2. CASE FinalSaveReturns(c, ok)
    BY <1>0, <2>2 DEF FinalSaveReturns, EndClose, IdleCloser, Ended, TypeOK
  <2>3. CASE FlushReturns(c, ok) /\ ~HasSnapshot
    BY <1>0, <2>3 DEF FlushReturns, EndClose, IdleCloser, Ended, TypeOK
  <2>4. CASE FlushReturns(c, ok) /\ HasSnapshot
    <3>1. /\ saves' = [saves EXCEPT ![i] =
                 [waiting |-> TRUE, applied |-> FALSE, content |-> snapshot]]
          /\ closers' = [closers EXCEPT ![c].phase = "final"]
          /\ closers[c].phase = "flush"
      BY <2>4 DEF FlushReturns
    <3>2. closers'[c].phase = "final" /\ closers'[c].save = i /\ ~saves'[i].applied
      BY <1>0, <3>1 DEF TypeOK
    <3>3. ~Applies(i)
      BY <1>0, <3>2 DEF Applies, SaveApplied, TypeOK
    <3> QED  BY <1>0, <3>1, <3>2, <3>3
  <2> QED  BY <2>1, <2>2, <2>3, <2>4
<1>2. CASE Crash
  BY <1>0, <1>2 DEF Crash, IdleCloser, Ended
<1>3. CASE ~CloserGoesOn(c) /\ ~Crash
  <2>1. closers'[c].phase = closers[c].phase /\ closers'[c].save = i
    BY <1>3, CloserMoves DEF CloserGoesOn
  <2>2. \A ok \in BOOLEAN : ~AutoSaveReturns(i, ok)
    BY DEF AutoSaveReturns, NobodyAwaits
  <2>3. ASSUME NEW d \in CloserSlots, NEW ok \in BOOLEAN, closers[d].save = i,
               FlushReturns(d, ok) \/ FinalSaveReturns(d, ok)
        PROVE  FALSE
    <3>1. d = c
      BY <1>0, <2>3 DEF AwaitsItsOwn, FlushReturns, FinalSaveReturns
    <3> QED  BY <1>3, <2>3, <3>1 DEF CloserGoesOn
  <2>4. saves'[i] = saves[i] \/ saves'[i] = [saves[i] EXCEPT !.applied = TRUE]
    BY <1>0, <1>3, <2>2, <2>3, SaveMoves
  <2>5. saves[i].applied => saves'[i].applied
    BY <1>0, <2>4 DEF TypeOK
  <2>6. Applies(i) => saves'[i].applied
    BY <1>0 DEF Applies, SaveApplied, TypeOK
  <2> QED  BY <1>0, <1>3, <2>1, <2>5, <2>6
<1> QED  BY <1>1, <1>2, <1>3

\* The handler that awaits request i ends.
LEMMA ClosingEnds ==
    ASSUME NEW c \in CloserSlots, NEW i \in SaveSlots
    PROVE  Spec /\ SavesServed /\ ClosersServed
              => [](closers[c].phase # "none" /\ closers[c].save = i => <>Ended(c))
<1> DEFINE F == Flushing(c, i, FALSE)
           FS == Flushing(c, i, TRUE)
           L == Saving(c, i, FALSE)
           LS == Saving(c, i, TRUE)
           E == Ended(c)
           U == Unserved(i)
           R == closers[c].phase # "none" /\ saves[closers[c].save].applied
           Apply == Applies(i)
           Go == CloserGoesOn(c)
           P == closers[c].phase # "none" /\ closers[c].save = i
<1> USE DEF Flushing, Saving, Ended
<1>1. SavesServed /\ ClosersServed => Serves(U, Apply) /\ Serves(R, Go)
  BY DEF SavesServed, ClosersServed
<1>2. Control => /\ P => F \/ FS \/ L \/ LS
                 /\ FS \/ LS => R
  BY DEF Control, TypeOK
<1>3. Control /\ [Next]_vars =>
        /\ F \/ L => U
        /\ F => F' \/ FS' \/ L' \/ E'
        /\ F /\ Apply => FS' \/ E'
        /\ FS => FS' \/ L' \/ E'
        /\ FS /\ Go => L' \/ E'
        /\ L => L' \/ LS' \/ E'
        /\ L /\ Apply => LS' \/ E'
        /\ LS => LS' \/ E'
        /\ LS /\ Go => E'
  <2> SUFFICES ASSUME Control, [Next]_vars, closers[c].phase # "none", closers[c].save = i
               PROVE  /\ F \/ L => U
                      /\ F => F' \/ FS' \/ L' \/ E'
                      /\ F /\ Apply => FS' \/ E'
                      /\ FS => FS' \/ L' \/ E'
                      /\ FS /\ Go => L' \/ E'
                      /\ L => L' \/ LS' \/ E'
                      /\ L /\ Apply => LS' \/ E'
                      /\ LS => LS' \/ E'
                      /\ LS /\ Go => E'
    OBVIOUS
  <2>1. saves'[i].applied \in BOOLEAN
    BY ControlNext DEF Control, TypeOK
  <2> HIDE DEF Apply, Go
  <2> QED  BY <2>1, ClosingMoves DEF Unserved, Apply, Go
<1> HIDE DEF F, FS, L, LS, E, U, R, Apply, Go, P
<1>4. Spec /\ SavesServed /\ ClosersServed => [](P => <>E)
  BY <1>1, <1>2, <1>3, ControlInvariant, PTL DEF Spec, Serves
<1> QED  BY <1>4 DEF P, E

\* Every DELETE_ROOM handler ends: the request it awaits is its own, whatever throttled
\* function has taken the place of the one it flushed, and so is the save it sends then.
THEOREM ClosesEnd == Spec /\ SavesServed /\ ClosersServed => CloseEnds
<1> SUFFICES ASSUME NEW c \in CloserSlots
             PROVE  Spec /\ SavesServed /\ ClosersServed
                       => (closers[c].phase # "none" ~> closers[c].phase = "none")
  BY DEF CloseEnds
<1> DEFINE Busy(i) == closers[c].phase # "none" /\ closers[c].save = i
           Free(i) == Ended(c)
           P == closers[c].phase # "none"
           E == Ended(c)
<1>1. Spec /\ SavesServed /\ ClosersServed => \A i \in SaveSlots : [](Busy(i) => <>Free(i))
  BY ClosingEnds
<1>2. Control => (P => \E i \in SaveSlots : Busy(i))
  BY DEF Control, TypeOK
<1>3. E <=> closers[c].phase = "none"
  BY DEF Ended
<1> HIDE DEF Busy, Free, P
<1>4. (\A i \in SaveSlots : [](Busy(i) => <>Free(i)))
         => [](\A i \in SaveSlots : Busy(i) => <>Free(i))
  OBVIOUS
<1>5. (\A i \in SaveSlots : Busy(i) => <>Free(i)) /\ (\E i \in SaveSlots : Busy(i)) => <>E
  BY DEF Free
<1> HIDE DEF E
<1>6. Spec /\ SavesServed /\ ClosersServed => (P ~> E)
  BY <1>1, <1>2, <1>4, <1>5, ControlInvariant, PTL
<1>7. P <=> closers[c].phase # "none"
  BY DEF P
<1> QED  BY <1>3, <1>6, <1>7, PTL
=============================================================================
