--------------------------- MODULE ChangeEventsProofs ---------------------------
(***************************************************************************)
(* Proofs about ChangeEvents for all elements, looks, bulk slots and       *)
(* bounds.  Sending is the inductive invariant of the buffer, Telling that *)
(* of what the events say.                                                 *)
(***************************************************************************)
EXTENDS ChangeEvents, TLAPS

\* What waits while a request is under way is in a request, or came too late for it.
CrowdedIsExcused == UnderWay => buffer \subseteq sent \cup excused

Sending ==
    TypeOK /\ SentUnlessCrowded /\ CrowdedIsExcused
    /\ BufferedIsScheduled /\ SentOnceUnlessOverlapping

\* A version is one state of an element, and the snapshot holds states that were sent.
OneStatePerVersion ==
    \A i \in Ids :
        /\ \A p, q \in states[i] : p.version = q.version => p = q
        /\ \A p \in states[i] : p.version \in 1..MaxVersion /\ p.look \in Looks \cup {Deleted}
        /\ scene[i] \in states[i] \cup {Absent}

Telling == OneStatePerVersion /\ EventsTellTheScene

-----------------------------------------------------------------------------
(* The buffer.                                                              *)

\* A request that goes out takes all the content, or there is none.
LEMMA SendEffect ==
    ASSUME NEW content, bulks \in [Bulks -> SUBSET sent], Send(content)
    PROVE  /\ sent' = sent \cup content
           /\ bulks' \in [Bulks -> SUBSET sent']
           /\ content # {} => UnderWay'
           /\ content = {} => bulks' = bulks
<1>1. CASE content = {}
  BY <1>1 DEF Send
<1>2. CASE content # {}
  <2>1. PICK b \in Bulks : /\ bulks' = [bulks EXCEPT ![b] = content]
                           /\ sent' = sent \cup content
    BY <1>2 DEF Send
  <2>2. bulks'[b] = content
    BY <2>1
  <2> QED  BY <1>2, <2>1, <2>2 DEF UnderWay
<1> QED  BY <1>1, <1>2

\* A call of the throttled function sends the content, or remembers to.
LEMMA CallEffect ==
    ASSUME NEW content, content # {}, bulks \in [Bulks -> SUBSET sent], Call(content)
    PROVE  /\ throttle' \in [armed : BOOLEAN, pending : BOOLEAN]
           /\ throttle'.pending => throttle'.armed
           /\ bulks' \in [Bulks -> SUBSET sent']
           /\ \/ sent' = sent \cup content /\ UnderWay'
              \/ throttle'.pending /\ UNCHANGED <<bulks, sent>>
<1>1. CASE throttle' = [armed |-> TRUE, pending |-> FALSE] /\ Send(content)
  <2>1. /\ sent' = sent \cup content /\ bulks' \in [Bulks -> SUBSET sent']
        /\ content # {} => UnderWay'
    BY <1>1, SendEffect
  <2> QED  BY <1>1, <2>1
<1>2. CASE throttle' = [armed |-> TRUE, pending |-> TRUE] /\ UNCHANGED <<bulks, sent>>
  BY <1>2
<1> QED  BY <1>1, <1>2 DEF Call

LEMMA SendingInit == Init => Sending
<1> SUFFICES ASSUME Init PROVE Sending
  OBVIOUS
<1> USE EventsAssumption
<1>1. TypeOK
  <2>1. \A i \in Ids : scene[i] \in State
    BY DEF Init, State, Absent
  <2>2. scene \in [Ids -> State]
    BY <2>1 DEF Init
  <2>3. states \in [Ids -> SUBSET State]
    BY <2>1 DEF Init
  <2>4. view \in [Ids -> Looks \cup {Deleted, Nothing}]
    <3>1. \A i \in Ids : scene[i].look \in Looks \cup {Deleted, Nothing}
      BY <2>1 DEF State
    <3> QED  BY <3>1 DEF Init, Look
  <2>5. events \in 0..MaxEvents
    BY DEF Init, EventsAssumption
  <2>6. /\ throttle \in [armed : BOOLEAN, pending : BOOLEAN]
        /\ throttle.pending => throttle.armed
        /\ strayed \in BOOLEAN
    BY DEF Init, Idle
  <2>7. /\ buffer \subseteq 1..events /\ sent \subseteq 1..events /\ excused \subseteq 1..events
        /\ bulks \in [Bulks -> SUBSET sent]
    BY DEF Init
  <2> QED
    BY <2>2, <2>3, <2>4, <2>5, <2>6, <2>7 DEF TypeOK
<1>2. 1..events = {}
  BY DEF Init
<1>3. SentUnlessCrowded /\ CrowdedIsExcused /\ BufferedIsScheduled /\ SentOnceUnlessOverlapping
  BY <1>2 DEF Init, SentUnlessCrowded, CrowdedIsExcused, BufferedIsScheduled,
              SentOnceUnlessOverlapping
<1> QED  BY <1>1, <1>3 DEF Sending

\* The merge, the replay and the load keep to the types.
LEMMA BroadcastTyped ==
    ASSUME TypeOK, NEW D \in SUBSET Ids, NEW payload \in Payloads(D)
    PROVE  /\ DOMAIN payload = D
           /\ \A i \in D : payload[i] \in Offers(i) /\ payload[i] \in State
           /\ Merged(payload) \in [Ids -> State]
           /\ Told(payload) \in [Ids -> Looks \cup {Deleted, Nothing}]
<1>1. DOMAIN payload = D /\ \A i \in D : payload[i] \in Offers(i)
  BY DEF Payloads
<1>2. \A i \in D : payload[i] \in State
  BY <1>1, EventsAssumption DEF Offers, State
<1>3. Merged(payload) \in [Ids -> State]
  BY <1>1, <1>2 DEF Merged, TypeOK
<1>4. \A i \in D : payload[i].look \in Looks \cup {Deleted, Nothing}
  BY <1>2 DEF State
<1>5. Inserted(payload) \cup Updated(payload) \subseteq D
  BY <1>1 DEF Inserted, Updated
<1>6. Told(payload) \in [Ids -> Looks \cup {Deleted, Nothing}]
  BY <1>4, <1>5 DEF Told, TypeOK
<1> QED  BY <1>1, <1>2, <1>3, <1>6

LEMMA LoadTyped ==
    ASSUME TypeOK, NEW content \in [Ids -> State], Load(content)
    PROVE  /\ scene' \in [Ids -> State]
           /\ view' \in [Ids -> Looks \cup {Deleted, Nothing}]
           /\ strayed' = FALSE
           /\ UNCHANGED <<states, events, sent>>
BY DEF Load, Look, State

\* Sending is inductive.
LEMMA SendingStep == Sending /\ [Next]_vars => Sending'
<1> SUFFICES ASSUME Sending, [Next]_vars PROVE Sending'
  OBVIOUS
<1> USE EventsAssumption
<1>0. TypeOK /\ events \in Nat
  BY DEF Sending, TypeOK
<1>1. ASSUME NEW D \in SUBSET Ids, NEW payload \in Payloads(D), Broadcast(payload)
      PROVE  Sending'
  <2>1. scene' \in [Ids -> State] /\ states' \in [Ids -> SUBSET State]
    <3>1. \A i \in D : payload[i] \in State
      BY <1>0, BroadcastTyped
    <3>2. \A i \in Ids : states'[i] \in SUBSET State
      BY <1>0, <1>1, <3>1, BroadcastTyped DEF Broadcast, TypeOK
    <3> QED  BY <1>0, <1>1, <3>2, BroadcastTyped DEF Broadcast
  <2>2. CASE Changes(payload) = {}
    <3>1. UNCHANGED <<view, strayed, events, buffer, bulks, throttle, sent, excused>>
      BY <1>1, <2>2 DEF Broadcast
    <3> QED
      BY <1>0, <2>1, <3>1 DEF Sending, TypeOK, SentUnlessCrowded, CrowdedIsExcused,
         BufferedIsScheduled, SentOnceUnlessOverlapping, UnderWay
  <2>3. CASE Changes(payload) # {}
    <3>1. /\ events < MaxEvents /\ events' = events + 1
          /\ buffer' = buffer \cup {events'}
          /\ view' = Told(payload) /\ strayed' \in BOOLEAN
          /\ Call(buffer')
          /\ excused' = IF UnderWay THEN excused \cup {events'} ELSE excused
      BY <1>0, <1>1, <2>3 DEF Broadcast, TypeOK
    <3>2. /\ throttle' \in [armed : BOOLEAN, pending : BOOLEAN]
          /\ throttle'.pending => throttle'.armed
          /\ bulks' \in [Bulks -> SUBSET sent']
          /\ \/ sent' = sent \cup buffer' /\ UnderWay'
             \/ throttle'.pending /\ UNCHANGED <<bulks, sent>>
      BY <1>0, <3>1, CallEffect DEF TypeOK
    <3>3. events' \in 0..MaxEvents /\ 1..events' = (1..events) \cup {events'}
          /\ events' \notin 1..events
      BY <1>0, <3>1 DEF TypeOK
    <3>4. TypeOK'
      BY <1>0, <2>1, <3>1, <3>2, <3>3, BroadcastTyped DEF TypeOK
    <3>5. SentUnlessCrowded'
      BY <1>0, <3>1, <3>2, <3>3 DEF Sending, SentUnlessCrowded
    <3>6. CrowdedIsExcused'
      BY <1>0, <3>1, <3>2 DEF Sending, CrowdedIsExcused, UnderWay
    <3>7. BufferedIsScheduled'
      BY <3>2 DEF BufferedIsScheduled
    <3>8. SentOnceUnlessOverlapping'
      <4>1. CASE sent' = sent \cup buffer' /\ UnderWay'
        BY <4>1 DEF SentOnceUnlessOverlapping
      <4>2. CASE UNCHANGED <<bulks, sent>>
        <5>1. UnderWay' = UnderWay /\ events' \notin sent
          BY <1>0, <3>3, <4>2 DEF UnderWay, Sending, TypeOK
        <5> QED BY <1>0, <3>1, <4>2, <5>1 DEF Sending, SentOnceUnlessOverlapping
      <4> QED BY <3>2, <4>1, <4>2
    <3> QED  BY <3>4, <3>5, <3>6, <3>7, <3>8 DEF Sending
  <2> QED  BY <2>2, <2>3
<1>2. CASE ThrottleFires
  <2>1. /\ throttle' = [armed |-> FALSE, pending |-> FALSE]
        /\ UNCHANGED <<scene, states, view, strayed, events, buffer, excused>>
        /\ IF throttle.pending THEN Send(buffer) ELSE UNCHANGED <<bulks, sent>>
    BY <1>2 DEF ThrottleFires, Idle
  <2>2. /\ bulks' \in [Bulks -> SUBSET sent'] /\ sent' \subseteq 1..events
        /\ \/ sent' = sent \cup buffer /\ UnderWay'
           \/ buffer = {} /\ UNCHANGED <<bulks, sent>>
           \/ ~throttle.pending /\ UNCHANGED <<bulks, sent>>
    <3>1. CASE throttle.pending
      <4>1. /\ sent' = sent \cup buffer /\ bulks' \in [Bulks -> SUBSET sent']
            /\ buffer # {} => UnderWay'
            /\ buffer = {} => bulks' = bulks
        BY <1>0, <2>1, <3>1, SendEffect DEF TypeOK
      <4> QED  BY <1>0, <4>1 DEF TypeOK
    <3>2. CASE ~throttle.pending
      BY <1>0, <2>1, <3>2 DEF TypeOK
    <3> QED  BY <3>1, <3>2
  <2>3. TypeOK'
    BY <1>0, <2>1, <2>2 DEF TypeOK
  <2>4. SentUnlessCrowded' /\ CrowdedIsExcused' /\ BufferedIsScheduled'
        /\ SentOnceUnlessOverlapping'
    BY <1>0, <2>1, <2>2 DEF Sending, TypeOK, SentUnlessCrowded, CrowdedIsExcused,
       BufferedIsScheduled, SentOnceUnlessOverlapping, UnderWay
  <2> QED  BY <2>3, <2>4 DEF Sending
<1>3. ASSUME NEW b \in Bulks, BulkReturns(b) PROVE Sending'
  <2>1. /\ bulks[b] # {} /\ bulks' = [bulks EXCEPT ![b] = {}] /\ buffer' = {}
        /\ UNCHANGED <<scene, states, view, strayed, events, throttle, sent, excused>>
    BY <1>3 DEF BulkReturns, Left
  <2>2. UnderWay
    BY <2>1 DEF UnderWay
  <2>3. TypeOK'
    BY <1>0, <2>1 DEF TypeOK
  <2>4. SentUnlessCrowded' /\ CrowdedIsExcused' /\ BufferedIsScheduled'
        /\ SentOnceUnlessOverlapping'
    BY <2>1, <2>2 DEF Sending, SentUnlessCrowded, CrowdedIsExcused,
       BufferedIsScheduled, SentOnceUnlessOverlapping
  <2> QED  BY <2>3, <2>4 DEF Sending
<1>4. ASSUME NEW b \in Bulks, BulkRejects(b) PROVE Sending'
  <2>1. PICK content \in [Ids -> {Absent} \cup UNION {states[i] : i \in Ids}] :
           /\ \A i \in Ids : content[i] \in states[i] \cup {Absent}
           /\ Load(content)
    BY <1>4 DEF BulkRejects
  <2>2. \A i \in Ids : content[i] \in State
    BY <1>0, <2>1 DEF TypeOK, State, Absent
  <2>3. content \in [Ids -> State]
    BY <2>1, <2>2
  <2>4. /\ bulks' = [c \in Bulks |-> {}] /\ buffer' = {}
        /\ throttle' = [armed |-> FALSE, pending |-> FALSE]
        /\ excused' = excused \cup buffer
    BY <1>4 DEF BulkRejects, Idle
  <2>5. TypeOK'
    BY <1>0, <2>1, <2>3, <2>4, LoadTyped DEF TypeOK
  <2>6. events' = events /\ sent' = sent
    BY <2>1 DEF Load
  <2>7. SentUnlessCrowded' /\ CrowdedIsExcused' /\ BufferedIsScheduled'
        /\ SentOnceUnlessOverlapping'
    BY <2>4, <2>6 DEF Sending, SentUnlessCrowded, CrowdedIsExcused,
       BufferedIsScheduled, SentOnceUnlessOverlapping
  <2> QED  BY <2>5, <2>7 DEF Sending
<1>5. CASE Reopen
  <2> DEFINE content == [i \in Ids |-> IF scene[i].look = Deleted THEN Absent ELSE scene[i]]
  <2>1. Load(content) /\ UNCHANGED <<buffer, bulks, throttle, excused>>
    BY <1>5 DEF Reopen
  <2>2. content \in [Ids -> State]
    BY <1>0 DEF TypeOK, State, Absent
  <2>3. TypeOK' /\ UNCHANGED <<events, sent>>
    <3> HIDE DEF content
    <3> QED  BY <1>0, <2>1, <2>2, LoadTyped DEF TypeOK
  <2> QED
    BY <2>1, <2>3 DEF Sending, SentUnlessCrowded, CrowdedIsExcused,
       BufferedIsScheduled, SentOnceUnlessOverlapping, UnderWay
<1>6. CASE UNCHANGED vars
  BY <1>6 DEF vars, Sending, TypeOK, SentUnlessCrowded, CrowdedIsExcused,
     BufferedIsScheduled, SentOnceUnlessOverlapping, UnderWay
<1> QED  BY <1>1, <1>2, <1>3, <1>4, <1>5, <1>6 DEF Next

-----------------------------------------------------------------------------
(* What the events say.                                                     *)

LEMMA TellingInit == Init => Telling
<1> SUFFICES ASSUME Init PROVE Telling
  OBVIOUS
<1>1. \A i \in Ids : scene[i] \in {Absent} \cup [version : {1}, look : Looks]
  BY DEF Init
<1>2. ASSUME NEW i \in Ids
      PROVE  /\ \A p, q \in states[i] : p.version = q.version => p = q
             /\ \A p \in states[i] : p.version \in 1..MaxVersion /\ p.look \in Looks \cup {Deleted}
             /\ scene[i] \in states[i] \cup {Absent}
  <2>1. states[i] = {scene[i]} \ {Absent}
    BY DEF Init
  <2>2. 1 \in 1..MaxVersion
    BY EventsAssumption
  <2> QED  BY <1>1, <2>1, <2>2
<1>3. EventsTellTheScene
  BY DEF Init, EventsTellTheScene
<1> QED  BY <1>2, <1>3 DEF Telling, OneStatePerVersion

\* A broadcast of elements at least as new as the snapshot's is told as the merge does it;
\* one that is told as no change changes no look.
LEMMA FreshBroadcastIsTold ==
    ASSUME TypeOK, OneStatePerVersion, view = Look(scene),
           NEW D \in SUBSET Ids, NEW payload \in Payloads(D)
    PROVE  /\ Changes(payload) = {} => Look(Merged(payload)) = view
           /\ (D # {} /\ \A i \in D : payload[i].version >= scene[i].version)
                 => Told(payload) = Look(Merged(payload))
<1>1. DOMAIN payload = D
  BY BroadcastTyped
<1>2. ASSUME NEW i \in Ids PROVE scene[i].version \in Nat /\ view[i] = scene[i].look
  BY DEF TypeOK, State, Look
<1>3. ASSUME NEW i \in D
      PROVE  /\ payload[i].version \in 1..MaxVersion
             /\ payload[i].version = scene[i].version => payload[i] = scene[i]
  <2>1. /\ payload[i].version \in 1..MaxVersion
        /\ \A y \in states[i] : y.version = payload[i].version => y = payload[i]
    BY BroadcastTyped DEF Offers
  <2>2. scene[i] \in states[i] \/ scene[i].version = 0
    BY DEF OneStatePerVersion, Absent
  <2> QED  BY <2>1, <2>2, EventsAssumption
<1>4. ASSUME Changes(payload) = {} PROVE Look(Merged(payload)) = view
  <2>1. ASSUME NEW i \in D PROVE payload[i].look = scene[i].look
    <3>1. i \in Known /\ i \notin Updated(payload) /\ i \notin Removed(payload)
      BY <1>1, <1>4 DEF Changes, Inserted
    <3> QED  BY <1>1, <3>1 DEF Updated, Removed
  <2>2. \A i \in Ids : Merged(payload)[i].look = scene[i].look
    BY <1>1, <2>1 DEF Merged
  <2> QED  BY <1>2, <2>2 DEF Look
<1>5. ASSUME D # {}, \A i \in D : payload[i].version >= scene[i].version
      PROVE  Told(payload) = Look(Merged(payload))
  <2>1. ASSUME NEW i \in Ids PROVE Told(payload)[i] = Merged(payload)[i].look
    <3>1. CASE i \notin D
      <4>1. i \notin Removed(payload) /\ i \notin Inserted(payload) \cup Updated(payload)
        BY <1>1, <1>5, <3>1 DEF Removed, Inserted, Updated
      <4> QED  BY <1>1, <1>2, <3>1, <4>1 DEF Told, Merged
    <3>2. CASE i \in D
      <4>1. Merged(payload)[i].look = payload[i].look
        BY <1>1, <1>2, <1>3, <1>5, <3>2 DEF Merged
      <4>2. i \in Removed(payload) => payload[i].look = Deleted
        BY <1>1, <1>5 DEF Removed
      <4>3. i \notin Removed(payload) \cup Inserted(payload) \cup Updated(payload)
               => payload[i].look = scene[i].look
        BY <1>1, <1>5, <3>2 DEF Removed, Inserted, Updated
      <4> QED  BY <1>2, <4>1, <4>2, <4>3 DEF Told
    <3> QED  BY <3>1, <3>2
  <2> QED  BY <2>1 DEF Look, Told
<1> QED  BY <1>4, <1>5

LEMMA LoadTells == ASSUME NEW content, Load(content) PROVE EventsTellTheScene'
BY DEF Load, EventsTellTheScene, Look

\* Telling is inductive.
LEMMA TellingStep == TypeOK /\ Telling /\ [Next]_vars => Telling'
<1> SUFFICES ASSUME TypeOK, Telling, [Next]_vars PROVE Telling'
  OBVIOUS
<1>0. OneStatePerVersion /\ EventsTellTheScene
  BY DEF Telling
<1>1. ASSUME NEW D \in SUBSET Ids, NEW payload \in Payloads(D), Broadcast(payload)
      PROVE  Telling'
  <2>1. /\ DOMAIN payload = D /\ \A i \in D : payload[i] \in Offers(i)
    BY BroadcastTyped
  <2>2. scene' = Merged(payload)
    BY <1>1 DEF Broadcast
  <2>3. OneStatePerVersion'
    <3>1. ASSUME NEW i \in Ids
          PROVE  /\ (\A p, q \in states[i] : p.version = q.version => p = q)'
                 /\ (\A p \in states[i] : p.version \in 1..MaxVersion
                                          /\ p.look \in Looks \cup {Deleted})'
                 /\ (scene[i] \in states[i] \cup {Absent})'
      <4>1. states'[i] = IF i \in D THEN states[i] \cup {payload[i]} ELSE states[i]
        BY <1>1, <2>1 DEF Broadcast
      <4>2. scene'[i] = scene[i] \/ (i \in D /\ scene'[i] = payload[i])
        BY <2>1, <2>2 DEF Merged
      <4>3. i \in D => /\ payload[i].version \in 1..MaxVersion
                       /\ payload[i].look \in Looks \cup {Deleted}
                       /\ \A y \in states[i] : y.version = payload[i].version => y = payload[i]
        BY <2>1 DEF Offers
      <4>4. /\ \A p, q \in states[i] : p.version = q.version => p = q
            /\ \A p \in states[i] : p.version \in 1..MaxVersion /\ p.look \in Looks \cup {Deleted}
            /\ scene[i] \in states[i] \cup {Absent}
        BY <1>0 DEF OneStatePerVersion
      <4> QED  BY <4>1, <4>2, <4>3, <4>4
    <3> QED  BY <3>1 DEF OneStatePerVersion
  <2>4. EventsTellTheScene'
    <3> SUFFICES ASSUME ~strayed' PROVE view' = Look(scene')
      BY DEF EventsTellTheScene, Look
    <3>1. CASE Changes(payload) = {}
      <4>1. view' = view /\ ~strayed
        BY <1>1, <3>1 DEF Broadcast
      <4>2. view = Look(scene)
        BY <1>0, <4>1 DEF EventsTellTheScene
      <4> QED  BY <1>0, <2>2, <3>1, <4>1, <4>2, FreshBroadcastIsTold
    <3>2. CASE Changes(payload) # {}
      <4>1. /\ view' = Told(payload)
            /\ ~strayed /\ D # {}
            /\ \A i \in D : ~(payload[i].version < scene[i].version)
        BY <1>1, <2>1, <3>2 DEF Broadcast
      <4>2. \A i \in D : payload[i].version >= scene[i].version
        <5>1. \A i \in D : payload[i].version \in Nat /\ scene[i].version \in Nat
          BY BroadcastTyped, EventsAssumption DEF TypeOK, State
        <5> QED  BY <4>1, <5>1
      <4>3. view = Look(scene)
        BY <1>0, <4>1 DEF EventsTellTheScene
      <4> QED  BY <1>0, <2>2, <4>1, <4>2, <4>3, FreshBroadcastIsTold
    <3> QED  BY <3>1, <3>2
  <2> QED  BY <2>3, <2>4 DEF Telling
<1>2. CASE UNCHANGED <<scene, states, view, strayed>>
  BY <1>0, <1>2 DEF Telling, OneStatePerVersion, EventsTellTheScene, Look
<1>3. ASSUME NEW b \in Bulks, BulkRejects(b) PROVE Telling'
  <2>1. PICK content \in [Ids -> {Absent} \cup UNION {states[i] : i \in Ids}] :
           /\ \A i \in Ids : content[i] \in states[i] \cup {Absent}
           /\ Load(content)
    BY <1>3 DEF BulkRejects
  <2>2. scene' = content /\ states' = states
    BY <2>1 DEF Load
  <2>3. OneStatePerVersion'
    BY <1>0, <2>1, <2>2 DEF OneStatePerVersion
  <2> QED  BY <2>1, <2>3, LoadTells DEF Telling
<1>4. CASE Reopen
  <2> DEFINE content == [i \in Ids |-> IF scene[i].look = Deleted THEN Absent ELSE scene[i]]
  <2>1. Load(content)
    BY <1>4 DEF Reopen
  <2>2. \A i \in Ids : content[i] \in states[i] \cup {Absent}
    BY <1>0 DEF OneStatePerVersion
  <2>3. scene' = content /\ states' = states
    BY <2>1 DEF Load
  <2> HIDE DEF content
  <2>4. OneStatePerVersion'
    BY <1>0, <2>2, <2>3 DEF OneStatePerVersion
  <2> QED  BY <2>1, <2>4, LoadTells DEF Telling
<1>5. (ThrottleFires \/ (\E b \in Bulks : BulkReturns(b)) \/ UNCHANGED vars)
         => UNCHANGED <<scene, states, view, strayed>>
  BY DEF ThrottleFires, BulkReturns, vars
<1> QED  BY <1>1, <1>2, <1>3, <1>4, <1>5 DEF Next

-----------------------------------------------------------------------------
(* The theorems.                                                            *)

LEMMA SendingInvariant == Spec => []Sending
BY SendingInit, SendingStep, PTL DEF Spec

\* The state of the events is well-formed: only events that exist are buffered or sent,
\* and a remembered call has its timer running (elasticsearch.service.ts:60-99).
THEOREM EventsAreWellFormed == Spec => []TypeOK
<1>1. Sending => TypeOK
  BY DEF Sending
<1> QED  BY <1>1, SendingInvariant, PTL

\* Whatever the requests' answers and the throttle interleave, an event that left the
\* buffer was sent, came during a request or died with the process.
THEOREM EventsAreSent == Spec => []SentUnlessCrowded
<1>1. Sending => SentUnlessCrowded
  BY DEF Sending
<1> QED  BY <1>1, SendingInvariant, PTL

\* A buffered event always has a call of the throttle or an answer to come.
THEOREM BufferStaysScheduled == Spec => []BufferedIsScheduled
<1>1. Sending => BufferedIsScheduled
  BY DEF Sending
<1> QED  BY <1>1, SendingInvariant, PTL

\* With no request under way, nothing that was sent is still in the buffer.
THEOREM EventsAreSentOnce == Spec => []SentOnceUnlessOverlapping
<1>1. Sending => SentOnceUnlessOverlapping
  BY DEF Sending
<1> QED  BY <1>1, SendingInvariant, PTL

\* For all elements, looks and interleavings of clients: who replays the events sees the
\* snapshot, unless one reported elements that the merge then found old, or none.
THEOREM EventsTell == Spec => []EventsTellTheScene
<1>1. Sending => TypeOK
  BY DEF Sending
<1>2. Telling => EventsTellTheScene
  BY DEF Telling
<1> QED  BY <1>1, <1>2, SendingInvariant, TellingInit, TellingStep, PTL DEF Spec

-----------------------------------------------------------------------------
(* The buffer drains.  Fairness is stated with the guards of the steps,     *)
(* which say the same as ENABLED: the throttle can fire unless it has to    *)
(* send and every slot is taken, and a request under way can be answered.   *)

Serves(guard, step) == []<>~guard \/ []<><<step>>_vars

CanFire ==
    /\ throttle.armed
    /\ throttle.pending /\ buffer # {} => \E b \in Bulks : bulks[b] = {}
IsOut(b) == bulks[b] # {}
Answered(b) == BulkReturns(b) \/ BulkRejects(b)

AnswersServed == \A b \in Bulks : Serves(IsOut(b), Answered(b))
SenderServed == Serves(CanFire, ThrottleFires) /\ AnswersServed

\* An event of the buffer, and a request whose answer will clear it.
Waits(n) == n \in buffer
WaitsFor(n, b) == n \in buffer /\ IsOut(b)

\* An answer clears the buffer, and nothing else ends a request.
LEMMA AnswersClear ==
    ASSUME NEW n, NEW b \in Bulks, Sending, [Next]_vars, WaitsFor(n, b)
    PROVE  /\ WaitsFor(n, b)' \/ ~Waits(n)'
           /\ Answered(b) => ~Waits(n)'
<1> USE DEF WaitsFor, Waits, IsOut
<1>1. \A c \in Bulks : BulkReturns(c) \/ BulkRejects(c) => buffer' = {}
  BY DEF BulkReturns, Left, BulkRejects
<1>2. ASSUME NEW content, Send(content) PROVE bulks'[b] # {}
  BY <1>2 DEF Send, Sending, TypeOK
<1>3. ASSUME NEW content, Call(content) PROVE bulks'[b] # {}
  BY <1>2, <1>3 DEF Call
<1>4. ASSUME NEW D \in SUBSET Ids, NEW payload \in Payloads(D), Broadcast(payload)
      PROVE  bulks'[b] # {}
  BY <1>3, <1>4 DEF Broadcast
<1>5. ThrottleFires => bulks'[b] # {}
  BY <1>2 DEF ThrottleFires
<1>6. Reopen \/ UNCHANGED vars => bulks'[b] # {}
  BY DEF Reopen, vars
<1>7. bulks'[b] # {} \/ buffer' = {}
  BY <1>1, <1>4, <1>5, <1>6 DEF Next
<1> QED  BY <1>1, <1>7 DEF Answered

\* With no request under way a buffered event waits for the throttle, which sends it.
LEMMA ThrottleSends ==
    ASSUME NEW n, Sending, [Next]_vars, Waits(n), ~UnderWay, Bulks # {}
    PROVE  CanFire /\ (ThrottleFires => UnderWay')
<1> USE DEF Waits
<1>1. throttle.pending /\ throttle.armed
  BY DEF Sending, TypeOK, BufferedIsScheduled
<1>2. CanFire
  BY <1>1 DEF CanFire, UnderWay
<1>3. ThrottleFires => UnderWay'
  BY <1>1, SendEffect DEF ThrottleFires, Sending, TypeOK
<1> QED  BY <1>2, <1>3

\* While a request of any slot is out, a buffered event leaves.
LEMMA WaitersLeave ==
    ASSUME NEW n \in 1..MaxEvents
    PROVE  Spec /\ AnswersServed => [](Waits(n) /\ UnderWay => <>~Waits(n))
<1> DEFINE Out(b) == WaitsFor(n, b)
           Free(b) == ~Waits(n)
<1>1. ASSUME NEW b \in Bulks
      PROVE  Spec /\ AnswersServed => [](Out(b) => <>Free(b))
  <2> DEFINE O == WaitsFor(n, b)
             F == ~Waits(n)
             I == IsOut(b)
             A == Answered(b)
  <2>1. AnswersServed => Serves(I, A)
    BY DEF AnswersServed
  <2>2. Sending /\ O /\ [Next]_vars => (O' \/ F') /\ (A => F')
    BY AnswersClear
  <2>3. O => I
    BY DEF WaitsFor
  <2> HIDE DEF O, F, I, A
  <2>4. Spec /\ AnswersServed => [](O => <>F)
    BY <2>1, <2>2, <2>3, SendingInvariant, PTL DEF Spec, Serves
  <2> QED  BY <2>4 DEF O, F
<1> HIDE DEF Out, Free
<1>2. Spec /\ AnswersServed => \A b \in Bulks : [](Out(b) => <>Free(b))
  BY <1>1
<1>3. (\A b \in Bulks : [](Out(b) => <>Free(b))) => [](\A b \in Bulks : Out(b) => <>Free(b))
  OBVIOUS
<1>4. (\A b \in Bulks : Out(b) => <>Free(b)) => (Waits(n) /\ UnderWay => <>~Waits(n))
  <2>1. Waits(n) /\ UnderWay => \E b \in Bulks : Out(b)
    BY DEF Waits, UnderWay, Out, WaitsFor, IsOut
  <2> QED  BY <2>1 DEF Free
<1> QED  BY <1>2, <1>3, <1>4, PTL

\* Every event leaves the buffer, whatever the answers and however many others come:
\* the throttle sends it, or an answer that was due clears it.
THEOREM BufferIsDrained == Bulks # {} => (Spec /\ SenderServed => BufferDrains)
<1> SUFFICES ASSUME Bulks # {}, NEW n \in 1..MaxEvents
             PROVE  Spec /\ SenderServed => (n \in buffer ~> n \notin buffer)
  BY DEF BufferDrains
<1> DEFINE B == Waits(n)
           U == UnderWay
<1>1. Sending /\ [Next]_vars /\ B /\ ~U => CanFire /\ (ThrottleFires => U')
  BY ThrottleSends
<1>2. Spec /\ SenderServed => [](B /\ U => <>~B)
  BY WaitersLeave DEF SenderServed
<1> HIDE DEF B, U
<1>3. Spec /\ SenderServed => (B ~> ~B)
  BY <1>1, <1>2, SendingInvariant, PTL DEF Spec, SenderServed, Serves
<1>4. (B <=> n \in buffer) /\ (~B <=> n \notin buffer)
  BY DEF B, Waits
<1> QED  BY <1>3, <1>4, PTL
=============================================================================
