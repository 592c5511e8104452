----------------------------- MODULE ChangeEvents -----------------------------
(***************************************************************************)
(* The change events of whiteboards: every broadcast is compared with the  *)
(* snapshot, a difference becomes an event in one buffer of the process,   *)
(* and a throttled function sends the buffer to Elasticsearch.  The mode   *)
(* of the events is not "none" and a client is configured.                 *)
(*                                                                         *)
(* An element has a version, its place in the order in which               *)
(* SceneReconcile's states supersede each other, and a look, which stands  *)
(* for every field that is compared.  The events of one room are followed; *)
(* those of other rooms are further events of the same buffer.             *)
(***************************************************************************)
EXTENDS Naturals, FiniteSets

CONSTANTS
    Ids,         \* of elements
    Looks,       \* of elements that are not deleted
    Bulks,       \* bound: bulk requests under way at one time
    MaxVersion,  \* bound: versions of an element
    MaxEvents,   \* bound: events
    Deleted, Nothing

ASSUME EventsAssumption ==
    /\ MaxVersion \in Nat \ {0} /\ MaxEvents \in Nat
    /\ {Deleted, Nothing} \cap Looks = {} /\ Deleted # Nothing

VARIABLES
    scene,    \* the snapshot: the state of each element
    states,   \* history: the states of each element that clients have
    view,     \* history: the looks that the events tell
    strayed,  \* history: an event was of an old state, or of no elements
    events,   \* the number of events so far
    buffer,   \* dataToSend
    bulks,    \* the bulk requests under way, with their events
    throttle, \* of sendBufferedEventData
    sent,     \* history: the events that were in a bulk request
    excused   \* history: the events lost with a process or pushed during a bulk

vars == <<scene, states, view, strayed, events, buffer, bulks, throttle, sent, excused>>

Absent == [version |-> 0, look |-> Nothing]
State == [version : 0..MaxVersion, look : Looks \cup {Deleted, Nothing}]
Look(content) == [i \in Ids |-> content[i].look]
Known == {i \in Ids : scene[i].version > 0}
UnderWay == \E b \in Bulks : bulks[b] # {}
Idle == [armed |-> FALSE, pending |-> FALSE]

Init ==
    /\ scene \in [Ids -> {Absent} \cup [version : {1}, look : Looks]]
    /\ states = [i \in Ids |-> {scene[i]} \ {Absent}]
    /\ view = Look(scene)
    /\ strayed = FALSE
    /\ events = 0
    /\ buffer = {}
    /\ bulks = [b \in Bulks |-> {}]
    /\ throttle = Idle
    /\ sent = {}
    /\ excused = {}

-----------------------------------------------------------------------------
(* What a broadcast of some elements is reported as, and what it changes.   *)

\* detectChanges: the ids it calls inserted, updated and deleted.
Inserted(payload) == DOMAIN payload \ Known
UpdatedIfShown(payload) ==  \* mutant: an element that comes back is not an update
    {i \in DOMAIN payload \cap Known :
        Deleted \notin {payload[i].look, scene[i].look} /\ payload[i].look # scene[i].look}
Updated(payload) ==
    {i \in DOMAIN payload \cap Known :
        payload[i].look # Deleted /\ payload[i].look # scene[i].look}
Removed(payload) ==
    IF DOMAIN payload = {} THEN Known
      ELSE {i \in DOMAIN payload \cap Known :
               payload[i].look = Deleted /\ scene[i].look # Deleted}
Changes(payload) == Inserted(payload) \cup Updated(payload) \cup Removed(payload)

\* The looks after the event, for who reads the events.
Told(payload) ==
    [i \in Ids |-> IF i \in Removed(payload) THEN Deleted
                   ELSE IF i \in Inserted(payload) \cup Updated(payload)
                     THEN payload[i].look
                   ELSE view[i]]

\* The merge keeps the newer state of every element.
Merged(payload) ==
    [i \in Ids |-> IF i \in DOMAIN payload /\ payload[i].version > scene[i].version
                     THEN payload[i] ELSE scene[i]]

\* The states a client may send of an element: a version is one state.
Offers(i) ==
    {x \in [version : 1..MaxVersion, look : Looks \cup {Deleted}] :
        \A y \in states[i] : y.version = x.version => y = x}

\* A client sends some elements, new ones, changed ones or old states of them.
Payloads(D) == {p \in [D -> UNION {Offers(i) : i \in D}] : \A i \in D : p[i] \in Offers(i)}

-----------------------------------------------------------------------------
(* The throttled sender: a lodash throttle that fires at both edges.        *)

\* sendBufferedEventData until its await: a copy of the buffer goes out.  Of an
\* empty buffer nothing is sent.
SendNewest(content) ==  \* mutant: one document of the buffer goes out
    IF content = {} THEN UNCHANGED <<bulks, sent>>
    ELSE \E b \in Bulks :
           /\ bulks[b] = {}
           /\ bulks' = [bulks EXCEPT ![b] = {events}]
           /\ sent' = sent \cup {events}
Send(content) ==
    IF content = {} THEN UNCHANGED <<bulks, sent>>
    ELSE \E b \in Bulks :
           /\ bulks[b] = {}
           /\ bulks' = [bulks EXCEPT ![b] = content]
           /\ sent' = sent \cup content

\* A call of the throttled function: at the leading edge, or when its timer is
\* overdue, it sends; else the call is remembered.
CallUnarmed(content) ==  \* mutant: the timer is not started
    \/ throttle' = [armed |-> TRUE, pending |-> FALSE] /\ Send(content)
    \/ throttle' = [armed |-> FALSE, pending |-> TRUE] /\ UNCHANGED <<bulks, sent>>
CallForgotten(content) ==  \* mutant: no trailing edge
    \/ throttle' = [armed |-> TRUE, pending |-> FALSE] /\ Send(content)
    \/ throttle' = [armed |-> TRUE, pending |-> FALSE] /\ UNCHANGED <<bulks, sent>>
Call(content) ==
    \/ throttle' = [armed |-> TRUE, pending |-> FALSE] /\ Send(content)
    \/ throttle' = [armed |-> TRUE, pending |-> TRUE] /\ UNCHANGED <<bulks, sent>>

ThrottleFires ==
    /\ throttle.armed
    /\ throttle' = Idle
    /\ IF throttle.pending THEN Send(buffer) ELSE UNCHANGED <<bulks, sent>>
    /\ UNCHANGED <<scene, states, view, strayed, events, buffer, excused>>

\* SERVER_BROADCAST: report the changes, then merge.
Broadcast(payload) ==
    /\ scene' = Merged(payload)
    /\ states' = [i \in Ids |-> IF i \in DOMAIN payload THEN states[i] \cup {payload[i]}
                                ELSE states[i]]
    /\ IF Changes(payload) = {}
         THEN UNCHANGED <<view, strayed, events, buffer, bulks, throttle, sent, excused>>
         ELSE /\ events < MaxEvents
              /\ events' = events + 1
              /\ buffer' = buffer \cup {events'}
              /\ view' = Told(payload)
              /\ strayed' = (strayed \/ DOMAIN payload = {}
                    \/ \E i \in DOMAIN payload : payload[i].version < scene[i].version)
              /\ Call(buffer')
              /\ excused' = IF UnderWay THEN excused \cup {events'} ELSE excused

\* The answer, with or without errors: the buffer is cleared, whatever it holds.
Kept(b) == buffer  \* mutant: the documents stay in the buffer
Left(b) == {}
BulkReturns(b) ==
    /\ bulks[b] # {}
    /\ bulks' = [bulks EXCEPT ![b] = {}]
    /\ buffer' = Left(b)
    /\ UNCHANGED <<scene, states, view, strayed, events, throttle, sent, excused>>

\* The snapshot is loaded as it was saved; who reads the events starts from there.
Load(content) ==
    /\ scene' = content
    /\ view' = Look(content)
    /\ strayed' = FALSE
    /\ UNCHANGED <<states, events, sent>>

\* The request failed: nobody catches the rejection and the process restarts.
BulkRejects(b) ==
    /\ bulks[b] # {}
    /\ bulks' = [c \in Bulks |-> {}]
    /\ buffer' = {}
    /\ throttle' = Idle
    /\ excused' = excused \cup buffer
    /\ \E content \in [Ids -> {Absent} \cup UNION {states[i] : i \in Ids}] :
          /\ \A i \in Ids : content[i] \in states[i] \cup {Absent}
          /\ Load(content)

\* Everybody left, and somebody comes: the deleted elements are gone.
Reopen ==
    /\ Load([i \in Ids |-> IF scene[i].look = Deleted THEN Absent ELSE scene[i]])
    /\ UNCHANGED <<buffer, bulks, throttle, excused>>

Next ==
    \/ \E D \in SUBSET Ids : \E payload \in Payloads(D) : Broadcast(payload)
    \/ ThrottleFires
    \/ \E b \in Bulks : BulkReturns(b) \/ BulkRejects(b)
    \/ Reopen

Spec == Init /\ [][Next]_vars

\* The timer fires and requests return; nobody has to draw.
Fairness ==
    /\ WF_vars(ThrottleFires)
    /\ \A b \in Bulks : WF_vars(BulkReturns(b) \/ BulkRejects(b))

FairSpec == Spec /\ Fairness

-----------------------------------------------------------------------------
(* Properties.                                                              *)

TypeOK ==
    /\ scene \in [Ids -> State]
    /\ states \in [Ids -> SUBSET State]
    /\ view \in [Ids -> Looks \cup {Deleted, Nothing}]
    /\ strayed \in BOOLEAN
    /\ events \in 0..MaxEvents
    /\ buffer \subseteq 1..events
    /\ bulks \in [Bulks -> SUBSET sent]
    /\ throttle \in [armed : BOOLEAN, pending : BOOLEAN]
    /\ throttle.pending => throttle.armed
    /\ sent \subseteq 1..events
    /\ excused \subseteq 1..events

\* The events tell what happened to the whiteboard: replayed on what was loaded, they
\* show the snapshot, unless one reported elements that the merge then found old, or
\* none at all (util.service.ts:95-116, detect.changes.ts:39-120, server.ts:331-343).
EventsTellTheScene == ~strayed => view = Look(scene)

\* An event that left the buffer was sent, unless it came while a bulk request was under
\* way or the process died (elasticsearch.service.ts:82-99).
SentUnlessCrowded == 1..events \subseteq buffer \cup sent \cup excused

\* No event waits in the buffer with nobody to send it: the throttle has a call to make,
\* or an answer will clear the buffer (elasticsearch.service.ts:93, 96-99).
BufferedIsScheduled == buffer # {} => throttle.pending \/ UnderWay

\* Only bulk requests that overlap send an event twice (elasticsearch.service.ts:96-99).
SentOnceUnlessOverlapping == ~UnderWay => buffer \cap sent = {}

\* Every event leaves the buffer, also when others keep coming.
BufferDrains == \A n \in 1..MaxEvents : n \in buffer ~> n \notin buffer
=============================================================================
