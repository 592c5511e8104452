------------------------- MODULE CollaboratorSession -------------------------
(***************************************************************************)
(* Who may draw in a room: a socket is authorised when it joins, becomes a *)
(* collaborator while the room's limit allows it, is made view-only by     *)
(* inactivity, and is re-checked on an interval until it disconnects.      *)
(* The questions to the integration service (INFO) and to the socket.io    *)
(* adapter and the load of the snapshot suspend the handlers; anything may *)
(* happen meanwhile, and an answer may be old when it is used.             *)
(*                                                                         *)
(* With the in-memory adapter only what runs in the same turn of the event *)
(* loop, such as another answer of the same AMQP chunk, fits into a wait   *)
(* for the adapter; here any handler does.                                 *)
(*                                                                         *)
(* When the inactivity timer fires depends on the debounce modelled in     *)
(* InactivityTimer; here it may fire at any time.                          *)
(***************************************************************************)
EXTENDS Naturals, FiniteSets

CONSTANTS
    Sockets,
    Limit,    \* the maxCollaborators of the room
    Rejoins   \* whether a client sends JOIN_ROOM again in a room it is in

ASSUME SessionAssumption ==
    /\ IsFiniteSet(Sockets)
    /\ Limit \in Nat
    /\ Rejoins \in BOOLEAN

VARIABLES
    open,          \* the connected sockets
    members,       \* the sockets in the room
    join,          \* the JOIN_ROOM handler of each socket: what it waits for, or the answer
    found,         \* the sockets each join found in the room when it last counted them
    collaborator,  \* the sockets with socket.data.collaborator
    listens,       \* the sockets with a SERVER_BROADCAST listener
    mode,          \* the last COLLABORATOR_MODE event each client got
    timed,         \* collaboratorInactivityTrackers.has(socket.id)
    watched,       \* permissionCheckTrackers.has(socket.id)
    check,         \* the INFO request of each permission check, or its answer
    access,        \* what the server would answer about each user (external)
    shown,         \* the last ROOM_USER_CHANGE list each member got
    expelled       \* history: the members put out with an error since that list

presence == <<shown, expelled>>

vars == <<open, members, join, found, collaborator, listens, mode, timed, watched,
          check, access, shown, expelled>>

Access == {"none", "read", "update"}

\* A join that may go on has counted who is in the room, has joined it, has sent
\* the list of who is there and loads the snapshot.
Phases == {"idle", "asked", "canRead", "canUpdate", "joined", "loading"} \cup Access

Init ==
    /\ open = Sockets
    /\ members = {}
    /\ join = [s \in Sockets |-> "idle"]
    /\ found = [s \in Sockets |-> {}]
    /\ collaborator = {}
    /\ listens = {}
    /\ mode = [s \in Sockets |-> "unknown"]
    /\ timed = {}
    /\ watched = {}
    /\ check = [s \in Sockets |-> "idle"]
    /\ access \in [Sockets -> Access]
    /\ shown = [s \in Sockets |-> {}]
    /\ expelled = {}

\* What info() returns: the access at that moment, or no access when it fails.
InfoOutcomes(s) == {access[s], "none"}

\* A COLLABORATOR_MODE event reaches only a connected client.
Notify(s, m) == mode' = IF s \in open THEN [mode EXCEPT ![s] = m] ELSE mode

\* ROOM_USER_CHANGE: who is in the room goes to all who are.
ListBefore(room) == members  \* mutant: the room before the change is listed
ListFor(room) == room
Announce(room) ==
    /\ shown' = [s \in Sockets |-> IF s \in room THEN ListFor(room) ELSE {}]
    /\ expelled' = {}

\* closeConnectionWithError: the listeners go first, so that no DISCONNECT
\* handler deletes the trackers, and no DISCONNECTING handler tells the others.
CloseWithError(s) ==
    /\ open' = open \ {s}
    /\ members' = members \ {s}
    /\ listens' = listens \ {s}
    /\ shown' = [shown EXCEPT ![s] = {}]
    /\ expelled' = expelled \cup ({s} \cap members)

-----------------------------------------------------------------------------
(* JOIN_ROOM.                                                               *)

JoinRoom(s) ==
    /\ s \in open /\ join[s] = "idle"
    /\ Rejoins \/ s \notin members
    /\ join' = [join EXCEPT ![s] = "asked"]
    /\ UNCHANGED <<open, members, found, collaborator, listens, mode, timed, watched,
                   check, access, presence>>

JoinAnswered(s) ==
    /\ join[s] = "asked"
    /\ \E a \in InfoOutcomes(s) : join' = [join EXCEPT ![s] = a]
    /\ UNCHANGED <<open, members, found, collaborator, listens, mode, timed, watched,
                   check, access, presence>>

\* Trackers and listener of a socket whose join is through.  A collaborator may
\* already have a tracker; it then keeps that one.
AttachUnwatchedViewer(s, writes) ==  \* mutant: only collaborators are re-checked
    /\ watched' = IF writes THEN watched \cup {s} ELSE watched
    /\ listens' = IF writes THEN listens \cup {s} ELSE listens
    /\ timed' = IF writes THEN timed \cup {s} ELSE timed
Attach(s, writes) ==
    /\ watched' = watched \cup {s}
    /\ listens' = IF writes THEN listens \cup {s} ELSE listens
    /\ timed' = IF writes THEN timed \cup {s} ELSE timed

\* fetchSockets lists the room when it is called ...
CountOccupants(s) ==
    /\ join[s] \in {"read", "update"}
    /\ found' = [found EXCEPT ![s] = members]
    /\ join' = [join EXCEPT ![s] = IF join[s] = "update" THEN "canUpdate" ELSE "canRead"]
    /\ UNCHANGED <<open, members, collaborator, listens, mode, timed, watched,
                   check, access, presence>>

\* ... and which of them are collaborators is seen when the list arrives.
OccupantsListening(s) == found[s] \cap listens  \* mutant: who is loading does not count
Occupants(s) == found[s] \cap collaborator

\* socket.join does nothing for a socket that is gone.
JoinedAnyway(s) == members \cup {s}  \* mutant: a socket that is gone joins
Joined(s) == members \cup ({s} \cap open)

\* The list is there: the socket becomes a collaborator or a viewer, is told so and
\* joins the room unless it is gone.
Admit(s) ==
    LET writes == join[s] = "canUpdate" /\ Cardinality(Occupants(s)) < Limit IN
    /\ join[s] \in {"canRead", "canUpdate"}
    /\ join' = [join EXCEPT ![s] = "joined"]
    /\ collaborator' = IF writes THEN collaborator \cup {s} ELSE collaborator \ {s}
    /\ Notify(s, IF writes THEN "write" ELSE "read")
    /\ members' = Joined(s)
    /\ UNCHANGED <<open, found, listens, timed, watched, check, access, presence>>

\* The room is listed again and the list is sent.  The lists arrive in the order
\* they were asked for, so the last one sent is the last one taken: one step.
ListUsers(s) ==
    /\ join[s] = "joined"
    /\ join' = [join EXCEPT ![s] = "loading"]
    /\ Announce(members)
    /\ UNCHANGED <<open, members, found, collaborator, listens, mode, timed, watched,
                   check, access>>

Refuse(s) ==
    /\ join[s] = "none"
    /\ join' = [join EXCEPT ![s] = "idle"]
    /\ CloseWithError(s)
    /\ UNCHANGED <<found, collaborator, mode, timed, watched, check, access>>

\* The load is over; the handler does not look whether the socket is still there.
Loaded(s) ==
    /\ join[s] = "loading"
    /\ join' = [join EXCEPT ![s] = "idle"]
    /\ Attach(s, s \in collaborator)
    /\ UNCHANGED <<open, members, found, collaborator, mode, check, access, presence>>

-----------------------------------------------------------------------------
(* Inactivity, permission checks, disconnection.                            *)

\* The user stays a collaborator for the limit.
InactivityFires(s) ==
    /\ s \in timed
    /\ Notify(s, "read")
    /\ listens' = listens \ {s}
    /\ timed' = timed \ {s}
    /\ UNCHANGED <<open, members, join, found, collaborator, watched, check, access, presence>>

\* The interval of a tracker ticks; it is not disabled (permission_check_interval > 0).
\* A check that takes longer delays the next.
PermissionTickOfWriters(s) ==  \* mutant: view-only sockets are not re-checked
    /\ s \in watched \cap listens /\ check[s] = "idle"
    /\ check' = [check EXCEPT ![s] = "asked"]
    /\ UNCHANGED <<open, members, join, found, collaborator, listens, mode, timed,
                   watched, access, presence>>
PermissionTick(s) ==
    /\ s \in watched /\ check[s] = "idle"
    /\ check' = [check EXCEPT ![s] = "asked"]
    /\ UNCHANGED <<open, members, join, found, collaborator, listens, mode, timed,
                   watched, access, presence>>

CheckAnswered(s) ==
    /\ check[s] = "asked"
    /\ \E a \in InfoOutcomes(s) : check' = [check EXCEPT ![s] = a]
    /\ UNCHANGED <<open, members, join, found, collaborator, listens, mode, timed,
                   watched, access, presence>>

\* Read access was revoked.
CheckCloses(s) ==
    /\ check[s] = "none"
    /\ check' = [check EXCEPT ![s] = "idle"]
    /\ watched' = watched \ {s}
    /\ CloseWithError(s)
    /\ UNCHANGED <<join, found, collaborator, mode, timed, access>>

\* Update access was revoked from a collaborator.
CheckSilences(s) ==  \* mutant: the listener stays
    /\ check[s] = "read" /\ s \in collaborator
    /\ check' = [check EXCEPT ![s] = "idle"]
    /\ collaborator' = collaborator \ {s}
    /\ timed' = timed \ {s}
    /\ Notify(s, "read")
    /\ UNCHANGED <<open, members, join, found, listens, watched, access, presence>>
CheckDowngrades(s) ==
    /\ check[s] = "read" /\ s \in collaborator
    /\ check' = [check EXCEPT ![s] = "idle"]
    /\ collaborator' = collaborator \ {s}
    /\ listens' = listens \ {s}
    /\ timed' = timed \ {s}
    /\ Notify(s, "read")
    /\ UNCHANGED <<open, members, join, found, watched, access, presence>>

\* Nothing to do; update access that was granted meanwhile is not given.
CheckKeeps(s) ==
    /\ check[s] = "update" \/ (check[s] = "read" /\ s \notin collaborator)
    /\ check' = [check EXCEPT ![s] = "idle"]
    /\ UNCHANGED <<open, members, join, found, collaborator, listens, mode, timed,
                   watched, access, presence>>

\* DISCONNECTING tells the rest of the room; DISCONNECT deletes the trackers that
\* exist by now.
Disconnect(s) ==
    /\ s \in open
    /\ open' = open \ {s}
    /\ members' = members \ {s}
    /\ listens' = listens \ {s}
    /\ timed' = timed \ {s}
    /\ watched' = watched \ {s}
    /\ IF s \in members THEN Announce(members') ELSE UNCHANGED presence
    /\ UNCHANGED <<join, found, collaborator, mode, check, access>>

\* The platform grants or revokes access (external).
AccessChanges(s) ==
    /\ \E a \in Access : access' = [access EXCEPT ![s] = a]
    /\ UNCHANGED <<open, members, join, found, collaborator, listens, mode, timed,
                   watched, check, presence>>

-----------------------------------------------------------------------------
JoinStep(s) ==
    \/ JoinAnswered(s) \/ CountOccupants(s) \/ Admit(s) \/ ListUsers(s)
    \/ Refuse(s) \/ Loaded(s)
CheckStep(s) ==
    CheckAnswered(s) \/ CheckCloses(s) \/ CheckDowngrades(s) \/ CheckKeeps(s)

Next ==
    \E s \in Sockets :
        \/ JoinRoom(s) \/ JoinStep(s)
        \/ InactivityFires(s)
        \/ PermissionTick(s) \/ CheckStep(s)
        \/ Disconnect(s) \/ AccessChanges(s)

Spec == Init /\ [][Next]_vars

\* Requests return and timers fire; nobody has to join, leave or be inactive.
Fairness ==
    \A s \in Sockets :
        WF_vars(JoinStep(s)) /\ WF_vars(PermissionTick(s)) /\ WF_vars(CheckStep(s))

FairSpec == Spec /\ Fairness

-----------------------------------------------------------------------------
(* Properties.                                                              *)

TypeOK ==
    /\ members \subseteq open /\ open \subseteq Sockets
    /\ join \in [Sockets -> Phases]
    /\ found \in [Sockets -> SUBSET Sockets]
    /\ collaborator \subseteq Sockets
    /\ listens \subseteq Sockets
    /\ mode \in [Sockets -> {"unknown", "read", "write"}]
    /\ timed \subseteq Sockets
    /\ watched \subseteq Sockets
    /\ check \in [Sockets -> {"idle", "asked"} \cup Access]
    /\ access \in [Sockets -> Access]
    /\ shown \in [Sockets -> SUBSET Sockets]
    /\ expelled \subseteq Sockets

\* Of the collaborators a collaborator found when it counted, fewer than the limit are
\* left, however joins, loads, downgrades and disconnections interleave, if clients join
\* once: whoever is beyond the limit counted before the others joined (handlers.ts:65-83).
WritersFoundAPlace ==
    ~Rejoins => \A s \in members \cap collaborator :
                   Cardinality(found[s] \cap members \cap collaborator) < Limit

\* Whoever can draw has an inactivity timer running that will take the right away
\* (server.ts:310-311, 479-550, 635-637).
WriterIsTimed == listens \subseteq timed

\* A member whose join is through is re-checked until it leaves, view-only or not,
\* so that no access outlives its revocation unseen (server.ts:308, 570-607).
MemberIsWatched == \A s \in members : join[s] = "idle" => s \in watched

\* A client that joins once was told what it can do: "write" exactly while the server
\* listens to its broadcasts (handlers.ts:91, server.ts:310-346, 486-490, 635-641).
ModeIsHonest ==
    ~Rejoins => \A s \in members :
                   join[s] = "idle" => (mode[s] = "write" <=> s \in listens)

\* Once every join has sent its list, each member was shown exactly who is in the room
\* and who was put out with an error since the last list: joins that finish late, answers
\* for sockets that are gone and overlapping disconnections leave no list that is not
\* (handlers.ts:109-118, 179-189, util.ts:10-17).
PresenceUnlessExpelled ==
    (\A s \in Sockets : join[s] # "joined") =>
        \A s \in members : shown[s] = members \cup expelled

\* A user whose read access is gone for good is put out of the room, whatever answer
\* was under way at the time, and is not re-checked for ever, although a join may start
\* the interval of a socket that is gone (server.ts:308, 570-607, 609-628).
RevokedIsOut ==
    \A s \in Sockets : <>[](access[s] = "none") => <>[](s \notin members \cup watched)

\* A user whose update access is gone for good stops drawing (server.ts:630-642).
RevokedStopsWriting ==
    \A s \in Sockets : <>[](access[s] # "update") => <>[](s \notin members \cap listens)

\* The comment in the join handler (handlers.ts:82): a user cannot update if the limit
\* was reached.  The room never has more collaborators than its limit ...
LimitHolds == Cardinality(members \cap collaborator) <= Limit

\* ... and a user who is not a collaborator because of it cannot draw.
RefusedCannotWrite ==
    \A s \in members :
        join[s] = "idle" /\ access[s] = "update" /\ s \notin collaborator => s \notin listens
=============================================================================
