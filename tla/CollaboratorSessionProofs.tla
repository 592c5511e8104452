----------------------- MODULE CollaboratorSessionProofs -----------------------
(***************************************************************************)
(* Proofs about CollaboratorSession for every set of sockets and every     *)
(* limit.  Watching is the inductive strengthening of MemberIsWatched and  *)
(* Honest that of ModeIsHonest.                                            *)
(***************************************************************************)
EXTENDS CollaboratorSession, FiniteSetTheorems, TLAPS

\* A member that is not watched is still in its first join.
Watching == \A s \in members : s \notin watched => join[s] \in {"joined", "loading"}

\* What a client that joins once is told, and what it can do, in each phase.
Honest ==
    ~Rejoins => \A s \in open :
        /\ s \notin members => join[s] \notin {"joined", "loading"} /\ s \notin timed
        /\ s \in members => join[s] \in {"idle", "joined", "loading"}
        /\ s \in members /\ join[s] = "idle" => (mode[s] = "write" <=> s \in listens)
        /\ s \in members /\ join[s] \in {"joined", "loading"} =>
              /\ s \notin timed
              /\ mode[s] = "write" <=> s \in collaborator

\* Access rights, their trackers and what clients were told belong together.
Session == TypeOK /\ WriterIsTimed /\ Watching /\ Honest

LEMMA SessionInit == Init => Session
BY DEF Init, Session, TypeOK, WriterIsTimed, Watching, Honest, Access, Phases

\* Session is inductive.
LEMMA SessionStep == Session /\ [Next]_vars => Session'
<1> SUFFICES ASSUME Session, [Next]_vars PROVE Session'
  OBVIOUS
<1> USE DEF Session, TypeOK, WriterIsTimed, Watching, Honest, Access, Phases, presence
<1>1. ASSUME NEW s \in Sockets, JoinRoom(s) PROVE Session'
  BY <1>1 DEF JoinRoom
<1>2. ASSUME NEW s \in Sockets, JoinAnswered(s) PROVE Session'
  BY <1>2 DEF JoinAnswered, InfoOutcomes
<1>3. ASSUME NEW s \in Sockets, CountOccupants(s) PROVE Session'
  BY <1>3 DEF CountOccupants
<1>4. ASSUME NEW s \in Sockets, Admit(s) PROVE Session'
  <2> DEFINE writes == join[s] = "canUpdate" /\ Cardinality(Occupants(s)) < Limit
  <2>0. /\ join[s] \in {"canRead", "canUpdate"}
        /\ join' = [join EXCEPT ![s] = "joined"]
        /\ collaborator' = IF writes THEN collaborator \cup {s} ELSE collaborator \ {s}
        /\ mode' = IF s \in open THEN [mode EXCEPT ![s] = IF writes THEN "write" ELSE "read"]
                                 ELSE mode
        /\ members' = members \cup ({s} \cap open)
        /\ UNCHANGED <<open, found, listens, timed, watched, check, access, presence>>
    BY <1>4 DEF Admit, Notify, Joined
  <2> HIDE DEF writes
  <2>1. TypeOK' /\ WriterIsTimed' /\ Watching'
    BY <2>0
  <2>2. Honest'
    BY <2>0
  <2> QED  BY <2>1, <2>2
<1>5. ASSUME NEW s \in Sockets, ListUsers(s) PROVE Session'
  BY <1>5 DEF ListUsers, Announce, ListFor
<1>6. ASSUME NEW s \in Sockets, Refuse(s) PROVE Session'
  BY <1>6 DEF Refuse, CloseWithError
<1>7. ASSUME NEW s \in Sockets, Loaded(s) PROVE Session'
  BY <1>7 DEF Loaded, Attach
<1>8. ASSUME NEW s \in Sockets, InactivityFires(s) PROVE Session'
  BY <1>8 DEF InactivityFires, Notify
<1>9. ASSUME NEW s \in Sockets, PermissionTick(s) PROVE Session'
  BY <1>9 DEF PermissionTick
<1>10. ASSUME NEW s \in Sockets, CheckAnswered(s) PROVE Session'
  BY <1>10 DEF CheckAnswered, InfoOutcomes
<1>11. ASSUME NEW s \in Sockets, CheckCloses(s) PROVE Session'
  BY <1>11 DEF CheckCloses, CloseWithError
<1>12. ASSUME NEW s \in Sockets, CheckDowngrades(s) PROVE Session'
  BY <1>12 DEF CheckDowngrades, Notify
<1>13. ASSUME NEW s \in Sockets, CheckKeeps(s) PROVE Session'
  BY <1>13 DEF CheckKeeps
<1>14. ASSUME NEW s \in Sockets, Disconnect(s) PROVE Session'
  BY <1>14 DEF Disconnect, Announce, ListFor
<1>15. ASSUME NEW s \in Sockets, AccessChanges(s) PROVE Session'
  BY <1>15 DEF AccessChanges
<1>16. CASE UNCHANGED vars
  BY <1>16 DEF vars
<1> HIDE DEF Session
<1> QED
  BY <1>1, <1>2, <1>3, <1>4, <1>5, <1>6, <1>7, <1>8, <1>9, <1>10, <1>11, <1>12,
     <1>13, <1>14, <1>15, <1>16 DEF Next, JoinStep, CheckStep

\* Session holds in every state.
LEMMA SessionInvariant == Spec => []Session
BY SessionInit, SessionStep, PTL DEF Spec

\* The maps and sets keep their types, and only connected sockets are members.
THEOREM SessionIsWellFormed == Spec => []TypeOK
<1>1. Session => TypeOK  BY DEF Session
<1> QED  BY <1>1, SessionInvariant, PTL

\* Whoever can draw has an inactivity timer running.
THEOREM WritersAreTimed == Spec => []WriterIsTimed
<1>1. Session => WriterIsTimed  BY DEF Session
<1> QED  BY <1>1, SessionInvariant, PTL

\* Every member is re-checked once its join is through.
THEOREM MembersAreWatched == Spec => []MemberIsWatched
<1>1. Session => MemberIsWatched  BY DEF Session, Watching, MemberIsWatched
<1> QED  BY <1>1, SessionInvariant, PTL

\* What a client that joins once was told is what it can do.
THEOREM ModesAreHonest == Spec => []ModeIsHonest
<1>1. Session => ModeIsHonest  BY DEF Session, TypeOK, Honest, ModeIsHonest
<1> QED  BY <1>1, SessionInvariant, PTL

-----------------------------------------------------------------------------
(* Who the members are shown.                                               *)

LEMMA PresenceStep ==
    Session /\ PresenceUnlessExpelled /\ [Next]_vars => PresenceUnlessExpelled'
<1> DEFINE Listed == \A s \in Sockets : join[s] # "joined"
<1> SUFFICES ASSUME Session, PresenceUnlessExpelled, [Next]_vars
             PROVE  PresenceUnlessExpelled'
  OBVIOUS
<1> USE DEF Session, TypeOK, PresenceUnlessExpelled, presence
<1>1. ASSUME NEW s \in Sockets, Admit(s) PROVE PresenceUnlessExpelled'
  BY <1>1 DEF Admit
<1>2. ASSUME NEW s \in Sockets, ListUsers(s) PROVE PresenceUnlessExpelled'
  BY <1>2 DEF ListUsers, Announce, ListFor
<1>3. ASSUME Listed' => Listed,
             \/ \E s \in Sockets : CloseWithError(s) \/ Disconnect(s)
             \/ UNCHANGED <<members, presence>>
      PROVE  PresenceUnlessExpelled'
  BY <1>3 DEF CloseWithError, Disconnect, Announce, ListFor
<1>4. ASSUME NEW s \in Sockets,
             \/ JoinRoom(s) \/ JoinAnswered(s) \/ CountOccupants(s) \/ Loaded(s)
             \/ InactivityFires(s) \/ PermissionTick(s) \/ AccessChanges(s)
             \/ CheckAnswered(s) \/ CheckDowngrades(s) \/ CheckKeeps(s)
      PROVE  PresenceUnlessExpelled'
  <2>1. (Listed' => Listed) /\ UNCHANGED <<members, presence>>
    BY <1>4 DEF JoinRoom, JoinAnswered, CountOccupants, Loaded, InactivityFires,
                PermissionTick, AccessChanges, CheckAnswered, CheckDowngrades, CheckKeeps,
                Access, Phases
  <2> QED  BY <2>1, <1>3
<1>5. ASSUME NEW s \in Sockets, Refuse(s) \/ CheckCloses(s) \/ Disconnect(s)
      PROVE  PresenceUnlessExpelled'
  <2>1. (Listed' => Listed) /\ (CloseWithError(s) \/ Disconnect(s))
    BY <1>5 DEF Refuse, CheckCloses, Disconnect, Phases
  <2> QED  BY <2>1, <1>3
<1>6. CASE UNCHANGED vars
  BY <1>3, <1>6 DEF vars
<1> QED
  BY <1>1, <1>2, <1>4, <1>5, <1>6 DEF Next, JoinStep, CheckStep

\* Members are shown who is there, and who was put out since the last change.
THEOREM PresenceIsExact == Spec => []PresenceUnlessExpelled
<1>1. Init => PresenceUnlessExpelled
  BY DEF Init, PresenceUnlessExpelled
<1> QED  BY <1>1, SessionInvariant, PresenceStep, PTL DEF Spec

-----------------------------------------------------------------------------
(* The limit.                                                               *)

\* Whom a socket found in the room, and is not there any more, is gone for good.
FoundStay == \A s \in Sockets : found[s] \cap open \subseteq members

LEMMA FoundStayStep == Session /\ FoundStay /\ [Next]_vars => FoundStay'
BY DEF Session, TypeOK, FoundStay, Next, vars, JoinStep, CheckStep, JoinRoom,
       JoinAnswered, CountOccupants, Admit, Joined, ListUsers, Refuse, Loaded,
       InactivityFires, PermissionTick, CheckAnswered, CheckCloses, CheckDowngrades,
       CheckKeeps, Disconnect, AccessChanges, CloseWithError

\* A part of what is below the limit is below it too.
LEMMA BelowLimit ==
    ASSUME NEW S \in SUBSET Sockets, NEW T \in SUBSET S, Cardinality(S) < Limit
    PROVE  Cardinality(T) < Limit
<1>1. IsFiniteSet(S)
  BY SessionAssumption, FS_Subset
<1>2. IsFiniteSet(T) /\ Cardinality(T) <= Cardinality(S)
  BY <1>1, FS_Subset
<1>3. Cardinality(S) \in Nat /\ Cardinality(T) \in Nat
  BY <1>1, <1>2, FS_CardinalityType
<1> QED  BY <1>2, <1>3, SessionAssumption

\* What a join adds to the room is nobody whom another found in it.
LEMMA FoundAPlaceStep ==
    ~Rejoins /\ Session /\ FoundStay /\ WritersFoundAPlace /\ [Next]_vars =>
        WritersFoundAPlace'
<1> SUFFICES ASSUME ~Rejoins, Session, FoundStay, WritersFoundAPlace, [Next]_vars,
                    NEW t \in members' \cap collaborator'
             PROVE  Cardinality((found[t] \cap members \cap collaborator)') < Limit
  BY DEF WritersFoundAPlace
<1> USE DEF Session, TypeOK
<1>1. t \in Sockets
  BY DEF Next, vars, JoinStep, CheckStep, JoinRoom, JoinAnswered, CountOccupants, Admit,
         Joined, ListUsers, Refuse, Loaded, InactivityFires, PermissionTick,
         CheckAnswered, CheckCloses, CheckDowngrades, CheckKeeps, Disconnect,
         AccessChanges, CloseWithError
<1>2. found[t] \cap members \cap collaborator \in SUBSET Sockets
      /\ Occupants(t) \in SUBSET Sockets
  BY <1>1 DEF Occupants
<1>3. ASSUME t \in members \cap collaborator,
             (found[t] \cap members \cap collaborator)'
                \subseteq found[t] \cap members \cap collaborator
      PROVE  Cardinality((found[t] \cap members \cap collaborator)') < Limit
  BY <1>2, <1>3, BelowLimit DEF WritersFoundAPlace
<1>4. ASSUME NEW s \in Sockets, Admit(s)
      PROVE  Cardinality((found[t] \cap members \cap collaborator)') < Limit
  <2>1. /\ s \notin members /\ found[t] \cap open \subseteq members /\ members \subseteq open
        /\ members' = members \cup ({s} \cap open) /\ found' = found
        /\ collaborator' \subseteq collaborator \cup {s}
    BY <1>1, <1>4 DEF Honest, FoundStay, Admit, Joined
  <2>2. (found[t] \cap members \cap collaborator)'
            \subseteq found[t] \cap members \cap collaborator
    BY <2>1
  <2>3. CASE t \in members \cap collaborator
    BY <1>3, <2>2, <2>3
  <2>4. CASE t \notin members \cap collaborator
    <3>1. t = s
      BY <2>1, <2>4
    <3>2. Cardinality(Occupants(t)) < Limit
      BY <1>4, <3>1 DEF Admit
    <3>3. (found[t] \cap members \cap collaborator)' \subseteq Occupants(t)
      BY <2>2 DEF Occupants
    <3> QED  BY <1>2, <3>2, <3>3, BelowLimit
  <2> QED  BY <2>3, <2>4
<1>5. ASSUME NEW s \in Sockets, CountOccupants(s)
      PROVE  Cardinality((found[t] \cap members \cap collaborator)') < Limit
  <2>1. s \notin members /\ UNCHANGED <<members, collaborator>>
    BY <1>5 DEF Honest, CountOccupants
  <2>2. found'[t] = found[t]
    BY <1>1, <1>5, <2>1 DEF CountOccupants
  <2> QED  BY <1>3, <2>1, <2>2
<1>6. ASSUME NEW s \in Sockets,
             \/ JoinRoom(s) \/ JoinAnswered(s) \/ ListUsers(s) \/ Refuse(s) \/ Loaded(s)
             \/ InactivityFires(s) \/ PermissionTick(s) \/ CheckStep(s)
             \/ Disconnect(s) \/ AccessChanges(s)
      PROVE  Cardinality((found[t] \cap members \cap collaborator)') < Limit
  <2>1. found' = found /\ members' \subseteq members /\ collaborator' \subseteq collaborator
    BY <1>6 DEF JoinRoom, JoinAnswered, ListUsers, Refuse, Loaded, InactivityFires,
                PermissionTick, CheckStep, CheckAnswered, CheckCloses, CheckDowngrades,
                CheckKeeps, Disconnect, AccessChanges, CloseWithError
  <2> QED  BY <1>3, <2>1
<1>7. CASE UNCHANGED vars
  BY <1>3, <1>7 DEF vars
<1> QED  BY <1>4, <1>5, <1>6, <1>7 DEF Next, JoinStep

\* Whoever is beyond the limit counted before the others joined.
THEOREM WritersFoundPlaces == Spec => []WritersFoundAPlace
<1>1. CASE Rejoins
  <2>1. WritersFoundAPlace
    BY <1>1 DEF WritersFoundAPlace
  <2> QED  BY <2>1, PTL
<1>2. CASE ~Rejoins
  <2>1. Init => FoundStay /\ WritersFoundAPlace
    BY DEF Init, FoundStay, WritersFoundAPlace
  <2>2. Session /\ WritersFoundAPlace /\ FoundStay /\ [Next]_vars => WritersFoundAPlace'
    BY <1>2, FoundAPlaceStep
  <2> QED  BY <2>1, <2>2, FoundStayStep, SessionInvariant, PTL DEF Spec
<1> QED  BY <1>1, <1>2

\* No two users who may update are between their count and the join it decides.
CountsAlone ==
    \A s, t \in Sockets : join[s] = "canUpdate" /\ join[t] = "canUpdate" => s = t

\* Then the room has no collaborator that the count did not find.
CountIsCurrent ==
    \A s \in Sockets : join[s] = "canUpdate" => members \cap collaborator \subseteq found[s]

LEMMA CountIsCurrentStep ==
    Session /\ CountsAlone /\ CountIsCurrent /\ [Next]_vars => CountIsCurrent'
<1> SUFFICES ASSUME Session, CountsAlone, CountIsCurrent, [Next]_vars PROVE CountIsCurrent'
  OBVIOUS
<1> USE DEF Session, TypeOK, Access, Phases, CountIsCurrent
<1>1. ASSUME NEW s \in Sockets, Admit(s) PROVE CountIsCurrent'
  BY <1>1 DEF Admit, Joined, CountsAlone
<1>2. ASSUME NEW s \in Sockets, CountOccupants(s) PROVE CountIsCurrent'
  BY <1>2 DEF CountOccupants
<1>3. ASSUME NEW s \in Sockets,
             \/ JoinRoom(s) \/ JoinAnswered(s) \/ ListUsers(s) \/ Refuse(s) \/ Loaded(s)
             \/ InactivityFires(s) \/ PermissionTick(s) \/ CheckStep(s)
             \/ Disconnect(s) \/ AccessChanges(s)
      PROVE  CountIsCurrent'
  <2>1. /\ found' = found /\ members' \subseteq members /\ collaborator' \subseteq collaborator
        /\ \A t \in Sockets : join'[t] = "canUpdate" => join[t] = "canUpdate"
    BY <1>3 DEF JoinRoom, JoinAnswered, InfoOutcomes, ListUsers, Refuse, Loaded,
                InactivityFires, PermissionTick, CheckStep, CheckAnswered, CheckCloses,
                CheckDowngrades, CheckKeeps, Disconnect, AccessChanges, CloseWithError
  <2> QED  BY <2>1
<1>4. CASE UNCHANGED vars
  BY <1>4 DEF vars
<1> QED  BY <1>1, <1>2, <1>3, <1>4 DEF Next, JoinStep

\* A step that adds no collaborator to the room keeps the limit.
LEMMA FewerCollaborators ==
    ASSUME Session, LimitHolds, (members \cap collaborator)' \subseteq members \cap collaborator
    PROVE  LimitHolds'
<1> DEFINE S == members \cap collaborator
           T == members' \cap collaborator'
<1>1. IsFiniteSet(S)
  BY SessionAssumption, FS_Subset DEF Session, TypeOK
<1>2. IsFiniteSet(T) /\ Cardinality(T) <= Cardinality(S)
  <2>1. T \subseteq S
    OBVIOUS
  <2> HIDE DEF S, T
  <2> QED  BY <1>1, <2>1, FS_Subset
<1>3. Cardinality(S) \in Nat /\ Cardinality(T) \in Nat
  BY <1>1, <1>2, FS_CardinalityType
<1>4. Cardinality(S) <= Limit
  BY DEF LimitHolds
<1> HIDE DEF S, T
<1>5. Cardinality(T) <= Limit
  BY <1>2, <1>3, <1>4, SessionAssumption
<1> QED  BY <1>5 DEF LimitHolds, S, T

LEMMA LimitStep ==
    Session /\ CountIsCurrent /\ LimitHolds /\ [Next]_vars => LimitHolds'
<1> SUFFICES ASSUME Session, CountIsCurrent, LimitHolds, [Next]_vars PROVE LimitHolds'
  OBVIOUS
<1>1. ASSUME NEW s \in Sockets, Admit(s) PROVE LimitHolds'
  <2>1. CASE join[s] = "canUpdate" /\ Cardinality(Occupants(s)) < Limit
    <3> DEFINE S == Occupants(s)
               T == members' \cap collaborator'
    <3>1. IsFiniteSet(S)
      BY SessionAssumption, FS_Subset DEF Session, TypeOK, Occupants
    <3>2. T \subseteq S \cup {s}
      BY <1>1, <2>1 DEF CountIsCurrent, Admit, Joined, Occupants
    <3>3. Cardinality(S) < Limit
      BY <2>1
    <3> HIDE DEF S, T
    <3>4. Cardinality(S) \in Nat
      BY <3>1, FS_CardinalityType
    <3>5. /\ IsFiniteSet(S \cup {s})
          /\ \/ Cardinality(S \cup {s}) = Cardinality(S)
             \/ Cardinality(S \cup {s}) = Cardinality(S) + 1
      BY <3>1, FS_AddElement
    <3>6. IsFiniteSet(T) /\ Cardinality(T) <= Cardinality(S \cup {s})
      BY <3>2, <3>5, FS_Subset
    <3>7. Cardinality(T) \in Nat
      BY <3>6, FS_CardinalityType
    <3>8. Cardinality(T) <= Limit
      BY <3>3, <3>4, <3>5, <3>6, <3>7, SessionAssumption
    <3> QED  BY <3>8 DEF LimitHolds, T
  <2>2. CASE ~(join[s] = "canUpdate" /\ Cardinality(Occupants(s)) < Limit)
    <3>1. (members \cap collaborator)' \subseteq members \cap collaborator
      BY <1>1, <2>2 DEF Admit, Joined
    <3> QED  BY <3>1, FewerCollaborators
  <2> QED  BY <2>1, <2>2
<1>2. ASSUME NEW s \in Sockets,
             \/ JoinRoom(s) \/ JoinAnswered(s) \/ CountOccupants(s) \/ ListUsers(s)
             \/ Refuse(s) \/ Loaded(s) \/ InactivityFires(s) \/ PermissionTick(s)
             \/ CheckStep(s) \/ Disconnect(s) \/ AccessChanges(s)
      PROVE  LimitHolds'
  <2>1. members' \subseteq members /\ collaborator' \subseteq collaborator
    BY <1>2 DEF JoinRoom, JoinAnswered, CountOccupants, ListUsers, Refuse, Loaded,
                InactivityFires, PermissionTick, CheckStep, CheckAnswered, CheckCloses,
                CheckDowngrades, CheckKeeps, Disconnect, AccessChanges, CloseWithError
  <2> QED  BY <2>1, FewerCollaborators
<1>3. CASE UNCHANGED vars
  BY <1>3 DEF vars, LimitHolds
<1> QED  BY <1>1, <1>2, <1>3 DEF Next, JoinStep

\* The limit holds as long as no two joins of users who may update are at the same time
\* between the count of the collaborators and the join that it decides (handlers.ts:65-109).
THEOREM LimitKeptAlone == Spec /\ []CountsAlone => []LimitHolds
<1>1. Init => CountIsCurrent /\ LimitHolds
  <2>1. ASSUME Init PROVE members \cap collaborator = {}
    BY <2>1 DEF Init
  <2> QED  BY <2>1, FS_EmptySet, SessionAssumption DEF Init, CountIsCurrent, LimitHolds
<1> QED  BY <1>1, SessionInvariant, CountIsCurrentStep, LimitStep, PTL DEF Spec
-----------------------------------------------------------------------------
(* Revoked access ends.  Fairness is stated with the guards of the steps,   *)
(* which say the same as ENABLED: whenever a handler can go on for ever, it *)
(* goes on.                                                                 *)

Serves(guard, step) == []<>~guard \/ []<><<step>>_vars

HandlersServed ==
    \A s \in Sockets :
        /\ Serves(join[s] # "idle", JoinStep(s))
        /\ Serves(s \in watched /\ check[s] = "idle", PermissionTick(s))
        /\ Serves(check[s] # "idle", CheckStep(s))

\* The answer a join or a check goes by, or what it still waits for.
JoinHolds(s, answers) == join[s] \in answers
CheckHolds(s, answers) == check[s] \in answers

\* How one step may move the JOIN_ROOM handler of a socket.
LEMMA JoinMoves ==
    ASSUME NEW s \in Sockets, Session, [Next]_vars
    PROVE  /\ join[s] = "idle" => join'[s] \in {"idle", "asked"}
           /\ join[s] = "asked" => join'[s] \in {"asked", access[s], "none"}
           /\ join[s] = "none" => join'[s] \in {"none", "idle"}
           /\ join[s] = "read" => join'[s] \in {"read", "canRead"}
           /\ join[s] = "update" => join'[s] \in {"update", "canUpdate"}
           /\ join[s] \in {"canRead", "canUpdate"} => join'[s] \in {join[s], "joined"}
           /\ join[s] = "joined" => join'[s] \in {"joined", "loading"}
           /\ join[s] = "loading" => join'[s] \in {"loading", "idle"}
           /\ join[s] # "idle" /\ JoinStep(s) => join'[s] # join[s]
BY DEF Session, TypeOK, Access, Phases, Next, vars, JoinStep, CheckStep, JoinRoom,
       JoinAnswered, InfoOutcomes, CountOccupants, Admit, ListUsers, Refuse, Loaded,
       InactivityFires, PermissionTick, CheckAnswered, CheckCloses, CheckDowngrades,
       CheckKeeps, Disconnect, AccessChanges

\* How one step may move the permission check of a socket.
LEMMA CheckMoves ==
    ASSUME NEW s \in Sockets, Session, [Next]_vars
    PROVE  /\ check[s] = "idle" => check'[s] \in {"idle", "asked"}
           /\ check[s] = "asked" => check'[s] \in {"asked", access[s], "none"}
           /\ check[s] \in Access => check'[s] \in {check[s], "idle"}
           /\ check[s] # "idle" => (check'[s] # check[s] <=> CheckStep(s))
           /\ PermissionTick(s) => check'[s] = "asked"
BY DEF Session, TypeOK, Access, Phases, Next, vars, JoinStep, CheckStep, JoinRoom,
       JoinAnswered, InfoOutcomes, CountOccupants, Admit, ListUsers, Refuse, Loaded,
       InactivityFires, PermissionTick, CheckAnswered, CheckCloses, CheckDowngrades,
       CheckKeeps, Disconnect, AccessChanges

\* Who is neither in the room nor re-checked.
Gone(s) == s \notin members \cup watched

\* Only a join that was let in brings a socket back, and only leaving takes it out.
LEMMA GoneMoves ==
    ASSUME NEW s \in Sockets, Session, [Next]_vars, JoinHolds(s, {"idle", "asked", "none"})
    PROVE  /\ s \notin watched => Gone(s)
           /\ Gone(s) => Gone(s)'
           /\ s \in watched => (s \in watched)' \/ Gone(s)'
           /\ check[s] = "none" => check'[s] = "none" \/ Gone(s)'
           /\ check[s] = "none" /\ CheckStep(s) => Gone(s)'
<1> USE DEF Session, TypeOK, JoinHolds, Gone
<1>1. s \notin watched => Gone(s)
  BY DEF Watching
<1>2. s \in members' \ members => Admit(s)
  BY DEF Next, vars, JoinStep, CheckStep, JoinRoom, JoinAnswered, CountOccupants, Admit,
         Joined, ListUsers, Refuse, Loaded, InactivityFires, PermissionTick,
         CheckAnswered, CheckCloses, CheckDowngrades, CheckKeeps, Disconnect,
         AccessChanges, CloseWithError
<1>3. s \in watched' \ watched => Loaded(s)
  BY DEF Next, vars, JoinStep, CheckStep, JoinRoom, JoinAnswered, CountOccupants, Admit,
         ListUsers, Attach, Refuse, Loaded, InactivityFires, PermissionTick,
         CheckAnswered, CheckCloses, CheckDowngrades, CheckKeeps, Disconnect,
         AccessChanges, CloseWithError
<1>4. s \in watched \ watched' => CheckCloses(s) \/ Disconnect(s)
  BY DEF Next, vars, JoinStep, CheckStep, JoinRoom, JoinAnswered, CountOccupants, Admit,
         ListUsers, Attach, Refuse, Loaded, InactivityFires, PermissionTick,
         CheckAnswered, CheckCloses, CheckDowngrades, CheckKeeps, Disconnect,
         AccessChanges, CloseWithError
<1>5. CheckCloses(s) \/ Disconnect(s) => Gone(s)'
  BY DEF CheckCloses, CloseWithError, Disconnect
<1>6. check[s] = "none" /\ CheckStep(s) => CheckCloses(s)
  BY DEF CheckStep, CheckAnswered, CheckDowngrades, CheckKeeps
<1>7. ~Admit(s) /\ ~Loaded(s)
  BY DEF Admit, Loaded
<1> QED  BY CheckMoves, <1>1, <1>2, <1>3, <1>4, <1>5, <1>6, <1>7

\* Revoked read access ends the membership and the re-checks of a socket for good: the
\* join and the check that still go by an old answer end, a join that starts a check for a
\* socket that is gone starts its last one, and that one closes.
THEOREM RevokedGetOut == Spec /\ HandlersServed => RevokedIsOut
<1> SUFFICES ASSUME NEW s \in Sockets
             PROVE  Spec /\ HandlersServed => (<>[](access[s] = "none") => <>[]Gone(s))
  BY DEF RevokedIsOut, Gone
<1> DEFINE J0 == JoinHolds(s, {"idle", "asked", "none"})
           J1 == JoinHolds(s, {"read", "update"})
           J2 == JoinHolds(s, {"canRead", "canUpdate"})
           J3 == JoinHolds(s, {"joined"})
           J4 == JoinHolds(s, {"loading"})
           CI == CheckHolds(s, {"idle"})
           CA == CheckHolds(s, {"asked"})
           CN == CheckHolds(s, {"none"})
           C1 == CheckHolds(s, {"read", "update"})
           N == access[s] = "none"
           W == s \in watched
           G == Gone(s)
<1>0. HandlersServed => /\ Serves(join[s] # "idle", JoinStep(s))
                        /\ Serves(W /\ check[s] = "idle", PermissionTick(s))
                        /\ Serves(check[s] # "idle", CheckStep(s))
  BY DEF HandlersServed
<1>1. Session => /\ J0 \/ J1 \/ J2 \/ J3 \/ J4
                 /\ CI \/ CA \/ CN \/ C1
                 /\ J1 \/ J2 \/ J3 \/ J4 => join[s] # "idle"
                 /\ CI <=> check[s] = "idle"
                 /\ CA \/ CN \/ C1 => check[s] # "idle"
  BY DEF Session, TypeOK, Access, Phases, JoinHolds, CheckHolds
<1>2. Session /\ N /\ [Next]_vars =>
        /\ J0 => J0'
        /\ J1 => J1' \/ J2'
        /\ J1 /\ JoinStep(s) => J2'
        /\ J2 => J2' \/ J3'
        /\ J2 /\ JoinStep(s) => J3'
        /\ J3 => J3' \/ J4'
        /\ J3 /\ JoinStep(s) => J4'
        /\ J4 => J4' \/ J0'
        /\ J4 /\ JoinStep(s) => J0'
  BY JoinMoves DEF JoinHolds
<1>3. Session /\ N /\ [Next]_vars =>
        /\ CI => CI' \/ CA'
        /\ CI /\ PermissionTick(s) => CA'
        /\ CA => CA' \/ CN'
        /\ CA /\ CheckStep(s) => CN'
        /\ C1 => C1' \/ CI'
        /\ C1 /\ CheckStep(s) => CI'
  BY CheckMoves DEF CheckHolds, Access
<1>4. Session /\ J0 /\ [Next]_vars =>
        /\ ~W => G
        /\ G => G'
        /\ W => W' \/ G'
        /\ CN => CN' \/ G'
        /\ CN /\ CheckStep(s) => G'
  BY GoneMoves DEF CheckHolds
<1> HIDE DEF J0, J1, J2, J3, J4, CI, CA, CN, C1, N, W, G
<1>5. Spec /\ <>[]N /\ Serves(join[s] # "idle", JoinStep(s)) => <>[]J0
  BY <1>1, <1>2, SessionInvariant, PTL DEF Spec, Serves
<1> QED
  BY <1>0, <1>1, <1>3, <1>4, <1>5, SessionInvariant, PTL DEF Spec, Serves, N, G


-----------------------------------------------------------------------------
(* A client that joins once stops drawing when its right to is revoked.     *)

\* Who draws in a room is its collaborator, and only members are.
DrawersCollaborate ==
    /\ listens \cap members \subseteq collaborator
    /\ open \cap collaborator \subseteq members

LEMMA DrawersCollaborateStep ==
    ~Rejoins /\ Session /\ DrawersCollaborate /\ [Next]_vars => DrawersCollaborate'
<1> SUFFICES ASSUME ~Rejoins, Session, DrawersCollaborate, [Next]_vars
             PROVE  DrawersCollaborate'
  OBVIOUS
<1> USE DEF Session, TypeOK, WriterIsTimed, Honest, DrawersCollaborate
<1>1. ASSUME NEW s \in Sockets, Admit(s) PROVE DrawersCollaborate'
  <2>1. s \in open => s \notin listens
    BY <1>1 DEF Admit
  <2> QED  BY <1>1, <2>1 DEF Admit, Joined
<1>2. ASSUME NEW s \in Sockets, Loaded(s) PROVE DrawersCollaborate'
  BY <1>2 DEF Loaded, Attach, presence
<1>3. ASSUME NEW s \in Sockets,
             \/ JoinRoom(s) \/ JoinAnswered(s) \/ CountOccupants(s) \/ ListUsers(s)
             \/ Refuse(s) \/ InactivityFires(s) \/ PermissionTick(s) \/ CheckStep(s)
             \/ Disconnect(s) \/ AccessChanges(s)
      PROVE  DrawersCollaborate'
  BY <1>3 DEF JoinRoom, JoinAnswered, CountOccupants, ListUsers, Refuse, InactivityFires,
              PermissionTick, CheckStep, CheckAnswered, CheckCloses, CheckDowngrades,
              CheckKeeps, Disconnect, AccessChanges, CloseWithError
<1>4. CASE UNCHANGED vars
  BY <1>4 DEF vars
<1> QED  BY <1>1, <1>2, <1>3, <1>4 DEF Next, JoinStep

LEMMA DrawersCollaborateInvariant == ~Rejoins => (Spec => []DrawersCollaborate)
<1> SUFFICES ASSUME ~Rejoins PROVE Spec => []DrawersCollaborate
  OBVIOUS
<1>1. Init => DrawersCollaborate
  BY DEF Init, DrawersCollaborate
<1>2. Session /\ DrawersCollaborate /\ [Next]_vars => DrawersCollaborate'
  BY DrawersCollaborateStep
<1> QED  BY <1>1, <1>2, SessionInvariant, PTL DEF Spec

\* Who does not draw, and will not by an answer under way.
Silent(s) == s \notin listens \cup collaborator /\ join[s] \notin {"update", "canUpdate"}

\* The members that draw, or may by the join or the load under way.
Joining(s) == s \in members /\ ~Silent(s) /\ join[s] = "joined"
Loading(s) == s \in members /\ ~Silent(s) /\ join[s] = "loading"
Drawing(s) == s \in members /\ ~Silent(s) /\ join[s] = "idle"

\* Without update access a socket falls silent or is closed, and stays so.
LEMMA DrawingMoves ==
    ASSUME ~Rejoins, NEW s \in Sockets, access[s] # "update",
           join[s] \notin {"update", "canUpdate"}, Session, DrawersCollaborate, [Next]_vars
    PROVE  /\ Silent(s) \/ s \notin open \/ Joining(s) \/ Loading(s) \/ Drawing(s)
           /\ Silent(s) => Silent(s)'
           /\ s \notin open => s \notin open'
           /\ Joining(s) => Joining(s)' \/ Loading(s)' \/ Silent(s)' \/ s \notin open'
           /\ Joining(s) /\ JoinStep(s) => Loading(s)' \/ Silent(s)' \/ s \notin open'
           /\ Loading(s) => Loading(s)' \/ Drawing(s)' \/ Silent(s)' \/ s \notin open'
           /\ Loading(s) /\ JoinStep(s) => Drawing(s)' \/ Silent(s)' \/ s \notin open'
           /\ Drawing(s) => s \in watched
           /\ Drawing(s) => Drawing(s)' \/ Silent(s)' \/ s \notin open'
           /\ Drawing(s) /\ check[s] \in {"read", "none"} =>
                 check'[s] = check[s] \/ Silent(s)' \/ s \notin open'
<1> USE DEF Session, TypeOK, Access, Phases
<1>1. Silent(s) \/ s \notin open \/ Joining(s) \/ Loading(s) \/ Drawing(s)
  BY DEF WriterIsTimed, Honest, DrawersCollaborate, Silent, Joining, Loading, Drawing
<1>2. Drawing(s) => s \in watched
  BY DEF Watching, Drawing
<1>3. s \notin open => s \notin open'
  BY DEF Next, vars, JoinStep, CheckStep, JoinRoom, JoinAnswered, CountOccupants, Admit,
         ListUsers, Refuse, Loaded, InactivityFires, PermissionTick, CheckAnswered,
         CheckCloses, CheckDowngrades, CheckKeeps, Disconnect, AccessChanges,
         CloseWithError
<1>4. Silent(s) => Silent(s)'
  <2> SUFFICES ASSUME Silent(s) PROVE Silent(s)'
    OBVIOUS
  <2>1. join'[s] \notin {"update", "canUpdate"}
    BY JoinMoves DEF Silent
  <2>2. s \notin listens' \cup collaborator'
    BY DEF Silent, Next, vars, JoinStep, CheckStep, JoinRoom, JoinAnswered,
           CountOccupants, Admit, ListUsers, Attach, Refuse, Loaded, InactivityFires,
           PermissionTick, CheckAnswered, CheckCloses, CheckDowngrades, CheckKeeps,
           Disconnect, AccessChanges, CloseWithError
  <2> QED  BY <2>1, <2>2 DEF Silent
<1>5. s \in members => s \in members' \/ s \notin open'
  BY DEF Next, vars, JoinStep, CheckStep, JoinRoom, JoinAnswered, CountOccupants, Admit,
         Joined, ListUsers, Refuse, Loaded, InactivityFires, PermissionTick,
         CheckAnswered, CheckCloses, CheckDowngrades, CheckKeeps, Disconnect,
         AccessChanges, CloseWithError
<1>6. s \in members /\ join[s] = "idle" => join'[s] = "idle"
  BY DEF Next, vars, JoinStep, CheckStep, JoinRoom, JoinAnswered, CountOccupants, Admit,
         ListUsers, Refuse, Loaded, InactivityFires, PermissionTick, CheckAnswered,
         CheckCloses, CheckDowngrades, CheckKeeps, Disconnect, AccessChanges
<1>7. /\ join[s] = "joined" => join'[s] \in {"joined", "loading"}
      /\ join[s] = "joined" /\ JoinStep(s) => join'[s] = "loading"
      /\ join[s] = "loading" => join'[s] \in {"loading", "idle"}
      /\ join[s] = "loading" /\ JoinStep(s) => join'[s] = "idle"
  BY JoinMoves
<1>8. Drawing(s) /\ check[s] \in {"read", "none"} =>
         check'[s] = check[s] \/ Silent(s)' \/ s \notin open'
  <2> SUFFICES ASSUME Drawing(s), check[s] \in {"read", "none"}, check'[s] # check[s]
               PROVE  Silent(s)' \/ s \notin open'
    OBVIOUS
  <2>1. CheckStep(s)
    BY CheckMoves
  <2>2. s \in collaborator
    BY DEF DrawersCollaborate, Drawing, Silent
  <2>3. CheckCloses(s) \/ CheckDowngrades(s)
    BY <2>1, <2>2 DEF CheckStep, CheckAnswered, CheckKeeps
  <2> QED  BY <2>3 DEF CheckCloses, CheckDowngrades, CloseWithError, Silent
<1> QED
  BY <1>1, <1>2, <1>3, <1>4, <1>5, <1>6, <1>7, <1>8 DEF Joining, Loading, Drawing, Silent

\* Revoked update access silences a client that joins once for good: an answer or a load
\* under way may still make it a collaborator, and the next check ends that.  (After a
\* rejoin it does not: RefusedCannotWrite fails there.)
THEOREM RevokedFallSilent == ~Rejoins => (Spec /\ HandlersServed => RevokedStopsWriting)
<1> SUFFICES ASSUME ~Rejoins, NEW s \in Sockets
             PROVE  Spec /\ HandlersServed =>
                       (<>[](access[s] # "update") => <>[](s \notin members \cap listens))
  BY DEF RevokedStopsWriting
<1> DEFINE N == access[s] # "update"
           JU == JoinHolds(s, {"update"})
           JC == JoinHolds(s, {"canUpdate"})
           CI == CheckHolds(s, {"idle"})
           CA == CheckHolds(s, {"asked"})
           CU == CheckHolds(s, {"update"})
           CR == CheckHolds(s, {"read"})
           CN == CheckHolds(s, {"none"})
           Q == Silent(s)
           X == s \notin open
           M == Joining(s)
           L == Loading(s)
           D == Drawing(s)
           W == s \in watched
           G == s \notin members \cap listens
           IA == Session /\ DrawersCollaborate
<1>0. HandlersServed => /\ Serves(join[s] # "idle", JoinStep(s))
                        /\ Serves(W /\ check[s] = "idle", PermissionTick(s))
                        /\ Serves(check[s] # "idle", CheckStep(s))
  BY DEF HandlersServed
<1>1. IA => /\ CI \/ CA \/ CU \/ CR \/ CN
            /\ CI <=> check[s] = "idle"
            /\ CA \/ CU \/ CR \/ CN => check[s] # "idle"
            /\ JU \/ JC \/ M \/ L => join[s] # "idle"
            /\ Q \/ X => G
  BY DEF Session, TypeOK, Access, JoinHolds, CheckHolds, Joining, Loading, Silent
<1>2. IA /\ N /\ [Next]_vars =>
        /\ JU /\ JoinStep(s) => ~JU'
        /\ JC /\ JoinStep(s) => ~JU' /\ ~JC'
        /\ ~JU => ~JU'
        /\ ~JU /\ ~JC => ~JC'
  BY JoinMoves DEF JoinHolds, Session, TypeOK, Access, Phases
<1>3. IA /\ N /\ [Next]_vars =>
        /\ CI => CI' \/ CA'
        /\ CI /\ PermissionTick(s) => CA'
        /\ CA => CA' \/ CN' \/ CR'
        /\ CA /\ CheckStep(s) => CN' \/ CR'
        /\ CU => CU' \/ CI'
        /\ CU /\ CheckStep(s) => CI'
        /\ CR \/ CN => CR' \/ CN' \/ CI'
        /\ (CR \/ CN) /\ CheckStep(s) => ~CR' /\ ~CN'
  BY CheckMoves DEF CheckHolds, Session, TypeOK, Access
<1>4. IA /\ N /\ ~JU /\ ~JC /\ [Next]_vars =>
        /\ Q \/ X \/ M \/ L \/ D
        /\ Q => Q'
        /\ X => X'
        /\ M => M' \/ L' \/ Q' \/ X'
        /\ M /\ JoinStep(s) => L' \/ Q' \/ X'
        /\ L => L' \/ D' \/ Q' \/ X'
        /\ L /\ JoinStep(s) => D' \/ Q' \/ X'
        /\ D => W
        /\ D => D' \/ Q' \/ X'
        /\ D /\ CR => CR' \/ Q' \/ X'
        /\ D /\ CN => CN' \/ Q' \/ X'
  BY DrawingMoves DEF CheckHolds, JoinHolds
<1>5. Spec => []IA
  BY SessionInvariant, DrawersCollaborateInvariant, PTL
<1> HIDE DEF N, JU, JC, CI, CA, CU, CR, CN, Q, X, M, L, D, W, IA, G
<1>6. Spec /\ <>[]N /\ Serves(join[s] # "idle", JoinStep(s)) => <>[](~JU /\ ~JC)
  BY <1>1, <1>2, <1>5, PTL DEF Spec, Serves
<1>7. Spec /\ <>[]N /\ <>[](~JU /\ ~JC) /\ Serves(join[s] # "idle", JoinStep(s)) =>
         <>[](Q \/ X) \/ <>[]D
  BY <1>1, <1>4, <1>5, PTL DEF Spec, Serves
<1>8. Spec /\ <>[]N /\ <>[](~JU /\ ~JC) /\ <>[]D /\ Serves(check[s] # "idle", CheckStep(s))
         /\ Serves(W /\ check[s] = "idle", PermissionTick(s)) => <>[](Q \/ X)
  BY <1>1, <1>3, <1>4, <1>5, PTL DEF Spec, Serves
<1>9. Spec /\ <>[](Q \/ X) => <>[]G
  BY <1>1, <1>5, PTL
<1> QED
  BY <1>0, <1>6, <1>7, <1>8, <1>9, PTL DEF N, G

\* Whom the limit refuses cannot update as long as clients join once: the listener that
\* RefusedCannotWrite is violated by is one that a rejoin leaves behind (handlers.ts:82).
THEOREM RefusedStaySilent == ~Rejoins => (Spec => []RefusedCannotWrite)
<1>1. DrawersCollaborate => RefusedCannotWrite
  BY DEF DrawersCollaborate, RefusedCannotWrite
<1> SUFFICES ASSUME ~Rejoins PROVE Spec => []RefusedCannotWrite
  OBVIOUS
<1>2. Spec => []DrawersCollaborate
  BY DrawersCollaborateInvariant
<1> QED  BY <1>1, <1>2, PTL
=============================================================================
