-------------------------- MODULE ContributionWindow --------------------------
(***************************************************************************)
(* Who is reported as a contributor of a room.  The SERVER_BROADCAST       *)
(* handler does two things with time: it restarts the inactivity timer of  *)
(* its socket (InactivityTimer) and it notes when the socket contributed   *)
(* last.  The interval of the room reads those notes: it reports every     *)
(* socket whose last contribution lies within the window that ends now.    *)
(* This module runs both on the same clock.                                *)
(*                                                                         *)
(* The interval exists exactly while the room has members, which is        *)
(* TrackedIffOpen of WhiteboardRoom.  Node starts its next period at the   *)
(* moment it really fired, so that a late tick moves all later ones.       *)
(***************************************************************************)
EXTENDS InactivityTimer

CONSTANTS
    Window,  \* contributionWindowMs, in ticks
    MaxLag   \* bound: how late the event loop serves the interval, in ticks

ASSUME WindowAssumption ==
    /\ Window \in Nat \ {0}
    /\ MaxLag \in Nat

VARIABLES
    members,  \* the sockets in the room
    ago,      \* ticks since socket.data.lastContributed, LongAgo for more or never
    since,    \* ticks since the interval was started or fired last
    credit    \* history: what became of the last contribution of a member

wvars == <<tracked, age, idle, viewOnly, quiet, timer, absorbed,
           members, ago, since, credit>>

LongAgo == Window + MaxLag + 1

WindowInit ==
    /\ Init
    /\ members = {}
    /\ ago = [s \in Sockets |-> LongAgo]
    /\ since = 0
    /\ credit = [s \in Sockets |-> "none"]

-----------------------------------------------------------------------------
\* CREATE_ROOM starts the interval, unless the room has one.
RearmOnJoin == 0  \* mutant: every join starts it anew
SinceAfterJoin == IF members = {} THEN 0 ELSE since

\* A new connection: it has never contributed.  An identifier comes back only
\* when no timer of its former connection runs any more.
Enter(s) ==
    /\ s \notin members \cup tracked
    /\ members' = members \cup {s}
    /\ ago' = [ago EXCEPT ![s] = LongAgo]
    /\ since' = SinceAfterJoin
    /\ UNCHANGED <<vars, credit>>

\* The JOIN_ROOM handler of a collaborator attaches the listener and the timer,
\* also when a member that was made view-only asks again.
Attach(s) ==
    /\ s \in members
    /\ Start(s)
    /\ UNCHANGED <<members, ago, since, credit>>

\* SERVER_BROADCAST: the listener and the timer are removed together.
Contribute(s) ==
    /\ s \in members \cap tracked
    /\ Broadcast(s)
    /\ ago' = [ago EXCEPT ![s] = 0]
    /\ credit' = [credit EXCEPT ![s] = "owed"]
    /\ UNCHANGED <<members, since>>

\* SERVER_VOLATILE_BROADCAST: activity, but no contribution.
Point(s) ==
    /\ s \in members
    /\ Broadcast(s)
    /\ UNCHANGED <<members, ago, since, credit>>

\* The permission check finds the update access revoked; the socket stays.
Revoke(s) ==
    /\ s \in members
    /\ Stop(s)
    /\ UNCHANGED <<members, ago, since, credit>>

\* The room forgets a socket; the interval ends with the last one.
Forget(s) ==
    /\ s \in members
    /\ members' = members \ {s}
    /\ ago' = [ago EXCEPT ![s] = LongAgo]
    /\ credit' = [credit EXCEPT ![s] = "none"]
    /\ since' = IF members' = {} THEN 0 ELSE since

\* DISCONNECT deletes the timer.
Disconnect(s) ==
    /\ Forget(s)
    /\ IF s \in tracked THEN Stop(s) ELSE UNCHANGED vars

\* closeConnectionWithError removes the listener of DISCONNECT first: the timer
\* of the socket that is gone runs out by itself.
Expel(s) ==
    /\ Forget(s)
    /\ UNCHANGED vars

Silence(s) ==
    /\ InactivityFires(s)
    /\ UNCHANGED <<members, ago, since, credit>>

\* Both ends of the window belong to it.
InWindowStrictly(s) == ago[s] < Window      \* mutant: its start does not
InWindowLoosely(s) == ago[s] <= Window + 1  \* mutant: it starts too early
InWindow(s) == ago[s] <= Window

\* gatherContributions: the members' notes are read in the turn of the timer.
Gather ==
    /\ members # {} /\ since >= Window
    /\ since' = 0
    /\ credit' = [s \in Sockets |->
         IF s \in members /\ InWindow(s)
           THEN IF credit[s] = "owed" THEN "counted" ELSE "twice"
           ELSE IF credit[s] = "owed" THEN "missed" ELSE credit[s]]
    /\ UNCHANGED <<vars, members, ago>>

DebounceEnds ==
    /\ DebounceExpires
    /\ UNCHANGED <<members, ago, since, credit>>

TimePasses ==
    /\ Tick
    /\ members # {} => since < Window + MaxLag
    /\ since' = IF members = {} THEN 0 ELSE since + 1
    /\ ago' = [s \in Sockets |-> IF ago[s] = LongAgo THEN LongAgo ELSE ago[s] + 1]
    /\ UNCHANGED <<members, credit>>

WindowNext ==
    \/ \E s \in Sockets :
          \/ Enter(s)
          \/ Attach(s)
          \/ Contribute(s)
          \/ Point(s)
          \/ Revoke(s)
          \/ Disconnect(s)
          \/ Expel(s)
          \/ Silence(s)
    \/ Gather
    \/ DebounceEnds
    \/ TimePasses

WindowSpec == WindowInit /\ [][WindowNext]_wvars

-----------------------------------------------------------------------------
(* Properties.                                                              *)

WindowTypeOK ==
    /\ TypeOK
    /\ members \subseteq Sockets
    /\ ago \in [Sockets -> 0..LongAgo]
    /\ since \in 0..(Window + MaxLag)
    /\ credit \in [Sockets -> {"none", "owed", "counted", "twice", "missed"}]

\* A member's contribution never waits for its report longer than one late window,
\* whoever joins, leaves or draws meanwhile (server.ts:187-194, 391-400).
SettledInTime ==
    \A s \in Sockets :
        credit[s] = "owed" => s \in members /\ ago[s] <= Window + MaxLag

\* A member who goes unreported contributed right after the previous report, and the
\* next one came late by more than that: windows that are on time leave no gap, though
\* the next period starts only when the previous one really ended (server.ts:415-425).
MissesOnlyTheGap ==
    [][\A s \in Sockets :
          credit'[s] = "missed" /\ credit[s] # "missed"
          => since > Window /\ ago[s] <= since /\ since < ago[s] + MaxLag]_wvars

\* One contribution is reported twice only if it was made in the very instant of a
\* report and the next one was on time (server.ts:425: both ends are inclusive).
TwiceOnlyOnBorder ==
    [][\A s \in Sockets :
          credit'[s] = "twice" /\ credit[s] # "twice"
          => credit[s] = "counted" /\ since = Window /\ ago[s] = since]_wvars
=============================================================================
