--------------------------- MODULE InactivityTimer ---------------------------
(***************************************************************************)
(* When a collaborator becomes view-only: every broadcast, volatile ones   *)
(* and those of viewers too, calls ONE lodash debounce of the server       *)
(* (leading edge only), and a call that it lets through restarts the       *)
(* inactivity timer of the socket it was made for.                         *)
(*                                                                         *)
(* Time is discrete.  Tick is disabled while a timer is due, so timers are *)
(* punctual, and in the instant a timer is due other events may come       *)
(* before it.                                                              *)
(***************************************************************************)
EXTENDS Naturals

CONSTANTS
    Sockets,
    Inactivity,  \* collaboratorInactivityMs, in ticks
    Wait         \* resetCollaboratorModeDebounceWait, in ticks

ASSUME TimerAssumption ==
    /\ Wait \in Nat \ {0}
    /\ Inactivity \in Nat \ {0}

VARIABLES
    tracked,   \* collaboratorInactivityTrackers.has(socket.id)
    age,       \* ticks since the inactivity timer of a tracked socket was started
    idle,      \* history: ticks since the user was last active
    quiet,     \* lodash: ticks since the last call, Wait standing for longer
    viewOnly,  \* the sockets that inactivity made view-only
    timer,     \* lodash: ticks until the debounce timer is due, or NoTimer
    absorbed   \* history: the debounce has dropped a call

vars == <<tracked, age, idle, viewOnly, quiet, timer, absorbed>>

NoTimer == Wait + 1

Init ==
    /\ tracked = {}
    /\ age = [s \in Sockets |-> 0]
    /\ idle = [s \in Sockets |-> 0]
    /\ viewOnly = {}
    /\ quiet = Wait
    /\ timer = NoTimer
    /\ absorbed = FALSE

\* The join attaches the tracker, unless the socket has one.
Start(s) ==
    /\ s \notin tracked
    /\ tracked' = tracked \cup {s}
    /\ age' = [age EXCEPT ![s] = 0]
    /\ idle' = [idle EXCEPT ![s] = 0]
    /\ viewOnly' = viewOnly \ {s}
    /\ UNCHANGED <<quiet, timer, absorbed>>

\* The socket disconnects, or its update access is revoked.
Stop(s) ==
    /\ s \in tracked
    /\ tracked' = tracked \ {s}
    /\ age' = [age EXCEPT ![s] = 0]
    /\ idle' = [idle EXCEPT ![s] = 0]
    /\ UNCHANGED <<viewOnly, quiet, timer, absorbed>>

\* The debounced function: a tracker that exists is deleted and started again.
RestartAll(s) == [t \in Sockets |-> 0]  \* mutant: one timer for all sockets
RestartNone(s) == age  \* mutant: the old timer goes on
Restart(s) == [age EXCEPT ![s] = 0]

\* A broadcast of the user; a viewer, or a user made view-only, may still send
\* volatile ones.  Only a call after Wait quiet ticks, with the debounce timer
\* gone, gets through.
Broadcast(s) ==
    /\ idle' = [idle EXCEPT ![s] = 0]
    /\ quiet' = 0
    /\ \/ /\ quiet = Wait /\ timer = NoTimer
          /\ age' = Restart(s)
          /\ timer' = Wait
          /\ UNCHANGED absorbed
       \/ /\ quiet < Wait \/ timer # NoTimer
          /\ absorbed' = TRUE
          /\ timer' = IF timer = NoTimer THEN Wait ELSE timer
          /\ UNCHANGED age
    /\ UNCHANGED <<tracked, viewOnly>>

\* lodash's timerExpired: nothing to invoke; it runs on if there were calls since.
SwappedWait == IF quiet = Wait THEN NoTimer ELSE quiet - Wait  \* mutant: swapped
RemainingWait == IF quiet = Wait THEN NoTimer ELSE Wait - quiet

DebounceExpires ==
    /\ timer = 0
    /\ timer' = RemainingWait
    /\ UNCHANGED <<tracked, age, idle, viewOnly, quiet, absorbed>>

\* The user becomes view-only.
InactivityFires(s) ==
    /\ s \in tracked /\ age[s] = Inactivity
    /\ tracked' = tracked \ {s}
    /\ age' = [age EXCEPT ![s] = 0]
    /\ idle' = [idle EXCEPT ![s] = 0]
    /\ viewOnly' = viewOnly \cup {s}
    /\ UNCHANGED <<quiet, timer, absorbed>>

Tick ==
    /\ timer # 0
    /\ \A s \in tracked : age[s] < Inactivity
    /\ age' = [s \in Sockets |-> IF s \in tracked THEN age[s] + 1 ELSE 0]
    /\ idle' = [s \in Sockets |-> IF s \in tracked THEN idle[s] + 1 ELSE 0]
    /\ quiet' = IF quiet = Wait THEN Wait ELSE quiet + 1
    /\ timer' = IF timer = NoTimer THEN NoTimer ELSE timer - 1
    /\ UNCHANGED <<tracked, viewOnly, absorbed>>

Next ==
    \/ \E s \in Sockets : Start(s) \/ Stop(s) \/ Broadcast(s) \/ InactivityFires(s)
    \/ DebounceExpires
    \/ Tick

Spec == Init /\ [][Next]_vars

-----------------------------------------------------------------------------
(* Properties.                                                              *)

TypeOK ==
    /\ tracked \subseteq Sockets
    /\ age \in [Sockets -> 0..Inactivity]
    /\ idle \in [Sockets -> Nat]
    /\ viewOnly \subseteq Sockets \ tracked
    /\ quiet \in 0..Wait
    /\ timer \in 0..NoTimer
    /\ absorbed \in BOOLEAN

\* Nobody keeps the right to draw for longer than the inactivity time after the last
\* action, whichever resets the debounce lets through (server.ts:479-494, 552-568).
NobodyOverstays == \A s \in tracked : idle[s] <= Inactivity

\* As long as the debounce drops no call, every timer measures the inactivity of its own
\* user exactly, whoever else broadcasts (server.ts:552-568).
ExactWhenSparse == ~absorbed => \A s \in tracked : age[s] = idle[s]

\* The documented inactivity (README.md:25-26; config.yml:77-79 allows the debounce as
\* error): only a user who has not been active becomes view-only.
OnlyInactiveDowngraded ==
    [][\A s \in viewOnly' \ viewOnly : idle[s] + Wait >= Inactivity]_vars
=============================================================================
