------------------------- MODULE InactivityTimerProofs -------------------------
(***************************************************************************)
(* Proofs about InactivityTimer for every set of sockets, every inactivity *)
(* time and every debounce.                                                *)
(***************************************************************************)
EXTENDS InactivityTimer, TLAPS

\* A timer is never younger than the user's last action: only an action restarts it.
AgeBoundsIdle == \A s \in tracked : idle[s] <= age[s]

Timed == TypeOK /\ AgeBoundsIdle /\ ExactWhenSparse

LEMMA TimedInit == Init => Timed
<1> SUFFICES ASSUME Init PROVE Timed
  OBVIOUS
<1>1. AgeBoundsIdle /\ ExactWhenSparse
  BY DEF Init, AgeBoundsIdle, ExactWhenSparse
<1>2. 0 \in 0..Inactivity /\ Wait \in 0..Wait /\ NoTimer \in 0..NoTimer
  BY TimerAssumption DEF NoTimer
<1>3. TypeOK
  BY <1>2 DEF Init, TypeOK
<1> QED  BY <1>1, <1>3 DEF Timed

\* Timed is inductive.
LEMMA TimedStep == Timed /\ [Next]_vars => Timed'
<1> SUFFICES ASSUME Timed, [Next]_vars PROVE Timed'
  OBVIOUS
<1> USE TimerAssumption DEF Timed, TypeOK, AgeBoundsIdle, ExactWhenSparse, NoTimer
<1>1. ASSUME NEW s \in Sockets, Start(s) PROVE Timed'
  BY <1>1 DEF Start
<1>2. ASSUME NEW s \in Sockets, Stop(s) PROVE Timed'
  BY <1>2 DEF Stop
<1>3. ASSUME NEW s \in Sockets, Broadcast(s) PROVE Timed'
  <2>1. /\ idle' = [idle EXCEPT ![s] = 0] /\ quiet' = 0
        /\ UNCHANGED <<tracked, viewOnly>>
    BY <1>3 DEF Broadcast
  <2>2. CASE age' = Restart(s) /\ timer' = Wait /\ UNCHANGED absorbed
    BY <2>1, <2>2 DEF Restart
  <2>3. CASE /\ absorbed' = TRUE
             /\ timer' = IF timer = NoTimer THEN Wait ELSE timer
             /\ UNCHANGED age
    BY <2>1, <2>3
  <2> QED  BY <1>3, <2>2, <2>3 DEF Broadcast
<1>4. ASSUME NEW s \in Sockets, InactivityFires(s) PROVE Timed'
  BY <1>4 DEF InactivityFires
<1>5. CASE DebounceExpires
  BY <1>5 DEF DebounceExpires, RemainingWait
<1>6. CASE Tick
  <2>1. ASSUME NEW s \in tracked
        PROVE  age'[s] = age[s] + 1 /\ idle'[s] = idle[s] + 1
    BY <1>6, <2>1 DEF Tick
  <2>2. TypeOK'
    BY <1>6 DEF Tick
  <2> QED  BY <1>6, <2>1, <2>2 DEF Tick
<1>7. CASE UNCHANGED vars
  BY <1>7 DEF vars
<1> QED
  BY <1>1, <1>2, <1>3, <1>4, <1>5, <1>6, <1>7 DEF Next

LEMMA TimedInvariant == Spec => []Timed
BY TimedInit, TimedStep, PTL DEF Spec

\* Timers stay within their periods.
THEOREM TimerIsWellFormed == Spec => []TypeOK
<1>1. Timed => TypeOK  BY DEF Timed
<1> QED  BY <1>1, TimedInvariant, PTL

\* A user who stops acting can draw for at most the inactivity time.
THEOREM NobodyEverOverstays == Spec => []NobodyOverstays
<1>1. Timed => NobodyOverstays
  BY TimerAssumption DEF Timed, TypeOK, AgeBoundsIdle, NobodyOverstays
<1> QED  BY <1>1, TimedInvariant, PTL

\* While the debounce drops nothing, inactivity is measured exactly.
THEOREM SparseTimersAreExact == Spec => []ExactWhenSparse
<1>1. Timed => ExactWhenSparse  BY DEF Timed
<1> QED  BY <1>1, TimedInvariant, PTL


\* The documented inactivity holds, and exactly, until the debounce drops a call: it is the
\* dropped calls alone that downgrade an active user (server.ts:552-568).
THEOREM SparseDowngradesAreDue ==
    Spec => [][~absorbed => \A s \in viewOnly' \ viewOnly : idle[s] = Inactivity]_vars
<1>1. ASSUME Timed, [Next]_vars, ~absorbed, NEW s \in viewOnly' \ viewOnly
      PROVE  idle[s] = Inactivity
  <2>1. s \in tracked /\ age[s] = Inactivity
    BY <1>1 DEF Next, vars, Start, Stop, Broadcast, InactivityFires, DebounceExpires, Tick
  <2> QED  BY <1>1, <2>1 DEF Timed, ExactWhenSparse
<1>2. Timed /\ [Next]_vars => (~absorbed => \A s \in viewOnly' \ viewOnly : idle[s] = Inactivity)
  BY <1>1
<1> QED  BY <1>2, TimedInvariant, PTL DEF Spec
=============================================================================
