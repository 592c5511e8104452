----------------------- MODULE ContributionWindowProofs -----------------------
(***************************************************************************)
(* Proofs about ContributionWindow for every set of sockets and every      *)
(* setting of the four times.  The composition implements InactivityTimer, *)
(* so that all that is proved there holds here.                            *)
(***************************************************************************)
EXTENDS ContributionWindow, InactivityTimerProofs

WindowType ==
    /\ members \subseteq Sockets
    /\ ago \in [Sockets -> 0..LongAgo]
    /\ since \in 0..(Window + MaxLag)
    /\ credit \in [Sockets -> {"none", "owed", "counted", "twice", "missed"}]

\* What each standing of a member says of his last contribution and the last report.
Standing ==
    /\ members = {} => since = 0
    /\ \A s \in Sockets :
          /\ credit[s] = "none" => ago[s] = LongAgo
          /\ credit[s] = "owed" => s \in members /\ ago[s] <= since
          /\ credit[s] = "counted" => ago[s] >= since
          /\ credit[s] = "missed" => ago[s] > Window

Account == WindowType /\ Standing

-----------------------------------------------------------------------------
LEMMA WindowStepIsTimerStep == [WindowNext]_wvars => [Next]_vars
BY DEF WindowNext, wvars, vars, Next, Enter, Attach, Contribute, Point, Revoke, Disconnect,
       Expel, Silence, Gather, DebounceEnds, TimePasses

\* Noting contributions never disturbs the inactivity timers: the composition
\* implements InactivityTimer.
THEOREM WindowImplementsTimer == WindowSpec => Spec
<1>1. WindowInit => Init
  BY DEF WindowInit
<1> QED BY <1>1, WindowStepIsTimerStep, PTL DEF WindowSpec, Spec

LEMMA TimedInWindow == WindowSpec => []Timed
BY WindowImplementsTimer, TimedInvariant, PTL

LEMMA AccountInit == WindowInit => Account
BY WindowAssumption
   DEF WindowInit, Init, Account, WindowType, Standing, LongAgo

\* The steps of one socket.
LEMMA AccountSocket ==
    ASSUME Account, NEW s \in Sockets,
           \/ Enter(s) \/ Attach(s) \/ Contribute(s) \/ Point(s)
           \/ Revoke(s) \/ Disconnect(s) \/ Expel(s) \/ Silence(s)
    PROVE  Account'
<1> USE WindowAssumption, TimerAssumption
        DEF Account, WindowType, Standing, LongAgo
<1>1. CASE Enter(s)
  BY <1>1 DEF Enter, SinceAfterJoin, vars
<1>2. CASE Attach(s)
  BY <1>2 DEF Attach, Start
<1>3. CASE Contribute(s)
  BY <1>3 DEF Contribute, Broadcast
<1>4. CASE Point(s)
  BY <1>4 DEF Point, Broadcast
<1>5. CASE Revoke(s)
  BY <1>5 DEF Revoke, Stop
<1>6. CASE Disconnect(s)
  BY <1>6 DEF Disconnect, Forget
<1>7. CASE Expel(s)
  BY <1>7 DEF Expel, Forget, vars
<1>8. CASE Silence(s)
  BY <1>8 DEF Silence, InactivityFires
<1> QED BY <1>1, <1>2, <1>3, <1>4, <1>5, <1>6, <1>7, <1>8

LEMMA AccountGather == Account /\ Gather => Account'
BY WindowAssumption
   DEF Account, WindowType, Standing, LongAgo, Gather, InWindow, vars

LEMMA AccountTime == Account /\ TimePasses => Account'
<1> SUFFICES ASSUME Account, TimePasses PROVE Account'
  OBVIOUS
<1> USE WindowAssumption DEF Account, WindowType, LongAgo
<1>1. /\ \A s \in Sockets : ago'[s] = IF ago[s] = LongAgo THEN LongAgo ELSE ago[s] + 1
      /\ since' = IF members = {} THEN 0 ELSE since + 1
      /\ members # {} => since < Window + MaxLag
      /\ members' = members /\ credit' = credit
  BY DEF TimePasses
<1>2. WindowType'
  BY <1>1 DEF TimePasses
<1>3. Standing'
  BY <1>1 DEF Standing
<1> QED BY <1>2, <1>3

LEMMA AccountNext == Account /\ [WindowNext]_wvars => Account'
<1> SUFFICES ASSUME Account, [WindowNext]_wvars PROVE Account'
  OBVIOUS
<1>1. CASE DebounceEnds
  BY <1>1 DEF DebounceEnds, DebounceExpires, Account, WindowType, Standing
<1>2. CASE UNCHANGED wvars
  BY <1>2 DEF wvars, Account, WindowType, Standing
<1> QED
  BY <1>1, <1>2, AccountSocket, AccountGather, AccountTime DEF WindowNext

LEMMA AccountInvariant == WindowSpec => []Account
BY AccountInit, AccountNext, PTL DEF WindowSpec

\* Timers, notes and the interval stay within their ranges.
THEOREM WindowIsWellFormed == WindowSpec => []WindowTypeOK
<1>1. Account /\ Timed => WindowTypeOK
  BY DEF Account, WindowType, Timed, WindowTypeOK
<1> QED BY <1>1, AccountInvariant, TimedInWindow, PTL

\* A member's contribution is settled within one late window.
THEOREM ContributionsAreSettled == WindowSpec => []SettledInTime
<1>1. Account => SettledInTime
  BY WindowAssumption DEF Account, WindowType, Standing, SettledInTime, LongAgo
<1> QED BY <1>1, AccountInvariant, PTL

\* Only Gather makes a standing "missed" or "twice".
LEMMA OnlyGatherJudges ==
    ASSUME Account, [WindowNext]_wvars, NEW s \in Sockets,
           credit'[s] \in {"missed", "twice"}, credit'[s] # credit[s]
    PROVE  Gather
<1> USE DEF Account, WindowType
<1>1. ASSUME NEW t \in Sockets, Disconnect(t) \/ Expel(t) PROVE FALSE
  BY <1>1 DEF Disconnect, Expel, Forget
<1>2. ASSUME NEW t \in Sockets,
             Enter(t) \/ Attach(t) \/ Point(t) \/ Revoke(t) \/ Silence(t)
      PROVE  FALSE
  BY <1>2 DEF Enter, Attach, Point, Revoke, Silence
<1>3. ASSUME NEW t \in Sockets, Contribute(t) PROVE FALSE
  BY <1>3 DEF Contribute
<1> QED BY <1>1, <1>2, <1>3 DEF WindowNext, DebounceEnds, TimePasses, wvars

\* Who goes unreported contributed in the gap that a late report leaves.
THEOREM OnlyTheGapIsMissed == WindowSpec => MissesOnlyTheGap
<1>1. ASSUME Account, [WindowNext]_wvars, NEW s \in Sockets,
             credit'[s] = "missed", credit[s] # "missed"
      PROVE  since > Window /\ ago[s] <= since /\ since < ago[s] + MaxLag
  <2>1. Gather
    BY <1>1, OnlyGatherJudges
  <2>2. credit[s] = "owed" /\ ~(s \in members /\ InWindow(s))
    BY <1>1, <2>1 DEF Gather
  <2> QED
    BY <1>1, <2>1, <2>2, WindowAssumption
       DEF Account, WindowType, Standing, InWindow, LongAgo
<1>2. Account /\ [WindowNext]_wvars
      => [\A s \in Sockets :
            credit'[s] = "missed" /\ credit[s] # "missed"
            => since > Window /\ ago[s] <= since /\ since < ago[s] + MaxLag]_wvars
  BY <1>1
<1> QED BY <1>2, AccountInvariant, PTL DEF WindowSpec, MissesOnlyTheGap

\* Reported twice is only what was contributed in the instant of a report.
THEOREM TwiceIsOnTheBorder == WindowSpec => TwiceOnlyOnBorder
<1>1. ASSUME Account, [WindowNext]_wvars, NEW s \in Sockets,
             credit'[s] = "twice", credit[s] # "twice"
      PROVE  credit[s] = "counted" /\ since = Window /\ ago[s] = since
  <2>1. Gather
    BY <1>1, OnlyGatherJudges
  <2>2. credit[s] # "owed" /\ s \in members /\ InWindow(s) /\ since >= Window
    BY <1>1, <2>1 DEF Gather
  <2> QED
    BY <1>1, <2>2, WindowAssumption DEF Account, WindowType, Standing, InWindow, LongAgo
<1>2. Account /\ [WindowNext]_wvars
      => [\A s \in Sockets :
            credit'[s] = "twice" /\ credit[s] # "twice"
            => credit[s] = "counted" /\ since = Window /\ ago[s] = since]_wvars
  BY <1>1
<1> QED BY <1>2, AccountInvariant, PTL DEF WindowSpec, TwiceOnlyOnBorder
=============================================================================
