----------------------- MODULE IntegrationRequestProofs -----------------------
(***************************************************************************)
(* Proofs about IntegrationRequest for every number of retries: it is well *)
(* typed, a call never takes the reply of another attempt for its own, and *)
(* it implements AtLeastOnceCall, on which WhiteboardRoom relies.          *)
(***************************************************************************)
EXTENDS IntegrationRequest, FiniteSetTheorems, TLAPS

\* What the calls on their way say about each other.
Sound ==
    /\ TypeOK
    /\ status = "idle" => attempt = 0
    /\ status = "retrying" => attempt < LastAttempt
    /\ \A r \in replies : r.ok => r.attempt \in executed
    /\ OkIsOwnAnswer

\* The first attempt is always made.
LEMMA LastAttemptPositive == LastAttempt \in Nat /\ LastAttempt > 0
BY RetriesAssumption DEF LastAttempt

\* Sound is inductive.
LEMMA SoundStep == Sound /\ [Next]_vars => Sound'
<1> SUFFICES ASSUME Sound, [Next]_vars PROVE Sound'
  OBVIOUS
<1> USE LastAttemptPositive
<1>1. CASE Send
  BY <1>1 DEF Sound, TypeOK, Send, OkIsOwnAnswer, Reply, Attempts
<1>2. CASE SendWithoutClient
  BY <1>2 DEF Sound, TypeOK, SendWithoutClient, OkIsOwnAnswer
<1>3. CASE Resubscribe
  BY <1>3 DEF Sound, TypeOK, Resubscribe, OkIsOwnAnswer
<1>4. CASE Timeout
  BY <1>4 DEF Sound, TypeOK, Timeout, Fail, GivesUp, OkIsOwnAnswer
<1>5. ASSUME NEW r \in replies, ReplyArrives(r)
      PROVE  Sound'
  <2> replies' \subseteq replies /\ UNCHANGED <<queue, executed, attempt>>
    BY <1>5 DEF ReplyArrives, Fail
  <2>1. CASE Awaited(r) /\ r.ok /\ status' = "ok"
    BY <2>1 DEF Sound, TypeOK, Awaited, OkIsOwnAnswer
  <2>2. CASE Awaited(r) /\ Fail
    BY <2>2 DEF Sound, TypeOK, Awaited, Fail, GivesUp, OkIsOwnAnswer
  <2>3. CASE UNCHANGED status
    BY <2>3 DEF Sound, TypeOK, OkIsOwnAnswer
  <2> QED  BY <1>5, <2>1, <2>2, <2>3 DEF ReplyArrives
<1>6. ASSUME NEW r \in replies, LoseReply(r)
      PROVE  Sound'
  BY <1>6 DEF Sound, TypeOK, LoseReply, OkIsOwnAnswer
<1>7. ASSUME NEW k \in queue, Serve(k)
      PROVE  Sound'
  <2>1. k \in 1..attempt /\ k \in Attempts
    BY DEF Sound, TypeOK, Attempts
  <2>2. PICK ok \in BOOLEAN :
           /\ replies' = replies \cup {[attempt |-> k, ok |-> ok]}
           /\ ok => k \in executed'
    BY <1>7 DEF Serve
  <2>3. /\ UNCHANGED <<status, attempt>>
        /\ queue' \subseteq queue
        /\ executed \subseteq executed' /\ executed' \subseteq executed \cup {k}
    BY <1>7 DEF Serve
  <2>4. [attempt |-> k, ok |-> ok] \in Reply
    BY <2>1 DEF Reply
  <2>5. TypeOK'
    BY <2>1, <2>2, <2>3, <2>4 DEF Sound, TypeOK
  <2>6. ASSUME NEW r \in replies', r.ok PROVE r.attempt \in executed'
    <3>1. CASE r \in replies  BY <2>3, <2>6, <3>1 DEF Sound
    <3>2. CASE r = [attempt |-> k, ok |-> ok]  BY <2>2, <2>6, <3>2
    <3> QED  BY <2>2, <3>1, <3>2
  <2> QED  BY <2>3, <2>5, <2>6 DEF Sound, OkIsOwnAnswer
<1>8. ASSUME NEW k \in queue, LoseMessage(k)
      PROVE  Sound'
  BY <1>8 DEF Sound, TypeOK, LoseMessage, OkIsOwnAnswer
<1>9. CASE UNCHANGED vars
  BY <1>9 DEF Sound, TypeOK, vars, OkIsOwnAnswer
<1> QED
  BY <1>1, <1>2, <1>3, <1>4, <1>5, <1>6, <1>7, <1>8, <1>9 DEF Next

LEMMA SoundInit == Init => Sound
BY LastAttemptPositive DEF Init, Sound, TypeOK, OkIsOwnAnswer

\* Sound holds in every state of a call.
LEMMA SoundInvariant == Spec => []Sound
BY SoundInit, SoundStep, PTL DEF Spec

\* Attempts stay within the configured number, and only messages that were sent
\* are queued, executed or answered.
THEOREM RequestIsWellFormed == Spec => []TypeOK
<1>1. Sound => TypeOK  BY DEF Sound
<1> QED  BY <1>1, SoundInvariant, PTL

\* A successful call was carried out by the attempt whose reply it returned.
THEOREM OkAnswersItsAttempt == Spec => []OkIsOwnAnswer
<1>1. Sound => OkIsOwnAnswer  BY DEF Sound
<1> QED  BY <1>1, SoundInvariant, PTL

\* A late reply or timeout never changes an outcome the caller already has.
THEOREM OutcomeStaysFinal == Spec => OutcomeIsFinal
<1>1. [Next]_vars => ((status \in {"ok", "failed"}) => status' = status)
  BY DEF Next, vars, Send, SendWithoutClient, Resubscribe, Timeout, ReplyArrives,
         Awaited, LoseReply, Serve, LoseMessage
<1> QED  BY <1>1, PTL DEF Spec, OutcomeIsFinal

-----------------------------------------------------------------------------
\* Executions are counted by a set that grows by one attempt at a time, up to
\* the number of attempts.
LEMMA ExecutionsCount ==
    ASSUME Sound
    PROVE  /\ IsFiniteSet(executed) /\ Cardinality(executed) \in Nat
           /\ \A k \in executed : Cardinality(executed) > 0
           /\ \A k \in Attempts \ executed :
                 /\ Cardinality(executed \cup {k}) = Cardinality(executed) + 1
                 /\ Cardinality(executed) < LastAttempt
<1>1. IsFiniteSet(Attempts) /\ Cardinality(Attempts) = LastAttempt
  BY LastAttemptPositive, FS_Interval DEF Attempts
<1>2. executed \subseteq Attempts
  BY LastAttemptPositive DEF Sound, TypeOK, Attempts
<1>3. IsFiniteSet(executed) /\ Cardinality(executed) \in Nat
  BY <1>1, <1>2, FS_Subset, FS_CardinalityType
<1>4. ASSUME NEW k \in executed PROVE Cardinality(executed) > 0
  BY <1>3, FS_EmptySet
<1>5. ASSUME NEW k \in Attempts, k \notin executed
      PROVE  /\ Cardinality(executed \cup {k}) = Cardinality(executed) + 1
             /\ Cardinality(executed) < LastAttempt
  <2>1. Cardinality(executed \cup {k}) = Cardinality(executed) + 1
    BY <1>3, <1>5, FS_AddElement
  <2>2. executed \cup {k} \in SUBSET Attempts
    BY <1>2, <1>5
  <2>3. Cardinality(executed \cup {k}) <= LastAttempt
    BY <1>1, <2>2, FS_Subset
  <2> QED  BY <1>3, <2>1, <2>3, LastAttemptPositive
<1> QED  BY <1>3, <1>4, <1>5

\* Every step of a request is a step of the abstract call, or none.
LEMMA StepImplementsCall ==
    Sound /\ Sound' /\ [Next]_vars
      => [Promise!Next]_<<Result, Cardinality(executed)>>
<1> SUFFICES ASSUME Sound, Sound', [Next]_vars
             PROVE  [Promise!Next]_<<Result, Cardinality(executed)>>
  OBVIOUS
<1> USE DEF Promise!Next, Promise!Call, Promise!Execute, Promise!ReturnOk,
            Promise!ReturnError
<1>0. status \in {"idle", "waiting", "retrying", "ok", "failed"}
      /\ status' \in {"idle", "waiting", "retrying", "ok", "failed"}
  BY DEF Sound, TypeOK
<1>1. CASE Send
  BY <1>1 DEF Send, Result
<1>2. CASE SendWithoutClient
  BY <1>2 DEF SendWithoutClient, Result
<1>3. CASE Resubscribe
  BY <1>3 DEF Resubscribe, Result
<1>4. CASE Timeout
  BY <1>4 DEF Timeout, Fail, Result
<1>5. ASSUME NEW r \in replies, ReplyArrives(r)
      PROVE  [Promise!Next]_<<Result, Cardinality(executed)>>
  <2>1. CASE Awaited(r) /\ r.ok /\ status' = "ok"
    <3>1. r.attempt \in executed
      BY <2>1 DEF Sound
    <3>2. Cardinality(executed) > 0
      BY <3>1, ExecutionsCount
    <3> QED  BY <1>5, <2>1, <3>2 DEF Awaited, ReplyArrives, Result
  <2>2. CASE Awaited(r) /\ Fail
    BY <1>5, <2>2 DEF Awaited, Fail, ReplyArrives, Result
  <2>3. CASE UNCHANGED status
    BY <1>5, <2>3 DEF ReplyArrives, Result
  <2> QED  BY <1>5, <2>1, <2>2, <2>3 DEF ReplyArrives
<1>6. ASSUME NEW r \in replies, LoseReply(r)
      PROVE  UNCHANGED <<Result, Cardinality(executed)>>
  BY <1>6 DEF LoseReply, Result
<1>7. ASSUME NEW k \in queue, Serve(k)
      PROVE  [Promise!Next]_<<Result, Cardinality(executed)>>
  <2>1. k \in Attempts /\ attempt > 0
    BY LastAttemptPositive DEF Sound, TypeOK, Attempts
  <2>2. Result # "none" /\ Result' = Result
    BY <1>0, <1>7, <2>1 DEF Serve, Result, Sound
  <2>3. CASE executed' = executed
    BY <2>2, <2>3
  <2>4. CASE k \notin executed /\ executed' = executed \cup {k}
    BY <2>1, <2>2, <2>4, ExecutionsCount
  <2>5. executed' = executed \/ (k \notin executed /\ executed' = executed \cup {k})
    BY <1>7 DEF Serve
  <2> QED  BY <2>3, <2>4, <2>5
<1>8. ASSUME NEW k \in queue, LoseMessage(k)
      PROVE  UNCHANGED <<Result, Cardinality(executed)>>
  BY <1>8 DEF LoseMessage, Result
<1>9. CASE UNCHANGED vars
  BY <1>9 DEF vars, Result
<1> QED
  BY <1>1, <1>2, <1>3, <1>4, <1>5, <1>6, <1>7, <1>8, <1>9 DEF Next

\* sendWithResponse is an at-least-once call for every number of retries.
THEOREM RequestImplementsCall == Spec => ImplementsCall
<1>1. Init => Promise!Init
  BY FS_EmptySet DEF Init, Promise!Init, Result
<1> QED
  BY <1>1, SoundInvariant, StepImplementsCall, PTL DEF Spec, ImplementsCall, Promise!Spec


-----------------------------------------------------------------------------
(* The call returns.  Fairness is stated with the guards of the timers,     *)
(* which say the same as ENABLED: a timer that runs for ever goes off.      *)

Serves(guard, step) == []<>~guard \/ []<><<step>>_vars

TimersServed ==
    Serves(status = "waiting", Timeout) /\ Serves(status = "retrying", Resubscribe)

Waiting(k) == status = "waiting" /\ attempt = k
Retrying(k) == status = "retrying" /\ attempt = k
Returned == status \in {"ok", "failed"}

\* An attempt ends with the call or with the next attempt.
LEMMA AttemptMoves ==
    ASSUME Sound, [Next]_vars, NEW k \in Nat
    PROVE  /\ Waiting(k) => Waiting(k)' \/ Retrying(k)' \/ Returned'
           /\ Waiting(k) /\ Timeout => Retrying(k)' \/ Returned'
           /\ Retrying(k) => Retrying(k)' \/ Waiting(k + 1)'
           /\ Retrying(k) /\ Resubscribe => Waiting(k + 1)'
<1> USE DEF Waiting, Retrying, Returned
<1>1. status \in {"waiting", "retrying"} =>
         \/ Resubscribe \/ Timeout \/ UNCHANGED <<status, attempt>>
         \/ \E r \in replies : ReplyArrives(r)
  BY DEF Next, vars, Send, SendWithoutClient, LoseReply, Serve, LoseMessage
<1>2. ASSUME NEW r \in replies, ReplyArrives(r)
      PROVE  /\ status = "waiting" => /\ status' \in {"waiting", "ok", "failed", "retrying"}
                                      /\ attempt' = attempt
             /\ status = "retrying" => UNCHANGED <<status, attempt>>
  BY <1>2 DEF ReplyArrives, Fail, Awaited
<1>3. Timeout => /\ status = "waiting" /\ status' \in {"failed", "retrying"}
                 /\ attempt' = attempt
  BY DEF Timeout, Fail
<1>4. Resubscribe => status = "retrying" /\ status' = "waiting" /\ attempt' = attempt + 1
  BY DEF Resubscribe
<1> QED  BY <1>1, <1>2, <1>3, <1>4

\* With the three retries of config.yml:59, or fewer, every call returns although nothing
\* is assumed of the broker and the server.  (For more the argument repeats, attempt by
\* attempt; TLC checks it for any number a run gives.)
THEOREM CallsReturn == Retries <= 3 => (Spec /\ TimersServed => CallReturns)
<1> SUFFICES ASSUME Retries <= 3
             PROVE  Spec /\ TimersServed =>
                       (status = "waiting" ~> status \in {"ok", "failed"})
  BY DEF CallReturns
<1> DEFINE W == status = "waiting"
           R == status = "retrying"
           D == Returned
           W0 == Waiting(0)
           W1 == Waiting(1)
           W2 == Waiting(2)
           W3 == Waiting(3)
           R0 == Retrying(0)
           R1 == Retrying(1)
           R2 == Retrying(2)
           R3 == Retrying(3)
<1>1. Sound => /\ ~R3
               /\ W <=> W0 \/ W1 \/ W2 \/ W3
               /\ R <=> R0 \/ R1 \/ R2
  <2>1. LastAttempt \in 1..3
    BY RetriesAssumption DEF LastAttempt
  <2>2. Sound => attempt \in {0, 1, 2, 3} /\ (R => attempt # 3)
    BY <2>1 DEF Sound, TypeOK
  <2> QED  BY <2>2 DEF Waiting, Retrying
<1>2. Sound /\ [Next]_vars =>
        /\ W0 => W0' \/ R0' \/ D'
        /\ W0 /\ Timeout => R0' \/ D'
        /\ R0 => R0' \/ W1'
        /\ R0 /\ Resubscribe => W1'
        /\ W1 => W1' \/ R1' \/ D'
        /\ W1 /\ Timeout => R1' \/ D'
        /\ R1 => R1' \/ W2'
        /\ R1 /\ Resubscribe => W2'
  BY AttemptMoves
<1>3. Sound /\ [Next]_vars =>
        /\ W2 => W2' \/ R2' \/ D'
        /\ W2 /\ Timeout => R2' \/ D'
        /\ R2 => R2' \/ W3'
        /\ R2 /\ Resubscribe => W3'
        /\ W3 => W3' \/ R3' \/ D'
        /\ W3 /\ Timeout => R3' \/ D'
  BY AttemptMoves
<1>4. TimersServed => Serves(W, Timeout) /\ Serves(R, Resubscribe)
  BY DEF TimersServed
<1> HIDE DEF W, R, D, W0, W1, W2, W3, R0, R1, R2, R3
<1>5. Spec /\ TimersServed => (W ~> D)
  BY <1>1, <1>2, <1>3, <1>4, SoundInvariant, PTL DEF Spec, Serves
<1> QED  BY <1>5 DEF W, D, Returned
=============================================================================
