------------------------- MODULE IntegrationRequest -------------------------
(***************************************************************************)
(* One call of sendWithResponse: a request over the RabbitMQ queue with a  *)
(* timeout on every attempt and a bounded number of attempts.  Each        *)
(* attempt publishes a message of its own; a message that was given up     *)
(* stays in the queue, and its reply is dropped when it comes.             *)
(***************************************************************************)
EXTENDS Naturals, FiniteSets

CONSTANT Retries  \* settings.application.queue_request_retries

ASSUME RetriesAssumption == Retries \in Nat

VARIABLES
    status,     \* of the call: idle, waiting, retrying, ok, failed
    attempt,    \* the number of the last attempt; rxjs's retryCount once it failed
    queue,      \* the attempts whose message waits to be consumed
    replies,    \* the replies on their way back
    executed    \* the attempts whose request the server carried out

vars == <<status, attempt, queue, replies, executed>>

\* rxjs takes retry off the pipe when the count is 0.
LastAttempt == IF Retries = 0 THEN 1 ELSE Retries
Attempts == 1..LastAttempt
Reply == [attempt : Attempts, ok : BOOLEAN]

Init ==
    /\ status = "idle"
    /\ attempt = 0
    /\ queue = {}
    /\ replies = {}
    /\ executed = {}

\* The retry operator's delay callback.
NeverGivesUp == FALSE  \* mutant: the limit is not looked at
GivesUp == attempt = LastAttempt

\* An attempt failed: reply with an error, timeout, or error of the connection.
Fail ==
    /\ status' = IF GivesUp THEN "failed" ELSE "retrying"
    /\ UNCHANGED attempt

-----------------------------------------------------------------------------
\* The caller subscribes: the first message is published.
Send ==
    /\ status = "idle"
    /\ status' = "waiting"
    /\ attempt' = 1
    /\ queue' = {1}
    /\ UNCHANGED <<replies, executed>>

\* Without a client the call throws before it sends anything.
SendWithoutClient ==
    /\ status = "idle"
    /\ status' = "failed"
    /\ UNCHANGED <<attempt, queue, replies, executed>>

\* timer(0) elapsed: subscribe again, with a message and a correlation of its own.
Resubscribe ==
    /\ status = "retrying"
    /\ status' = "waiting"
    /\ attempt' = attempt + 1
    /\ queue' = queue \cup {attempt + 1}
    /\ UNCHANGED <<replies, executed>>

\* The timeout operator, or an error of the connection.
NoTimeout == FALSE  \* mutant: only a reply ends an attempt
Timeout ==
    /\ status = "waiting"
    /\ Fail
    /\ UNCHANGED <<queue, replies, executed>>

\* Only the listener of the present attempt is still registered.
AwaitedAlways(r) == r.attempt = attempt  \* mutant: the listener outlives the call
AwaitedAny(r) == status = "waiting"  \* mutant: any reply answers the call
Awaited(r) == status = "waiting" /\ r.attempt = attempt

ReplyArrives(r) ==
    /\ replies' = replies \ {r}
    /\ \/ /\ Awaited(r) /\ r.ok
          /\ status' = "ok"
          /\ UNCHANGED attempt
       \/ /\ Awaited(r) /\ ~r.ok
          /\ Fail
       \/ /\ ~Awaited(r)
          /\ UNCHANGED <<status, attempt>>
    /\ UNCHANGED <<queue, executed>>

-----------------------------------------------------------------------------
(* The broker and the server (external).                                    *)

Serve(k) ==
    /\ queue' = queue \ {k}
    /\ \/ /\ executed' = executed \cup {k}
          /\ \E ok \in BOOLEAN : replies' = replies \cup {[attempt |-> k, ok |-> ok]}
       \/ /\ UNCHANGED executed
          /\ replies' = replies \cup {[attempt |-> k, ok |-> FALSE]}
    /\ UNCHANGED <<status, attempt>>

LoseMessage(k) ==
    /\ queue' = queue \ {k}
    /\ UNCHANGED <<status, attempt, replies, executed>>

LoseReply(r) ==
    /\ replies' = replies \ {r}
    /\ UNCHANGED <<status, attempt, queue, executed>>

Next ==
    \/ Send \/ SendWithoutClient \/ Resubscribe \/ Timeout
    \/ \E r \in replies : ReplyArrives(r) \/ LoseReply(r)
    \/ \E k \in queue : Serve(k) \/ LoseMessage(k)

Spec == Init /\ [][Next]_vars

\* The client's own timers run; nothing is assumed of the broker and the server.
FairSpec == Spec /\ WF_vars(Resubscribe) /\ WF_vars(Timeout)

-----------------------------------------------------------------------------
(* Properties.                                                              *)

TypeOK ==
    /\ status \in {"idle", "waiting", "retrying", "ok", "failed"}
    /\ attempt \in 0..LastAttempt
    /\ queue \subseteq 1..attempt
    /\ executed \subseteq 1..attempt
    /\ replies \subseteq Reply

\* A successful call was carried out by the attempt whose reply it returned: the
\* reply of an attempt given up earlier never answers it (adapter 188-219).
OkIsOwnAnswer == status = "ok" => attempt \in executed

\* The call returns once: a reply that comes after the last timeout, or after
\* another reply, changes nothing for the caller (adapter 188, 320).
OutcomeIsFinal == [][(status \in {"ok", "failed"}) => status' = status]_vars

\* sendWithResponse gives its caller an at-least-once call (adapter 177-321).
Result == [idle |-> "none", waiting |-> "pending", retrying |-> "pending",
           ok |-> "ok", failed |-> "failed"][status]
Promise == INSTANCE AtLeastOnceCall WITH
    result <- Result, executions <- Cardinality(executed), MaxExecutions <- LastAttempt
ImplementsCall == Promise!Spec

\* Every call returns, also when the broker loses everything (adapter 191-219).
CallReturns == status = "waiting" ~> status \in {"ok", "failed"}

\* The comment of queue_request_retries (config.yml:58): so many retries are made
\* before the call fails.
RetriesAsConfigured == status = "failed" /\ attempt > 0 => attempt = Retries + 1
=============================================================================
