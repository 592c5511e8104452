--------------------------- MODULE AtLeastOnceCall ---------------------------
(***************************************************************************)
(* What a caller of the integration service may rely on, and what          *)
(* WhiteboardRoom assumes of its FETCH and SAVE calls: the call returns at *)
(* most once; success means the server has executed the request; an error  *)
(* says nothing; the server may execute it several times, also after the   *)
(* call returned, and never before it was made.                            *)
(***************************************************************************)
EXTENDS Naturals

CONSTANT MaxExecutions

VARIABLES result, executions

Init == result = "none" /\ executions = 0

Call == result = "none" /\ result' = "pending" /\ UNCHANGED executions

Execute ==
    /\ result # "none"
    /\ executions < MaxExecutions
    /\ executions' = executions + 1
    /\ UNCHANGED result

ReturnOk == result = "pending" /\ executions > 0 /\ result' = "ok" /\ UNCHANGED executions

ReturnError == result \in {"none", "pending"} /\ result' = "failed" /\ UNCHANGED executions

Next == Call \/ Execute \/ ReturnOk \/ ReturnError

Spec == Init /\ [][Next]_<<result, executions>>
=============================================================================
