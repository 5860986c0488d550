------------------------------ MODULE AtomicBus ------------------------------
(***************************************************************************)
(* What the callers of a shared bus are promised (the I2CBus interface of   *)
(* pkg/service/bridge/i2c.go): operations run one at a time; a call either  *)
(* returns because its context ended before its operation began, or it      *)
(* returns, after its operation has ended, what that operation returned.    *)
(* An operation closes over variables of its caller, so none may run after  *)
(* the call it belongs to.                                                  *)
(***************************************************************************)
CONSTANT Caller  \* the goroutines that use the bus

VARIABLES
    call,   \* what becomes of the call of each caller
    answer  \* the result of its last operation or call

vars == <<call, answer>>

Init ==
    /\ call = [c \in Caller |-> "none"]
    /\ answer = [c \in Caller |-> "none"]

Invoke(c) ==
    /\ call[c] = "none"
    /\ call' = [call EXCEPT ![c] = "pending"]
    /\ answer' = [answer EXCEPT ![c] = "none"]

Refuse(c) ==
    /\ call[c] = "pending"
    /\ call' = [call EXCEPT ![c] = "none"]
    /\ answer' = [answer EXCEPT ![c] = "cancelled"]

Begin(c) ==
    /\ call[c] = "pending"
    /\ \A d \in Caller : call[d] # "running"
    /\ call' = [call EXCEPT ![c] = "running"]
    /\ UNCHANGED answer

End(c) ==
    /\ call[c] = "running"
    /\ call' = [call EXCEPT ![c] = "performed"]
    /\ \E result \in {"ok", "error"} : answer' = [answer EXCEPT ![c] = result]

Return(c) ==
    /\ call[c] = "performed"
    /\ call' = [call EXCEPT ![c] = "none"]
    /\ UNCHANGED answer

Next == \E c \in Caller : Invoke(c) \/ Refuse(c) \/ Begin(c) \/ End(c) \/ Return(c)

Spec == Init /\ [][Next]_vars
=============================================================================
