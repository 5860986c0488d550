---------------------------- MODULE StatusService ----------------------------
(***************************************************************************)
(* The status service (pkg/service/objects/status_service.go): objects put  *)
(* their actual values in a bounded queue, from which a goroutine sends     *)
(* them to NetworkControl. There is one queue and one goroutine for each of *)
(* outputs, sensors and switches, all alike; this is one of them.           *)
(*                                                                         *)
(* A message whose transmission fails is dropped, and the next one waits    *)
(* for the back-off of UntilCanceled (pkg/service/util/until.go).           *)
(***************************************************************************)
EXTENDS Naturals, Sequences

CONSTANTS
    QueueSize,   \* capacity of the queue
    MaxFailures  \* bound: transmissions and calls of hardware that fail

ASSUME StatusAssumption == QueueSize \in Nat \ {0} /\ MaxFailures \in Nat

VARIABLES
    queue,
    sender,    \* where the sending goroutine is
    inFlight,  \* the message it works on (out of use it is "inactive")
    shared,    \* the state that all messages of a sensor point to
    received,  \* what NetworkControl was told last
    failures,
    ctxDone

statusVars == <<queue, sender, inFlight, received>>

Value == {"inactive", "active"}

(* A message carries its value, or a pointer to the state of its object.    *)
Message == Value \cup {"shared"}

StatusTypeOK ==
    /\ queue \in Seq(Message)
    /\ Len(queue) <= QueueSize
    /\ sender \in {"once", "taken", "sending", "backOff", "done"}
    /\ inFlight \in Message
    /\ shared \in Value
    /\ received \in Value \cup {"nothing"}
    /\ failures \in 0..MaxFailures
    /\ ctxDone \in BOOLEAN

StatusInit ==
    /\ queue = <<>>
    /\ sender = "once"
    /\ inFlight = "inactive"
    /\ shared = "inactive"
    /\ received = "nothing"
    /\ failures = 0
    /\ ctxDone = FALSE

Fail == failures < MaxFailures /\ failures' = failures + 1

-----------------------------------------------------------------------------
(* Enqueue to a queue that grows.                                           *)
EnqueueUnbounded(message) ==
    /\ queue' = Append(queue, message)
    /\ UNCHANGED <<sender, inFlight, received>>

(* Publish...Actual finds room in the queue.                                *)
Enqueue(message) ==
    /\ Len(queue) < QueueSize
    /\ queue' = Append(queue, message)
    /\ UNCHANGED <<sender, inFlight, received>>

(* PublishTimesOut that waits for room as long as it takes.                 *)
PublishTimesOutNever == FALSE /\ UNCHANGED <<statusVars, failures>>

(* Publish...Actual gives up after ten seconds without room; it does not    *)
(* look at the context. As long as that is not done, ten seconds are enough *)
(* unless transmissions fail or hang: it is counted as a failure.           *)
PublishTimesOut ==
    /\ Len(queue) = QueueSize
    /\ IF ctxDone THEN UNCHANGED failures ELSE Fail
    /\ UNCHANGED statusVars

(* The goroutine takes a message from the queue.                            *)
Take ==
    /\ sender = "once"
    /\ queue # <<>>
    /\ inFlight' = Head(queue)
    /\ queue' = Tail(queue)
    /\ sender' = "taken"
    /\ UNCHANGED <<received, shared, failures, ctxDone>>

(* The call of NetworkControl encodes it, following the pointer now.        *)
Encode ==
    /\ sender = "taken"
    /\ inFlight' = IF inFlight = "shared" THEN shared ELSE inFlight
    /\ sender' = "sending"
    /\ UNCHANGED <<queue, received, shared, failures, ctxDone>>

SendSucceeds ==
    /\ sender = "sending"
    /\ ~ctxDone
    /\ received' = inFlight
    /\ inFlight' = "inactive"
    /\ sender' = "once"
    /\ UNCHANGED <<queue, shared, failures, ctxDone>>

(* The call fails, times out after five seconds or is cancelled; the message*)
(* may have arrived nevertheless.                                           *)
SendFails ==
    /\ sender = "sending"
    /\ IF ctxDone THEN UNCHANGED failures ELSE Fail
    /\ received' \in {received, inFlight}
    /\ inFlight' = "inactive"
    /\ sender' = "backOff"
    /\ UNCHANGED <<queue, shared, ctxDone>>

(* UntilCanceled calls its callback again.                                  *)
BackOffEnds ==
    /\ sender = "backOff"
    /\ sender' = IF ctxDone THEN "done" ELSE "once"
    /\ UNCHANGED <<queue, inFlight, received, shared, failures, ctxDone>>

(* The goroutine finds its context done (when a message is there as well,   *)
(* either is chosen), and so does UntilCanceled.                            *)
StopSending ==
    /\ sender = "once"
    /\ ctxDone
    /\ sender' = "done"
    /\ UNCHANGED <<queue, inFlight, received, shared, failures, ctxDone>>

Send == Take \/ Encode \/ SendSucceeds \/ SendFails \/ BackOffEnds \/ StopSending
=============================================================================
