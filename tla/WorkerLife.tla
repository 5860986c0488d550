----------------------------- MODULE WorkerLife ------------------------------
(***************************************************************************)
(* The life of a worker (pkg/service/worker/worker.go) from the opening of  *)
(* the bus until its devices are closed, with its devices service, its      *)
(* objects service and the requests that API calls bring to an object. The  *)
(* worker has one device, a GPIO chip, and one object, a magnetic switch.   *)
(*                                                                         *)
(* What is not configured is left out. The parts of the objects service end *)
(* with the context of the group, and the devices are closed after all of   *)
(* them returned; goroutines that process requests are not waited for.      *)
(***************************************************************************)
EXTENDS MagneticSwitch, FiniteSets

VARIABLES
    worker,        \* where Run of the worker is
    chipReady,     \* the chip is a configured device
    running,       \* goroutines that have not returned
    subscribed,    \* the type loop receives requests
    groupFailed,   \* a goroutine of the group returned an error
    ctxDone,       \* the context given to the worker is done
    told           \* the configured objects that pings tell of

workerVars == <<worker, chipReady, running, subscribed, groupFailed, ctxDone, told>>
vars       == <<magnetVars, workerVars>>

(* "objects" is the objects service that has nothing to run; otherwise it   *)
(* returns with the last of its object, type loop and ping loop.            *)
Goroutine == {"broadcaster", "devices", "objects", "object", "types", "ping"}

(* The objects of the service, when one is configured.                      *)
SwitchObject == {"switch"}

TypeOK ==
    /\ MagneticTypeOK
    /\ worker \in {"openBus", "newDevices", "configureDevices", "newObjects",
                   "configureObjects", "running", "closing", "closed", "notClosed", "failed"}
    /\ chipReady \in BOOLEAN
    /\ running \subseteq Goroutine
    /\ subscribed \in BOOLEAN
    /\ groupFailed \in BOOLEAN
    /\ ctxDone \in BOOLEAN
    /\ told \in {{}, SwitchObject}

Init ==
    /\ MagneticInit
    /\ worker = "openBus"
    /\ chipReady = FALSE
    /\ running = {}
    /\ subscribed = FALSE
    /\ groupFailed = FALSE
    /\ ctxDone = FALSE
    /\ told = {}

Ended == worker \in {"closed", "notClosed", "failed"}

(* The context of the group, lctx.                                          *)
GroupDone == ctxDone \/ groupFailed

-----------------------------------------------------------------------------
(* Without a bus or with a device of an unknown type Run returns at once.   *)
OpenBus ==
    /\ worker = "openBus"
    /\ \/ worker' = "newDevices" /\ UNCHANGED failures
       \/ worker' = "failed" /\ Fail
    /\ UNCHANGED <<chip, object, configured, waiting, working, todo, sendActualNeeded,
                   requestedDirection, reported, chipReady, running, subscribed,
                   groupFailed, ctxDone, told>>

NewDevices ==
    /\ worker = "newDevices"
    /\ \/ worker' = "configureDevices" /\ UNCHANGED failures
       \/ worker' = "failed" /\ Fail
    /\ UNCHANGED <<chip, object, configured, waiting, working, todo, sendActualNeeded,
                   requestedDirection, reported, chipReady, running, subscribed,
                   groupFailed, ctxDone, told>>

(* StopFast that forgets the devices.                                       *)
StopFastNotClosing(next) == IF ctxDone THEN "closed" ELSE next

(* From here on the devices are closed in any case.                         *)
StopFast(next) == IF ctxDone THEN "closing" ELSE next

ConfigureDevices ==
    /\ worker = "configureDevices"
    /\ \/ chipReady' = TRUE /\ UNCHANGED failures
       \/ chipReady' = FALSE /\ Fail
    /\ worker' = StopFast("newObjects")
    /\ UNCHANGED <<chip, object, configured, waiting, working, todo, sendActualNeeded,
                   requestedDirection, reported, running, subscribed, groupFailed,
                   ctxDone, told>>

(* An object whose device is not configured is not created.                 *)
NewObjects ==
    /\ worker = "newObjects"
    /\ worker' = "configureObjects"
    /\ object' = IF chipReady THEN "configure" ELSE "none"
    /\ UNCHANGED <<chip, configured, waiting, working, todo, sendActualNeeded,
                   requestedDirection, reported, failures, chipReady, running, subscribed,
                   groupFailed, ctxDone, told>>

ConfigureObjects ==
    /\ worker = "configureObjects"
    /\ Configure(ctxDone)
    /\ UNCHANGED workerVars

(* Run of a group: the broadcaster, the devices, and the objects with the   *)
(* goroutines of each. An object that is not configured is not run.         *)
StartGroup ==
    /\ worker = "configureObjects"
    /\ object # "configure"
    /\ worker' = StopFast("running")
    /\ IF ctxDone
       THEN UNCHANGED <<running, object>>
       ELSE IF object = "configured"
       THEN running' = Goroutine \ {"objects"} /\ object' = "lock"
       ELSE running' = {"broadcaster", "devices", "objects"} /\ UNCHANGED object
    /\ UNCHANGED <<chip, configured, waiting, working, todo, sendActualNeeded,
                   requestedDirection, reported, failures, chipReady, subscribed,
                   groupFailed, ctxDone, told>>

-----------------------------------------------------------------------------
Return(g) == running' = running \ {g}

(* The broadcaster may fail. (Once its context is done that makes no        *)
(* difference.)                                                             *)
BroadcasterFails ==
    /\ "broadcaster" \in running
    /\ ~ctxDone
    /\ Fail
    /\ groupFailed' = TRUE
    /\ Return("broadcaster")
    /\ UNCHANGED <<chip, object, configured, waiting, working, todo, sendActualNeeded,
                   requestedDirection, reported, worker, chipReady, subscribed, ctxDone, told>>

(* The goroutines that otherwise only wait for a context: the broadcaster   *)
(* for the one of the worker, the others for the one of the group. Nothing  *)
(* depends on which of them returns first.                                  *)
Waiter == {"broadcaster", "devices", "objects", "ping"}

WaitersReturn ==
    /\ running \cap Waiter # {}
    /\ IF "broadcaster" \in running THEN ctxDone ELSE GroupDone
    /\ running' = running \ Waiter
    /\ UNCHANGED <<magnetVars, worker, chipReady, subscribed, groupFailed, ctxDone, told>>

ObjectRuns ==
    /\ "object" \in running
    /\ Run(GroupDone)
    /\ IF object' = "done" THEN Return("object") ELSE UNCHANGED running
    /\ UNCHANGED <<worker, chipReady, subscribed, groupFailed, ctxDone, told>>

(* The loop of the switch type subscribes, and leaves at the end.           *)
TypeSubscribes ==
    /\ "types" \in running
    /\ ~subscribed
    /\ subscribed' = TRUE
    /\ UNCHANGED <<magnetVars, worker, chipReady, running, groupFailed, ctxDone, told>>

TypeReturns ==
    /\ "types" \in running
    /\ subscribed
    /\ GroupDone
    /\ subscribed' = FALSE
    /\ Return("types")
    /\ UNCHANGED <<magnetVars, worker, chipReady, groupFailed, ctxDone, told>>

(* Ping that gives up after an error.                                       *)
PingOnce ==
    /\ "ping" \in running
    /\ ~GroupDone
    /\ \/ told' = SwitchObject /\ UNCHANGED running
       \/ Return("ping") /\ UNCHANGED told
    /\ UNCHANGED <<magnetVars, worker, chipReady, subscribed, groupFailed, ctxDone>>

(* sendPingMessages tells NetworkControl what is configured, every few      *)
(* seconds. A ping that fails changes nothing.                              *)
Ping ==
    /\ "ping" \in running
    /\ ~GroupDone
    /\ told' = SwitchObject
    /\ UNCHANGED <<magnetVars, worker, chipReady, running, subscribed, groupFailed, ctxDone>>

(* Run of the worker waits for all of the group.                            *)
GroupReturns ==
    /\ worker = "running"
    /\ running = {}
    /\ worker' = "closing"
    /\ UNCHANGED <<magnetVars, chipReady, running, subscribed, groupFailed, ctxDone, told>>

(* The deferred Close, with a context of its own.                           *)
CloseDevices ==
    /\ worker = "closing"
    /\ \E o \in CloseChip(chip) :
          /\ chip' = o.chip
          /\ IF o.kind = "ok"
             THEN worker' = "closed" /\ UNCHANGED failures
             ELSE worker' = "notClosed" /\ Fail
    /\ UNCHANGED <<object, configured, waiting, working, todo, sendActualNeeded,
                   requestedDirection, reported, chipReady, running, subscribed,
                   groupFailed, ctxDone, told>>

-----------------------------------------------------------------------------
(* An API call hands a request to the objects service, if there is one that *)
(* runs, and from there it is published: a goroutine for the type loop if   *)
(* that is subscribed, which finds the object by its address. In any other  *)
(* case the request is refused or lost.                                     *)
SetSwitchRequest ==
    /\ subscribed
    /\ Cardinality(waiting) < MaxWaiting
    /\ \E r \in Request \ waiting : waiting' = waiting \cup {r}
    /\ UNCHANGED <<chip, object, configured, working, todo, sendActualNeeded,
                   requestedDirection, reported, failures, workerVars>>

(* A power request goes to all configured objects directly, at any time.    *)
SetPowerRequest ==
    /\ object \in RunPc \cup {"done"}
    /\ ProcessPowerMessage
    /\ UNCHANGED workerVars

ProcessRequests ==
    /\ \/ \E r \in Request : ProcessMessage(r)
       \/ SetMagnetPin(GroupDone)
       \/ EndSwitch
    /\ UNCHANGED workerVars

(* Later than this it changes nothing.                                      *)
Cancel ==
    /\ ~GroupDone
    /\ ~Ended
    /\ ctxDone' = TRUE
    /\ UNCHANGED <<magnetVars, worker, chipReady, running, subscribed, groupFailed, told>>

-----------------------------------------------------------------------------
WorkerRun ==
    \/ OpenBus
    \/ NewDevices
    \/ ConfigureDevices
    \/ NewObjects
    \/ ConfigureObjects
    \/ StartGroup
    \/ GroupReturns
    \/ CloseDevices

Next ==
    \/ WorkerRun
    \/ BroadcasterFails
    \/ WaitersReturn
    \/ ObjectRuns
    \/ TypeSubscribes
    \/ TypeReturns
    \/ Ping
    \/ SetSwitchRequest
    \/ SetPowerRequest
    \/ ProcessRequests
    \/ Cancel

(* Every goroutine is scheduled; a waiting Run gets the mutex although      *)
(* requests keep coming.                                                    *)
Fairness ==
    /\ WF_vars(WorkerRun)
    /\ WF_vars(WaitersReturn)
    /\ WF_vars(ObjectRuns) /\ SF_vars(ObjectRuns /\ RunRound(GroupDone))
    /\ WF_vars(TypeSubscribes) /\ WF_vars(TypeReturns)
    /\ WF_vars(Ping)
    /\ WF_vars(ProcessRequests)

Spec == Init /\ [][Next]_vars /\ Fairness

-----------------------------------------------------------------------------
(* When a request ends and no call failed, the magnets are driven to its    *)
(* direction: its own forward, the other backward, whatever the registers   *)
(* held before, however requests overlapped and whichever pins are inverted *)
(* or share a register. (Once the group returned the chip may be closed.)   *)
SwitchTakesEffect ==
    [][\A r \in working :
          EndSwitch /\ failures = 0 /\ (r.isUsed \/ AlwaysEnabled) /\ worker = "running"
          => Forward(r.direction) /\ Backward(Opposite(r.direction))]_vars

(* When the worker has closed its devices, no pin of an mcp23017 is driven, *)
(* however far the worker had come, and although goroutines that process    *)
(* requests may still be there.                                             *)
ClosedIsSafe ==
    worker = "closed" /\ chip.kind = "mcp23017" =>
        DrivenHigh(chip) = {} /\ DrivenLow(chip) = {}

(* A worker that is cancelled, or whose group failed, returns, through      *)
(* requests under way and failing calls.                                    *)
WorkerReturns == GroupDone ~> Ended

(* A direction that was switched to is reported, unless the group ends or   *)
(* another request comes: the flag is not taken before the switch has ended.*)
DirectionIsReported ==
    \A m \in Magnet :
        /\ object \in RunPc
        /\ requestedDirection = m
        /\ reported # m
        /\ <<m, reported>> # <<"straight", "nothing">>
        ~> reported = m \/ requestedDirection # m \/ GroupDone

(* NetworkControl learns of a configured object, although pings fail.       *)
ConfiguredIsTold == "object" \in running ~> told = SwitchObject \/ GroupDone
=============================================================================
