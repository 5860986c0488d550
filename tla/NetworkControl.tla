--------------------------- MODULE NetworkControl ---------------------------
(***************************************************************************)
(* How the local worker finds the NetworkControl service and follows its    *)
(* configuration: the discovery callback and the main loop of               *)
(* pkg/service/service.go, which runs one NetworkControlService (NCS, see   *)
(* pkg/service/ncs/ncservice.go) per connection, and in it the loader of    *)
(* the configuration (pkg/service/ncs/config_loader.go) and the receiver of *)
(* configurations, runWorkers, whose workers are module WorkerRunner.       *)
(***************************************************************************)
EXTENDS Naturals, Sequences

CONSTANTS
    MaxRecentErrors,  \* errors in a row after which the loader gives up (10)
    MaxChanges,       \* bound: addresses of NetworkControl announced
    MaxConfigs,       \* bound: configurations
    MaxFailures,      \* bound: failed dials and stream errors
    MaxStream         \* bound: messages under way in a stream

ASSUME BoundsAssumption ==
    /\ MaxRecentErrors \in Nat /\ MaxChanges \in Nat /\ MaxFailures \in Nat
    /\ MaxConfigs \in Nat \ {0} /\ MaxStream \in Nat \ {0}

VARIABLES
    newest,      \* the address announced last (0: none)
    callback,    \* where nwControlChanged is
    seen,        \* the cancel function it read: of no NCS in use, or the current
    run,         \* where the main loop is
    info,        \* nwControlInfo (0: nil)
    conn,        \* the address of nwControlConn (0: nil)
    ncsCancel,   \* ncsCancel was stored for the current NCS
    cancelled,   \* it was called
    loader,      \* where runLoadConfig is
    errors,      \* recentErrors
    lastHash,    \* lastConfHash of the stream (0: empty)
    stream,      \* configurations under way in the stream
    received,    \* the one the loader received last
    workers,     \* where runWorkers is
    running,     \* the configuration that runWorkers took last (0: none)
    config,      \* the configuration NetworkControl has for us
    ctxDone,     \* the process is asked to stop
    failures

serviceVars == <<newest, callback, seen, run, info, conn, ncsCancel, cancelled>>
loaderVars  == <<loader, errors, lastHash, stream, received>>
vars == <<serviceVars, loaderVars, workers, running, config, ctxDone, failures>>

Address == 1..MaxChanges
Config  == 1..MaxConfigs
None    == 0

TypeOK ==
    /\ newest \in Address \cup {None}
    /\ callback \in {"idle", "read", "sending"}
    /\ seen \in {"none", "current"}
    /\ run \in {"select", "dial", "start", "ncs", "returned", "crashed"}
    /\ info \in Address \cup {None}
    /\ conn \in Address \cup {None}
    /\ ncsCancel \in BOOLEAN
    /\ cancelled \in BOOLEAN
    /\ loader \in {"connect", "recv", "send", "delay", "gone"}
    /\ errors \in 0..MaxRecentErrors + 1
    /\ lastHash \in Config \cup {None}
    /\ stream \in Seq(Config) /\ Len(stream) <= MaxStream
    /\ received \in Config \cup {None}
    /\ workers \in {"select", "gone"}
    /\ running \in Config \cup {None}
    /\ config \in Config
    /\ ctxDone \in BOOLEAN
    /\ failures \in 0..MaxFailures

Init ==
    /\ newest = None
    /\ callback = "idle"
    /\ seen = "none"
    /\ run = "select"
    /\ info = None
    /\ conn = None
    /\ ncsCancel = FALSE
    /\ cancelled = FALSE
    /\ loader = "gone"
    /\ errors = 0
    /\ lastHash = None
    /\ stream = <<>>
    /\ received = None
    /\ workers = "gone"
    /\ running = None
    /\ config = 1
    /\ ctxDone = FALSE
    /\ failures = 0

-----------------------------------------------------------------------------
Fail ==
    /\ failures < MaxFailures
    /\ failures' = failures + 1

(* NetworkControl is announced at another address. The discovery listener   *)
(* calls nwControlChanged, which reads ncsCancel under the mutex.           *)
Announce ==
    /\ callback = "idle"
    /\ newest < MaxChanges
    /\ newest' = newest + 1
    /\ callback' = "read"
    /\ seen' = IF ncsCancel THEN "current" ELSE "none"
    /\ UNCHANGED <<run, info, conn, ncsCancel, cancelled, loaderVars, workers,
                   running, config, ctxDone, failures>>

(* CancelOldNcs that only sends.                                            *)
CancelOldNcsNot ==
    /\ callback = "read"
    /\ callback' = "sending"
    /\ UNCHANGED <<newest, seen, run, info, conn, ncsCancel, cancelled, loaderVars,
                   workers, running, config, ctxDone, failures>>

(* It calls the function it read, and goes on to send the new address. The  *)
(* function of an NCS that has ended does nothing.                          *)
CancelOldNcs ==
    /\ callback = "read"
    /\ callback' = "sending"
    /\ cancelled' = (cancelled \/ seen = "current")
    /\ UNCHANGED <<newest, seen, run, info, conn, ncsCancel, loaderVars, workers,
                   running, config, ctxDone, failures>>

(* The select of the main loop receives the address.                        *)
ReceiveChange ==
    /\ run = "select"
    /\ callback = "sending"
    /\ callback' = "idle"
    /\ info' = newest
    /\ run' = "dial"
    /\ UNCHANGED <<newest, seen, conn, ncsCancel, cancelled, loaderVars, workers,
                   running, config, ctxDone, failures>>

(* SelectTimeout with its test for nil the wrong way round.                 *)
SelectTimeoutInverted ==
    /\ run = "select"
    /\ info = None
    /\ run' = "dial"
    /\ UNCHANGED <<newest, callback, seen, info, conn, ncsCancel, cancelled,
                   loaderVars, workers, running, config, ctxDone, failures>>

(* Its two seconds pass: with an address known it dials again, without one  *)
(* it waits on.                                                             *)
SelectTimeout ==
    /\ run = "select"
    /\ info # None
    /\ run' = "dial"
    /\ UNCHANGED <<newest, callback, seen, info, conn, ncsCancel, cancelled,
                   loaderVars, workers, running, config, ctxDone, failures>>

(* It sees the end of the context.                                          *)
SelectDone ==
    /\ run = "select"
    /\ ctxDone
    /\ run' = "returned"
    /\ UNCHANGED <<newest, callback, seen, info, conn, ncsCancel, cancelled,
                   loaderVars, workers, running, config, ctxDone, failures>>

Dial ==
    /\ run = "dial"
    /\ conn' = info
    /\ run' = "start"
    /\ UNCHANGED <<newest, callback, seen, info, ncsCancel, cancelled, loaderVars,
                   workers, running, config, ctxDone, failures>>

(* DialConn returns an error and no connection, as it does for a service    *)
(* announced as secure. The address is forgotten, and Run goes on.          *)
DialFails ==
    /\ run = "dial"
    /\ Fail
    /\ conn' = None
    /\ info' = None
    /\ run' = "start"
    /\ UNCHANGED <<newest, callback, seen, ncsCancel, cancelled, loaderVars,
                   workers, running, config, ctxDone>>

(* The cancel function of a new NCS is stored and the NCS run. What the     *)
(* callback read before is no longer the function of the current NCS.       *)
StartNcs ==
    /\ run = "start"
    /\ run' = "ncs"
    /\ ncsCancel' = TRUE
    /\ cancelled' = FALSE
    /\ seen' = "none"
    /\ loader' = "connect"
    /\ errors' = 0
    /\ workers' = "select"
    /\ running' = None
    /\ UNCHANGED <<newest, callback, info, conn, lastHash, stream, received,
                   config, ctxDone, failures>>

(* Both goroutines of the NCS have returned, and ncs.Run does. Its cancel   *)
(* function stays stored, to no effect.                                     *)
NcsReturns ==
    /\ run = "ncs"
    /\ loader = "gone"
    /\ workers = "gone"
    /\ cancelled' = TRUE
    /\ run' = IF ctxDone THEN "returned" ELSE "select"
    /\ UNCHANGED <<newest, callback, seen, info, conn, ncsCancel, loaderVars,
                   workers, running, config, ctxDone, failures>>

-----------------------------------------------------------------------------
(* NcsDone of a plain group, in which one goroutine does not end the other. *)
NcsDoneNoGroup == ctxDone \/ cancelled

(* The context of the goroutines is done: the process stops, the NCS was    *)
(* cancelled, or one of the two has returned (errgroup).                    *)
NcsDone ==
    \/ ctxDone
    \/ cancelled
    \/ loader = "gone"
    \/ workers = "gone"

InNcs == run = "ncs" /\ UNCHANGED <<serviceVars, config, ctxDone>>

(* Connect with the hash of the last configuration kept from the previous   *)
(* stream.                                                                  *)
ConnectKeepingHash ==
    /\ InNcs
    /\ loader = "connect"
    /\ conn # None
    /\ ~NcsDone
    /\ \E c \in Config :
          /\ IF conn = newest THEN c = config ELSE c <= config
          /\ stream' = <<c>>
    /\ loader' = "recv"
    /\ UNCHANGED <<errors, lastHash, received, workers, running, failures>>

(* WatchLocalWorkers with the connection: NetworkControl sends the current  *)
(* configuration. At a forsaken address it may know an older one.           *)
Connect ==
    /\ InNcs
    /\ loader = "connect"
    /\ conn # None
    /\ ~NcsDone
    /\ \E c \in Config :
          /\ IF conn = newest THEN c = config ELSE c <= config
          /\ stream' = <<c>>
    /\ lastHash' = None
    /\ loader' = "recv"
    /\ UNCHANGED <<errors, received, workers, running, failures>>

(* Without a connection it panics in a goroutine of the errgroup, which     *)
(* ends the process.                                                        *)
ConnectPanics ==
    /\ run = "ncs"
    /\ loader = "connect"
    /\ conn = None
    /\ run' = "crashed"
    /\ UNCHANGED <<newest, callback, seen, info, conn, ncsCancel, cancelled,
                   loaderVars, workers, running, config, ctxDone, failures>>

(* A configuration other than the last of this stream is to be sent on; the *)
(* time offset that goes to the logger with it is taken in passing.         *)
Receive ==
    /\ InNcs
    /\ loader = "recv"
    /\ ~NcsDone
    /\ stream # <<>>
    /\ received' = Head(stream)
    /\ stream' = Tail(stream)
    /\ lastHash' = Head(stream)
    /\ loader' = IF Head(stream) = lastHash THEN "recv" ELSE "send"
    /\ UNCHANGED <<errors, workers, running, failures>>

(* runWorkers takes it.                                                     *)
Deliver ==
    /\ InNcs
    /\ loader = "send"
    /\ workers = "select"
    /\ running' = received
    /\ loader' = "recv"
    /\ UNCHANGED <<errors, lastHash, stream, received, workers, failures>>

(* The stream is closed by the other side, or the context is done: no error.*)
StreamCloses ==
    /\ InNcs
    /\ \/ loader = "recv" /\ NcsDone /\ UNCHANGED failures
       \/ loader = "send" /\ NcsDone /\ UNCHANGED failures
       \/ loader = "recv" /\ Fail
    /\ errors' = 0
    /\ loader' = "delay"
    /\ stream' = <<>>
    /\ UNCHANGED <<lastHash, received, workers, running>>

(* StreamFails that counts the error after the test.                        *)
StreamFailsCountingLate ==
    /\ InNcs
    /\ conn # None
    /\ \/ loader = "connect" /\ NcsDone /\ UNCHANGED failures
       \/ loader \in {"connect", "recv"} /\ Fail
    /\ errors' = errors + 1
    /\ loader' = IF errors > MaxRecentErrors THEN "gone" ELSE "delay"
    /\ stream' = <<>>
    /\ UNCHANGED <<lastHash, received, workers, running>>

(* The call or the stream fails; too many errors in a row end the loader.   *)
StreamFails ==
    /\ InNcs
    /\ conn # None
    /\ \/ loader = "connect" /\ NcsDone /\ UNCHANGED failures
       \/ loader \in {"connect", "recv"} /\ Fail
    /\ errors' = errors + 1
    /\ loader' = IF errors + 1 > MaxRecentErrors THEN "gone" ELSE "delay"
    /\ stream' = <<>>
    /\ UNCHANGED <<lastHash, received, workers, running>>

(* The delay between two streams passes.                                    *)
Reconnect ==
    /\ InNcs
    /\ loader = "delay"
    /\ loader' = IF NcsDone THEN "gone" ELSE "connect"
    /\ UNCHANGED <<errors, lastHash, stream, received, workers, running, failures>>

(* runWorkers sees the end of its context.                                  *)
StopWorkers ==
    /\ InNcs
    /\ workers = "select"
    /\ NcsDone
    /\ workers' = "gone"
    /\ UNCHANGED <<loaderVars, running, failures>>

-----------------------------------------------------------------------------
(* NetworkControl has a new configuration, or sends the current one again,  *)
(* to a stream that is open to its present address.                         *)
Configure ==
    /\ \E c \in {config, config + 1} \cap Config :
          /\ config' = c
          /\ IF loader \in {"recv", "send"} /\ conn = newest
             THEN /\ Len(stream) < MaxStream
                  /\ stream' = Append(stream, c)
             ELSE UNCHANGED stream
    /\ UNCHANGED <<serviceVars, loader, errors, lastHash, received, workers,
                   running, ctxDone, failures>>

Stop ==
    /\ ~ctxDone
    /\ ctxDone' = TRUE
    /\ UNCHANGED <<serviceVars, loaderVars, workers, running, config, failures>>

-----------------------------------------------------------------------------
MainLoop ==
    \/ ReceiveChange
    \/ SelectTimeout
    \/ SelectDone
    \/ Dial
    \/ DialFails
    \/ StartNcs
    \/ NcsReturns

Loader ==
    \/ Connect
    \/ ConnectPanics
    \/ Receive
    \/ Deliver
    \/ StreamCloses
    \/ StreamFails
    \/ Reconnect

Next ==
    /\ run # "crashed"
    /\ \/ Announce
       \/ CancelOldNcs
       \/ MainLoop
       \/ Loader
       \/ StopWorkers
       \/ Configure
       \/ Stop

(* Goroutines are scheduled, timers fire, and an open stream delivers. A    *)
(* select with several ready channels picks one at random, so a sender that *)
(* is always waiting there is served.                                       *)
Fairness ==
    /\ WF_vars(run # "crashed" /\ MainLoop)
    /\ WF_vars(run # "crashed" /\ Loader)
    /\ WF_vars(run # "crashed" /\ CancelOldNcs)
    /\ WF_vars(run # "crashed" /\ StopWorkers)
    /\ SF_vars(ReceiveChange)

Spec == Init /\ [][Next]_vars

FairSpec == Spec /\ Fairness

-----------------------------------------------------------------------------
Ended == run \in {"returned", "crashed"} \/ ctxDone

(* nwControlChanged read the cancel function before the NCS that runs now   *)
(* stored its own: the NCS does not know that its address is outdated, and  *)
(* the main loop takes no change before that NCS ends for another reason.   *)
ChangeMissed == callback = "sending" /\ run = "ncs" /\ seen = "none"

(* A change of the address of NetworkControl ends the NCS of the old        *)
(* address, and the main loop takes up the new one. The one exception is a  *)
(* change that comes while an NCS is being started.                         *)
ChangeTakesEffect ==
    callback = "read" ~> callback = "idle" \/ ChangeMissed \/ Ended

(* A configuration that stays the newest reaches runWorkers, through lost   *)
(* streams, an exhausted loader and a move of NetworkControl.               *)
NewestConfigIsDelivered ==
    \A c \in Config :
        newest # None /\ config = c ~>
            running = c \/ config # c \/ ChangeMissed \/ Ended

(* An NCS is never left with one of its two goroutines: if the loader gives *)
(* up, the workers are stopped too and NetworkControl is dialed again.      *)
NcsEndsAsAWhole ==
    run = "ncs" /\ (loader = "gone" \/ workers = "gone") ~> run # "ncs"

(* A stream to the present address of NetworkControl that has nothing under *)
(* way and nothing in the hands of the loader has brought runWorkers the    *)
(* configuration that NetworkControl has for us: dropping "identical"       *)
(* configurations by their hash hides none, although NCSs start with no     *)
(* worker, streams are lost and reopened and one is sent again.             *)
NewestIsTaken ==
    run = "ncs" /\ conn = newest /\ loader = "recv" /\ stream = <<>> => running = config

(* Without a connection no NCS is run: Run needs "a fresh update" of the    *)
(* service info first.                                                      *)
NcsHasConnection == run = "ncs" => conn # None
=============================================================================
