------------------------ MODULE NetworkControlProofs ------------------------
(***************************************************************************)
(* Proofs about NetworkControl, for any bounds.                             *)
(*                                                                         *)
(* In the first part the type invariant: that the count of recent errors    *)
(* stays in its range depends on the loader, which counts it up only while  *)
(* it goes on. In the second that the hash test of the loader hides no      *)
(* configuration from runWorkers. In the third that discovery cancels the   *)
(* instance that runs exactly if its address is outdated.                   *)
(***************************************************************************)
EXTENDS NetworkControl, TLAPS

(* A loader that goes on has not seen too many errors.                      *)
ErrorsInv == loader # "gone" => errors <= MaxRecentErrors

IInv == TypeOK /\ ErrorsInv

-----------------------------------------------------------------------------
LEMMA InitIInv == Init => IInv
<1> SUFFICES ASSUME Init PROVE IInv
  OBVIOUS
<1>1. stream \in Seq(Config) /\ Len(stream) = 0
  BY DEF Init
<1>2. config \in Config
  BY BoundsAssumption DEF Init, Config
<1>3. /\ errors \in 0..MaxRecentErrors + 1 /\ errors <= MaxRecentErrors
      /\ failures \in 0..MaxFailures /\ Len(stream) <= MaxStream
  BY <1>1, BoundsAssumption DEF Init
<1> QED BY <1>1, <1>2, <1>3 DEF Init, IInv, TypeOK, ErrorsInv, None

(* Steps of the main loop, of the discovery callback and of the end.        *)
LEMMA MainLoopIInv == IInv /\ (Announce \/ CancelOldNcs \/ MainLoop \/ Stop) => IInv'
<1> SUFFICES ASSUME IInv, Announce \/ CancelOldNcs \/ MainLoop \/ Stop PROVE IInv'
  OBVIOUS
<1> USE BoundsAssumption DEF IInv, TypeOK, ErrorsInv
<1>1. CASE Announce
  BY <1>1 DEF Announce, Address, None, loaderVars
<1>2. CASE CancelOldNcs
  BY <1>2 DEF CancelOldNcs, loaderVars
<1>3. CASE ReceiveChange
  BY <1>3 DEF ReceiveChange, loaderVars
<1>4. CASE SelectTimeout
  BY <1>4 DEF SelectTimeout, loaderVars
<1>5. CASE SelectDone
  BY <1>5 DEF SelectDone, loaderVars
<1>6. CASE Dial
  BY <1>6 DEF Dial, loaderVars
<1>7. CASE DialFails
  BY <1>7 DEF DialFails, Fail, None, loaderVars
<1>8. CASE StartNcs
  <2>1. errors' \in 0..MaxRecentErrors + 1 /\ errors' <= MaxRecentErrors
    BY <1>8 DEF StartNcs
  <2> QED BY <1>8, <2>1 DEF StartNcs, None
<1>9. CASE NcsReturns
  BY <1>9 DEF NcsReturns, loaderVars
<1>10. CASE Stop
  BY <1>10 DEF Stop, serviceVars, loaderVars
<1> QED BY <1>1, <1>2, <1>3, <1>4, <1>5, <1>6, <1>7, <1>8, <1>9, <1>10 DEF MainLoop

(* Steps of the NCS and of its stream.                                      *)
LEMMA NcsIInv == IInv /\ (Loader \/ StopWorkers \/ Configure) => IInv'
<1> SUFFICES ASSUME IInv, Loader \/ StopWorkers \/ Configure PROVE IInv'
  OBVIOUS
<1>0. /\ MaxStream \in Nat /\ MaxStream > 0 /\ MaxRecentErrors \in Nat /\ MaxFailures \in Nat
      /\ stream \in Seq(Config) /\ Len(stream) \in Nat /\ Len(stream) <= MaxStream
      /\ <<>> \in Seq(Config) /\ Len(<<>>) = 0
  BY BoundsAssumption DEF IInv, TypeOK
<1> USE <1>0 DEF IInv, TypeOK, ErrorsInv, InNcs, serviceVars
<1>1. CASE Connect
  <2>1. PICK c \in Config : stream' = <<c>>
    BY <1>1 DEF Connect
  <2>2. stream' \in Seq(Config) /\ Len(stream') = 1
    BY <2>1
  <2> QED BY <1>1, <2>2 DEF Connect, None
<1>2. CASE ConnectPanics
  BY <1>2 DEF ConnectPanics, loaderVars
<1>3. CASE Receive
  <2>1. /\ Head(stream) \in Config /\ Tail(stream) \in Seq(Config)
        /\ Len(Tail(stream)) = Len(stream) - 1
    BY <1>3 DEF Receive
  <2> QED BY <1>3, <2>1 DEF Receive
<1>4. CASE Deliver
  BY <1>4 DEF Deliver
<1>5. CASE StreamCloses
  BY <1>5 DEF StreamCloses, Fail
<1>6. CASE StreamFails
  BY <1>6 DEF StreamFails, Fail
<1>7. CASE Reconnect
  BY <1>7 DEF Reconnect
<1>8. CASE StopWorkers
  BY <1>8 DEF StopWorkers, loaderVars
<1>9. CASE Configure
  <2>1. PICK c \in Config :
           /\ config' = c
           /\ \/ Len(stream) < MaxStream /\ stream' = Append(stream, c)
              \/ UNCHANGED stream
    BY <1>9 DEF Configure
  <2>2. Append(stream, c) \in Seq(Config) /\ Len(Append(stream, c)) = Len(stream) + 1
    OBVIOUS
  <2>3. stream' \in Seq(Config) /\ Len(stream') <= MaxStream
    BY <2>1, <2>2
  <2> QED BY <1>9, <2>1, <2>3 DEF Configure
<1> QED BY <1>1, <1>2, <1>3, <1>4, <1>5, <1>6, <1>7, <1>8, <1>9 DEF Loader

(* The type invariant of NetworkControl.                                    *)
THEOREM TypeCorrect == Spec => []TypeOK
<1>1. IInv /\ [Next]_vars => IInv'
  <2>1. IInv /\ UNCHANGED vars => IInv'
    BY DEF IInv, TypeOK, ErrorsInv, vars, serviceVars, loaderVars
  <2> QED BY <2>1, MainLoopIInv, NcsIInv DEF Next
<1>2. IInv => TypeOK
  BY DEF IInv
<1> QED BY <1>1, <1>2, InitIInv, PTL DEF Spec

-----------------------------------------------------------------------------
(* NewestIsTaken is not inductive: it says nothing of a stream that is not  *)
(* empty. What is kept is that the last configuration under way is the one  *)
(* NetworkControl has for us: the last of the stream, or, once that is      *)
(* empty, the one of the last hash.                                         *)
LastUnderWay == IF stream = <<>> THEN lastHash ELSE stream[Len(stream)]

Streaming == loader \in {"recv", "send"}

(* No address is known that was not announced: one announced from now on is *)
(* not that of an open stream.                                              *)
AddressInv == newest \in Nat /\ conn <= newest /\ info <= newest

(* A stream belongs to an NCS and begins with a configuration.              *)
StreamInv ==
    /\ Streaming => run = "ncs"
    /\ loader = "delay" => run = "ncs"
    /\ Streaming => stream # <<>> \/ lastHash # None

(* The hash is the one of the configuration taken last, or on its way to be.*)
HashInv ==
    /\ loader = "recv" /\ lastHash # None => running = lastHash
    /\ loader = "send" => received = lastHash

LastInv == Streaming /\ conn = newest => LastUnderWay = config

NewestInv == AddressInv /\ StreamInv /\ HashInv /\ LastInv

LEMMA InitNewestInv == Init => NewestInv
  BY DEF Init, NewestInv, AddressInv, StreamInv, HashInv, LastInv, Streaming, None

(* The hash and the end of the stream are not touched.                      *)
LEMMA KeptNewestInv ==
    ASSUME NewestInv, AddressInv', UNCHANGED <<lastHash, stream, received, running, config>>,
           loader' = loader \/ ~Streaming', Streaming' /\ conn' = newest' => conn = newest,
           loader' \in {"recv", "send", "delay"} => run' = "ncs"
    PROVE  NewestInv'
  BY DEF NewestInv, StreamInv, HashInv, LastInv, Streaming, LastUnderWay

(* Steps of the main loop, of the discovery callback and of the end. While  *)
(* an NCS runs they leave its connection alone.                             *)
LEMMA MainLoopNewestInv ==
    ASSUME IInv, NewestInv, Announce \/ CancelOldNcs \/ MainLoop \/ Stop
    PROVE  NewestInv'
<1>0. /\ newest \in Nat /\ conn \in Nat /\ info \in Nat
      /\ conn <= newest /\ info <= newest
      /\ loader \in {"connect", "recv", "send", "delay", "gone"}
      /\ loader \in {"recv", "send", "delay"} => run = "ncs"
  BY BoundsAssumption DEF IInv, TypeOK, Address, None, NewestInv, AddressInv, StreamInv, Streaming
<1>1. CASE Announce
  <2>1. newest' = newest + 1 /\ UNCHANGED <<run, info, conn, loaderVars, running, config>>
    BY <1>1 DEF Announce
  <2>2. AddressInv' /\ conn' # newest'
    BY <1>0, <2>1 DEF AddressInv
  <2> QED BY <1>0, <2>1, <2>2, KeptNewestInv DEF loaderVars
<1>2. CASE CancelOldNcs
  <2>1. UNCHANGED <<newest, run, info, conn, loaderVars, running, config>>
    BY <1>2 DEF CancelOldNcs
  <2> QED BY <1>0, <2>1, KeptNewestInv DEF loaderVars, AddressInv
<1>3. CASE ReceiveChange \/ SelectTimeout \/ SelectDone \/ Dial \/ DialFails
  <2>1. /\ run # "ncs" /\ UNCHANGED <<newest, loaderVars, running, config>>
        /\ conn' \in {conn, info, None} /\ info' \in {info, newest, None}
    BY <1>3 DEF ReceiveChange, SelectTimeout, SelectDone, Dial, DialFails
  <2>2. AddressInv'
    BY <1>0, <2>1 DEF AddressInv, None
  <2> QED BY <1>0, <2>1, <2>2, KeptNewestInv DEF loaderVars, Streaming
<1>4. CASE StartNcs
  <2>1. /\ loader' = "connect" /\ UNCHANGED <<newest, info, conn, lastHash, stream>>
    BY <1>4 DEF StartNcs
  <2> QED BY <1>0, <2>1 DEF NewestInv, AddressInv, StreamInv, HashInv, LastInv, Streaming
<1>5. CASE NcsReturns
  <2>1. loader = "gone" /\ UNCHANGED <<newest, info, conn, loaderVars, running, config>>
    BY <1>5 DEF NcsReturns
  <2> QED BY <1>0, <2>1, KeptNewestInv DEF loaderVars, AddressInv
<1>6. CASE Stop
  <2>1. UNCHANGED <<serviceVars, loaderVars, running, config>>
    BY <1>6 DEF Stop
  <2> QED BY <1>0, <2>1, KeptNewestInv DEF serviceVars, loaderVars, AddressInv
<1> QED BY <1>1, <1>2, <1>3, <1>4, <1>5, <1>6 DEF MainLoop

(* The last element of a sequence is that of its tail, if that has any.     *)
LEMMA LastOfTail ==
    ASSUME NEW S, NEW s \in Seq(S), s # <<>>
    PROVE  /\ Tail(s) = <<>> => Head(s) = s[Len(s)]
           /\ Tail(s) # <<>> => Tail(s)[Len(Tail(s))] = s[Len(s)]
<1>1. /\ Len(s) \in Nat /\ Len(s) > 0 /\ Tail(s) \in Seq(S)
      /\ Len(Tail(s)) = Len(s) - 1
  OBVIOUS
<1>2. \A i \in 1..Len(Tail(s)) : Tail(s)[i] = s[i + 1]
  BY <1>1
<1>3. \A u \in Seq(S) : u = <<>> => Len(u) = 0
  OBVIOUS
<1>4. \A u \in Seq(S) : u # <<>> => Len(u) \in 1..Len(u)
  OBVIOUS
<1>5. Tail(s) = <<>> => Head(s) = s[Len(s)]
  <2>1. Tail(s) = <<>> => Len(Tail(s)) = 0
    BY <1>1, <1>3
  <2>2. Len(s) = 1 => Head(s) = s[Len(s)]
    BY <1>1
  <2> QED BY <1>1, <2>1, <2>2
<1>6. Tail(s) # <<>> => Tail(s)[Len(Tail(s))] = s[Len(s)]
  BY <1>1, <1>2, <1>4
<1> QED BY <1>5, <1>6

(* Steps of the NCS and of its stream.                                      *)
LEMMA NcsNewestInv ==
    ASSUME IInv, NewestInv, Loader \/ StopWorkers \/ Configure
    PROVE  NewestInv'
<1>0. /\ conn \in Nat /\ stream \in Seq(Config) /\ Len(stream) \in Nat
      /\ lastHash \in Config \cup {None} /\ config \in Config /\ None \notin Config
      /\ loader \in {"connect", "recv", "send", "delay", "gone"}
      /\ loader \in {"recv", "send", "delay"} => run = "ncs"
  BY BoundsAssumption
     DEF IInv, TypeOK, Address, Config, None, NewestInv, StreamInv, Streaming
<1>1. CASE Connect
  <2>1. PICK c \in Config : /\ conn = newest => c = config
                            /\ stream' = <<c>>
    BY <1>1 DEF Connect
  <2>2. /\ run' = "ncs" /\ loader' = "recv" /\ lastHash' = None
        /\ UNCHANGED <<newest, info, conn, config>>
    BY <1>1 DEF Connect, InNcs, serviceVars
  <2>3. stream' # <<>> /\ stream'[Len(stream')] = c
    BY <2>1
  <2> QED BY <2>1, <2>2, <2>3 DEF NewestInv, AddressInv, StreamInv, HashInv, LastInv, Streaming, LastUnderWay
<1>2. CASE ConnectPanics
  <2>1. loader = "connect" /\ UNCHANGED <<newest, info, conn, loaderVars, running, config>>
    BY <1>2 DEF ConnectPanics
  <2> QED BY <1>0, <2>1, KeptNewestInv DEF loaderVars, NewestInv, AddressInv
<1>3. CASE Receive
  <2> DEFINE head == Head(stream)
  <2>1. /\ loader = "recv" /\ run = "ncs" /\ stream # <<>>
        /\ received' = head /\ stream' = Tail(stream) /\ lastHash' = head
        /\ loader' = IF head = lastHash THEN "recv" ELSE "send"
        /\ UNCHANGED <<newest, run, info, conn, running, config>>
    BY <1>3 DEF Receive, InNcs, serviceVars
  <2>2. head \in Config /\ head # None
    BY <1>0, <2>1
  <2>3. LastUnderWay' = LastUnderWay
    <3>1. /\ stream' = <<>> => head = stream[Len(stream)]
          /\ stream' # <<>> => stream'[Len(stream')] = stream[Len(stream)]
      BY <1>0, <2>1, LastOfTail
    <3> QED BY <2>1, <3>1 DEF LastUnderWay
  <2> HIDE DEF head
  <2> QED BY <2>1, <2>2, <2>3 DEF NewestInv, AddressInv, StreamInv, HashInv, LastInv, Streaming
<1>4. CASE Deliver
  <2>1. /\ loader = "send" /\ loader' = "recv" /\ run = "ncs" /\ running' = received
        /\ UNCHANGED <<newest, run, info, conn, lastHash, stream, config>>
    BY <1>4 DEF Deliver, InNcs, serviceVars
  <2> QED BY <2>1 DEF NewestInv, AddressInv, StreamInv, HashInv, LastInv, Streaming, LastUnderWay
<1>5. CASE StreamCloses \/ StreamFails \/ Reconnect
  <2>1. /\ run = "ncs" /\ loader' \in {"delay", "gone", "connect"}
        /\ UNCHANGED <<newest, run, info, conn>>
    BY <1>5 DEF StreamCloses, StreamFails, Reconnect, InNcs, serviceVars
  <2> QED BY <2>1 DEF NewestInv, AddressInv, StreamInv, HashInv, LastInv, Streaming
<1>6. CASE StopWorkers
  <2>1. UNCHANGED <<serviceVars, loaderVars, running, config>>
    BY <1>6 DEF StopWorkers, InNcs
  <2> QED BY <1>0, <2>1, KeptNewestInv DEF serviceVars, loaderVars, NewestInv, AddressInv
<1>7. CASE Configure
  <2>1. PICK c \in Config :
           /\ config' = c
           /\ IF Streaming /\ conn = newest
              THEN stream' = Append(stream, c)
              ELSE UNCHANGED stream
    BY <1>7 DEF Configure, Streaming
  <2>2. UNCHANGED <<newest, run, info, conn, loader, lastHash, received, running>>
    BY <1>7 DEF Configure, serviceVars
  <2>3. Append(stream, c) # <<>> /\ Append(stream, c)[Len(Append(stream, c))] = c
    BY <1>0
  <2> QED BY <2>1, <2>2, <2>3 DEF NewestInv, AddressInv, StreamInv, HashInv, LastInv, Streaming, LastUnderWay
<1> QED BY <1>1, <1>2, <1>3, <1>4, <1>5, <1>6, <1>7 DEF Loader

LEMMA NextNewestInv == IInv /\ NewestInv /\ [Next]_vars => IInv' /\ NewestInv'
<1> SUFFICES ASSUME IInv, NewestInv, [Next]_vars PROVE IInv' /\ NewestInv'
  OBVIOUS
<1>1. CASE UNCHANGED vars
  <2>1. IInv'
    BY <1>1 DEF IInv, TypeOK, ErrorsInv, vars, serviceVars, loaderVars
  <2>2. NewestInv'
    BY <1>1 DEF NewestInv, AddressInv, StreamInv, HashInv, LastInv, Streaming, LastUnderWay,
                vars, serviceVars, loaderVars
  <2> QED BY <2>1, <2>2
<1>2. CASE Next
  BY <1>2, MainLoopIInv, NcsIInv, MainLoopNewestInv, NcsNewestInv DEF Next
<1> QED BY <1>1, <1>2

(* Whenever the stream has brought everything, runWorkers has taken the     *)
(* configuration of NetworkControl: for any number of moves, of lost        *)
(* streams, of configurations and of messages under way.                    *)
THEOREM NewestIsTakenCorrect == Spec => []NewestIsTaken
<1>1. NewestInv => NewestIsTaken
  BY DEF NewestInv, StreamInv, HashInv, LastInv, Streaming, LastUnderWay, NewestIsTaken
<1> QED BY <1>1, InitIInv, InitNewestInv, NextNewestInv, PTL DEF Spec

-----------------------------------------------------------------------------
(* An NCS that runs is cancelled by discovery exactly if its address is no  *)
(* longer the one of NetworkControl: it is once nwControlChanged has called *)
(* the function it read (service.go), unless it read it too early (see      *)
(* ChangeMissed), and an NCS of the newest address never is, although the   *)
(* callback runs at any moment of the main loop and the function may be     *)
(* that of an NCS that has ended.                                           *)
CancelledIfOutdated ==
    run = "ncs" =>
        /\ cancelled => conn # newest
        /\ conn \notin {newest, None} => cancelled \/ ChangeMissed \/ callback = "read"

(* A change is with the callback until the main loop takes it, so that the  *)
(* main loop knows the newest address whenever there is no callback.        *)
InfoInv ==
    /\ callback = "idle" => info \in {newest, None}
    /\ callback # "idle" => info < newest

(* An NCS is run with the address that was known last, or with none.        *)
ConnInv == run \in {"start", "ncs"} => conn \in {info, None}

(* What the callback has called, it has read of the NCS that still runs.    *)
CancelInv ==
    /\ callback = "sending" /\ seen = "current" => cancelled
    /\ run = "ncs" /\ cancelled => callback = "sending"

FollowInv == InfoInv /\ ConnInv /\ CancelInv

LEMMA NextFollowInv ==
    ASSUME IInv, AddressInv, FollowInv, [Next]_vars
    PROVE  FollowInv'
<1>0. newest \in Nat /\ conn \in Nat /\ info \in Nat /\ info <= newest
  BY BoundsAssumption DEF IInv, TypeOK, Address, None, AddressInv
<1> USE DEF FollowInv, InfoInv, ConnInv, CancelInv
<1>1. CASE Announce
  <2>1. /\ newest' = newest + 1 /\ callback = "idle" /\ callback' = "read"
        /\ UNCHANGED <<run, info, conn, cancelled>>
    BY <1>1 DEF Announce
  <2> QED BY <1>0, <2>1
<1>2. CASE CancelOldNcs
  BY <1>2 DEF CancelOldNcs
<1>3. CASE ReceiveChange
  BY <1>3 DEF ReceiveChange
<1>4. CASE SelectTimeout \/ SelectDone
  BY <1>4 DEF SelectTimeout, SelectDone
<1>5. CASE Dial
  BY <1>5 DEF Dial
<1>6. CASE DialFails
  <2>1. /\ run' = "start" /\ conn' = None /\ info' = None
        /\ UNCHANGED <<newest, callback, seen, cancelled>>
    BY <1>6 DEF DialFails
  <2>2. info < newest => None < newest
    BY <1>0 DEF None
  <2> QED BY <2>1, <2>2
<1>7. CASE StartNcs
  BY <1>7 DEF StartNcs
<1>8. CASE NcsReturns
  <2>1. /\ run' \in {"select", "returned"} /\ cancelled' = TRUE
        /\ UNCHANGED <<newest, callback, seen, info, conn>>
    BY <1>8 DEF NcsReturns
  <2> QED BY <2>1
<1>9. CASE ConnectPanics
  <2>1. run' = "crashed" /\ UNCHANGED <<newest, callback, seen, info, conn, cancelled>>
    BY <1>9 DEF ConnectPanics
  <2> QED BY <2>1
<1>10. CASE UNCHANGED serviceVars
  BY <1>10 DEF serviceVars
<1>11. Loader \/ StopWorkers \/ Configure \/ Stop \/ UNCHANGED vars
           => ConnectPanics \/ UNCHANGED serviceVars
  BY DEF Loader, Connect, Receive, Deliver, StreamCloses, StreamFails, Reconnect, StopWorkers,
         InNcs, Configure, Stop, vars
<1> QED
  BY <1>1, <1>2, <1>3, <1>4, <1>5, <1>6, <1>7, <1>8, <1>9, <1>10, <1>11 DEF Next, MainLoop

(* CancelledIfOutdated holds for any number of moves of NetworkControl,     *)
(* failed dials and instances, however the callback and the main loop       *)
(* interleave.                                                              *)
THEOREM CancelledIfOutdatedCorrect == Spec => []CancelledIfOutdated
<1>1. Init => FollowInv
  BY DEF Init, FollowInv, InfoInv, ConnInv, CancelInv
<1>2. FollowInv /\ IInv /\ AddressInv => CancelledIfOutdated
  <2> SUFFICES ASSUME FollowInv, IInv, AddressInv, run = "ncs" PROVE
        /\ cancelled => conn # newest
        /\ conn \notin {newest, None} => cancelled \/ ChangeMissed \/ callback = "read"
    BY DEF CancelledIfOutdated
  <2>0. /\ newest \in Nat /\ info \in Nat /\ conn \in {info, None}
        /\ callback \in {"idle", "read", "sending"} /\ seen \in {"none", "current"}
    BY BoundsAssumption DEF IInv, TypeOK, Address, None, FollowInv, ConnInv
  <2>1. cancelled => conn # newest
    <3>1. cancelled => info < newest
      BY DEF FollowInv, CancelInv, InfoInv
    <3> QED BY <2>0, <3>1 DEF None
  <2>2. conn \notin {newest, None} => callback # "idle"
    BY <2>0 DEF FollowInv, InfoInv
  <2> QED BY <2>0, <2>1, <2>2 DEF FollowInv, CancelInv, ChangeMissed
<1>3. IInv /\ NewestInv /\ FollowInv /\ [Next]_vars => FollowInv'
  BY NextFollowInv DEF NewestInv
<1>4. NewestInv => AddressInv
  BY DEF NewestInv
<1> QED BY <1>1, <1>2, <1>3, <1>4, InitIInv, InitNewestInv, NextNewestInv, PTL DEF Spec
=============================================================================
