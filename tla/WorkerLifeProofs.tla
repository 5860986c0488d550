-------------------------- MODULE WorkerLifeProofs --------------------------
(***************************************************************************)
(* Proofs about WorkerLife, for any pins, inversions, requests and numbers  *)
(* of failures: the type invariant, that a worker that has closed its       *)
(* mcp23017 leaves its pins undriven, and that a switch takes effect.       *)
(*                                                                         *)
(* Goroutines that process requests may still be there after Close, and go  *)
(* on to call Set. They do no harm because Set never changes the direction  *)
(* register, which Close has filled. A switch takes effect because the      *)
(* mutex keeps other requests out of it and its last four calls are of four *)
(* different pins: what one has done the next ones leave.                   *)
(*                                                                         *)
(* The last part is about the end of the group: LeaveInv ties what there is *)
(* of the group to its goroutines, and its end to a cancellation or a       *)
(* failure.                                                                 *)
(***************************************************************************)
EXTENDS WorkerLife, SequenceTheorems, TLAPS

(* c is a chip with these fields.                                           *)
Fields(c, kind, iodir, value, hwIodir, hwValue) ==
    /\ c \in Chip
    /\ c.kind = kind
    /\ c.iodir = iodir
    /\ c.value = value
    /\ c.hwIodir = hwIodir
    /\ c.hwValue = hwValue

LEMMA ChipType ==
    ASSUME NEW c \in Chip
    PROVE  /\ c.kind \in Kind
           /\ c.iodir \in SUBSET Pin /\ c.value \in SUBSET Pin
           /\ c.hwIodir \in SUBSET Pin /\ c.hwValue \in SUBSET Pin
  BY DEF Chip

LEMMA ExceptFields ==
    ASSUME NEW c \in Chip, NEW v \in SUBSET Pin
    PROVE  /\ Fields([c EXCEPT !.value = v], c.kind, c.iodir, v, c.hwIodir, c.hwValue)
           /\ Fields([c EXCEPT !.iodir = v], c.kind, v, c.value, c.hwIodir, c.hwValue)
           /\ Fields([c EXCEPT !.hwValue = v], c.kind, c.iodir, c.value, c.hwIodir, v)
           /\ Fields([c EXCEPT !.hwIodir = v], c.kind, c.iodir, c.value, v, c.hwValue)
  BY DEF Chip, Fields

LEMMA PinFacts ==
    /\ BankB \in SUBSET Pin
    /\ \A pin \in Pin : Mcp23017Register(pin) \in SUBSET Pin
    /\ ChipKind \in {"mcp23017", "carSensor"}
  BY MagneticAssumption DEF Mcp23017Register

LEMMA CopyType ==
    ASSUME NEW n \in SUBSET Pin, NEW o \in SUBSET Pin, NEW r \in SUBSET Pin
    PROVE  Copied(n, o, r) \in SUBSET Pin
  BY DEF Copied

LEMMA WriteFields ==
    ASSUME NEW c \in Chip, NEW r \in SUBSET Pin
    PROVE  /\ Fields(WriteValue(c, r), c.kind, c.iodir, c.value, c.hwIodir,
                     Copied(c.value, c.hwValue, r))
           /\ Fields(WriteIodir(c, r), c.kind, c.iodir, c.value,
                     Copied(c.iodir, c.hwIodir, r), c.hwValue)
<1>1. /\ Copied(c.value, c.hwValue, r) \in SUBSET Pin
      /\ Copied(c.iodir, c.hwIodir, r) \in SUBSET Pin
  BY ChipType, CopyType
<1>2. /\ WriteValue(c, r) = [c EXCEPT !.hwValue = Copied(c.value, c.hwValue, r)]
      /\ WriteIodir(c, r) = [c EXCEPT !.hwIodir = Copied(c.iodir, c.hwIodir, r)]
  BY DEF WriteValue, WriteIodir
<1> QED BY <1>1, <1>2, ExceptFields

(* d is what an operation may make of the chip c, with the directions kept. *)
KindKept(c, d) == d \in Chip /\ d.kind = c.kind
DirectionsKept(c, d) == KindKept(c, d) /\ d.hwIodir = c.hwIodir

LEMMA AttemptsEffect ==
    ASSUME NEW a, NEW b, NEW w, NEW o \in Attempts(a, b, w)
    PROVE  o.chip \in {a, b, w} /\ (o.kind = "ok" => o.chip = w)
  BY DEF Attempts, Outcome

(* Set leaves the directions alone.                                         *)
LEMMA SetPinKeeps ==
    ASSUME NEW c \in Chip, c.kind \in {"mcp23017", "carSensor"}, NEW pin \in Pin,
           NEW high \in BOOLEAN, NEW o \in SetPin(c, pin, high)
    PROVE  DirectionsKept(c, o.chip)
<1> DEFINE v == With(c.value, pin, high)
           cached == [c EXCEPT !.value = v]
<1>1. v \in SUBSET Pin
  BY ChipType DEF With
<1>2. Fields(cached, c.kind, c.iodir, v, c.hwIodir, c.hwValue)
  BY <1>1, ExceptFields
<1>3. [c EXCEPT !.value = With(@, pin, high)] = cached
  OBVIOUS
<1> HIDE DEF cached
<1>4. ASSUME NEW r \in SUBSET Pin
      PROVE  DirectionsKept(c, WriteValue(cached, r))
  BY <1>2, WriteFields DEF Fields, DirectionsKept, KindKept
<1>5. DirectionsKept(c, c) /\ DirectionsKept(c, cached)
  BY <1>2 DEF Fields, DirectionsKept, KindKept
<1>6. CASE c.kind = "mcp23017"
  <2>1. o \in McpSet(c, pin, high, Mcp23017Register(pin))
    BY <1>6 DEF SetPin, Mcp23017Set
  <2>2. CASE pin \in c.iodir
    BY <1>5, <2>1, <2>2 DEF McpSet, Outcome
  <2>3. CASE pin \notin c.iodir
    <3>1. o \in Attempts(c, cached, WriteValue(cached, Mcp23017Register(pin)))
      BY <1>3, <2>1, <2>3 DEF McpSet
    <3>2. DirectionsKept(c, WriteValue(cached, Mcp23017Register(pin)))
      BY <1>4, PinFacts
    <3> QED BY <1>5, <3>1, <3>2, AttemptsEffect
  <2> QED BY <2>2, <2>3
<1>7. CASE c.kind = "carSensor"
  <2>1. o \in Attempts(c, cached, WriteValue(cached, CarSensorRegister(pin)))
    BY <1>3, <1>7 DEF SetPin, CarSensorSet
  <2>2. DirectionsKept(c, WriteValue(cached, CarSensorRegister(pin)))
    BY <1>4, PinFacts DEF CarSensorRegister
  <2> QED BY <1>5, <2>1, <2>2, AttemptsEffect
<1> QED BY <1>6, <1>7

LEMMA SetDirectionKeeps ==
    ASSUME NEW c \in Chip, c.kind \in {"mcp23017", "carSensor"}, NEW pin \in Pin,
           NEW o \in SetDirection(c, pin, FALSE)
    PROVE  KindKept(c, o.chip)
<1>1. CASE c.kind = "mcp23017"
  <2> DEFINE i == With(c.iodir, pin, FALSE)
             cached == [c EXCEPT !.iodir = i]
  <2>1. i \in SUBSET Pin
    BY ChipType DEF With
  <2>2. Fields(cached, c.kind, i, c.value, c.hwIodir, c.hwValue)
    BY <2>1, ExceptFields
  <2>3. [c EXCEPT !.iodir = With(@, pin, FALSE)] = cached
    OBVIOUS
  <2> HIDE DEF cached
  <2>4. o \in Attempts(c, cached, WriteIodir(cached, Mcp23017Register(pin)))
    BY <1>1, <2>3 DEF SetDirection, Mcp23017SetDirection, McpSetDirection
  <2>5. KindKept(c, WriteIodir(cached, Mcp23017Register(pin)))
    BY <2>2, PinFacts, WriteFields DEF Fields, KindKept
  <2>6. KindKept(c, c) /\ KindKept(c, cached)
    BY <2>2 DEF Fields, KindKept
  <2> QED BY <2>4, <2>5, <2>6, AttemptsEffect
<1>2. CASE c.kind = "carSensor"
  BY <1>2 DEF SetDirection, CarSensorSetDirection, Outcome, KindKept
<1> QED BY <1>1, <1>2

(* Close of an mcp23017 makes all pins inputs, on the chip too.             *)
LEMMA CloseMakesInputs ==
    ASSUME NEW c \in Chip, c.kind \in {"mcp23017", "carSensor"}, NEW o \in CloseChip(c)
    PROVE  /\ KindKept(c, o.chip)
           /\ o.kind = "ok" /\ c.kind = "mcp23017" => o.chip.hwIodir = Pin
<1>0. KindKept(c, c)
  BY DEF KindKept
<1>1. CASE c.kind = "mcp23017"
  <2> DEFINE cached == [c EXCEPT !.iodir = Pin]
             first  == WriteIodir(cached, Pin \ BankB)
             both   == WriteIodir(first, BankB)
  <2>1. o \in Attempts(c, cached, both) \cup {Outcome(first, "error")}
    BY <1>1 DEF CloseChip, Mcp23017Close
  <2>2. Fields(cached, c.kind, Pin, c.value, c.hwIodir, c.hwValue)
    BY ExceptFields
  <2> HIDE DEF cached
  <2>3. Fields(first, c.kind, Pin, c.value, Copied(Pin, c.hwIodir, Pin \ BankB), c.hwValue)
    BY <2>2, WriteFields DEF Fields
  <2> HIDE DEF first
  <2>4. Fields(both, c.kind, Pin, c.value,
               Copied(Pin, Copied(Pin, c.hwIodir, Pin \ BankB), BankB), c.hwValue)
    BY <2>3, PinFacts, WriteFields DEF Fields
  <2> HIDE DEF both
  <2>5. Copied(Pin, Copied(Pin, c.hwIodir, Pin \ BankB), BankB) = Pin
    BY PinFacts, ChipType DEF Copied
  <2>6. KindKept(c, cached) /\ KindKept(c, first) /\ KindKept(c, both) /\ both.hwIodir = Pin
    BY <2>2, <2>3, <2>4, <2>5 DEF Fields, KindKept
  <2>7. CASE o = Outcome(first, "error")
    BY <2>6, <2>7 DEF Outcome
  <2>8. CASE o \in Attempts(c, cached, both)
    BY <1>0, <2>6, <2>8, AttemptsEffect
  <2> QED BY <2>1, <2>7, <2>8
<1>2. CASE c.kind = "carSensor"
  <2> DEFINE cached == [c EXCEPT !.value = {}]
             first  == WriteValue(cached, Pin \ BankB)
             both   == WriteValue(first, BankB)
  <2>1. o \in Attempts(c, cached, both) \cup {Outcome(first, "error")}
    BY <1>2 DEF CloseChip, CarSensorClose
  <2>2. KindKept(c, cached)
    BY ExceptFields DEF Fields, KindKept
  <2> HIDE DEF cached
  <2>3. KindKept(c, first)
    <3>1. Pin \ BankB \in SUBSET Pin
      OBVIOUS
    <3> QED BY <2>2, <3>1, WriteFields DEF Fields, KindKept
  <2> HIDE DEF first
  <2>4. KindKept(c, both)
    BY <2>3, PinFacts, WriteFields DEF Fields, KindKept
  <2> HIDE DEF both
  <2>5. CASE o = Outcome(first, "error")
    BY <1>2, <2>3, <2>5 DEF Outcome
  <2>6. CASE o \in Attempts(c, cached, both)
    BY <1>0, <1>2, <2>2, <2>4, <2>6, AttemptsEffect
  <2> QED BY <2>1, <2>5, <2>6
<1> QED BY <1>1, <1>2

-----------------------------------------------------------------------------
(* Pins are made outputs in this order.                                     *)
Prefix == {{}, {StraightA}, {StraightA, StraightB}, {StraightA, StraightB, OffA}}

(* Where the object is by where the worker is.                              *)
StageInv ==
    /\ worker \in {"openBus", "newDevices", "configureDevices", "newObjects"} => object = "none"
    /\ object = "none" => configured = {}
    /\ object = "configure" => configured \in Prefix

KindInv == chip.kind = ChipKind

ClosedInv == worker = "closed" /\ ChipKind = "mcp23017" => chip.hwIodir = Pin

IInv == TypeOK /\ StageInv /\ KindInv /\ ClosedInv

LEMMA TypeFacts ==
    ASSUME IInv
    PROVE  /\ chip \in Chip /\ chip.kind \in {"mcp23017", "carSensor"}
           /\ failures \in Nat /\ MaxFailures \in Nat /\ failures <= MaxFailures
           /\ todo \in Seq(SetCall) /\ Len(todo) \in Nat /\ Len(todo) <= 8
  BY PinFacts, MagneticAssumption DEF IInv, TypeOK, MagneticTypeOK, KindInv

LEMMA FailType == IInv /\ Fail => failures' \in 0..MaxFailures
  BY TypeFacts DEF Fail

-----------------------------------------------------------------------------
LEMMA InitIInv == Init => IInv
<1> SUFFICES ASSUME Init PROVE IInv
  OBVIOUS
<1>1. chip \in FreshChip /\ chip.kind = ChipKind
  BY DEF Init, MagneticInit
<1>2. chip \in Chip
  <2>1. ASSUME NEW k \in Kind, NEW i \in SUBSET Pin, NEW v \in SUBSET Pin,
               NEW hi \in SUBSET Pin, NEW hv \in SUBSET Pin
        PROVE  ChipOf(k, i, v, hi, hv) \in Chip
    BY DEF Chip, ChipOf
  <2>2. CASE chip \in FreshMcp23017
    BY <2>1, <2>2 DEF FreshMcp23017, Kind
  <2>3. CASE chip \in FreshMcp23008
    BY <2>1, <2>3 DEF FreshMcp23008, Kind
  <2>4. CASE chip \in FreshPcf8574
    BY <2>1, <2>4 DEF FreshPcf8574, Kind
  <2>5. CASE chip \in FreshCarSensor
    BY <2>1, <2>5 DEF FreshCarSensor, Kind
  <2>6. CASE chip \in FreshLocal
    <3>1. PICK driven \in SUBSET Pin : \E left \in SUBSET Pin :
             chip = ChipOf("local", Pin, {}, Pin \ driven, left)
      BY <2>6 DEF FreshLocal
    <3> QED BY <2>1, <3>1 DEF Kind
  <2> QED BY <1>1, <2>2, <2>3, <2>4, <2>5, <2>6 DEF FreshChip
<1>3. /\ todo \in Seq(SetCall) /\ Len(todo) <= 8 /\ failures \in 0..MaxFailures
  BY MagneticAssumption DEF Init, MagneticInit
<1>4. MagneticTypeOK
  BY <1>2, <1>3 DEF Init, MagneticInit, MagneticTypeOK, Magnet
<1>5. TypeOK
  BY <1>4 DEF Init, TypeOK, SwitchObject
<1>6. StageInv /\ KindInv /\ ClosedInv
  BY <1>1 DEF Init, MagneticInit, StageInv, KindInv, ClosedInv
<1> QED BY <1>5, <1>6 DEF IInv

-----------------------------------------------------------------------------
(* The calls of a switch.                                                   *)
LEMMA CallType ==
    ASSUME NEW pin \in Pin, NEW value \in BOOLEAN
    PROVE  Call(pin, value) \in SetCall
  BY DEF Call, SetCall

LEMMA PairType ==
    ASSUME NEW a \in SetCall, NEW b \in SetCall
    PROVE  <<a, b>> \in Seq(SetCall) /\ Len(<<a, b>>) = 2
  OBVIOUS

LEMMA ConcatType ==
    ASSUME NEW s \in Seq(SetCall), NEW t \in Seq(SetCall)
    PROVE  s \o t \in Seq(SetCall) /\ Len(s \o t) = Len(s) + Len(t)
  OBVIOUS

LEMMA MagnetPins ==
    ASSUME NEW m \in Magnet
    PROVE  PinA(m) \in Pin /\ PinB(m) \in Pin
  BY DEF PinA, PinB, Pin

(* s is a sequence of n calls.                                              *)
Calls(s, n) == s \in Seq(SetCall) /\ Len(s) = n

LEMMA DeactivateMagnetType ==
    ASSUME NEW m \in Magnet
    PROVE  Calls(DeactivateMagnet(m), 2)
<1>1. Call(PinA(m), FALSE) \in SetCall /\ Call(PinB(m), FALSE) \in SetCall
  BY MagnetPins, CallType
<1> QED BY <1>1, PairType DEF DeactivateMagnet, Calls

LEMMA ActivateMagnetType ==
    ASSUME NEW m \in Magnet, NEW forward \in BOOLEAN
    PROVE  Calls(ActivateMagnet(m, forward), 2)
<1> DEFINE f == forward # (m \in InvertPins)
<1>1. f \in BOOLEAN /\ (~f) \in BOOLEAN
  OBVIOUS
<1> HIDE DEF f
<1>2. Call(PinA(m), f) \in SetCall /\ Call(PinB(m), ~f) \in SetCall
  BY <1>1, MagnetPins, CallType
<1>3. ActivateMagnet(m, forward) = <<Call(PinA(m), f), Call(PinB(m), ~f)>>
  BY DEF ActivateMagnet, f
<1> QED BY <1>2, <1>3, PairType DEF Calls

LEMMA SwitchToType ==
    ASSUME NEW m \in Magnet, NEW enabled \in BOOLEAN
    PROVE  SwitchTo(m, enabled) \in Seq(SetCall) /\ Len(SwitchTo(m, enabled)) <= 8
<1> DEFINE off1  == DeactivateMagnet("straight")
           off2  == DeactivateMagnet("off")
           back  == ActivateMagnet(Opposite(m), FALSE)
           forth == ActivateMagnet(m, TRUE)
<1>1. "straight" \in Magnet /\ "off" \in Magnet /\ Opposite(m) \in Magnet
  BY DEF Magnet, Opposite
<1>2. Calls(off1, 2) /\ Calls(off2, 2)
  BY <1>1, DeactivateMagnetType
<1>3. Calls(back, 2) /\ Calls(forth, 2)
  <2>1. \A n \in Magnet : \A f \in BOOLEAN : Calls(ActivateMagnet(n, f), 2)
    BY ActivateMagnetType
  <2> QED BY <1>1, <2>1
<1>4. SwitchTo(m, enabled) = (off1 \o off2) \o (IF enabled THEN back \o forth ELSE <<>>)
  BY DEF SwitchTo
<1> HIDE DEF off1, off2, back, forth
<1>5. Calls(off1 \o off2, 4) /\ Calls(back \o forth, 4)
  <2>1. off1 \in Seq(SetCall) /\ off2 \in Seq(SetCall) /\ Len(off1) = 2 /\ Len(off2) = 2
    BY <1>2 DEF Calls
  <2>2. back \in Seq(SetCall) /\ forth \in Seq(SetCall) /\ Len(back) = 2 /\ Len(forth) = 2
    BY <1>3 DEF Calls
  <2>3. off1 \o off2 \in Seq(SetCall) /\ Len(off1 \o off2) = 2 + 2
    BY <2>1, ConcatType
  <2>4. back \o forth \in Seq(SetCall) /\ Len(back \o forth) = 2 + 2
    BY <2>2, ConcatType
  <2> QED BY <2>3, <2>4 DEF Calls
<1>6. CASE enabled = TRUE
  <2>1. Calls((off1 \o off2) \o (back \o forth), 8)
    BY <1>5, ConcatType DEF Calls
  <2> QED BY <1>4, <1>6, <2>1 DEF Calls
<1>7. CASE enabled = FALSE
  <2>1. Calls(<<>>, 0)
    BY DEF Calls
  <2>2. Calls((off1 \o off2) \o <<>>, 4)
    BY <1>5, <2>1, ConcatType DEF Calls
  <2> QED BY <1>4, <1>7, <2>2 DEF Calls
<1> QED BY <1>6, <1>7

-----------------------------------------------------------------------------
(* Steps of the worker and of its goroutines that leave the object alone.   *)
LEMMA WorkerStepIInv ==
    IInv /\ (OpenBus \/ NewDevices \/ ConfigureDevices \/ NewObjects \/ StartGroup \/ GroupReturns)
    => IInv'
<1> SUFFICES ASSUME IInv, OpenBus \/ NewDevices \/ ConfigureDevices \/ NewObjects \/ StartGroup
                          \/ GroupReturns
             PROVE  IInv'
  OBVIOUS
<1>0. Fail => failures' \in 0..MaxFailures
  BY FailType
<1>1. MagneticTypeOK'
  BY <1>0 DEF IInv, TypeOK, MagneticTypeOK, OpenBus, NewDevices, ConfigureDevices, NewObjects,
         StartGroup, GroupReturns, magnetVars, RunPc
<1>2. TypeOK'
  BY <1>1 DEF IInv, TypeOK, OpenBus, NewDevices, ConfigureDevices, NewObjects,
         StartGroup, GroupReturns, StopFast, Goroutine
<1>3. StageInv'
  BY DEF IInv, StageInv, Prefix, OpenBus, NewDevices, ConfigureDevices, NewObjects,
         StartGroup, GroupReturns, StopFast, magnetVars
<1>4. chip' = chip /\ worker' # "closed"
  BY DEF OpenBus, NewDevices, ConfigureDevices, NewObjects, StartGroup, GroupReturns,
         StopFast, magnetVars
<1>5. KindInv' /\ ClosedInv'
  BY <1>4 DEF IInv, KindInv, ClosedInv
<1> QED BY <1>2, <1>3, <1>5 DEF IInv

LEMMA GoroutineStepIInv ==
    IInv /\ (BroadcasterFails \/ WaitersReturn \/ TypeSubscribes \/ TypeReturns \/ Ping \/ Cancel)
    => IInv'
<1> SUFFICES ASSUME IInv, BroadcasterFails \/ WaitersReturn \/ TypeSubscribes \/ TypeReturns
                          \/ Ping \/ Cancel
             PROVE  IInv'
  OBVIOUS
<1>0. Fail => failures' \in 0..MaxFailures
  BY FailType
<1>1. /\ failures' \in 0..MaxFailures
      /\ UNCHANGED <<chip, object, configured, waiting, working, todo, sendActualNeeded,
                     requestedDirection, reported, worker>>
  BY <1>0 DEF IInv, TypeOK, MagneticTypeOK, BroadcasterFails, WaitersReturn, TypeSubscribes,
         TypeReturns, Ping, Cancel, magnetVars
<1>2. MagneticTypeOK'
  BY <1>1 DEF IInv, TypeOK, MagneticTypeOK
<1>3. TypeOK'
  BY <1>1, <1>2 DEF IInv, TypeOK, BroadcasterFails, WaitersReturn, TypeSubscribes,
         TypeReturns, Ping, Cancel, Return
<1>4. StageInv' /\ KindInv' /\ ClosedInv'
  BY <1>1 DEF IInv, StageInv, KindInv, ClosedInv, Prefix
<1> QED BY <1>3, <1>4 DEF IInv

LEMMA CloseDevicesIInv == IInv /\ CloseDevices => IInv'
<1> SUFFICES ASSUME IInv, CloseDevices PROVE IInv'
  OBVIOUS
<1>1. PICK o \in CloseChip(chip) :
         /\ chip' = o.chip
         /\ IF o.kind = "ok" THEN worker' = "closed" /\ UNCHANGED failures
                             ELSE worker' = "notClosed" /\ Fail
  BY DEF CloseDevices
<1>2. /\ chip' \in Chip /\ chip'.kind = chip.kind
      /\ o.kind = "ok" /\ chip.kind = "mcp23017" => chip'.hwIodir = Pin
  BY <1>1, TypeFacts, CloseMakesInputs DEF KindKept
<1>3. failures' \in 0..MaxFailures
  BY <1>1, FailType DEF IInv, TypeOK, MagneticTypeOK
<1>4. MagneticTypeOK'
  BY <1>2, <1>3 DEF IInv, TypeOK, MagneticTypeOK, CloseDevices
<1>5. TypeOK'
  BY <1>1, <1>4 DEF IInv, TypeOK, CloseDevices
<1>6. StageInv'
  BY <1>1 DEF IInv, StageInv, Prefix, CloseDevices
<1>7. KindInv' /\ ClosedInv'
  BY <1>1, <1>2 DEF IInv, KindInv, ClosedInv
<1> QED BY <1>5, <1>6, <1>7 DEF IInv

LEMMA PinsDiffer ==
    /\ StraightA # StraightB /\ StraightA # OffA /\ StraightA # OffB
    /\ StraightB # OffA /\ StraightB # OffB /\ OffA # OffB
<1> DEFINE order == <<StraightA, StraightB, OffA, OffB>>
<1>1. \A p, q \in 1..4 : p # q => order[p] # order[q]
  BY MagneticAssumption
<1>2. order[1] = StraightA /\ order[2] = StraightB /\ order[3] = OffA /\ order[4] = OffB
  OBVIOUS
<1> HIDE DEF order
<1>3. /\ order[1] # order[2] /\ order[1] # order[3] /\ order[1] # order[4]
      /\ order[2] # order[3] /\ order[2] # order[4] /\ order[3] # order[4]
  BY <1>1
<1> QED BY <1>2, <1>3

(* The pins that are still to be made outputs are there.                    *)
LEMMA NextPin ==
    ASSUME configured \in Prefix
    PROVE  LET order == <<StraightA, StraightB, OffA, OffB>>
               next  == CHOOSE i \in 1..4 : /\ order[i] \notin configured
                                            /\ \A j \in 1..(i - 1) : order[j] \in configured
           IN  /\ order[next] \in Pin
               /\ next # 4 => configured \cup {order[next]} \in Prefix
               /\ next = 4 => configured \cup {order[next]} = Pin
<1> DEFINE order == <<StraightA, StraightB, OffA, OffB>>
           First(i) == /\ order[i] \notin configured
                       /\ \A j \in 1..(i - 1) : order[j] \in configured
<1>0. /\ order[1] = StraightA /\ order[2] = StraightB /\ order[3] = OffA /\ order[4] = OffB
      /\ StraightA # StraightB /\ StraightA # OffA /\ StraightA # OffB
      /\ StraightB # OffA /\ StraightB # OffB /\ OffA # OffB
  BY PinsDiffer
<1> HIDE DEF order
<1>1. \E i \in 1..4 : First(i)
  <2>1. CASE configured = {}
    <3>1. First(1)
      BY <1>0, <2>1
    <3> QED BY <3>1
  <2>2. CASE configured = {StraightA}
    <3>1. \A j \in 1..(2 - 1) : j = 1
      OBVIOUS
    <3>2. First(2)
      BY <1>0, <2>2, <3>1
    <3> QED BY <3>2
  <2>3. CASE configured = {StraightA, StraightB}
    <3>1. \A j \in 1..(3 - 1) : j = 1 \/ j = 2
      OBVIOUS
    <3>2. First(3)
      BY <1>0, <2>3, <3>1
    <3> QED BY <3>2
  <2>4. CASE configured = {StraightA, StraightB, OffA}
    <3>1. \A j \in 1..(4 - 1) : j = 1 \/ j = 2 \/ j = 3
      OBVIOUS
    <3>2. First(4)
      BY <1>0, <2>4, <3>1
    <3> QED BY <3>2
  <2> QED BY <2>1, <2>2, <2>3, <2>4 DEF Prefix
<1>2. ASSUME NEW n \in 1..4, First(n), n # 4
      PROVE  configured \cup {order[n]} \in Prefix
  <2>1. CASE n = 1
    BY <1>0, <1>2, <2>1 DEF Prefix
  <2>2. CASE n = 2
    <3>1. order[1] \in configured
      BY <1>2, <2>2
    <3> QED BY <1>0, <1>2, <2>2, <3>1 DEF Prefix
  <2>3. CASE n = 3
    <3>1. order[1] \in configured /\ order[2] \in configured
      BY <1>2, <2>3
    <3> QED BY <1>0, <1>2, <2>3, <3>1 DEF Prefix
  <2> QED BY <1>2, <2>1, <2>2, <2>3
<1>3. ASSUME NEW n \in 1..4
      PROVE  order[n] \in Pin
  BY <1>0, <1>3 DEF Pin
<1>6. ASSUME First(4)
      PROVE  configured \cup {order[4]} = Pin
  <2>1. order[1] \in configured /\ order[2] \in configured /\ order[3] \in configured
    BY <1>6
  <2>2. configured = {StraightA, StraightB, OffA}
    BY <1>0, <2>1 DEF Prefix
  <2> QED BY <1>0, <2>2 DEF Pin
<1> DEFINE next == CHOOSE i \in 1..4 : First(i)
<1>4. next \in 1..4 /\ First(next)
  BY <1>1
<1> HIDE DEF next
<1>5. /\ order[next] \in Pin
      /\ next # 4 => configured \cup {order[next]} \in Prefix
      /\ next = 4 => configured \cup {order[next]} = Pin
  BY <1>2, <1>3, <1>4, <1>6
<1> QED BY <1>5 DEF next, order

LEMMA ConfigureObjectsIInv == IInv /\ ConfigureObjects => IInv'
<1> SUFFICES ASSUME IInv, ConfigureObjects PROVE IInv'
  OBVIOUS
<1> DEFINE order == <<StraightA, StraightB, OffA, OffB>>
           next  == CHOOSE i \in 1..4 : /\ order[i] \notin configured
                                        /\ \A j \in 1..(i - 1) : order[j] \in configured
           pin   == order[next]
           last  == next = 4
<1>1. object = "configure" /\ worker = "configureObjects" /\ configured \in Prefix
  BY DEF ConfigureObjects, Configure, IInv, StageInv
<1>2. pin \in Pin /\ (~last => configured \cup {pin} \in Prefix)
  BY <1>1, NextPin
<1>3. \E o \in SetDirection(chip, pin, FALSE) :
         /\ chip' = o.chip
         /\ IF o.kind = "ok"
            THEN /\ configured' = configured \cup {pin}
                 /\ object' = IF last THEN "configured" ELSE "configure"
                 /\ UNCHANGED failures
            ELSE Fail /\ object' = "failed" /\ UNCHANGED configured
  BY DEF ConfigureObjects, Configure
<1>4. /\ UNCHANGED <<waiting, working, todo, sendActualNeeded, requestedDirection, reported>>
      /\ UNCHANGED <<worker, chipReady, running, subscribed, groupFailed, ctxDone, told>>
  BY DEF ConfigureObjects, Configure, workerVars
<1> HIDE DEF pin, last
<1>5. PICK o \in SetDirection(chip, pin, FALSE) :
         /\ chip' = o.chip
         /\ IF o.kind = "ok"
            THEN /\ configured' = configured \cup {pin}
                 /\ object' = IF last THEN "configured" ELSE "configure"
                 /\ UNCHANGED failures
            ELSE Fail /\ object' = "failed" /\ UNCHANGED configured
  BY <1>3
<1>6. chip' \in Chip /\ chip'.kind = chip.kind
  BY <1>2, <1>5, TypeFacts, SetDirectionKeeps DEF KindKept
<1>7. failures' \in 0..MaxFailures
  BY <1>5, FailType DEF IInv, TypeOK, MagneticTypeOK
<1>8. object' \in {"configured", "configure", "failed"} /\ configured' \subseteq Pin
  BY <1>2, <1>5 DEF IInv, TypeOK, MagneticTypeOK
<1>9. object' = "configure" => configured' \in Prefix
  BY <1>2, <1>5
<1>10. MagneticTypeOK'
  BY <1>4, <1>6, <1>7, <1>8 DEF IInv, TypeOK, MagneticTypeOK
<1>11. TypeOK'
  BY <1>4, <1>10 DEF IInv, TypeOK
<1>12. StageInv' /\ KindInv' /\ ClosedInv'
  BY <1>1, <1>4, <1>6, <1>8, <1>9 DEF IInv, StageInv, KindInv, ClosedInv
<1> QED BY <1>11, <1>12 DEF IInv

-----------------------------------------------------------------------------
(* Rounds of the object and requests.                                       *)
LEMMA ObjectRunsIInv == IInv /\ ObjectRuns => IInv'
<1> SUFFICES ASSUME IInv, ObjectRuns PROVE IInv'
  OBVIOUS
<1>1. /\ object \in RunPc /\ object' \in RunPc \cup {"done"}
      /\ sendActualNeeded' \in BOOLEAN
      /\ reported' \in {reported, requestedDirection}
      /\ UNCHANGED <<chip, configured, waiting, working, todo, requestedDirection, failures>>
  BY DEF IInv, TypeOK, MagneticTypeOK, ObjectRuns, Run, RunRound, RunPublishes, AfterRound, RunPc
<1>2. /\ running' \subseteq Goroutine
      /\ UNCHANGED <<worker, chipReady, subscribed, groupFailed, ctxDone, told>>
  BY DEF IInv, TypeOK, ObjectRuns, Return
<1>3. MagneticTypeOK'
  BY <1>1 DEF IInv, TypeOK, MagneticTypeOK
<1>4. TypeOK'
  BY <1>2, <1>3 DEF IInv, TypeOK
<1>5. StageInv' /\ KindInv' /\ ClosedInv'
  BY <1>1, <1>2 DEF IInv, StageInv, KindInv, ClosedInv, RunPc
<1> QED BY <1>4, <1>5 DEF IInv

LEMMA ArrivalIInv == IInv /\ (SetSwitchRequest \/ SetPowerRequest) => IInv'
<1> SUFFICES ASSUME IInv, SetSwitchRequest \/ SetPowerRequest PROVE IInv'
  OBVIOUS
<1>1. /\ waiting' \subseteq Request /\ sendActualNeeded' \in BOOLEAN
      /\ UNCHANGED <<chip, object, configured, working, todo, requestedDirection, reported,
                     failures>>
      /\ UNCHANGED <<worker, chipReady, running, subscribed, groupFailed, ctxDone, told>>
  BY DEF IInv, TypeOK, MagneticTypeOK, SetSwitchRequest, SetPowerRequest, ProcessPowerMessage,
         workerVars
<1>2. MagneticTypeOK'
  BY <1>1 DEF IInv, TypeOK, MagneticTypeOK
<1>3. TypeOK'
  BY <1>1, <1>2 DEF IInv, TypeOK
<1>4. StageInv' /\ KindInv' /\ ClosedInv'
  BY <1>1 DEF IInv, StageInv, KindInv, ClosedInv, Prefix
<1> QED BY <1>3, <1>4 DEF IInv

LEMMA RequestType ==
    ASSUME NEW r \in Request
    PROVE  r.direction \in Magnet /\ (r.isUsed \/ AlwaysEnabled) \in BOOLEAN
  BY MagneticAssumption DEF Request

LEMMA ProcessRequestsIInv == IInv /\ ProcessRequests => IInv'
<1> SUFFICES ASSUME IInv, ProcessRequests PROVE IInv'
  OBVIOUS
<1>1. /\ UNCHANGED <<worker, chipReady, running, subscribed, groupFailed, ctxDone, told>>
      /\ UNCHANGED <<object, configured, reported>>
  BY DEF ProcessRequests, ProcessMessage, SetMagnetPin, EndSwitch, workerVars
<1>2. ASSUME MagneticTypeOK', DirectionsKept(chip, chip')
      PROVE  IInv'
  <2>1. TypeOK'
    BY <1>1, <1>2 DEF IInv, TypeOK
  <2>2. StageInv' /\ KindInv' /\ ClosedInv'
    BY <1>1, <1>2 DEF IInv, StageInv, KindInv, ClosedInv, Prefix, DirectionsKept, KindKept
  <2> QED BY <2>1, <2>2 DEF IInv
<1>3. ASSUME NEW r \in Request, ProcessMessage(r)
      PROVE  IInv'
  <2>1. /\ waiting' = waiting \ {r} /\ working' = {r} /\ sendActualNeeded' = TRUE
        /\ UNCHANGED <<chip, object, configured, requestedDirection, reported, failures>>
    BY <1>3 DEF ProcessMessage
  <2>2. todo' \in Seq(SetCall) /\ Len(todo') <= 8
    <3> DEFINE enabled == r.isUsed \/ AlwaysEnabled
    <3>1. todo' = SwitchTo(r.direction, enabled)
      BY <1>3 DEF ProcessMessage
    <3>2. r.direction \in Magnet /\ enabled \in BOOLEAN
      BY RequestType
    <3> HIDE DEF enabled
    <3> QED BY <3>1, <3>2, SwitchToType
  <2>3. MagneticTypeOK'
    BY <2>1, <2>2 DEF IInv, TypeOK, MagneticTypeOK
  <2>4. DirectionsKept(chip, chip')
    BY <2>1 DEF IInv, TypeOK, MagneticTypeOK, DirectionsKept, KindKept
  <2> QED BY <1>2, <2>3, <2>4
<1>4. CASE SetMagnetPin(GroupDone)
  <2>1. PICK o \in SetPin(chip, Head(todo).pin, Head(todo).high) :
           /\ chip' = o.chip
           /\ IF o.kind = "ok"
              THEN todo' = Tail(todo) /\ UNCHANGED <<working, failures>>
              ELSE todo' = <<>> /\ Fail /\ Unlock
    BY <1>4 DEF SetMagnetPin
  <2>2. todo # <<>> /\ working # {}
    BY <1>4 DEF SetMagnetPin, IInv, TypeOK, MagneticTypeOK
  <2>3. Head(todo) \in SetCall /\ Tail(todo) \in Seq(SetCall) /\ Len(Tail(todo)) <= 8
    BY <2>2, TypeFacts
  <2>4. Head(todo).pin \in Pin /\ Head(todo).high \in BOOLEAN
    BY <2>3 DEF SetCall
  <2>5. DirectionsKept(chip, chip')
    BY <2>1, <2>4, TypeFacts, SetPinKeeps
  <2>6. chip' \in Chip
    BY <2>5 DEF DirectionsKept, KindKept
  <2>7. /\ todo' \in Seq(SetCall) /\ Len(todo') <= 8
        /\ working' = {} => todo' = <<>>
        /\ working' \subseteq Request
    <3>1. CASE o.kind = "ok"
      BY <2>1, <2>2, <2>3, <3>1 DEF IInv, TypeOK, MagneticTypeOK
    <3>2. CASE o.kind # "ok"
      BY <2>1, <3>2 DEF Unlock
    <3> QED BY <3>1, <3>2
  <2>8. failures' \in 0..MaxFailures
    BY <2>1, FailType DEF IInv, TypeOK, MagneticTypeOK
  <2>9. UNCHANGED <<object, configured, waiting, sendActualNeeded, requestedDirection, reported>>
    BY <1>4 DEF SetMagnetPin
  <2>10. MagneticTypeOK'
    BY <2>6, <2>7, <2>8, <2>9 DEF IInv, TypeOK, MagneticTypeOK
  <2> QED BY <1>2, <2>5, <2>10
<1>5. CASE EndSwitch
  <2>1. /\ todo' = <<>> /\ todo = <<>> /\ working' = {} /\ requestedDirection' \in Magnet
        /\ UNCHANGED <<chip, object, configured, waiting, sendActualNeeded, reported, failures>>
    BY <1>5, RequestType DEF EndSwitch, Unlock, IInv, TypeOK, MagneticTypeOK
  <2>2. MagneticTypeOK'
    BY <2>1 DEF IInv, TypeOK, MagneticTypeOK
  <2>3. DirectionsKept(chip, chip')
    BY <2>1 DEF IInv, TypeOK, MagneticTypeOK, DirectionsKept, KindKept
  <2> QED BY <1>2, <2>2, <2>3
<1> QED BY <1>3, <1>4, <1>5 DEF ProcessRequests

-----------------------------------------------------------------------------
LEMMA NextIInv == IInv /\ [Next]_vars => IInv'
<1> SUFFICES ASSUME IInv, [Next]_vars PROVE IInv'
  OBVIOUS
<1>1. CASE OpenBus \/ NewDevices \/ ConfigureDevices \/ NewObjects \/ StartGroup \/ GroupReturns
  BY <1>1, WorkerStepIInv
<1>2. CASE BroadcasterFails \/ WaitersReturn \/ TypeSubscribes \/ TypeReturns \/ Ping \/ Cancel
  BY <1>2, GoroutineStepIInv
<1>3. CASE CloseDevices
  BY <1>3, CloseDevicesIInv
<1>4. CASE ConfigureObjects
  BY <1>4, ConfigureObjectsIInv
<1>5. CASE ObjectRuns
  BY <1>5, ObjectRunsIInv
<1>6. CASE SetSwitchRequest \/ SetPowerRequest
  BY <1>6, ArrivalIInv
<1>7. CASE ProcessRequests
  BY <1>7, ProcessRequestsIInv
<1>8. CASE UNCHANGED vars
  <2>1. MagneticTypeOK'
    BY <1>8 DEF vars, magnetVars, IInv, TypeOK, MagneticTypeOK
  <2>2. TypeOK'
    BY <1>8, <2>1 DEF vars, workerVars, IInv, TypeOK
  <2>3. StageInv' /\ KindInv' /\ ClosedInv'
    BY <1>8 DEF vars, magnetVars, workerVars, IInv, StageInv, KindInv, ClosedInv, Prefix
  <2> QED BY <2>2, <2>3 DEF IInv
<1> QED BY <1>1, <1>2, <1>3, <1>4, <1>5, <1>6, <1>7, <1>8 DEF Next, WorkerRun

(* A worker with its chip, its object and the requests of API calls stays  *)
(* within its type: calls are left to do only while a request holds the    *)
(* mutex, never more than the eight of switchTo.                           *)
THEOREM TypeCorrect == Spec => []TypeOK
<1>1. Init => IInv
  BY InitIInv
<1>2. IInv /\ [Next]_vars => IInv'
  BY NextIInv
<1>3. IInv => TypeOK
  BY DEF IInv
<1> QED BY <1>1, <1>2, <1>3, PTL DEF Spec

(* Once Close of the devices has succeeded (worker.go, the deferred Close), *)
(* no pin of an mcp23017 is driven, at whatever point the worker left, and  *)
(* whatever requests that were still being processed go on to do.           *)
THEOREM ClosedIsSafeCorrect == Spec => []ClosedIsSafe
<1>1. Init => IInv
  BY InitIInv
<1>2. IInv /\ [Next]_vars => IInv'
  BY NextIInv
<1>3. IInv => ClosedIsSafe
  <2> SUFFICES ASSUME IInv, worker = "closed", chip.kind = "mcp23017"
               PROVE  DrivenHigh(chip) = {} /\ DrivenLow(chip) = {}
    BY DEF ClosedIsSafe
  <2>1. chip.hwIodir = Pin /\ chip.hwValue \in SUBSET Pin
    BY ChipType, TypeFacts DEF IInv, KindInv, ClosedInv
  <2> QED BY <2>1 DEF DrivenHigh, DrivenLow
<1> QED BY <1>1, <1>2, <1>3, PTL DEF Spec

-----------------------------------------------------------------------------
(* The argument for SwitchTakesEffect: which calls are still to be made, and*)
(* what those that went well have left in cache and chip.                   *)
Open == failures = 0 /\ worker \notin {"closed", "notClosed"}

(* The last four calls of a switch, of four different pins.                 *)
FinalCalls(r) == ActivateMagnet(Opposite(r.direction), FALSE) \o ActivateMagnet(r.direction, TRUE)

Drives(r) == r.isUsed \/ AlwaysEnabled

(* The call has its effect in the cache and on the chip.                    *)
Applied(c, call) ==
    /\ call.pin \in c.value <=> call.high
    /\ call.pin \in c.hwValue <=> call.high

(* Requests are accepted when all pins are outputs.                         *)
ReadyInv ==
    \/ waiting \cup working # {}
    \/ subscribed
    \/ "types" \in running
    \/ object \in {"configured", "done"} \cup RunPc
    => configured = Pin

(* The pins that Configure has made outputs are outputs.                    *)
DirectionInv ==
    Open => /\ configured \cap (chip.iodir \cup chip.hwIodir) = {}
            /\ ChipKind = "carSensor" => chip.iodir = {} /\ chip.hwIodir = {}

(* What is left to do ends with the final calls; those made are applied.    *)
PendingInv ==
    \A r \in working : \A j \in 1..4 :
        Drives(r) /\ j > 4 - Len(todo) => todo[Len(todo) - 4 + j] = FinalCalls(r)[j]

AppliedInv ==
    Open => \A r \in working : \A j \in 1..4 :
                Drives(r) /\ j <= 4 - Len(todo) => Applied(chip, FinalCalls(r)[j])

SwitchInv == IInv /\ ReadyInv /\ DirectionInv /\ PendingInv /\ AppliedInv

-----------------------------------------------------------------------------
(* What a Set that went well does to its pin and to the others.             *)
LEMMA SetPinApplies ==
    ASSUME NEW c \in Chip, c.kind \in {"mcp23017", "carSensor"}, NEW pin \in Pin,
           NEW high \in BOOLEAN, NEW o \in SetPin(c, pin, high), o.kind = "ok"
    PROVE  /\ o.chip.iodir = c.iodir /\ o.chip.hwIodir = c.hwIodir
           /\ Applied(o.chip, [pin |-> pin, high |-> high])
           /\ \A call \in SetCall : call.pin # pin /\ Applied(c, call) => Applied(o.chip, call)
<1> DEFINE v == With(c.value, pin, high)
           cached == [c EXCEPT !.value = v]
<1>1. v \in SUBSET Pin /\ (pin \in v <=> high) /\ \A q : q # pin => (q \in v <=> q \in c.value)
  BY ChipType DEF With
<1>2. Fields(cached, c.kind, c.iodir, v, c.hwIodir, c.hwValue)
  BY <1>1, ExceptFields
<1>3. [c EXCEPT !.value = With(@, pin, high)] = cached
  OBVIOUS
<1> HIDE DEF cached
<1>4. \E r \in SUBSET Pin : pin \in r /\ o.chip = WriteValue(cached, r)
  <2>1. CASE c.kind = "mcp23017"
    <3>1. o \in McpSet(c, pin, high, Mcp23017Register(pin))
      BY <2>1 DEF SetPin, Mcp23017Set
    <3>2. pin \notin c.iodir
      BY <3>1 DEF McpSet, Outcome
    <3>3. o \in Attempts(c, cached, WriteValue(cached, Mcp23017Register(pin)))
      BY <1>3, <3>1, <3>2 DEF McpSet
    <3>4. pin \in Mcp23017Register(pin) /\ Mcp23017Register(pin) \in SUBSET Pin
      BY PinFacts DEF Mcp23017Register
    <3> QED BY <3>3, <3>4, AttemptsEffect
  <2>2. CASE c.kind = "carSensor"
    <3>1. o \in Attempts(c, cached, WriteValue(cached, CarSensorRegister(pin)))
      BY <1>3, <2>2 DEF SetPin, CarSensorSet
    <3>2. pin \in CarSensorRegister(pin) /\ CarSensorRegister(pin) \in SUBSET Pin
      BY PinFacts DEF CarSensorRegister
    <3> QED BY <3>1, <3>2, AttemptsEffect
  <2> QED BY <2>1, <2>2
<1>5. PICK r \in SUBSET Pin : pin \in r /\ o.chip = WriteValue(cached, r)
  BY <1>4
<1>6. Fields(o.chip, c.kind, c.iodir, v, c.hwIodir, Copied(v, c.hwValue, r))
  BY <1>2, <1>5, WriteFields DEF Fields
<1>7. \A q : q \in Copied(v, c.hwValue, r) <=> IF q \in r THEN q \in v ELSE q \in c.hwValue
  BY DEF Copied
<1>8. Applied(o.chip, [pin |-> pin, high |-> high])
  BY <1>1, <1>5, <1>6, <1>7 DEF Fields, Applied
<1>9. ASSUME NEW call \in SetCall, call.pin # pin, Applied(c, call)
      PROVE  Applied(o.chip, call)
  <2>1. call.pin \in o.chip.value <=> call.pin \in c.value
    BY <1>1, <1>6, <1>9 DEF Fields
  <2>2. call.pin \in o.chip.hwValue <=> call.high
    BY <1>1, <1>6, <1>7, <1>9 DEF Fields, Applied
  <2> QED BY <1>9, <2>1, <2>2 DEF Applied
<1> QED BY <1>6, <1>8, <1>9 DEF Fields

(* A SetDirection that went well makes the pin an output, and no other an   *)
(* input that was not one in the cache or on the chip.                      *)
LEMMA SetDirectionMakesOutput ==
    ASSUME NEW c \in Chip, NEW pin \in Pin,
           NEW o \in SetDirection(c, pin, FALSE), o.kind = "ok"
    PROVE  /\ c.kind = "mcp23017" =>
                /\ pin \notin o.chip.iodir \cup o.chip.hwIodir
                /\ o.chip.iodir \cup o.chip.hwIodir \subseteq c.iodir \cup c.hwIodir
           /\ c.kind = "carSensor" => o.chip = c
<1>1. CASE c.kind = "mcp23017"
  <2> DEFINE i == With(c.iodir, pin, FALSE)
             cached == [c EXCEPT !.iodir = i]
             r == Mcp23017Register(pin)
  <2>1. i \in SUBSET Pin /\ pin \notin i /\ i \subseteq c.iodir
    BY ChipType DEF With
  <2>2. Fields(cached, c.kind, i, c.value, c.hwIodir, c.hwValue)
    BY <2>1, ExceptFields
  <2>3. [c EXCEPT !.iodir = With(@, pin, FALSE)] = cached
    OBVIOUS
  <2>4. r \in SUBSET Pin /\ pin \in r
    BY PinFacts DEF Mcp23017Register
  <2> HIDE DEF cached, r
  <2>5. o \in Attempts(c, cached, WriteIodir(cached, r))
    BY <1>1, <2>3 DEF SetDirection, Mcp23017SetDirection, McpSetDirection, r
  <2>6. o.chip = WriteIodir(cached, r)
    BY <2>5, AttemptsEffect
  <2> HIDE DEF i
  <2>9. Fields(WriteIodir(cached, r), c.kind, i, c.value, Copied(i, c.hwIodir, r), c.hwValue)
    BY <2>2, <2>4, WriteFields DEF Fields
  <2>7. Fields(o.chip, c.kind, i, c.value, Copied(i, c.hwIodir, r), c.hwValue)
    BY <2>6, <2>9
  <2>8. pin \notin Copied(i, c.hwIodir, r) /\ Copied(i, c.hwIodir, r) \subseteq i \cup c.hwIodir
    BY <2>1, <2>4 DEF Copied
  <2> QED BY <1>1, <2>1, <2>7, <2>8 DEF Fields
<1>2. CASE c.kind = "carSensor"
  BY <1>2 DEF SetDirection, CarSensorSetDirection, Outcome
<1> QED BY <1>1, <1>2

-----------------------------------------------------------------------------
(* The sequences of calls.                                                  *)
LEMMA TailElements ==
    ASSUME NEW s \in Seq(SetCall), s # <<>>
    PROVE  /\ Len(s) \in Nat /\ Len(s) > 0
           /\ Len(Tail(s)) = Len(s) - 1
           /\ \A i \in 1..(Len(s) - 1) : Tail(s)[i] = s[i + 1]
           /\ Head(s) = s[1]
  OBVIOUS

LEMMA PairOfPairs ==
    ASSUME NEW a \in SetCall, NEW b \in SetCall, NEW c \in SetCall, NEW d \in SetCall
    PROVE  LET s == <<a, b>> \o <<c, d>>
           IN  s[1] = a /\ s[2] = b /\ s[3] = c /\ s[4] = d
  OBVIOUS

LEMMA ConcatElements ==
    ASSUME NEW s \in Seq(SetCall), NEW t \in Seq(SetCall), Len(s) = 4, Len(t) = 4
    PROVE  Len(s \o t) = 8 /\ \A j \in 1..4 : (s \o t)[4 + j] = t[j]
<1>1. Len(s \o t) = 4 + 4
  BY ConcatType
<1>2. ASSUME NEW j \in 1..4
      PROVE  (s \o t)[4 + j] = t[j]
  <2>1. 4 + j \in 1..Len(s) + Len(t) /\ ~(4 + j <= Len(s)) /\ (4 + j) - Len(s) = j
    OBVIOUS
  <2>2. (s \o t)[4 + j] = IF 4 + j <= Len(s) THEN s[4 + j] ELSE t[(4 + j) - Len(s)]
    BY <2>1, ConcatProperties
  <2> QED BY <2>1, <2>2
<1> QED BY <1>1, <1>2

LEMMA CallFields ==
    ASSUME NEW pin, NEW value \in BOOLEAN
    PROVE  /\ Call(pin, value).pin = pin
           /\ pin \in InvertedPin => (Call(pin, value).high <=> ~value)
           /\ pin \notin InvertedPin => (Call(pin, value).high <=> value)
<1>1. Call(pin, value).pin = pin /\ Call(pin, value).high = (value # (pin \in InvertedPin))
  BY DEF Call
<1>2. CASE pin \in InvertedPin
  <2>1. (pin \in InvertedPin) = TRUE
    BY <1>2
  <2> QED BY <1>1, <1>2, <2>1
<1>3. CASE pin \notin InvertedPin
  <2>1. (pin \in InvertedPin) = FALSE
    BY <1>3
  <2> QED BY <1>1, <1>3, <2>1
<1> QED BY <1>2, <1>3

LEMMA FinalElements ==
    ASSUME NEW r \in Request
    PROVE  LET m == r.direction
               n == Opposite(m)
               f == FinalCalls(r)
           IN  /\ m \in Magnet /\ n \in Magnet
               /\ f \in Seq(SetCall) /\ Len(f) = 4
               /\ \A j \in 1..4 : f[j] \in SetCall
               /\ f[1].pin = PinA(n) /\ f[2].pin = PinB(n)
               /\ f[3].pin = PinA(m) /\ f[4].pin = PinB(m)
               /\ f[1] = Call(PinA(n), FALSE # (n \in InvertPins))
               /\ f[2] = Call(PinB(n), ~(FALSE # (n \in InvertPins)))
               /\ f[3] = Call(PinA(m), TRUE # (m \in InvertPins))
               /\ f[4] = Call(PinB(m), ~(TRUE # (m \in InvertPins)))
<1> DEFINE m == r.direction
           n == Opposite(m)
           bn == FALSE # (n \in InvertPins)
           bm == TRUE # (m \in InvertPins)
           a == Call(PinA(n), bn)
           b == Call(PinB(n), ~bn)
           c == Call(PinA(m), bm)
           d == Call(PinB(m), ~bm)
<1>1. m \in Magnet /\ n \in Magnet
  BY RequestType DEF Opposite, Magnet
<1>2. bn \in BOOLEAN /\ bm \in BOOLEAN /\ (~bn) \in BOOLEAN /\ (~bm) \in BOOLEAN
  OBVIOUS
<1>3. FinalCalls(r) = <<a, b>> \o <<c, d>>
  BY DEF FinalCalls, ActivateMagnet
<1> HIDE DEF bn, bm
<1>4. a \in SetCall /\ b \in SetCall /\ c \in SetCall /\ d \in SetCall
  BY <1>1, <1>2, MagnetPins, CallType
<1>8. a.pin = PinA(n) /\ b.pin = PinB(n) /\ c.pin = PinA(m) /\ d.pin = PinB(m)
  BY <1>2, CallFields
<1> HIDE DEF a, b, c, d
<1>5. LET f == FinalCalls(r) IN f[1] = a /\ f[2] = b /\ f[3] = c /\ f[4] = d
  BY <1>3, <1>4, PairOfPairs
<1>6. FinalCalls(r) \in Seq(SetCall) /\ Len(FinalCalls(r)) = 4
  <2>1. <<a, b>> \in Seq(SetCall) /\ <<c, d>> \in Seq(SetCall) /\ Len(<<a, b>>) = 2 /\ Len(<<c, d>>) = 2
    BY <1>4, PairType
  <2> QED BY <1>3, <2>1, ConcatType
<1>7. \A j \in 1..4 : FinalCalls(r)[j] \in SetCall
  BY <1>4, <1>5
<1> QED BY <1>1, <1>5, <1>6, <1>7, <1>8 DEF a, b, c, d, bn, bm

(* They are of four different pins.                                         *)
LEMMA FinalPinsDiffer ==
    ASSUME NEW r \in Request, NEW i \in 1..4, NEW j \in 1..4, i # j
    PROVE  FinalCalls(r)[i].pin # FinalCalls(r)[j].pin
<1> DEFINE f == FinalCalls(r)
           m == r.direction
           n == Opposite(m)
<1>1. f[1].pin = PinA(n) /\ f[2].pin = PinB(n) /\ f[3].pin = PinA(m) /\ f[4].pin = PinB(m)
  BY FinalElements
<1>2. m # n /\ m \in Magnet /\ n \in Magnet
  BY FinalElements DEF Opposite, Magnet
<1>3. /\ PinA(n) # PinB(n) /\ PinA(n) # PinA(m) /\ PinA(n) # PinB(m)
      /\ PinB(n) # PinA(m) /\ PinB(n) # PinB(m) /\ PinA(m) # PinB(m)
  BY <1>2, PinsDiffer DEF Magnet, PinA, PinB
<1> HIDE DEF f, m, n
<1> QED BY <1>1, <1>3 DEF f
-----------------------------------------------------------------------------
LEMMA InitSwitchInv == Init => SwitchInv
<1> SUFFICES ASSUME Init PROVE SwitchInv
  OBVIOUS
<1>1. IInv
  BY InitIInv
<1>2. ReadyInv /\ PendingInv /\ AppliedInv
  BY DEF Init, MagneticInit, ReadyInv, PendingInv, AppliedInv, RunPc
<1>3. ChipKind = "carSensor" => chip.iodir = {} /\ chip.hwIodir = {}
  <2> SUFFICES ASSUME ChipKind = "carSensor" PROVE chip.iodir = {} /\ chip.hwIodir = {}
    OBVIOUS
  <2>1. chip \in FreshChip /\ chip.kind = "carSensor"
    BY DEF Init, MagneticInit
  <2>2. chip \in FreshCarSensor
    BY <2>1 DEF FreshChip, FreshMcp23017, FreshMcp23008, FreshPcf8574, FreshLocal, ChipOf
  <2> QED BY <2>2 DEF FreshCarSensor, ChipOf
<1>4. DirectionInv
  BY <1>3 DEF Init, MagneticInit, DirectionInv
<1> QED BY <1>1, <1>2, <1>4 DEF SwitchInv

(* Nothing fails when there is no failure yet, and Close comes last.        *)
LEMMA FailCloses == IInv /\ Fail => failures' # 0
  BY TypeFacts DEF Fail

LEMMA OpenBefore == IInv /\ Next /\ Open' => Open
<1> SUFFICES ASSUME IInv, Next, failures' = 0, worker' \notin {"closed", "notClosed"}
             PROVE  failures = 0 /\ worker \notin {"closed", "notClosed"}
  BY DEF Open
<1>0. ~Fail
  BY FailCloses
<1>1. CASE OpenBus \/ NewDevices \/ ConfigureDevices \/ NewObjects \/ StartGroup \/ GroupReturns
  BY <1>0, <1>1 DEF OpenBus, NewDevices, ConfigureDevices, NewObjects, StartGroup, GroupReturns,
                    magnetVars
<1>2. CASE BroadcasterFails \/ WaitersReturn \/ TypeSubscribes \/ TypeReturns \/ Ping \/ Cancel
  BY <1>0, <1>2 DEF BroadcasterFails, WaitersReturn, TypeSubscribes, TypeReturns, Ping, Cancel,
                    magnetVars
<1>3. CASE CloseDevices
  BY <1>3 DEF CloseDevices
<1>4. CASE ConfigureObjects
  BY <1>0, <1>4 DEF ConfigureObjects, Configure, workerVars
<1>5. CASE ObjectRuns
  BY <1>5 DEF ObjectRuns, Run, RunRound, RunPublishes
<1>6. CASE SetSwitchRequest \/ SetPowerRequest
  BY <1>6 DEF SetSwitchRequest, SetPowerRequest, ProcessPowerMessage, workerVars
<1>7. CASE ProcessRequests
  BY <1>0, <1>7 DEF ProcessRequests, ProcessMessage, SetMagnetPin, EndSwitch, workerVars
<1> QED BY <1>1, <1>2, <1>3, <1>4, <1>5, <1>6, <1>7 DEF Next, WorkerRun

(* Steps that leave the chip and the request under way alone.               *)
LEMMA SameSwitch ==
    ASSUME SwitchInv, Open' => Open, UNCHANGED <<chip, configured, working, todo>>
    PROVE  DirectionInv' /\ PendingInv' /\ AppliedInv'
<1>1. DirectionInv'
  BY DEF SwitchInv, DirectionInv
<1>2. PendingInv'
  BY DEF SwitchInv, PendingInv
<1>3. AppliedInv'
  BY DEF SwitchInv, AppliedInv
<1> QED BY <1>1, <1>2, <1>3

LEMMA SameSwitchSteps ==
    ASSUME SwitchInv,
           \/ OpenBus \/ NewDevices \/ ConfigureDevices \/ NewObjects \/ StartGroup \/ GroupReturns
           \/ BroadcasterFails \/ WaitersReturn \/ TypeSubscribes \/ TypeReturns \/ Ping \/ Cancel
           \/ ObjectRuns \/ SetSwitchRequest \/ SetPowerRequest
    PROVE  ReadyInv' /\ DirectionInv' /\ PendingInv' /\ AppliedInv'
<1>0. Open' => Open
  <2>1. Next
    BY DEF Next, WorkerRun
  <2> QED BY <2>1, OpenBefore DEF SwitchInv
<1>1. CASE OpenBus \/ NewDevices \/ ConfigureDevices \/ NewObjects \/ StartGroup \/ GroupReturns
  <2>1. UNCHANGED <<chip, configured, waiting, working, todo, subscribed>>
    BY <1>1 DEF OpenBus, NewDevices, ConfigureDevices, NewObjects, StartGroup, GroupReturns,
                magnetVars
  <2>2. ReadyInv'
    BY <1>1, <2>1 DEF SwitchInv, ReadyInv, OpenBus, NewDevices, ConfigureDevices, NewObjects,
                      StartGroup, GroupReturns, magnetVars, RunPc
  <2> QED BY <1>0, <2>1, <2>2, SameSwitch
<1>2. CASE BroadcasterFails \/ WaitersReturn \/ TypeSubscribes \/ TypeReturns \/ Ping \/ Cancel
  <2>1. UNCHANGED <<chip, configured, waiting, working, todo, object>>
    BY <1>2 DEF BroadcasterFails, WaitersReturn, TypeSubscribes, TypeReturns, Ping, Cancel,
                magnetVars
  <2>2. ReadyInv'
    BY <1>2, <2>1 DEF SwitchInv, ReadyInv, BroadcasterFails, WaitersReturn, TypeSubscribes,
                      TypeReturns, Ping, Cancel, Return
  <2> QED BY <1>0, <2>1, <2>2, SameSwitch
<1>3. CASE ObjectRuns
  <2>1. UNCHANGED <<chip, configured, waiting, working, todo, subscribed>> /\ object \in RunPc
    BY <1>3 DEF ObjectRuns, Run, RunRound, RunPublishes, RunPc
  <2>2. ReadyInv'
    BY <2>1 DEF SwitchInv, ReadyInv
  <2> QED BY <1>0, <2>1, <2>2, SameSwitch
<1>4. CASE SetSwitchRequest
  <2>1. /\ UNCHANGED <<chip, configured, working, todo>>
        /\ subscribed
    BY <1>4 DEF SetSwitchRequest
  <2>2. ReadyInv'
    BY <2>1 DEF SwitchInv, ReadyInv
  <2> QED BY <1>0, <2>1, <2>2, SameSwitch
<1>5. CASE SetPowerRequest
  <2>1. UNCHANGED <<chip, object, configured, waiting, working, todo, subscribed, running>>
    BY <1>5 DEF SetPowerRequest, ProcessPowerMessage, workerVars
  <2>2. ReadyInv'
    BY <2>1 DEF SwitchInv, ReadyInv
  <2> QED BY <1>0, <2>1, <2>2, SameSwitch
<1> QED BY <1>1, <1>2, <1>3, <1>4, <1>5

LEMMA CloseDevicesSwitch ==
    SwitchInv /\ CloseDevices => ReadyInv' /\ DirectionInv' /\ PendingInv' /\ AppliedInv'
<1> SUFFICES ASSUME SwitchInv, CloseDevices
             PROVE  ReadyInv' /\ DirectionInv' /\ PendingInv' /\ AppliedInv'
  OBVIOUS
<1>1. /\ ~Open'
      /\ UNCHANGED <<configured, object, waiting, working, todo, subscribed, running>>
  BY DEF CloseDevices, Open
<1>2. ReadyInv'
  BY <1>1 DEF SwitchInv, ReadyInv
<1>3. PendingInv'
  BY <1>1 DEF SwitchInv, PendingInv
<1>4. DirectionInv' /\ AppliedInv'
  BY <1>1 DEF DirectionInv, AppliedInv
<1> QED BY <1>2, <1>3, <1>4

(* While the object is configured there are no requests.                    *)
LEMMA ConfigureObjectsSwitch ==
    SwitchInv /\ ConfigureObjects => ReadyInv' /\ DirectionInv' /\ PendingInv' /\ AppliedInv'
<1> SUFFICES ASSUME SwitchInv, ConfigureObjects
             PROVE  ReadyInv' /\ DirectionInv' /\ PendingInv' /\ AppliedInv'
  OBVIOUS
<1> DEFINE order == <<StraightA, StraightB, OffA, OffB>>
           next  == CHOOSE i \in 1..4 : /\ order[i] \notin configured
                                        /\ \A j \in 1..(i - 1) : order[j] \in configured
           pin   == order[next]
           last  == next = 4
<1>1. object = "configure" /\ configured \in Prefix /\ IInv
  BY DEF ConfigureObjects, Configure, SwitchInv, IInv, StageInv
<1>2. pin \in Pin /\ (last => configured \cup {pin} = Pin)
  BY <1>1, NextPin
<1>3. \E o \in SetDirection(chip, pin, FALSE) :
         /\ chip' = o.chip
         /\ IF o.kind = "ok"
            THEN /\ configured' = configured \cup {pin}
                 /\ object' = IF last THEN "configured" ELSE "configure"
                 /\ UNCHANGED failures
            ELSE Fail /\ object' = "failed" /\ UNCHANGED configured
  BY DEF ConfigureObjects, Configure
<1>4. UNCHANGED <<waiting, working, todo, worker, running, subscribed>>
  BY DEF ConfigureObjects, Configure, workerVars
<1> HIDE DEF pin, last
<1>5. PICK o \in SetDirection(chip, pin, FALSE) :
         /\ chip' = o.chip
         /\ IF o.kind = "ok"
            THEN /\ configured' = configured \cup {pin}
                 /\ object' = IF last THEN "configured" ELSE "configure"
                 /\ UNCHANGED failures
            ELSE Fail /\ object' = "failed" /\ UNCHANGED configured
  BY <1>3
<1>6. configured # Pin
  BY <1>1, PinsDiffer DEF Prefix, Pin
<1>7. working = {} /\ waiting = {} /\ ~subscribed /\ "types" \notin running
  BY <1>6 DEF SwitchInv, ReadyInv
<1>8. PendingInv' /\ AppliedInv'
  BY <1>4, <1>7 DEF PendingInv, AppliedInv
<1>9. ReadyInv'
  BY <1>2, <1>4, <1>5, <1>7 DEF ReadyInv, RunPc
<1>10. DirectionInv'
  <2> SUFFICES ASSUME Open' PROVE DirectionInv'
    BY DEF DirectionInv
  <2>1. o.kind = "ok"
    BY <1>1, <1>5, FailCloses DEF Open
  <2>2. Open
    BY <1>4, <1>5, <2>1 DEF Open
  <2>3. configured' = configured \cup {pin} /\ chip' = o.chip
    BY <1>5, <2>1
  <2>4. chip \in Chip /\ chip.kind = ChipKind
    BY <1>1, TypeFacts DEF IInv, KindInv
  <2>5. CASE ChipKind = "mcp23017"
    <3>1. /\ pin \notin o.chip.iodir \cup o.chip.hwIodir
          /\ o.chip.iodir \cup o.chip.hwIodir \subseteq chip.iodir \cup chip.hwIodir
      BY <1>2, <2>1, <2>4, <2>5, SetDirectionMakesOutput
    <3> QED BY <2>2, <2>3, <2>5, <3>1 DEF SwitchInv, DirectionInv
  <2>6. CASE ChipKind = "carSensor"
    <3>1. o.chip = chip
      BY <1>2, <2>1, <2>4, <2>6, SetDirectionMakesOutput
    <3> QED BY <2>2, <2>3, <2>6, <3>1 DEF SwitchInv, DirectionInv
  <2> QED BY <2>5, <2>6, PinFacts
<1> QED BY <1>8, <1>9, <1>10

-----------------------------------------------------------------------------
(* The last calls of a request that drives the magnets are the final ones.  *)
LEMMA SwitchEndsFinal ==
    ASSUME NEW r \in Request, Drives(r)
    PROVE  LET s == SwitchTo(r.direction, r.isUsed \/ AlwaysEnabled)
           IN  Len(s) = 8 /\ \A j \in 1..4 : s[4 + j] = FinalCalls(r)[j]
<1> DEFINE off   == DeactivateMagnet("straight") \o DeactivateMagnet("off")
           final == FinalCalls(r)
<1>1. (r.isUsed \/ AlwaysEnabled) = TRUE
  BY RequestType DEF Drives
<1>2. SwitchTo(r.direction, TRUE) = off \o final
  BY DEF SwitchTo, FinalCalls
<1>3. off \in Seq(SetCall) /\ Len(off) = 4
  <2>1. "straight" \in Magnet /\ "off" \in Magnet
    BY DEF Magnet
  <2>2. Calls(DeactivateMagnet("straight"), 2) /\ Calls(DeactivateMagnet("off"), 2)
    BY <2>1, DeactivateMagnetType
  <2>3. off \in Seq(SetCall) /\ Len(off) = 2 + 2
    BY <2>2, ConcatType DEF Calls
  <2> QED BY <2>3
<1>4. final \in Seq(SetCall) /\ Len(final) = 4
  BY FinalElements
<1> HIDE DEF off, final
<1>5. Len(off \o final) = 8 /\ \A j \in 1..4 : (off \o final)[4 + j] = final[j]
  BY <1>3, <1>4, ConcatElements
<1> QED BY <1>1, <1>2, <1>5 DEF final

LEMMA ProcessMessageSwitch ==
    ASSUME SwitchInv, NEW r \in Request, ProcessMessage(r)
    PROVE  PendingInv' /\ AppliedInv'
<1>1. working' = {r} /\ todo' = SwitchTo(r.direction, r.isUsed \/ AlwaysEnabled)
  BY DEF ProcessMessage
<1>2. Drives(r) => /\ Len(todo') = 8
                   /\ \A j \in 1..4 : todo'[4 + j] = FinalCalls(r)[j]
  BY <1>1, SwitchEndsFinal
<1>3. PendingInv'
  <2> SUFFICES ASSUME NEW j \in 1..4, Drives(r)
               PROVE  todo'[Len(todo') - 4 + j] = FinalCalls(r)[j]
    BY <1>1 DEF PendingInv
  <2>1. 8 - 4 + j = 4 + j
    OBVIOUS
  <2> QED BY <1>2, <2>1
<1>4. AppliedInv'
  <2>1. \A j \in 1..4 : ~(j <= 4 - 8)
    OBVIOUS
  <2> QED BY <1>1, <1>2, <2>1 DEF AppliedInv
<1> QED BY <1>3, <1>4

(* The next call, without the test of the context.                          *)
NextCall ==
    /\ todo # <<>>
    /\ \E o \in SetPin(chip, Head(todo).pin, Head(todo).high) :
          /\ chip' = o.chip
          /\ IF o.kind = "ok"
             THEN todo' = Tail(todo) /\ UNCHANGED <<working, failures>>
             ELSE todo' = <<>> /\ Fail /\ Unlock

(* A call that went well is applied, and leaves those applied before it:    *)
(* the final calls are of different pins.                                   *)
LEMMA SetMagnetPinSwitch ==
    ASSUME SwitchInv, NextCall, Open' => Open,
           UNCHANGED <<configured, worker>>
    PROVE  DirectionInv' /\ PendingInv' /\ AppliedInv'
<1>1. PICK o \in SetPin(chip, Head(todo).pin, Head(todo).high) :
         /\ chip' = o.chip
         /\ IF o.kind = "ok"
            THEN todo' = Tail(todo) /\ UNCHANGED <<working, failures>>
            ELSE todo' = <<>> /\ Fail /\ Unlock
  BY DEF NextCall
<1>2. IInv /\ todo # <<>> /\ todo \in Seq(SetCall)
  BY TypeFacts DEF SwitchInv, NextCall
<1>3. CASE o.kind # "ok"
  <2>1. working' = {} /\ ~Open'
    BY <1>1, <1>2, <1>3, FailCloses DEF Unlock, Open
  <2> QED BY <2>1 DEF DirectionInv, PendingInv, AppliedInv
<1>4. CASE o.kind = "ok"
  <2> DEFINE head == Head(todo)
             n    == Len(todo)
  <2>1. /\ n \in Nat /\ n > 0 /\ Len(todo') = n - 1
        /\ \A i \in 1..(n - 1) : todo'[i] = todo[i + 1]
        /\ head = todo[1]
        /\ working' = working
    BY <1>1, <1>2, <1>4, TailElements
  <2>2. head \in SetCall /\ head.pin \in Pin /\ head.high \in BOOLEAN
        /\ [pin |-> head.pin, high |-> head.high] = head
    <3>1. head \in SetCall
      BY <1>2, TypeFacts
    <3> QED BY <3>1 DEF SetCall
  <2>3. /\ chip'.iodir = chip.iodir /\ chip'.hwIodir = chip.hwIodir
        /\ Applied(chip', head)
        /\ \A call \in SetCall : call.pin # head.pin /\ Applied(chip, call) => Applied(chip', call)
    BY <1>1, <1>2, <1>4, <2>2, TypeFacts, SetPinApplies
  <2>4. DirectionInv'
    BY <2>3 DEF SwitchInv, DirectionInv
  <2> HIDE DEF n, head
  <2>5. ASSUME NEW r \in working, NEW j \in 1..4, Drives(r), j > 4 - (n - 1)
        PROVE  todo'[(n - 1) - 4 + j] = FinalCalls(r)[j]
    <3>1. j > 4 - n /\ (n - 1) - 4 + j \in 1..(n - 1) /\ ((n - 1) - 4 + j) + 1 = n - 4 + j
      BY <2>1, <2>5
    <3>2. todo[n - 4 + j] = FinalCalls(r)[j]
      BY <2>5, <3>1 DEF SwitchInv, PendingInv, n
    <3>3. todo'[(n - 1) - 4 + j] = todo[((n - 1) - 4 + j) + 1]
      BY <2>1, <3>1
    <3> QED BY <3>1, <3>2, <3>3
  <2>6. PendingInv'
    BY <2>1, <2>5 DEF PendingInv
  <2>7. ASSUME Open, NEW r \in working, NEW j \in 1..4, Drives(r), j <= 4 - (n - 1)
        PROVE  Applied(chip', FinalCalls(r)[j])
    <3>0. r \in Request
      BY <1>2 DEF IInv, TypeOK, MagneticTypeOK
    <3>1. n <= 4 /\ 5 - n \in 1..4 /\ 5 - n > 4 - n /\ n - 4 + (5 - n) = 1
      BY <2>1, <2>7
    <3>2. head = FinalCalls(r)[5 - n]
      <4>1. todo[n - 4 + (5 - n)] = FinalCalls(r)[5 - n]
        BY <2>7, <3>1 DEF SwitchInv, PendingInv, n
      <4> QED BY <2>1, <3>1, <4>1
    <3>3. CASE j = 5 - n
      BY <2>3, <3>2, <3>3
    <3>4. CASE j # 5 - n
      <4>1. j <= 4 - n
        BY <2>1, <2>7, <3>4
      <4>2. Applied(chip, FinalCalls(r)[j])
        BY <2>7, <4>1 DEF SwitchInv, AppliedInv, n
      <4>3. FinalCalls(r)[j].pin # head.pin
        BY <3>0, <3>1, <3>2, <3>4, FinalPinsDiffer
      <4>4. FinalCalls(r)[j] \in SetCall
        BY <3>0, FinalElements
      <4> QED BY <2>3, <4>2, <4>3, <4>4
    <3> QED BY <3>3, <3>4
  <2>8. AppliedInv'
    BY <2>1, <2>7 DEF AppliedInv
  <2> QED BY <2>4, <2>6, <2>8
<1> QED BY <1>3, <1>4

LEMMA ProcessRequestsSwitch ==
    SwitchInv /\ ProcessRequests => ReadyInv' /\ DirectionInv' /\ PendingInv' /\ AppliedInv'
<1> SUFFICES ASSUME SwitchInv, ProcessRequests
             PROVE  ReadyInv' /\ DirectionInv' /\ PendingInv' /\ AppliedInv'
  OBVIOUS
<1>1. UNCHANGED <<worker, running, subscribed, object, configured>>
  BY DEF ProcessRequests, ProcessMessage, SetMagnetPin, EndSwitch, workerVars
<1>2. Open' => Open
  BY OpenBefore DEF Next, SwitchInv
<1>3. waiting \cup working # {}
  BY DEF ProcessRequests, ProcessMessage, SetMagnetPin, EndSwitch, SwitchInv, IInv, TypeOK,
         MagneticTypeOK
<1>4. ReadyInv'
  BY <1>1, <1>3 DEF SwitchInv, ReadyInv
<1>5. ASSUME NEW r \in Request, ProcessMessage(r)
      PROVE  DirectionInv' /\ PendingInv' /\ AppliedInv'
  <2>1. chip' = chip
    BY <1>5 DEF ProcessMessage
  <2>2. DirectionInv'
    BY <1>1, <1>2, <2>1 DEF SwitchInv, DirectionInv
  <2> QED BY <1>5, <2>2, ProcessMessageSwitch
<1>6. CASE SetMagnetPin(GroupDone)
  <2>1. NextCall
    BY <1>6 DEF SetMagnetPin, NextCall
  <2> QED BY <1>1, <1>2, <1>4, <2>1, SetMagnetPinSwitch
<1>7. CASE EndSwitch
  <2>1. chip' = chip /\ working' = {}
    BY <1>7 DEF EndSwitch, Unlock
  <2>2. DirectionInv'
    BY <1>1, <1>2, <2>1 DEF SwitchInv, DirectionInv
  <2>3. PendingInv' /\ AppliedInv'
    BY <2>1 DEF PendingInv, AppliedInv
  <2> QED BY <1>4, <2>2, <2>3
<1> QED BY <1>4, <1>5, <1>6, <1>7 DEF ProcessRequests

LEMMA NextSwitchInv == SwitchInv /\ [Next]_vars => SwitchInv'
<1> SUFFICES ASSUME SwitchInv, [Next]_vars PROVE SwitchInv'
  OBVIOUS
<1>0. IInv'
  BY NextIInv DEF SwitchInv
<1>1. CASE UNCHANGED vars
  <2>1. /\ Open' => Open
        /\ UNCHANGED <<chip, configured, working, todo>>
    BY <1>1 DEF Open, vars, magnetVars, workerVars
  <2>2. ReadyInv'
    BY <1>1 DEF SwitchInv, ReadyInv, vars, magnetVars, workerVars
  <2> QED BY <1>0, <2>1, <2>2, SameSwitch DEF SwitchInv
<1>2. CASE Next
  <2>1. ReadyInv' /\ DirectionInv' /\ PendingInv' /\ AppliedInv'
    BY <1>2, SameSwitchSteps, CloseDevicesSwitch, ConfigureObjectsSwitch, ProcessRequestsSwitch
       DEF Next, WorkerRun
  <2> QED BY <1>0, <2>1 DEF SwitchInv
<1> QED BY <1>1, <1>2

-----------------------------------------------------------------------------
(* A pin whose call is applied, and that is an output, is active as wanted. *)
LEMMA AppliedIsActive ==
    ASSUME chip \in Chip, chip.kind \in {"mcp23017", "carSensor"}, NEW pin \in Pin,
           NEW value \in BOOLEAN, Applied(chip, Call(pin, value)), pin \notin chip.hwIodir
    PROVE  Active(pin) <=> value
<1>1. pin \in chip.hwValue <=> Call(pin, value).high
  BY CallFields DEF Applied
<1>2. /\ pin \in DrivenHigh(chip) <=> pin \in chip.hwValue
      /\ pin \in DrivenLow(chip) <=> pin \notin chip.hwValue
  BY DEF DrivenHigh, DrivenLow
<1>3. CASE pin \in InvertedPin
  <2>1. Call(pin, value).high <=> ~value
    BY <1>3, CallFields
  <2>2. Active(pin) <=> pin \in DrivenLow(chip)
    BY <1>3 DEF Active
  <2> QED BY <1>1, <1>2, <2>1, <2>2
<1>4. CASE pin \notin InvertedPin
  <2>1. Call(pin, value).high <=> value
    BY <1>4, CallFields
  <2>2. Active(pin) <=> pin \in DrivenHigh(chip)
    BY <1>4 DEF Active
  <2> QED BY <1>1, <1>2, <2>1, <2>2
<1> QED BY <1>3, <1>4

(* The calls of ActivateMagnet are applied.                                 *)
MagnetApplied(m, forward) ==
    /\ Applied(chip, Call(PinA(m), forward # (m \in InvertPins)))
    /\ Applied(chip, Call(PinB(m), ~(forward # (m \in InvertPins))))

LEMMA AppliedIsDriven ==
    ASSUME chip \in Chip, chip.kind \in {"mcp23017", "carSensor"}, chip.hwIodir = {},
           NEW m \in Magnet, NEW forward \in BOOLEAN, MagnetApplied(m, forward)
    PROVE  /\ forward = TRUE => Forward(m)
           /\ forward = FALSE => Backward(m)
<1> DEFINE f == forward # (m \in InvertPins)
<1>1. f \in BOOLEAN /\ (~f) \in BOOLEAN
  OBVIOUS
<1>2. /\ m \in InvertPins => (f <=> forward = FALSE)
      /\ m \notin InvertPins => (f <=> forward = TRUE)
  <2>1. CASE m \in InvertPins
    <3>1. (m \in InvertPins) = TRUE
      BY <2>1
    <3> QED BY <2>1, <3>1
  <2>2. CASE m \notin InvertPins
    <3>1. (m \in InvertPins) = FALSE
      BY <2>2
    <3> QED BY <2>2, <3>1
  <2> QED BY <2>1, <2>2
<1>3. Applied(chip, Call(PinA(m), f)) /\ Applied(chip, Call(PinB(m), ~f))
  BY DEF MagnetApplied
<1> HIDE DEF f
<1>4. PinA(m) \in Pin /\ PinB(m) \in Pin
  BY MagnetPins
<1>5. Active(PinA(m)) <=> f
  BY <1>1, <1>3, <1>4, AppliedIsActive
<1>6. Active(PinB(m)) <=> ~f
  BY <1>1, <1>3, <1>4, AppliedIsActive
<1> QED BY <1>2, <1>5, <1>6 DEF Forward, Backward

LEMMA EndSwitchTakesEffect ==
    ASSUME SwitchInv, NEW r \in working, EndSwitch, failures = 0, Drives(r), worker = "running"
    PROVE  Forward(r.direction) /\ Backward(Opposite(r.direction))
<1> DEFINE m == r.direction
           n == Opposite(m)
           call == FinalCalls(r)
<1>1. r \in Request /\ chip \in Chip /\ chip.kind \in {"mcp23017", "carSensor"}
  BY TypeFacts DEF SwitchInv, IInv, TypeOK, MagneticTypeOK
<1>2. Open
  BY DEF Open
<1>3. chip.hwIodir = {}
  <2>1. configured = Pin
    BY DEF SwitchInv, ReadyInv
  <2> QED BY <1>1, <1>2, <2>1, ChipType DEF SwitchInv, DirectionInv
<1>4. \A j \in 1..4 : Applied(chip, call[j])
  <2>1. Len(todo) = 0
    BY DEF EndSwitch
  <2>2. \A j \in 1..4 : j <= 4 - Len(todo)
    BY <2>1
  <2> QED BY <1>2, <2>2 DEF SwitchInv, AppliedInv
<1>5. /\ m \in Magnet /\ n \in Magnet
      /\ call[1] = Call(PinA(n), FALSE # (n \in InvertPins))
      /\ call[2] = Call(PinB(n), ~(FALSE # (n \in InvertPins)))
      /\ call[3] = Call(PinA(m), TRUE # (m \in InvertPins))
      /\ call[4] = Call(PinB(m), ~(TRUE # (m \in InvertPins)))
  BY <1>1, FinalElements
<1> HIDE DEF m, n, call
<1>6. MagnetApplied(n, FALSE) /\ MagnetApplied(m, TRUE)
  <2>0. /\ Applied(chip, call[1]) /\ Applied(chip, call[2])
        /\ Applied(chip, call[3]) /\ Applied(chip, call[4])
    BY <1>4
  <2>1. /\ Applied(chip, Call(PinA(n), FALSE # (n \in InvertPins)))
        /\ Applied(chip, Call(PinB(n), ~(FALSE # (n \in InvertPins))))
    BY <1>5, <2>0, Zenon
  <2>2. /\ Applied(chip, Call(PinA(m), TRUE # (m \in InvertPins)))
        /\ Applied(chip, Call(PinB(m), ~(TRUE # (m \in InvertPins))))
    BY <1>5, <2>0, Zenon
  <2>3. MagnetApplied(n, FALSE)
    BY <2>1, Zenon DEF MagnetApplied
  <2>4. MagnetApplied(m, TRUE)
    BY <2>2, Zenon DEF MagnetApplied
  <2> QED BY <2>3, <2>4
<1>7. \A x \in Magnet : \A forward \in BOOLEAN :
         MagnetApplied(x, forward) => /\ forward = TRUE => Forward(x)
                                      /\ forward = FALSE => Backward(x)
  BY <1>1, <1>3, AppliedIsDriven
<1>8. Backward(n) /\ Forward(m)
  BY <1>5, <1>6, <1>7
<1> QED BY <1>8 DEF m, n

(* When switchTo (magnetic_switch.go) has returned without an error, the    *)
(* magnets are driven to the direction of its request, for any pins, banks  *)
(* and inversions, on an mcp23017 or a car sensor.                          *)
THEOREM SwitchTakesEffectCorrect == Spec => SwitchTakesEffect
<1>1. Init => SwitchInv
  BY InitSwitchInv
<1>2. SwitchInv /\ [Next]_vars => SwitchInv'
  BY NextSwitchInv
<1>3. SwitchInv /\ [Next]_vars =>
         [\A r \in working :
             EndSwitch /\ failures = 0 /\ (r.isUsed \/ AlwaysEnabled) /\ worker = "running"
             => Forward(r.direction) /\ Backward(Opposite(r.direction))]_vars
  BY EndSwitchTakesEffect DEF Drives
<1> QED BY <1>1, <1>2, <1>3, PTL DEF Spec, SwitchTakesEffect

-----------------------------------------------------------------------------
(* Before and after the group runs, none of its goroutines is there, and no *)
(* request is accepted any more: Run of the worker (worker.go, g.Wait) has  *)
(* left nothing behind when WorkerRunner lets the next worker to the        *)
(* hardware, whichever goroutine failed and wherever the others were.       *)
NothingLeftRunning ==
    worker # "running" => running = {} /\ object \notin RunPc /\ ~subscribed

(* Run of the worker does not return of itself: it was cancelled or a step  *)
(* has failed. WorkerRunner takes its return as one or the other.           *)
ReturnsForAReason ==
    worker = "closing" \/ Ended => ctxDone \/ failures > 0

(* The group ends only with its broadcaster, and that with a reason; what   *)
(* the group has brought to life is alive as long as its goroutine.         *)
LeaveInv ==
    /\ worker # "running" => running = {}
    /\ object \in RunPc <=> "object" \in running
    /\ subscribed => "types" \in running
    /\ worker = "running" => "broadcaster" \in running \/ GroupDone
    /\ groupFailed => failures > 0
    /\ worker = "failed" => failures > 0
    /\ worker \in {"closing", "closed", "notClosed"} => GroupDone

LEMMA FailCounts ==
    ASSUME IInv
    PROVE  /\ Fail => failures' > 0
           /\ UNCHANGED failures => (failures > 0 <=> failures' > 0)
  BY TypeFacts DEF Fail

LEMMA InitLeaveInv == Init => LeaveInv
  BY DEF Init, MagneticInit, LeaveInv, RunPc

(* Steps of Run until it waits, and after.                                  *)
LEMMA WorkerStepLeaveInv == IInv /\ LeaveInv /\ WorkerRun => LeaveInv'
<1> SUFFICES ASSUME IInv, LeaveInv, WorkerRun PROVE LeaveInv'
  OBVIOUS
<1>0. /\ Fail => failures' > 0
      /\ UNCHANGED failures => (failures > 0 <=> failures' > 0)
  BY FailCounts
<1>1. CASE OpenBus \/ NewDevices
  BY <1>0, <1>1 DEF LeaveInv, GroupDone, OpenBus, NewDevices
<1>2. CASE ConfigureDevices
  <2>1. worker' = IF ctxDone THEN "closing" ELSE "newObjects"
    BY <1>2 DEF ConfigureDevices, StopFast
  <2>2. /\ groupFailed => failures' > 0
        /\ UNCHANGED <<object, running, subscribed, groupFailed, ctxDone>>
    BY <1>0, <1>2 DEF LeaveInv, ConfigureDevices
  <2> QED BY <1>2, <2>1, <2>2 DEF LeaveInv, GroupDone, ConfigureDevices
<1>3. CASE NewObjects
  <2>1. object' \notin RunPc /\ object \notin RunPc
    BY <1>3 DEF LeaveInv, NewObjects, RunPc
  <2> QED BY <1>0, <1>3, <2>1 DEF LeaveInv, GroupDone, NewObjects
<1>4. CASE ConfigureObjects
  <2>1. object = "configure" /\ object' \in {"configured", "configure", "failed"}
    BY <1>4 DEF ConfigureObjects, Configure
  <2>2. object' \notin RunPc /\ object \notin RunPc
    BY <2>1 DEF RunPc
  <2>3. Fail \/ UNCHANGED failures
    BY <1>4 DEF ConfigureObjects, Configure
  <2>4. UNCHANGED <<worker, running, subscribed, groupFailed, ctxDone>>
    BY <1>4 DEF ConfigureObjects, workerVars
  <2>5. failures > 0 => failures' > 0
    BY <1>0, <2>3
  <2> QED BY <2>2, <2>4, <2>5 DEF LeaveInv, GroupDone
<1>5. CASE StartGroup
  <2>1. object \notin RunPc /\ running = {} /\ ~subscribed
    BY <1>5 DEF LeaveInv, StartGroup
  <2>2. UNCHANGED <<failures, subscribed, groupFailed, ctxDone>>
    BY <1>5 DEF StartGroup
  <2>3. CASE ctxDone
    <3>1. worker' = "closing" /\ UNCHANGED <<running, object>>
      BY <1>5, <2>3 DEF StartGroup, StopFast
    <3> QED BY <2>1, <2>2, <2>3, <3>1 DEF LeaveInv, GroupDone
  <2>4. CASE ~ctxDone /\ object = "configured"
    <3>1. worker' = "running" /\ running' = Goroutine \ {"objects"} /\ object' = "lock"
      BY <1>5, <2>4 DEF StartGroup, StopFast
    <3> QED BY <2>1, <2>2, <3>1 DEF LeaveInv, GroupDone, Goroutine, RunPc
  <2>5. CASE ~ctxDone /\ object # "configured"
    <3>1. /\ worker' = "running" /\ running' = {"broadcaster", "devices", "objects"}
          /\ UNCHANGED object
      BY <1>5, <2>5 DEF StartGroup, StopFast
    <3> QED BY <2>1, <2>2, <3>1 DEF LeaveInv, GroupDone
  <2> QED BY <2>3, <2>4, <2>5
<1>6. CASE GroupReturns
  BY <1>0, <1>6 DEF LeaveInv, GroupDone, GroupReturns, magnetVars
<1>7. CASE CloseDevices
  <2>1. worker = "closing" /\ worker' \in {"closed", "notClosed"} /\ (Fail \/ UNCHANGED failures)
    BY <1>7 DEF CloseDevices
  <2>2. UNCHANGED <<object, running, subscribed, groupFailed, ctxDone>>
    BY <1>7 DEF CloseDevices
  <2>3. failures > 0 => failures' > 0
    BY <1>0, <2>1
  <2> QED BY <2>1, <2>2, <2>3 DEF LeaveInv, GroupDone
<1> QED BY <1>1, <1>2, <1>3, <1>4, <1>5, <1>6, <1>7 DEF WorkerRun

(* Steps of the goroutines.                                                 *)
LEMMA GoroutineStepLeaveInv ==
    /\ IInv /\ LeaveInv
    /\ BroadcasterFails \/ WaitersReturn \/ ObjectRuns \/ TypeSubscribes \/ TypeReturns \/ Ping
    => LeaveInv'
<1> SUFFICES ASSUME IInv, LeaveInv,
                    BroadcasterFails \/ WaitersReturn \/ ObjectRuns \/ TypeSubscribes
                    \/ TypeReturns \/ Ping
             PROVE  LeaveInv'
  OBVIOUS
<1>0. /\ Fail => failures' > 0
      /\ UNCHANGED failures => (failures > 0 <=> failures' > 0)
  BY FailCounts
<1>1. CASE BroadcasterFails
  BY <1>0, <1>1 DEF LeaveInv, GroupDone, BroadcasterFails, Return
<1>2. CASE WaitersReturn
  <2>1. /\ running' = running \ Waiter
        /\ "broadcaster" \in running => ctxDone
        /\ UNCHANGED <<object, failures, worker, subscribed, groupFailed, ctxDone>>
    BY <1>2 DEF WaitersReturn, magnetVars
  <2>2. /\ "object" \in running' <=> "object" \in running
        /\ "types" \in running' <=> "types" \in running
    BY <2>1 DEF Waiter
  <2>3. worker = "running" => GroupDone
    BY <2>1 DEF LeaveInv, GroupDone
  <2> QED BY <2>1, <2>2, <2>3 DEF LeaveInv, GroupDone
<1>3. CASE ObjectRuns
  <2>1. /\ object \in RunPc /\ object' \in RunPc \cup {"done"}
        /\ UNCHANGED <<failures, worker, subscribed, groupFailed, ctxDone>>
    BY <1>3 DEF ObjectRuns, Run, RunRound, RunPublishes, AfterRound, RunPc
  <2>2. "object" \in running
    BY <1>3 DEF ObjectRuns
  <2>3. CASE object' = "done"
    <3>1. running' = running \ {"object"} /\ object' \notin RunPc
      BY <1>3, <2>3 DEF ObjectRuns, Return, RunPc
    <3> QED BY <2>1, <3>1 DEF LeaveInv, GroupDone
  <2>4. CASE object' # "done"
    <3>1. UNCHANGED running /\ object' \in RunPc
      BY <1>3, <2>1, <2>4 DEF ObjectRuns
    <3> QED BY <2>1, <2>2, <3>1 DEF LeaveInv, GroupDone
  <2> QED BY <2>3, <2>4
<1>4. CASE TypeSubscribes
  BY <1>4 DEF LeaveInv, GroupDone, TypeSubscribes, magnetVars
<1>5. CASE TypeReturns
  BY <1>5 DEF LeaveInv, GroupDone, TypeReturns, Return, magnetVars
<1>6. CASE Ping
  BY <1>6 DEF LeaveInv, GroupDone, Ping, magnetVars
<1> QED BY <1>1, <1>2, <1>3, <1>4, <1>5, <1>6

(* Requests, which never end a goroutine, and the cancellation.             *)
LEMMA RequestStepLeaveInv ==
    /\ IInv /\ LeaveInv
    /\ SetSwitchRequest \/ SetPowerRequest \/ ProcessRequests \/ Cancel
    => LeaveInv'
<1> SUFFICES ASSUME IInv, LeaveInv,
                    SetSwitchRequest \/ SetPowerRequest \/ ProcessRequests \/ Cancel
             PROVE  LeaveInv'
  OBVIOUS
<1>1. /\ UNCHANGED <<object, worker, running, subscribed, groupFailed>>
      /\ ctxDone => ctxDone'
  BY DEF SetSwitchRequest, SetPowerRequest, ProcessPowerMessage, ProcessRequests, ProcessMessage,
         SetMagnetPin, EndSwitch, Cancel, workerVars, magnetVars
<1>2. Fail \/ UNCHANGED failures
  BY DEF SetSwitchRequest, SetPowerRequest, ProcessPowerMessage, ProcessRequests, ProcessMessage,
         SetMagnetPin, EndSwitch, Cancel, workerVars, magnetVars
<1>3. failures > 0 => failures' > 0
  BY <1>2, FailCounts
<1> QED BY <1>1, <1>3 DEF LeaveInv, GroupDone

LEMMA NextLeaveInv == IInv /\ LeaveInv /\ [Next]_vars => LeaveInv'
<1> SUFFICES ASSUME IInv, LeaveInv, [Next]_vars PROVE LeaveInv'
  OBVIOUS
<1>1. CASE Next
  BY <1>1, WorkerStepLeaveInv, GoroutineStepLeaveInv, RequestStepLeaveInv DEF Next
<1>2. CASE UNCHANGED vars
  BY <1>2 DEF LeaveInv, GroupDone, vars, magnetVars, workerVars
<1> QED BY <1>1, <1>2

(* No goroutine of a worker is left when Run goes on to close its devices   *)
(* and returns (worker.go, g.Wait and the deferred Close), so that the next *)
(* worker has the hardware for itself but for requests under way.           *)
THEOREM NothingLeftRunningCorrect == Spec => []NothingLeftRunning
<1>1. Init => IInv /\ LeaveInv
  BY InitIInv, InitLeaveInv
<1>2. IInv /\ LeaveInv /\ [Next]_vars => IInv' /\ LeaveInv'
  BY NextIInv, NextLeaveInv
<1>3. LeaveInv => NothingLeftRunning
  BY DEF LeaveInv, NothingLeftRunning
<1> QED BY <1>1, <1>2, <1>3, PTL DEF Spec

(* Run of a worker (worker.go) returns, with its devices closed or not, only*)
(* when its context was cancelled or a step has failed.                     *)
THEOREM ReturnsForAReasonCorrect == Spec => []ReturnsForAReason
<1>1. Init => IInv /\ LeaveInv
  BY InitIInv, InitLeaveInv
<1>2. IInv /\ LeaveInv /\ [Next]_vars => IInv' /\ LeaveInv'
  BY NextIInv, NextLeaveInv
<1>3. LeaveInv => ReturnsForAReason
  BY DEF LeaveInv, ReturnsForAReason, GroupDone, Ended
<1> QED BY <1>1, <1>2, <1>3, PTL DEF Spec
=============================================================================
