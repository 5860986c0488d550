-------------------------- MODULE RelaySwitchProofs --------------------------
(***************************************************************************)
(* Proofs about RelaySwitch, for any pins, banks and number of failures.    *)
(*                                                                         *)
(* None of the properties is inductive: a coil that is off now may be put   *)
(* on by the next write of its register for the other object, because the   *)
(* cache differs from the chip. Their common strengthening is Quiet: the    *)
(* pin is off on the chip and would be off after a write of the cache. The  *)
(* first part says what each operation of a driver does to quiet pins, the  *)
(* second that the switch activates a coil only while the other is quiet,   *)
(* and gives up the schedule only when both are, the third that no step     *)
(* exchanges the coils, so that they implement Interlock.                   *)
(***************************************************************************)
EXTENDS RelaySwitch, TLAPS

(* c is a chip with these fields.                                           *)
Fields(c, kind, iodir, value, hwIodir, hwValue) ==
    /\ c \in Chip
    /\ c.kind = kind
    /\ c.iodir = iodir
    /\ c.value = value
    /\ c.hwIodir = hwIodir
    /\ c.hwValue = hwValue

LEMMA ChipType ==
    ASSUME NEW c \in Chip
    PROVE  /\ c.kind \in Kind
           /\ c.iodir \in SUBSET Pin /\ c.value \in SUBSET Pin
           /\ c.hwIodir \in SUBSET Pin /\ c.hwValue \in SUBSET Pin
  BY DEF Chip

(* Changes of one field.                                                    *)
LEMMA ExceptValue ==
    ASSUME NEW c \in Chip, NEW v \in SUBSET Pin
    PROVE  Fields([c EXCEPT !.value = v], c.kind, c.iodir, v, c.hwIodir, c.hwValue)
  BY DEF Chip, Fields
LEMMA ExceptIodir ==
    ASSUME NEW c \in Chip, NEW v \in SUBSET Pin
    PROVE  Fields([c EXCEPT !.iodir = v], c.kind, v, c.value, c.hwIodir, c.hwValue)
  BY DEF Chip, Fields
LEMMA ExceptHwValue ==
    ASSUME NEW c \in Chip, NEW v \in SUBSET Pin
    PROVE  Fields([c EXCEPT !.hwValue = v], c.kind, c.iodir, c.value, c.hwIodir, v)
  BY DEF Chip, Fields
LEMMA ExceptHwIodir ==
    ASSUME NEW c \in Chip, NEW v \in SUBSET Pin
    PROVE  Fields([c EXCEPT !.hwIodir = v], c.kind, c.iodir, c.value, v, c.hwValue)
  BY DEF Chip, Fields
LEMMA Fresh ==
    ASSUME NEW k \in Kind, NEW i \in SUBSET Pin, NEW v \in SUBSET Pin, NEW hi \in SUBSET Pin, NEW hv \in SUBSET Pin
    PROVE Fields(ChipOf(k, i, v, hi, hv), k, i, v, hi, hv)
  BY DEF Chip, Fields, ChipOf
LEMMA AttemptsEffect ==
    ASSUME NEW a, NEW b, NEW w, NEW o \in Attempts(a, b, w)
    PROVE /\ o.chip \in {a, b, w}
          /\ o.kind = "ok" => o.chip = w
          /\ o.kind # "panic"
  BY DEF Attempts, Outcome

-----------------------------------------------------------------------------
(* The relay of the pin is active when low; the pin is at the level that    *)
(* deactivates it.                                                          *)
Low(c, pin) == pin \in Inverted \/ c.kind = "pcf8574"

AtRest(c, pin, set) == pin \in set <=> Low(c, pin)

(* The pin is off, on the chip and in the cache.                            *)
Quiet(c, pin) ==
    \/ c.kind = "pcf8574" /\ pin \in c.hwValue /\ pin \in c.iodir \cup c.value
    \/ c.kind \in {"local", "localClosed"} /\ (AtRest(c, pin, c.hwValue) \/ pin \in c.hwIodir)
    \/ /\ c.kind \in {"mcp23017", "mcp23008", "carSensor"}
       /\ \/ AtRest(c, pin, c.value) /\ AtRest(c, pin, c.hwValue)
          \/ pin \in c.iodir \cap c.hwIodir

Mcp == {"mcp23017", "mcp23008"}
Expander == Mcp \cup {"pcf8574"}

(* Chips whose outputs are inputs or low before the object configures them. *)
(* The others start with what the previous worker left, or with zeros in    *)
(* their cache, either of which energises an inverted relay.                *)
SafeKind(c) == Inverted = {} \/ c.kind \in Expander

(* The outcomes of Set.                                                     *)
LEMMA SetPinKinds ==
    ASSUME NEW c \in Chip, NEW pin \in Pin, NEW high \in BOOLEAN,
           NEW o \in SetPin(c, pin, high)
    PROVE  LET v == With(c.value, pin, high)
           IN  \/ o.chip = c /\ o.kind # "ok" /\ (o.kind = "panic" => c.kind = "localClosed")
               \/ /\ c.kind \in Mcp \cup {"carSensor"}
                  /\ \E reg \in SUBSET Pin :
                       /\ pin \in reg
                       /\ o.kind # "panic"
                       /\ \/ /\ o.kind # "ok"
                             /\ Fields(o.chip, c.kind, c.iodir, v, c.hwIodir, c.hwValue)
                          \/ Fields(o.chip, c.kind, c.iodir, v, c.hwIodir, Copied(v, c.hwValue, reg))
               \/ /\ c.kind = "pcf8574"
                  /\ pin \notin c.iodir
                  /\ o.kind # "panic"
                  /\ \/ /\ o.kind # "ok"
                        /\ Fields(o.chip, c.kind, c.iodir, v, c.hwIodir, c.hwValue)
                     \/ Fields(o.chip, c.kind, c.iodir, v, c.hwIodir, c.iodir \cup v)
               \/ /\ c.kind = "local"
                  /\ o.kind # "panic"
                  /\ Fields(o.chip, c.kind, c.iodir, c.value, c.hwIodir, With(c.hwValue, pin, high))
<1> DEFINE v == With(c.value, pin, high)
           cached == [c EXCEPT !.value = v]
<1>0. v \in SUBSET Pin /\ Fields(cached, c.kind, c.iodir, v, c.hwIodir, c.hwValue)
  BY ChipType, ExceptValue DEF With
<1>a. ASSUME NEW reg \in SUBSET Pin
      PROVE  Fields(WriteValue(cached, reg), c.kind, c.iodir, v, c.hwIodir, Copied(v, c.hwValue, reg))
  <2> HIDE DEF cached
  <2>1. Copied(v, c.hwValue, reg) \in SUBSET Pin
    BY <1>0, ChipType DEF Copied
  <2>2. cached \in Chip /\ WriteValue(cached, reg) = [cached EXCEPT !.hwValue = Copied(v, c.hwValue, reg)]
    BY <1>0 DEF WriteValue, Fields
  <2> QED BY <2>1, <2>2, <1>0, ExceptHwValue DEF Fields
<1>b. ASSUME NEW reg \in SUBSET Pin, pin \in reg, o \in McpSet(c, pin, high, reg)
      PROVE  \/ o.chip = c /\ o.kind \notin {"ok", "panic"}
             \/ /\ o.kind # "panic"
                /\ \/ /\ o.kind # "ok"
                      /\ Fields(o.chip, c.kind, c.iodir, v, c.hwIodir, c.hwValue)
                   \/ Fields(o.chip, c.kind, c.iodir, v, c.hwIodir, Copied(v, c.hwValue, reg))
  <2>0. [c EXCEPT !.value = With(@, pin, high)] = cached
    OBVIOUS
  <2> HIDE DEF cached
  <2>1. CASE pin \in c.iodir
    BY <1>b, <2>1 DEF McpSet, Outcome
  <2>2. CASE pin \notin c.iodir
    BY <1>b, <1>0, <1>a, <2>0, <2>2 DEF McpSet, Outcome, Attempts
  <2> QED BY <2>1, <2>2
<1>1. CASE c.kind = "mcp23017"
  <2>1. o \in McpSet(c, pin, high, Mcp23017Register(pin))
    BY <1>1 DEF SetPin, Mcp23017Set
  <2>2. Mcp23017Register(pin) \in SUBSET Pin /\ pin \in Mcp23017Register(pin)
    BY PinAssumption DEF Mcp23017Register, Pin
  <2> HIDE DEF cached
  <2> QED BY <1>1, <1>b, <2>1, <2>2 DEF Mcp
<1>2. CASE c.kind = "mcp23008"
  <2>1. o \in McpSet(c, pin, high, Pin)
    BY <1>2 DEF SetPin, Mcp23008Set, Mcp23008Register
  <2> HIDE DEF cached
  <2> QED BY <1>2, <1>b, <2>1 DEF Mcp
<1>3. CASE c.kind = "pcf8574"
  <2>1. o \in Pcf8574Set(c, pin, high)
    BY <1>3 DEF SetPin
  <2>2. [c EXCEPT !.value = With(@, pin, high)] = cached
    OBVIOUS
  <2> HIDE DEF cached
  <2>3. Fields(MergeDirectionAndOutput(cached), c.kind, c.iodir, v, c.hwIodir, c.iodir \cup v)
    <3>1. c.iodir \cup v \in SUBSET Pin
      BY <1>0, ChipType
    <3>2. cached \in Chip /\ MergeDirectionAndOutput(cached) = [cached EXCEPT !.hwValue = c.iodir \cup v]
      BY <1>0 DEF MergeDirectionAndOutput, Fields
    <3> QED BY <3>1, <3>2, <1>0, ExceptHwValue DEF Fields
  <2>4. CASE pin \in c.iodir
    BY <1>3, <2>1, <2>4 DEF Pcf8574Set, Outcome
  <2>5. CASE pin \notin c.iodir
    BY <1>3, <1>0, <2>1, <2>2, <2>3, <2>5 DEF Pcf8574Set, Outcome, Attempts
  <2> QED BY <2>4, <2>5
<1>4. CASE c.kind = "carSensor"
  <2>1. o \in CarSensorSet(c, pin, high)
    BY <1>4 DEF SetPin
  <2>2. [c EXCEPT !.value = With(@, pin, high)] = cached
    OBVIOUS
  <2>3. CarSensorRegister(pin) \in SUBSET Pin /\ pin \in CarSensorRegister(pin)
    BY PinAssumption DEF CarSensorRegister, Pin
  <2> HIDE DEF cached
  <2> QED BY <1>4, <1>0, <1>a, <2>1, <2>2, <2>3 DEF CarSensorSet, Outcome, Attempts
<1>5. CASE c.kind = "local"
  <2>1. o \in LocalSet(c, pin, high)
    BY <1>5 DEF SetPin
  <2>2. With(c.hwValue, pin, high) \in SUBSET Pin
    BY ChipType DEF With
  <2> QED BY <1>5, <2>1, <2>2, ExceptHwValue DEF LocalSet, Outcome
<1>6. CASE c.kind = "localClosed"
  BY <1>6 DEF SetPin, Outcome
<1> QED
  <2> HIDE DEF cached
  <2> QED BY <1>1, <1>2, <1>3, <1>4, <1>5, <1>6, ChipType DEF Kind

(* The outcomes of SetDirection to output.                                  *)
LEMMA SetDirectionKinds ==
    ASSUME NEW c \in Chip, NEW pin \in Pin, NEW o \in SetDirection(c, pin, FALSE)
    PROVE  LET i == c.iodir \ {pin}
           IN  \/ o.chip = c /\ (o.kind = "panic" => c.kind = "localClosed")
               \/ /\ c.kind \in Mcp
                  /\ o.kind # "panic"
                  /\ \/ Fields(o.chip, c.kind, i, c.value, c.hwIodir, c.hwValue)
                     \/ \E reg \in SUBSET Pin :
                          Fields(o.chip, c.kind, i, c.value, Copied(i, c.hwIodir, reg), c.hwValue)
               \/ /\ c.kind = "pcf8574"
                  /\ o.kind # "panic"
                  /\ \E hv \in {c.hwValue, i \cup (c.value \ {pin})} :
                        Fields(o.chip, c.kind, i, c.value \ {pin}, c.hwIodir, hv)
               \/ /\ c.kind = "local"
                  /\ o.kind # "panic"
                  /\ \E in \in {c.iodir, i} :
                        Fields(o.chip, c.kind, in, c.value, c.hwIodir \ {pin}, c.hwValue \ {pin})
<1> DEFINE i == c.iodir \ {pin}
<1>0. With(c.iodir, pin, FALSE) = i /\ With(c.hwIodir, pin, FALSE) = c.hwIodir \ {pin}
  BY DEF With
<1>1. ASSUME c.kind \in Mcp, NEW reg \in SUBSET Pin, o \in McpSetDirection(c, pin, FALSE, reg)
      PROVE  \/ o.chip = c /\ o.kind # "panic"
             \/ /\ o.kind # "panic"
                /\ \/ Fields(o.chip, c.kind, i, c.value, c.hwIodir, c.hwValue)
                   \/ Fields(o.chip, c.kind, i, c.value, Copied(i, c.hwIodir, reg), c.hwValue)
  <2> DEFINE cached == [c EXCEPT !.iodir = i]
  <2>1. Fields(cached, c.kind, i, c.value, c.hwIodir, c.hwValue)
    BY ChipType, ExceptIodir
  <2>2. [c EXCEPT !.iodir = With(@, pin, FALSE)] = cached
    BY <1>0
  <2> HIDE DEF cached
  <2>3. cached \in Chip /\ WriteIodir(cached, reg) = [cached EXCEPT !.hwIodir = Copied(i, c.hwIodir, reg)]
    BY <2>1 DEF WriteIodir, Fields
  <2>4. Copied(i, c.hwIodir, reg) \in SUBSET Pin
    BY ChipType DEF Copied
  <2>5. Fields(WriteIodir(cached, reg), c.kind, i, c.value, Copied(i, c.hwIodir, reg), c.hwValue)
    BY <2>1, <2>3, <2>4, ExceptHwIodir DEF Fields
  <2>6. o \in Attempts(c, cached, WriteIodir(cached, reg))
    BY <1>1, <2>2 DEF McpSetDirection
  <2> QED BY <2>1, <2>5, <2>6 DEF Outcome, Attempts
<1>2. CASE c.kind = "mcp23017"
  <2>1. o \in McpSetDirection(c, pin, FALSE, Mcp23017Register(pin))
    BY <1>2 DEF SetDirection, Mcp23017SetDirection
  <2>2. Mcp23017Register(pin) \in SUBSET Pin
    BY PinAssumption DEF Mcp23017Register, Pin
  <2> QED BY <1>1, <1>2, <2>1, <2>2 DEF Mcp
<1>3. CASE c.kind = "mcp23008"
  <2>1. o \in McpSetDirection(c, pin, FALSE, Pin)
    BY <1>3 DEF SetDirection, Mcp23008SetDirection, Mcp23008Register
  <2> QED BY <1>1, <1>3, <2>1 DEF Mcp
<1>4. CASE c.kind = "pcf8574"
  <2> DEFINE mid    == [c EXCEPT !.value = c.value \ {pin}]
             cached == [mid EXCEPT !.iodir = i]
             hv     == i \cup (c.value \ {pin})
  <2>1. Fields(mid, c.kind, c.iodir, c.value \ {pin}, c.hwIodir, c.hwValue)
    BY ChipType, ExceptValue
  <2>2. [c EXCEPT !.value = @ \ {pin}, !.iodir = With(@, pin, FALSE)] = cached
    BY <1>0, <2>1 DEF Fields
  <2> HIDE DEF mid
  <2>3. Fields(cached, c.kind, i, c.value \ {pin}, c.hwIodir, c.hwValue)
    BY <2>1, ChipType, ExceptIodir DEF Fields
  <2> HIDE DEF cached
  <2>4. cached \in Chip /\ MergeDirectionAndOutput(cached) = [cached EXCEPT !.hwValue = hv]
    BY <2>3 DEF MergeDirectionAndOutput, Fields
  <2>5. Fields(MergeDirectionAndOutput(cached), c.kind, i, c.value \ {pin}, c.hwIodir, hv)
    BY <2>3, <2>4, ChipType, ExceptHwValue DEF Fields
  <2>6. o \in Attempts(c, cached, MergeDirectionAndOutput(cached))
    BY <1>4, <2>2 DEF SetDirection, Pcf8574SetDirection
  <2> QED BY <1>4, <2>3, <2>5, <2>6 DEF Outcome, Attempts
<1>5. CASE c.kind = "carSensor"
  BY <1>5 DEF SetDirection, CarSensorSetDirection, Outcome
<1>6. CASE c.kind = "local"
  <2> DEFINE mid    == [c EXCEPT !.hwIodir = c.hwIodir \ {pin}]
             set    == [mid EXCEPT !.hwValue = c.hwValue \ {pin}]
             opened == [set EXCEPT !.iodir = i]
  <2>1. Fields(mid, c.kind, c.iodir, c.value, c.hwIodir \ {pin}, c.hwValue)
    BY ChipType, ExceptHwIodir
  <2>2. [c EXCEPT !.hwIodir = With(@, pin, FALSE), !.hwValue = @ \ {pin}] = set
    BY <1>0, <2>1 DEF Fields
  <2> HIDE DEF mid
  <2>3. Fields(set, c.kind, c.iodir, c.value, c.hwIodir \ {pin}, c.hwValue \ {pin})
    BY <2>1, ChipType, ExceptHwValue DEF Fields
  <2>4. [set EXCEPT !.iodir = With(@, pin, FALSE)] = opened
    BY <1>0, <2>3 DEF Fields
  <2> HIDE DEF set
  <2>5. Fields(opened, c.kind, i, c.value, c.hwIodir \ {pin}, c.hwValue \ {pin})
    BY <2>3, ChipType, ExceptIodir DEF Fields
  <2> HIDE DEF opened
  <2>6. o \in {Outcome(opened, "ok"), Outcome(c, "error"), Outcome(set, "error")}
    BY <1>6, <2>2, <2>4 DEF SetDirection, LocalSetDirection
  <2> QED BY <1>6, <2>3, <2>5, <2>6 DEF Outcome
<1>7. CASE c.kind = "localClosed"
  BY <1>7 DEF SetDirection, Outcome
<1> QED BY <1>2, <1>3, <1>4, <1>5, <1>6, <1>7, ChipType DEF Kind

(* The outcomes of Close.                                                   *)
LEMMA CloseKinds ==
    ASSUME NEW c \in Chip, NEW o \in CloseChip(c)
    PROVE  /\ o.kind # "panic"
           /\ \/ o.chip = c /\ c.kind # "local" /\ (o.kind = "ok" => c.kind = "localClosed")
              \/ /\ c.kind \in Mcp
                 /\ \E hi \in SUBSET Pin :
                      /\ c.hwIodir \subseteq hi
                      /\ o.kind = "ok" => hi = Pin
                      /\ Fields(o.chip, c.kind, Pin, c.value, hi, c.hwValue)
              \/ /\ c.kind = "pcf8574"
                 /\ \E hv \in {c.hwValue, Pin} :
                      /\ o.kind = "ok" => hv = Pin
                      /\ Fields(o.chip, c.kind, Pin, {}, c.hwIodir, hv)
              \/ /\ c.kind = "carSensor"
                 /\ \E hv \in SUBSET c.hwValue :
                      Fields(o.chip, c.kind, c.iodir, {}, c.hwIodir, hv)
              \/ /\ c.kind = "local"
                 /\ o.kind = "ok"
                 /\ Fields(o.chip, "localClosed", c.iodir, c.value, c.hwIodir, c.hwValue)
<1>0. ASSUME NEW k \in SUBSET Pin, NEW d, NEW hi \in SUBSET Pin,
             Fields(d, c.kind, Pin, c.value, hi, c.hwValue)
      PROVE  Fields(WriteIodir(d, k), c.kind, Pin, c.value, k \cup hi, c.hwValue)
  <2>1. Copied(Pin, hi, k) = k \cup hi
    BY DEF Copied
  <2>2. d \in Chip /\ WriteIodir(d, k) = [d EXCEPT !.hwIodir = k \cup hi]
    BY <1>0, <2>1 DEF WriteIodir, Fields
  <2> QED BY <1>0, <2>2, ExceptHwIodir DEF Fields
<1> DEFINE cached == [c EXCEPT !.iodir = Pin]
<1>1. Fields(cached, c.kind, Pin, c.value, c.hwIodir, c.hwValue)
  BY ExceptIodir
<1>2. CASE c.kind = "mcp23017"
  <2> HIDE DEF cached
  <2> DEFINE first == WriteIodir(cached, Pin \ BankB)
             both  == WriteIodir(first, BankB)
  <2>1. o \in Attempts(c, cached, both) \cup {Outcome(first, "error")}
    BY <1>2 DEF CloseChip, Mcp23017Close, cached
  <2>2. BankB \in SUBSET Pin /\ c.hwIodir \in SUBSET Pin
    BY PinAssumption, ChipType DEF Pin
  <2>3. Fields(first, c.kind, Pin, c.value, (Pin \ BankB) \cup c.hwIodir, c.hwValue)
    BY <1>0, <1>1, <2>2
  <2> HIDE DEF first
  <2>4. Fields(both, c.kind, Pin, c.value, BankB \cup ((Pin \ BankB) \cup c.hwIodir), c.hwValue)
    BY <1>0, <2>2, <2>3
  <2>5. BankB \cup ((Pin \ BankB) \cup c.hwIodir) = Pin
    BY <2>2
  <2>6. Fields(both, c.kind, Pin, c.value, Pin, c.hwValue)
    BY <2>4, <2>5
  <2> HIDE DEF both
  <2>7. CASE o = Outcome(first, "error")
    BY <1>2, <2>2, <2>3, <2>7 DEF Outcome, Mcp
  <2>8. CASE o \in Attempts(c, cached, both)
    BY <1>1, <1>2, <2>2, <2>6, <2>8 DEF Outcome, Attempts, Mcp
  <2> QED BY <2>1, <2>7, <2>8
<1>3. CASE c.kind = "mcp23008"
  <2> HIDE DEF cached
  <2> DEFINE all == WriteIodir(cached, Pin)
  <2>1. o \in Attempts(c, cached, all)
    BY <1>3 DEF CloseChip, Mcp23008Close, cached
  <2>2. c.hwIodir \in SUBSET Pin /\ Pin \cup c.hwIodir = Pin
    BY ChipType
  <2>3. Fields(all, c.kind, Pin, c.value, Pin, c.hwValue)
    BY <1>0, <1>1, <2>2
  <2> HIDE DEF all
  <2> QED BY <1>1, <1>3, <2>1, <2>2, <2>3 DEF Outcome, Attempts, Mcp
<1>4. CASE c.kind = "pcf8574"
  <2> HIDE DEF cached
  <2> DEFINE empty == [cached EXCEPT !.value = {}]
             all   == [empty EXCEPT !.hwValue = Pin]
  <2>1. Fields(empty, c.kind, Pin, {}, c.hwIodir, c.hwValue)
    BY <1>1, ExceptValue DEF Fields
  <2>2. [c EXCEPT !.iodir = Pin, !.value = {}] = empty
    BY DEF cached
  <2> HIDE DEF empty
  <2>3. Fields(all, c.kind, Pin, {}, c.hwIodir, Pin)
    BY <2>1, ExceptHwValue DEF Fields
  <2> HIDE DEF all
  <2>4. o \in Attempts(c, empty, all)
    BY <1>4, <2>2 DEF CloseChip, Pcf8574Close, all
  <2> QED BY <1>4, <2>1, <2>3, <2>4 DEF Outcome, Attempts
<1>5. CASE c.kind = "carSensor"
  <2> DEFINE empty == [c EXCEPT !.value = {}]
             first == WriteValue(empty, Pin \ BankB)
             both  == WriteValue(first, BankB)
  <2>1. Fields(empty, c.kind, c.iodir, {}, c.hwIodir, c.hwValue)
    BY ExceptValue
  <2>2. o \in Attempts(c, empty, both) \cup {Outcome(first, "error")}
    BY <1>5 DEF CloseChip, CarSensorClose
  <2> HIDE DEF empty
  <2>3. ASSUME NEW d, NEW hv \in SUBSET Pin, NEW k,
               Fields(d, c.kind, c.iodir, {}, c.hwIodir, hv)
        PROVE  Fields(WriteValue(d, k), c.kind, c.iodir, {}, c.hwIodir, hv \ k)
    <3>1. Copied({}, hv, k) = hv \ k
      BY DEF Copied
    <3>2. d \in Chip /\ WriteValue(d, k) = [d EXCEPT !.hwValue = hv \ k]
      BY <2>3, <3>1 DEF WriteValue, Fields
    <3> QED BY <2>3, <3>2, ExceptHwValue DEF Fields
  <2>4. c.hwValue \in SUBSET Pin
    BY ChipType
  <2>5. Fields(first, c.kind, c.iodir, {}, c.hwIodir, c.hwValue \ (Pin \ BankB))
    BY <2>1, <2>3, <2>4
  <2> HIDE DEF first
  <2>6. Fields(both, c.kind, c.iodir, {}, c.hwIodir, (c.hwValue \ (Pin \ BankB)) \ BankB)
    BY <2>3, <2>4, <2>5
  <2> HIDE DEF both
  <2>7. CASE o = Outcome(first, "error")
    BY <1>5, <2>5, <2>7 DEF Outcome
  <2>8. CASE o \in Attempts(c, empty, both)
    BY <1>5, <2>1, <2>6, <2>8 DEF Outcome, Attempts
  <2> QED BY <2>2, <2>7, <2>8
<1>6. CASE c.kind = "local"
  <2>1. o = Outcome([c EXCEPT !.kind = "localClosed"], "ok")
    BY <1>6 DEF CloseChip, LocalClose
  <2>2. Fields([c EXCEPT !.kind = "localClosed"], "localClosed", c.iodir, c.value, c.hwIodir, c.hwValue)
    BY DEF Fields, Chip, Kind
  <2> QED BY <1>6, <2>1, <2>2 DEF Outcome
<1>7. CASE c.kind = "localClosed"
  BY <1>7 DEF CloseChip, Outcome
<1> QED BY <1>2, <1>3, <1>4, <1>5, <1>6, <1>7, ChipType DEF Kind

-----------------------------------------------------------------------------
(* A chip as the previous worker left it, that the cache would switch off.  *)
Leftover(c) ==
    /\ Inverted = {}
    /\ c.kind \in {"carSensor", "local", "localClosed"}
    /\ c.value \cap Relay = {}
    /\ ~(Straight \in c.hwValue \ c.hwIodir /\ Off \in c.hwValue \ c.hwIodir)

LEMMA QuietIsOff ==
    ASSUME NEW c \in Chip, NEW pin \in Pin, Quiet(c, pin)
    PROVE  pin \notin IF pin \in Inverted \/ c.kind = "pcf8574" THEN DrivenLow(c) ELSE DrivenHigh(c)
<1> USE DEF Quiet, DrivenHigh, DrivenLow, AtRest, Low
<1>1. CASE c.kind = "pcf8574"
  BY <1>1
<1>2. CASE c.kind \in {"local", "localClosed"}
  BY <1>2
<1>3. CASE c.kind \in {"mcp23017", "mcp23008", "carSensor"}
  BY <1>3
<1> QED BY <1>1, <1>2, <1>3, ChipType DEF Kind

LEMMA LeftoverIsNotBoth == ASSUME chip \in Chip, Leftover(chip) PROVE NeverBothCoils
  BY DEF Leftover, NeverBothCoils, Energised, ActiveLow, DrivenHigh

(* A register that is written from the cache keeps a quiet pin quiet.       *)
LEMMA WriteKeepsQuiet ==
    ASSUME NEW c \in Chip, NEW d \in Chip, NEW pin, NEW q, Quiet(c, q),
           c.kind \in {"mcp23017", "mcp23008", "carSensor"},
           d.kind = c.kind, d.iodir = c.iodir, d.hwIodir = c.hwIodir,
           q # pin => (q \in d.value <=> q \in c.value),
           q = pin => (q \in d.value <=> Low(c, q)),
           \/ q \in d.hwValue <=> q \in d.value
           \/ q \in d.hwValue <=> q \in c.hwValue
    PROVE  Quiet(d, q)
<1>1. Low(d, q) <=> Low(c, q)
  BY DEF Low
<1>2. CASE q \in c.iodir \cap c.hwIodir
  BY <1>2 DEF Quiet
<1>3. CASE AtRest(c, q, c.value) /\ AtRest(c, q, c.hwValue)
  <2>1. q \in d.value <=> Low(d, q)
    BY <1>1, <1>3 DEF AtRest
  <2>2. q \in d.hwValue <=> Low(d, q)
    BY <2>1, <1>1, <1>3 DEF AtRest
  <2> QED BY <2>1, <2>2 DEF Quiet, AtRest
<1> QED BY <1>2, <1>3 DEF Quiet

(* What Set does to quiet pins: it disturbs no other pin, and its own only  *)
(* by activating it.                                                        *)
SetPinKept(c, pin, high, o) ==
    /\ o.chip \in Chip
    /\ o.chip.kind = c.kind
    /\ o.kind = "panic" => c.kind = "localClosed"
    /\ \A q \in Pin :
          Quiet(c, q) /\ (q # pin \/ (high = TRUE <=> Low(c, pin))) => Quiet(o.chip, q)
    /\ (high = TRUE <=> Low(c, pin)) /\ o.kind = "ok" => Quiet(o.chip, pin)
    /\ Leftover(c) /\ (pin \in Relay => high = FALSE) => Leftover(o.chip)

LEMMA SetPinQuiet ==
    ASSUME NEW c \in Chip, NEW pin \in Pin, NEW high \in BOOLEAN,
           NEW o \in SetPin(c, pin, high)
    PROVE  SetPinKept(c, pin, high, o)
<1> USE DEF SetPinKept
<1> DEFINE v == With(c.value, pin, high)
<1> HIDE DEF v
<1>0. /\ \A q \in Pin : q # pin => (q \in v <=> q \in c.value)
      /\ pin \in v <=> high = TRUE
  BY DEF v, With
<1>1. CASE o.chip = c /\ o.kind # "ok" /\ (o.kind = "panic" => c.kind = "localClosed")
  BY <1>1
<1>2. ASSUME c.kind \in Mcp \cup {"carSensor"}, NEW reg \in SUBSET Pin, pin \in reg, o.kind # "panic",
             Fields(o.chip, c.kind, c.iodir, v, c.hwIodir, Copied(v, c.hwValue, reg))
      PROVE  /\ \A q \in Pin :
                    Quiet(c, q) /\ (q # pin \/ (high = TRUE <=> Low(c, pin))) => Quiet(o.chip, q)
             /\ (high = TRUE <=> Low(c, pin)) => Quiet(o.chip, pin)
             /\ Leftover(c) /\ (pin \in Relay => high = FALSE) => Leftover(o.chip)
  <2>1. /\ o.chip \in Chip /\ o.chip.kind = c.kind /\ o.chip.value = v
        /\ o.chip.iodir = c.iodir /\ o.chip.hwIodir = c.hwIodir
        /\ c.kind \in {"mcp23017", "mcp23008", "carSensor"}
    BY <1>2 DEF Mcp, Fields
  <2>2. \A q \in Pin : q \in o.chip.hwValue <=> (IF q \in reg THEN q \in v ELSE q \in c.hwValue)
    BY <1>2 DEF Fields, Copied
  <2>3. ASSUME NEW q \in Pin, Quiet(c, q), q # pin \/ (high = TRUE <=> Low(c, pin))
        PROVE  Quiet(o.chip, q)
    <3>1. /\ q # pin => (q \in o.chip.value <=> q \in c.value)
          /\ q = pin => (q \in o.chip.value <=> Low(c, q))
      BY <1>0, <2>1, <2>3
    <3>2. \/ q \in o.chip.hwValue <=> q \in o.chip.value
          \/ q \in o.chip.hwValue <=> q \in c.hwValue
      BY <2>1, <2>2
    <3> QED BY <2>1, <2>3, <3>1, <3>2, WriteKeepsQuiet
  <2>4. ASSUME high = TRUE <=> Low(c, pin) PROVE Quiet(o.chip, pin)
    <3>1. Low(o.chip, pin) <=> Low(c, pin)
      BY <2>1 DEF Low
    <3>2. AtRest(o.chip, pin, o.chip.value) /\ AtRest(o.chip, pin, o.chip.hwValue)
      BY <1>0, <1>2, <2>1, <2>2, <2>4, <3>1 DEF AtRest
    <3> QED BY <2>1, <3>2 DEF Quiet
  <2>5. ASSUME Leftover(c), pin \in Relay => high = FALSE PROVE Leftover(o.chip)
    <3>1. Straight \notin v /\ Off \notin v
      BY <1>0, <2>5 DEF Leftover, Relay, Pin
    <3> QED BY <2>1, <2>2, <2>5, <3>1 DEF Leftover, Relay, Pin
  <2> QED BY <2>3, <2>4, <2>5
<1>3. ASSUME c.kind \in Mcp \cup {"carSensor"}, o.kind \notin {"panic", "ok"},
             Fields(o.chip, c.kind, c.iodir, v, c.hwIodir, c.hwValue)
      PROVE  /\ \A q \in Pin :
                    Quiet(c, q) /\ (q # pin \/ (high = TRUE <=> Low(c, pin))) => Quiet(o.chip, q)
             /\ Leftover(c) /\ (pin \in Relay => high = FALSE) => Leftover(o.chip)
  <2>1. /\ o.chip \in Chip /\ o.chip.kind = c.kind /\ o.chip.value = v
        /\ o.chip.iodir = c.iodir /\ o.chip.hwIodir = c.hwIodir /\ o.chip.hwValue = c.hwValue
        /\ c.kind \in {"mcp23017", "mcp23008", "carSensor"}
    BY <1>3 DEF Mcp, Fields
  <2>2. ASSUME NEW q \in Pin, Quiet(c, q), q # pin \/ (high = TRUE <=> Low(c, pin))
        PROVE  Quiet(o.chip, q)
    <3>1. /\ q # pin => (q \in o.chip.value <=> q \in c.value)
          /\ q = pin => (q \in o.chip.value <=> Low(c, q))
      BY <1>0, <2>1, <2>2
    <3>2. \/ q \in o.chip.hwValue <=> q \in o.chip.value
          \/ q \in o.chip.hwValue <=> q \in c.hwValue
      BY <2>1, <2>2
    <3> QED BY <2>1, <2>2, <3>1, <3>2, WriteKeepsQuiet
  <2>3. ASSUME Leftover(c), pin \in Relay => high = FALSE PROVE Leftover(o.chip)
    <3>1. Straight \notin v /\ Off \notin v
      BY <1>0, <2>3 DEF Leftover, Relay, Pin
    <3> QED BY <2>1, <2>3, <3>1 DEF Leftover, Relay, Pin
  <2> QED BY <2>2, <2>3
<1>4. ASSUME c.kind = "pcf8574", pin \notin c.iodir, NEW hv,
             hv = c.iodir \cup v \/ (hv = c.hwValue /\ o.kind # "ok"),
             Fields(o.chip, c.kind, c.iodir, v, c.hwIodir, hv)
      PROVE  /\ \A q \in Pin :
                    Quiet(c, q) /\ (q # pin \/ (high = TRUE <=> Low(c, pin))) => Quiet(o.chip, q)
             /\ (high = TRUE <=> Low(c, pin)) /\ o.kind = "ok" => Quiet(o.chip, pin)
             /\ ~Leftover(c)
  <2>1. /\ o.chip.kind = c.kind /\ o.chip.value = v /\ o.chip.iodir = c.iodir /\ o.chip.hwValue = hv
        /\ c.kind = "pcf8574" /\ Low(c, pin)
    BY <1>4 DEF Fields, Low
  <2>2. ASSUME NEW q \in Pin, Quiet(c, q), q # pin \/ high = TRUE PROVE Quiet(o.chip, q)
    <3>1. q \in c.hwValue /\ q \in c.iodir \cup c.value
      BY <2>1, <2>2 DEF Quiet
    <3>2. q \in c.iodir \cup v
      BY <1>0, <2>2, <3>1
    <3> QED BY <1>4, <2>1, <3>1, <3>2 DEF Quiet
  <2>3. ASSUME high = TRUE, o.kind = "ok" PROVE Quiet(o.chip, pin)
    BY <1>0, <1>4, <2>1, <2>3 DEF Quiet
  <2> QED BY <2>1, <2>2, <2>3 DEF Leftover
<1>5. ASSUME c.kind = "local",
             Fields(o.chip, c.kind, c.iodir, c.value, c.hwIodir, With(c.hwValue, pin, high))
      PROVE  /\ \A q \in Pin :
                    Quiet(c, q) /\ (q # pin \/ (high = TRUE <=> Low(c, pin))) => Quiet(o.chip, q)
             /\ (high = TRUE <=> Low(c, pin)) => Quiet(o.chip, pin)
             /\ Leftover(c) /\ (pin \in Relay => high = FALSE) => Leftover(o.chip)
  <2>1. /\ o.chip.kind = c.kind /\ o.chip.value = c.value /\ o.chip.hwIodir = c.hwIodir
        /\ \A q \in Pin : q # pin => (q \in o.chip.hwValue <=> q \in c.hwValue)
        /\ pin \in o.chip.hwValue <=> high = TRUE
    BY <1>5 DEF Fields, With
  <2>2. \A q \in Pin : Low(o.chip, q) <=> Low(c, q)
    BY <2>1 DEF Low
  <2>3. (high = TRUE <=> Low(c, pin)) => Quiet(o.chip, pin)
    BY <1>5, <2>1, <2>2 DEF Quiet, AtRest
  <2>4. ASSUME NEW q \in Pin, Quiet(c, q), q # pin PROVE Quiet(o.chip, q)
    BY <1>5, <2>1, <2>2, <2>4 DEF Quiet, AtRest
  <2>5. ASSUME Leftover(c), pin \in Relay => high = FALSE PROVE Leftover(o.chip)
    BY <1>5, <2>1, <2>5 DEF Leftover, Relay, Pin
  <2> QED BY <2>3, <2>4, <2>5
<1>6. \A k, i, w, hi, hv : Fields(o.chip, k, i, w, hi, hv) => o.chip \in Chip /\ o.chip.kind = k
  BY DEF Fields
<1>7. CASE /\ c.kind \in Mcp \cup {"carSensor"}
           /\ \E reg \in SUBSET Pin :
                /\ pin \in reg
                /\ o.kind # "panic"
                /\ \/ /\ o.kind # "ok"
                      /\ Fields(o.chip, c.kind, c.iodir, v, c.hwIodir, c.hwValue)
                   \/ Fields(o.chip, c.kind, c.iodir, v, c.hwIodir, Copied(v, c.hwValue, reg))
  BY <1>2, <1>3, <1>6, <1>7
<1>8. CASE /\ c.kind = "pcf8574"
           /\ pin \notin c.iodir
           /\ o.kind # "panic"
           /\ \/ /\ o.kind # "ok"
                 /\ Fields(o.chip, c.kind, c.iodir, v, c.hwIodir, c.hwValue)
              \/ Fields(o.chip, c.kind, c.iodir, v, c.hwIodir, c.iodir \cup v)
  BY <1>4, <1>6, <1>8
<1>9. CASE /\ c.kind = "local"
           /\ o.kind # "panic"
           /\ Fields(o.chip, c.kind, c.iodir, c.value, c.hwIodir, With(c.hwValue, pin, high))
  BY <1>5, <1>6, <1>9
<1> QED
  <2> USE DEF v
  <2> QED BY <1>1, <1>7, <1>8, <1>9, SetPinKinds

(* SetDirection disturbs no other pin.                                      *)
LEMMA SetDirectionQuiet ==
    ASSUME NEW c \in Chip, NEW pin \in Pin, NEW o \in SetDirection(c, pin, FALSE)
    PROVE  /\ o.chip \in Chip
           /\ o.chip.kind = c.kind
           /\ o.kind = "panic" => c.kind = "localClosed"
           /\ \A q \in Pin : q # pin /\ Quiet(c, q) => Quiet(o.chip, q)
           /\ Leftover(c) => Leftover(o.chip)
<1> DEFINE i == c.iodir \ {pin}
<1>1. CASE o.chip = c /\ (o.kind = "panic" => c.kind = "localClosed")
  BY <1>1
<1>2. ASSUME c.kind \in Mcp, NEW hi, Fields(o.chip, c.kind, i, c.value, hi, c.hwValue),
             \A q \in Pin : q # pin /\ q \in i /\ q \in c.hwIodir => q \in hi
      PROVE  /\ \A q \in Pin : q # pin /\ Quiet(c, q) => Quiet(o.chip, q)
             /\ ~Leftover(c)
  <2>1. /\ o.chip.kind = c.kind /\ o.chip.iodir = i /\ o.chip.value = c.value
        /\ o.chip.hwIodir = hi /\ o.chip.hwValue = c.hwValue
        /\ c.kind \in {"mcp23017", "mcp23008", "carSensor"}
    BY <1>2 DEF Fields, Mcp
  <2>2. ASSUME NEW q \in Pin, q # pin, Quiet(c, q) PROVE Quiet(o.chip, q)
    <3>1. Low(o.chip, q) <=> Low(c, q)
      BY <2>1 DEF Low
    <3>2. CASE q \in c.iodir \cap c.hwIodir
      BY <1>2, <2>1, <2>2, <3>2 DEF Quiet
    <3>3. CASE AtRest(c, q, c.value) /\ AtRest(c, q, c.hwValue)
      BY <2>1, <3>1, <3>3 DEF Quiet, AtRest
    <3> QED BY <2>1, <2>2, <3>2, <3>3 DEF Quiet
  <2> QED BY <1>2, <2>2 DEF Leftover, Mcp
<1>3. ASSUME c.kind = "pcf8574", NEW hv, hv = c.hwValue \/ hv = i \cup (c.value \ {pin}),
             Fields(o.chip, c.kind, i, c.value \ {pin}, c.hwIodir, hv)
      PROVE  /\ \A q \in Pin : q # pin /\ Quiet(c, q) => Quiet(o.chip, q)
             /\ ~Leftover(c)
  <2>1. /\ o.chip.kind = c.kind /\ o.chip.iodir = i /\ o.chip.value = c.value \ {pin}
        /\ o.chip.hwValue = hv
    BY <1>3 DEF Fields
  <2> QED BY <1>3, <2>1 DEF Quiet, Leftover
<1>4. ASSUME c.kind = "local", NEW in,
             Fields(o.chip, c.kind, in, c.value, c.hwIodir \ {pin}, c.hwValue \ {pin})
      PROVE  /\ \A q \in Pin : q # pin /\ Quiet(c, q) => Quiet(o.chip, q)
             /\ Leftover(c) => Leftover(o.chip)
  <2>1. /\ o.chip.kind = c.kind /\ o.chip.value = c.value
        /\ o.chip.hwIodir = c.hwIodir \ {pin} /\ o.chip.hwValue = c.hwValue \ {pin}
    BY <1>4 DEF Fields
  <2>2. \A q \in Pin : Low(o.chip, q) <=> Low(c, q)
    BY <2>1 DEF Low
  <2>3. ASSUME NEW q \in Pin, q # pin, Quiet(c, q) PROVE Quiet(o.chip, q)
    BY <1>4, <2>1, <2>2, <2>3 DEF Quiet, AtRest
  <2>4. Leftover(c) => Leftover(o.chip)
    BY <2>1 DEF Leftover
  <2> QED BY <2>3, <2>4
<1>5. \A k, in, w, hi, hv : Fields(o.chip, k, in, w, hi, hv) => o.chip \in Chip /\ o.chip.kind = k
  BY DEF Fields
<1>6. CASE /\ c.kind \in Mcp
           /\ o.kind # "panic"
           /\ \/ Fields(o.chip, c.kind, i, c.value, c.hwIodir, c.hwValue)
              \/ \E reg \in SUBSET Pin :
                   Fields(o.chip, c.kind, i, c.value, Copied(i, c.hwIodir, reg), c.hwValue)
  <2>1. \E hi : /\ Fields(o.chip, c.kind, i, c.value, hi, c.hwValue)
                /\ \A q \in Pin : q # pin /\ q \in i /\ q \in c.hwIodir => q \in hi
    BY <1>6 DEF Copied
  <2> QED BY <1>2, <1>5, <1>6, <2>1
<1>7. CASE /\ c.kind = "pcf8574"
           /\ o.kind # "panic"
           /\ \E hv \in {c.hwValue, i \cup (c.value \ {pin})} :
                 Fields(o.chip, c.kind, i, c.value \ {pin}, c.hwIodir, hv)
  BY <1>3, <1>5, <1>7
<1>8. CASE /\ c.kind = "local"
           /\ o.kind # "panic"
           /\ \E in \in {c.iodir, i} :
                 Fields(o.chip, c.kind, in, c.value, c.hwIodir \ {pin}, c.hwValue \ {pin})
  BY <1>4, <1>5, <1>8
<1> QED BY <1>1, <1>6, <1>7, <1>8, SetDirectionKinds

(* All pins are inputs, in the cache and on the chip.                       *)
Closed(c) ==
    /\ c.kind \in Expander => c.iodir = Pin
    /\ c.kind \in Mcp => c.hwIodir = Pin
    /\ c.kind = "pcf8574" => c.hwValue = Pin

(* Close disturbs no pin, and leaves the chip closed if it succeeds.        *)
LEMMA CloseQuiet ==
    ASSUME NEW c \in Chip, NEW o \in CloseChip(c)
    PROVE  /\ o.chip \in Chip
           /\ o.kind # "panic"
           /\ c.kind # "local" => o.chip.kind = c.kind
           /\ c.kind = "local" => o.chip.kind = "localClosed" /\ o.kind = "ok"
           /\ SafeKind(c) => \A q \in Pin : Quiet(c, q) => Quiet(o.chip, q)
           /\ Leftover(c) => Leftover(o.chip)
           /\ o.kind = "ok" => Closed(o.chip)
<1>1. CASE o.chip = c /\ c.kind # "local" /\ (o.kind = "ok" => c.kind = "localClosed")
  BY <1>1, CloseKinds DEF Closed, Expander, Mcp
<1>2. ASSUME c.kind \in Mcp, NEW hi \in SUBSET Pin, c.hwIodir \subseteq hi, o.kind = "ok" => hi = Pin,
             Fields(o.chip, c.kind, Pin, c.value, hi, c.hwValue)
      PROVE  /\ o.kind = "ok" => Closed(o.chip)
             /\ \A q \in Pin : Quiet(c, q) => Quiet(o.chip, q)
             /\ ~Leftover(c)
  <2>1. /\ o.chip.kind = c.kind /\ o.chip.iodir = Pin /\ o.chip.value = c.value
        /\ o.chip.hwIodir = hi /\ o.chip.hwValue = c.hwValue
        /\ c.kind \in {"mcp23017", "mcp23008", "carSensor"} /\ c.kind # "carSensor"
    BY <1>2 DEF Fields, Mcp
  <2>2. ASSUME NEW q \in Pin, Quiet(c, q) PROVE Quiet(o.chip, q)
    <3>1. Low(o.chip, q) <=> Low(c, q)
      BY <2>1 DEF Low
    <3> QED BY <1>2, <2>1, <2>2, <3>1 DEF Quiet, AtRest
  <2> QED BY <1>2, <2>1, <2>2 DEF Closed, Leftover, Mcp
<1>3. ASSUME c.kind = "pcf8574", NEW hv \in {c.hwValue, Pin}, o.kind = "ok" => hv = Pin,
             Fields(o.chip, c.kind, Pin, {}, c.hwIodir, hv)
      PROVE  /\ o.kind = "ok" => Closed(o.chip)
             /\ \A q \in Pin : Quiet(c, q) => Quiet(o.chip, q)
             /\ ~Leftover(c)
  <2>1. o.chip.kind = c.kind /\ o.chip.iodir = Pin /\ o.chip.hwValue = hv
    BY <1>3 DEF Fields
  <2> QED BY <1>3, <2>1 DEF Closed, Mcp, Quiet, Leftover
<1>4. ASSUME c.kind = "carSensor", NEW hv \in SUBSET c.hwValue,
             Fields(o.chip, c.kind, c.iodir, {}, c.hwIodir, hv)
      PROVE  /\ o.kind = "ok" => Closed(o.chip)
             /\ SafeKind(c) => \A q \in Pin : Quiet(c, q) => Quiet(o.chip, q)
             /\ Leftover(c) => Leftover(o.chip)
  <2>1. /\ o.chip.kind = c.kind /\ o.chip.iodir = c.iodir /\ o.chip.value = {}
        /\ o.chip.hwIodir = c.hwIodir /\ o.chip.hwValue = hv
    BY <1>4 DEF Fields
  <2>2. ASSUME SafeKind(c), NEW q \in Pin, Quiet(c, q) PROVE Quiet(o.chip, q)
    <3>1. ~Low(c, q) /\ ~Low(o.chip, q)
      BY <1>4, <2>1, <2>2 DEF SafeKind, Expander, Mcp, Low
    <3> QED BY <1>4, <2>1, <2>2, <3>1 DEF Quiet, AtRest
  <2>3. Leftover(c) => Leftover(o.chip)
    BY <1>4, <2>1 DEF Leftover
  <2>4. Closed(o.chip)
    BY <1>4, <2>1 DEF Closed, Expander, Mcp
  <2> QED BY <2>2, <2>3, <2>4
<1>5. ASSUME c.kind = "local",
             Fields(o.chip, "localClosed", c.iodir, c.value, c.hwIodir, c.hwValue)
      PROVE  /\ Closed(o.chip)
             /\ \A q \in Pin : Quiet(c, q) => Quiet(o.chip, q)
             /\ Leftover(c) => Leftover(o.chip)
  <2>1. /\ o.chip.kind = "localClosed" /\ o.chip.value = c.value
        /\ o.chip.hwIodir = c.hwIodir /\ o.chip.hwValue = c.hwValue
    BY <1>5 DEF Fields
  <2>2. \A q \in Pin : Low(o.chip, q) <=> Low(c, q)
    BY <1>5, <2>1 DEF Low
  <2>3. ASSUME NEW q \in Pin, Quiet(c, q) PROVE Quiet(o.chip, q)
    BY <1>5, <2>1, <2>2, <2>3 DEF Quiet, AtRest
  <2>4. Leftover(c) => Leftover(o.chip)
    BY <1>5, <2>1 DEF Leftover
  <2>5. Closed(o.chip)
    BY <2>1 DEF Closed, Expander, Mcp
  <2> QED BY <2>3, <2>4, <2>5
<1>6. \A k, in, w, hi, hv : Fields(o.chip, k, in, w, hi, hv) => o.chip \in Chip /\ o.chip.kind = k
  BY DEF Fields
<1>7. CASE /\ c.kind \in Mcp
           /\ \E hi \in SUBSET Pin :
                /\ c.hwIodir \subseteq hi
                /\ o.kind = "ok" => hi = Pin
                /\ Fields(o.chip, c.kind, Pin, c.value, hi, c.hwValue)
  <2>1. c.kind # "local"
    BY <1>7 DEF Mcp
  <2> QED BY <1>2, <1>6, <1>7, <2>1, CloseKinds
<1>8. CASE /\ c.kind = "pcf8574"
           /\ \E hv \in {c.hwValue, Pin} :
                /\ o.kind = "ok" => hv = Pin
                /\ Fields(o.chip, c.kind, Pin, {}, c.hwIodir, hv)
  BY <1>3, <1>6, <1>8, CloseKinds
<1>9. CASE /\ c.kind = "carSensor"
           /\ \E hv \in SUBSET c.hwValue : Fields(o.chip, c.kind, c.iodir, {}, c.hwIodir, hv)
  BY <1>4, <1>6, <1>9, CloseKinds
<1>10. CASE /\ c.kind = "local"
            /\ o.kind = "ok"
            /\ Fields(o.chip, "localClosed", c.iodir, c.value, c.hwIodir, c.hwValue)
  BY <1>5, <1>6, <1>10, CloseKinds
<1> QED BY <1>1, <1>7, <1>8, <1>9, <1>10, CloseKinds

(* A closed chip stays closed: Set refuses its pins, which are inputs.      *)
LEMMA SetPinClosed ==
    ASSUME NEW c \in Chip, NEW pin \in Pin, NEW high \in BOOLEAN,
           NEW o \in SetPin(c, pin, high), Closed(c)
    PROVE  Closed(o.chip)
<1> DEFINE v == With(c.value, pin, high)
<1> HIDE DEF v
<1>1. CASE o.chip = c
  BY <1>1
<1>2. CASE c.kind \in Mcp /\ \E hv : Fields(o.chip, c.kind, c.iodir, v, c.hwIodir, hv)
  BY <1>2 DEF Closed, Fields, Expander, Mcp
<1>3. CASE c.kind = "pcf8574" /\ pin \notin c.iodir
  BY <1>3 DEF Closed, Expander
<1>4. CASE c.kind \notin Expander /\ o.chip.kind = c.kind
  BY <1>4 DEF Closed, Expander
<1>5. \A hv : Fields(o.chip, c.kind, c.iodir, v, c.hwIodir, hv) => o.chip.kind = c.kind
  BY DEF Fields
<1> QED
  <2> USE DEF v
  <2>1. CASE c.kind = "local"
    BY <1>1, <1>4, <2>1, SetPinKinds DEF Fields, Expander, Mcp
  <2>2. CASE c.kind # "local"
    BY <1>1, <1>2, <1>3, <1>4, <1>5, <2>2, SetPinKinds DEF Expander, Mcp
  <2> QED BY <2>1, <2>2

-----------------------------------------------------------------------------
(* What a call of the chip by t does that returns with outcome o.           *)
Returned(t, o, next, fail) ==
    /\ \A u \in Thread : u # t => pc'[u] = pc[u]
    /\ DOMAIN pc' = Thread
    /\ chip' = o.chip
    /\ o.kind = "ok" => pc'[t] = next
    /\ o.kind = "panic" <=> pc'[t] = "panic"
    /\ Error(o) => pc'[t] = fail

LEMMA ReturnEffect ==
    ASSUME TypeOK, NEW t \in Thread, NEW o, NEW next, NEW fail,
           next # "panic", fail # "panic", ChipReturns(t, o, next, fail)
    PROVE  Returned(t, o, next, fail)
<1>1. pc'[t] = CASE Error(o) -> fail [] o.kind = "panic" -> "panic" [] OTHER -> next
  BY DEF ChipReturns, Goto, TypeOK
<1>2. DOMAIN pc' = Thread /\ \A u \in Thread : u # t => pc'[u] = pc[u]
  BY DEF ChipReturns, Goto, TypeOK
<1>3. chip' = o.chip
  BY DEF ChipReturns
<1>4. CASE Error(o)
  BY <1>1, <1>2, <1>3, <1>4 DEF Returned, Error
<1>5. CASE o.kind = "panic"
  BY <1>1, <1>2, <1>3, <1>5 DEF Returned, Error
<1>6. CASE o.kind = "ok"
  BY <1>1, <1>2, <1>3, <1>6 DEF Returned, Error
<1> QED BY <1>4, <1>5, <1>6 DEF Error

(* What a call of Set by t does, with the pins that stay quiet.             *)
SetPinCalled(t, pin, active, next, fail) ==
    /\ \A u \in Thread : u # t => pc'[u] = pc[u]
    /\ DOMAIN pc' = Thread
    /\ pc'[t] \in {next, fail, "panic"}
    /\ pc'[t] = "panic" => chip.kind = "localClosed"
    /\ chip' \in Chip /\ chip'.kind = chip.kind
    /\ \A q \in Relay : Quiet(chip, q) /\ (q # pin \/ active = FALSE) => Quiet(chip', q)
    /\ active = FALSE /\ pc'[t] \notin {"panic", fail} => Quiet(chip', pin)
    /\ active = FALSE /\ Leftover(chip) => Leftover(chip')
    /\ Closed(chip) => Closed(chip')

LEMMA ReturnSetPin ==
    ASSUME TypeOK, NEW t \in Thread, NEW pin \in Relay, NEW active \in BOOLEAN,
           NEW next, NEW fail, next # "panic", fail # "panic",
           NEW o \in SetPin(chip, pin, Level(pin, active)), ChipReturns(t, o, next, fail)
    PROVE  /\ SetPinCalled(t, pin, active, next, fail)
           /\ active = FALSE /\ ~Error(o) /\ pc'[t] # "panic" => Quiet(chip', pin)
<1> DEFINE high == Level(pin, active)
<1>0. o \in SetPin(chip, pin, high)
  OBVIOUS
<1>1. /\ pin \in Pin /\ Relay \subseteq Pin /\ high \in BOOLEAN
      /\ active = FALSE => (high = TRUE <=> Low(chip, pin))
      /\ chip \in Chip
  BY DEF Relay, Pin, Level, ActiveLow, Low, TypeOK
<1> HIDE DEF high
<1>2. Returned(t, o, next, fail)
  BY ReturnEffect
<1>3. /\ chip' = o.chip
      /\ o.kind = "ok" => pc'[t] = next
      /\ o.kind = "panic" <=> pc'[t] = "panic"
      /\ Error(o) => pc'[t] = fail
  BY <1>2 DEF Returned
<1>4. SetPinKept(chip, pin, high, o)
  BY <1>0, <1>1, SetPinQuiet
<1>5. Closed(chip) => Closed(o.chip)
  BY <1>0, <1>1, SetPinClosed
<1>6. active = FALSE /\ Leftover(chip) => high = FALSE
  BY <1>1 DEF Leftover, Low
<1>7. /\ pc'[t] \in {next, fail, "panic"}
      /\ ~Error(o) /\ pc'[t] # "panic" => o.kind = "ok"
  BY <1>3 DEF Error
<1>8. ASSUME NEW q \in Relay, Quiet(chip, q), q # pin \/ active = FALSE PROVE Quiet(chip', q)
  BY <1>1, <1>3, <1>4, <1>8 DEF SetPinKept
<1>9. active = FALSE /\ o.kind = "ok" => Quiet(chip', pin)
  BY <1>1, <1>3, <1>4 DEF SetPinKept
<1> QED
  BY <1>2, <1>3, <1>4, <1>5, <1>6, <1>7, <1>8, <1>9 DEF SetPinKept, Returned, SetPinCalled

LEMMA CallSetPin ==
    ASSUME TypeOK, NEW t \in Thread, NEW pin \in Relay, NEW active \in BOOLEAN,
           NEW next, NEW fail, next # "panic", fail # "panic",
           ChipCall(t, SetPin(chip, pin, Level(pin, active)), next, fail)
    PROVE  SetPinCalled(t, pin, active, next, fail)
  BY ReturnSetPin DEF ChipCall

-----------------------------------------------------------------------------
(* Who is inside of switchTo or of the deactivations has the mutex.         *)
MutexInv ==
    /\ pc["msg"] \in SwitchToPc <=> mutex = "msg"
    /\ pc["main"] \in {"clearStraight", "clearOff"} <=> mutex = "main"

(* Requests come when the object is configured; the first switch scheduled  *)
(* a release.                                                               *)
ConfigInv ==
    /\ direction["main"] = Straight
    /\ pc["main"] \in ConfigurePc \cup SwitchToPc \cup {"configured", "failed"}
          => pc["msg"] = "idle"
    /\ pc["main"] = "configured" => disableAllNeeded
    /\ chip.kind = "localClosed" => pc["main"] = "closed"

(* One of the coils is quiet, the opposite one when a coil is activated.    *)
PairInv ==
    SafeKind(chip) =>
        /\ pc["main"] \in {"dirStraight", "offStraight"}
              => Quiet(chip, Off) \/ Leftover(chip)
        /\ pc["main"] \in {"dirOff", "offOff"} => Quiet(chip, Straight)
        /\ \/ Quiet(chip, Straight)
           \/ Quiet(chip, Off)
           \/ /\ pc["main"] \in {"dirStraight", "offStraight", "failed", "closed", "notClosed"}
              /\ Leftover(chip)
        /\ \A t \in Thread : pc[t] = "activate" => Quiet(chip, Opposite(direction[t]))

(* The first of the two deactivations of Run had an effect.                 *)
PulseInv == pc["main"] = "clearOff" /\ ~hasErrors => Quiet(chip, Straight)

(* A coil that is not quiet is scheduled to be released, or an activation   *)
(* failed.                                                                  *)
ScheduledInv ==
    /\ ~activationFailed
    /\ pc["main"] \in RunPc \cup {"done", "configured"}
    /\ pc["msg"] # "schedule"
    /\ ~disableAllNeeded
    => Quiet(chip, Straight) /\ Quiet(chip, Off)

ClosedInv == pc["main"] = "closed" => Closed(chip)

IInv == TypeOK /\ MutexInv /\ ConfigInv /\ PairInv /\ PulseInv /\ ScheduledInv /\ ClosedInv

-----------------------------------------------------------------------------
(* All pins of the expanders are quiet at first.                            *)
LEMMA FreshType ==
    ASSUME NEW c \in FreshChip
    PROVE  /\ c \in Chip /\ c.kind # "localClosed"
           /\ c.kind \in Expander => \A q \in Pin : Quiet(c, q)
           /\ c.kind \in {"carSensor", "local"} => c.value = {}
<1>1. CASE c \in FreshMcp23017 \cup FreshMcp23008
  <2>1. PICK k \in Mcp, left \in SUBSET Pin : c = ChipOf(k, Pin, Pin, Pin, left)
    BY <1>1 DEF FreshMcp23017, FreshMcp23008, Mcp
  <2>2. Fields(c, k, Pin, Pin, Pin, left)
    BY <2>1, Fresh DEF Kind, Mcp
  <2>3. c.kind \in Mcp /\ c.iodir = Pin /\ c.hwIodir = Pin /\ c \in Chip
    BY <2>1, <2>2 DEF Fields
  <2> QED BY <2>3 DEF Quiet, Mcp
<1>2. CASE c \in FreshPcf8574
  <2>1. Fields(c, "pcf8574", Pin, {}, {}, Pin)
    BY <1>2, Fresh DEF FreshPcf8574, Kind
  <2> QED BY <2>1 DEF Fields, Quiet
<1>3. CASE c \in FreshCarSensor
  <2>1. PICK left \in SUBSET Pin : Fields(c, "carSensor", {}, {}, {}, left)
    BY <1>3, Fresh DEF FreshCarSensor, Kind
  <2> QED BY <2>1 DEF Fields, Expander, Mcp
<1>4. CASE c \in FreshLocal
  <2>1. PICK driven \in SUBSET Pin, left \in SUBSET Pin :
            c = ChipOf("local", Pin, {}, Pin \ driven, left)
    BY <1>4 DEF FreshLocal
  <2>2. Fields(c, "local", Pin, {}, Pin \ driven, left)
    BY <2>1, Fresh DEF Kind
  <2> QED BY <2>2 DEF Fields, Expander, Mcp
<1> QED BY <1>1, <1>2, <1>3, <1>4 DEF FreshChip

LEMMA InitIInv == Init => IInv
<1> SUFFICES ASSUME Init PROVE IInv
  OBVIOUS
<1> USE DEF Init
<1>1. /\ chip \in Chip /\ chip.kind # "localClosed"
      /\ chip.kind \in Expander => \A q \in Pin : Quiet(chip, q)
      /\ chip.kind \in {"carSensor", "local"} => chip.value = {}
  BY FreshType
<1>2. pc["main"] = "dirStraight" /\ pc["msg"] = "idle" /\ DOMAIN pc = Thread
  BY DEF Thread
<1>3. TypeOK
  <2>1. direction \in [Thread -> Relay] /\ requestedDirection \in Relay
    BY DEF Relay
  <2> QED BY <1>1, <1>2, <2>1 DEF TypeOK, ConfigurePc
<1>4. SafeKind(chip) => Quiet(chip, Off) \/ Leftover(chip)
  <2>1. CASE chip.kind \in Expander
    BY <1>1, <2>1 DEF Pin
  <2>2. CASE chip.kind \notin Expander /\ Inverted = {}
    <3>1. chip.kind \in {"carSensor", "local"} /\ chip.kind # "pcf8574" /\ chip.value = {}
      BY <1>1, <2>2, ChipType DEF Expander, Mcp, Kind
    <3>2. ~(Straight \in chip.hwValue \ chip.hwIodir /\ Off \in chip.hwValue \ chip.hwIodir)
      BY <2>2, <3>1 DEF Energised, ActiveLow, DrivenHigh
    <3> QED BY <2>2, <3>1, <3>2 DEF Leftover
  <2> QED BY <2>1, <2>2 DEF SafeKind
<1>5. PairInv
  BY <1>2, <1>4 DEF PairInv, Thread
<1> QED
  BY <1>1, <1>2, <1>3, <1>5 DEF IInv, MutexInv, ConfigInv, PulseInv, ScheduledInv, ClosedInv,
     SwitchToPc, ConfigurePc, RunPc, Thread, Relay

(* No step makes the chip one for which the two coils may be on together.   *)
KindStays == SafeKind(chip) => SafeKind(chip')

(* The steps that leave the chip alone.                                     *)
LEMMA StepWithoutChip ==
    ASSUME IInv,
           \/ UNCHANGED vars \/ MessageArrives \/ ProcessMessage \/ ProcessPowerMessage
           \/ StartRun \/ PulseEnds \/ RunClears \/ RunWaits \/ RunSends
           \/ RunContinues \/ RunCancelled \/ Cancel
           \/ \E t \in Thread : Schedule(t)
    PROVE  IInv' /\ KindStays
<1> USE DEF IInv, TypeOK, MutexInv, ConfigInv, PairInv, PulseInv, ScheduledInv, ClosedInv,
            SwitchToPc, ConfigurePc, RunPc, EndPc, Thread, Goto, SafeKind, KindStays
<1>1. CASE UNCHANGED vars
  BY <1>1 DEF vars
<1>2. CASE MessageArrives
  BY <1>2 DEF MessageArrives
<1>3. CASE ProcessMessage
  BY <1>3 DEF ProcessMessage
<1>4. CASE StartRun
  BY <1>4 DEF StartRun
<1>5. CASE PulseEnds
  BY <1>5 DEF PulseEnds
<1>6. CASE RunClears
  BY <1>6 DEF RunClears
<1>7. CASE RunWaits
  BY <1>7 DEF RunWaits
<1>8. CASE RunSends
  BY <1>8 DEF RunSends
<1>9. CASE RunContinues
  BY <1>9 DEF RunContinues
<1>10. CASE RunCancelled
  BY <1>10 DEF RunCancelled
<1>11. CASE Cancel
  BY <1>11 DEF Cancel
<1>12. ASSUME NEW t \in Thread, Schedule(t) PROVE IInv' /\ KindStays
  <2>1. CASE t = "main"
    BY <1>12, <2>1 DEF Schedule, AfterSwitchTo, Unlock
  <2>2. CASE t = "msg"
    <3>1. /\ pc["msg"] = "schedule" /\ pc'["msg"] = "idle" /\ pc'["main"] = pc["main"]
          /\ DOMAIN pc' = Thread
          /\ mutex = "msg" /\ mutex' = "free" /\ disableAllNeeded' = TRUE
      BY <1>12, <2>2 DEF Schedule, AfterSwitchTo, Unlock
    <3>2. /\ due' = FALSE /\ requestedDirection' = direction["msg"] /\ activationFailed' = FALSE
          /\ UNCHANGED <<chip, direction, hasErrors, sendActualNeeded, ctxDone>>
      BY <1>12, <2>2 DEF Schedule
    <3>3. TypeOK'
      BY <3>1, <3>2
    <3> QED BY <3>1, <3>2, <3>3
  <2> QED BY <2>1, <2>2
<1>13. CASE ProcessPowerMessage
  BY <1>13 DEF ProcessPowerMessage
<1> QED
  BY <1>1, <1>2, <1>3, <1>4, <1>5, <1>6, <1>7, <1>8, <1>9, <1>10, <1>11, <1>12, <1>13

(* The same of a call of SetDirection by Configure.                         *)
SetDirectionCalled(pin, next) ==
    /\ pc'["msg"] = pc["msg"]
    /\ DOMAIN pc' = Thread
    /\ pc'["main"] \in {next, "failed"}
    /\ chip' \in Chip /\ chip'.kind = chip.kind
    /\ \A q \in Relay : Quiet(chip, q) /\ q # pin => Quiet(chip', q)
    /\ Leftover(chip) => Leftover(chip')

LEMMA CallSetDirection ==
    ASSUME IInv, NEW pin \in Relay, NEW next, next # "panic", pc["main"] \in ConfigurePc,
           ChipCall("main", SetDirection(chip, pin, FALSE), next, "failed")
    PROVE  SetDirectionCalled(pin, next)
<1>1. TypeOK /\ "main" \in Thread /\ "msg" \in Thread /\ pin \in Pin /\ Relay \subseteq Pin
  BY DEF IInv, Thread, Relay, Pin
<1>2. chip \in Chip /\ chip.kind # "localClosed"
  BY DEF IInv, TypeOK, ConfigInv, ConfigurePc
<1>3. PICK o \in SetDirection(chip, pin, FALSE) : ChipReturns("main", o, next, "failed")
  BY DEF ChipCall
<1>4. Returned("main", o, next, "failed")
  BY <1>1, <1>3, ReturnEffect
<1>5. /\ o.chip \in Chip /\ o.chip.kind = chip.kind
      /\ o.kind = "panic" => chip.kind = "localClosed"
      /\ \A q \in Pin : q # pin /\ Quiet(chip, q) => Quiet(o.chip, q)
      /\ Leftover(chip) => Leftover(o.chip)
  BY <1>1, <1>2, SetDirectionQuiet
<1>6. o.kind = "ok" \/ o.kind = "panic" \/ Error(o)
  BY DEF Error
<1> QED BY <1>1, <1>2, <1>4, <1>5, <1>6 DEF Returned, SetDirectionCalled

(* Configure touches one coil while the other is quiet.                     *)
LEMMA StepConfigure == ASSUME IInv, Configure PROVE IInv' /\ KindStays
<1> USE DEF IInv, TypeOK, MutexInv, ConfigInv, PairInv, PulseInv, ScheduledInv, ClosedInv,
            SwitchToPc, ConfigurePc, RunPc, EndPc, Thread, SafeKind, KindStays
<1>0. Straight \in Relay /\ Off \in Relay
  BY DEF Relay
<1>1. CASE ConfigureStraight
  <2>1. /\ pc["main"] = "dirStraight"
        /\ ChipCall("main", SetDirection(chip, Straight, FALSE), "offStraight", "failed")
        /\ UNCHANGED <<direction, mutex, disableAllNeeded, due, hasErrors,
                       sendActualNeeded, requestedDirection, ctxDone, activationFailed>>
    BY <1>1 DEF ConfigureStraight
  <2>2. /\ pc'["msg"] = pc["msg"] /\ DOMAIN pc' = Thread
        /\ pc'["main"] \in {"offStraight", "failed"}
        /\ chip' \in Chip /\ chip'.kind = chip.kind
        /\ Quiet(chip, Off) => Quiet(chip', Off)
        /\ Leftover(chip) => Leftover(chip')
    <3>1. SetDirectionCalled(Straight, "offStraight")
      BY <1>0, <2>1, CallSetDirection
    <3> QED BY <1>0, <2>1, <3>1, PinAssumption DEF SetDirectionCalled
  <2> QED BY <2>1, <2>2
<1>2. CASE ConfigureStraightOff
  <2>1. /\ pc["main"] = "offStraight"
        /\ ChipCall("main", SetPin(chip, Straight, Level(Straight, FALSE)), "dirOff", "failed")
        /\ UNCHANGED <<direction, mutex, disableAllNeeded, due, hasErrors,
                       sendActualNeeded, requestedDirection, ctxDone, activationFailed>>
    BY <1>2 DEF ConfigureStraightOff
  <2>2. /\ pc'["msg"] = pc["msg"] /\ DOMAIN pc' = Thread
        /\ pc'["main"] \in {"dirOff", "failed"}
        /\ chip' \in Chip /\ chip'.kind = chip.kind
        /\ Quiet(chip, Off) => Quiet(chip', Off)
        /\ pc'["main"] = "dirOff" => Quiet(chip', Straight)
        /\ Leftover(chip) => Leftover(chip')
    <3>1. SetPinCalled("main", Straight, FALSE, "dirOff", "failed")
      BY <1>0, <2>1, CallSetPin
    <3> QED BY <1>0, <2>1, <3>1, PinAssumption DEF SetPinCalled
  <2> QED BY <2>1, <2>2
<1>3. CASE ConfigureOff
  <2>1. /\ pc["main"] = "dirOff"
        /\ ChipCall("main", SetDirection(chip, Off, FALSE), "offOff", "failed")
        /\ UNCHANGED <<direction, mutex, disableAllNeeded, due, hasErrors,
                       sendActualNeeded, requestedDirection, ctxDone, activationFailed>>
    BY <1>3 DEF ConfigureOff
  <2>2. /\ pc'["msg"] = pc["msg"] /\ DOMAIN pc' = Thread
        /\ pc'["main"] \in {"offOff", "failed"}
        /\ chip' \in Chip /\ chip'.kind = chip.kind
        /\ Quiet(chip, Straight) => Quiet(chip', Straight)
    <3>1. SetDirectionCalled(Off, "offOff")
      BY <1>0, <2>1, CallSetDirection
    <3> QED BY <1>0, <2>1, <3>1, PinAssumption DEF SetDirectionCalled
  <2> QED BY <2>1, <2>2
<1>4. CASE ConfigureOffOff
  <2>1. /\ pc["main"] = "offOff"
        /\ ChipCall("main", SetPin(chip, Off, Level(Off, FALSE)), "deactivate", "failed")
        /\ sendActualNeeded' \in BOOLEAN
        /\ UNCHANGED <<direction, mutex, disableAllNeeded, due, hasErrors,
                       requestedDirection, ctxDone, activationFailed>>
    BY <1>4 DEF ConfigureOffOff
  <2>2. /\ pc'["msg"] = pc["msg"] /\ DOMAIN pc' = Thread
        /\ pc'["main"] \in {"deactivate", "failed"}
        /\ chip' \in Chip /\ chip'.kind = chip.kind
        /\ Quiet(chip, Straight) => Quiet(chip', Straight)
    <3>1. SetPinCalled("main", Off, FALSE, "deactivate", "failed")
      BY <1>0, <2>1, CallSetPin
    <3> QED BY <1>0, <2>1, <3>1, PinAssumption DEF SetPinCalled
  <2> QED BY <2>1, <2>2
<1> QED BY <1>1, <1>2, <1>3, <1>4 DEF Configure

(* Run releases both coils before it gives up the schedule.                 *)
LEMMA StepClears ==
    ASSUME IInv, RunClearsStraight \/ RunClearsOff
    PROVE  /\ IInv' /\ KindStays
           /\ RunClearsOff /\ ~disableAllNeeded' => Quiet(chip', Straight) /\ Quiet(chip', Off)
<1> USE DEF IInv, TypeOK, MutexInv, ConfigInv, PairInv, PulseInv, ScheduledInv, ClosedInv,
            SwitchToPc, ConfigurePc, RunPc, EndPc, Thread, SafeKind, KindStays
<1>0. Straight \in Relay /\ Off \in Relay /\ \A d \in Relay : Opposite(d) \in Relay
  BY DEF Relay, Opposite
<1>1. CASE RunClearsStraight
  <2>1. PICK o \in SetPin(chip, Straight, Level(Straight, FALSE)) :
          /\ pc["main"] = "clearStraight"
          /\ ChipReturns("main", o, "clearOff", "clearOff")
          /\ hasErrors' = Error(o)
          /\ UNCHANGED <<direction, mutex, disableAllNeeded, due, sendActualNeeded,
                         requestedDirection, ctxDone, activationFailed>>
    BY <1>1 DEF RunClearsStraight
  <2>2. /\ pc'["msg"] = pc["msg"] /\ DOMAIN pc' = Thread
        /\ pc'["main"] = "clearOff"
        /\ chip' \in Chip /\ chip'.kind = chip.kind
        /\ \A q \in Relay : Quiet(chip, q) => Quiet(chip', q)
        /\ ~hasErrors' => Quiet(chip', Straight)
        /\ Closed(chip) => Closed(chip')
    <3>1. /\ SetPinCalled("main", Straight, FALSE, "clearOff", "clearOff")
          /\ ~Error(o) /\ pc'["main"] # "panic" => Quiet(chip', Straight)
      BY <1>0, <2>1, ReturnSetPin
    <3> QED BY <1>0, <2>1, <3>1, PinAssumption DEF SetPinCalled
  <2>3. hasErrors' \in BOOLEAN
    BY <2>1 DEF Error
  <2>4. TypeOK' /\ PulseInv'
    BY <1>0, <2>1, <2>2, <2>3
  <2>5. PairInv'
    BY <1>0, <2>1, <2>2
  <2>6. MutexInv' /\ ConfigInv' /\ ScheduledInv' /\ ClosedInv'
    BY <1>0, <2>1, <2>2
  <2>7. ~RunClearsOff
    BY <2>1 DEF RunClearsOff, ClearOff
  <2> QED BY <2>2, <2>4, <2>5, <2>6, <2>7
<1>2. CASE RunClearsOff
  <2>1. PICK o \in SetPin(chip, Off, Level(Off, FALSE)) :
          /\ pc["main"] = "clearOff"
          /\ ChipReturns("main", o, "select", "select")
          /\ hasErrors' = (hasErrors \/ Error(o))
          /\ disableAllNeeded' = hasErrors'
          /\ mutex' = "free"
          /\ activationFailed' = (activationFailed /\ hasErrors')
          /\ UNCHANGED <<direction, due, sendActualNeeded, requestedDirection, ctxDone>>
    BY <1>2 DEF RunClearsOff, ClearOff
  <2>2. /\ pc'["msg"] = pc["msg"] /\ DOMAIN pc' = Thread
        /\ pc'["main"] = "select"
        /\ chip' \in Chip /\ chip'.kind = chip.kind
        /\ \A q \in Relay : Quiet(chip, q) => Quiet(chip', q)
        /\ ~Error(o) => Quiet(chip', Off)
    <3>1. /\ SetPinCalled("main", Off, FALSE, "select", "select")
          /\ ~Error(o) /\ pc'["main"] # "panic" => Quiet(chip', Off)
      BY <1>0, <2>1, ReturnSetPin
    <3> QED BY <1>0, <2>1, <3>1, PinAssumption DEF SetPinCalled
  <2>3. /\ hasErrors' \in BOOLEAN /\ activationFailed' \in BOOLEAN
        /\ disableAllNeeded' \in BOOLEAN
    BY <2>1 DEF Error
  <2>4. ~disableAllNeeded' => Quiet(chip', Straight) /\ Quiet(chip', Off)
    BY <1>0, <2>1, <2>2
  <2> QED BY <1>0, <2>1, <2>2, <2>3, <2>4
<1> QED BY <1>1, <1>2 DEF RunClearsStraight, RunClearsOff

(* switchTo activates a coil when the opposite one is quiet.                *)
LEMMA StepSwitchTo ==
    ASSUME IInv, NEW t \in Thread, Deactivate(t) \/ Activate(t) PROVE IInv' /\ KindStays
<1> USE DEF IInv, TypeOK, MutexInv, ConfigInv, PairInv, PulseInv, ScheduledInv, ClosedInv,
            SwitchToPc, ConfigurePc, RunPc, EndPc, Thread, SafeKind, KindStays
<1> DEFINE d    == direction[t]
           fail == AfterSwitchTo(t, FALSE)
<1>0. /\ Straight \in Relay /\ Off \in Relay /\ d \in Relay /\ Opposite(d) \in Relay
      /\ \A r \in Relay : r = d \/ r = Opposite(d)
      /\ \A r \in Relay : r = d => r # Opposite(d)
  BY PinAssumption DEF Relay, Opposite
<1>1. /\ t = "main" => fail = "failed" /\ pc["msg"] = "idle" /\ d = Straight
      /\ t = "msg" => fail = "idle"
      /\ fail \notin {"panic", "activate", "schedule"}
      /\ pc[t] \in SwitchToPc
  BY DEF AfterSwitchTo, Deactivate, Activate
<1>2. CASE Deactivate(t)
  <2>1. /\ pc[t] = "deactivate"
        /\ ChipCall(t, SetPin(chip, Opposite(d), Level(Opposite(d), FALSE)), "activate", fail)
        /\ mutex' = IF pc'[t] = "activate" \/ mutex # t THEN mutex ELSE "free"
        /\ UNCHANGED <<direction, disableAllNeeded, due, hasErrors,
                       sendActualNeeded, requestedDirection, ctxDone, activationFailed>>
    BY <1>2 DEF Deactivate, Unlock
  <2> HIDE DEF fail
  <2>2. SetPinCalled(t, Opposite(d), FALSE, "activate", fail)
    BY <1>0, <1>1, <2>1, CallSetPin
  <2>3. /\ \A u \in Thread : u # t => pc'[u] = pc[u]
        /\ DOMAIN pc' = Thread
        /\ pc'[t] \in {"activate", fail, "panic"}
        /\ pc'[t] = "panic" => chip.kind = "localClosed"
        /\ chip' \in Chip /\ chip'.kind = chip.kind
        /\ \A q \in Relay : Quiet(chip, q) => Quiet(chip', q)
        /\ pc'[t] = "activate" => Quiet(chip', Opposite(d))
        /\ Leftover(chip) => Leftover(chip')
        /\ Closed(chip) => Closed(chip')
    BY <1>0, <1>1, <2>2 DEF SetPinCalled
  <2>4. CASE t = "main"
    BY <1>0, <1>1, <2>1, <2>3, <2>4
  <2>5. CASE t = "msg"
    <3>1. /\ pc["msg"] = "deactivate" /\ pc'["main"] = pc["main"] /\ mutex = "msg"
          /\ pc'["msg"] \in {"activate", "idle", "panic"}
          /\ mutex' = IF pc'["msg"] = "activate" THEN "msg" ELSE "free"
      BY <1>1, <2>1, <2>3, <2>5
    <3>2. TypeOK' /\ MutexInv' /\ ConfigInv' /\ ClosedInv' /\ PulseInv'
      BY <1>0, <2>1, <2>3, <3>1
    <3>3. PairInv'
      BY <1>0, <2>1, <2>3, <2>5, <3>1
    <3>4. ScheduledInv'
      BY <1>0, <2>1, <2>3, <2>5, <3>1
    <3> QED BY <2>3, <3>2, <3>3, <3>4
  <2> QED BY <2>4, <2>5
<1>3. CASE Activate(t)
  <2>1. /\ pc[t] = "activate"
        /\ ChipCall(t, SetPin(chip, d, Level(d, TRUE)), "schedule", fail)
        /\ mutex' = IF pc'[t] = "schedule" \/ mutex # t THEN mutex ELSE "free"
        /\ activationFailed' = (activationFailed \/ pc'[t] = fail)
        /\ UNCHANGED <<direction, disableAllNeeded, due, hasErrors,
                       sendActualNeeded, requestedDirection, ctxDone>>
    BY <1>3 DEF Activate, Unlock
  <2> HIDE DEF fail
  <2>2. SetPinCalled(t, d, TRUE, "schedule", fail)
    BY <1>0, <1>1, <2>1, CallSetPin
  <2>3. /\ \A u \in Thread : u # t => pc'[u] = pc[u]
        /\ DOMAIN pc' = Thread
        /\ pc'[t] \in {"schedule", fail, "panic"}
        /\ pc'[t] = "panic" => chip.kind = "localClosed"
        /\ chip' \in Chip /\ chip'.kind = chip.kind
        /\ Quiet(chip, Opposite(d)) => Quiet(chip', Opposite(d))
        /\ Closed(chip) => Closed(chip')
    BY <1>0, <1>1, <2>2 DEF SetPinCalled
  <2>4. SafeKind(chip') => Quiet(chip', Straight) \/ Quiet(chip', Off)
    <3>1. SafeKind(chip) => Quiet(chip', Opposite(d))
      BY <2>1, <2>3
    <3>2. Opposite(d) = Straight \/ Opposite(d) = Off
      BY DEF Opposite
    <3> QED BY <2>3, <3>1, <3>2
  <2>5. CASE t = "main"
    <3>1. /\ pc["main"] = "activate" /\ pc'["main"] \in {"schedule", "failed"}
          /\ pc["msg"] = "idle" /\ pc'["msg"] = "idle" /\ mutex' = mutex
      BY <1>1, <2>1, <2>3, <2>5
    <3>2. PairInv'
      BY <2>4, <3>1
    <3> QED BY <1>0, <2>1, <2>3, <3>1, <3>2
  <2>6. CASE t = "msg"
    <3>1. /\ pc["msg"] = "activate" /\ pc'["main"] = pc["main"] /\ mutex = "msg"
          /\ pc'["msg"] \in {"schedule", "idle", "panic"}
          /\ mutex' = IF pc'["msg"] = "schedule" THEN "msg" ELSE "free"
      BY <1>1, <2>1, <2>3, <2>6
    <3>2. TypeOK' /\ MutexInv' /\ ConfigInv' /\ ClosedInv' /\ PulseInv'
      BY <1>0, <2>1, <2>3, <3>1
    <3>3. PairInv'
      <4>1. pc'["main"] # "activate" /\ pc'["msg"] # "activate"
        BY <3>1
      <4>2. pc["main"] \notin {"dirStraight", "offStraight", "dirOff", "offOff"}
        BY <3>1
      <4> QED BY <2>4, <3>1, <4>1, <4>2
    <3>4. ScheduledInv'
      BY <1>0, <2>1, <2>3, <2>6, <3>1
    <3> QED BY <2>3, <3>2, <3>3, <3>4
  <2> QED BY <2>5, <2>6
<1> QED BY <1>2, <1>3

LEMMA StepCloseDevice == ASSUME IInv, CloseDevice PROVE IInv' /\ KindStays
<1> USE DEF IInv, TypeOK, MutexInv, ConfigInv, PairInv, PulseInv, ScheduledInv, ClosedInv,
            SwitchToPc, ConfigurePc, RunPc, EndPc, Thread, KindStays
<1>1. /\ pc["main"] \in {"done", "failed"}
      /\ ChipCall("main", CloseChip(chip), "closed", "notClosed")
      /\ UNCHANGED <<direction, mutex, disableAllNeeded, due, hasErrors,
                     sendActualNeeded, requestedDirection, ctxDone, activationFailed>>
  BY DEF CloseDevice
<1>2. PICK o \in CloseChip(chip) : ChipReturns("main", o, "closed", "notClosed")
  BY <1>1 DEF ChipCall
<1>3. Returned("main", o, "closed", "notClosed")
  BY <1>2, ReturnEffect
<1>4. /\ pc'["msg"] = pc["msg"] /\ DOMAIN pc' = Thread
      /\ chip' = o.chip
      /\ pc'["main"] \in {"closed", "notClosed", "panic"}
      /\ o.kind = "panic" <=> pc'["main"] = "panic"
      /\ pc'["main"] = "closed" => o.kind = "ok"
      /\ pc'["main"] = "notClosed" => o.kind # "ok"
  BY <1>3 DEF Returned, Error
<1>5. /\ chip' \in Chip
      /\ pc'["main"] \in {"closed", "notClosed"}
      /\ pc'["main"] = "closed" => Closed(chip')
      /\ chip'.kind = chip.kind \/ (chip.kind = "local" /\ chip'.kind = "localClosed"
                                    /\ pc'["main"] = "closed")
      /\ SafeKind(chip) => \A q \in Pin : Quiet(chip, q) => Quiet(chip', q)
      /\ Leftover(chip) => Leftover(chip')
  BY <1>4, CloseQuiet
<1>6. SafeKind(chip') <=> SafeKind(chip)
  BY <1>5 DEF SafeKind, Expander, Mcp
<1>7. Straight \in Pin /\ Off \in Pin /\ \A t \in Thread : Opposite(direction[t]) \in Pin
  BY DEF Pin, Opposite, Relay
<1>8. chip.kind # "localClosed"
  BY <1>1
<1>9. PairInv'
  BY <1>1, <1>4, <1>5, <1>6, <1>7
<1> QED BY <1>1, <1>4, <1>5, <1>6, <1>8, <1>9

(* The other object disturbs no coil that is quiet.                         *)
LEMMA StepOther == ASSUME IInv, OtherUsesChip PROVE IInv' /\ KindStays
<1> USE DEF IInv, TypeOK, MutexInv, ConfigInv, PairInv, PulseInv, ScheduledInv, ClosedInv, SafeKind, KindStays
<1>1. /\ pc["main"] \notin {"closed", "notClosed"}
      /\ UNCHANGED <<pc, direction, mutex, disableAllNeeded, due, hasErrors,
                     sendActualNeeded, requestedDirection, ctxDone, activationFailed>>
  BY DEF OtherUsesChip
<1>2. Other \in Pin /\ \A q \in Relay : q \in Pin /\ q # Other
  BY PinAssumption DEF Pin, Relay
<1>3. /\ chip' \in Chip /\ chip'.kind = chip.kind
      /\ \A q \in Relay : Quiet(chip, q) => Quiet(chip', q)
      /\ Leftover(chip) => Leftover(chip')
  <2>1. CASE \E o \in SetDirection(chip, Other, FALSE) : chip' = o.chip
    <3>1. PICK o \in SetDirection(chip, Other, FALSE) : chip' = o.chip
      BY <2>1
    <3>2. /\ o.chip \in Chip /\ o.chip.kind = chip.kind
          /\ \A q \in Pin : q # Other /\ Quiet(chip, q) => Quiet(o.chip, q)
          /\ Leftover(chip) => Leftover(o.chip)
      BY <1>2, SetDirectionQuiet
    <3> QED BY <1>2, <3>1, <3>2
  <2>2. CASE \E high \in BOOLEAN : \E o \in SetPin(chip, Other, high) : chip' = o.chip
    <3>0. PICK high \in BOOLEAN : \E o \in SetPin(chip, Other, high) : chip' = o.chip
      BY <2>2
    <3>1. PICK o \in SetPin(chip, Other, high) : chip' = o.chip
      BY <3>0
    <3>2. SetPinKept(chip, Other, high, o)
      BY <1>2, SetPinQuiet
    <3> QED BY <1>2, <3>1, <3>2 DEF SetPinKept
  <2> QED BY <2>1, <2>2 DEF OtherUsesChip
<1>4. \A t \in Thread : Opposite(direction[t]) \in Relay
  BY DEF Opposite, Relay
<1>5. Straight \in Relay /\ Off \in Relay
  BY DEF Relay
<1>6. PairInv'
  BY <1>1, <1>3, <1>4, <1>5
<1> QED BY <1>1, <1>3, <1>5, <1>6

LEMMA StepIInv == ASSUME IInv, [Next]_vars PROVE IInv' /\ KindStays
<1>1. CASE UNCHANGED vars
  BY <1>1, StepWithoutChip
<1>2. CASE Configure
  BY <1>2, StepConfigure
<1>3. CASE Run
  BY <1>3, StepClears, StepWithoutChip DEF Run
<1>4. ASSUME NEW t \in Thread, SwitchTo(t) PROVE IInv' /\ KindStays
  BY <1>4, StepSwitchTo, StepWithoutChip DEF SwitchTo
<1>5. CASE MessageArrives \/ ProcessMessage \/ ProcessPowerMessage \/ PulseEnds \/ Cancel
  BY <1>5, StepWithoutChip
<1>6. CASE CloseDevice
  BY <1>6, StepCloseDevice
<1>7. CASE OtherUsesChip
  BY <1>7, StepOther
<1> QED BY <1>1, <1>2, <1>3, <1>4, <1>5, <1>6, <1>7 DEF Next

LEMMA Invariance == Spec => []IInv
<1>1. IInv /\ [Next]_vars => IInv'
  BY StepIInv
<1> QED BY InitIInv, <1>1, PTL DEF Spec

-----------------------------------------------------------------------------
(* The variables stay in their types: every interleaving of main, messages  *)
(* and the other object leaves switch and chip in a state they can be in.   *)
THEOREM TypeCorrect == Spec => []TypeOK
<1>1. IInv => TypeOK
  BY DEF IInv
<1> QED BY <1>1, Invariance, PTL

LEMMA NeverBoth == ASSUME IInv, SafeKind(chip) PROVE NeverBothCoils
<1>1. chip \in Chip /\ Straight \in Pin /\ Off \in Pin
  BY DEF IInv, TypeOK, Pin
<1>2. CASE Quiet(chip, Straight) \/ Quiet(chip, Off)
  BY <1>1, <1>2, QuietIsOff DEF NeverBothCoils, Energised, ActiveLow
<1>3. CASE Leftover(chip)
  BY <1>1, <1>3, LeftoverIsNotBoth
<1> QED BY <1>2, <1>3 DEF IInv, PairInv

(* Never are both coils energised, whatever fails: on the I2C expanders for *)
(* every wiring of the relays, on all chips if no relay is inverted.        *)
THEOREM NeverBothCoilsCorrect == Spec /\ SafeKind(chip) => []NeverBothCoils
<1>1. IInv /\ SafeKind(chip) => NeverBothCoils
  BY NeverBoth
<1>2. IInv /\ SafeKind(chip) /\ [Next]_vars => SafeKind(chip)'
  BY StepIInv DEF KindStays
<1> QED BY <1>1, <1>2, Invariance, PTL DEF Spec

(* Unless an activation failed, an energised coil is scheduled to be        *)
(* released, whatever the deactivations did.                                *)
THEOREM CoilIsScheduledCorrect == Spec => []CoilIsScheduled
<1>1. IInv => CoilIsScheduled
  <2> SUFFICES ASSUME IInv, ~activationFailed, pc["main"] \in RunPc \cup {"done"}, mutex = "free", SomeCoil
               PROVE  disableAllNeeded
    BY DEF CoilIsScheduled
  <2>1. chip \in Chip /\ Relay \subseteq Pin
    BY DEF IInv, TypeOK, Relay, Pin
  <2>2. ~(Quiet(chip, Straight) /\ Quiet(chip, Off))
    BY <2>1, QuietIsOff DEF SomeCoil, Relay, Energised, ActiveLow
  <2>3. pc["msg"] # "schedule"
    BY DEF IInv, MutexInv, SwitchToPc
  <2> QED BY <2>2, <2>3 DEF IInv, TypeOK, ScheduledInv
<1> QED BY <1>1, Invariance, PTL

(* After Close no coil of an I2C expander is energised, by late requests    *)
(* neither.                                                                 *)
THEOREM ClosedStaysSafeCorrect == Spec => []ClosedStaysSafe
<1>1. IInv => ClosedStaysSafe
  <2> SUFFICES ASSUME IInv, pc["main"] = "closed", chip.kind \in Expander PROVE ~SomeCoil
    BY DEF ClosedStaysSafe, Expander, Mcp
  <2>1. Closed(chip) /\ chip \in Chip
    BY DEF IInv, ClosedInv, TypeOK
  <2> QED BY <2>1 DEF Closed, Expander, Mcp, SomeCoil, Energised, DrivenHigh, DrivenLow, ActiveLow, Relay, Pin
<1> QED BY <1>1, Invariance, PTL

(* Run ends a pulse only with both coils off on the chip.                   *)
THEOREM PulseEndReleasesCoilsCorrect == Spec => PulseEndReleasesCoils
<1>1. IInv /\ [Next]_vars => [disableAllNeeded /\ ~disableAllNeeded' => ~SomeCoil']_vars
  <2> SUFFICES ASSUME IInv, Next, disableAllNeeded, ~disableAllNeeded' PROVE ~SomeCoil'
    OBVIOUS
  <2>1. RunClearsOff
    BY DEF Next, Run, Configure, SwitchTo, ConfigureStraight, ConfigureStraightOff,
       ConfigureOff, ConfigureOffOff, StartRun, RunClears, RunWaits, RunSends, RunClearsStraight,
       RunContinues, RunCancelled, Deactivate, Activate, Schedule, MessageArrives, ProcessMessage,
       ProcessPowerMessage, PulseEnds, Cancel, CloseDevice, OtherUsesChip
  <2>2. Quiet(chip', Straight) /\ Quiet(chip', Off)
    BY <2>1, StepClears
  <2>3. IInv' /\ chip' \in Chip
    BY <2>1, StepClears DEF IInv, TypeOK
  <2> QED BY <2>2, <2>3, QuietIsOff DEF SomeCoil, Relay, Pin, Energised, ActiveLow
<1> QED BY <1>1, Invariance, PTL DEF Spec, PulseEndReleasesCoils

-----------------------------------------------------------------------------
(* The coils as an interlock: one is energised only after the other is off. *)
Coils == {pin \in Relay : Energised(pin)}

CoilLock == INSTANCE Interlock WITH closed <- Coils, Sides <- {{Straight}, {Off}}

ImplementsInterlock == CoilLock!Spec

(* The relay of the pin is energised by what the chip puts out.             *)
On(c, pin) == pin \in IF Low(c, pin) THEN DrivenLow(c) ELSE DrivenHigh(c)

LEMMA QuietIsNotOn == ASSUME NEW c \in Chip, NEW q \in Pin, Quiet(c, q) PROVE ~On(c, q)
  BY QuietIsOff DEF On, Low

(* A coil that is quiet, or as it was left, is put on by no operation but   *)
(* the one that activates it and the one that makes its pin an output.      *)
LEMMA SetPinOn ==
    ASSUME NEW c \in Chip, NEW pin \in Pin, NEW high \in BOOLEAN, NEW q \in Relay,
           NEW o \in SetPin(c, pin, high),
           q # pin \/ (high = TRUE <=> Low(c, pin)),
           Quiet(c, q) \/ Leftover(c), On(o.chip, q)
    PROVE  On(c, q)
<1>0. q \in Pin
  BY DEF Relay, Pin
<1>1. CASE Quiet(c, q)
  <2>1. SetPinKept(c, pin, high, o)
    BY SetPinQuiet
  <2>2. o.chip \in Chip /\ Quiet(o.chip, q)
    BY <1>0, <1>1, <2>1 DEF SetPinKept
  <2> QED BY <1>0, <2>2, QuietIsNotOn
<1>2. CASE Leftover(c)
  <2> DEFINE v == With(c.value, pin, high)
  <2>1. /\ Inverted = {} /\ c.kind \in {"carSensor", "local", "localClosed"}
        /\ c.kind \notin Mcp /\ c.kind # "pcf8574" /\ q \notin c.value
    BY <1>2 DEF Leftover, Mcp
  <2>2. ~Low(c, q) /\ ~Low(c, pin)
    BY <2>1 DEF Low
  <2>3. q \notin v
    BY <2>1, <2>2 DEF With
  <2> HIDE DEF v
  <2>4. CASE o.chip = c
    BY <2>4
  <2>5. CASE \E reg \in SUBSET Pin :
                Fields(o.chip, c.kind, c.iodir, v, c.hwIodir, Copied(v, c.hwValue, reg))
    BY <2>1, <2>2, <2>3, <2>5 DEF Fields, Copied, On, Low, DrivenHigh
  <2>6. CASE Fields(o.chip, c.kind, c.iodir, v, c.hwIodir, c.hwValue)
    BY <2>1, <2>2, <2>6 DEF Fields, On, Low, DrivenHigh
  <2>7. CASE Fields(o.chip, c.kind, c.iodir, c.value, c.hwIodir, With(c.hwValue, pin, high))
    BY <2>1, <2>2, <2>7 DEF Fields, With, On, Low, DrivenHigh
  <2> QED
    <3> USE DEF v
    <3> QED BY <2>1, <2>4, <2>5, <2>6, <2>7, SetPinKinds
<1> QED BY <1>1, <1>2

LEMMA SetDirectionOn ==
    ASSUME NEW c \in Chip, NEW pin \in Pin, NEW q \in Relay,
           NEW o \in SetDirection(c, pin, FALSE),
           (q # pin /\ Quiet(c, q)) \/ Leftover(c), On(o.chip, q)
    PROVE  On(c, q)
<1>0. q \in Pin
  BY DEF Relay, Pin
<1>1. CASE q # pin /\ Quiet(c, q)
  BY <1>0, <1>1, SetDirectionQuiet, QuietIsNotOn
<1>2. CASE Leftover(c)
  <2>1. /\ Inverted = {} /\ c.kind \in {"carSensor", "local", "localClosed"}
        /\ c.kind \notin Mcp /\ c.kind # "pcf8574"
    BY <1>2 DEF Leftover, Mcp
  <2>2. CASE o.chip = c
    BY <2>2
  <2>3. CASE \E in : Fields(o.chip, c.kind, in, c.value, c.hwIodir \ {pin}, c.hwValue \ {pin})
    BY <2>1, <2>3 DEF Fields, On, Low, DrivenHigh
  <2> QED BY <2>1, <2>2, <2>3, SetDirectionKinds
<1> QED BY <1>1, <1>2

LEMMA CloseOn ==
    ASSUME NEW c \in Chip, NEW q \in Relay, NEW o \in CloseChip(c), SafeKind(c),
           Quiet(c, q) \/ Leftover(c), On(o.chip, q)
    PROVE  On(c, q)
<1>0. q \in Pin
  BY DEF Relay, Pin
<1>1. CASE Quiet(c, q)
  BY <1>0, <1>1, CloseQuiet, QuietIsNotOn
<1>2. CASE Leftover(c)
  <2>1. /\ Inverted = {} /\ c.kind \in {"carSensor", "local", "localClosed"}
        /\ c.kind \notin Mcp /\ c.kind # "pcf8574"
    BY <1>2 DEF Leftover, Mcp
  <2>2. CASE o.chip = c
    BY <2>2
  <2>3. CASE \E hv \in SUBSET c.hwValue : Fields(o.chip, c.kind, c.iodir, {}, c.hwIodir, hv)
    <3>1. PICK hv \in SUBSET c.hwValue : Fields(o.chip, c.kind, c.iodir, {}, c.hwIodir, hv)
      BY <2>3
    <3>2. o.chip.kind = c.kind /\ o.chip.hwIodir = c.hwIodir /\ o.chip.hwValue = hv
      BY <3>1 DEF Fields
    <3> QED BY <2>1, <3>1, <3>2 DEF On, Low, DrivenHigh
  <2>4. CASE Fields(o.chip, "localClosed", c.iodir, c.value, c.hwIodir, c.hwValue)
    BY <2>1, <2>4 DEF Fields, On, Low, DrivenHigh
  <2> QED BY <2>1, <2>2, <2>3, <2>4, CloseKinds
<1> QED BY <1>1, <1>2

(* While a coil is energised no step energises the other one.               *)
LEMMA OneAfterTheOther ==
    ASSUME IInv, [Next]_vars, SafeKind(chip), NEW q \in Relay, On(chip, Opposite(q)), On(chip', q)
    PROVE  On(chip, q)
<1>0. /\ chip \in Chip /\ q \in Pin /\ Opposite(q) \in Relay /\ Relay \subseteq Pin
      /\ \A t \in Thread : direction[t] \in Relay /\ Opposite(direction[t]) \in Relay
      /\ Straight \in Relay /\ Off \in Relay
  BY DEF IInv, TypeOK, Opposite, Relay, Pin
<1>1. ~Quiet(chip, Opposite(q))
  BY <1>0, QuietIsNotOn
<1>2. Quiet(chip, q) \/ Leftover(chip)
  BY <1>1, PinAssumption DEF IInv, PairInv, Opposite, Relay
<1>3. ASSUME NEW pin \in Relay, NEW active \in BOOLEAN, q # pin \/ active = FALSE,
             \E o \in SetPin(chip, pin, Level(pin, active)) : chip' = o.chip
      PROVE  On(chip, q)
  <2> DEFINE high == Level(pin, active)
  <2>1. high \in BOOLEAN /\ (active = FALSE => (high = TRUE <=> Low(chip, pin)))
    BY DEF Level, ActiveLow, Low
  <2> HIDE DEF high
  <2>2. PICK o \in SetPin(chip, pin, high) : chip' = o.chip
    BY <1>3 DEF high
  <2> QED BY <1>0, <1>2, <1>3, <2>1, <2>2, SetPinOn
<1>4. CASE Configure
  <2>1. CASE ConfigureStraight
    <3>1. PICK o \in SetDirection(chip, Straight, FALSE) : chip' = o.chip
      BY <2>1 DEF ConfigureStraight, ChipCall, ChipReturns
    <3>2. Leftover(chip) \/ (Quiet(chip, Off) /\ q # Straight)
      BY <1>1, <2>1 DEF ConfigureStraight, IInv, PairInv, Opposite
    <3> QED BY <1>0, <1>2, <3>1, <3>2, SetDirectionOn
  <2>2. CASE ConfigureOff
    <3>1. PICK o \in SetDirection(chip, Off, FALSE) : chip' = o.chip
      BY <2>2 DEF ConfigureOff, ChipCall, ChipReturns
    <3>2. q # Off
      BY <1>1, <2>2, PinAssumption DEF ConfigureOff, IInv, PairInv, Opposite
    <3> QED BY <1>0, <1>2, <3>1, <3>2, SetDirectionOn
  <2>3. CASE ConfigureStraightOff
    BY <1>0, <1>3, <2>3 DEF ConfigureStraightOff, ChipCall, ChipReturns
  <2>4. CASE ConfigureOffOff
    BY <1>0, <1>3, <2>4 DEF ConfigureOffOff, ChipCall, ChipReturns
  <2> QED BY <1>4, <2>1, <2>2, <2>3, <2>4 DEF Configure
<1>5. CASE RunClearsStraight \/ RunClearsOff
  BY <1>0, <1>3, <1>5 DEF RunClearsStraight, RunClearsOff, ClearOff, ChipReturns
<1>6. ASSUME NEW t \in Thread, Deactivate(t) PROVE On(chip, q)
  BY <1>0, <1>3, <1>6 DEF Deactivate, ChipCall, ChipReturns
<1>7. ASSUME NEW t \in Thread, Activate(t) PROVE On(chip, q)
  <2>1. q # direction[t]
    BY <1>1, <1>7 DEF Activate, IInv, PairInv
  <2> QED BY <1>0, <1>3, <1>7, <2>1 DEF Activate, ChipCall, ChipReturns
<1>8. CASE CloseDevice
  <2>1. PICK o \in CloseChip(chip) : chip' = o.chip
    BY <1>8 DEF CloseDevice, ChipCall, ChipReturns
  <2> QED BY <1>0, <1>2, <2>1, CloseOn
<1>9. CASE OtherUsesChip
  <2>0. Other \in Pin /\ q # Other
    BY PinAssumption DEF Pin, Relay
  <2>1. CASE \E o \in SetDirection(chip, Other, FALSE) : chip' = o.chip
    <3>1. PICK o \in SetDirection(chip, Other, FALSE) : chip' = o.chip
      BY <2>1
    <3> QED BY <1>0, <1>2, <2>0, <3>1, SetDirectionOn
  <2>2. CASE \E high \in BOOLEAN : \E o \in SetPin(chip, Other, high) : chip' = o.chip
    <3>1. PICK high \in BOOLEAN : \E o \in SetPin(chip, Other, high) : chip' = o.chip
      BY <2>2
    <3>2. PICK o \in SetPin(chip, Other, high) : chip' = o.chip
      BY <3>1
    <3> QED BY <1>0, <1>2, <2>0, <3>2, SetPinOn
  <2> QED BY <1>9, <2>1, <2>2 DEF OtherUsesChip
<1>10. CASE UNCHANGED chip
  BY <1>10
<1>11. CASE Run
  BY <1>5, <1>10, <1>11
     DEF Run, StartRun, RunClears, RunWaits, RunSends, RunContinues, RunCancelled
<1>12. ASSUME NEW t \in Thread, SwitchTo(t) PROVE On(chip, q)
  BY <1>6, <1>7, <1>10, <1>12 DEF SwitchTo, Schedule
<1> QED
  BY <1>4, <1>8, <1>9, <1>10, <1>11, <1>12
     DEF Next, MessageArrives, ProcessMessage, ProcessPowerMessage, PulseEnds, Cancel, vars

(* The coils of a turnout break before they make (relay_switch.go): between *)
(* an energised coil and the other one there is a moment with both off on   *)
(* the chip, whatever fails, on the same chips as NeverBothCoils, which does*)
(* not exclude that one write changes both.                                 *)
THEOREM InterlockRefinement == Spec /\ SafeKind(chip) => ImplementsInterlock
<1>1. Init => CoilLock!Init
  <2> SUFFICES ASSUME Init PROVE CoilLock!Init
    OBVIOUS
  <2> QED BY DEF Init, Coils, Relay, CoilLock!Init
<1>2. IInv /\ SafeKind(chip) => NeverBothCoils
  BY NeverBoth
<1>3. IInv /\ SafeKind(chip) /\ [Next]_vars => SafeKind(chip)'
  BY StepIInv DEF KindStays
<1>4. IInv /\ SafeKind(chip) /\ NeverBothCoils' /\ [Next]_vars => [CoilLock!Next]_Coils
  <2> SUFFICES ASSUME IInv, SafeKind(chip), NeverBothCoils', [Next]_vars PROVE CoilLock!Next
    OBVIOUS
  <2>1. /\ \A q \in Relay : q \in Coils <=> On(chip, q)
        /\ \A q \in Relay : q \in Coils' <=> On(chip', q)
        /\ Coils \subseteq Relay /\ Coils' \subseteq Relay
    BY DEF Coils, Energised, ActiveLow, On, Low
  <2>2. ASSUME NEW q \in Relay, q \in Coils', q \notin Coils
        PROVE  Coils = {} /\ Coils' = {q}
    <3>1. Opposite(q) \in Relay /\ Opposite(q) # q /\ \A p \in Relay : p = q \/ p = Opposite(q)
      BY PinAssumption DEF Relay, Opposite
    <3>2. Opposite(q) \notin Coils
      BY <2>1, <2>2, <3>1, OneAfterTheOther
    <3>3. Opposite(q) \notin Coils'
      BY <2>2, <3>1 DEF NeverBothCoils, Coils, Relay
    <3> QED BY <2>1, <2>2, <3>1, <3>2, <3>3
  <2>3. CASE Coils' \subseteq Coils
    BY <2>3 DEF CoilLock!Next, CoilLock!Open
  <2>4. CASE ~(Coils' \subseteq Coils)
    BY <2>1, <2>2, <2>4 DEF Relay, CoilLock!Next, CoilLock!Close
  <2> QED BY <2>3, <2>4
<1> QED
  BY <1>1, <1>2, <1>3, <1>4, Invariance, PTL DEF Spec, ImplementsInterlock, CoilLock!Spec
==============================================================================
