------------------------------ MODULE GpioChip ------------------------------
(***************************************************************************)
(* The GPIO devices (pkg/service/devices): what the driver believes of its  *)
(* chip and what the chip puts out.                                         *)
(*                                                                         *)
(* The I2C drivers cache direction and value registers, change the cache in *)
(* the bus operation and write a whole register, for all its pins at once.  *)
(* A failed write leaves the cache changed, so the next write of the        *)
(* register applies it. Each call of a driver is one operation of the bus,  *)
(* atomic by I2CBus; its possible outcomes are given as a set. A test of    *)
(* the direction in front of the operation belongs to the same step: only   *)
(* Close can come in between, after which a write puts nothing out.         *)
(***************************************************************************)
CONSTANTS
    Pin,
    BankB    \* pins of the second register of an mcp23017 or a car sensor

Kind == {"mcp23017", "mcp23008", "pcf8574", "carSensor", "local", "localClosed"}

(* Cached direction (pins that are input) and value (pins that are high),   *)
(* and the registers of the chip they are copied to.                        *)
Chip == [kind : Kind, iodir : SUBSET Pin, value : SUBSET Pin,
         hwIodir : SUBSET Pin, hwValue : SUBSET Pin]

ChipOf(kind, inputs, high, hwInputs, hwHigh) ==
    [kind |-> kind, iodir |-> inputs, value |-> high, hwIodir |-> hwInputs, hwValue |-> hwHigh]

(* The results of an operation: the chip after it, the error, and how it    *)
(* came about: written, failed, refused before it reached the bus, or a     *)
(* panic.                                                                   *)
Outcome(chip, kind) == [chip |-> chip, kind |-> kind]

(* A write of both attempts fails, with or without effect on the chip; a    *)
(* device that cannot be opened fails before the cache is changed.          *)
Attempts(chip, cached, written) ==
    {Outcome(written, "ok"), Outcome(chip, "error"), Outcome(cached, "error"),
     Outcome(written, "error"), Outcome(chip, "refused")}

With(set, pin, in) == IF in THEN set \cup {pin} ELSE set \ {pin}

(* The pins of a register of the chip take their new value.                 *)
Copied(new, old, register) == (new \cap register) \cup (old \ register)

-----------------------------------------------------------------------------
(* mcp23017 has two registers of eight pins, mcp23008 has one.              *)
Mcp23017Register(pin) == IF pin \in BankB THEN BankB ELSE Pin \ BankB
Mcp23008Register(pin) == Pin

(* newMcp and Configure make all pins input. The chip keeps the value       *)
(* registers that the previous worker left.                                 *)
FreshMcp23017 == {ChipOf("mcp23017", Pin, Pin, Pin, left) : left \in SUBSET Pin}
FreshMcp23008 == {ChipOf("mcp23008", Pin, Pin, Pin, left) : left \in SUBSET Pin}

WriteIodir(chip, register) == [chip EXCEPT !.hwIodir = Copied(chip.iodir, @, register)]
WriteValue(chip, register) == [chip EXCEPT !.hwValue = Copied(chip.value, @, register)]

McpSetDirection(chip, pin, input, register) ==
    LET cached == [chip EXCEPT !.iodir = With(@, pin, input)]
    IN  Attempts(chip, cached, WriteIodir(cached, register))

Mcp23017SetDirection(chip, pin, input) ==
    McpSetDirection(chip, pin, input, Mcp23017Register(pin))
Mcp23008SetDirection(chip, pin, input) ==
    McpSetDirection(chip, pin, input, Mcp23008Register(pin))

(* Set refuses a pin that is an input.                                      *)
McpSet(chip, pin, high, register) ==
    LET cached == [chip EXCEPT !.value = With(@, pin, high)]
    IN  IF pin \in chip.iodir
        THEN {Outcome(chip, "error")}
        ELSE Attempts(chip, cached, WriteValue(cached, register))

Mcp23017Set(chip, pin, high) == McpSet(chip, pin, high, Mcp23017Register(pin))
Mcp23008Set(chip, pin, high) == McpSet(chip, pin, high, Mcp23008Register(pin))

(* Close makes all pins input, one register after the other.                *)
Mcp23017Close(chip) ==
    LET cached == [chip EXCEPT !.iodir = Pin]
        first  == WriteIodir(cached, Pin \ BankB)
    IN  Attempts(chip, cached, WriteIodir(first, BankB)) \cup {Outcome(first, "error")}

Mcp23008Close(chip) ==
    LET cached == [chip EXCEPT !.iodir = Pin]
    IN  Attempts(chip, cached, WriteIodir(cached, Pin))

-----------------------------------------------------------------------------
(* The pcf8574 has no direction register: an input is an output that is     *)
(* high, which hardly drives.                                               *)
FreshPcf8574 == {ChipOf("pcf8574", Pin, {}, {}, Pin)}

MergeDirectionAndOutput(chip) == [chip EXCEPT !.hwValue = chip.iodir \cup chip.value]

(* A pin that becomes an output starts low.                                 *)
Pcf8574SetDirection(chip, pin, input) ==
    LET cached == [chip EXCEPT !.value = @ \ {pin}, !.iodir = With(@, pin, input)]
    IN  Attempts(chip, cached, MergeDirectionAndOutput(cached))

Pcf8574Set(chip, pin, high) ==
    LET cached == [chip EXCEPT !.value = With(@, pin, high)]
    IN  IF pin \in chip.iodir
        THEN {Outcome(chip, "error")}
        ELSE Attempts(chip, cached, MergeDirectionAndOutput(cached))

(* Pcf8574Close that writes the chip and leaves the cache as it was.        *)
Pcf8574CloseKeepingCache(chip) == Attempts(chip, chip, [chip EXCEPT !.hwValue = Pin])

Pcf8574Close(chip) ==
    LET cached == [chip EXCEPT !.iodir = Pin, !.value = {}]
    IN  Attempts(chip, cached, [cached EXCEPT !.hwValue = Pin])

-----------------------------------------------------------------------------
(* The output pins of a car sensor. Its Configure only reads, so outputs    *)
(* stay as they were until a first Set writes all eight of a register.      *)
FreshCarSensor == {ChipOf("carSensor", {}, {}, {}, left) : left \in SUBSET Pin}

CarSensorSetDirection(chip, pin, input) == {Outcome(chip, "ok")}

CarSensorRegister(pin) == IF pin \in BankB THEN BankB ELSE Pin \ BankB

CarSensorSet(chip, pin, high) ==
    LET cached == [chip EXCEPT !.value = With(@, pin, high)]
    IN  Attempts(chip, cached, WriteValue(cached, CarSensorRegister(pin)))

(* Close makes all outputs low, one register after the other.               *)
CarSensorClose(chip) ==
    LET cached == [chip EXCEPT !.value = {}]
        first  == WriteValue(cached, Pin \ BankB)
    IN  Attempts(chip, cached, WriteValue(first, BankB)) \cup {Outcome(first, "error")}

-----------------------------------------------------------------------------
(* Pins of the worker itself. iodir are the pins not opened for output. The *)
(* kernel keeps them as the previous worker left them.                      *)
FreshLocal == {ChipOf("local", Pin, {}, Pin \ driven, left) :
                  driven \in SUBSET Pin, left \in SUBSET Pin}

(* A pin is opened as input, or as output with an initial low.              *)
LocalSetDirection(chip, pin, input) ==
    LET set    == [chip EXCEPT !.hwIodir = With(@, pin, input), !.hwValue = @ \ {pin}]
        opened == [set EXCEPT !.iodir = With(@, pin, input)]
    IN  {Outcome(opened, "ok"), Outcome(chip, "error"), Outcome(set, "error")}

LocalSet(chip, pin, high) ==
    LET written == [chip EXCEPT !.hwValue = With(@, pin, high)]
    IN  IF pin \in chip.iodir
        THEN {Outcome(chip, "error")}
        ELSE {Outcome(written, "ok"), Outcome(chip, "error")}

(* Close drops the pins and leaves the hardware alone; the slices are nil   *)
(* from then on and to index them is a panic.                               *)
LocalClose(chip) == {Outcome([chip EXCEPT !.kind = "localClosed"], "ok")}

-----------------------------------------------------------------------------
FreshChip == UNION {FreshMcp23017, FreshMcp23008, FreshPcf8574, FreshCarSensor, FreshLocal}

SetDirection(chip, pin, input) ==
    CASE chip.kind = "mcp23017"    -> Mcp23017SetDirection(chip, pin, input)
      [] chip.kind = "mcp23008"    -> Mcp23008SetDirection(chip, pin, input)
      [] chip.kind = "pcf8574"     -> Pcf8574SetDirection(chip, pin, input)
      [] chip.kind = "carSensor"   -> CarSensorSetDirection(chip, pin, input)
      [] chip.kind = "local"       -> LocalSetDirection(chip, pin, input)
      [] chip.kind = "localClosed" -> {Outcome(chip, "panic")}

SetPin(chip, pin, high) ==
    CASE chip.kind = "mcp23017"    -> Mcp23017Set(chip, pin, high)
      [] chip.kind = "mcp23008"    -> Mcp23008Set(chip, pin, high)
      [] chip.kind = "pcf8574"     -> Pcf8574Set(chip, pin, high)
      [] chip.kind = "carSensor"   -> CarSensorSet(chip, pin, high)
      [] chip.kind = "local"       -> LocalSet(chip, pin, high)
      [] chip.kind = "localClosed" -> {Outcome(chip, "panic")}

(* Close is given a context that is not cancelled: it is not refused.       *)
CloseChip(chip) ==
    (CASE chip.kind = "mcp23017"    -> Mcp23017Close(chip)
       [] chip.kind = "mcp23008"    -> Mcp23008Close(chip)
       [] chip.kind = "pcf8574"     -> Pcf8574Close(chip)
       [] chip.kind = "carSensor"   -> CarSensorClose(chip)
       [] chip.kind = "local"       -> LocalClose(chip)
       [] chip.kind = "localClosed" -> {Outcome(chip, "ok")}) \ {Outcome(chip, "refused")}

(* What the pins of the chip put out.                                       *)
DrivenHigh(chip) == IF chip.kind = "pcf8574" THEN {} ELSE chip.hwValue \ chip.hwIodir
DrivenLow(chip)  == Pin \ (chip.hwValue \cup chip.hwIodir)
=============================================================================
