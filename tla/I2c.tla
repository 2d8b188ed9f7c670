-------------------------------- MODULE I2c ---------------------------------
(***************************************************************************)
(* The polled I2C driver of the STM32H753ZI (drivers/stm32h753zi/i2c.c)    *)
(* and the sensor drivers on it (sensors/mpu6050.c, sensors/bmp280.c), one *)
(* caller at a time.  Measured values are left out, except the pressure    *)
(* that becomes the altitude reference: a byte that was read is where it   *)
(* came from, and in which transfer.                                       *)
(*                                                                         *)
(* The controller and the sensors are external.  A sensor acknowledges its *)
(* address or does not, may stop answering for good in the middle of a     *)
(* transfer, and acknowledges every byte written to it.  It is never       *)
(* slower than a polling loop: a loop gives up only when nothing can set   *)
(* its flag any more.                                                      *)
(***************************************************************************)
EXTENDS Integers, Sequences

CONSTANTS
    BurstLength,      \* bytes of a calibration or measurement read
    Pressure,         \* pressures bmp280_read can compute
    StandardPressure, \* the reference before bmp280_zero_altitude
    ZeroSamples,      \* samples bmp280_zero_altitude may be asked for
    MaxSensorCalls    \* bound: calls of the sensor drivers

ASSUME I2cAssumption ==
    /\ BurstLength \in Nat \ {0} /\ Pressure \subseteq Nat /\ StandardPressure \in Nat
    /\ ZeroSamples \subseteq Nat /\ MaxSensorCalls \in Nat

VARIABLES
    i2c1,     \* controller: phase, address, CR2's direction, NBYTES and AUTOEND, TXDR and
              \* RXDR (a byte or none), NACKF, STOPF; whether the next byte
              \* written is the first; auxiliary: transfers started
    sensor,   \* per sensor: register pointer and offset, settings, whether its ID is right
    drv,      \* the call in progress: function, sensor, transfers to do, step, byte, buf
    zero,     \* bmp280_zero_altitude: samples to take, sum, got; auxiliary: the samples
    s_reference_pressure,
    bus       \* auxiliary: calls made, sensors whose init returned 0, the last read that
              \* returned 0, the samples the last reference is made of

i2cVars == <<i2c1, sensor, drv, zero, s_reference_pressure, bus>>

Device == {"mpu6050", "bmp280"}

(* The transfers of a sensor function: i2c_read(d, reg, buf, len), and     *)
(* i2c_write(d, {reg, val}, 2), for which len is 0.                        *)
Read(d, reg, len) == [addr |-> d, data |-> <<reg>>, len |-> len]
Write(d, reg, val) == [addr |-> d, data |-> <<reg, val>>, len |-> 0]

mpu6050_init ==
    <<Read("mpu6050", "WHO_AM_I", 1), Write("mpu6050", "PWR_MGMT_1", "0x00"),
      Write("mpu6050", "CONFIG", "0x03"), Write("mpu6050", "GYRO_CONFIG", "0x00"),
      Write("mpu6050", "ACCEL_CONFIG", "0x00")>>

mpu6050_read == <<Read("mpu6050", "ACCEL_XOUT_H", BurstLength)>>

bmp280_init ==
    <<Read("bmp280", "CHIP_ID", 1), Read("bmp280", "CALIB_START", BurstLength),
      Write("bmp280", "CTRL_MEAS", "0x57"), Write("bmp280", "CONFIG", "0x00")>>

bmp280_read == <<Read("bmp280", "DATA_START", BurstLength)>>

InitOf(d) == IF d = "mpu6050" THEN mpu6050_init ELSE bmp280_init
IdRegister == {"WHO_AM_I", "CHIP_ID"}

NoCall == [fn |-> "", dev |-> "", todo |-> <<>>, step |-> "out", i |-> 0, buf |-> <<>>]
NoRead == [of |-> Read("", "", 0), buf |-> <<>>, transfer |-> 0]

(* i2c_init leaves an idle controller without flags.                       *)
I2cInit ==
    /\ i2c1 = [phase |-> "idle", addr |-> "", rd |-> FALSE, nbytes |-> 0, autoend |-> FALSE,
               first |-> FALSE, txdr |-> <<>>, rxdr |-> <<>>, nackf |-> FALSE, stopf |-> FALSE,
               transfer |-> 0]
    /\ sensor \in [Device -> [pointer : {<<>>}, at : {0}, settings : {{}}, genuine : BOOLEAN]]
    /\ drv = NoCall
    /\ zero = [left |-> 0, sum |-> 0, got |-> 0, seen |-> {}]
    /\ s_reference_pressure = StandardPressure
    /\ bus = [calls |-> 0, ready |-> {}, read |-> NoRead, samples |-> {StandardPressure}]
-----------------------------------------------------------------------------
(* The controller and the sensors.                                         *)
BUSY == i2c1.phase # "idle"
TXIS == i2c1.phase = "write" /\ i2c1.txdr = <<>> /\ i2c1.nbytes > 0
RXNE == i2c1.rxdr # <<>>

(* CR2 is written with START.                                              *)
Start(addr, rd, nbytes) ==
    [i2c1 EXCEPT !.phase = "address", !.addr = addr, !.rd = rd, !.nbytes = nbytes,
                 !.autoend = TRUE, !.first = TRUE, !.transfer = @ + 1]

(* CR2 is zeroed; NBYTES and AUTOEND are gone even under a transfer.       *)
Zeroed(c) == [c EXCEPT !.nbytes = 0, !.autoend = FALSE]

(* After the last byte AUTOEND sends STOP; without it the bus is held.     *)
Progress(c) ==
    CASE c.nbytes > 0 -> c
      [] c.nbytes = 0 /\ c.autoend -> [c EXCEPT !.phase = "idle", !.stopf = TRUE]
      [] OTHER -> [c EXCEPT !.phase = "held"]

Answering ==
    \/ i2c1.phase = "address"
    \/ i2c1.phase = "write" /\ i2c1.txdr # <<>>
    \/ i2c1.phase = "read" /\ ~RXNE

Stuck ==
    /\ Answering
    /\ i2c1' = [i2c1 EXCEPT !.phase = "stuck"]
    /\ UNCHANGED <<sensor, drv, zero, s_reference_pressure, bus>>

Addressed ==
    /\ i2c1.phase = "address"
    /\ \/ i2c1' = [i2c1 EXCEPT !.phase = "idle", !.nackf = TRUE, !.stopf = TRUE]
       \/ i2c1' = Progress([i2c1 EXCEPT !.phase = IF i2c1.rd THEN "read" ELSE "write"])
    /\ UNCHANGED <<sensor, drv, zero, s_reference_pressure, bus>>

(* The first byte written is the register, the second one its value.       *)
Took(s, byte, first) ==
    IF first THEN [s EXCEPT !.pointer = byte, !.at = 0]
    ELSE [s EXCEPT !.settings = @ \cup {s.pointer \o byte}]

Written ==
    /\ i2c1.phase = "write" /\ i2c1.txdr # <<>>
    /\ i2c1' = Progress([i2c1 EXCEPT !.txdr = <<>>, !.nbytes = @ - 1, !.first = FALSE])
    /\ sensor' = [sensor EXCEPT ![i2c1.addr] = Took(@, i2c1.txdr, i2c1.first)]
    /\ UNCHANGED <<drv, zero, s_reference_pressure, bus>>

ReadOut ==
    /\ i2c1.phase = "read" /\ ~RXNE
    /\ LET d == i2c1.addr
           byte == [addr |-> d, reg |-> sensor[d].pointer, at |-> sensor[d].at,
                    transfer |-> i2c1.transfer]
       IN  /\ i2c1' = Progress([i2c1 EXCEPT !.rxdr = <<byte>>, !.nbytes = @ - 1])
           /\ sensor' = [sensor EXCEPT ![d].at = @ + 1]
    /\ UNCHANGED <<drv, zero, s_reference_pressure, bus>>

ControllerNext == Stuck \/ Addressed \/ Written \/ ReadOut
-----------------------------------------------------------------------------
(* A call of the sensor drivers.  The applications read a sensor only      *)
(* after its init has returned 0.                                          *)
Enter(fn, d, transfers) ==
    /\ drv.step = "out" /\ bus.calls < MaxSensorCalls
    /\ drv' = [drv EXCEPT !.fn = fn, !.dev = d, !.todo = transfers, !.step = "write"]
    /\ bus' = [bus EXCEPT !.calls = @ + 1, !.ready = IF fn = "init" THEN @ \ {d} ELSE @]
    /\ UNCHANGED <<i2c1, sensor, s_reference_pressure>>

CallInit(d) == Enter("init", d, InitOf(d)) /\ UNCHANGED zero

CallRead(d) ==
    /\ d \in bus.ready
    /\ Enter("read", d, IF d = "mpu6050" THEN mpu6050_read ELSE bmp280_read)
    /\ UNCHANGED zero

(* A request for no sample is one for a sample.                            *)
bmp280_zero_altitude(num_samples) ==
    /\ "bmp280" \in bus.ready
    /\ Enter("zero", "bmp280", bmp280_read)
    /\ zero' = [left |-> IF num_samples = 0 THEN 1 ELSE num_samples,
                sum |-> 0, got |-> 0, seen |-> {}]

This == Head(drv.todo)
StepTo(step) == drv' = [drv EXCEPT !.step = step, !.i = 0]

(* Mutant: the register pointer was not written and i2c_read goes on.      *)
MutReadOn == StepTo(IF This.len > 0 /\ drv.step = "nack" THEN "read" ELSE "fail")

(* A call returns -1, and so does the function that made it.               *)
Fail == StepTo("fail")

(* The controller is quiet: i2c_wait runs out.                             *)
RunsOut == ~Answering

(* i2c_write: BUSY is waited for, then the transfer is started.            *)
WriteStart ==
    /\ drv.step = "write"
    /\ \/ ~BUSY /\ i2c1' = Start(This.addr, FALSE, Len(This.data)) /\ StepTo("bytes")
       \/ BUSY /\ RunsOut /\ Fail /\ UNCHANGED i2c1
    /\ UNCHANGED <<sensor, zero, s_reference_pressure, bus>>

(* The loop that polls for NACKF or TXIS.  t has wrapped when it runs out, *)
(* so `t == 0U` misses that and the byte is written all the same; it holds *)
(* when the flag was seen at the last poll.                                *)
WriteByte ==
    /\ drv.step = "bytes" /\ drv.i < Len(This.data)
    /\ \/ i2c1.nackf /\ StepTo("nack") /\ UNCHANGED i2c1
       \/ /\ ~i2c1.nackf /\ (TXIS \/ RunsOut)
          /\ i2c1' = [i2c1 EXCEPT !.txdr = <<This.data[drv.i + 1]>>]
          /\ drv' = [drv EXCEPT !.i = @ + 1]
       \/ (i2c1.nackf \/ TXIS) /\ i2c1' = Zeroed(i2c1) /\ Fail
    /\ UNCHANGED <<sensor, zero, s_reference_pressure, bus>>

(* NACKF: STOPF is waited for, as long as it takes or not at all.          *)
WriteNack ==
    /\ drv.step = "nack" /\ (i2c1.stopf \/ RunsOut)
    /\ i2c1' = Zeroed([i2c1 EXCEPT !.nackf = FALSE, !.stopf = FALSE])
    /\ Fail
    /\ UNCHANGED <<sensor, zero, s_reference_pressure, bus>>

(* All bytes are in TXDR: the wait for STOPF.                              *)
WriteStop ==
    /\ drv.step = "bytes" /\ drv.i = Len(This.data)
    /\ \/ /\ i2c1.stopf /\ i2c1' = Zeroed([i2c1 EXCEPT !.stopf = FALSE])
          /\ StepTo(IF This.len > 0 THEN "read" ELSE "ok")
       \/ ~i2c1.stopf /\ RunsOut /\ i2c1' = Zeroed(i2c1) /\ Fail
    /\ UNCHANGED <<sensor, zero, s_reference_pressure, bus>>

(* i2c_read after i2c_write has returned 0.  Its failures leave CR2, NACKF *)
(* and STOPF as they are.                                                  *)
ReadStart ==
    /\ drv.step = "read"
    /\ \/ /\ ~BUSY /\ i2c1' = Start(This.addr, TRUE, This.len)
          /\ drv' = [drv EXCEPT !.step = "data", !.buf = <<>>]
       \/ BUSY /\ RunsOut /\ Fail /\ UNCHANGED i2c1
    /\ UNCHANGED <<sensor, zero, s_reference_pressure, bus>>

ReadByte ==
    /\ drv.step = "data" /\ Len(drv.buf) < This.len
    /\ \/ /\ RXNE /\ i2c1' = [i2c1 EXCEPT !.rxdr = <<>>]
          /\ drv' = [drv EXCEPT !.buf = @ \o i2c1.rxdr]
       \/ ~RXNE /\ RunsOut /\ Fail /\ UNCHANGED i2c1
    /\ UNCHANGED <<sensor, zero, s_reference_pressure, bus>>

ReadStop ==
    /\ drv.step = "data" /\ Len(drv.buf) = This.len
    /\ \/ i2c1.stopf /\ i2c1' = Zeroed([i2c1 EXCEPT !.stopf = FALSE]) /\ StepTo("ok")
       \/ ~i2c1.stopf /\ RunsOut /\ Fail /\ UNCHANGED i2c1
    /\ UNCHANGED <<sensor, zero, s_reference_pressure, bus>>
-----------------------------------------------------------------------------
(* A transfer has succeeded.  After the identification the init functions  *)
(* return -2 if it is not the expected one.                                *)
WrongChip == This.data[1] \in IdRegister /\ ~sensor[This.addr].genuine

NextTransfer ==
    /\ drv.step = "ok"
    /\ IF WrongChip THEN StepTo("fail")
       ELSE drv' = [drv EXCEPT !.todo = Tail(@), !.i = 0,
                               !.step = IF Len(drv.todo) > 1 THEN "write" ELSE "return"]
    /\ bus' = [bus EXCEPT !.read = IF This.len = 0 THEN @
                                   ELSE [of |-> This, buf |-> drv.buf, transfer |-> i2c1.transfer]]
    /\ UNCHANGED <<i2c1, sensor, zero, s_reference_pressure>>

(* mpu6050_init, mpu6050_read, bmp280_init or bmp280_read returns to the   *)
(* application.                                                            *)
SensorReturn ==
    /\ drv.fn \in {"init", "read"} /\ drv.step \in {"return", "fail"}
    /\ drv' = NoCall
    /\ bus' = IF drv.fn = "init" /\ drv.step = "return"
              THEN [bus EXCEPT !.ready = @ \cup {drv.dev}] ELSE bus
    /\ UNCHANGED <<i2c1, sensor, zero, s_reference_pressure>>

(* bmp280_zero_altitude adds a sample up; a failed read does not count.    *)
Added(ok, p) ==
    IF ok THEN [left |-> zero.left - 1, got |-> zero.got + 1, sum |-> zero.sum + p,
                seen |-> zero.seen \cup {p}]
    ELSE [zero EXCEPT !.left = @ - 1]

TakeSample ==
    /\ drv.fn = "zero" /\ drv.step \in {"return", "fail"} /\ zero.left > 0
    /\ \E p \in Pressure : zero' = Added(drv.step = "return", p)
    /\ drv' = IF zero.left > 1 THEN [drv EXCEPT !.todo = bmp280_read, !.step = "write"]
              ELSE [drv EXCEPT !.todo = <<>>, !.step = "return"]
    /\ UNCHANGED <<i2c1, sensor, s_reference_pressure, bus>>

SetReference ==
    /\ drv.fn = "zero" /\ drv.step = "return" /\ zero.left = 0
    /\ drv' = NoCall
    /\ IF zero.got = 0 THEN UNCHANGED <<s_reference_pressure, bus>>
       ELSE /\ s_reference_pressure' = zero.sum \div zero.got
            /\ bus' = [bus EXCEPT !.samples = zero.seen]
    /\ UNCHANGED <<i2c1, sensor, zero>>

I2cNext ==
    \/ ControllerNext
    \/ \E d \in Device : CallInit(d) \/ CallRead(d)
    \/ \E n \in ZeroSamples : bmp280_zero_altitude(n)
    \/ WriteStart \/ WriteByte \/ WriteNack \/ WriteStop
    \/ ReadStart \/ ReadByte \/ ReadStop
    \/ NextTransfer \/ SensorReturn \/ TakeSample \/ SetReference
-----------------------------------------------------------------------------
(* Properties.                                                             *)

(* When i2c_read returns 0, buf holds the bytes of the register asked for, *)
(* in order and sent in this very transfer, whatever flags, register       *)
(* pointer or half-finished transfer an earlier failure has left behind.   *)
I2cReadTrue ==
    bus.read.buf = [n \in 1..bus.read.of.len |->
                       [addr |-> bus.read.of.addr, reg |-> bus.read.of.data, at |-> n - 1,
                        transfer |-> bus.read.transfer]]

(* A sensor whose init function has returned 0 is the right chip and has   *)
(* received all the settings of that function.                             *)
SensorConfigured ==
    \A d \in bus.ready :
        /\ sensor[d].genuine
        /\ \A n \in DOMAIN InitOf(d) : InitOf(d)[n].len = 0 => InitOf(d)[n].data \in sensor[d].settings

(* The altitude reference is never outside the pressures that              *)
(* bmp280_zero_altitude has measured, although some of its reads may have  *)
(* failed; if all did, it is the previous one.                             *)
ReferenceMeasured ==
    \E lo, hi \in bus.samples : lo <= s_reference_pressure /\ s_reference_pressure <= hi

(* A result 0 of the I2C and sensor functions can be believed, whatever an *)
(* earlier failed call has left in the controller and the sensors.         *)
SensorResultTrue == I2cReadTrue /\ SensorConfigured /\ ReferenceMeasured
=============================================================================
