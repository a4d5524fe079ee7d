------------------------------- MODULE I2cBus -------------------------------
(***************************************************************************)
(* I2C transfers of the bcm2835 driver.  The caller fills and drains the   *)
(* FIFO and polls the status register, while the controller moves the      *)
(* bytes and a device may refuse or stretch the clock too long.  The two   *)
(* functions with a repeated start program a read behind a write that is   *)
(* under way, or that the caller was too late to see.                      *)
(***************************************************************************)
EXTENDS Naturals, SequencesExt

CONSTANTS
  I2cBytes,    \* the values of a byte
  I2cFifo,     \* BCM2835_BSC_FIFO_SIZE, 16 in the code
  I2cCalls     \* calls: function, the bytes to write, how many to read

(* A write reads nothing and a read writes nothing.                        *)
ASSUME I2cAssumption ==
  /\ I2cFifo \in Nat \ {0}
  /\ I2cCalls \subseteq [fn : {"write", "read", "rs"}, out : Seq(I2cBytes), len : Nat]
  /\ \A c \in I2cCalls : /\ c.fn = "write" => c.len = 0
                         /\ c.fn = "read" => c.out = <<>>

VARIABLES
  i2c,         \* where the caller is
  call,        \* the call
  remaining, buf, reason,       \* of the call
  txFifo, rxFifo,
  DONE, ERR, CLKT,     \* the status register
  moving,      \* what the controller does: nothing, or write or read so many bytes
  restart,     \* what it does next, without a stop
  taken, gave  \* the bytes that the device took and gave during the call

driverVars == <<i2c, remaining, buf, reason>>
fifoVars   == <<txFifo, rxFifo>>
flagVars   == <<DONE, ERR, CLKT>>
busVars    == <<moving, restart, taken, gave>>
i2cVars    == <<call, driverVars, fifoVars, flagVars, busVars>>

Idle0   == [dir |-> "idle", len |-> 0]
NoCall  == [fn |-> "none", out |-> <<>>, len |-> 0]
TA      == moving.dir # "idle"
I2cTXD     == Len(txFifo) < I2cFifo
I2cRXD     == rxFifo # <<>>

I2cInit ==
  /\ i2c = "idle" /\ call = NoCall /\ remaining = 0 /\ buf = <<>> /\ reason = "OK"
  /\ txFifo = <<>> /\ rxFifo = <<>> /\ DONE = FALSE /\ ERR = FALSE /\ CLKT = FALSE
  /\ moving = Idle0 /\ restart = Idle0 /\ taken = <<>> /\ gave = <<>>
-----------------------------------------------------------------------------
(* The controller and the device.                                          *)
(* A start during a transfer is carried out when that one is through.      *)
StartRead(len) ==
  IF TA THEN restart' = [dir |-> "read", len |-> len] /\ UNCHANGED moving
        ELSE moving' = [dir |-> "read", len |-> len] /\ UNCHANGED restart

ShiftOut ==
  /\ moving.dir = "write" /\ moving.len > 0 /\ txFifo # <<>>
  /\ taken' = Append(taken, Head(txFifo)) /\ txFifo' = Tail(txFifo)
  /\ moving' = [moving EXCEPT !.len = @ - 1]
  /\ UNCHANGED <<call, driverVars, flagVars, rxFifo, restart, gave>>

ShiftIn ==
  /\ moving.dir = "read" /\ moving.len > 0 /\ Len(rxFifo) < I2cFifo
  /\ \E b \in I2cBytes : rxFifo' = Append(rxFifo, b) /\ gave' = Append(gave, b)
  /\ moving' = [moving EXCEPT !.len = @ - 1]
  /\ UNCHANGED <<call, driverVars, flagVars, txFifo, restart, taken>>

Finish ==
  /\ TA /\ moving.len = 0 /\ moving' = restart /\ restart' = Idle0
  /\ DONE' = (DONE \/ restart = Idle0)
  /\ UNCHANGED <<call, driverVars, fifoVars, ERR, CLKT, taken, gave>>

Fail ==
  /\ TA /\ moving' = Idle0 /\ restart' = Idle0 /\ DONE' = TRUE
  /\ \/ ERR' = TRUE /\ UNCHANGED CLKT
     \/ CLKT' = TRUE /\ UNCHANGED ERR
  /\ UNCHANGED <<call, driverVars, fifoVars, taken, gave>>

(* Bytes of a write that nobody is going to supply: the controller may wait *)
(* for them for ever, or go on to the read that was started behind it.      *)
Starve ==
  /\ moving.dir = "write" /\ moving.len > 0 /\ txFifo = <<>> /\ restart # Idle0
  /\ moving' = restart /\ restart' = Idle0
  /\ UNCHANGED <<call, driverVars, fifoVars, flagVars, taken, gave>>

Controller == ShiftOut \/ ShiftIn \/ Finish \/ Fail \/ Starve
-----------------------------------------------------------------------------
(* The head of each function, up to the start of the transfer.  A transfer *)
(* that a call missed the end of is taken to end before the next call: what*)
(* becomes of its bytes in the FIFO otherwise is not followed.             *)
Ahead(c) == IF Len(c.out) < I2cFifo THEN Len(c.out) ELSE I2cFifo

Begin(c) ==
  /\ i2c = "idle" /\ ~TA /\ call' = c
  /\ txFifo' = SubSeq(c.out, 1, Ahead(c)) /\ rxFifo' = <<>>
  /\ DONE' = FALSE /\ ERR' = FALSE /\ CLKT' = FALSE
  /\ moving' = IF c.fn = "read" THEN [dir |-> "read", len |-> c.len]
               ELSE [dir |-> "write", len |-> Len(c.out)]
  /\ remaining' = IF c.fn = "read" THEN c.len ELSE Len(c.out) - Ahead(c)
  /\ i2c' = IF c.fn = "rs" THEN "started" ELSE c.fn
  /\ buf' = <<>> /\ reason' = "OK" /\ taken' = <<>> /\ gave' = <<>>
  /\ UNCHANGED restart

Write ==
  /\ i2c = "write" /\ remaining > 0 /\ I2cTXD
  /\ txFifo' = Append(txFifo, call.out[Len(call.out) - remaining + 1])
  /\ remaining' = remaining - 1
  /\ UNCHANGED <<call, i2c, buf, reason, rxFifo, flagVars, busVars>>

(* The repeated start, once the write is seen under way or done; the delay *)
(* after it is for the first byte to come.  remaining, which counted the   *)
(* commands that did not fit the FIFO, now counts the bytes to read.       *)
RepeatStart ==
  /\ i2c = "started" /\ (TA \/ DONE)
  /\ StartRead(call.len) /\ remaining' = call.len /\ i2c' = "read"
  /\ UNCHANGED <<call, buf, reason, fifoVars, flagVars, taken, gave>>

DrainByte ==
  /\ buf' = Append(buf, Head(rxFifo)) /\ rxFifo' = Tail(rxFifo)
  /\ remaining' = remaining - 1
  /\ UNCHANGED <<call, i2c, reason, txFifo, flagVars, busVars>>

(* i2c_read does not test remaining here: no more comes than it asked for.  *)
Drain == i2c = "read" /\ I2cRXD /\ remaining > 0 /\ DrainByte
Rest  == i2c = "rest" /\ I2cRXD /\ remaining > 0 /\ DrainByte

SeeEnd ==
  /\ i2c \in {"write", "read"} /\ DONE
  /\ i2c' = IF i2c = "write" THEN "judge" ELSE "rest"
  /\ UNCHANGED <<call, remaining, buf, reason, fifoVars, flagVars, busVars>>

(* Mutant: the status is judged before the count, but not for a refusal.    *)
Judged_NoNack == IF CLKT THEN "CLKT" ELSE IF remaining > 0 THEN "DATA" ELSE "OK"

Judged ==
  IF ERR THEN "NACK" ELSE IF CLKT THEN "CLKT"
  ELSE IF remaining > 0 THEN "DATA" ELSE "OK"

Return ==
  /\ i2c = "judge" \/ (i2c = "rest" /\ ~(I2cRXD /\ remaining > 0))
  /\ reason' = Judged /\ i2c' = "idle"
  /\ UNCHANGED <<call, remaining, buf, fifoVars, flagVars, busVars>>

Driver == Write \/ RepeatStart \/ Drain \/ Rest \/ SeeEnd \/ Return
-----------------------------------------------------------------------------
I2cNext == Controller \/ Driver \/ \E c \in I2cCalls : Begin(c)

I2cSpec == I2cInit /\ [][I2cNext]_i2cVars

(* The commands of a repeated start that the driver puts into the FIFO: all *)
(* of them only when they fit it.                                           *)
Sendable(c) == c.fn = "rs" => Len(c.out) <= I2cFifo

(* A call that returns OK moved every byte, unless it is a repeated start   *)
(* with more commands than the FIFO holds: the device took all that was to  *)
(* be written, in order, and the buffer holds what it gave, as many as asked*)
(* for.  So a refusal, a stretched clock and a missed end are reported.  The*)
(* excepted calls lose commands and may return OK (bcm2835.c:1079, 1097),   *)
(* although bcm2835.h:1455 allows them any number.                          *)
OkMeansAll ==
  i2c = "idle" /\ call # NoCall /\ reason = "OK" /\ Sendable(call)
    => /\ taken = call.out
       /\ buf = gave /\ Len(buf) = call.len
=============================================================================
