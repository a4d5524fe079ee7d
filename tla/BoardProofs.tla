---------------------------- MODULE BoardProofs ----------------------------
(***************************************************************************)
(* Proofs about the driver below the cards: delays, for words of any width,*)
(* a counter that runs as far as it may and delays of any length; I2C      *)
(* calls, for a FIFO and messages of any length; and SPI transfers, for any*)
(* number of threads, transfers of any length and a FIFO of any depth.     *)
(***************************************************************************)
EXTENDS Board, TLAPS

(* Delays.                                                                 *)
TimerTypeOK ==
  /\ CHI \in Nat /\ CLO \in 0..(StWidth - 1)
  /\ timer \in {"idle", "high", "low", "again", "carried"}
  /\ hi \in Nat /\ lo \in 0..(StWidth - 1) /\ st \in Nat
  /\ micros \in Nat /\ entered \in Nat /\ start \in Nat \cup {Unread}

(* The delay was asked for before the high word moved on from what was     *)
(* read; unless it has since, the words read are a time of the reading.    *)
Reading ==
  /\ timer \in {"low", "again", "carried"} => hi <= CHI /\ entered < Time(hi + 1, 0)
  /\ timer = "again" /\ CHI = hi => entered <= Time(hi, lo) /\ Time(hi, lo) <= Now
  /\ timer = "carried" => hi < st /\ st <= CHI

TimerInv ==
  /\ TimerTypeOK /\ entered <= Now /\ Reading
  /\ start # Unread => entered <= start
  /\ DelayLasts
-----------------------------------------------------------------------------
LEMMA TimesMonotone ==
  ASSUME NEW a \in Nat, NEW b \in Nat, a <= b
  PROVE  /\ a * StWidth \in Nat /\ b * StWidth \in Nat
         /\ a * StWidth <= b * StWidth
         /\ (a + 1) * StWidth = a * StWidth + StWidth
BY TimerAssumption, SMT

LEMMA NowIsTime == TimerTypeOK => Now \in Nat
BY TimerAssumption, TimesMonotone DEF TimerTypeOK, Now, Time

LEMMA TickStep ==
  ASSUME TimerInv, Tick PROVE TimerInv'
<1>1. CHI' \in Nat /\ CLO' \in 0..(StWidth - 1) /\ CHI <= CHI'
  BY TimerAssumption DEF TimerInv, TimerTypeOK, Tick
<1>2. Now \in Nat /\ Now' \in Nat /\ Now <= Now'
  <2>1. CHI \in Nat /\ CLO \in Nat /\ CLO < StWidth /\ CLO' \in Nat /\ StWidth \in Nat
    BY <1>1, TimerAssumption DEF TimerInv, TimerTypeOK
  <2>2. CHI * StWidth \in Nat /\ CHI' * StWidth \in Nat
    BY <1>1, <2>1, TimesMonotone
  <2>3. CASE CLO < StWidth - 1
    BY <2>1, <2>2, <2>3 DEF Tick, Now, Time
  <2>4. CASE ~(CLO < StWidth - 1)
    <3>1. CHI' * StWidth = CHI * StWidth + StWidth /\ CLO' = 0
      BY <2>1, <2>4, TimesMonotone DEF Tick
    <3>2. QED
      BY <2>1, <2>2, <3>1 DEF Now, Time
  <2>5. QED
    BY <2>3, <2>4
<1>3. TimerTypeOK'
  BY <1>1 DEF TimerInv, TimerTypeOK, Tick, readVars
<1>4. Reading'
  <2>1. timer = "again" /\ CHI' = hi => CHI = hi
    BY <1>1 DEF TimerInv, TimerTypeOK, Reading
  <2>2. Time(hi, lo) \in Nat /\ Time(hi, lo)' = Time(hi, lo)
        /\ Time(hi + 1, 0)' = Time(hi + 1, 0)
    BY TimerAssumption, TimesMonotone DEF TimerInv, TimerTypeOK, Tick, readVars, Time
  <2>3. QED
    BY <1>1, <1>2, <2>1, <2>2 DEF TimerInv, TimerTypeOK, Reading, Tick, readVars
<1>5. QED
  BY <1>1, <1>2, <1>3, <1>4 DEF TimerInv, TimerTypeOK, Tick, readVars, DelayLasts

(* A time between the call of the delay and now is what a delay may read.  *)
LEMMA ReadStep ==
  ASSUME TimerInv, NEW t \in Nat, Read(t), entered <= t, t <= Now, st' \in Nat,
         timer \in {"again", "carried"}
  PROVE  TimerInv'
<1>1. TimerTypeOK'
  BY DEF TimerInv, TimerTypeOK, Read, Unread
<1>2. Now \in Nat /\ Now' = Now /\ entered' = entered /\ micros' = micros
  BY NowIsTime DEF TimerInv, Read, Now, Time
<1>3. timer' \in {"high", "idle"} /\ (start' # Unread => entered' <= start')
  BY DEF TimerInv, TimerTypeOK, Read
<1>4. timer' = "idle" => Now >= entered + micros
  BY <1>2 DEF TimerInv, TimerTypeOK, Read
<1>5. QED
  BY <1>1, <1>2, <1>3, <1>4 DEF TimerInv, Reading, DelayLasts

LEMMA TimerStep == TimerInv /\ [TimerNext]_timerVars => TimerInv'
<1> SUFFICES ASSUME TimerInv, [TimerNext]_timerVars PROVE TimerInv'
  OBVIOUS
<1> USE DEF TimerInv, TimerTypeOK
<1>1. Now \in Nat
  BY NowIsTime
<1>2. CASE Tick
  BY <1>2, TickStep
<1>3. ASSUME NEW m \in Delays, bcm2835_delayMicroseconds(m) PROVE TimerInv'
  BY <1>1, <1>3, TimerAssumption
     DEF bcm2835_delayMicroseconds, Reading, DelayLasts, Unread, Now, Time
<1>4. CASE ReadHigh
  <2>1. entered < Time(CHI + 1, 0)
    BY TimerAssumption, TimesMonotone DEF Now, Time
  <2>2. QED
    BY <1>1, <1>4, <2>1 DEF ReadHigh, Reading, DelayLasts, Now, Time
<1>5. CASE ReadLow
  <2>1. lo' = CLO /\ hi' = hi /\ CHI' = CHI /\ CLO' = CLO /\ timer' = "again"
    BY <1>5 DEF ReadLow
  <2>2. CHI' = hi' => entered <= Time(hi, lo') /\ Time(hi, lo') <= Now
    BY <1>1, <2>1 DEF Now, Time
  <2>3. QED
    BY <1>1, <1>5, <2>1, <2>2 DEF ReadLow, Reading, DelayLasts, Now, Time
<1>6. CASE ReadAgain
  <2>1. CASE CHI = hi
    <3>1. Time(hi, lo) \in Nat /\ entered <= Time(hi, lo) /\ Time(hi, lo) <= Now
      BY <1>6, <2>1, TimerAssumption, TimesMonotone DEF ReadAgain, Reading, Time
    <3>2. Read(Time(hi, lo)) /\ st' \in Nat /\ timer = "again"
      BY <1>6, <2>1 DEF ReadAgain
    <3>3. QED
      BY <3>1, <3>2, ReadStep
  <2>2. CASE CHI # hi
    BY <1>1, <1>6, <2>2 DEF ReadAgain, Reading, DelayLasts, Now, Time
  <2>3. QED
    BY <2>1, <2>2
<1>7. CASE ReadCarried
  <2>1. Time(st, CLO) \in Nat /\ Time(st, CLO) <= Now
    BY <1>7, TimerAssumption, TimesMonotone DEF ReadCarried, Reading, Now, Time
  <2>2. entered <= Time(st, CLO)
    <3>1. hi + 1 \in Nat /\ hi + 1 <= st /\ entered < Time(hi + 1, 0)
      BY <1>7 DEF ReadCarried, Reading
    <3>2. Time(hi + 1, 0) <= Time(st, CLO)
      BY <3>1, TimerAssumption, TimesMonotone DEF Time
    <3>3. Time(hi + 1, 0) \in Nat
      BY <3>1, TimerAssumption, TimesMonotone DEF Time
    <3>4. QED
      BY <2>1, <3>1, <3>2, <3>3
  <2>3. QED
    BY <1>7, <2>1, <2>2, ReadStep DEF ReadCarried
<1>8. CASE UNCHANGED timerVars
  BY <1>8 DEF timerVars, readVars, Reading, DelayLasts, Now, Time
<1>9. QED
  BY <1>2, <1>3, <1>4, <1>5, <1>6, <1>7, <1>8 DEF TimerNext, bcm2835_st_read

(* A delay lasts at least as long as asked, for every width of the words    *)
(* of the counter and wherever the reads fall among its ticks.              *)
THEOREM DelaysLast == TimerSpec => []DelayLasts
<1>1. TimerInit => TimerInv
  <2> SUFFICES ASSUME TimerInit PROVE TimerInv
    OBVIOUS
  <2>1. TimerTypeOK
    BY TimerAssumption DEF TimerInit, TimerTypeOK
  <2>2. QED
    BY <2>1, NowIsTime DEF TimerInit, TimerInv, Reading, DelayLasts
<1>2. TimerInv => DelayLasts
  BY DEF TimerInv
<1>3. QED
  BY <1>1, <1>2, TimerStep, PTL DEF TimerSpec
-----------------------------------------------------------------------------
(* I2C calls.                                                              *)
I2cTypeOK ==
  /\ i2c \in {"idle", "write", "started", "read", "rest", "judge"}
  /\ call \in I2cCalls \cup {NoCall}
  /\ remaining \in Nat /\ reason \in {"OK", "NACK", "CLKT", "DATA"}
  /\ txFifo \in Seq(I2cBytes) /\ rxFifo \in Seq(I2cBytes) /\ buf \in Seq(I2cBytes)
  /\ taken \in Seq(I2cBytes) /\ gave \in Seq(I2cBytes)
  /\ DONE \in BOOLEAN /\ ERR \in BOOLEAN /\ CLKT \in BOOLEAN
  /\ moving \in [dir : {"idle", "write", "read"}, len : Nat]
  /\ restart \in [dir : {"idle", "write", "read"}, len : Nat]

(* What the device took, and what waits for it in the FIFO, is the head of *)
(* what the call has to write.                                             *)
Outgoing ==
  /\ Len(taken) + Len(txFifo) <= Len(call.out)
  /\ \A k \in 1..Len(taken) : taken[k] = call.out[k]
  /\ \A k \in 1..Len(txFifo) : txFifo[k] = call.out[Len(taken) + k]

(* What the device gave is in the buffer, or waits behind it in the FIFO,   *)
(* and is no more than was asked for.                                       *)
Incoming ==
  /\ Len(gave) = Len(buf) + Len(rxFifo) /\ Len(gave) <= call.len
  /\ \A k \in 1..Len(buf) : buf[k] = gave[k]
  /\ \A k \in 1..Len(rxFifo) : rxFifo[k] = gave[Len(buf) + k]

Broken == ERR \/ CLKT

(* The controller has as many bytes before it as are missing.  A write that *)
(* is over took every byte or broke off, and a status that says so stays    *)
(* until the next call.                                                     *)
Controlled ==
  /\ moving.dir = "write" =>
       /\ ~DONE /\ i2c \in {"write", "started", "read"} /\ gave = <<>>
       /\ moving.len = Len(call.out) - Len(taken)
  /\ moving.dir # "write" =>
       (Sendable(call) => Broken \/ taken = call.out) /\ restart = Idle0
  /\ moving.dir = "read" => moving.len = call.len - Len(gave)
  /\ restart # Idle0 => i2c = "read" /\ restart = [dir |-> "read", len |-> call.len]

(* The caller counts what it has still to put into the FIFO, or to take     *)
(* from it, and does not leave before the status says that the end came.    *)
Counted ==
  /\ i2c = "write" =>
       call.fn = "write" /\ remaining = Len(call.out) - Len(taken) - Len(txFifo)
  /\ i2c = "judge" => call.fn = "write" /\ DONE
  /\ i2c = "rest" => DONE
  /\ i2c = "started" => moving.dir # "read" /\ restart = Idle0 /\ gave = <<>>
  /\ i2c \in {"read", "rest"} => remaining = call.len - Len(buf)
  /\ call.fn = "write" =>
       moving.dir # "read" /\ restart = Idle0 /\ gave = <<>> /\ i2c # "started"

(* The commands of a repeated start that fit the FIFO are all in it from    *)
(* the start, and leave it only for the device.                             *)
Queued ==
  call.fn = "rs" /\ Sendable(call) => Len(taken) + Len(txFifo) = Len(call.out)

I2cInv ==
  I2cTypeOK /\ Outgoing /\ Incoming /\ Controlled /\ Counted /\ Queued /\ OkMeansAll
-----------------------------------------------------------------------------
(* What the functions are called with.                                      *)
CallOK(c) == /\ c.out \in Seq(I2cBytes) /\ c.len \in Nat
             /\ c.fn = "write" => c.len = 0
             /\ c.fn = "read" => c.out = <<>>

LEMMA CallTypes == \A c \in I2cCalls \cup {NoCall} : CallOK(c)
<1>1. ASSUME NEW c \in I2cCalls PROVE CallOK(c)
  <2>1. c \in [fn : {"write", "read", "rs"}, out : Seq(I2cBytes), len : Nat]
    BY I2cAssumption
  <2>2. c.out \in Seq(I2cBytes) /\ c.len \in Nat
    BY <2>1
  <2>3. QED
    BY <2>2, I2cAssumption DEF CallOK
<1>2. CallOK(NoCall)
  BY DEF NoCall, CallOK
<1>3. QED
  BY <1>1, <1>2

LEMMA InitI2c == I2cInit => I2cInv
<1> SUFFICES ASSUME I2cInit PROVE I2cInv
  OBVIOUS
<1>1. I2cTypeOK
  <2>1. Idle0 \in [dir : {"idle", "write", "read"}, len : Nat]
    BY DEF Idle0
  <2>2. call \in I2cCalls \cup {NoCall}
    BY DEF I2cInit
  <2>3. /\ txFifo \in Seq(I2cBytes) /\ rxFifo \in Seq(I2cBytes)
        /\ buf \in Seq(I2cBytes) /\ taken \in Seq(I2cBytes) /\ gave \in Seq(I2cBytes)
    BY DEF I2cInit
  <2>4. QED
    BY <2>1, <2>2, <2>3 DEF I2cInit, I2cTypeOK
<1>2. /\ call.out = <<>> /\ call.len = 0 /\ call.fn = "none" /\ call = NoCall
      /\ moving.dir = "idle" /\ restart = Idle0
  BY DEF I2cInit, NoCall, Idle0
<1>3. Outgoing /\ Incoming
  BY <1>2 DEF I2cInit, Outgoing, Incoming
<1>4. Controlled /\ Counted /\ Queued /\ OkMeansAll
  BY <1>2 DEF I2cInit, Controlled, Counted, Queued, OkMeansAll
<1>5. QED
  BY <1>1, <1>3, <1>4 DEF I2cInv

(* The end of a write: the device took every byte.                          *)
LEMMA AllTaken ==
  ASSUME I2cTypeOK, Outgoing, Len(taken) = Len(call.out) PROVE taken = call.out
<1>1. taken \in Seq(I2cBytes) /\ call.out \in Seq(I2cBytes)
  BY CallTypes DEF CallOK, I2cTypeOK
<1>2. \A k \in 1..Len(taken) : taken[k] = call.out[k]
  BY DEF Outgoing
<1>3. QED
  BY <1>1, <1>2

LEMMA ShiftOutStep == ASSUME I2cInv, ShiftOut PROVE I2cInv'
<1> USE DEF I2cInv, driverVars, flagVars
<1>t. /\ txFifo \in Seq(I2cBytes) /\ taken \in Seq(I2cBytes) /\ txFifo # <<>>
      /\ call.out \in Seq(I2cBytes)
  BY CallTypes DEF CallOK, I2cTypeOK, ShiftOut
<1>1. /\ taken' = Append(taken, Head(txFifo)) /\ txFifo' = Tail(txFifo)
      /\ UNCHANGED <<call, i2c, remaining, buf, reason, DONE, ERR, CLKT, rxFifo,
                     restart, gave>>
      /\ moving.dir = "write" /\ moving' = [moving EXCEPT !.len = @ - 1]
      /\ moving.len > 0
  BY DEF ShiftOut
<1>2. Len(taken') = Len(taken) + 1 /\ Len(txFifo') = Len(txFifo) - 1
  BY <1>1, <1>t
<1>3. /\ \A k \in 1..Len(taken) : taken'[k] = taken[k]
      /\ taken'[Len(taken) + 1] = txFifo[1]
      /\ \A k \in 1..Len(txFifo') : txFifo'[k] = txFifo[k + 1]
  BY <1>1, <1>2, <1>t
<1>4. I2cTypeOK'
  BY <1>1, <1>t DEF I2cTypeOK
<1>5. Outgoing'
  <2>1. Len(txFifo) \in Nat /\ Len(taken) \in Nat /\ Len(txFifo) >= 1
    BY <1>t
  <2>2. taken'[Len(taken) + 1] = call.out[Len(taken) + 1]
    BY <1>3, <2>1 DEF Outgoing
  <2>3. \A k \in 1..Len(taken') : taken'[k] = call.out[k]
    BY <1>2, <1>3, <2>1, <2>2 DEF Outgoing
  <2>4. \A k \in 1..Len(txFifo') : txFifo'[k] = call.out[Len(taken') + k]
    <3> SUFFICES ASSUME NEW k \in 1..Len(txFifo')
                 PROVE  txFifo'[k] = call.out[Len(taken') + k]
      OBVIOUS
    <3>1. k + 1 \in 1..Len(txFifo) /\ Len(taken') + k = Len(taken) + (k + 1)
      BY <1>2, <2>1
    <3>2. QED
      BY <1>3, <3>1 DEF Outgoing
  <2>5. QED
    BY <1>1, <1>2, <1>t, <2>1, <2>3, <2>4 DEF Outgoing
<1>6. Incoming'
  BY <1>1 DEF Incoming
<1>7. Controlled'
  BY <1>1, <1>2, <1>t DEF Controlled, Broken, I2cTypeOK, Idle0, Sendable
<1>8. Counted'
  BY <1>1, <1>2, <1>t DEF Counted, Controlled, I2cTypeOK
<1>9. OkMeansAll'
  BY <1>1 DEF OkMeansAll, Controlled, Sendable
<1>q. Queued'
  <2>1. Len(taken') + Len(txFifo') = Len(taken) + Len(txFifo)
    BY <1>2, <1>t
  <2>2. QED
    BY <1>1, <2>1 DEF Queued, Sendable
<1>10. QED
  BY <1>q, <1>4, <1>5, <1>6, <1>7, <1>8, <1>9

LEMMA ShiftInStep == ASSUME I2cInv, ShiftIn PROVE I2cInv'
<1> USE DEF I2cInv, driverVars, flagVars
<1>t. /\ rxFifo \in Seq(I2cBytes) /\ gave \in Seq(I2cBytes) /\ buf \in Seq(I2cBytes)
      /\ call.len \in Nat
  BY CallTypes DEF CallOK, I2cTypeOK
<1>1. PICK b \in I2cBytes : rxFifo' = Append(rxFifo, b) /\ gave' = Append(gave, b)
  BY DEF ShiftIn
<1>2. /\ UNCHANGED <<call, i2c, remaining, buf, reason, DONE, ERR, CLKT, txFifo,
                     restart, taken>>
      /\ moving.dir = "read" /\ moving' = [moving EXCEPT !.len = @ - 1]
      /\ moving.len > 0
  BY DEF ShiftIn
<1>3. Len(gave') = Len(gave) + 1 /\ Len(rxFifo') = Len(rxFifo) + 1
  BY <1>1, <1>t
<1>4. I2cTypeOK'
  <2>1. rxFifo' \in Seq(I2cBytes) /\ gave' \in Seq(I2cBytes)
    BY <1>1, <1>t
  <2>2. moving' \in [dir : {"idle", "write", "read"}, len : Nat]
    <3>1. moving \in [dir : {"idle", "write", "read"}, len : Nat] /\ moving.len - 1 \in Nat
      BY <1>2 DEF I2cTypeOK
    <3>2. QED
      BY <1>2, <3>1
  <2>3. QED
    BY <1>2, <2>1, <2>2 DEF I2cTypeOK
<1>5. Outgoing'
  BY <1>2 DEF Outgoing
<1>6. Incoming'
  <2>1. Len(gave) < call.len
    BY <1>2, <1>t DEF Controlled, I2cTypeOK
  <2>2. /\ \A k \in 1..Len(gave) : gave'[k] = gave[k]
        /\ \A k \in 1..Len(rxFifo) : rxFifo'[k] = rxFifo[k]
        /\ gave'[Len(gave) + 1] = b /\ rxFifo'[Len(rxFifo) + 1] = b
    BY <1>1, <1>t
  <2>3. \A k \in 1..Len(buf) : buf[k] = gave'[k]
    BY <1>t, <2>2 DEF Incoming
  <2>4. \A k \in 1..Len(rxFifo') : rxFifo'[k] = gave'[Len(buf) + k]
    <3> SUFFICES ASSUME NEW k \in 1..Len(rxFifo')
                 PROVE  rxFifo'[k] = gave'[Len(buf) + k]
      OBVIOUS
    <3>1. CASE k = Len(rxFifo) + 1
      <4>1. Len(buf) + k = Len(gave) + 1
        BY <1>t, <3>1 DEF Incoming
      <4>2. QED
        BY <2>2, <3>1, <4>1
    <3>2. CASE k # Len(rxFifo) + 1
      <4>1. k \in 1..Len(rxFifo) /\ Len(buf) + k \in 1..Len(gave)
        BY <1>3, <1>t, <3>2 DEF Incoming
      <4>2. QED
        BY <2>2, <4>1 DEF Incoming
    <3>3. QED
      BY <3>1, <3>2
  <2>5. QED
    BY <1>2, <1>3, <1>t, <2>1, <2>3, <2>4 DEF Incoming
<1>7. Controlled'
  BY <1>2, <1>3, <1>t DEF Controlled, Broken, I2cTypeOK, Idle0, Sendable
<1>8. Counted'
  BY <1>2 DEF Counted, Controlled, I2cTypeOK
<1>9. OkMeansAll'
  BY <1>2, <1>t DEF OkMeansAll, Controlled, I2cTypeOK, Sendable
<1>q. Queued'
  BY <1>2 DEF Queued, Sendable
<1>10. QED
  BY <1>q, <1>4, <1>5, <1>6, <1>7, <1>8, <1>9

(* The controller ends a transfer, in success or not.                       *)
LEMMA EndStep == ASSUME I2cInv, Finish \/ Fail PROVE I2cInv'
<1> USE DEF I2cInv, driverVars, fifoVars
<1>1. /\ UNCHANGED <<call, i2c, remaining, buf, reason, txFifo, rxFifo, taken, gave>>
      /\ restart' = Idle0 /\ moving' \in {restart, Idle0}
      /\ Broken => Broken'
  BY DEF Finish, Fail, Broken
<1>2. Idle0 \in [dir : {"idle", "write", "read"}, len : Nat] /\ Idle0.dir = "idle"
  BY DEF Idle0
<1>3. DONE' \in BOOLEAN /\ ERR' \in BOOLEAN /\ CLKT' \in BOOLEAN
  BY DEF Finish, Fail, I2cTypeOK
<1>4. I2cTypeOK'
  BY <1>1, <1>2, <1>3 DEF I2cTypeOK
<1>5. Outgoing' /\ Incoming' /\ OkMeansAll'
  BY <1>1 DEF Outgoing, Incoming, OkMeansAll, Sendable
<1>6. Sendable(call) => Broken' \/ taken = call.out
  <2>1. CASE moving.dir # "write"
    BY <1>1, <2>1 DEF Controlled
  <2>2. CASE moving.dir = "write" /\ Finish
    <3>1. Len(taken) = Len(call.out)
      <4>1. Len(call.out) \in Nat /\ Len(taken) \in Nat
        BY CallTypes DEF CallOK, I2cTypeOK
      <4>2. QED
        BY <2>2, <4>1 DEF Finish, Controlled
    <3>2. QED
      BY <3>1, AllTaken
  <2>3. CASE Fail
    BY <2>3 DEF Fail, Broken
  <2>4. QED
    BY <2>1, <2>2, <2>3
<1>7. moving'.dir # "write" /\ (moving'.dir = "read" => moving'.len = call.len - Len(gave))
  <2>1. CASE moving' = Idle0
    BY <1>2, <2>1
  <2>2. CASE moving' = restart /\ restart # Idle0
    <3>1. moving.dir = "write" /\ restart = [dir |-> "read", len |-> call.len]
      BY <2>2 DEF Controlled
    <3>2. gave = <<>> /\ call.len \in Nat
      BY <3>1, CallTypes DEF Controlled, CallOK, I2cTypeOK
    <3>3. QED
      BY <2>2, <3>1, <3>2
  <2>3. QED
    BY <1>1, <2>1, <2>2
<1>8. Controlled'
  BY <1>1, <1>6, <1>7 DEF Controlled, Sendable
<1>9. Counted'
  <2>1. DONE => DONE'
    BY DEF Finish, Fail
  <2>2. moving'.dir = "read" => restart # Idle0
    BY <1>1, <1>2
  <2>3. QED
    BY <1>1, <2>1, <2>2, <1>7 DEF Counted, Controlled
<1>q. Queued'
  BY <1>1 DEF Queued, Sendable
<1>10. QED
  BY <1>q, <1>4, <1>5, <1>8, <1>9

(* The controller gives up a write only when its call had more commands     *)
(* than the driver puts into the FIFO.                                      *)
LEMMA StarveStep == ASSUME I2cInv, Starve PROVE I2cInv'
<1> USE DEF I2cInv, driverVars, fifoVars, flagVars
<1>t. /\ taken \in Seq(I2cBytes) /\ call.out \in Seq(I2cBytes) /\ call.len \in Nat
      /\ call.fn \in {"read", "none"} => call.out = <<>>
      /\ call.fn \in {"write", "read", "rs", "none"}
  <2>1. CASE call = NoCall
    BY <2>1, CallTypes DEF CallOK, I2cTypeOK, NoCall
  <2>2. CASE call \in I2cCalls
    <3>1. call.fn \in {"write", "read", "rs"}
      BY <2>2, I2cAssumption
    <3>2. QED
      BY <2>2, <3>1, CallTypes DEF CallOK, I2cTypeOK
  <2>3. QED
    BY <2>1, <2>2 DEF I2cTypeOK
<1>1. /\ UNCHANGED <<call, i2c, remaining, buf, reason, txFifo, rxFifo, DONE, ERR, CLKT,
                     taken, gave>>
      /\ moving.dir = "write" /\ moving.len > 0 /\ txFifo = <<>>
      /\ i2c = "read" /\ restart = [dir |-> "read", len |-> call.len]
      /\ moving' = restart /\ restart' = Idle0 /\ gave = <<>>
  BY DEF Starve, Controlled
<1>2. ~Sendable(call)
  <2> SUFFICES ASSUME Sendable(call) PROVE FALSE
    OBVIOUS
  <2>1. Len(taken) < Len(call.out)
    BY <1>1, <1>t DEF Controlled
  <2>2. CASE call.fn = "rs"
    BY <1>1, <1>t, <2>1, <2>2 DEF Queued
  <2>3. CASE call.fn \in {"read", "none"}
    BY <1>t, <2>1, <2>3
  <2>4. CASE call.fn = "write"
    BY <1>1, <2>4 DEF Counted, Idle0
  <2>5. QED
    BY <1>t, <2>2, <2>3, <2>4
<1>3. I2cTypeOK'
  BY <1>1 DEF I2cTypeOK, Idle0
<1>4. Outgoing' /\ Incoming' /\ Queued' /\ OkMeansAll'
  BY <1>1, <1>2 DEF Outgoing, Incoming, Queued, OkMeansAll, Sendable
<1>5. Controlled' /\ Counted'
  BY <1>1, <1>2, <1>t DEF Controlled, Counted, Broken, Sendable
<1>6. QED
  BY <1>3, <1>4, <1>5

LEMMA BeginStep ==
  ASSUME I2cInv, NEW c \in I2cCalls, Begin(c) PROVE I2cInv'
<1> USE DEF I2cInv
<1>t. /\ c.out \in Seq(I2cBytes) /\ c.len \in Nat /\ c.fn \in {"write", "read", "rs"}
      /\ c.fn = "read" => c.out = <<>>
      /\ I2cFifo \in Nat
  <2>1. CallOK(c) /\ I2cFifo \in Nat
    BY CallTypes, I2cAssumption
  <2>2. c.fn \in {"write", "read", "rs"}
    BY I2cAssumption
  <2>3. QED
    BY <2>1, <2>2 DEF CallOK
<1>a. Ahead(c) \in 0..Len(c.out) /\ (c.fn = "rs" /\ Sendable(c) => Ahead(c) = Len(c.out))
  BY <1>t DEF Ahead, Sendable
<1>1. /\ call' = c /\ txFifo' = SubSeq(c.out, 1, Ahead(c)) /\ rxFifo' = <<>>
      /\ DONE' = FALSE /\ ERR' = FALSE /\ CLKT' = FALSE
      /\ buf' = <<>> /\ reason' = "OK" /\ taken' = <<>> /\ gave' = <<>>
      /\ restart' = restart /\ restart = Idle0
      /\ moving.dir = "idle"
  BY DEF Begin, TA, Controlled
<1>2. /\ Len(txFifo') = Ahead(c) /\ txFifo' \in Seq(I2cBytes)
      /\ \A k \in 1..Ahead(c) : txFifo'[k] = c.out[k]
  BY <1>1, <1>a, <1>t
<1>3. /\ moving' = IF c.fn = "read" THEN [dir |-> "read", len |-> c.len]
                   ELSE [dir |-> "write", len |-> Len(c.out)]
      /\ remaining' = IF c.fn = "read" THEN c.len ELSE Len(c.out) - Ahead(c)
      /\ i2c' = IF c.fn = "rs" THEN "started" ELSE c.fn
  BY DEF Begin
<1>4. I2cTypeOK'
  <2>1. moving' \in [dir : {"idle", "write", "read"}, len : Nat] /\ remaining' \in Nat
    BY <1>3, <1>t, <1>a
  <2>2. i2c' \in {"idle", "write", "started", "read", "rest", "judge"}
    BY <1>3, <1>t
  <2>3. call' \in I2cCalls \cup {NoCall} /\ reason' \in {"OK", "NACK", "CLKT", "DATA"}
    BY <1>1
  <2>4. /\ <<>> \in Seq(I2cBytes) /\ rxFifo' = <<>> /\ buf' = <<>>
        /\ taken' = <<>> /\ gave' = <<>>
    BY <1>1
  <2>5. /\ DONE' \in BOOLEAN /\ ERR' \in BOOLEAN /\ CLKT' \in BOOLEAN
        /\ restart' \in [dir : {"idle", "write", "read"}, len : Nat]
    BY <1>1 DEF I2cTypeOK
  <2>6. QED
    BY <1>2, <2>1, <2>2, <2>3, <2>4, <2>5 DEF I2cTypeOK
<1>5. Outgoing' /\ Incoming'
  BY <1>1, <1>2, <1>a, <1>t DEF Outgoing, Incoming
<1>6. Controlled'
  BY <1>1, <1>3, <1>t DEF Controlled, Sendable
<1>7. Counted'
  BY <1>1, <1>2, <1>3, <1>t, <1>a DEF Counted
<1>8. OkMeansAll'
  BY <1>3, <1>t DEF OkMeansAll
<1>q. Queued'
  BY <1>1, <1>2, <1>a, <1>t DEF Queued, Sendable
<1>9. QED
  BY <1>q, <1>4, <1>5, <1>6, <1>7, <1>8

LEMMA WriteStep == ASSUME I2cInv, Write PROVE I2cInv'
<1> USE DEF I2cInv, flagVars, busVars
<1>t. /\ txFifo \in Seq(I2cBytes) /\ taken \in Seq(I2cBytes)
      /\ call.out \in Seq(I2cBytes) /\ remaining \in Nat /\ remaining > 0
  BY CallTypes DEF CallOK, I2cTypeOK, Write
<1>1. /\ i2c = "write" /\ remaining' = remaining - 1
      /\ UNCHANGED <<call, i2c, buf, reason, rxFifo, DONE, ERR, CLKT, moving,
                     restart, taken, gave>>
      /\ remaining = Len(call.out) - Len(taken) - Len(txFifo)
  BY DEF Write, Counted
<1> DEFINE n == Len(taken) + Len(txFifo) + 1
<1>2. n \in 1..Len(call.out) /\ n = Len(call.out) - remaining + 1
  <2>1. Len(call.out) \in Nat /\ Len(taken) \in Nat /\ Len(txFifo) \in Nat
    BY <1>t
  <2>2. Len(taken) + Len(txFifo) = Len(call.out) - remaining
    <3>1. remaining = Len(call.out) - Len(taken) - Len(txFifo)
      BY <1>1
    <3>2. \A a, b, c \in Nat : b + c = a - (a - b - c)
      OBVIOUS
    <3>3. QED
      BY <2>1, <3>1, <3>2
  <2>3. n = Len(call.out) - remaining + 1
    BY <2>2
  <2>4. n \in 1..Len(call.out)
    BY <1>t, <2>1, <2>2
  <2>5. QED
    BY <2>3, <2>4
<1>3. txFifo' = Append(txFifo, call.out[n]) /\ call.out[n] \in I2cBytes
  BY <1>2, <1>t DEF Write
<1>4. /\ Len(txFifo') = Len(txFifo) + 1 /\ txFifo' \in Seq(I2cBytes)
      /\ \A k \in 1..Len(txFifo) : txFifo'[k] = txFifo[k]
      /\ txFifo'[Len(txFifo) + 1] = call.out[n]
  BY <1>3, <1>t
<1>5. I2cTypeOK'
  BY <1>1, <1>4, <1>t DEF I2cTypeOK
<1>6. Outgoing'
  <2>1. \A k \in 1..Len(txFifo') : txFifo'[k] = call.out[Len(taken) + k]
    <3> SUFFICES ASSUME NEW k \in 1..Len(txFifo')
                 PROVE  txFifo'[k] = call.out[Len(taken) + k]
      OBVIOUS
    <3>1. CASE k = Len(txFifo) + 1
      <4>1. Len(taken) + k = n
        BY <1>t, <3>1
      <4>2. QED
        BY <1>4, <3>1, <4>1
    <3>2. CASE k # Len(txFifo) + 1
      <4>1. k \in 1..Len(txFifo)
        BY <1>4, <1>t, <3>2
      <4>2. QED
        BY <1>4, <4>1 DEF Outgoing
    <3>3. QED
      BY <3>1, <3>2
  <2>2. QED
    BY <1>1, <1>2, <1>4, <1>t, <2>1 DEF Outgoing
<1>7. Incoming' /\ Controlled' /\ OkMeansAll'
  BY <1>1 DEF Incoming, Controlled, OkMeansAll, Broken, Sendable
<1>8. Counted'
  BY <1>1, <1>4, <1>t DEF Counted
<1>q. Queued'
  BY <1>1, <1>4, <1>t DEF Queued, Sendable, Counted
<1>9. QED
  BY <1>q, <1>5, <1>6, <1>7, <1>8

LEMMA RepeatStep == ASSUME I2cInv, RepeatStart PROVE I2cInv'
<1> USE DEF I2cInv, fifoVars, flagVars
<1>t. call.len \in Nat
  BY CallTypes DEF CallOK, I2cTypeOK
<1>1. /\ i2c = "started" /\ i2c' = "read" /\ remaining' = call.len
      /\ UNCHANGED <<call, buf, reason, txFifo, rxFifo, DONE, ERR, CLKT, taken, gave>>
      /\ gave = <<>> /\ restart = Idle0 /\ moving.dir # "read" /\ call.fn # "write"
  BY DEF RepeatStart, Counted
<1>2. buf = <<>>
  <2>1. Len(buf) = 0 /\ buf \in Seq(I2cBytes)
    BY <1>1 DEF Incoming, I2cTypeOK
  <2>2. QED
    BY <2>1
<1> DEFINE again == [dir |-> "read", len |-> call.len]
<1>3. \/ moving.dir = "write" /\ moving' = moving /\ restart' = again
      \/ moving.dir = "idle" /\ moving' = again /\ restart' = restart
  BY <1>1 DEF RepeatStart, StartRead, TA, I2cTypeOK
<1>4. again \in [dir : {"idle", "write", "read"}, len : Nat]
  BY <1>t
<1>5. I2cTypeOK'
  BY <1>1, <1>3, <1>4, <1>t DEF I2cTypeOK
<1>6. Outgoing' /\ Incoming' /\ OkMeansAll'
  BY <1>1 DEF Outgoing, Incoming, OkMeansAll, Sendable
<1>7. Controlled'
  BY <1>1, <1>3, <1>t DEF Controlled, Broken, Sendable
<1>8. Counted'
  BY <1>1, <1>2, <1>t DEF Counted
<1>q. Queued'
  BY <1>1 DEF Queued, Sendable
<1>9. QED
  BY <1>q, <1>5, <1>6, <1>7, <1>8

LEMMA DrainStep == ASSUME I2cInv, Drain \/ Rest PROVE I2cInv'
<1> USE DEF I2cInv, flagVars, busVars
<1>t. /\ rxFifo \in Seq(I2cBytes) /\ buf \in Seq(I2cBytes) /\ gave \in Seq(I2cBytes)
      /\ rxFifo # <<>> /\ call.len \in Nat /\ remaining \in Nat /\ remaining > 0
  BY CallTypes DEF CallOK, I2cTypeOK, Drain, Rest, I2cRXD
<1>1. /\ i2c \in {"read", "rest"} /\ remaining' = remaining - 1
      /\ buf' = Append(buf, Head(rxFifo)) /\ rxFifo' = Tail(rxFifo)
      /\ UNCHANGED <<call, i2c, reason, txFifo, DONE, ERR, CLKT, moving, restart,
                     taken, gave>>
  BY DEF Drain, Rest, DrainByte
<1>2. /\ Len(buf') = Len(buf) + 1 /\ Len(rxFifo') = Len(rxFifo) - 1
      /\ buf' \in Seq(I2cBytes) /\ rxFifo' \in Seq(I2cBytes)
  BY <1>1, <1>t
<1>3. /\ \A k \in 1..Len(buf) : buf'[k] = buf[k]
      /\ buf'[Len(buf) + 1] = rxFifo[1]
      /\ \A k \in 1..Len(rxFifo') : rxFifo'[k] = rxFifo[k + 1]
  BY <1>1, <1>2, <1>t
<1>4. I2cTypeOK'
  BY <1>1, <1>2, <1>t DEF I2cTypeOK
<1>5. Outgoing' /\ Controlled' /\ OkMeansAll'
  BY <1>1 DEF Outgoing, Controlled, OkMeansAll, Broken, Sendable
<1>6. Incoming'
  <2>1. Len(rxFifo) \in Nat /\ Len(buf) \in Nat /\ Len(rxFifo) >= 1
    BY <1>t
  <2>2. buf'[Len(buf) + 1] = gave[Len(buf) + 1]
    BY <1>3, <2>1 DEF Incoming
  <2>3. \A k \in 1..Len(buf') : buf'[k] = gave[k]
    <3> SUFFICES ASSUME NEW k \in 1..Len(buf') PROVE buf'[k] = gave[k]
      OBVIOUS
    <3>1. k \in 1..Len(buf) \/ k = Len(buf) + 1
      BY <1>2, <2>1
    <3>2. QED
      BY <1>3, <2>2, <3>1 DEF Incoming
  <2>4. \A k \in 1..Len(rxFifo') : rxFifo'[k] = gave[Len(buf') + k]
    <3> SUFFICES ASSUME NEW k \in 1..Len(rxFifo')
                 PROVE  rxFifo'[k] = gave[Len(buf') + k]
      OBVIOUS
    <3>1. k + 1 \in 1..Len(rxFifo) /\ Len(buf') + k = Len(buf) + (k + 1)
      BY <1>2, <2>1
    <3>2. QED
      BY <1>3, <3>1 DEF Incoming
  <2>5. Len(gave') = Len(buf') + Len(rxFifo') /\ Len(gave') <= call'.len
    <3>1. Len(gave) = Len(buf) + Len(rxFifo) /\ Len(gave) <= call.len
      BY DEF Incoming
    <3>2. gave' = gave /\ call' = call
      BY <1>1
    <3>3. QED
      BY <1>2, <2>1, <3>1, <3>2
  <2>6. QED
    BY <1>1, <2>3, <2>4, <2>5 DEF Incoming
<1>7. Counted'
  <2>1. Len(buf) \in Nat /\ remaining = call.len - Len(buf)
    BY <1>1, <1>t DEF Counted
  <2>2. remaining' = call.len - Len(buf')
    BY <1>1, <1>2, <1>t, <2>1
  <2>3. i2c' \notin {"write", "started", "judge"}
    BY <1>1
  <2>4. QED
    BY <1>1, <2>2, <2>3 DEF Counted
<1>q. Queued'
  BY <1>1 DEF Queued, Sendable
<1>8. QED
  BY <1>q, <1>4, <1>5, <1>6, <1>7

(* A call ends only when its transfer has, and a reason of OK leaves nothing*)
(* missing.                                                                 *)
LEMMA ReturnStep == ASSUME I2cInv, SeeEnd \/ Return PROVE I2cInv'
<1> USE DEF I2cInv, fifoVars, flagVars, busVars
<1>t. /\ gave \in Seq(I2cBytes) /\ buf \in Seq(I2cBytes) /\ rxFifo \in Seq(I2cBytes)
      /\ call.len \in Nat /\ remaining \in Nat /\ (call.fn = "write" => call.len = 0)
  BY CallTypes DEF CallOK, I2cTypeOK
<1>1. UNCHANGED <<call, remaining, buf, txFifo, rxFifo, DONE, ERR, CLKT, moving,
                  restart, taken, gave>>
  BY DEF SeeEnd, Return
<1>2. /\ DONE /\ moving.dir # "write"
      /\ i2c' \in {"judge", "rest", "idle"} /\ reason' \in {"OK", "NACK", "CLKT", "DATA"}
  BY DEF SeeEnd, Return, Judged, Counted, Controlled, I2cTypeOK
<1>3. I2cTypeOK'
  BY <1>1, <1>2 DEF I2cTypeOK
<1>4. Outgoing' /\ Incoming'
  BY <1>1 DEF Outgoing, Incoming
<1>5. Controlled'
  BY <1>1, <1>2 DEF Controlled, Broken, Sendable
<1>6. Counted'
  BY <1>1, <1>2 DEF Counted, SeeEnd, Return
<1>7. OkMeansAll'
  <2>1. CASE SeeEnd
    BY <2>1 DEF SeeEnd, OkMeansAll
  <2>2. CASE Return /\ reason' = "OK" /\ Sendable(call)
    <3>1. remaining = 0 /\ ~Broken
      BY <2>2, <1>t DEF Return, Judged, Broken
    <3>2. taken = call.out
      BY <1>2, <2>2, <3>1 DEF Controlled
    <3>3. Len(buf) = call.len /\ Len(gave) = Len(buf)
      <4>1. CASE i2c = "judge"
        BY <1>t, <4>1 DEF Counted, Incoming
      <4>2. CASE i2c = "rest"
        BY <1>t, <3>1, <4>2 DEF Counted, Incoming
      <4>3. QED
        BY <2>2, <4>1, <4>2 DEF Return
    <3>4. buf = gave
      BY <1>t, <3>3 DEF Incoming
    <3>5. QED
      BY <1>1, <3>2, <3>3, <3>4 DEF OkMeansAll
  <2>3. QED
    BY <1>1, <2>1, <2>2 DEF OkMeansAll, Sendable
<1>q. Queued'
  BY <1>1 DEF Queued, Sendable
<1>8. QED
  BY <1>q, <1>3, <1>4, <1>5, <1>6, <1>7

LEMMA I2cStep == I2cInv /\ [I2cNext]_i2cVars => I2cInv'
<1>1. ASSUME I2cInv, UNCHANGED i2cVars PROVE I2cInv'
  <2>1. UNCHANGED <<i2c, call, remaining, buf, reason, txFifo, rxFifo, DONE, ERR,
                    CLKT, moving, restart, taken, gave>>
    BY <1>1 DEF i2cVars, driverVars, fifoVars, flagVars, busVars
  <2>2. I2cTypeOK' /\ Outgoing' /\ Incoming'
    BY <1>1, <2>1 DEF I2cInv, I2cTypeOK, Outgoing, Incoming
  <2>3. Controlled' /\ Counted' /\ Queued' /\ OkMeansAll'
    BY <1>1, <2>1 DEF I2cInv, Controlled, Counted, Queued, OkMeansAll, Broken, Sendable
  <2>4. QED
    BY <2>2, <2>3 DEF I2cInv
<1>2. QED
  BY <1>1, ShiftOutStep, ShiftInStep, EndStep, StarveStep, BeginStep, WriteStep, RepeatStep,
     DrainStep, ReturnStep DEF I2cNext, Controller, Driver

(* An I2C call that returns OK moved every byte, however late the caller    *)
(* polls and wherever the device refuses or stretches the clock: a write or *)
(* a read of any length, and a repeated start whose commands fit the FIFO,  *)
(* of any depth (the code loses those beyond it, bcm2835.c:1079).           *)
THEOREM OkCallsAreComplete == I2cSpec => []OkMeansAll
<1>1. I2cInv => OkMeansAll
  BY DEF I2cInv
<1>2. QED
  BY <1>1, InitI2c, I2cStep, PTL DEF I2cSpec
-----------------------------------------------------------------------------
(* SPI: the set-up of the board.                                            *)
SetUpFn   == {"init", "fsel", "write", "set_pud", "begin", "MODE", "CHIP", "POL"}
SetUpArg  == {0, 1, "OUTP", "INPT", "DOWN", "ALT0"}
SetUpCall == [fn : SetUpFn, pin : 0..25, arg : SetUpArg]

(* The pins that a transfer needs, and what they must be.                   *)
Needed   == {2, 3, 4, 9, 10, 11}
Right(q) == IF q \in {2, 3, 4} THEN "OUTP" ELSE "ALT0"

(* No call undoes what a transfer needs.                                    *)
Fits(c) ==
  /\ c.fn = "fsel" => c.arg \in {"OUTP", "INPT", "ALT0"}
  /\ c.fn = "fsel" /\ c.pin \in Needed => c.arg = Right(c.pin)
  /\ c.fn = "MODE" => c.arg = 1
  /\ c.fn \in {"CHIP", "POL", "write"} => c.arg = 0

AllFit(s)  == s \in Seq(SetUpCall) /\ \A k \in 1..Len(s) : Fits(s[k])
Sets(s, q) == \E k \in 1..Len(s) : s[k].fn = "fsel" /\ s[k].pin = q

LEMMA ConcatCalls ==
  ASSUME NEW s \in Seq(SetUpCall), NEW t \in Seq(SetUpCall)
  PROVE  /\ s \o t \in Seq(SetUpCall) /\ Len(s \o t) = Len(s) + Len(t)
         /\ \A k \in 1..Len(s) : (s \o t)[k] = s[k]
         /\ \A k \in 1..Len(t) : (s \o t)[Len(s) + k] = t[k]
  OBVIOUS

LEMMA Joined ==
  ASSUME NEW s, NEW t, AllFit(s), AllFit(t)
  PROVE  /\ AllFit(s \o t)
         /\ \A q : Sets(s, q) \/ Sets(t, q) => Sets(s \o t, q)
<1>1. s \in Seq(SetUpCall) /\ t \in Seq(SetUpCall)
  BY DEF AllFit
<1>2. /\ s \o t \in Seq(SetUpCall) /\ Len(s \o t) = Len(s) + Len(t)
      /\ \A k \in 1..Len(s) : (s \o t)[k] = s[k]
      /\ \A k \in 1..Len(t) : (s \o t)[Len(s) + k] = t[k]
  BY <1>1, ConcatCalls
<1>3. Len(s) \in Nat /\ Len(t) \in Nat
  BY <1>1
<1> DEFINE u == s \o t
<1> HIDE DEF u
<1>4. \A k \in 1..Len(u) : Fits(u[k])
  <2> SUFFICES ASSUME NEW k \in 1..Len(u) PROVE Fits(u[k])
    OBVIOUS
  <2>1. CASE k \in 1..Len(s)
    BY <1>2, <2>1 DEF AllFit, u
  <2>2. CASE k \notin 1..Len(s)
    <3>1. k - Len(s) \in 1..Len(t) /\ Len(s) + (k - Len(s)) = k
      BY <1>2, <1>3, <2>2 DEF u
    <3>2. u[k] = t[k - Len(s)]
      BY <1>2, <3>1 DEF u
    <3>3. QED
      BY <3>1, <3>2 DEF AllFit
  <2>3. QED
    BY <2>1, <2>2
<1>5. ASSUME NEW q, Sets(s, q) \/ Sets(t, q) PROVE Sets(u, q)
  <2>1. CASE Sets(s, q)
    <3>1. PICK k \in 1..Len(s) : s[k].fn = "fsel" /\ s[k].pin = q
      BY <2>1 DEF Sets
    <3>2. k \in 1..Len(u) /\ u[k] = s[k]
      BY <1>2, <1>3 DEF u
    <3>3. QED
      BY <3>1, <3>2 DEF Sets
  <2>2. CASE Sets(t, q)
    <3>1. PICK k \in 1..Len(t) : t[k].fn = "fsel" /\ t[k].pin = q
      BY <2>2 DEF Sets
    <3>2. Len(s) + k \in 1..Len(u) /\ u[Len(s) + k] = t[k]
      BY <1>2, <1>3 DEF u
    <3>3. QED
      BY <3>1, <3>2 DEF Sets
  <2>3. QED
    BY <1>5, <2>1, <2>2
<1>6. QED
  BY <1>2, <1>4, <1>5 DEF AllFit, u

LEMMA DoIs ==
  ASSUME NEW fn \in SetUpFn, NEW pins \in Seq(0..25), NEW arg \in SetUpArg
  PROVE  /\ Do(fn, pins, arg) \in Seq(SetUpCall) /\ Len(Do(fn, pins, arg)) = Len(pins)
         /\ \A k \in 1..Len(pins) :
              Do(fn, pins, arg)[k] = [fn |-> fn, pin |-> pins[k], arg |-> arg]
<1>1. \A k \in 1..Len(pins) : [fn |-> fn, pin |-> pins[k], arg |-> arg] \in SetUpCall
  BY DEF SetUpCall
<1>2. Len(pins) \in Nat
  OBVIOUS
<1>3. QED
  BY <1>1, <1>2 DEF Do

(* Calls that a transfer does not depend on, or that give what it needs.    *)
LEMMA DoFits ==
  ASSUME NEW fn \in SetUpFn, NEW pins \in Seq(0..25), NEW arg \in SetUpArg,
         \A k \in 1..Len(pins) : Fits([fn |-> fn, pin |-> pins[k], arg |-> arg])
  PROVE  /\ AllFit(Do(fn, pins, arg))
         /\ fn = "fsel" => \A k \in 1..Len(pins) : Sets(Do(fn, pins, arg), pins[k])
<1>1. /\ Do(fn, pins, arg) \in Seq(SetUpCall) /\ Len(Do(fn, pins, arg)) = Len(pins)
      /\ \A k \in 1..Len(pins) :
           Do(fn, pins, arg)[k] = [fn |-> fn, pin |-> pins[k], arg |-> arg]
  BY DoIs
<1> DEFINE d == Do(fn, pins, arg)
<1>2. d \in Seq(SetUpCall) /\ Len(d) = Len(pins)
  BY <1>1
<1>3. \A k \in 1..Len(pins) : d[k] = [fn |-> fn, pin |-> pins[k], arg |-> arg]
  BY <1>1
<1> HIDE DEF d
<1>4. AllFit(d)
  BY <1>2, <1>3 DEF AllFit
<1>5. ASSUME fn = "fsel", NEW k \in 1..Len(pins) PROVE Sets(d, pins[k])
  <2>1. d[k] = [fn |-> fn, pin |-> pins[k], arg |-> arg]
    BY <1>3
  <2>2. d[k].fn = "fsel" /\ d[k].pin = pins[k]
    BY <1>5, <2>1
  <2>3. k \in 1..Len(d)
    BY <1>2
  <2>4. QED
    BY <2>2, <2>3 DEF Sets
<1>6. QED
  BY <1>4, <1>5 DEF d

(* The set-up leaves the pins and the settings as a transfer needs them:    *)
(* every pin is set, and the settings are made after the last reset.        *)
LEMMA GpioFits ==
  AllFit(init_gpio) /\ \A q \in {2, 3, 4} : Sets(init_gpio, q)
<1> DEFINE a == Do("init", <<0>>, 1)
           f == <<2, 2, 3, 4, 13, 6, 5, 21, 4>>
           b == Do("fsel", f, "OUTP")
           c == Do("write", <<13, 6, 5, 21>>, 0)
           d == Do("fsel", Slave_itr, "INPT")
           e == Do("set_pud", Slave_itr, "DOWN")
           g == Do("fsel", <<20>>, "OUTP")
           h == Do("write", <<20>>, 0)
<1>1. /\ <<0>> \in Seq(0..25) /\ f \in Seq(0..25) /\ <<13, 6, 5, 21>> \in Seq(0..25)
      /\ Slave_itr \in Seq(0..25) /\ <<20>> \in Seq(0..25)
      /\ Len(f) = 9 /\ Len(Slave_itr) = 8 /\ Len(<<20>>) = 1
  BY DEF Slave_itr
<1>2. /\ {"init", "fsel", "write", "set_pud"} \subseteq SetUpFn
      /\ {0, 1, "OUTP", "INPT", "DOWN"} \subseteq SetUpArg
  BY DEF SetUpFn, SetUpArg
<1>3. AllFit(a) /\ AllFit(c) /\ AllFit(e) /\ AllFit(h)
  <2>1. \A v : Fits([fn |-> "init", pin |-> v, arg |-> 1])
    BY DEF Fits
  <2>2. \A v : Fits([fn |-> "write", pin |-> v, arg |-> 0])
    BY DEF Fits
  <2>3. \A v : Fits([fn |-> "set_pud", pin |-> v, arg |-> "DOWN"])
    BY DEF Fits
  <2>4. QED
    BY <1>1, <1>2, <2>1, <2>2, <2>3, DoFits
<1>4. AllFit(b) /\ \A k \in 1..Len(f) : Sets(b, f[k])
  <2>1. \A k \in 1..Len(f) : f[k] \notin {9, 10, 11}
    BY <1>1
  <2>2. \A v : v \notin {9, 10, 11} => Fits([fn |-> "fsel", pin |-> v, arg |-> "OUTP"])
    BY DEF Fits, Right, Needed
  <2> HIDE DEF f
  <2>3. QED
    BY <1>1, <1>2, <2>1, <2>2, DoFits
<1>5. AllFit(d) /\ AllFit(g)
  <2>1. \A k \in 1..Len(Slave_itr) : Slave_itr[k] \notin Needed
    BY <1>1 DEF Slave_itr, Needed
  <2>2. \A v : v \notin Needed => /\ Fits([fn |-> "fsel", pin |-> v, arg |-> "INPT"])
                                  /\ Fits([fn |-> "fsel", pin |-> v, arg |-> "OUTP"])
    BY DEF Fits
  <2>3. \A k \in 1..Len(<<20>>) : <<20>>[k] \notin Needed
    BY DEF Needed
  <2>4. AllFit(d)
    BY <1>1, <1>2, <2>1, <2>2, DoFits
  <2>5. AllFit(g)
    BY <1>1, <1>2, <2>2, <2>3, DoFits
  <2>6. QED
    BY <2>4, <2>5
<1>6. Sets(b, 2) /\ Sets(b, 3) /\ Sets(b, 4)
  <2>1. 1 \in 1..Len(f) /\ 3 \in 1..Len(f) /\ 4 \in 1..Len(f) /\ f[1] = 2 /\ f[3] = 3 /\ f[4] = 4
    BY <1>1
  <2> HIDE DEF f, b
  <2>2. QED
    BY <1>4, <2>1
<1>7. init_gpio = a \o b \o c \o d \o e \o g \o h
  BY DEF init_gpio
<1> HIDE DEF a, b, c, d, e, g, h
<1>8. AllFit(a \o b) /\ \A q \in {2, 3, 4} : Sets(a \o b, q)
  BY <1>3, <1>4, <1>6, Joined
<1>9. AllFit(a \o b \o c) /\ \A q \in {2, 3, 4} : Sets(a \o b \o c, q)
  BY <1>3, <1>8, Joined
<1>10. AllFit(a \o b \o c \o d) /\ \A q \in {2, 3, 4} : Sets(a \o b \o c \o d, q)
  BY <1>5, <1>9, Joined
<1>11. AllFit(a \o b \o c \o d \o e) /\ \A q \in {2, 3, 4} : Sets(a \o b \o c \o d \o e, q)
  BY <1>3, <1>10, Joined
<1>12. /\ AllFit(a \o b \o c \o d \o e \o g)
       /\ \A q \in {2, 3, 4} : Sets(a \o b \o c \o d \o e \o g, q)
  BY <1>5, <1>11, Joined
<1>13. QED
  BY <1>3, <1>7, <1>12, Joined

LEMMA BootsFit ==
  /\ AllFit(Boots) /\ \A q \in Needed : Sets(Boots, q)
  /\ Len(Boots) \in Nat /\ Len(Boots) >= 3
  /\ Boots[Len(Boots) - 2].fn = "MODE"
  /\ Boots[Len(Boots) - 1].fn = "CHIP" /\ Boots[Len(Boots)].fn = "POL"
<1> DEFINE i == Do("init", <<0>>, 1)
           f == Do("fsel", SpiPins, "ALT0")
           b == Do("begin", <<0>>, 0)
           m == Do("MODE", <<0>>, 1)
           c == Do("CHIP", <<0>>, 0)
           o == Do("POL", <<0>>, 0)
           x == i \o init_gpio \o (f \o b)
<1>1. /\ <<0>> \in Seq(0..25) /\ SpiPins \in Seq(0..25) /\ Len(<<0>>) = 1 /\ Len(SpiPins) = 3
      /\ SpiPins[1] = 9 /\ SpiPins[2] = 10 /\ SpiPins[3] = 11
  BY DEF SpiPins
<1>2. {"init", "fsel", "begin", "MODE", "CHIP", "POL"} \subseteq SetUpFn
      /\ {0, 1, "ALT0"} \subseteq SetUpArg
  BY DEF SetUpFn, SetUpArg
<1>3. AllFit(i) /\ AllFit(b) /\ AllFit(m) /\ AllFit(c) /\ AllFit(o)
  <2>1. \A v : /\ Fits([fn |-> "init", pin |-> v, arg |-> 1])
               /\ Fits([fn |-> "begin", pin |-> v, arg |-> 0])
               /\ Fits([fn |-> "MODE", pin |-> v, arg |-> 1])
               /\ Fits([fn |-> "CHIP", pin |-> v, arg |-> 0])
               /\ Fits([fn |-> "POL", pin |-> v, arg |-> 0])
    BY DEF Fits
  <2>2. QED
    BY <1>1, <1>2, <2>1, DoFits
<1>4. AllFit(f) /\ \A q \in {9, 10, 11} : Sets(f, q)
  <2>1. \A k \in 1..Len(SpiPins) : SpiPins[k] \in {9, 10, 11}
    BY <1>1
  <2>2. \A v \in {9, 10, 11} : Fits([fn |-> "fsel", pin |-> v, arg |-> "ALT0"])
    BY DEF Fits, Right, Needed
  <2>3. AllFit(f) /\ \A k \in 1..Len(SpiPins) : Sets(f, SpiPins[k])
    BY <1>1, <1>2, <2>1, <2>2, DoFits
  <2> HIDE DEF f
  <2>4. QED
    BY <1>1, <2>3
<1>5. /\ Len(m) = 1 /\ Len(c) = 1 /\ Len(o) = 1
      /\ m[1].fn = "MODE" /\ c[1].fn = "CHIP" /\ o[1].fn = "POL"
  BY <1>1 DEF Do
<1> DEFINE a == x \o m \o c \o o
<1>6. init_spi_bcm = a /\ Boots = a \o a
  BY DEF init_spi_bcm, spi_begin, Boots
<1> HIDE DEF i, f, b, m, c, o
<1>7. AllFit(x) /\ \A q \in Needed : Sets(x, q)
  <2>1. AllFit(f \o b) /\ \A q \in {9, 10, 11} : Sets(f \o b, q)
    BY <1>3, <1>4, Joined
  <2>2. AllFit(i \o init_gpio) /\ \A q \in {2, 3, 4} : Sets(i \o init_gpio, q)
    BY <1>3, GpioFits, Joined
  <2>3. QED
    BY <2>1, <2>2, Joined DEF Needed
<1> HIDE DEF x
<1>8. AllFit(x \o m) /\ \A q \in Needed : Sets(x \o m, q)
  BY <1>3, <1>7, Joined
<1>9. AllFit(x \o m \o c) /\ \A q \in Needed : Sets(x \o m \o c, q)
  BY <1>3, <1>8, Joined
<1>10. AllFit(a) /\ \A q \in Needed : Sets(a, q)
  BY <1>3, <1>9, Joined
<1>11. /\ Len(a) = Len(x) + 3 /\ Len(x) \in Nat
       /\ a[Len(x) + 1].fn = "MODE" /\ a[Len(x) + 2].fn = "CHIP" /\ a[Len(x) + 3].fn = "POL"
  <2>1. /\ x \in Seq(SetUpCall) /\ m \in Seq(SetUpCall) /\ c \in Seq(SetUpCall)
        /\ o \in Seq(SetUpCall) /\ x \o m \in Seq(SetUpCall) /\ x \o m \o c \in Seq(SetUpCall)
    BY <1>3, <1>7, <1>8, <1>9 DEF AllFit
  <2>2. Len(x \o m) = Len(x) + 1 /\ (x \o m)[Len(x) + 1] = m[1] /\ Len(x) \in Nat
    BY <1>5, <2>1, ConcatCalls
  <2> DEFINE y == x \o m
             z == x \o m \o c
  <2> HIDE DEF y, z
  <2>3. Len(z) = Len(x) + 2 /\ z[Len(x) + 1] = m[1] /\ z[Len(x) + 2] = c[1]
    <3>1. /\ Len(z) = Len(y) + Len(c) /\ \A k \in 1..Len(y) : z[k] = y[k]
          /\ \A k \in 1..Len(c) : z[Len(y) + k] = c[k]
      BY <2>1, ConcatCalls DEF y, z
    <3>2. Len(y) = Len(x) + 1 /\ y[Len(x) + 1] = m[1] /\ Len(x) \in Nat
      BY <2>2 DEF y
    <3>3. QED
      BY <1>5, <3>1, <3>2
  <2>4. /\ Len(a) = Len(z) + Len(o) /\ \A k \in 1..Len(z) : a[k] = z[k]
        /\ \A k \in 1..Len(o) : a[Len(z) + k] = o[k]
    BY <2>1, ConcatCalls DEF z
  <2> HIDE DEF a
  <2>5. QED
    BY <1>5, <2>2, <2>3, <2>4
<1> HIDE DEF a
<1>12. AllFit(Boots) /\ \A q \in Needed : Sets(Boots, q)
  BY <1>6, <1>10, Joined
<1>13. Len(Boots) = Len(a) + Len(a) /\ \A k \in 1..Len(a) : Boots[Len(a) + k] = a[k]
  BY <1>6, <1>10, ConcatCalls DEF AllFit
<1>14. /\ Len(Boots) \in Nat /\ Len(Boots) >= 3
       /\ Len(Boots) - 2 = Len(a) + (Len(x) + 1) /\ Len(Boots) - 1 = Len(a) + (Len(x) + 2)
       /\ Len(Boots) = Len(a) + (Len(x) + 3)
  BY <1>11, <1>13
<1>15. /\ Boots[Len(a) + (Len(x) + 1)].fn = "MODE"
       /\ Boots[Len(a) + (Len(x) + 2)].fn = "CHIP"
       /\ Boots[Len(a) + (Len(x) + 3)].fn = "POL"
  BY <1>11, <1>13
<1>16. QED
  BY <1>12, <1>14, <1>15
-----------------------------------------------------------------------------
(* Transfers.                                                              *)
Control   == [TA : BOOLEAN, MODE : {0, 1}, CHIP : {0}, POL : {0}]
Passed    == [slv : 0..8, mosi : SpiBytes, miso : SpiBytes]
Choosing  == {"select2", "select3", "select4"}
Late      == {"on", "starting", "fill", "drain", "done", "off", "ending"}
SpiPlaces == {"idle", "clear", "clearing", "disable"} \cup Choosing \cup Late

SpiTypeOK ==
  /\ boot \in Nat \ {0}
  /\ mode \in [Pins -> {"INPT", "OUTP", "ALT0"}] /\ level \in [Pins -> {0, 1}]
  /\ CS \in Control /\ seen \in [Callers -> Control]
  /\ txf \in Seq(SpiBytes) /\ rxf \in Seq(SpiBytes)
  /\ pc \in [Callers -> SpiPlaces] /\ job \in [Callers -> Transfers \cup {NoJob}]
  /\ TXCnt \in [Callers -> Nat] /\ got \in [Callers -> Seq(SpiBytes)]
  /\ wire \in Seq(Passed) /\ alone \in Callers \cup {Nobody}

(* The set-up so far is there, and nobody transfers before it is over.      *)
SetUp ==
  /\ \A k \in 1..(boot - 1) :
       Boots[k].fn = "fsel" /\ Boots[k].pin \in Needed
         => mode[Boots[k].pin] = Right(Boots[k].pin)
  /\ boot > Len(Boots) - 2 => CS.MODE = 1
  /\ ~Booted => alone = Nobody /\ \A u \in Callers : pc[u] = "idle"
  /\ \A u \in Callers : pc[u] \in {"clearing", "starting", "ending"} => seen[u].MODE = 1

(* While the transfer is on, somebody is there to end it; and who is alone  *)
(* is.                                                                      *)
Running ==
  /\ CS.TA => \E u \in Callers : pc[u] \in Late
  /\ \A u \in Callers : pc[u] # "idle" => job[u] \in Transfers
  /\ \A u, w \in Callers : alone = u /\ w # u => pc[w] = "idle"

(* The card is selected bit by bit.                                         *)
Bits(u, pins) == \A q \in pins : level[q] = SlaveBit(job[u].slv, q)

Chosen(u) ==
  /\ pc[u] = "select3" => Bits(u, {2})
  /\ pc[u] = "select4" => Bits(u, {2, 3})
  /\ pc[u] \in Choosing => job[u].fn = "spi_transfer"
  /\ pc[u] \notin Choosing \cup {"idle"} => Selected = job[u].slv

(* Nothing moves before the transfer is on, and it begins with empty FIFOs. *)
Fresh(u) ==
  pc[u] \in Choosing \cup {"clear", "clearing", "on", "starting"} =>
    /\ wire = <<>> /\ TXCnt[u] = 0 /\ got[u] = <<>> /\ ~CS.TA
    /\ pc[u] = "clearing" => ~seen[u].TA
    /\ pc[u] \in {"on", "starting"} => txf = <<>> /\ rxf = <<>>

(* What was sent has passed on the wire or waits in the FIFO.               *)
Passes(u) ==
  \A k \in 1..Len(wire) : wire[k].slv = job[u].slv /\ wire[k].mosi = job[u].tx[k]

Sent(u) ==
  /\ Len(wire) + Len(txf) = TXCnt[u] /\ TXCnt[u] <= Len(job[u].tx)
  /\ Passes(u)
  /\ \A k \in 1..Len(txf) : txf[k] = job[u].tx[Len(wire) + k]

(* What came back was read or waits in the other one.                       *)
Back(u) ==
  job[u].fn # "writenb" =>
    /\ Len(got[u]) + Len(rxf) = Len(wire)
    /\ \A k \in 1..Len(got[u]) : got[u][k] = wire[k].miso
    /\ \A k \in 1..Len(rxf) : rxf[k] = wire[Len(got[u]) + k].miso

Flow(u) ==
  pc[u] \in {"fill", "drain", "done"} =>
    /\ Sent(u) /\ Back(u)
    /\ pc[u] = "done" => ~More(u) /\ (Buffered(u) => ~Wants(u))
    /\ job[u].fn = "transfer" => got[u] = <<>> /\ pc[u] # "drain"

(* All has passed when the transfer is seen to be done.                     *)
Moved(u) ==
  /\ Len(wire) = Len(job[u].tx) /\ Passes(u)
  /\ job[u].fn # "writenb" =>
       Len(got[u]) = Len(wire) /\ \A k \in 1..Len(wire) : got[u][k] = wire[k].miso

Through(u) ==
  pc[u] \in {"off", "ending", "disable", "idle"} =>
    /\ Moved(u)
    /\ pc[u] \in {"off", "ending"} => txf = <<>>
    /\ pc[u] \in {"disable", "idle"} => ~CS.TA

Phase(u) == Chosen(u) /\ Fresh(u) /\ Flow(u) /\ Through(u)

SpiInv == /\ SpiTypeOK /\ SetUp /\ Running
          /\ \A u \in Callers : alone = u => Phase(u)
-----------------------------------------------------------------------------
LEMMA Jobs ==
  \A t \in Transfers :
    /\ t.tx \in Seq(SpiBytes) /\ Len(t.tx) \in Nat /\ Len(t.tx) > 0 /\ t.slv \in 0..7
    /\ t.fn \in {"spi_transfer", "transfernb", "transfer", "writenb"}
    /\ t.fn = "transfer" => Len(t.tx) = 1
<1> SUFFICES ASSUME NEW t \in Transfers
             PROVE  /\ t.tx \in Seq(SpiBytes) /\ Len(t.tx) \in Nat /\ Len(t.tx) > 0
                    /\ t.slv \in 0..7
                    /\ t.fn \in {"spi_transfer", "transfernb", "transfer", "writenb"}
                    /\ t.fn = "transfer" => Len(t.tx) = 1
  OBVIOUS
<1>1. /\ t.tx \in Seq(SpiBytes) /\ t.tx # <<>> /\ t.slv \in 0..7
      /\ t.fn \in {"spi_transfer", "transfernb", "transfer", "writenb"}
      /\ t.fn = "transfer" => Len(t.tx) = 1
  BY SpiAssumption
<1>2. QED
  BY <1>1

(* The three bits of a card make its number.                                *)
LEMMA BitsMake ==
  \A s \in 0..7 :
    /\ SlaveBit(s, 2) \in {0, 1} /\ SlaveBit(s, 3) \in {0, 1} /\ SlaveBit(s, 4) \in {0, 1}
    /\ SlaveBit(s, 2) + 2 * SlaveBit(s, 3) + 4 * SlaveBit(s, 4) = s
<1>1. \A s \in 0..7 : /\ SlaveBit(s, 2) = s % 2
                      /\ SlaveBit(s, 3) = (s \div 2) % 2
                      /\ SlaveBit(s, 4) = (s \div 4) % 2
  BY DEF SlaveBit
<1>2. \A s \in 0..7 : /\ s % 2 \in {0, 1} /\ (s \div 2) % 2 \in {0, 1}
                      /\ (s \div 4) % 2 \in {0, 1}
                      /\ (s % 2) + 2 * ((s \div 2) % 2) + 4 * ((s \div 4) % 2) = s
  OBVIOUS
<1>3. QED
  BY <1>1, <1>2

(* Who is not idle finds the board set up.                                  *)
LEMMA ReadyBoard ==
  ASSUME SpiInv, Booted
  PROVE  /\ CS.MODE = 1 /\ \A q \in Needed : mode[q] = Right(q)
         /\ Reached = Selected /\ Selected \in 0..7
<1>1. CS.MODE = 1
  BY BootsFit DEF SpiInv, SetUp, SpiTypeOK, Booted
<1>2. \A q \in Needed : mode[q] = Right(q)
  <2> SUFFICES ASSUME NEW q \in Needed PROVE mode[q] = Right(q)
    OBVIOUS
  <2>1. PICK k \in 1..Len(Boots) : Boots[k].fn = "fsel" /\ Boots[k].pin = q
    BY BootsFit DEF Sets
  <2>2. k \in 1..(boot - 1)
    BY BootsFit DEF SpiInv, SpiTypeOK, Booted
  <2>3. QED
    BY <2>1, <2>2 DEF SpiInv, SetUp
<1>3. Wired
  <2>1. Range(SpiPins) = {9, 10, 11}
    <3>1. DOMAIN SpiPins = 1..3 /\ SpiPins[1] = 9 /\ SpiPins[2] = 10 /\ SpiPins[3] = 11
      BY DEF SpiPins
    <3>2. QED
      BY <3>1 DEF Range
  <2>2. CS.CHIP = 0 /\ CS.POL = 0
    BY DEF SpiInv, SpiTypeOK, Control
  <2>3. QED
    BY <1>1, <1>2, <2>1, <2>2 DEF Wired, Needed, Right
<1>4. Selected \in 0..7
  <2>1. level[2] \in {0, 1} /\ level[3] \in {0, 1} /\ level[4] \in {0, 1}
    BY DEF SpiInv, SpiTypeOK, Pins
  <2>2. QED
    BY <2>1 DEF Selected
<1>5. QED
  BY <1>1, <1>2, <1>3, <1>4 DEF Reached

(* A step of a caller: the others stay where they are.                      *)
RegistersOK ==
  /\ level \in [Pins -> {0, 1}] /\ CS \in Control /\ CS.MODE = 1
  /\ seen \in [Callers -> Control]
  /\ txf \in Seq(SpiBytes) /\ rxf \in Seq(SpiBytes)
  /\ TXCnt \in [Callers -> Nat] /\ got \in [Callers -> Seq(SpiBytes)]

LEMMA StepOf ==
  ASSUME SpiInv, NEW u \in Callers, NEW next \in SpiPlaces, pc[u] # "idle", Quiet(u, next),
         RegistersOK',
         CS'.TA => (CS.TA \/ next \in Late) /\ (pc[u] \in Late => next \in Late),
         \A w \in Callers : pc'[w] \in {"clearing", "starting", "ending"} => seen'[w].MODE = 1,
         alone = u => Phase(u)'
  PROVE  SpiInv'
<1>1. /\ pc' = [pc EXCEPT ![u] = next] /\ pc \in [Callers -> SpiPlaces]
      /\ UNCHANGED <<boot, mapped, mode, pull, job, wire, alone>>
  BY DEF Quiet, To, bootVars, SpiInv, SpiTypeOK
<1>2. /\ pc'[u] = next /\ \A w \in Callers : w # u => pc'[w] = pc[w]
      /\ pc' \in [Callers -> SpiPlaces]
  BY <1>1
<1>3. SpiTypeOK'
  BY <1>1, <1>2 DEF SpiInv, SpiTypeOK, RegistersOK
<1>4. Booted
  BY DEF SpiInv, SetUp
<1>5. SetUp'
  BY <1>1, <1>4 DEF SpiInv, SetUp, RegistersOK, Booted
<1>6. ASSUME NEW x \in Callers, alone = x PROVE x = u
  BY <1>6 DEF SpiInv, Running
<1>7. Running'
  <2>1. CS'.TA => \E w \in Callers : pc'[w] \in Late
    <3>1. CASE next \in Late
      BY <1>2, <3>1
    <3>2. CASE next \notin Late
      BY <1>2, <3>2 DEF SpiInv, Running
    <3>3. QED
      BY <3>1, <3>2
  <2>2. \A w \in Callers : pc'[w] # "idle" => job'[w] \in Transfers
    BY <1>1, <1>2 DEF SpiInv, Running
  <2>3. \A x, w \in Callers : alone' = x /\ w # x => pc'[w] = "idle"
    BY <1>1, <1>2, <1>6 DEF SpiInv, Running
  <2>4. QED
    BY <2>1, <2>2, <2>3 DEF Running
<1>8. \A x \in Callers : alone' = x => Phase(x)'
  <2> SUFFICES ASSUME NEW x \in Callers, alone' = x PROVE Phase(x)'
    OBVIOUS
  <2>1. x = u /\ alone = u
    BY <1>1, <1>6
  <2>2. QED
    BY <2>1
<1>9. QED
  BY <1>3, <1>5, <1>7, <1>8 DEF SpiInv

(* What a caller that is on its way knows.                                  *)
LEMMA Underway ==
  ASSUME SpiInv, NEW u \in Callers, pc[u] # "idle"
  PROVE  /\ RegistersOK /\ Booted /\ job[u] \in Transfers
         /\ pc \in [Callers -> SpiPlaces] /\ wire \in Seq(Passed)
         /\ \A w \in Callers : pc[w] \in {"clearing", "starting", "ending"} => seen[w].MODE = 1
<1>1. Booted /\ job[u] \in Transfers
  BY DEF SpiInv, SetUp, Running
<1>2. RegistersOK
  BY <1>1, ReadyBoard DEF SpiInv, SpiTypeOK, RegistersOK
<1>3. QED
  BY <1>1, <1>2 DEF SpiInv, SpiTypeOK, SetUp

LEMMA SelectStep == ASSUME SpiInv, NEW u \in Callers, select_Slave(u) PROVE SpiInv'
<1>1. PICK pin \in {2, 3, 4} :
        /\ pc[u] = <<"select2", "select3", "select4">>[pin - 1]
        /\ gpio_write(pin, SlaveBit(job[u].slv, pin))
        /\ Quiet(u, <<"select3", "select4", "clear">>[pin - 1])
  BY DEF select_Slave
<1>2. UNCHANGED <<CS, fifos, seen, counts>>
  BY DEF select_Slave
<1> DEFINE next == <<"select3", "select4", "clear">>[pin - 1]
<1>3. /\ pc[u] \in Choosing /\ next \in {"select3", "select4", "clear"}
      /\ pin = 2 => pc[u] = "select2" /\ next = "select3"
      /\ pin = 3 => pc[u] = "select3" /\ next = "select4"
      /\ pin = 4 => pc[u] = "select4" /\ next = "clear"
  BY <1>1 DEF Choosing
<1>4. Quiet(u, next)
  BY <1>1
<1> HIDE DEF next
<1>5. pc[u] # "idle" /\ next \in SpiPlaces /\ next \notin Late /\ pc[u] \notin Late
  BY <1>3 DEF Choosing, SpiPlaces, Late
<1>6. /\ RegistersOK /\ Booted /\ job[u] \in Transfers
      /\ pc \in [Callers -> SpiPlaces] /\ wire \in Seq(Passed)
      /\ \A w \in Callers : pc[w] \in {"clearing", "starting", "ending"} => seen[w].MODE = 1
  BY <1>5, Underway
<1>7. /\ SlaveBit(job[u].slv, pin) \in {0, 1}
      /\ SlaveBit(job[u].slv, 2) + 2 * SlaveBit(job[u].slv, 3) + 4 * SlaveBit(job[u].slv, 4)
           = job[u].slv
  BY <1>6, Jobs, BitsMake
<1>8. /\ level \in [Pins -> {0, 1}] /\ pin \in Pins
      /\ level' = [level EXCEPT ![pin] = SlaveBit(job[u].slv, pin)]
  BY <1>1, <1>6 DEF gpio_write, RegistersOK, Pins
<1>9. /\ level' \in [Pins -> {0, 1}] /\ level'[pin] = SlaveBit(job[u].slv, pin)
      /\ \A q \in Pins : q # pin => level'[q] = level[q]
  BY <1>7, <1>8
<1>10. RegistersOK'
  BY <1>2, <1>6, <1>9 DEF RegistersOK, fifos, counts
<1>11. /\ pc'[u] = next /\ \A w \in Callers : w # u => pc'[w] = pc[w]
       /\ UNCHANGED <<job, wire, alone>>
  BY <1>4, <1>6 DEF Quiet, To
<1>12. ASSUME alone = u PROVE Phase(u)'
  <2>1. Chosen(u) /\ Fresh(u)
    BY <1>12 DEF SpiInv, Phase
  <2>2. Chosen(u)'
    <3>1. job'[u].fn = "spi_transfer"
      BY <1>3, <1>11, <2>1 DEF Chosen
    <3>2. CASE pin = 2
      <4>1. pc'[u] = "select3" /\ level'[2] = SlaveBit(job'[u].slv, 2)
        BY <1>3, <1>9, <1>11, <3>2
      <4>2. QED
        BY <3>1, <4>1 DEF Chosen, Bits, Choosing
    <3>3. CASE pin = 3
      <4>1. /\ pc'[u] = "select4" /\ level'[3] = SlaveBit(job'[u].slv, 3)
            /\ level'[2] = SlaveBit(job'[u].slv, 2)
        BY <1>3, <1>9, <1>11, <2>1, <3>3 DEF Chosen, Bits, Pins
      <4>2. QED
        BY <3>1, <4>1 DEF Chosen, Bits, Choosing
    <3>4. CASE pin = 4
      <4>1. /\ pc'[u] = "clear" /\ level'[4] = SlaveBit(job[u].slv, 4)
            /\ level'[2] = SlaveBit(job[u].slv, 2) /\ level'[3] = SlaveBit(job[u].slv, 3)
        BY <1>3, <1>9, <1>11, <2>1, <3>4 DEF Chosen, Bits, Pins
      <4>2. Selected' = job'[u].slv
        BY <1>7, <1>11, <4>1 DEF Selected
      <4>3. QED
        BY <4>1, <4>2 DEF Chosen, Choosing
    <3>5. QED
      BY <3>2, <3>3, <3>4
  <2>3. Fresh(u)'
    BY <1>2, <1>3, <1>11, <2>1 DEF Fresh, Choosing, counts
  <2>4. Flow(u)' /\ Through(u)'
    BY <1>3, <1>11 DEF Flow, Through
  <2>5. QED
    BY <2>2, <2>3, <2>4 DEF Phase
<1>13. \A w \in Callers : pc'[w] \in {"clearing", "starting", "ending"} => seen'[w].MODE = 1
  BY <1>2, <1>3, <1>6, <1>11
<1>14. CS'.TA => CS.TA
  BY <1>2
<1>15. QED
  BY <1>4, <1>5, <1>10, <1>12, <1>13, <1>14, StepOf

LEMMA ReadCSStep == ASSUME SpiInv, NEW u \in Callers, ReadCS(u) PROVE SpiInv'
<1> DEFINE next == SetBits[pc[u]]
<1>1. /\ pc[u] \in {"clear", "on", "off"} /\ Quiet(u, next)
      /\ seen' = [seen EXCEPT ![u] = CS] /\ UNCHANGED <<level, CS, fifos, counts>>
  BY DEF ReadCS, SetBits
<1>2. /\ pc[u] = "clear" => next = "clearing"
      /\ pc[u] = "on" => next = "starting"
      /\ pc[u] = "off" => next = "ending"
  BY DEF SetBits
<1> HIDE DEF next
<1>3. pc[u] # "idle" /\ next \in SpiPlaces /\ (pc[u] \in Late => next \in Late)
  BY <1>1, <1>2 DEF SpiPlaces, Late
<1>4. /\ RegistersOK /\ Booted /\ job[u] \in Transfers
      /\ pc \in [Callers -> SpiPlaces] /\ wire \in Seq(Passed)
      /\ \A w \in Callers : pc[w] \in {"clearing", "starting", "ending"} => seen[w].MODE = 1
  BY <1>3, Underway
<1>5. /\ seen'[u] = CS /\ seen' \in [Callers -> Control]
      /\ \A w \in Callers : w # u => seen'[w] = seen[w]
  BY <1>1, <1>4 DEF RegistersOK
<1>6. RegistersOK'
  BY <1>1, <1>4, <1>5 DEF RegistersOK, fifos, counts
<1>7. /\ pc'[u] = next /\ \A w \in Callers : w # u => pc'[w] = pc[w]
      /\ UNCHANGED <<job, wire, alone, level, CS, txf, rxf, TXCnt, got>>
  BY <1>1, <1>4 DEF Quiet, To, fifos, counts
<1>8. ASSUME alone = u PROVE Phase(u)'
  <2>1. Chosen(u) /\ Fresh(u) /\ Through(u)
    BY <1>8 DEF SpiInv, Phase
  <2>2. Chosen(u)'
    BY <1>1, <1>2, <1>7, <2>1 DEF Chosen, Choosing, Bits, Selected
  <2>3. Fresh(u)'
    BY <1>1, <1>2, <1>5, <1>7, <2>1 DEF Fresh, Choosing
  <2>4. Flow(u)'
    BY <1>1, <1>2, <1>7 DEF Flow
  <2>5. Through(u)'
    BY <1>1, <1>2, <1>7, <2>1 DEF Through, Moved, Passes
  <2>6. QED
    BY <2>2, <2>3, <2>4, <2>5 DEF Phase
<1>9. \A w \in Callers : pc'[w] \in {"clearing", "starting", "ending"} => seen'[w].MODE = 1
  <2> SUFFICES ASSUME NEW w \in Callers, pc'[w] \in {"clearing", "starting", "ending"}
               PROVE  seen'[w].MODE = 1
    OBVIOUS
  <2>1. CASE w = u
    BY <1>4, <1>5, <2>1 DEF RegistersOK
  <2>2. CASE w # u
    BY <1>4, <1>5, <1>7, <2>2
  <2>3. QED
    BY <2>1, <2>2
<1>10. CS'.TA => CS.TA
  BY <1>7
<1>11. QED
  BY <1>1, <1>3, <1>6, <1>8, <1>9, <1>10, StepOf

LEMMA WriteCSStep == ASSUME SpiInv, NEW u \in Callers, WriteCS(u) PROVE SpiInv'
<1>1. PICK next \in SpiPlaces :
        /\ Quiet(u, next) /\ UNCHANGED <<level, seen, counts>>
        /\ \/ pc[u] = "clearing" /\ next = "on"
           \/ pc[u] = "starting" /\ next = "fill"
           \/ pc[u] = "ending" /\ next \in {"disable", "idle"}
  <2>1. {"on", "fill", "disable", "idle"} \subseteq SpiPlaces
    BY DEF SpiPlaces, Late
  <2>2. QED
    BY <2>1 DEF WriteCS
<1>2. /\ pc[u] = "clearing" => CS' = seen[u] /\ txf' = <<>> /\ rxf' = <<>>
      /\ pc[u] = "starting" => CS' = [seen[u] EXCEPT !.TA = TRUE] /\ UNCHANGED fifos
      /\ pc[u] = "ending" => CS' = [seen[u] EXCEPT !.TA = FALSE] /\ UNCHANGED fifos
  BY DEF WriteCS, Cleared
<1>3. pc[u] # "idle"
  BY <1>1
<1>4. /\ RegistersOK /\ Booted /\ job[u] \in Transfers
      /\ pc \in [Callers -> SpiPlaces] /\ wire \in Seq(Passed)
      /\ \A w \in Callers : pc[w] \in {"clearing", "starting", "ending"} => seen[w].MODE = 1
  BY <1>3, Underway
<1>5. seen[u] \in Control /\ seen[u].MODE = 1
  BY <1>1, <1>4 DEF RegistersOK
<1>6. /\ CS' \in Control /\ CS'.MODE = 1
      /\ pc[u] = "clearing" => CS'.TA = seen[u].TA
      /\ pc[u] = "ending" => ~CS'.TA
  BY <1>1, <1>2, <1>5 DEF Control
<1>7. RegistersOK'
  <2>1. <<>> \in Seq(SpiBytes) /\ txf \in Seq(SpiBytes) /\ rxf \in Seq(SpiBytes)
    BY <1>4 DEF RegistersOK
  <2>2. (txf' = <<>> /\ rxf' = <<>>) \/ (txf' = txf /\ rxf' = rxf)
    BY <1>1, <1>2 DEF fifos
  <2>3. txf' \in Seq(SpiBytes) /\ rxf' \in Seq(SpiBytes)
    BY <2>1, <2>2
  <2>4. QED
    BY <1>1, <1>4, <1>6, <2>3 DEF RegistersOK, counts
<1>8. /\ pc'[u] = next /\ \A w \in Callers : w # u => pc'[w] = pc[w]
      /\ UNCHANGED <<job, wire, alone, level, seen, TXCnt, got>>
  BY <1>1, <1>4 DEF Quiet, To, counts
<1>9. ASSUME alone = u PROVE Phase(u)'
  <2>1. Chosen(u) /\ Fresh(u) /\ Through(u)
    BY <1>9 DEF SpiInv, Phase
  <2>2. Chosen(u)'
    BY <1>1, <1>8, <2>1 DEF Chosen, Choosing, Bits, Selected
  <2>3. Fresh(u)'
    BY <1>1, <1>2, <1>6, <1>8, <2>1 DEF Fresh, Choosing
  <2>4. Flow(u)'
    <3> SUFFICES ASSUME pc'[u] = "fill" PROVE Sent(u)' /\ Back(u)' /\ got'[u] = <<>>
      BY <1>1, <1>8 DEF Flow
    <3>1. pc[u] = "starting"
      BY <1>1, <1>8
    <3>2. /\ wire' = <<>> /\ TXCnt'[u] = 0 /\ got'[u] = <<>> /\ txf' = <<>> /\ rxf' = <<>>
      BY <1>2, <1>8, <2>1, <3>1 DEF Fresh, fifos
    <3>3. Len(job'[u].tx) \in Nat
      BY <1>4, <1>8, Jobs
    <3>4. Sent(u)'
      BY <3>2, <3>3 DEF Sent, Passes
    <3>5. Back(u)'
      BY <3>2 DEF Back
    <3>6. QED
      BY <3>2, <3>4, <3>5
  <2>5. Through(u)'
    BY <1>1, <1>6, <1>8, <2>1 DEF Through, Moved, Passes
  <2>6. QED
    BY <2>2, <2>3, <2>4, <2>5 DEF Phase
<1>10. \A w \in Callers : pc'[w] \in {"clearing", "starting", "ending"} => seen'[w].MODE = 1
  BY <1>1, <1>4, <1>8
<1>11. CS'.TA => (CS.TA \/ next \in Late) /\ (pc[u] \in Late => next \in Late)
  BY <1>1, <1>6 DEF Late
<1>12. QED
  BY <1>1, <1>3, <1>7, <1>9, <1>10, <1>11, StepOf

(* The steps that move bytes leave the control register and the pins alone. *)
LEMMA ByteStep ==
  ASSUME SpiInv, NEW u \in Callers, NEW next \in SpiPlaces,
         pc[u] \in {"fill", "drain", "done"}, next \in {"fill", "drain", "done", "off"},
         Quiet(u, next), UNCHANGED <<level, CS, seen>>,
         txf' \in Seq(SpiBytes), rxf' \in Seq(SpiBytes),
         TXCnt' \in [Callers -> Nat], got' \in [Callers -> Seq(SpiBytes)],
         alone = u => Flow(u)' /\ Through(u)'
  PROVE  SpiInv'
<1>1. pc[u] # "idle" /\ next \in Late
  BY DEF Late
<1>2. /\ RegistersOK /\ pc \in [Callers -> SpiPlaces]
      /\ \A w \in Callers : pc[w] \in {"clearing", "starting", "ending"} => seen[w].MODE = 1
  BY <1>1, Underway
<1>3. RegistersOK'
  BY <1>2 DEF RegistersOK
<1>4. /\ pc'[u] = next /\ \A w \in Callers : w # u => pc'[w] = pc[w]
      /\ UNCHANGED <<job, wire, alone, level, CS, seen>>
  BY <1>2 DEF Quiet, To
<1>5. ASSUME alone = u PROVE Phase(u)'
  <2>1. Chosen(u)'
    <3>1. Chosen(u)
      BY <1>5 DEF SpiInv, Phase
    <3>2. QED
      BY <1>4, <3>1 DEF Chosen, Choosing, Selected
  <2>2. Fresh(u)'
    BY <1>4 DEF Fresh, Choosing
  <2>3. QED
    BY <1>5, <2>1, <2>2 DEF Phase
<1>6. \A w \in Callers : pc'[w] \in {"clearing", "starting", "ending"} => seen'[w].MODE = 1
  BY <1>2, <1>4
<1>7. QED
  BY <1>1, <1>3, <1>5, <1>6, StepOf

(* What a caller alone knows of its bytes.                                  *)
LEMMA ByteFacts ==
  ASSUME SpiInv, NEW u \in Callers, pc[u] \in {"fill", "drain", "done"}
  PROVE  /\ pc \in [Callers -> SpiPlaces] /\ job[u] \in Transfers
         /\ txf \in Seq(SpiBytes) /\ rxf \in Seq(SpiBytes) /\ wire \in Seq(Passed)
         /\ TXCnt \in [Callers -> Nat] /\ got \in [Callers -> Seq(SpiBytes)]
         /\ job[u].tx \in Seq(SpiBytes) /\ Len(job[u].tx) \in Nat
         /\ job[u].fn \in {"spi_transfer", "transfernb", "transfer", "writenb"}
         /\ job[u].fn = "transfer" => Len(job[u].tx) = 1
         /\ alone = u => Flow(u) /\ Sent(u) /\ Back(u)
<1>1. /\ RegistersOK /\ job[u] \in Transfers /\ pc \in [Callers -> SpiPlaces]
      /\ wire \in Seq(Passed)
  BY Underway
<1>2. alone = u => Flow(u)
  BY DEF SpiInv, Phase
<1>3. QED
  BY <1>1, <1>2, Jobs DEF RegistersOK, Flow

LEMMA PushStep == ASSUME SpiInv, NEW u \in Callers, Push(u) PROVE SpiInv'
<1> DEFINE next == IF Buffered(u) THEN "fill"
                   ELSE IF job[u].fn = "transfer" THEN "done" ELSE "drain"
           b == job[u].tx[TXCnt[u] + 1]
<1>1. /\ pc[u] = "fill" /\ More(u) /\ txf' = Append(txf, b)
      /\ TXCnt' = [TXCnt EXCEPT ![u] = @ + 1] /\ Quiet(u, next)
      /\ UNCHANGED <<level, CS, rxf, seen, got>>
  BY DEF Push, WriteFifo
<1>2. /\ pc \in [Callers -> SpiPlaces] /\ job[u] \in Transfers
      /\ txf \in Seq(SpiBytes) /\ rxf \in Seq(SpiBytes) /\ wire \in Seq(Passed)
      /\ TXCnt \in [Callers -> Nat] /\ got \in [Callers -> Seq(SpiBytes)]
      /\ job[u].tx \in Seq(SpiBytes) /\ Len(job[u].tx) \in Nat
      /\ job[u].fn \in {"spi_transfer", "transfernb", "transfer", "writenb"}
      /\ job[u].fn = "transfer" => Len(job[u].tx) = 1
      /\ alone = u => Flow(u) /\ Sent(u) /\ Back(u)
  BY <1>1, ByteFacts
<1>3. /\ next \in {"fill", "drain", "done"} /\ next \in SpiPlaces
      /\ next = "done" => job[u].fn = "transfer"
      /\ next = "drain" => job[u].fn # "transfer"
  BY DEF SpiPlaces, Late, Buffered
<1> HIDE DEF next
<1>4. TXCnt[u] \in Nat /\ TXCnt[u] + 1 \in 1..Len(job[u].tx) /\ b \in SpiBytes
  BY <1>1, <1>2 DEF More
<1> HIDE DEF b
<1>5. /\ txf' \in Seq(SpiBytes) /\ Len(txf') = Len(txf) + 1 /\ txf'[Len(txf) + 1] = b
      /\ \A k \in 1..Len(txf) : txf'[k] = txf[k]
  BY <1>1, <1>2, <1>4
<1>6. TXCnt' \in [Callers -> Nat] /\ TXCnt'[u] = TXCnt[u] + 1
  BY <1>1, <1>2, <1>4
<1>7. pc'[u] = next /\ UNCHANGED <<job, wire, alone>>
  BY <1>1, <1>2 DEF Quiet, To
<1>8. ASSUME alone = u PROVE Flow(u)' /\ Through(u)'
  <2>1. Flow(u) /\ Sent(u) /\ Back(u)
    BY <1>2, <1>8
  <2>2. Sent(u)'
    <3>1. Len(wire) \in Nat /\ Len(txf) \in Nat /\ Len(wire) + Len(txf) = TXCnt[u]
      BY <1>2, <2>1 DEF Sent
    <3>2. \A k \in 1..Len(txf') : txf'[k] = job[u].tx[Len(wire) + k]
      <4> SUFFICES ASSUME NEW k \in 1..Len(txf') PROVE txf'[k] = job[u].tx[Len(wire) + k]
        OBVIOUS
      <4>1. CASE k = Len(txf) + 1
        <5>1. Len(wire) + k = TXCnt[u] + 1
          BY <3>1, <4>1
        <5>2. QED
          BY <1>5, <4>1, <5>1 DEF b
      <4>2. CASE k # Len(txf) + 1
        <5>1. k \in 1..Len(txf)
          BY <1>5, <3>1, <4>2
        <5>2. QED
          BY <1>5, <2>1, <5>1 DEF Sent
      <4>3. QED
        BY <4>1, <4>2
    <3>3. Len(wire) + Len(txf') = TXCnt'[u] /\ TXCnt'[u] <= Len(job[u].tx)
      BY <1>4, <1>5, <1>6, <3>1
    <3>4. QED
      BY <1>7, <2>1, <3>2, <3>3 DEF Sent, Passes
  <2>3. Back(u)'
    BY <1>1, <1>7, <2>1 DEF Back
  <2>4. next = "done" => ~More(u)' /\ ~Buffered(u)'
    <3>1. ASSUME next = "done" PROVE TXCnt'[u] = Len(job[u].tx) /\ job[u].fn = "transfer"
      <4>1. job[u].fn = "transfer" /\ Len(job[u].tx) = 1
        BY <1>2, <1>3, <3>1
      <4>2. TXCnt[u] + 1 = 1
        BY <1>4, <4>1
      <4>3. QED
        BY <1>6, <4>1, <4>2
    <3>2. QED
      BY <1>4, <1>6, <1>7, <3>1 DEF More, Buffered
  <2>5. job[u].fn = "transfer" => got[u] = <<>>
    BY <1>1, <2>1 DEF Flow
  <2>6. Flow(u)'
    BY <1>1, <1>3, <1>7, <2>2, <2>3, <2>4, <2>5 DEF Flow
  <2>7. Through(u)'
    BY <1>3, <1>7 DEF Through
  <2>8. QED
    BY <2>6, <2>7
<1>9. QED
  BY <1>1, <1>2, <1>3, <1>5, <1>6, <1>8, ByteStep

LEMMA FullStep == ASSUME SpiInv, NEW u \in Callers, Full(u) \/ Empty(u) PROVE SpiInv'
<1>1. PICK next \in {"fill", "drain", "done"} :
        /\ Quiet(u, next) /\ UNCHANGED <<level, CS, fifos, seen, counts>>
        /\ pc[u] \in {"fill", "drain"}
        /\ next = "drain" => Buffered(u)
        /\ next = "done" => pc[u] = "drain" /\ ~More(u) /\ ~(Buffered(u) /\ Wants(u))
  BY DEF Full, Empty
<1>2. /\ pc \in [Callers -> SpiPlaces] /\ job[u] \in Transfers
      /\ txf \in Seq(SpiBytes) /\ rxf \in Seq(SpiBytes) /\ wire \in Seq(Passed)
      /\ TXCnt \in [Callers -> Nat] /\ got \in [Callers -> Seq(SpiBytes)]
      /\ alone = u => Flow(u) /\ Sent(u) /\ Back(u)
  BY <1>1, ByteFacts
<1>3. next \in SpiPlaces
  BY DEF SpiPlaces, Late
<1>4. pc'[u] = next /\ UNCHANGED <<job, wire, alone, txf, rxf, TXCnt, got>>
  BY <1>1, <1>2 DEF Quiet, To, fifos, counts
<1>5. ASSUME alone = u PROVE Flow(u)' /\ Through(u)'
  <2>1. Flow(u) /\ Sent(u) /\ Back(u)
    BY <1>2, <1>5
  <2>2. Sent(u)' /\ Back(u)'
    BY <1>4, <2>1 DEF Sent, Back, Passes
  <2>3. /\ More(u)' = More(u) /\ Buffered(u)' = Buffered(u) /\ Wants(u)' = Wants(u)
    BY <1>4 DEF More, Buffered, Wants
  <2>4. Flow(u)'
    BY <1>1, <1>4, <2>1, <2>2, <2>3 DEF Flow, Buffered
  <2>5. Through(u)'
    BY <1>4 DEF Through
  <2>6. QED
    BY <2>4, <2>5
<1>6. QED
  BY <1>1, <1>2, <1>3, <1>4, <1>5, ByteStep

LEMMA PopStep == ASSUME SpiInv, NEW u \in Callers, Pop(u) PROVE SpiInv'
<1>1. /\ rxf # <<>> /\ Wants(u) /\ pc[u] \in {"drain", "done"} /\ Quiet(u, pc[u])
      /\ got' = [got EXCEPT ![u] = IF Buffered(u) THEN Append(@, Head(rxf)) ELSE <<>>]
      /\ rxf' = Tail(rxf) /\ UNCHANGED <<level, CS, txf, seen, TXCnt>>
      /\ pc[u] = "done" => job[u].fn = "writenb"
  BY DEF Pop, ReadFifo, SpiRXD
<1>2. /\ pc \in [Callers -> SpiPlaces] /\ job[u] \in Transfers
      /\ txf \in Seq(SpiBytes) /\ rxf \in Seq(SpiBytes) /\ wire \in Seq(Passed)
      /\ TXCnt \in [Callers -> Nat] /\ got \in [Callers -> Seq(SpiBytes)]
      /\ job[u].fn \in {"spi_transfer", "transfernb", "transfer", "writenb"}
      /\ alone = u => Flow(u) /\ Sent(u) /\ Back(u)
  BY <1>1, ByteFacts
<1>3. pc[u] \in SpiPlaces
  BY <1>2
<1>4. /\ rxf' \in Seq(SpiBytes) /\ Len(rxf') = Len(rxf) - 1 /\ Head(rxf) = rxf[1]
      /\ rxf[1] \in SpiBytes /\ Len(rxf) \in Nat /\ Len(rxf) >= 1
      /\ \A k \in 1..Len(rxf') : rxf'[k] = rxf[k + 1]
  BY <1>1, <1>2
<1>5. /\ Buffered(u) => got'[u] = Append(got[u], rxf[1])
      /\ ~Buffered(u) => got'[u] = <<>>
      /\ got' \in [Callers -> Seq(SpiBytes)]
  <2>1. got[u] \in Seq(SpiBytes) /\ Append(got[u], rxf[1]) \in Seq(SpiBytes)
    BY <1>2, <1>4
  <2>2. <<>> \in Seq(SpiBytes)
    OBVIOUS
  <2>3. QED
    BY <1>1, <1>2, <1>4, <2>1, <2>2
<1>6. pc'[u] = pc[u] /\ UNCHANGED <<job, wire, alone, txf, TXCnt>>
  BY <1>1, <1>2 DEF Quiet, To
<1>7. ASSUME alone = u PROVE Flow(u)' /\ Through(u)'
  <2>1. Flow(u) /\ Sent(u) /\ Back(u)
    BY <1>2, <1>7
  <2>2. Sent(u)'
    BY <1>6, <2>1 DEF Sent, Passes
  <2>3. job[u].fn # "writenb" => Buffered(u)
    BY <1>1, <1>2, <2>1 DEF Flow, Buffered
  <2>4. ASSUME job[u].fn # "writenb"
        PROVE  /\ Len(got'[u]) + Len(rxf') = Len(wire)
               /\ \A k \in 1..Len(got'[u]) : got'[u][k] = wire[k].miso
               /\ \A k \in 1..Len(rxf') : rxf'[k] = wire[Len(got'[u]) + k].miso
    <3> DEFINE g == got[u]
               h == got'[u]
    <3>1. /\ g \in Seq(SpiBytes) /\ h = Append(g, rxf[1]) /\ Len(g) + Len(rxf) = Len(wire)
          /\ \A k \in 1..Len(g) : g[k] = wire[k].miso
          /\ \A k \in 1..Len(rxf) : rxf[k] = wire[Len(g) + k].miso
      BY <1>2, <1>5, <2>1, <2>3, <2>4 DEF Back
    <3> HIDE DEF g, h
    <3>2. /\ Len(g) \in Nat /\ Len(h) = Len(g) + 1 /\ h[Len(g) + 1] = rxf[1]
          /\ \A k \in 1..Len(g) : h[k] = g[k]
      BY <1>4, <3>1
    <3>3. h[Len(g) + 1] = wire[Len(g) + 1].miso
      BY <1>4, <3>1, <3>2
    <3>4. \A k \in 1..Len(h) : h[k] = wire[k].miso
      <4> SUFFICES ASSUME NEW k \in 1..Len(h) PROVE h[k] = wire[k].miso
        OBVIOUS
      <4>1. k \in 1..Len(g) \/ k = Len(g) + 1
        BY <3>2
      <4>2. QED
        BY <3>1, <3>2, <3>3, <4>1
    <3>5. \A k \in 1..Len(rxf') : rxf'[k] = wire[Len(h) + k].miso
      <4> SUFFICES ASSUME NEW k \in 1..Len(rxf') PROVE rxf'[k] = wire[Len(h) + k].miso
        OBVIOUS
      <4>1. k + 1 \in 1..Len(rxf) /\ Len(g) + (k + 1) = Len(h) + k
        BY <1>4, <3>2
      <4>2. QED
        BY <1>4, <3>1, <4>1
    <3>6. Len(h) + Len(rxf') = Len(wire)
      <4>1. \A x, y, z \in Nat : y >= 1 /\ x + y = z => (x + 1) + (y - 1) = z
        OBVIOUS
      <4>2. Len(wire) \in Nat
        BY <1>2
      <4>3. (Len(g) + 1) + (Len(rxf) - 1) = Len(wire)
        BY <1>4, <3>1, <3>2, <4>1, <4>2
      <4>4. QED
        BY <1>4, <3>2, <4>3
    <3>7. QED
      BY <3>4, <3>5, <3>6 DEF h
  <2>5. Back(u)'
    BY <1>6, <2>4 DEF Back
  <2>6. More(u)' = More(u) /\ Buffered(u)' = Buffered(u)
    BY <1>6 DEF More, Buffered
  <2>7. Flow(u)'
    <3>1. pc[u] = "done" => ~More(u) /\ ~Buffered(u)
      BY <1>1, <2>1 DEF Flow, Buffered
    <3>2. job[u].fn # "transfer"
      BY <1>1, <2>1 DEF Flow
    <3>3. QED
      BY <1>1, <1>6, <2>2, <2>5, <2>6, <3>1, <3>2 DEF Flow
  <2>8. Through(u)'
    BY <1>1, <1>6 DEF Through
  <2>9. QED
    BY <2>7, <2>8
<1>8. QED
  BY <1>1, <1>2, <1>3, <1>4, <1>5, <1>7, ByteStep

LEMMA SeeDoneStep == ASSUME SpiInv, NEW u \in Callers, SeeDone(u) PROVE SpiInv'
<1>1. /\ pc[u] = "done" /\ txf = <<>> /\ Quiet(u, "off")
      /\ UNCHANGED <<level, CS, txf, seen, TXCnt>>
  BY DEF SeeDone, SpiDONE
<1>2. /\ pc \in [Callers -> SpiPlaces] /\ job[u] \in Transfers
      /\ txf \in Seq(SpiBytes) /\ rxf \in Seq(SpiBytes) /\ wire \in Seq(Passed)
      /\ TXCnt \in [Callers -> Nat] /\ got \in [Callers -> Seq(SpiBytes)]
      /\ job[u].tx \in Seq(SpiBytes) /\ Len(job[u].tx) \in Nat
      /\ job[u].fn \in {"spi_transfer", "transfernb", "transfer", "writenb"}
      /\ job[u].fn = "transfer" => Len(job[u].tx) = 1
      /\ alone = u => Flow(u) /\ Sent(u) /\ Back(u)
  BY <1>1, ByteFacts
<1>3. /\ job[u].fn # "transfer" => UNCHANGED <<rxf, got>>
      /\ job[u].fn = "transfer" /\ rxf # <<>> =>
           got' = [got EXCEPT ![u] = <<rxf[1]>>] /\ rxf' = Tail(rxf)
      /\ job[u].fn = "transfer" /\ rxf = <<>> =>
           rxf' = rxf /\ \E any \in SpiBytes : got' = [got EXCEPT ![u] = <<any>>]
  BY <1>2 DEF SeeDone, ReadFifo, SpiRXD
<1>4. rxf' \in Seq(SpiBytes) /\ got' \in [Callers -> Seq(SpiBytes)]
  <2>1. CASE job[u].fn # "transfer"
    BY <1>2, <1>3, <2>1
  <2>2. CASE job[u].fn = "transfer" /\ rxf # <<>>
    <3>1. rxf[1] \in SpiBytes /\ Tail(rxf) \in Seq(SpiBytes)
      BY <1>2, <2>2
    <3>2. <<rxf[1]>> \in Seq(SpiBytes)
      BY <3>1
    <3>3. QED
      BY <1>2, <1>3, <2>2, <3>1, <3>2
  <2>3. CASE job[u].fn = "transfer" /\ rxf = <<>>
    <3>1. \A any \in SpiBytes : <<any>> \in Seq(SpiBytes)
      OBVIOUS
    <3>2. QED
      BY <1>2, <1>3, <2>3, <3>1
  <2>4. QED
    BY <2>1, <2>2, <2>3
<1>5. pc'[u] = "off" /\ UNCHANGED <<job, wire, alone, txf>>
  BY <1>1, <1>2 DEF Quiet, To
<1>6. ASSUME alone = u PROVE Flow(u)' /\ Through(u)'
  <2>1. Flow(u) /\ Sent(u) /\ Back(u)
    BY <1>2, <1>6
  <2>2. Len(wire) = Len(job[u].tx) /\ Passes(u)
    <3>1. TXCnt[u] \in Nat /\ ~(TXCnt[u] < Len(job[u].tx)) /\ Len(wire) \in Nat /\ Len(txf) = 0
      BY <1>1, <1>2, <2>1 DEF Flow, More
    <3>2. QED
      BY <1>2, <2>1, <3>1 DEF Sent
  <2>3. ASSUME job[u].fn # "writenb"
        PROVE  Len(got'[u]) = Len(wire) /\ \A k \in 1..Len(wire) : got'[u][k] = wire[k].miso
    <3>0. /\ Len(got[u]) + Len(rxf) = Len(wire) /\ got[u] \in Seq(SpiBytes)
          /\ \A k \in 1..Len(got[u]) : got[u][k] = wire[k].miso
          /\ \A k \in 1..Len(rxf) : rxf[k] = wire[Len(got[u]) + k].miso
          /\ Len(got[u]) \in Nat /\ Len(rxf) \in Nat /\ Len(wire) \in Nat
      BY <1>2, <2>1, <2>3 DEF Back
    <3>1. CASE job[u].fn # "transfer"
      <4>1. Buffered(u) /\ got' = got
        BY <1>2, <1>3, <2>3, <3>1 DEF Buffered
      <4>2. ~(Len(got[u]) < Len(job[u].tx))
        BY <1>1, <2>1, <4>1 DEF Flow, Wants
      <4>3. Len(got[u]) = Len(wire)
        BY <1>2, <2>2, <3>0, <4>2
      <4>4. QED
        BY <3>0, <4>1, <4>3
    <3>2. CASE job[u].fn = "transfer"
      <4>1. Len(wire) = 1 /\ Len(got[u]) = 0
        BY <1>2, <2>1, <2>2, <3>2 DEF Flow, SeeDone
      <4>2. Len(rxf) = 1 /\ rxf # <<>> /\ rxf[1] = wire[1].miso
        <5>1. Len(rxf) = 1
          BY <3>0, <4>1
        <5>2. 1 \in 1..Len(rxf) /\ Len(got[u]) + 1 = 1
          BY <4>1, <5>1
        <5>3. rxf[1] = wire[Len(got[u]) + 1].miso
          BY <3>0, <5>2
        <5>4. rxf # <<>>
          <6>1. Len(<<>>) # 1
            OBVIOUS
          <6>2. QED
            BY <5>1, <6>1, Zenon
        <5>5. QED
          BY <5>1, <5>2, <5>3, <5>4
      <4>3. got'[u] = <<rxf[1]>>
        BY <1>2, <1>3, <3>2, <4>2
      <4>4. Len(got'[u]) = 1 /\ got'[u][1] = wire[1].miso
        BY <4>2, <4>3
      <4>5. QED
        BY <4>1, <4>4
    <3>3. QED
      BY <3>1, <3>2
  <2>4. Moved(u)'
    BY <1>5, <2>2, <2>3 DEF Moved, Passes
  <2>5. Flow(u)' /\ Through(u)'
    BY <1>1, <1>5, <2>4 DEF Flow, Through
  <2>6. QED
    BY <2>5
<1>7. "off" \in SpiPlaces
  BY DEF SpiPlaces, Late
<1>8. QED
  BY <1>1, <1>2, <1>4, <1>6, <1>7, ByteStep

(* The select pin that the enabling pin is too is cleared after the end.    *)
LEMMA DisableStep == ASSUME SpiInv, NEW u \in Callers, Disable(u) PROVE SpiInv'
<1>1. /\ pc[u] = "disable" /\ level' = [level EXCEPT ![2] = 0] /\ Quiet(u, "idle")
      /\ UNCHANGED <<CS, txf, rxf, seen, TXCnt, got>>
  BY DEF Disable, gpio_write, fifos, counts
<1>2. /\ RegistersOK /\ pc \in [Callers -> SpiPlaces]
      /\ \A w \in Callers : pc[w] \in {"clearing", "starting", "ending"} => seen[w].MODE = 1
  BY <1>1, Underway
<1>3. RegistersOK'
  BY <1>1, <1>2 DEF RegistersOK
<1>4. /\ pc'[u] = "idle" /\ \A w \in Callers : w # u => pc'[w] = pc[w]
      /\ UNCHANGED <<job, wire, alone>>
  BY <1>1, <1>2 DEF Quiet, To
<1>5. ASSUME alone = u PROVE Phase(u)'
  <2>1. Through(u)
    BY <1>5 DEF SpiInv, Phase
  <2>2. Chosen(u)' /\ Fresh(u)' /\ Flow(u)'
    BY <1>4 DEF Chosen, Fresh, Flow, Choosing
  <2>3. Through(u)'
    BY <1>1, <1>4, <2>1 DEF Through, Moved, Passes
  <2>4. QED
    BY <2>2, <2>3 DEF Phase
<1>6. \A w \in Callers : pc'[w] \in {"clearing", "starting", "ending"} => seen'[w].MODE = 1
  BY <1>1, <1>2, <1>4
<1>7. "idle" \in SpiPlaces /\ pc[u] # "idle" /\ pc[u] \notin Late
  BY <1>1 DEF SpiPlaces, Late
<1>8. QED
  BY <1>1, <1>3, <1>5, <1>6, <1>7, StepOf

(* A byte passes on the wire: only while the caller that is alone sends or  *)
(* reads its bytes, and to the card it chose.                               *)
LEMMA ShiftStep == ASSUME SpiInv, Shift PROVE SpiInv'
<1>1. PICK miso \in SpiBytes :
        /\ rxf' = Append(rxf, miso)
        /\ wire' = IF alone = Nobody THEN wire
                   ELSE Append(wire, [slv |-> Reached, mosi |-> Head(txf), miso |-> miso])
  BY DEF Shift
<1>2. /\ CS.TA /\ txf # <<>> /\ txf' = Tail(txf)
      /\ UNCHANGED <<boot, mapped, mode, pull, level, CS, pc, job, seen, TXCnt, got, alone>>
  BY DEF Shift, bootVars, counts
<1>3. Booted
  <2>1. \E u \in Callers : pc[u] \in Late
    BY <1>2 DEF SpiInv, Running
  <2>2. "idle" \notin Late
    BY DEF Late
  <2>3. QED
    BY <2>1, <2>2 DEF SpiInv, SetUp
<1>4. Reached = Selected /\ Selected \in 0..7
  BY <1>3, ReadyBoard
<1>5. txf \in Seq(SpiBytes) /\ rxf \in Seq(SpiBytes) /\ wire \in Seq(Passed)
  BY DEF SpiInv, SpiTypeOK
<1>6. /\ txf' \in Seq(SpiBytes) /\ Len(txf') = Len(txf) - 1 /\ Head(txf) = txf[1]
      /\ txf[1] \in SpiBytes /\ Len(txf) \in Nat /\ Len(txf) >= 1
      /\ \A k \in 1..Len(txf') : txf'[k] = txf[k + 1]
  BY <1>2, <1>5
<1>7. /\ rxf' \in Seq(SpiBytes) /\ Len(rxf') = Len(rxf) + 1 /\ rxf'[Len(rxf) + 1] = miso
      /\ \A k \in 1..Len(rxf) : rxf'[k] = rxf[k]
  BY <1>1, <1>5
<1> DEFINE p == [slv |-> Selected, mosi |-> txf[1], miso |-> miso]
<1>8. p \in Passed /\ p.slv = Selected /\ p.mosi = txf[1] /\ p.miso = miso
  BY <1>4, <1>6 DEF Passed
<1>9. wire' = IF alone = Nobody THEN wire ELSE Append(wire, p)
  BY <1>1, <1>4, <1>6
<1> HIDE DEF p
<1>10. wire' \in Seq(Passed)
  BY <1>5, <1>8, <1>9
<1>11. SpiTypeOK'
  BY <1>2, <1>6, <1>7, <1>10 DEF SpiInv, SpiTypeOK
<1>12. SetUp' /\ Running'
  BY <1>2 DEF SpiInv, SetUp, Running, Booted
<1>13. ASSUME NEW u \in Callers, alone = u PROVE Phase(u)'
  <2>1. Chosen(u) /\ Fresh(u) /\ Flow(u) /\ Through(u)
    BY <1>13 DEF SpiInv, Phase
  <2>2. pc[u] \in {"fill", "drain", "done"}
    <3>1. pc[u] \in SpiPlaces
      BY DEF SpiInv, SpiTypeOK
    <3>2. pc[u] \notin Choosing \cup {"clear", "clearing", "on", "starting"}
      BY <1>2, <2>1 DEF Fresh
    <3>3. pc[u] \notin {"off", "ending", "disable", "idle"}
      BY <1>2, <2>1 DEF Through
    <3>4. QED
      BY <3>1, <3>2, <3>3 DEF SpiPlaces, Late
  <2>3. /\ job[u].tx \in Seq(SpiBytes) /\ TXCnt[u] \in Nat /\ got[u] \in Seq(SpiBytes)
        /\ Sent(u) /\ Back(u)
    BY <1>13, <2>2, ByteFacts
  <2>4. Len(wire) \in Nat /\ Len(txf) \in Nat /\ Len(rxf) \in Nat /\ Len(got[u]) \in Nat
    BY <1>5, <2>3
  <2>5. /\ wire' = Append(wire, p) /\ Len(wire') = Len(wire) + 1 /\ wire'[Len(wire) + 1] = p
        /\ \A k \in 1..Len(wire) : wire'[k] = wire[k]
    <3>1. alone # Nobody
      BY <1>13, SpiAssumption
    <3>2. QED
      BY <1>5, <1>8, <1>9, <3>1
  <2>6. Selected = job[u].slv
    BY <2>1, <2>2 DEF Chosen, Choosing
  <2>7. txf[1] = job[u].tx[Len(wire) + 1]
    BY <1>6, <2>3 DEF Sent
  <2>8. Sent(u)'
    <3>1. Len(wire') + Len(txf') = TXCnt[u]
      <4>1. \A x, y, z \in Nat : y >= 1 /\ x + y = z => (x + 1) + (y - 1) = z
        OBVIOUS
      <4>2. (Len(wire) + 1) + (Len(txf) - 1) = TXCnt[u]
        BY <1>6, <2>3, <2>4, <4>1 DEF Sent
      <4>3. QED
        BY <1>6, <2>5, <4>2
    <3>2. \A k \in 1..Len(wire') : wire'[k].slv = job[u].slv /\ wire'[k].mosi = job[u].tx[k]
      <4> SUFFICES ASSUME NEW k \in 1..Len(wire')
                   PROVE  wire'[k].slv = job[u].slv /\ wire'[k].mosi = job[u].tx[k]
        OBVIOUS
      <4>1. k \in 1..Len(wire) \/ k = Len(wire) + 1
        BY <2>4, <2>5
      <4>2. CASE k \in 1..Len(wire)
        BY <2>3, <2>5, <4>2 DEF Sent, Passes
      <4>3. CASE k = Len(wire) + 1
        BY <1>8, <2>5, <2>6, <2>7, <4>3
      <4>4. QED
        BY <4>1, <4>2, <4>3
    <3>3. \A k \in 1..Len(txf') : txf'[k] = job[u].tx[Len(wire') + k]
      <4> SUFFICES ASSUME NEW k \in 1..Len(txf') PROVE txf'[k] = job[u].tx[Len(wire') + k]
        OBVIOUS
      <4>1. k + 1 \in 1..Len(txf) /\ Len(wire) + (k + 1) = Len(wire') + k
        BY <1>6, <2>4, <2>5
      <4>2. txf[k + 1] = job[u].tx[Len(wire) + (k + 1)]
        BY <2>3, <4>1 DEF Sent
      <4>3. QED
        BY <1>6, <4>1, <4>2
    <3>4. QED
      BY <1>2, <2>3, <3>1, <3>2, <3>3 DEF Sent, Passes
  <2>9. Back(u)'
    <3> SUFFICES ASSUME job[u].fn # "writenb"
                 PROVE  /\ Len(got[u]) + Len(rxf') = Len(wire')
                        /\ \A k \in 1..Len(got[u]) : got[u][k] = wire'[k].miso
                        /\ \A k \in 1..Len(rxf') : rxf'[k] = wire'[Len(got[u]) + k].miso
      BY <1>2 DEF Back
    <3>1. /\ Len(got[u]) + Len(rxf) = Len(wire)
          /\ \A k \in 1..Len(got[u]) : got[u][k] = wire[k].miso
          /\ \A k \in 1..Len(rxf) : rxf[k] = wire[Len(got[u]) + k].miso
      BY <2>3 DEF Back
    <3>2. Len(got[u]) + Len(rxf') = Len(wire')
      <4>1. \A x, y, z \in Nat : x + y = z => x + (y + 1) = z + 1
        OBVIOUS
      <4>2. Len(got[u]) + (Len(rxf) + 1) = Len(wire) + 1
        BY <2>4, <3>1, <4>1
      <4>3. QED
        BY <1>7, <2>5, <4>2
    <3>3. \A k \in 1..Len(got[u]) : k \in 1..Len(wire)
      BY <2>4, <3>1
    <3>4. \A k \in 1..Len(got[u]) : got[u][k] = wire'[k].miso
      BY <2>5, <3>1, <3>3
    <3>5. \A k \in 1..Len(rxf') : rxf'[k] = wire'[Len(got[u]) + k].miso
      <4> SUFFICES ASSUME NEW k \in 1..Len(rxf') PROVE rxf'[k] = wire'[Len(got[u]) + k].miso
        OBVIOUS
      <4>1. CASE k = Len(rxf) + 1
        <5>1. Len(got[u]) + k = Len(wire) + 1
          <6>1. \A x, y, z \in Nat : x + y = z => x + (y + 1) = z + 1
            OBVIOUS
          <6>2. QED
            BY <2>4, <3>1, <4>1, <6>1
        <5>2. QED
          BY <1>7, <1>8, <2>5, <4>1, <5>1
      <4>2. CASE k # Len(rxf) + 1
        <5>1. k \in 1..Len(rxf)
          BY <1>7, <2>4, <4>2
        <5>2. Len(got[u]) + k \in 1..Len(wire)
          <6>1. \A x, y, z \in Nat : x + y = z => \A n \in 1..y : x + n \in 1..z
            OBVIOUS
          <6>2. QED
            BY <2>4, <3>1, <5>1, <6>1
        <5>3. QED
          BY <1>7, <2>5, <3>1, <5>1, <5>2
      <4>3. QED
        BY <4>1, <4>2
    <3>6. QED
      BY <3>2, <3>4, <3>5
  <2>10. Chosen(u)'
    BY <1>2, <2>1 DEF Chosen, Bits, Selected
  <2>11. Fresh(u)' /\ Through(u)'
    BY <1>2, <2>2 DEF Fresh, Through, Choosing
  <2>12. Flow(u)'
    BY <1>2, <2>1, <2>2, <2>8, <2>9 DEF Flow, More, Buffered, Wants
  <2>13. QED
    BY <2>10, <2>11, <2>12 DEF Phase
<1>14. QED
  BY <1>2, <1>11, <1>12, <1>13 DEF SpiInv

(* Who calls while all are idle is alone, and finds the transfer off.       *)
LEMMA BeginTransferStep ==
  ASSUME SpiInv, NEW u \in Callers, NEW t \in Transfers, Begin_Transfer(u, t) PROVE SpiInv'
<1> DEFINE next == IF t.fn = "spi_transfer" THEN "select2" ELSE "clear"
<1>1. /\ Booted /\ pc[u] = "idle" /\ job' = [job EXCEPT ![u] = t]
      /\ t.fn # "spi_transfer" => t.slv = Selected
      /\ TXCnt' = [TXCnt EXCEPT ![u] = 0] /\ got' = [got EXCEPT ![u] = <<>>]
      /\ pc' = [pc EXCEPT ![u] = next] /\ wire' = <<>>
      /\ alone' = IF \A w \in Callers : pc[w] = "idle" THEN u ELSE Nobody
      /\ UNCHANGED <<boot, mapped, mode, pull, level, CS, txf, rxf, seen>>
  BY DEF Begin_Transfer, To, bootVars, fifos
<1>2. /\ next = "select2" => t.fn = "spi_transfer"
      /\ next = "clear" => t.fn # "spi_transfer"
      /\ next \in {"select2", "clear"}
  OBVIOUS
<1> HIDE DEF next
<1>3. next \in SpiPlaces /\ next \notin Late /\ "idle" \notin Late
  BY <1>2 DEF SpiPlaces, Choosing, Late
<1>4. /\ pc \in [Callers -> SpiPlaces] /\ job \in [Callers -> Transfers \cup {NoJob}]
      /\ TXCnt \in [Callers -> Nat] /\ got \in [Callers -> Seq(SpiBytes)]
  BY DEF SpiInv, SpiTypeOK
<1>5. /\ pc'[u] = next /\ job'[u] = t /\ TXCnt'[u] = 0 /\ got'[u] = <<>>
      /\ \A w \in Callers : w # u => pc'[w] = pc[w] /\ job'[w] = job[w]
      /\ pc' \in [Callers -> SpiPlaces] /\ job' \in [Callers -> Transfers \cup {NoJob}]
  BY <1>1, <1>3, <1>4
<1>6. TXCnt' \in [Callers -> Nat] /\ got' \in [Callers -> Seq(SpiBytes)]
  <2>1. <<>> \in Seq(SpiBytes)
    OBVIOUS
  <2>2. QED
    BY <1>1, <1>4, <2>1
<1>7. wire' \in Seq(Passed) /\ alone' \in Callers \cup {Nobody}
  BY <1>1
<1>8. SpiTypeOK'
  BY <1>1, <1>5, <1>6, <1>7 DEF SpiInv, SpiTypeOK
<1>9. SetUp'
  BY <1>1, <1>2, <1>5 DEF SpiInv, SetUp, Booted
<1>10. Running'
  <2>1. CS'.TA => \E w \in Callers : pc'[w] \in Late
    BY <1>1, <1>3, <1>5 DEF SpiInv, Running
  <2>2. \A w \in Callers : pc'[w] # "idle" => job'[w] \in Transfers
    BY <1>5 DEF SpiInv, Running
  <2>3. \A x, w \in Callers : alone' = x /\ w # x => pc'[w] = "idle"
    <3> SUFFICES ASSUME NEW x \in Callers, NEW w \in Callers, alone' = x, w # x
                 PROVE  pc'[w] = "idle"
      OBVIOUS
    <3>1. x # Nobody
      BY SpiAssumption
    <3>2. x = u /\ \A y \in Callers : pc[y] = "idle"
      BY <1>1, <3>1
    <3>3. QED
      BY <1>5, <3>2
  <2>4. QED
    BY <2>1, <2>2, <2>3 DEF Running
<1>11. ASSUME NEW x \in Callers, alone' = x PROVE Phase(x)'
  <2>1. x # Nobody
    BY SpiAssumption
  <2>2. x = u /\ \A y \in Callers : pc[y] = "idle"
    BY <1>1, <1>11, <2>1
  <2>3. ~CS'.TA
    BY <1>1, <1>3, <2>2 DEF SpiInv, Running
  <2>4. Selected' = Selected
    BY <1>1 DEF Selected
  <2>5. Chosen(u)'
    BY <1>1, <1>2, <1>5, <2>4 DEF Chosen, Choosing
  <2>6. Fresh(u)'
    BY <1>1, <1>2, <1>5, <2>3 DEF Fresh, Choosing
  <2>7. Flow(u)' /\ Through(u)'
    BY <1>2, <1>5 DEF Flow, Through
  <2>8. QED
    BY <2>2, <2>5, <2>6, <2>7 DEF Phase
<1>12. QED
  BY <1>8, <1>9, <1>10, <1>11 DEF SpiInv

(* A call of the set-up: none undoes what an earlier one made, and the last *)
(* three make the settings.                                                 *)
LEMMA BootStep == ASSUME SpiInv, Boot PROVE SpiInv'
<1> DEFINE c == Boots[boot]
<1>1. /\ ~Booted /\ boot' = boot + 1 /\ gpio_fsel(c) /\ spi_set(c)
      /\ IF c.fn = "write" THEN level' = [level EXCEPT ![c.pin] = c.arg] ELSE level' = level
      /\ UNCHANGED <<txf, rxf, pc, job, seen, TXCnt, got, wire, alone>>
  BY DEF Boot, gpio_write, fifos, counts, ghost
<1>2. boot \in Nat \ {0} /\ Len(Boots) \in Nat /\ boot <= Len(Boots) /\ boot \in 1..Len(Boots)
  BY <1>1, BootsFit DEF SpiInv, SpiTypeOK, Booted
<1>3. c \in SetUpCall /\ Fits(c)
  BY <1>2, BootsFit DEF AllFit
<1>4. /\ boot = Len(Boots) - 2 => c.fn = "MODE"
      /\ boot = Len(Boots) - 1 => c.fn = "CHIP"
      /\ boot = Len(Boots) => c.fn = "POL"
  BY BootsFit
<1> HIDE DEF c
<1>5. c.fn \in SetUpFn /\ c.pin \in 0..25 /\ c.arg \in SetUpArg
  BY <1>3 DEF SetUpCall
<1>6. alone = Nobody /\ \A u \in Callers : pc[u] = "idle"
  BY <1>1 DEF SpiInv, SetUp
<1>7. mode' \in [Pins -> {"INPT", "OUTP", "ALT0"}]
  <2>1. mode \in [Pins -> {"INPT", "OUTP", "ALT0"}]
    BY DEF SpiInv, SpiTypeOK
  <2>2. c.fn = "fsel" => c.arg \in {"OUTP", "INPT", "ALT0"}
    BY <1>3 DEF Fits
  <2>3. QED
    BY <1>1, <2>1, <2>2 DEF gpio_fsel
<1>8. level' \in [Pins -> {0, 1}]
  <2>1. level \in [Pins -> {0, 1}] /\ (c.fn = "write" => c.arg = 0)
    BY <1>3 DEF SpiInv, SpiTypeOK, Fits
  <2>2. QED
    BY <1>1, <2>1
<1>9. /\ CS' \in Control /\ ~CS'.TA
      /\ c.fn = "MODE" => CS'.MODE = 1
      /\ c.fn \in {"CHIP", "POL"} => CS'.MODE = CS.MODE
  <2>1. CS \in Control /\ ~CS.TA
    <3>1. "idle" \notin Late
      BY DEF Late
    <3>2. QED
      BY <1>6, <3>1 DEF SpiInv, SpiTypeOK, Running
  <2>2. DOMAIN CS = {"TA", "MODE", "CHIP", "POL"}
    BY <2>1 DEF Control
  <2>3. /\ c.fn = "MODE" => c.arg = 1
        /\ c.fn \in {"CHIP", "POL"} => c.arg = 0
        /\ c.fn # "TA"
    BY <1>3, <1>5 DEF Fits, SetUpFn
  <2>4. Reset0 \in Control /\ ~Reset0.TA
    BY DEF Reset0, Control
  <2>5. CASE c.fn = "begin"
    BY <1>1, <2>4, <2>5 DEF spi_set
  <2>6. CASE c.fn = "MODE"
    BY <1>1, <2>1, <2>2, <2>3, <2>6 DEF spi_set, Control
  <2>7. CASE c.fn = "CHIP"
    BY <1>1, <2>1, <2>2, <2>3, <2>7 DEF spi_set, Control
  <2>8. CASE c.fn = "POL"
    BY <1>1, <2>1, <2>2, <2>3, <2>8 DEF spi_set, Control
  <2>9. CASE c.fn \notin {"begin", "MODE", "CHIP", "POL"}
    BY <1>1, <2>1, <2>2, <2>3, <2>9 DEF spi_set
  <2>10. QED
    BY <2>5, <2>6, <2>7, <2>8, <2>9
<1>10. boot' \in Nat \ {0}
  BY <1>1, <1>2
<1>11. SpiTypeOK'
  BY <1>1, <1>7, <1>8, <1>9, <1>10 DEF SpiInv, SpiTypeOK
<1>12. \A k \in 1..(boot' - 1) :
         Boots[k].fn = "fsel" /\ Boots[k].pin \in Needed
           => mode'[Boots[k].pin] = Right(Boots[k].pin)
  <2> SUFFICES ASSUME NEW k \in 1..(boot' - 1), Boots[k].fn = "fsel", Boots[k].pin \in Needed
               PROVE  mode'[Boots[k].pin] = Right(Boots[k].pin)
    OBVIOUS
  <2>1. mode \in [Pins -> {"INPT", "OUTP", "ALT0"}] /\ Needed \subseteq Pins
    BY DEF SpiInv, SpiTypeOK, Needed, Pins
  <2>2. CASE c.fn = "fsel" /\ c.pin = Boots[k].pin
    <3>1. c.arg = Right(c.pin)
      BY <1>3, <2>2 DEF Fits
    <3>2. mode' = [mode EXCEPT ![c.pin] = c.arg] /\ c.pin \in Pins
      BY <1>1, <2>1, <2>2 DEF gpio_fsel
    <3>3. QED
      BY <2>1, <2>2, <3>1, <3>2
  <2>3. CASE ~(c.fn = "fsel" /\ c.pin = Boots[k].pin)
    <3>1. k # boot
      BY <2>3 DEF c
    <3>2. k \in 1..(boot - 1)
      BY <1>1, <1>2, <3>1
    <3>3. mode[Boots[k].pin] = Right(Boots[k].pin)
      BY <3>2 DEF SpiInv, SetUp
    <3>4. mode'[Boots[k].pin] = mode[Boots[k].pin]
      BY <1>1, <2>1, <2>3 DEF gpio_fsel
    <3>5. QED
      BY <3>3, <3>4
  <2>4. QED
    BY <2>2, <2>3
<1>13. boot' > Len(Boots) - 2 => CS'.MODE = 1
  <2> SUFFICES ASSUME boot' > Len(Boots) - 2 PROVE CS'.MODE = 1
    OBVIOUS
  <2>1. boot = Len(Boots) - 2 \/ boot = Len(Boots) - 1 \/ boot = Len(Boots)
    BY <1>1, <1>2
  <2>2. boot # Len(Boots) - 2 => CS.MODE = 1
    BY <1>2, <2>1 DEF SpiInv, SetUp
  <2>3. QED
    BY <1>4, <1>9, <2>1, <2>2
<1>14. SetUp'
  BY <1>1, <1>6, <1>12, <1>13 DEF SetUp
<1>15. Running'
  BY <1>1, <1>6, <1>9, SpiAssumption DEF Running
<1>16. \A u \in Callers : alone' = u => Phase(u)'
  BY <1>1, <1>6, SpiAssumption
<1>17. QED
  BY <1>11, <1>14, <1>15, <1>16 DEF SpiInv
-----------------------------------------------------------------------------
LEMMA InitSpi == SpiInit => SpiInv
<1> SUFFICES ASSUME SpiInit PROVE SpiInv
  OBVIOUS
<1>1. /\ Reset0 \in Control /\ ~Reset0.TA /\ "idle" \in SpiPlaces /\ 2 \in Pins
      /\ <<>> \in Seq(SpiBytes) /\ <<>> \in Seq(Passed)
  BY DEF Reset0, Control, SpiPlaces, Pins
<1>2. SpiTypeOK
  BY <1>1 DEF SpiInit, SpiTypeOK
<1>3. boot = 1 /\ Len(Boots) \in Nat /\ Len(Boots) >= 3
  BY BootsFit DEF SpiInit
<1>4. ~(boot > Len(Boots) - 2)
  BY <1>3
<1>5. \A u \in Callers : pc[u] = "idle"
  BY DEF SpiInit
<1>6. SetUp
  <2>1. \A k \in 1..(boot - 1) : FALSE
    BY <1>3
  <2>2. alone = Nobody
    BY DEF SpiInit
  <2>3. QED
    BY <1>4, <1>5, <2>1, <2>2 DEF SetUp
<1>7. Running /\ \A u \in Callers : alone # u
  BY <1>1, <1>5, SpiAssumption DEF SpiInit, Running
<1>8. QED
  BY <1>2, <1>6, <1>7 DEF SpiInv

LEMMA SpiStep == SpiInv /\ [SpiNext]_spiVars => SpiInv'
<1> SUFFICES ASSUME SpiInv, [SpiNext]_spiVars PROVE SpiInv'
  OBVIOUS
<1>1. CASE Boot
  BY <1>1, BootStep
<1>2. CASE Shift
  BY <1>2, ShiftStep
<1>3. ASSUME NEW u \in Callers, Transferring(u) PROVE SpiInv'
  BY <1>3, SelectStep, ReadCSStep, WriteCSStep, PushStep, FullStep, PopStep, SeeDoneStep,
     DisableStep DEF Transferring
<1>4. ASSUME NEW u \in Callers, NEW t \in Transfers, Begin_Transfer(u, t) PROVE SpiInv'
  BY <1>4, BeginTransferStep
<1>5. CASE UNCHANGED spiVars
  <2>1. UNCHANGED <<boot, mapped, mode, pull, level, CS, txf, rxf, pc, job, seen, TXCnt, got,
                    wire, alone>>
    BY <1>5 DEF spiVars, bootVars, fifos, counts, ghost
  <2>2. SpiTypeOK' /\ SetUp' /\ Running'
    BY <2>1 DEF SpiInv, SpiTypeOK, SetUp, Running, Booted
  <2>3. ASSUME NEW u \in Callers, alone' = u PROVE Phase(u)'
    <3>1. Phase(u)
      BY <2>1, <2>3 DEF SpiInv
    <3>2. QED
      BY <2>1, <3>1 DEF Phase, Chosen, Bits, Selected, Fresh, Flow, Sent, Passes, Back, More,
                        Buffered, Wants, Through, Moved
  <2>4. QED
    BY <2>2, <2>3 DEF SpiInv
<1>6. QED
  BY <1>1, <1>2, <1>3, <1>4, <1>5 DEF SpiNext

LEMMA SpiGives == SpiInv => TransferMovesBytes
<1> SUFFICES ASSUME SpiInv, NEW u \in Callers, alone = u, pc[u] = "idle"
             PROVE  /\ Len(wire) = Len(job[u].tx)
                    /\ \A i \in DOMAIN wire : wire[i].slv = job[u].slv
                                              /\ wire[i].mosi = job[u].tx[i]
                    /\ job[u].fn # "writenb" => got[u] = [i \in DOMAIN wire |-> wire[i].miso]
  BY DEF TransferMovesBytes
<1>1. Moved(u)
  BY DEF SpiInv, Phase, Through
<1>2. wire \in Seq(Passed) /\ got[u] \in Seq(SpiBytes)
  BY DEF SpiInv, SpiTypeOK
<1>3. DOMAIN wire = 1..Len(wire) /\ DOMAIN got[u] = 1..Len(got[u])
  BY <1>2
<1>4. got[u] = [i \in DOMAIN got[u] |-> got[u][i]]
  BY <1>2
<1>5. QED
  BY <1>1, <1>3, <1>4 DEF Moved, Passes

(* A transfer during which no other is made moves each of its bytes, in     *)
(* order, to the card it names, and brings back what the card sent: for any *)
(* number of threads, any transfers and any depth of the FIFOs, after any   *)
(* transfers of other threads that disturbed each other (spi_transfer,      *)
(* bcm2835_spi_transfernb, bcm2835_spi_transfer, bcm2835_spi_writenb).      *)
THEOREM TransfersAreComplete == SpiSpec => []TransferMovesBytes
<1>1. SpiInit => SpiInv
  BY InitSpi
<1>2. SpiInv /\ [SpiNext]_spiVars => SpiInv'
  BY SpiStep
<1>3. SpiInv => TransferMovesBytes
  BY SpiGives
<1>4. QED
  BY <1>1, <1>2, <1>3, PTL DEF SpiSpec
-----------------------------------------------------------------------------
(* A behaviour of the board is one of each of its units.                    *)
LEMMA UnitStep ==
  [Next]_boardVars =>
    [SpiNext]_spiVars /\ [I2cNext]_i2cVars /\ [TimerNext]_timerVars
<1> SUFFICES ASSUME [Next]_boardVars
             PROVE  [SpiNext]_spiVars /\ [I2cNext]_i2cVars /\ [TimerNext]_timerVars
  OBVIOUS
<1>1. CASE Spi
  BY <1>1 DEF Spi
<1>2. CASE I2c
  BY <1>2 DEF I2c
<1>3. CASE Timer
  BY <1>3 DEF Timer
<1>4. CASE Acquire
  BY <1>4 DEF Acquire
<1>5. CASE UNCHANGED boardVars
  BY <1>5 DEF boardVars
<1>6. QED
  BY <1>1, <1>2, <1>3, <1>4, <1>5 DEF Next

LEMMA UnitSpecs == Spec => SpiSpec /\ I2cSpec /\ TimerSpec
<1>1. Init => SpiInit /\ I2cInit /\ TimerInit
  BY DEF Init
<1>2. QED
  BY <1>1, UnitStep, PTL DEF Spec, SpiSpec, I2cSpec, TimerSpec

(* What the drivers of SPI, I2C and the system timer (bcm2835.c, SPI_Conn)  *)
(* do for their callers holds of the whole board, as its run checks it: of  *)
(* I2C, OkMeansAll, without the commands of a repeated start that exceed    *)
(* the FIFO.                                                                *)
THEOREM BoardCorrect == Spec => [](TransferMovesBytes /\ OkMeansAll /\ DelayLasts)
BY UnitSpecs, TransfersAreComplete, OkCallsAreComplete, DelaysLast, PTL
=============================================================================
