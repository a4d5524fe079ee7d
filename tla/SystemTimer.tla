---------------------------- MODULE SystemTimer ----------------------------
(***************************************************************************)
(* Delays of the bcm2835 driver.  The system timer is one counter read as  *)
(* two words while it runs; bcm2835_st_read reads the high word again to   *)
(* see whether it was carried into, and a delay polls it.                  *)
(***************************************************************************)
EXTENDS Integers

CONSTANTS
  StWidth,     \* the number of values of a word: 2^32
  Delays,      \* the microseconds that delayMicroseconds is called with
  MaxTicks     \* bounds the ticks of the counter, in carries of the low word

ASSUME TimerAssumption ==
  StWidth \in Nat \ {0} /\ Delays \subseteq Nat /\ MaxTicks \in Nat

VARIABLES
  CHI, CLO,    \* the counter
  timer,       \* where the reader is
  hi, lo, st,  \* what it has read
  micros, start,      \* the delay, and the time at which it began
  entered      \* the time when the delay was asked for

readVars  == <<timer, hi, lo, st>>
timerVars == <<CHI, CLO, readVars, micros, start, entered>>

Time(h, l) == h * StWidth + l
Now == Time(CHI, CLO)

(* The start of a delay that has not read its start.                       *)
Unread == -1

TimerInit ==
  /\ CHI = 0 /\ CLO \in 0..(StWidth - 1)
  /\ timer = "idle" /\ hi = 0 /\ lo = 0 /\ st = 0
  /\ micros = 0 /\ start = 0 /\ entered = 0

Tick ==
  /\ IF CLO < StWidth - 1 THEN CLO' = CLO + 1 /\ CHI' = CHI
                          ELSE CLO' = 0 /\ CHI' = CHI + 1
  /\ CHI' <= MaxTicks
  /\ UNCHANGED <<readVars, micros, start, entered>>
-----------------------------------------------------------------------------
bcm2835_delayMicroseconds(m) ==
  /\ timer = "idle" /\ timer' = "high" /\ micros' = m /\ start' = Unread
  /\ entered' = Now /\ UNCHANGED <<CHI, CLO, hi, lo, st>>

ReadHigh ==
  /\ timer = "high" /\ timer' = "low" /\ hi' = CHI
  /\ UNCHANGED <<CHI, CLO, lo, st, micros, start, entered>>

ReadLow ==
  /\ timer = "low" /\ timer' = "again" /\ lo' = CLO
  /\ UNCHANGED <<CHI, CLO, hi, st, micros, start, entered>>

(* A read returns the time t to the delay: it is the start of the delay, or *)
(* decides whether the delay is over.                                       *)
Read(t) ==
  /\ UNCHANGED <<CHI, CLO, hi, lo, micros, entered>>
  /\ \/ start = Unread /\ start' = t /\ timer' = "high"
     \/ /\ start # Unread /\ UNCHANGED start
        /\ timer' = IF t < start + micros THEN "high" ELSE "idle"

(* Mutant: the carry is not looked for.                                     *)
ReadAgain_Torn == timer = "again" /\ st' = CHI /\ Read(Time(hi, lo))

ReadAgain ==
  /\ timer = "again" /\ st' = CHI
  /\ IF CHI = hi THEN Read(Time(hi, lo))
     ELSE timer' = "carried" /\ UNCHANGED <<CHI, CLO, hi, lo, micros, start, entered>>

ReadCarried == timer = "carried" /\ Read(Time(st, CLO)) /\ UNCHANGED st

bcm2835_st_read == ReadHigh \/ ReadLow \/ ReadAgain \/ ReadCarried
-----------------------------------------------------------------------------
TimerNext == Tick \/ bcm2835_st_read \/ \E m \in Delays : bcm2835_delayMicroseconds(m)

TimerSpec == TimerInit /\ [][TimerNext]_timerVars

(* A delay that has returned lasted as long as asked, however the low word  *)
(* was carried between the reads and long as the thread was away: the time  *)
(* read is never before the call of bcm2835_st_read nor after its end.      *)
DelayLasts == timer = "idle" => Now >= entered + micros
=============================================================================
