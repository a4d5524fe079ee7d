------------------------------- MODULE Board -------------------------------
(***************************************************************************)
(* The part of the program that drives the cards: acquisition by its       *)
(* threads (Acquisition), and below it the driver of the board's           *)
(* peripherals, SPI (SpiBus), I2C (I2cBus) and the system timer            *)
(* (SystemTimer).  A transfer is one step of the acquisition, so that they *)
(* share no state here; a behaviour is one of one of them.                 *)
(***************************************************************************)
EXTENDS SpiBus, I2cBus, SystemTimer, Acquisition

VARIABLE unit

boardVars == <<unit, spiVars, i2cVars, timerVars, acqVars>>

Init ==
  /\ unit \in {"spi", "i2c", "timer", "acquisition"}
  /\ SpiInit /\ I2cInit /\ TimerInit /\ AcqInit
  /\ unit # "timer" => CLO = 0

Spi   == unit = "spi" /\ SpiNext /\ UNCHANGED <<unit, i2cVars, timerVars, acqVars>>
I2c   == unit = "i2c" /\ I2cNext /\ UNCHANGED <<unit, spiVars, timerVars, acqVars>>
Timer == unit = "timer" /\ TimerNext /\ UNCHANGED <<unit, spiVars, i2cVars, acqVars>>

Acquire ==
  unit = "acquisition" /\ AcqNext /\ UNCHANGED <<unit, spiVars, i2cVars, timerVars>>

Next == Spi \/ I2c \/ Timer \/ Acquire

Spec == Init /\ [][Next]_boardVars /\ (unit = "acquisition" => AcqFairness)
=============================================================================
