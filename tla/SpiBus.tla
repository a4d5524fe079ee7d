------------------------------- MODULE SpiBus -------------------------------
(***************************************************************************)
(* SPI transfers to the cards, down to the registers of the bcm2835.  Three*)
(* pins select one of eight cards, the control register starts and ends a  *)
(* transfer, and two FIFOs hold its bytes while the caller polls.  No lock *)
(* protects any of this, and bcm2835_peri_set_bits reads a register before *)
(* it writes it.                                                           *)
(***************************************************************************)
EXTENDS Naturals, SequencesExt

CONSTANTS
  Callers,     \* threads that transfer
  SpiBytes,    \* the values of a byte
  SpiFifo,     \* bytes that a FIFO holds
  Transfers    \* calls: function, card and bytes

Nobody == "nobody"

ASSUME SpiAssumption ==
  /\ SpiFifo \in Nat \ {0} /\ Nobody \notin Callers
  /\ Transfers \subseteq
       [fn : {"spi_transfer", "transfernb", "transfer", "writenb"}, slv : 0..7,
        tx : Seq(SpiBytes)]
  /\ \A t \in Transfers : /\ t.tx # <<>>
                          /\ t.fn = "transfer" => Len(t.tx) = 1

VARIABLES
  boot,        \* the next call of init_spi_bcm, which is run twice
  mapped,      \* whether the registers are mapped
  mode, level, pull,   \* of the pins
  CS,          \* the control register: TA and the settings
  txf, rxf,    \* the FIFOs
  pc, job,     \* where each caller is, and the transfer it makes
  seen,        \* the control register as bcm2835_peri_set_bits read it
  TXCnt, got,  \* the bytes sent and received
  wire,        \* what passed on the wire since the last call began
  alone        \* the caller that has the bus to itself since its call began

bootVars == <<boot, mapped, mode, pull>>
fifos    == <<txf, rxf>>
counts   == <<TXCnt, got>>
ghost    == <<wire, alone>>
spiVars  == <<bootVars, level, CS, fifos, pc, job, seen, counts, ghost>>

Pins      == 2..25
NoJob     == [fn |-> "none", slv |-> 0, tx |-> <<>>]
NoCard    == 8
-----------------------------------------------------------------------------
(* The calls of init_spi_bcm, in order.  GPIO_Decoder_Enable is pin 2 as    *)
(* is the first select pin, GPIO_Program_Failed pin 4 as is the third.      *)
Do(fn, pins, arg) == [i \in 1..Len(pins) |-> [fn |-> fn, pin |-> pins[i], arg |-> arg]]
Slave_itr == <<7, 8, 25, 24, 23, 18, 15, 14>>
SpiPins   == <<9, 10, 11>>

init_gpio ==
  Do("init", <<0>>, 1) \o Do("fsel", <<2, 2, 3, 4, 13, 6, 5, 21, 4>>, "OUTP")
  \o Do("write", <<13, 6, 5, 21>>, 0)
  \o Do("fsel", Slave_itr, "INPT") \o Do("set_pud", Slave_itr, "DOWN")
  \o Do("fsel", <<20>>, "OUTP") \o Do("write", <<20>>, 0)

spi_begin == Do("fsel", SpiPins, "ALT0") \o Do("begin", <<0>>, 0)

init_spi_bcm ==
  Do("init", <<0>>, 1) \o init_gpio \o spi_begin
  \o Do("MODE", <<0>>, 1) \o Do("CHIP", <<0>>, 0) \o Do("POL", <<0>>, 0)

(* By the main thread in initSPI_Cnn, then by the SPI thread.               *)
Boots  == init_spi_bcm \o init_spi_bcm
Booted == boot > Len(Boots)

Reset0 == [TA |-> FALSE, MODE |-> 0, CHIP |-> 0, POL |-> 0]

SpiInit ==
  /\ boot = 1 /\ mapped = FALSE
  /\ mode = [p \in Pins |-> "INPT"] /\ pull = [p \in Pins |-> "OFF"]
  /\ level = [p \in Pins |-> 0] /\ CS = Reset0 /\ txf = <<>> /\ rxf = <<>>
  /\ pc = [u \in Callers |-> "idle"] /\ job = [u \in Callers |-> NoJob]
  /\ seen = [u \in Callers |-> Reset0]
  /\ TXCnt = [u \in Callers |-> 0] /\ got = [u \in Callers |-> <<>>]
  /\ wire = <<>> /\ alone = Nobody

(* What the call c makes of a register.                                     *)
gpio_write(pin, on) == level' = [level EXCEPT ![pin] = on]

(* The value in GPPUD is clocked into one pin.                              *)
Clocked(pin, pud) == [pull EXCEPT ![pin] = pud]

gpio_fsel(c)    == mode' = IF c.fn = "fsel" THEN [mode EXCEPT ![c.pin] = c.arg] ELSE mode
gpio_set_pud(c) == pull' = IF c.fn = "set_pud" THEN Clocked(c.pin, c.arg) ELSE pull
spi_set(c)      == CS' = IF c.fn = "begin" THEN Reset0
                         ELSE IF c.fn \in DOMAIN CS THEN [CS EXCEPT ![c.fn] = c.arg] ELSE CS

(* A failure to map the registers is only printed, and the next access ends *)
(* the program unless a second attempt comes first.                         *)
bcm2835_init(c) ==
  IF c.fn = "init" THEN mapped' \in BOOLEAN ELSE mapped /\ UNCHANGED mapped

Boot ==
  /\ ~Booted /\ boot' = boot + 1
  /\ LET c == Boots[boot] IN
     /\ bcm2835_init(c) /\ gpio_fsel(c) /\ gpio_set_pud(c) /\ spi_set(c)
     /\ IF c.fn = "write" THEN gpio_write(c.pin, c.arg) ELSE UNCHANGED level
  /\ UNCHANGED <<fifos, pc, job, seen, counts, ghost>>
-----------------------------------------------------------------------------
(* The hardware.  A card hears a byte when the decoder selects it and the   *)
(* pins and the settings are those it expects.                              *)
Selected == level[2] + 2 * level[3] + 4 * level[4]
Wired    == /\ \A p \in {2, 3, 4} : mode[p] = "OUTP"
            /\ \A p \in Range(SpiPins) : mode[p] = "ALT0"
            /\ CS.MODE = 1 /\ CS.CHIP = 0 /\ CS.POL = 0
Reached  == IF Wired THEN Selected ELSE NoCard

SpiTXD  == CS.TA /\ Len(txf) < SpiFifo
SpiRXD  == rxf # <<>>
SpiDONE == CS.TA /\ txf = <<>>

Shift ==
  /\ CS.TA /\ txf # <<>> /\ Len(rxf) < SpiFifo
  /\ \E miso \in SpiBytes :
       /\ rxf' = Append(rxf, miso)
       /\ wire' = IF alone = Nobody THEN wire
                  ELSE Append(wire, [slv |-> Reached, mosi |-> Head(txf), miso |-> miso])
  /\ txf' = Tail(txf)
  /\ UNCHANGED <<bootVars, level, CS, pc, job, seen, counts, alone>>
-----------------------------------------------------------------------------
(* The threads.  A poll of the status and the access it allows are a step.  *)
To(u, next) == pc' = [pc EXCEPT ![u] = next]
Quiet(u, next) ==
  To(u, next) /\ UNCHANGED <<bootVars, job, wire, alone>>

(* A call of one of the functions; only spi_transfer selects a card, the    *)
(* others reach the one that is selected.                                   *)
Begin_Transfer(u, t) ==
  /\ Booted /\ pc[u] = "idle" /\ job' = [job EXCEPT ![u] = t]
  /\ t.fn # "spi_transfer" => t.slv = Selected
  /\ TXCnt' = [TXCnt EXCEPT ![u] = 0] /\ got' = [got EXCEPT ![u] = <<>>]
  /\ To(u, IF t.fn = "spi_transfer" THEN "select2" ELSE "clear")
  /\ wire' = <<>>
  /\ alone' = IF \A w \in Callers : pc[w] = "idle" THEN u ELSE Nobody
  /\ UNCHANGED <<bootVars, level, CS, fifos, seen>>

SlaveBit(slv, pin) == (slv \div (2^(pin - 2))) % 2

select_Slave(u) ==
  /\ \E pin \in {2, 3, 4} :
       /\ pc[u] = <<"select2", "select3", "select4">>[pin - 1]
       /\ gpio_write(pin, SlaveBit(job[u].slv, pin))
       /\ Quiet(u, <<"select3", "select4", "clear">>[pin - 1])
  /\ UNCHANGED <<CS, fifos, seen, counts>>

(* bcm2835_peri_set_bits: a read, and a write of what was read with the bit *)
(* set.  Writing CLEAR empties the FIFOs and is not kept.                   *)
SetBits == [clear |-> "clearing", on |-> "starting", off |-> "ending"]

ReadCS(u) ==
  /\ pc[u] \in DOMAIN SetBits /\ Quiet(u, SetBits[pc[u]])
  /\ seen' = [seen EXCEPT ![u] = CS]
  /\ UNCHANGED <<level, CS, fifos, counts>>

(* Mutant: the FIFOs are not emptied.                                       *)
Cleared_Not(f) == f

Cleared(f) == <<>>

WriteCS(u) ==
  /\ \/ /\ pc[u] = "clearing" /\ CS' = seen[u] /\ Quiet(u, "on")
        /\ txf' = Cleared(txf) /\ rxf' = Cleared(rxf)
     \/ pc[u] = "starting" /\ CS' = [seen[u] EXCEPT !.TA = TRUE]
        /\ Quiet(u, "fill") /\ UNCHANGED fifos
     \/ pc[u] = "ending" /\ CS' = [seen[u] EXCEPT !.TA = FALSE]
        /\ Quiet(u, IF job[u].fn = "spi_transfer" THEN "disable" ELSE "idle")
        /\ UNCHANGED fifos
  /\ UNCHANGED <<level, seen, counts>>

(* bcm2835_peri_read_nb and bcm2835_peri_write_nb of the FIFO register.     *)
ReadFifo     == rxf' = Tail(rxf)
WriteFifo(b) == txf' = Append(txf, b)

Buffered(u) == job[u].fn \in {"spi_transfer", "transfernb"}
More(u)     == TXCnt[u] < Len(job[u].tx)
Wants(u)    == Buffered(u) => Len(got[u]) < Len(job[u].tx)

(* As many bytes as the FIFO takes, or one of the slower functions.         *)
Push(u) ==
  /\ pc[u] = "fill" /\ More(u) /\ SpiTXD
  /\ WriteFifo(job[u].tx[TXCnt[u] + 1])
  /\ TXCnt' = [TXCnt EXCEPT ![u] = @ + 1]
  /\ Quiet(u, IF Buffered(u) THEN "fill"
              ELSE IF job[u].fn = "transfer" THEN "done" ELSE "drain")
  /\ UNCHANGED <<level, CS, rxf, seen, got>>

Full(u) ==
  /\ pc[u] = "fill" /\ Buffered(u) /\ ~(More(u) /\ SpiTXD)
  /\ Quiet(u, "drain") /\ UNCHANGED <<level, CS, fifos, seen, counts>>

(* writenb throws away what comes back, also while it waits for the end.    *)
Pop(u) ==
  /\ SpiRXD /\ Wants(u)
  /\ \/ pc[u] = "drain"
     \/ pc[u] = "done" /\ job[u].fn = "writenb" /\ ~SpiDONE
  /\ got' = [got EXCEPT ![u] = IF Buffered(u) THEN Append(@, Head(rxf)) ELSE <<>>]
  /\ ReadFifo
  /\ Quiet(u, pc[u]) /\ UNCHANGED <<level, CS, txf, seen, TXCnt>>

Empty(u) ==
  /\ pc[u] = "drain" /\ ~(SpiRXD /\ Wants(u))
  /\ Quiet(u, IF More(u) \/ (Buffered(u) /\ Wants(u)) THEN "fill" ELSE "done")
  /\ UNCHANGED <<level, CS, fifos, seen, counts>>

SeeDone(u) ==
  /\ pc[u] = "done" /\ SpiDONE /\ Quiet(u, "off")
  /\ \/ job[u].fn # "transfer" /\ UNCHANGED <<rxf, got>>
     \/ /\ job[u].fn = "transfer" /\ SpiRXD
        /\ got' = [got EXCEPT ![u] = <<Head(rxf)>>] /\ ReadFifo
     \/ /\ job[u].fn = "transfer" /\ ~SpiRXD /\ UNCHANGED rxf
        /\ \E any \in SpiBytes : got' = [got EXCEPT ![u] = <<any>>]
  /\ UNCHANGED <<level, CS, txf, seen, TXCnt>>

(* GPIO_Decoder_Enable is written last: it clears the first select pin.     *)
Disable(u) ==
  /\ pc[u] = "disable" /\ gpio_write(2, 0) /\ Quiet(u, "idle")
  /\ UNCHANGED <<CS, fifos, seen, counts>>

Transferring(u) ==
  \/ select_Slave(u) \/ ReadCS(u) \/ WriteCS(u) \/ Push(u) \/ Full(u)
  \/ Pop(u) \/ Empty(u) \/ SeeDone(u) \/ Disable(u)
-----------------------------------------------------------------------------
SpiNext ==
  \/ Boot \/ Shift
  \/ \E u \in Callers : Transferring(u) \/ \E t \in Transfers : Begin_Transfer(u, t)

SpiSpec == SpiInit /\ [][SpiNext]_spiVars

(* A transfer during which no other is made moves each of its bytes, in     *)
(* order, to the card it names and no other, and brings back what that card *)
(* sent, whatever earlier transfers left in the FIFOs, on the pins and in   *)
(* the register, those that disturbed each other included.                  *)
TransferMovesBytes ==
  \A u \in Callers :
    alone = u /\ pc[u] = "idle" =>
      /\ Len(wire) = Len(job[u].tx)
      /\ \A i \in DOMAIN wire : wire[i].slv = job[u].slv /\ wire[i].mosi = job[u].tx[i]
      /\ job[u].fn # "writenb" =>
           got[u] = [i \in DOMAIN wire |-> wire[i].miso]
=============================================================================
