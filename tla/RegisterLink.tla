---------------------------- MODULE RegisterLink ----------------------------
(***************************************************************************)
(* Registers of a card written and read over SPI.  write_one_register      *)
(* packs a request, cSender frames it, spi_send clocks it out byte by      *)
(* byte; a card runs cParser and ParseMsg on what arrives and queues the   *)
(* answer to a read, which spi_receive clocks in with dummy bytes.  The    *)
(* station has no way to see whether the card understood.                  *)
(*                                                                         *)
(* A frame: SYNC1 SYNC2 ID FUN length(2) payload sum(2), low byte first,   *)
(* the payload of a request: type, register(2), value.                     *)
(***************************************************************************)
EXTENDS Naturals, SequencesExt

CONSTANTS
  RegWidth,    \* the number of values of a byte: 256 in the code
  SYNC1, SYNC2, CardID,
  Dummy,       \* what the station sends while it reads, 0x55
  Idle,        \* what it reads when the card has nothing to send
  Registers,   \* the registers of the card
  Requests,    \* what write_one_register is called with: fun, type, reg, value
  MaxResets    \* bounds the restarts of the card

RegByte == 0..(RegWidth - 1)
Cell    == [1..4 -> RegByte]
Request == [fun : {0, 1}, type : 1..7, reg : Registers, value : Cell]
Nothing == [fun |-> 2, type |-> 0, reg |-> 0, value |-> <<0, 0, 0, 0>>]

ASSUME RegisterAssumption ==
  /\ RegWidth \in Nat /\ RegWidth > 7
  /\ {SYNC1, SYNC2, CardID, Dummy, Idle} \subseteq RegByte /\ SYNC1 \notin {SYNC2, Dummy}
  /\ Registers \subseteq 0..(RegWidth * RegWidth - 1) /\ Requests \subseteq Request
  /\ MaxResets \in Nat

VARIABLES
  station,     \* where write_one_register is: idle, sending, paused, reading
  data,        \* the request it was called with
  tx,          \* the bytes of the frame still to send
  p,           \* the bytes read
  status, CheckSum, msgCheckSum,    \* cParser on the card
  head,        \* ID, FUN, Length and the payload that cParser fills
  MemMAP,      \* the card's registers
  out,         \* the answer the card has still to send
  obeyed,      \* whether the card has done what data asks
  shaken,      \* whether the card restarted since the link was last at rest
  resets       \* restarts of the card

parserVars  == <<status, CheckSum, msgCheckSum, head>>
cardVars    == <<parserVars, MemMAP, out, obeyed>>
faultVars   == <<shaken, resets>>
stationVars == <<station, data, tx, p>>
regVars     == <<stationVars, cardVars, faultVars>>

ParserStatus == {"UNINIT", "GOT_SYNC1", "GOT_SYNC2", "GOT_ID", "GOT_FUN", "GOT_LEN1",
                 "GOT_LEN2", "GOT_PAYLOAD", "GOT_CHKSUM1"}
Word == 0..(RegWidth * RegWidth - 1)
NoMessage == [ID |-> 0, FUN |-> 0, Length |-> 0, Payload |-> <<>>]

RegistersTypeOK ==
  /\ station \in {"idle", "sending", "paused", "reading"}
  /\ data \in Request \cup {Nothing}
  /\ tx \in Seq(RegByte) /\ p \in Seq(RegByte) /\ out \in Seq(RegByte)
  /\ status \in ParserStatus /\ CheckSum \in Word /\ msgCheckSum \in Word
  /\ head \in [ID : RegByte, FUN : RegByte, Length : Word, Payload : Seq(RegByte)]
  /\ MemMAP \in [Registers -> Cell]
  /\ obeyed \in BOOLEAN /\ shaken \in BOOLEAN /\ resets \in 0..MaxResets

(* The sums are not set before the first frame; each is before it is used.  *)
RegistersInit ==
  /\ station = "idle" /\ data = Nothing /\ tx = <<>> /\ p = <<>>
  /\ status = "UNINIT" /\ CheckSum = 0 /\ msgCheckSum = 0 /\ head = NoMessage
  /\ MemMAP = [r \in Registers |-> <<0, 0, 0, 0>>] /\ out = <<>> /\ obeyed = FALSE
  /\ shaken = FALSE /\ resets = 0
-----------------------------------------------------------------------------
LowFirst(n) == <<n % RegWidth, (n \div RegWidth) % RegWidth>>
FromLow(lo, hi) == lo + RegWidth * hi
(* Mutant: the sum is wider than two bytes.                                 *)
Add16_Wide(a, b) == a + b

Add16(a, b) == (a + b) % (RegWidth * RegWidth)

(* The sum of the first bytes of s, for each number of them.                *)
SumOf(s) ==
  LET sum[n \in 0..Len(s)] == IF n = 0 THEN 0 ELSE Add16(sum[n - 1], s[n]) IN sum

summation(s) == SumOf(s)[Len(s)]

(* The bytes of a value of a type; an unknown type has none.                *)
Size(type) ==
  IF type \in {1, 2} THEN 1
  ELSE IF type \in {3, 4} THEN 2
  ELSE IF type \in {5, 6, 7} THEN 4 ELSE 0

SendMessage(id, fun, payload) ==
  LET counted == <<id, fun>> \o LowFirst(Len(payload)) \o payload
  IN <<SYNC1, SYNC2>> \o counted \o LowFirst(summation(counted))

Packed(r) ==
  <<r.type>> \o LowFirst(r.reg) \o SubSeq(r.value, 1, Size(r.type))

Overwrite(cell, r) ==
  [i \in 1..4 |-> IF i <= Size(r.type) THEN r.value[i] ELSE cell[i]]
-----------------------------------------------------------------------------
(* ParseMsg.  A payload is records, each a type, a register and a value,    *)
(* which a read fills in and a write stores: s is where the next begins,    *)
(* and what those before it have made of the payload and the registers.     *)
RegAt(m, i) == FromLow(m[i + 1], m[i + 2])

Filled(s, n) ==
  [k \in DOMAIN s.msg |->
     IF k \in (s.at + 3)..(s.at + 2 + n) THEN s.mem[RegAt(s.msg, s.at)][k - s.at - 2]
                                         ELSE s.msg[k]]

Stored(s, n) ==
  [s.mem EXCEPT ![RegAt(s.msg, s.at)] =
     [k \in 1..4 |-> IF k <= n THEN s.msg[s.at + 2 + k] ELSE @[k]]]

Record(fun, s) ==
  LET n == Size(s.msg[s.at]) IN
  [at  |-> s.at + 3 + n,
   msg |-> IF fun = 0 THEN Filled(s, n) ELSE s.msg,
   mem |-> IF fun = 1 THEN Stored(s, n) ELSE s.mem]

(* write_one_register packs no other.  What the records of a false frame    *)
(* reach beyond the payload or the registers is not followed, nor what its  *)
(* own length reaches beyond the 255 bytes of Payload (CommIf_SiemensST.h,  *)
(* 25 and 131): here the payload grows instead.                             *)
Known(s) ==
  /\ s.at <= Len(s.msg) /\ s.at + 2 + Size(s.msg[s.at]) <= Len(s.msg)
  /\ RegAt(s.msg, s.at) \in Registers

(* What the loop of ParseMsg has in hand between two records.               *)
Progress == [at : Nat, msg : Seq(RegByte), mem : [Registers -> Cell]]

Further(fun) == [s \in Progress |-> IF Known(s) THEN Record(fun, s) ELSE s]

(* A record has three bytes or more.                                        *)
Most(payload) == Len(payload) \div 3

Records(fun, payload) ==
  LET after[n \in 0..Most(payload)] ==
        IF n = 0 THEN [at |-> 1, msg |-> payload, mem |-> MemMAP]
        ELSE Further(fun)[after[n - 1]]
  IN after

(* The card also shifts out the head of what it has queued.                 *)
ParseMsg(queued) ==
  LET L    == Len(head.Payload)
      last == Records(head.FUN, head.Payload)[Most(head.Payload)]
  IN IF last.at <= L THEN out' = queued /\ UNCHANGED MemMAP
     ELSE /\ MemMAP' = last.mem
          /\ out' = IF head.FUN = 0 THEN queued \o SendMessage(head.ID, 0, last.msg)
                                    ELSE queued
-----------------------------------------------------------------------------
(* cParser::ParseByte.  The sum runs until the payload is complete, and the *)
(* second sync starts it again.                                             *)
To(next)      == status' = next
Summing(b)    == CheckSum' = Add16(CheckSum, b)
NoParse(queued) == out' = queued /\ UNCHANGED <<MemMAP, obeyed>>

(* Mutant: the second sync does not start the sum again.                    *)
Sync_Kept(b) ==
  \/ /\ status = "UNINIT" /\ Summing(b) /\ UNCHANGED head
     /\ To(IF b = SYNC1 THEN "GOT_SYNC1" ELSE "UNINIT")
  \/ /\ status = "GOT_SYNC1" /\ b # SYNC2 /\ To("UNINIT")
     /\ Summing(b) /\ UNCHANGED head
  \/ /\ status = "GOT_SYNC1" /\ b = SYNC2 /\ To("GOT_SYNC2")
     /\ Summing(b) /\ head' = NoMessage

Sync(b) ==
  \/ /\ status = "UNINIT" /\ Summing(b) /\ UNCHANGED head
     /\ To(IF b = SYNC1 THEN "GOT_SYNC1" ELSE "UNINIT")
  \/ /\ status = "GOT_SYNC1" /\ b # SYNC2 /\ To("UNINIT")
     /\ Summing(b) /\ UNCHANGED head
  \/ /\ status = "GOT_SYNC1" /\ b = SYNC2 /\ To("GOT_SYNC2")
     /\ CheckSum' = 0 /\ head' = NoMessage

Header(b) ==
  /\ \/ status = "GOT_SYNC2" /\ To("GOT_ID") /\ head' = [head EXCEPT !.ID = b]
     \/ status = "GOT_ID" /\ To("GOT_FUN") /\ head' = [head EXCEPT !.FUN = b]
     \/ status = "GOT_FUN" /\ To("GOT_LEN1") /\ head' = [head EXCEPT !.Length = b]
     \/ /\ status = "GOT_LEN1" /\ head' = [head EXCEPT !.Length = FromLow(@, b)]
        /\ To(IF head'.Length = 0 THEN "GOT_PAYLOAD" ELSE "GOT_LEN2")
     \/ /\ status = "GOT_LEN2" /\ head' = [head EXCEPT !.Payload = Append(@, b)]
        /\ To(IF Len(head'.Payload) = head.Length THEN "GOT_PAYLOAD" ELSE "GOT_LEN2")
  /\ Summing(b)

(* Mutant: a wrong sum is taken for the first byte of another one.          *)
Sum_Stuck(b, queued) ==
  \/ /\ status = "GOT_PAYLOAD" /\ To("GOT_CHKSUM1") /\ msgCheckSum' = b
     /\ NoParse(queued)
  \/ /\ status = "GOT_CHKSUM1"
     /\ msgCheckSum' = FromLow(msgCheckSum % RegWidth, b)
     /\ IF msgCheckSum' = CheckSum
        THEN ParseMsg(queued) /\ obeyed' = TRUE /\ To("UNINIT")
        ELSE NoParse(queued) /\ UNCHANGED status

Sum(b, queued) ==
  \/ /\ status = "GOT_PAYLOAD" /\ To("GOT_CHKSUM1") /\ msgCheckSum' = b
     /\ NoParse(queued)
  \/ /\ status = "GOT_CHKSUM1" /\ To("UNINIT")
     /\ msgCheckSum' = FromLow(msgCheckSum, b)
     /\ IF msgCheckSum' = CheckSum
        THEN ParseMsg(queued) /\ obeyed' = TRUE ELSE NoParse(queued)

ParseByte(b) ==
  LET queued == IF out = <<>> THEN <<>> ELSE Tail(out) IN
  \/ (Sync(b) \/ Header(b)) /\ NoParse(queued) /\ UNCHANGED msgCheckSum
  \/ Sum(b, queued) /\ UNCHANGED <<CheckSum, head>>
-----------------------------------------------------------------------------
(* write_one_register, and the transfers under it.                          *)
write_one_register(r) ==
  /\ station = "idle" /\ station' = "sending"
  /\ data' = r /\ tx' = SendMessage(CardID, r.fun, Packed(r)) /\ p' = <<>>
  /\ shaken' = (shaken /\ (status # "UNINIT" \/ out # <<>>)) /\ obeyed' = FALSE
  /\ UNCHANGED <<parserVars, MemMAP, out, resets>>

spi_send ==
  /\ station = "sending" /\ ParseByte(Head(tx)) /\ tx' = Tail(tx)
  /\ station' = IF tx' = <<>> THEN "paused" ELSE "sending"
  /\ UNCHANGED <<data, p, faultVars>>

(* The 10 ms are taken to be enough for the card.                           *)
Pause ==
  /\ station = "paused"
  /\ station' = IF data.fun = 0 THEN "reading" ELSE "idle"
  /\ UNCHANGED <<data, tx, p, cardVars, faultVars>>

spi_receive ==
  /\ station = "reading" /\ ParseByte(Dummy)
  /\ p' = Append(p, IF out = <<>> THEN Idle ELSE Head(out))
  /\ station' = IF Len(p') = Len(Packed(data)) + 8 THEN "idle" ELSE "reading"
  /\ UNCHANGED <<data, tx, faultVars>>

(* Mutant: the value is taken one byte early.                               *)
ValueRead_Early == SubSeq(p, 9, 8 + Size(data.type))

(* The value that is copied from the answer, from its tenth byte.           *)
ValueRead == SubSeq(p, 10, 9 + Size(data.type))

(* The card restarts, which the station does not notice.                    *)
CardReset ==
  /\ resets < MaxResets /\ resets' = resets + 1 /\ shaken' = TRUE
  /\ status' = "UNINIT" /\ CheckSum' = 0 /\ head' = NoMessage /\ out' = <<>>
  /\ MemMAP' = [r \in Registers |-> <<0, 0, 0, 0>>]
  /\ UNCHANGED <<stationVars, msgCheckSum, obeyed>>
-----------------------------------------------------------------------------
Transfer == spi_send \/ Pause \/ spi_receive

RegistersNext == (\E r \in Requests : write_one_register(r)) \/ Transfer \/ CardReset

(* write_one_register runs to its end without waiting for anyone.           *)
RegistersFairness == WF_regVars(Transfer)

RegistersSpec == RegistersInit /\ [][RegistersNext]_regVars /\ RegistersFairness
-----------------------------------------------------------------------------
(* The link is a register file: each request is performed once, completely, *)
(* and nothing but a request or a restart changes a register, whatever      *)
(* bytes the values hold; a request is lost only after a restart.           *)
File == INSTANCE RegisterFile
          WITH mem <- MemMAP,
               owed <- IF station = "idle" \/ obeyed THEN Nothing ELSE data
FileSpec == File!FileSpec

(* A read that ends with the link at rest copies what the register holds.   *)
ReadReturnsRegister ==
  station = "idle" /\ data.fun = 0 /\ ~shaken
    => ValueRead = SubSeq(MemMAP[data.reg], 1, Size(data.type))

(* Once the card stays up and the values hold no sync, requests are obeyed  *)
(* again, however a restart or a value cut the frames.                      *)
NoSync(r) == \A i \in 1..Size(r.type) : r.value[i] # SYNC1

Recovers ==
  <>[]NoSync(data) /\ []<>(station = "sending")
    /\ []<>(station = "idle")
  => <>[](station = "idle" => obeyed)
=============================================================================
