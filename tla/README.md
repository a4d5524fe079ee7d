# Formal verification of RpiWdg

RpiWdg runs on a Raspberry Pi in an air-quality station. It relays messages
between the station's AQC program and a central server, supervises the AQC
program and that program's watchdog, switches relays on command of a text
message, and tells a Telegram channel of what it sees. This directory holds
TLA+ models of it, TLC configurations, and proofs checked by TLAPS. Paths below
are relative to the repository; line numbers are those of the modelled commit.

## 1. Inventory

### Threads

| thread | runs | made by |
|---|---|---|
| main | every slot of `Controller`: the `...2CtrlDataSlot`s, the 4 s check of the links, the 30 s tick, the reset command | `main.cpp` |
| one per TCP client | `connect2Server`, `readTcpData`/`Parse_Byte`, `rxClientDataSlot`, `rxClientDataOptSlot` | `init...Conn` |
| SMS | `timerSMS_CheckSlot` every 10 s, `Ctrl2SMS_DataSlot` | `InitSMS_Cnn` |
| SPI | `rxSPI_DataSlot` | `initSPI_Cnn` |
| pool | `CheckCentServerSlot`, `CheckNetSlot`, `TelegramBot::SendToChannel` | `QtConcurrent::run` |
| acquisition | `Thread_Spi`, and a producer and a consumer it starts and joins | `pthread_create`; nothing starts `Thread_Spi` itself |

Signals between threads are queued Qt connections **without parameters**: the
receiver reads public fields of the sending object when its slot runs. No lock
protects them (the one `QMutexLocker` of `connect2Server` guards
`clientConnected`). That is the system's central difficulty.

### Components

| component | state | operations | what makes it correct |
|---|---|---|---|
| message relay (`controller.cpp`) | the mailboxes `txClient_ID`/`txClientMsg` of the clients, the slots' copies, `RPI_CentServer_Cnn_Aware2AQC` | `AQC2CtrlDataSlot`, `CentServer2CtrlDataSlot`, `ErrorCurlexecSlot`, the AQC and server part of `timerConnectionsCheckSlot`, `CheckCentServerSlot` | order of measurements, no amplification, identifier and payload belong together, both ends learn the state of the links |
| TCP clients (`Tcp_Client.cpp`, `tc_centserver.cpp`) | parser state, mailbox, socket | connect, parse, send | a frame is handed on once; what is sent is what was stored |
| keep-alive supervision (`controller.cpp`) | two counters, the shown states | `WdgAqc2CtrlDataSlot`, `AQC2CtrlDataSlot`, `timerTCP_KeepAliveCheckSlot` | alarms are neither early nor missing; silence is shown |
| reset by SMS (`smscontroller.cpp`, `controller.cpp`, `spi_cnn.cpp`) | the modem's inbox, `bitRelaysCtrl`, `bitRelaysReset` | `timerSMS_CheckSlot`, `ReadAllSMS`, `SetReadMsgRcv`, `DeleteMsg`, `SmsCmdResetRelays_Slot`, `rxSPI_DataSlot` | only relays asked for, the last command wins, a command is obeyed, and launched once |
| client objects and threads (`controller.cpp`) | `..._Client_Obj`, `...ConnThread` | `init...Conn`, `finishObject` | one live client per peer, replaced clients are freed |
| notifications (`CommonDefines.h`, `controller.cpp`, `telegrambot.cpp`) | eight `EventedVariable`s | `setValue`, `SendTgListener`, `CheckNetSlot` | the message composed last is the state |
| frame and register codecs (`Tcp_Client.cpp`, `CommIf_SiemensST.h`, `Messaging.cpp`, `MemoryMap.cpp`) | automaton state, length, running sum | `Parse_Byte`, `transMsgLAN`, `cParser`, `cSender` | what was encoded is decoded; the parser resynchronises |
| SPI acquisition (`SPI_Conn.cpp`, `Lan_Conn.cpp`, `Slave_Card.cpp`) | the command `State_Config`, `Handle_Online_State`, the queue between two pthreads | commands, start, stop, produce, consume | a stop returns, a queued card is read |
| bcm2835 driver (`bcm2835.c`, used by `SPI_Conn.cpp`, `spi_cnn.cpp`) | the registers of the board | pins, SPI, I2C and delays | a transfer moves its bytes whatever was left behind; a result of OK means all bytes; a delay is not too short |

Settings are read once before any thread starts. `DB_Handler` is called
nowhere (all calls are comments); `broadcastRCV`, `waitResponse` and `cSPI` are
compiled and unused; `WebServer_TcpClient.cpp` and `QtCUrl.cpp` are not
compiled (the parser and sender of the first are modelled beside their twins, and
name globals that `Lan_Conn` defines); `Sin_array.cpp` is a table without a reader.

Hard behaviours, each with its line under `hazards` in `PROJECT.json`: slots that
read what a later event has overwritten; two fields assigned one after the
other; the pool's thread replacing a client under the main thread; alarms
dropped with the connection they report; counters never initialised and
compared for equality; a mask composed while it is copied; requests to the
modem whose failure is ignored; objects deleted by loops that may have ended; parsers
that must find their way back into a stream; bytes left in FIFOs by a disturbed
transfer; a condition variable tested with `if`. The repository has no tests.

## 2. Modules

| module | models | composed with |
|---|---|---|
| `MessageRelay` | relay, mailboxes, the two links, the pool's renewal | implements `FifoRelay` under paced load |
| `FifoRelay` | what the relay promises of measurements: each one, once, in order | |
| `KeepAlive` | supervision of the AQC program and of its watchdog | |
| `ResetChain` | modem, SMS thread, main thread, SPI thread | |
| `Notify` | the shown states, the messages composed of them, the pool that sends these | |
| `ClientLife` | client objects of the server's link, their threads and wiring, renewed by the main thread and the pool | |
| `Bytes` | bytes of any width and their sums | `FrameParser`, `FrameSender` |
| `FrameParser` | the four `Parse_Byte` automata over a stream of bytes | `Serial` |
| `FrameSender` | `transMsgLAN` and its twins over a link that fails | `Serial` |
| `RegisterLink` | registers of a card over SPI: `write_one_register`, `cSender`, `cParser`, `ParseMsg` | implements `RegisterFile`; `Serial` |
| `RegisterFile` | what that link promises: requests performed once, in order, and nothing else | |
| `Serial` | the three byte protocols | `FrameParser`, `FrameSender`, `RegisterLink` |
| `SpiBus` | pins and SPI transfers, at the grain of register accesses | `Board` |
| `I2cBus` | I2C transfers, polling against the controller | `Board` |
| `SystemTimer` | delays on a counter read as two words | `Board` |
| `Acquisition` | `Thread_Spi`, producer, consumer, the commands of a client | `Board` |
| `Board` | what drives the cards | the four above |
| `MC...` | values of constants for TLC | extend the module they name |
| `...Proofs` | theorems | extend the module they name |

**MessageRelay.** One action per access to a mailbox field, since the threads
interleave there. `boxId`, `boxMsg` are the mailboxes of both clients; `mainPc`
says where the running slot is and `mainId`, `mainMsg` are its `rxCtrlID_*`,
`rxCtrlMsg*`; `clientPc` is where a client's thread is. `ParseFrame` is the end
of `Parse_Byte` up to the assignment of the identifier, `PublishFrame` the
assignment of the payload and the signal. `Renew` is
`finishObject`, the pause and `init...Conn` in one step. An alarm does not go
through a mailbox but is written to the server's socket by the main thread
(`Ctrl2CentServer_Alarms_Fnc`), and is lost when that is closed: `alarmed`.
The action of the timer has two parts, as the slot has: the AQC link, then the
server's (`ConnectionsCheck_Cent...`). `serverLog` and `aqcGot` are what left the
program, and part of no guard.

**KeepAlive.** Frames, slots, checks and ticks in any order. The slots' reads are
one step each, as only the identifier matters here. `quiet`, `still`, `heard` and
`synced` are history. The first two are ages in ticks, cut off at the limit and, for
`still`, at the number of values of a counter: so long a counter that was never
assigned may take to the alarm.

**ResetChain.** The program with `SPI_Raspberri` defined (in the
committed `CommonDefines.h:4` it is commented out, and `rxSPI_DataSlot` is empty).
`ReadAllSMS` is a loop of actions, one per request to the modem and per access
to `bitRelaysCtrl`; a page is the set of messages still to be looked at as they
were when listed, so that marks and deletions made since are not seen. A text is
what the code asks of it: sender and password right, contains "reset", which
digits. Every request may fail. `launches`, `last`, `requested`, `handed` and
`failures` are history (`failures` also bounds the failures).

**Notify.** `setValue` is three steps, compare, assign and emit, by the main thread
and by the threads of the pool; `todo` is what a thread has yet to do of its slot or
check, `at` where it is in a `setValue`. A signal of the main thread calls
`SendTgListener`, one of the pool is posted (`notices`): both follow from
`connect`'s default for the thread that emits. The listener reads one variable at a
step, so the pool may change them under it. `Var` says which variables are followed; a
`setValue` of another is taken from `todo` and does nothing. `told` and `channel` are
what the messages say; they are part of no guard.

**ClientLife.** `obj` and `thr` are the globals `CentServer_Client_Obj` and
`CentServerConnThread`; `pc` says at which line of `initCentServerCnn`, or of the check
before it, the main thread or a pool thread is. A client lives in the thread it was
`moved` to, else in the one that made it; a call posted to it runs in that thread's
loop, or never when there is none or it has ended. `run` follows each `QThread` from
its making to its end, `wires` which thread's `started()` reaches which client, and
how often. `told` and `overlapped` are history: who was told to finish, and whether
two threads ever renewed at the same time. A ping that never returns is allowed.

**FrameParser, FrameSender.** One of four parsers, chosen at the start, reads one byte
per step; the peer sends frames and bytes of noise. Each case of the automaton's
`switch` is an operator; Tcp_Client's mailbox and the others' handlers are `got`. `since` holds the
bytes read since the first sync. `Lan_Conn` and `WebServer_TcpClient` store the payload in
`char msg[50]` (`Lan_Conn.cpp:18`, 143) without a look at the index: `GotLen_Beyond` is a byte
behind the end (`MsgSize`), which may hit any field of the automaton or none, and `beyond`
remembers it. The sender writes bytes to a socket that may close;
the length is the four bytes of a union (the parser of the other end is not part of the
repository: the model reads the connection by the sender's own format).

**RegisterLink, RegisterFile.** A request is packed, framed and clocked out by byte, the
card's `cParser` and `ParseMsg` run on what comes in, the answer is clocked back after
the pause. The card may restart at any byte, which the station cannot see. A false head may
announce more bytes than `Payload` has (`CommIf_SiemensST.h:25`, 131: 255, the length has 16 bits);
the model's payload grows instead. `shaken` says that it did since a request last found the card's parser and its
answers at rest.

**SpiBus.** A caller is a program counter through `bcm2835_spi_transfer`,
`_transfernb`, `_writenb` or `spi_transfer` of `SPI_Conn.cpp`; `bcm2835_peri_set_bits` is two
steps, a read and a write. `Shift` is the controller moving a byte between the FIFOs and the card
that decoder, pins and settings reach. `Boot` is `init_spi_bcm`, call by call, twice: by
the main thread and by the SPI thread. `wire` and `alone` are history: what passed on
the wire, and which call has had the bus to itself since it began.

**I2cBus.** The controller's status bits and FIFO against a driver that polls them: it may look
late, so that a read behind a write starts after the write has ended, or the end of a
transfer is missed. A device may refuse or stretch the clock at any byte. A repeated start may
have more commands than the FIFO holds, which the driver then never supplies: the controller
may wait for them for ever or go on to the read (`Starve`).

**SystemTimer.** The counter ticks between any two accesses. The busy loop reads high,
low, high again, and the low word once more when a carry came between.

**Acquisition.** `spi` is where `Thread_Spi` is: it holds `spi_mutex` except when it
waits, so a client's command waits for it. `producer` and `consumer` are the threads it
starts; a section under `itrr_mutex` is one step, and a wait that releases it a state. A
transfer is one step here. `missed` is history: the stop's signal found the consumer
past its test of `Handle_Online_State` and not yet waiting.

## 3. Runs

| run | question | bounds | states |
|---|---|---|---|
| `relay_overlap` | what survives the missing lock | 2 frames, 1 response, 1 renewal by the pool, queues of 2, two kinds of unassigned identifier, links stay up | 5.9 million |
| `relay_links` | what both ends are told of the links | links fail at any time, 1 response, 1 error, 1 renewal, no frames | 180 thousand |
| `relay_paced` | one stimulus at a time: is the relay a FIFO channel | 3 frames, 2 responses, 1 error, 1 renewal by the pool, two kinds of unassigned identifier, links stay up | 38 thousand |
| `keepalive_silence` | are alarms neither early nor missing | both programs, every initial counter modulo 5, 1 unserved frame each | 573 thousand |
| `keepalive_notreceived` | is an alarm for a keep-alive that was not received | the AQC program only | violated |
| `reset_commands` | which relays are selected, and is every command obeyed | 3 messages of 3 texts (reset 1, reset 1 and 2, a stranger's), pages of 2, so that one message does not fit; 1 failure, one kind of unassigned field | 263 thousand |
| `reset_launched` | are relays pulsed only for a message | 1 message | violated |
| `notify_state` | is the last message the state | 2 variables, one of them set by both threads, 1 thread of the pool, a slot starts with fewer than 2 jobs waiting and a check with no signal waiting | 72 thousand |
| `notify_modem` | is a modem that answers shown as connected | 2 variables, 1 thread of the pool | violated |
| `client_renewal` | who owns which client, and does the link heal | 1 pool thread beside the main thread, 5 clients (a bound that is never reached), 1 broken link, 1 redirected link, 1 check before its time | 923 thousand |
| `serial_frames` | do the codecs agree, find their way back, and serve registers | see below | 858 thousand |
| `board_driver` | acquisition threads, and the driver below them | see below | 702 thousand |

**What the bounds allow.** Every overwriting needs two frames whose slots wait
together, or a frame and a check, or a frame and a response that cross in the
server's mailbox: all are within 2 frames, 1 response and queues of 2. A third
frame in the paced run is there for the order of deliveries. The counters are
`u_int8_t`; what matters of the width is that a counter starts above the limit
and wraps around, which a modulus of 5 has (values 0 to 4, limit 4); the
theorems hold for every width above the limit. Pages of 2 with one message kept
stand for 20 and 10: with 3 messages one is beyond the page, one is deleted, one
is kept. `MaxQueue` and `MaxPending` bound event queues that Qt does not bound.

`serial_frames`: bytes of width 4, syncs 3 and 2, so that a sum wraps around and a payload,
a length and a sum may look like a sync; payloads with and without syncs and of length
0; identifiers 0 and 2, of which `Acted` has the first; 2 bytes of noise; sent messages
of length 0, 3 and 5, so that the length needs its second byte, 3 of them; `msg` of 2 bytes, which payloads and false
lengths exceed; for the registers a width of 10, 2 registers, 6 requests of the 5 types of different size, 2 restarts.

`board_driver`: two callers on the SPI bus with bytes 0 and 1 and a FIFO of one byte,
which no transfer fits; three calls, one of each way to transfer that the code uses
(`transfernb` within `spi_transfer`); I2C calls of each kind with a FIFO of 2 that the
longest exceeds, a repeated start too; words of 3 values and 3 carries, with delays shorter and longer than a
carry takes; 2 cards, both watched, one of which may vanish and be configured, whose lines go up
twice in all. Two cards are the least for which the producer's and the
collector's loops mix them up; two rises are one that is read and one that crosses a stop.
The program has 8 cards and watches 3.

**Results that hold.**
- `InOrder`: mailboxes may lose or repeat a measurement and even return the
  server's own response to it, but an older measurement never overtakes a newer
  one. `NoAmplification`: nor do they make the relay feed itself.
- `PairsMatch`, `ReplyDelivered`, `ImplementsFifo`: with one stimulus at a time
  the station is what its authors had in mind. Under overlap these three fail,
  and the code states nothing to the contrary, so they are checked where they
  are meant; the hazards name the line of each loss.
- `AwareConverges`, `LossReported`: with links that stay as they are, the AQC
  program ends up told the truth, and a lost AQC link is reported even though
  each single alarm may be dropped.
- `AlarmMeansSilence`, `SilenceIsShown`, `SilenceIsReported`: once its counter was assigned, a
  silent program is shown as not received after four ticks. A counter that never was
  (`controller.cpp:529`) may hold anything, so that a program which said something else
  than a keep-alive is shown as received for up to as many ticks as the counter has values.
- `OnlyRequested`, `LatestWins`: copying `bitRelaysCtrl` half-composed selects
  too few relays for a while, never wrong ones, and is repaired by the signal
  that follows. `RelaunchNeedsFailure`, `Obeyed`, `LastReachesRelays`.

- `FreedOnlyWhileReplaced`, `WiredOnce`, `ReplacedFallSilent`, `Heals`: two threads that
  renew at once may wire a client twice or leave one without a loop to delete it, but
  never leave a freed client in the global once their renewals are done, and the link heals. That
  100 ms pass between `finishObject` and the new client is no part of the argument.
- `HandedAsReceived`, `HandedOnce`, `WireReads`, `Resynchronises`: a frame of length 0 is
  read as one of length 1 and costs the frame after it; noise that looks like a sync
  costs a frame too, but plain frames are soon heard again. All but `WireReads` stop where `Lan_Conn` and
  `WebServer_TcpClient` store a byte behind `msg`: from then on anything may be handed on.
- `FileSpec`, `ReadReturnsRegister`, `Recovers`: the register link is a register file
  unless the card restarts, and comes back when it did. The value read ends in a copy of
  the request, which `write_one_register` takes by value: no caller sees it.
- `TransferMovesBytes`: `CLEAR` at the start undoes what two transfers at once left
  behind. `OkMeansAll`: a repeated start that comes too late, a refusal or a stretched clock is
  reported; of calls whose bytes the driver can send (`Sendable`). `DelayLasts`.
- `StopJoins`, `QueuedIsRead`: no wake-up of the consumer is lost, except the one signal
  of the stop that comes after its test and before its wait: `StopJoins` says that
  this is the only way to hang, and there the producer is gone, so nobody signals again.
- `StateIsTold`, `LastStateIsTold`: a message may be composed of a state that never
  was, but each change that comes under it is told by a message after it.

**Three disagreements** with what comments and names say are shown by a run:
- `controller.cpp:539` calls the alarm "AQC_KeepAlive_NotRcv". It is raised for
  keep-alives that were received and parsed, when the check of the links
  (`controller.cpp:443`) has stored its own identifier over theirs before the
  slot read it.
- `controller.cpp:319` says that switching the relays is "launched with SMS".
  `controller.cpp:508` also signals the SPI thread with every check, and nothing
  clears `bitRelaysReset`: the last command is repeated every 4 s.
- `controller.cpp:583` sets `USB_Modem_Connection` to 0 when a ping got through, the
  value that `controller.cpp:394` sets with the alarm "Rpi_USB_Modem_Disconnect".
  Nothing sets it to 1: the modem is shown as disconnected for ever.

A fourth is plain from the code and part of the model, so that `OkMeansAll` has to except it
(`Sendable`): `bcm2835.h:1455` and `bcm2835.c:1047` promise "an arbitrary number of bytes" before a
repeated start, but `bcm2835.c:1079` fills the FIFO once and line 1097 overwrites the count
of the others. Commands beyond the sixteenth are never put into it, and no line of the driver
notices. Nothing in the repository calls that function.

Deadlock is checked in every run but `board_driver`: timers fire for ever. In `reset_*`
and `relay_*` the external stimuli are bounded and the timers are not. In `board_driver`
the system may stop: registers that cannot be mapped end the program at the next access, the counter
of the timer is cut off, a join that is not followed (section 5) is a dead end, and
so is a stop that was missed, which `StopJoins` is about: the hang of `SPI_Conn.cpp:189` is real, but
no comment promises otherwise. A controller that waits for commands stops an I2C call for good.

**Fairness.** Qt's event loops are assumed to serve a posted event and a due
timer in the end; a slot that started runs to its end. A thread's own steps
therefore have weak fairness; what must wait until the main or the SMS loop is
between two slots is disabled again and again by the other slots and has strong
fairness: loops take events in the order they were posted, and a timer that
stays due is served. The fairness of `connect2Server` is
`waitForConnected(2000)`. Nothing is assumed of the peers, the network, the modem
or the arrival of messages. In `ResetChain` a request to the modem ends, which
`waitForFinished(-1)` (`smscontroller.cpp:180`) does not ensure: it is listed as a
hazard. In `Notify` nothing is assumed of curl, whose end `telegrambot.cpp` awaits in
the same way. In `ClientLife` the work that threads and loops have been given is
done at some time (`WF_vars(Work)`, all of it together: no thread is promised its turn before
another), no ping need return and no link need hold. In `Serial` the loop in
`readTcpData` runs over all that has come, and `write_one_register` runs to its end
without waiting for anyone. In `Acquisition` each of the three threads runs; nothing is assumed
of the client and of the cards. `SpiBus`, `I2cBus` and `SystemTimer` state safety only.

## 4. Proofs

| module | theorem (property) | for every |
|---|---|---|
| `MessageRelayProofs` | `TypeCorrect`, `MeasurementsInOrder` (`InOrder`), `RelayBounded` (`NoAmplification`) | number of frames, responses, errors, renewals, queue length, failing links or not |
| `PacedRelayProofs` | `PacedPairsMatch` (`PairsMatch`) | the same, with one stimulus at a time |
| | `PacedRelayIsFifo` (safety of `ImplementsFifo`) | the same, with links that stay up |
| `KeepAliveProofs` | `TypeCorrect`, `SilenceIsAlwaysShown` (`SilenceIsShown`), `NoEarlyAlarm` (`AlarmMeansSilence`) | width of the counters above the limit, initial value, backlog of frames |
| `ResetChainProofs` | `TypeCorrect`, `OnlyRequestedRelays` (`OnlyRequested`), `LastCommandKept` (`LatestWins`), `NoRelaunchWithoutFailure` (`RelaunchNeedsFailure`) | set of relays, texts, page size, number of messages, failures and signals |
| `NotifyProofs` | `TypeCorrect`, `LastMessageIsState` (`StateIsTold`) | pool, set of variables, bounds of the queues |
| `ClientLifeProofs` | `TypeCorrect`, `NeverStale` (`FreedOnlyWhileReplaced`), `OneWiring` (`WiredOnce`) | pool, number of clients, of broken and redirected links |
| `SerialProofs` | `FramesTypeCorrect`, `HandedCorrect` (`HandedAsReceived`), `HandedOnceCorrect` (`HandedOnce`) | width of a byte, syncs, frames, amount of noise, size of `msg`, each of the four parsers, the two with a `msg` until it is overrun |
| | `WireReadsCorrect` (`WireReads`) | width of a byte, messages of any bytes, number of messages, failures of the link |
| | `RegistersTypeCorrect`, `ReadsCorrect` (`ReadReturnsRegister`), `LinkIsRegisterFile` (`FileSpec`) | width, syncs, registers, requests, restarts |
| | `SerialCorrect` (all seven) | `Serial`'s specification, the three protocols side by side |
| `BoardProofs` | `DelaysLast` (`DelayLasts`) | width of a word, delays, places of the carries |
| | `OkCallsAreComplete` (`OkMeansAll`) | messages, FIFO, polling, refusals and stretched clocks; a repeated start whose commands fit the FIFO |
| | `TransfersAreComplete` (`TransferMovesBytes`) | set of callers, transfers, FIFO |
| | `BoardCorrect` (the three) | `Board`'s specification, driver and acquisition side by side |

Every invariant and every safety property that a passing run checks is proved. Fairness is
not used.

**Assumptions** are those stated by `ASSUME` in the modules: bounds are natural numbers, the
main thread is not of the pool, unassigned fields have some value of their type. Further:

- the width of a keep-alive counter is above the limit;
- a frame's payload is counted in one byte, a message's in four (`Width^4`: both lengths are
  what the code's field holds);
- the two syncs of a frame from the network differ, and the register link's first sync is neither
  its second nor the byte clocked out while an answer is read: with an equal byte the
  parser would not tell them apart, and in the code they are different constants;
- a message of `Lan_Conn` fits its `PayloadLAN` (`LanSize`, `Lan_Conn.cpp:24`), which the code leaves to the
  callers in `SPI_Conn.cpp`; a transfer over SPI has a byte;
- `Paced` and `~LinkFailures` are hypotheses of `PacedRelayProofs`' theorems only, the ones that
  `relay_paced` runs under. `PacedPairsMatch` does without the second.

*Order of measurements.* `InOrder` is not inductive: a slot could be about to
send something old. The invariant follows each measurement through the six
places it passes: parser, AQC mailbox, the slot's copy, server mailbox, log. What
waits further on is no newer than what may still be written there (`CentBehind`,
`MainBehind`), the log is no newer than anything in transit (`LogBehind`), and
the parser holds the newest (`Numbered`). Responses and keep-alives have no age
and so disturb nothing, which is why a renewal by the pool's thread at any time is
harmless.

*No amplification.* What the server has been sent says nothing of what will still be sent. The
invariant (`FrameEach`) counts the places where a frame of the AQC program waits to become a message:
being published, posted to the main thread, in the slot that relays it. With what was forwarded
they are never more than the frames that came. The lemmas count a value's places in a queue,
whose head a loop takes off and whose end a signal extends.

*Paced load.* While the next stimulus waits until the program is at rest, the program is in
one of seven phases (`OneAtATime`), and in each the mailboxes that matter hold one message whose
number and payload belong together. The check of the links and the job it leaves to the
pool are the difficulty: they wait for nobody and may still be under way beside a client that is
being told something. The links may fail in this proof. For the refinement `AllButOne` says
that the server was sent every measurement but the one on its way (`Carried`), for which the
server's link has to be up (`LinksHold`); each step of the relay then is a step of `FifoRelay` or none.

*Keep-alive.* Once a counter is assigned it stays below the limit, counts at most
the ticks since the last keep-alive was taken note of, and at least those since the
last message while the peer is shown as received (`Counted`). Of a counter that was never
assigned the invariant says how many ticks are left until it meets the limit (`Left`): with
the silence so far they are no more than the values of a counter (`InTime`).

*Reset.* The loop is at one message, numbers identify messages (`Numbered`); what is
composed and what is still to be composed are together that message's relays
(`Composing`), so what the main thread may copy at any moment was requested
(`Asked`), and what it copies after the signal is the whole (`Settled`). `Counted`
ties launches to failures: an unread message was launched at most as often as
requests have failed, except the one whose mark is under way.

*Notifications.* What has been read of a message under composition is still true, or
a signal waits that will compose another (`ComposedIsCurrent`). That holds as a thread
which assigned is due to emit, and one that emitted has posted or called.

*Client objects.* Whatever is deleted was told to finish, and a client is told by a
thread that renews: the global names a told client only until that thread has assigned the next one
(`NeverStale`). While renewals do not overlap, at most one thread is between two
lines of `initCentServerCnn`, and it alone writes to the client that the global names
(`OneWiring`).

*Frame parser.* `ReadSoFar` says for each state of the automaton what the bytes since the
first sync are in terms of the fields: identifier, device, length, and as much of the
payload as has been counted. It is needed as the handler's arguments are put together from bytes
read in earlier steps. `UnderWay` says of a frame that began with nothing being read where in it
the automaton is: the bytes since the sync and the bytes to come are together that frame, and so
its own sum closes it and nothing before does. Both hold while no byte was stored behind the end of
`msg` (`~beyond`); the types hold in any case.

*Messages on a connection.* What a reader hears is defined from the first frame on and the
sender adds the last, so the two recursions run in opposite directions. The
invariant (`WireInv`) gives each frame the place where it begins (`Follow`); the lemmas show that a reader who is at
a place hears that message and is at the next place after it, and the reading is put together from
the last place down to the first. A failure of the link starts a new connection, which
is read from its own start.

*Registers.* Of a card that restarted nothing is known, so the invariant is about a link that is
not `shaken` (`Undisturbed`): while a request is sent, the parser has taken in exactly the bytes
that are no longer in the station's buffer, and `TakenSoFar` says by their number what state,
sums and fields it has; the last of them performs the request; the
answer is what has been read of it followed by what has not, and is read completely. Types
(`RegInv`) hold in any case, whatever a restart leaves of a frame. For the refinement the abstract request
under way is the station's from the time it is sent until it is performed: the last
byte of a frame is `RegisterFile`'s step that performs it, a restart the one that changes or loses, and all else
is no step.

*I2C.* What the device took, followed by what waits in the FIFO, begins what is to be written
(`Outgoing`), and correspondingly for what was read (`Incoming`); what the controller and the caller each
count is what is missing (`Controlled`, `Counted`). A transfer that broke off leaves an error in the status until
the next call, so a caller that polls late still sees it. Commands that fit the FIFO are all there from
the start (`Queued`), so that the controller never goes without.

*SPI.* The set-up, function by function, makes every pin and setting what a transfer needs and no
call undoes it (`SetUp`). For the caller that has had the bus to itself since it began, the bytes sent
are on the wire or in one FIFO and the bytes returned read or in the other (`Sent`, `Back`);
before, both FIFOs are empty, whatever an earlier transfer left in them, because `CLEAR` comes first
(`Fresh`); and what another caller would disturb ends `alone`.

*System timer.* `Reading` bounds what a read may return. With the high word unchanged
between its two reads, the time put together lies between the call of the delay and now. With a
carry between them, the second high word is greater than the first, so that any low word read with it
is after the call.

*Recursive definitions.* The sums of frames (`Sums`), the length's bytes, the card's loop over records
(`Records`) and what a reader `Hears` are recursive functions on numbers. That such a
function exists is itself shown, by the least number for which its finite beginnings would not
(`StepsExist`, `StepsIn` of `SerialProofs`); after that a proof may use the defining equation, and an
induction is again the argument from the least number for which a claim fails.

**Only model-checked.**

- All liveness properties, as fairness and `ENABLED` are out of the prover's reach:
  `AwareConverges`, `LossReported`, `ReplyDelivered`, `SilenceIsReported`, `Obeyed`, `LastReachesRelays`,
  `LastStateIsTold`, `ReplacedFallSilent`, `Heals`, `Resynchronises`, `Recovers`, `StopJoins`, `QueuedIsRead`, and of
  `ImplementsFifo` that a measurement is passed on at last.
- The three violated properties: they fail, and TLC shows how.
- That the two ends of a codec agree for every frame is proved for the requests and answers of the
  register link and for the messages of a connection, within the invariants above. That a
  parser finds its way back after noise is the liveness property `Resynchronises`.

## 5. What is left out

- Sending the outbox list: `ReadAllSMS(Outbox)` launches nothing.
- `setValue` of the shown states in the other modules (all are in `Notify`), and in
  `Notify` the other effects of the slots; a message's headline. Messages may reach the
  channel in another order than composed, as each has its own job: no property is about
  that, as the code promises nothing.
- The watchdog program's part of the check in `MessageRelay` (in `KeepAlive` it is
  `ConnectionsCheck_Down`), and that program's messages.
- `SPI2CtrlDataSlot` and other slots that no emitted signal reaches.
- Copies of a `QByteArray` that another thread assigns: undefined in C++, below the
  grain of the models, which copy a payload in one step.
- In `ClientLife` the other two links, which are the same code renewed by the main
  thread only; in `RegisterLink` the 10 ms pause is taken to be long enough for the card.
- In `Acquisition`: a second pair of threads (a start after a start overwrites the names by
  which the first would be joined) and a join of threads never started: the model stops
  there ("notFollowed"). Spurious wake-ups; the LED pins; that `set_Config` and the threads
  may transfer at once, which is `SpiBus`'s subject. A card that never raises its
  line keeps `Thread_Spi` in `get_rawData_Multi` with the mutex held, and so every later
  command out: the model allows it and no property promises otherwise. The front of
  an empty queue, which a stopped consumer reads, is undefined and modelled as any card.
- In `SpiBus`, `I2cBus`, `SystemTimer`: event detection, pads, PWM and I2C
  clock settings, which have no caller; the debug mode, which is never on; a device
  tree that moves the registers. The sleep before a delay's busy loop is the thread being away.
  An I2C transfer whose end was missed is taken to end before the next call.
- What becomes of a payload that runs over the end of an array elsewhere: `PayloadLAN` and `Payload`
  (above). `LAN_Raspi_Shotdown`, which shuts the machine down (`Lan_Conn.cpp:85`).
- Socket writes of the main thread racing those of the client's thread.

## 6. Plan

1. `MessageRelay`, `KeepAlive`, `ResetChain`, `Notify`, with their proofs: done.
2. The life of client objects and threads (`ClientLife`), with its proofs: done.
3. The codecs over bytes (`Serial` and its parts), with the proof of the parser: done.
4. Acquisition and the driver below it (`Board` and its parts), with the proof of the
   timer: done.
5. The proofs of the remaining safety properties: bounds and paced load of the relay, its
   refinement of `FifoRelay`, frames and messages of the protocols, the refinement of
   `RegisterFile`, SPI and I2C: done.
6. Still worth stating and proving: an invariant of `Acquisition` for the hazards its two
   liveness properties are about (a consumer that waits before a filled queue has a producer
   that has yet to signal it).
7. Still worth modelling: a second start of the acquisition threads; the sleep of 100 ms as
   a bound rather than no bound in `MessageRelay`'s `Renew`.

## 7. Running

    tlc -workers 2 -config MessageRelay_overlap.cfg MCMessageRelay.tla
    tlapm MessageRelayProofs.tla

`PROJECT.json` lists components, runs, theorems, hazards, the lines each definition
stands for, and for each property a mutant of the code that violates it.
