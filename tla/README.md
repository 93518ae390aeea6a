# EBot firmware: TLA+ models, checks and proofs

The EBot firmware (`src/hardware`) is the runtime of a family of AVR robot
boards: a core for each microcontroller (`ebot_8`, ATmega1284P, the default;
`ebot_4`, ATmega32U4; `ebot_arduino`, ATmega328P) and the libraries a sketch is
written with. There is no operating system. A program is one endless loop
(`main()` calls `setup()` once and `loop()` for ever), interrupted by handlers
that share memory with it without locks. What is hard about this code is what
happens between two instructions of the loop; that is what these modules model.

## Inventory

| component | state | operations | works with |
|---|---|---|---|
| Serial port, `cores/ebot_8/HardwareSerial.cpp` | a receive and a transmit ring (head, tail, cells), `transmitting`, the interrupt enables | `begin end available peek read write flush`, the RX and UDRE handlers | USART; used by EasyTransfer and Print |
| Two-wire driver, `libraries/twi/twi.c` | `twi_state`, `twi_error`, three buffers with index and length | `twi_readFrom twi_writeTo twi_transmit`, the handler `TWI_vect` | the bus; calls Wire back |
| Wire, `libraries/Wire/Wire.cpp` | two buffers, `transmitting` | `beginTransmission write endTransmission requestFrom read`, `onReceiveService`, `onRequestService` | the driver, in both directions |
| Infrared receiver, `libraries/IR/IR.cpp` and `ir_rc()` of `Ebot.cpp` | `irparams` (state, timer, recording), the key kept | the 50 us handler, `enable resume decode button ir_rc` | the detector |
| EasyTransfer, `libraries/Ebot/EasyTransfer.cpp` | `rx_len`, `rx_array_inx`, `rx_buffer` | `sendData receiveData` | a serial port at both ends |
| Time base, `cores/ebot_8/wiring.c` | overflow count, milliseconds and their fraction | the overflow handler, `millis micros delay delayMicroseconds init` | timer 0; everybody |
| Heap, `cores/ebot_8/avr-libc` | `__brkval`, the free list | `malloc free realloc`, `new`, `delete` | String, EasyTransfer, File, NeoPixel |
| Serial port of `ebot_arduino` | rings with 8-bit indices, `_written` | as above, plus polling with interrupts off | USART |
| SoftwareSerial | one receive ring, the overflow flag, bit delays | `begin end listen read write overflow`, the pin-change handler | a pin |
| Wav player | two sample buffers, flags, a file | `play pause stop`, two timer handlers | timer 1, the memory card |
| USB (`USBCore`, `CDC`, `HID`) | endpoint banks, a receive ring, the line state | `USB_Send USB_Recv accept read write`, two handlers | the USB controller |
| Servo, Oscillator | pulse widths, the current channel | `attach write`, the compare handler | timer 1 |
| Memory card files, `libraries/Ebot/utility/SdVolume.cpp`, `SdFile.cpp`, `SD.cpp`, `File.cpp` | one cached block and its number, dirty flag and mirror block; the handle of a file (first and current cluster, position, size, dirty flag) | `open read write seekSet sync close truncate remove createContiguous` | the card (Sd2Card); Wav, sketches |
| Ethernet, Firmata | sockets, parsers | third-party | SPI, serial port |
| Pins, tones, external interrupts, Print, Stream, WString, displays, motors, sensors, Otto | registers, small tables | sequential calls | the pins |

What makes each of them correct:

- *Serial port*: bytes come out once and in order; a byte is dropped only when
  there is no room; `available()` does not lie; waiting calls return; `flush()`
  and `end()` return after the last byte has left.
- *Two-wire driver*: results say what happened on the bus; a read returns its own
  bytes and ends with a NACK; a callback gets its own session; calls return.
- *Wire*: the bus gets what `write()` accepted; unread bytes survive a reception.
- *Infrared*: the recording is the line; a frame is reported whole and once.
- *EasyTransfer*: nothing is accepted that was not sent; no loss without a fault;
  it synchronises again.
- *Time base*: no drift; `micros()` exact around an overflow; `delay()` not short.
- *Heap*: blocks are disjoint, nothing leaks, free neighbours are joined.
- *Memory card files*: what was synced stays on the card through failures and
  losses of power; reads return what was written; no cluster belongs to two files
  or to none; the two allocation tables agree.
- *SoftwareSerial, Wav, USB, Servo* (not modelled yet): the receive ring under a
  handler that takes a whole byte time; no use of the file after it is closed; a
  locked endpoint has the space that was tested; a pulse is never missed.

The hard behaviours are listed one by one, with the line where each bites, under
`hazards` in `PROJECT.json`.

## Modules

| module | models | theorems |
|---|---|---|
| `SerialFifo` | what a serial port promises: two bounded queues | |
| `HardwareSerial` | the driver of `ebot_8` and `ebot_4`, both handlers, the USART | `HardwareSerialProofs` |
| `Twi`, `TwiBus` | the two-wire driver; a sketch that calls it or listens, fairness and properties | `TwiProofs` |
| `Wire` | the Wire library over any driver that its calls allow | `WireProofs` |
| `WireBus` | `Wire` composed with `Twi` and the bus | `WireProofs` |
| `IrReceiver` | the infrared receiver, its timer and its two callers | `ReceiverProofs` |
| `EasyTransfer` | sender, receiver, and between them two instances of `SerialFifo` and a wire | `ReceiverProofs` |
| `Clock` | timer 0, its handler, `millis()`, `micros()`, `delay()` | `ClockProofs` |
| `Allocator` | what the heap promises a sketch: blocks that share no byte | |
| `Heap` | `malloc()`, `free()`, `realloc()` | `HeapProofs` |
| `SdVolume` | the cached block of a memory card, the allocation table and its mirror, as operators | `SdHandleProofs` |
| `SdFile` | the calls on files, over `SdVolume` | `SdHandleProofs`, `SdFileProofs` |
| `MC*` | the instances for TLC | |

Variables carry the names of the source. One action is one step of the code
between two places where a handler may come; a handler is one action because
handlers do not nest (interrupts are off in them). A variable marked *history*
is not in the code and no guard of a code step reads it; properties compare with
it. `PROJECT.json` maps every definition to its lines.

**HardwareSerial.** `head` and `tail` are 16-bit integers on an 8-bit machine.
The sketch loads and stores them in two instructions (`seen` holds the first half
of a load, `Torn` gives both orders of a store), and a handler may come between.
The AVR executes one instruction of the sketch after each handler, so at most one
handler comes into each such gap (`gap`). With `Size > Base` (1048 and 256 on
`ebot_8`) an index can be torn, with `Size <= Base` (64 on `ebot_4`) it cannot:
one module models both cores. UDR, the shift register and TXC are the USART.
`Fifo!FifoSpec` is the abstract port; the refinement maps each ring to the
sequence of its pending bytes.

**Twi, TwiBus.** An interrupt is taken before the sketch's next instruction, so an
action is a bus event with the handler's case for it. The START request (`twsta`)
is accepted when the bus is free and withdrawn by any handler that writes TWCR
meanwhile. The other device on the bus, another master, bus errors and lost
arbitration are choices. Data received are arbitrary.

**Wire, WireBus.** The sketch's calls are split where a handler's service can
interleave: between the length test, the store and the index update of `write()`,
and from the end of a read to the return of `requestFrom()`: `twi_readFrom` copies the
bytes to `rxBuffer` one by one (`CopyByte`), then the iterator is set. Alone, `Wire` meets
the driver in `DriverTakes` (it copies the buffer some time after the call) and
`DriverGives` (a read brings any bytes up to the length). `WireBus` puts `Twi` there: each call
from Wire to the driver and from the handler to Wire is one joint step, so that
`twi_writeTo` copies `txBuffer` as it is when the bus has become free, and the
callbacks run where `TWI_vect` runs them. `composed` says which of the two an
execution of the run is.

**IrReceiver.** A tick of 50 us takes a sample; the line is any sequence of marks
and spaces. `decode()` copies the length before it tests the state and `resume()`
stores the state before the length, each a separate step. `torn` remembers that a
tick came between these two stores.

**EasyTransfer.** `sendData()` writes byte by byte into the transmit queue of one
`SerialFifo`, the wire moves a byte to the receive queue of another (`Arrive` is
`Out!Send` joined with `In!Receive`), and each read of the receiver is a step with
bytes arriving in between. The wire may lose or change `MaxFaults` bytes. A byte that
meets a full receive buffer is lost and counts as one of them: with the bound used
up the receiver is taken to be in time. `HardwareSerial` implements `SerialFifo`, so
the composition rests on what is proved of the port.

**Clock.** The timer ticks between any two steps. `micros()` is the three reads
it makes; `millis()` reads its counter in two parts. `delay()` is its loop.

**Heap.** Calls are not reentrant, so each is one step. A chunk is an address and
a size; the free list is a sequence. Addresses are modulo `Wrap`. `Abstract` is `Allocator`
with the sketch's blocks for its own: the list and the break are gone.

**SdVolume, SdFile.** A call of the sketch is one step, because nothing else runs
on these fields; what interrupts it is the card. `SdVolume` writes the cache as
operators on the state of a call, in the order of the code: `Then` is its
`if (!...) return false`, `fuse` counts the accesses the card still answers. So one
access of a call, any one, may fail (with the block stored or not), or the power may
go before it; then a restart finds what the card holds. Blocks have `Slots` units;
a write puts its own number into its units. `want` is what a file should hold,
`saved` what it held when it was last synced. A file is `astray` from a call on it that
failed until it is opened anew, `muddled` if it was then written or truncated through the
handle left behind, and `torn` when its truncation or removal was cut off.

## Runs

All `pass` runs end without error. States are distinct states of the run.

| run | states | instance | shows |
|---|---|---|---|
| `serial8` | 3 116 000 | torn indices (Size 3, Base 2), 3 bytes each way at once, `read()`, `write()`, `end()`, `begin()` on an open port | `BytesInOrder`, refinement `ImplementsFifo` |
| `serial4` | 250 000 | untorn indices (Size 3), 4 bytes each way, all calls, fair | `DropOnlyWhenFull`, `StoredIsSeen`, `Drained`, `CallsReturn`, `WrittenIsSent` |
| `serial8_drop` | | torn indices (Size 5), receive only | **violated**: `DropOnlyWhenFull` |
| `twi` | 172 000 | a caller: reads of 1 and 2 bytes, writes of 0 and 2, NACKs, errors, another master; a listener: sessions up to 4 bytes in a buffer of 2, slow callbacks | `TwiTypeOK`, `CodesAreTrue`, `ReadMeansGot`, `NackOnLast`, `CallbackGetsHeard`, `SentIsAnswer`, `CallsReturn` |
| `twi_withdrawn` | | one-byte writes, another master | **violated**: `ZeroMeansSent` |
| `wire` | 671 000 | buffer of 2, up to 3 writes in a transmission; over an open driver without a bound, over `Twi` with 2 transactions of up to 2 bytes and bus errors | `TypeOK`, `TransmissionIntact`, `ReadReturnsDue`, `AcrossTheBus` |
| `ir` | 3 414 000 | 6 cells, gap of 2 ticks, counter modulo 4, 2 command bits | `TypeOK`, `RecordsLine`, `ReadyInTime`, `DecodedIsHeard`, `GapFirst`, `OncePerFrame` |
| `transfer` | 195 000 | structs of 2 bytes, buffers of 4, 1 fault anywhere, 3 structs on their way | `TransferTypeOK`, `SentInOrder`, `KeepsReceiving` |
| `clock` | 212 000 | timer modulo 4, all counters wrap, delays up to 2 ms | `TypeOK`, `NoDrift`, `ReadingsTrue`, `DelayNotShort`, `CallsReturn` |
| `heap` | 5 200 | 24 bytes, every length that fits and lengths at the wrap | `Tiled`, `GivenBack`, `CallsHonoured` |
| `sd` | 535 000 | 3 clusters of 2 blocks of 2 units, two tables, 2 files, 6 calls, 1 access that fails or loss of power | `TypeOK`, `SyncedOnCard`, `ReadsTrue`, `ClustersOwned`, `MirrorAgrees` |
| `sd_stuck` | | 3 clusters of 1 block, no faults | **violated**: `SyncFailsOnlyOnError` |

Three disagreements between code and comments were met and are kept as runs:

- `serial8_drop`: the receive handler may compare with a tail of which `read()`
  has stored one half, and then drops a byte although the buffer is nearly empty.
  The comment says it drops only when the buffer would overflow. `serial4` shows
  that the same code with 8-bit indices keeps the promise. The proofs show that
  a drop is all that happens: order and contents are never harmed.
- `twi_withdrawn`: if the device is addressed as a slave before its START has gone
  out, the request is withdrawn, and `twi_writeTo` returns 0 (success) with
  nothing sent. `CodesAreTrue` shows that this is the only way.
- `sd_stuck`: a whole block written over the block in the cache makes `write()`
  forget its number but not that it is dirty (`SdFile.cpp:1174`). Every later
  `sync()`, of any file, then tries to write the block 0xFFFFFFFF and fails on a
  card without an error.

### Bounds, and why they are enough

- *Rings.* A ring of 3 (2 usable cells) with `Base = 2` has torn indices: 0 and 1
  differ in the low half, 1 and 2 in both, and 3 bytes each way make both wrap
  and the buffer fill. `serial8_drop` takes 5 cells, so that the buffer is visibly
  not full. Two bytes tell reordering from correct order, and are symmetric. Order,
  refinement and, for untorn indices, drops and what the calls see and wait for are
  also proved for every size.
- *Two-wire, Wire.* A buffer of 2 is full after two bytes and overrun by the third
  and fourth; transactions of 0, 1 and 2 bytes are the empty one, the shortest
  and the full one. `Values = 8` keeps the wrap of `length - 1` visible. In `wire` two
  transactions on the composed bus are a call with a session of the other master
  before, in or after it; with the driver left open there is no bound.
- *Infrared.* Six cells hold the gap, two entries of bits and the trailer, and
  overflow with the next mark; frames of one command and two addresses occur. The
  tick counter wraps after 4 ticks, longer than the gap, as the real one does
  after 65536.
- *EasyTransfer.* Bytes of 3 bits, headers 6 and 5, structs of 2; one fault hits
  every byte of a frame in turn.
- *Clock.* Four timer values include the last one, where `micros()` makes an
  exception; an overflow is 4 units, of which 1 millisecond and a fraction of a
  third; `micros()` wraps after four overflows, its 16-bit part after two.
- *Memory card.* Three clusters for two files make a chain of two, a full card and a
  cluster that is freed and given to the other file; two blocks in a cluster and two
  units in a block make writes that begin, end and cross within either; the entries of the
  clusters lie in different blocks of the table, so that a chain crosses them. Position 1
  is inside a block: a write from there leaves a full block in the cache alone, behind a
  write past it, and a whole-block read must find it there and not on the card.
  Six calls are, for instance, open, write, sync, close, open, read. One fault hits
  every access of every call in turn.
- *Heap.* Room for five smallest blocks, enough for a free chunk with a free or
  used neighbour on either side and a list of two entries; the state space is
  complete, sequences of calls are not bounded.

### Assumptions of the runs

Each is a constant or a guard with its reason. `PromptIsr`, `Prompt`, `QuickReset`,
`MaxTicks`, the structs and the lengths are needed: where one is lifted a property fails, and
the failure is listed as a hazard with a note.

- `PromptIsr` (`serial4`): a pending UDRE interrupt is served within a byte time.
  Without it TXC rises between two bytes and `flush()` returns early.
- `Prompt` (Twi): nobody addresses the device in the few instructions between the
  check that the driver is ready and the START request. Without it a slave
  session is overwritten.
- `LongCallback` (Twi): TRUE for the listener of `twi`; a caller's sessions end before
  the next address. FALSE in `twi_withdrawn` and in `WireBus`.
- `QuickReset` (Wire): no reception ends between a read and the return of `requestFrom()`:
  not in the loop of `twi_readFrom` that copies the bytes (`twi.c:150`), nor in the
  last lines of `requestFrom()`. An address alone takes 90 us on the bus, the loop less
  than that; other handlers may hold it up.
- `MaxTicks = 1` (IR): the windows of `resume()` and `decode()` are shorter than
  two ticks (100 us at 16 MHz). Recordings torn by the tick within `resume()` are
  excepted in the properties by `torn`.
- *Handlers in time* (Clock): an overflow is handled before the timer comes to
  255 again; `MaxLag`: a turn of `delay()`'s loop takes less than the 16-bit range
  of `micros()`.
- *Structs* (EasyTransfer): none that is sent holds the first header byte or has
  it as its checksum. With them a receiver may stay out of step, see below.
- *In time* (EasyTransfer): once `MaxFaults` is used up no byte meets a full receive
  buffer.
- *Files* (SdFile): names are short and in the root directory; one handle per file;
  nothing but these calls uses the cache; a read that fails leaves the buffer as it
  was. After a failed call nothing is promised of that file until it is opened
  again, and a file whose truncation or removal was cut off is left alone: its entry may
  name clusters that are free. A file written or truncated through a handle that a failed
  call had left behind may end up longer than its clusters; its size and contents are not
  promised until it is emptied or removed.
- *Lengths* (Heap): `realloc()` is asked for no length below a word and for none
  at the wrap, see below.

### Fairness

Weak fairness of the sketch says that the processor executes instructions. The
transmitter and the bus go on (weak). Strong fairness where handlers compete:
`UdreStop` and `UdreSend` are served even if the receive handler takes every other
gap, because AVR interrupts are served in turn and the sketch only ever has
interrupts on in these loops; `Overflow` in `Clock`, because the sketch may turn
interrupts off and on all the time but does turn them on; `SeeReady` in `TwiBus`,
because a call polls `twi_state` often enough to see it READY between the
sessions of another master. In `Clock`, `delay()` is called with interrupts on:
with them off it cannot end. In `EasyTransfer` both sketches go on and the line
delivers (weak).

Liveness of the serial port is checked where an index is one byte (`serial4`). With
torn indices it does not hold: `end()` may take a torn tail for the head, leave
bytes in the buffer, and wait for ever when it is called again (hazard at
`HardwareSerial.cpp:415`).

Deadlock is checked in every run but three. In `twi` a device that has stopped
answering waits for ever (hazard at `twi.c:402`); in `sd` and `sd_stuck` the sketch
has made its last call.

### Known not to hold

Found while modelling and not kept as runs:

- `flush()` may wait for ever: `write()` clears TXC after it has enabled the
  interrupt (`HardwareSerial.cpp:476`).
- `begin()` on an open port with a full transmit buffer makes the next `write()`
  wait for ever, because it disables the transmit interrupt (`:362`).
- After a byte too many the two-wire slave stays in SRX and is silent (`twi.c:402`).
- A tick between the two stores of `resume()` shifts a recording by one entry
  (`IR.cpp:193`); 3.3 s of silence make the next frame unheard (`IR.cpp:139`).
- With torn indices `end()` may not return (`HardwareSerial.cpp:415`).
- A read that `Wire` has just made may be overwritten by a reception while it is copied
  (`twi.c:150`) or before the iterator is set (`Wire.cpp:86`).
- `realloc()` to 0 or 1 bytes leaves a block too small for `free()` (`realloc.c:77`);
  `realloc()` to 0xfffe or 0xffff bytes moves the break below used blocks
  (`realloc.c:58`).
- EasyTransfer with a checksum equal to the first header byte, repeated, may never
  synchronise (`EasyTransfer.cpp:44`); it stores `size + 1` bytes in a buffer of
  `size` (`:58`).
- A `read()`, `write()` or `seekSet()` that fails on an access may have gone on to the next
  cluster with the position left behind (`SdFile.cpp:685`). A `write()` or `truncate()`
  through that handle then frees clusters the file still needs, or makes it longer
  than its clusters; a handle at the end of its chain takes a block behind the volume for
  its own.

## Proofs

`HardwareSerialProofs` proves, for every set of bytes, every `Size > 1` and
`Base > 0`, every set of calls, with and without `Reopen` and `PromptIsr`:

- `TypeCorrect`: `Spec => []TypeOK`.
- `ReadInOrder`, `WriteInOrder` and, together, `InOrder`: `Spec => []BytesInOrder`. What
  `read()` returns is what the receive handler stored, in order, each byte once; what
  is on the line is what was written.
- `Invariance`: `Spec => []IInv`, the inductive invariant behind them.
- `Implementation`: `Spec => ImplementsFifo`. The two rings are two bounded queues.
- `NoEarlyDrop`: if `Size <= Base`, `Spec => []DropOnlyWhenFull`. With wider indices
  `serial8_drop` refutes it.
- `StoredSeen`: if `Size <= Base`, `Spec => StoredIsSeen`.
- `WaitsLongEnough`: if `Size <= Base`, with `PromptIsr` and without `Reopen`,
  `Spec => Drained`.

The argument. `RxInOrder` is not inductive: it says nothing about the ring.
`IInv` adds `RxRing` and `TxRing`, which say what the cells from tail to head hold,
at every label of the sketch. They use the index the sketch is *about to have
stored* (`RxTailNow`, `TxHeadNow`) instead of the torn one in memory. The crux is
the handler that sees a torn index. While the tail is torn the receive handler may
store at most one byte, since only one handler fits into the gap, and before
it the ring has a free cell (the byte just read gave one back): so the handler
cannot run over an unread byte, whatever the torn value is. While the head is torn
the transmit handler may send at most one byte, and before it the ring holds
one (the byte just put): so it cannot send a cell that was not written. Both facts
are conjuncts guarded by `~gap`. For loads, `seen` is either the index in memory
or a handler has run, and then the ring is not empty (receive) or not full
(transmit), so that a torn value equal to the other index only makes the sketch
look again or report an empty buffer. One lemma per group of actions (`QuietSketch`,
`RingSketch`, `RxIsrStep`, `UdreStopStep`, `UdreSendStep`, `TransmitterStep`) shows
that a step keeps `IInv`; `HeadStep`, `TailStep` and `RingFacts` are the arithmetic
modulo `Size`. The assumptions on the constants are `SizeAssumption`, `BaseAssumption` and
`ByteAssumption`, evaluated by the serial runs.

For the refinement the queues are written as what is left of the logs: the bytes
pending in the receive ring are `rxLog` without its first `Len(rxRead)` bytes (`Rest`),
and likewise for the transmit ring (`PendingRest`, from `RxRing` and `TxRing`). A step
that stores or puts a byte makes one log longer (`QueueGrows`), one that reads or sends
makes the rest shorter (`QueueShrinks`), and every other leaves both alone;
`StepFifo` has one case for each action. For `NoEarlyDrop` it is enough that with
`Size <= Base` the tail in memory, between the two stores of `read()`, is the old one or
the new one and no third (`WholeTail`). `SeenInv` says
the same of the head that `available()` loads: it is the one seen, or a handler has stored
one byte in between and the ring had room for it, so that neither half of the load counts
a byte that is not there. `DrainInv` is what `flush()` and `end()` rely on: while bytes are
in the ring the transmit interrupt is on, and TXC stands for an idle transmitter, except
between the lines of `write()` that are about to see to it.

`WireProofs` proves, for every buffer length and every number of writes, over the open
driver:

- `TypeCorrect`: `Spec => []TypeOK`.
- `Intact`: `Spec => TransmissionIntact`. The invariant `TxInv` says what the cells and the
  length are at each of the three steps of `write()`: unless a request has come, the
  cells below the index are `written`, and the loaded `index` is still its length.
- `ReadsDue`: `QuickReset` gives `Spec => ReadReturnsDue`. `RxInv` says that `due` is what
  the cells from `rxIndex` to `rxLength` hold; while a read is copied, the first `count`
  cells hold the first `count` bytes due.

`TwiProofs` proves, for every buffer length, every set of lengths without 0 and sessions of
any length, with `Prompt`:

- `TypeCorrect`, `CodesTrue`, `ReadsTrue`, `LastIsNacked`, `AnswerSent`: `TwiTypeOK`,
  `CodesAreTrue`, `ReadMeansGot`, `NackOnLast` and `SentIsAnswer`.
- `CallbackTrue`: `TwiSpec => CallbackGetsHeard`, without `Prompt` and for every length.

A read of 0 bytes is left out because the driver would store past its buffer: its last index
is `length - 1`, modulo `Values`. The argument: a call and the bus are in step. `Aligned` (in
`Master`) says which states of the driver, of the sketch and of the bus go together, and
`Blamed` that `twi_error` names what befell the transaction. `Sends` and `Reads` tie the
master's buffer and index to the bytes acknowledged and received, `RxTrue` and `TxTrue` the
slave's buffers to the session; `Attentive` says that for a caller READY means a free bus.
Each of these is kept by every step of the driver whoever calls it: the lemmas of the first
half of the module know neither sketch nor library, and `WireProofs` instantiates them.

`WireProofs` proves of the composition, `WireBus`, for every buffer length:

- `BusImplementsWire`: `BusSpec => Spec`, where `Spec` is `Wire` over the open driver.
  `Twi` is one of the drivers that `Wire` was proved over.
- `BusKeepsWire`: so, with `QuickReset`, `TypeOK`, `TransmissionIntact` and `ReadReturnsDue`
  hold of the composition.
- `BytesCross`: `BusSpec => AcrossTheBus`.

`BusInv` is the library's `TxInv`, the driver's invariant from `TwiProofs` and `InStep`, which
ties them: where the sketch is in the library says where it is in the driver, and what the
driver sends is what it took from `txBuffer` (`Sends(sent)`), which is what was written if no
request has come. `BytesCross` needs no `QuickReset`.

`ReceiverProofs` proves of the infrared receiver, for every buffer length, gap, counter width beyond the gap, bit length and
table:

- `Recorded`, `Ready`, `BeginsAfterGap`: `RecordsLine`, `ReadyInTime` and `GapFirst`,
  however many ticks fall between two steps of the sketch.
- `Decoded`: if `MaxTicks <= 1`, `Spec => DecodedIsHeard`.
- `Once`: `Spec => OncePerFrame`.
- `TypeCorrect`: `Spec => []TypeOK`. No entry is stored behind the buffer, and what
  `decode()` makes of any recording is a key of `CommandBits` bits and an address.

The crux of `Inv` is `Follows`: in a mark or a space the timer and the length of the run of
the line go together, and outside a recording the timer does not run ahead of the silence
(`Behind`), although `resume()` may stop and start the recorder at any tick and the counter
wraps. `Recording` adds that the recorder is empty before the first mark unless `torn`.
`Decoded` needs `Copied` (the length `decode()` copied is that of the recording, if it then
finds the recording finished) and `Once` needs `Kept` (a finished recording is new until
`ir_rc()` has taken it, and a kept key is that of the frame it took last). `TypeCorrect` adds
`MoreTypes` to `Inv`; that n bits make a number below 2^n goes by recursion over the
bits (`Recursion`, `UpTo`), since the induction theorems of the library cannot be used.
A gap of one tick is excluded by
`IrAssumption`: a space would be a gap at once, and the code's is 100.

`ReceiverProofs` proves of `EasyTransfer`, for every struct size, every set of structs, buffers of any
capacity from 3 on and any number of faults:

- `TransferTypeCorrect`: `TransferSpec => []TransferTypeOK`. No read of `receiveData()` finds the buffer empty.
- `FaultlessLine`: `TransferSpec => Faultless`. Up to the first byte lost, changed or dropped by a
  full buffer, the receiver throws no byte away, rejects no size and no struct, and what
  it accepts is the next struct sent. Structs may hold header bytes here.
- `InOrder`: if `MaxFaults = 0`, `TransferSpec => SentInOrder`.

The exclusive or is a parameter of the module (`ByteXor`) of which the proofs use only that it
takes bytes to bytes; the run gives it its value. The invariant `InStep` sees the receive
buffer, the line and what is still to be written as one sequence, `Coming`: it is the frames
of `pending`, one behind the other, without the `Consumed` bytes that the receiver has taken
of the first one; where `receiveData()` is, and its members, say how many these are, and
`rx_buffer` holds those of the struct. A byte that moves leaves `Coming` alone (`MoveByte`),
a read takes the byte expected (`NextByte`), and a struct accepted, or sent, takes off or
adds a frame (`NextFrame`, `AnotherFrame`).

`ClockProofs` proves, for every timer length, prescaler and counter width that
`ClockAssumption` admits:

- `TypeCorrect`: `Spec => []TypeOK`.
- `MillisExact`: `Spec => []NoDrift`.
- `ReadingsExact`: `Spec => ReadingsTrue`.
- `DelayEnough`: `Spec => DelayNotShort`.

`IInv` relates the three representations of time: what the handler keeps, with the pending
overflow, is `due`; overflows times `Top` plus `tcnt`, in microseconds, is `now`, modulo
`Wrap`; and at each of the three readings of `micros()` what has been read so far
determines `readAt`, provided that at most one tick falls in between (`Quiet`, `InTime`).
`DelayInv` stands on it: in the loop of `delay()` the time elapsed is the milliseconds
already counted, and `extra` microseconds since the last mark, and those since the last
reading (`Marks`); the mark plus `extra` agrees with the last reading in the low 16 bits.
`Difference` shows that a difference modulo 2^16 is never more than the true one, so that
no millisecond is counted early. The provers know little of `%`: `DivMod`, `Unique`,
`Multiple`, `InsideSum` and `Scaled` state what is used of it, from the quotient on.

`HeapProofs` proves, for every heap, word and address width, and every length asked of
`malloc()`, with `ReallocSane`:

- `HeapTiled`, `HeapGivenBack`: `Spec => []Tiled` and `Spec => []GivenBack`.
- `Honoured`: `Spec => CallsHonoured`, each call against its promise.
- `Implementation`: `Spec => ImplementsAllocator`, the whole against `Allocator`.

`ReallocSane` leaves out the lengths for which the code is wrong: those below a word
(`realloc.c:77`) and those whose sum with an address wraps (`realloc.c:58`). The inductive
invariant `Sound` looks at the heap in two ways. `Fill` sees a set of chunks that lie one
behind the other up to the break: calls divide a chunk (`Divide`), join two (`Join`), lower
or raise the top (`Lower`, `Raise`). `Ordered` sees the free list as a sequence: calls take
an entry out (`Cut`), replace one (`Replace`) or put one in place of a stretch (`Splice`).
`FreedSound` and `ObtainSound` are `free()` and the search of `malloc()`; `realloc()` that
moves is the second after the first. Why a moved block never overlaps its old place: the old
one is still a chunk of the heap when the new one is obtained.

`SdHandleProofs` and `SdFileProofs` prove of the memory card, for every number and size of
clusters, every number of entries in a block, one table or two, any names, lengths and
positions, and any number of calls, of accesses that fail and of losses of power:

- `InductiveInvariant`: `Spec => []IInv`.
- `TypesHold`: `Spec => []TypeOK`.
- `MirrorAgreesHolds`: `Spec => []MirrorAgrees`.
- `ClustersOwnedHolds`: `Spec => []ClustersOwned`. No cluster is in two files, every chain
  ends and is long enough for its file, whichever access of whichever call fails; and
  without a failure no cluster is lost.

`ClustersOwned` is not inductive: it says nothing of the handles, of the card under the
cache, or of the directory. `IInv` says of the volume, twice, that it is `Live`: as it is
seen through the cache (`Seen`), with the open handles, and as it lies on the card (`Main`),
with none, which is what a restart finds. `Live` names a chain for each file: each
cluster's entry in the table is the next cluster, the last one's is the end; no cluster
is in two chains or twice in one; the directory has each name once and
nothing behind its first free entry; an open handle agrees with its entry except where it
is dirty, and its current cluster is the one its position asks for, unless the file is
`astray`. Why the card under the cache is `Live` as well: a write of one block changes
either the table or the directory, and the code orders its writes so that what is
on the card is a shorter state of the same file (`CardAlters`, `Lags`): a new cluster is
marked before it is linked and linked before the size is written. `truncate()` and
`remove()` have the other order, hence `torn`.

A call is a composition of operators that each may fail. `Alters` and `Serves` say what one
does to `Seen` and to the card, also when it fails half-way: the table changes only in free
entries and in those of a set `D` (`Within`). So the chains of the other files stay
(`LiveStep`), and only that of the call's own file is to be followed. `Inside` is the
invariant in the midst of a call, and there is a lemma for each operation that leads from a
state with `Inside` to another; `Enter` leads from `IInv` into a call and `Leaves`
back, whether it succeeded, failed, or lost its power. `MirrorAgrees` rests on
`Coherent`: a dirty block of the first table has its mirror block noted, so a flush that
failed in between writes both again (`Twin`). The loops over clusters and blocks are
recursive functions, whose first steps the provers know; `Recursion` gives them for any number
of steps an invariant, from well-founded induction.

The assumptions on constants (`SizeAssumption`, `BaseAssumption`, `ByteAssumption`,
`WireAssumption`, `TwiAssumption`, `BusAssumption`, `BoundAssumption`, `IrAssumption`,
`TransferAssumption`, `ClockAssumption`, `HeapAssumption`, `VolumeAssumption`, `FileAssumption`) are evaluated by the runs of these modules. Hypotheses
of theorems (`Prompt`, `QuickReset`, `PromptIsr`, `MaxTicks <= 1`, `ReallocSane`, ...) are
those of the runs, under "Assumptions of the runs".

Only model-checked, and why:

- All liveness (`CallsReturn`, `WrittenIsSent`, `KeepsReceiving`): liveness under fairness
  and ENABLED are out of the prover's reach.
- `SentInOrder` after a fault: whether a checksum shows a changed or missing byte depends on
  the structs, and is an induction over them.
- `SyncedOnCard` and `ReadsTrue` of `SdFile`: the proofs follow the table and the directory
  through every call, but not what the data blocks hold.
- The three violations are refuted, each by one trace.

## Not modelled

`PROJECT.json` gives the reason for each component. In short: the serial port of
`ebot_arduino` (a later version of the same rings), SoftwareSerial (the same receive ring
under a handler that counts cycles), Wav (two timer handlers and a file), USB (endpoint
banks of the controller) and Servo have handlers and are left for later; Ethernet and
Firmata are third-party libraries no board needs; pins, tones, text, motors and displays
are sequential; bootloaders are binaries; `src/tools` is a vendored toolchain, which is
most of the repository's lines.

In the modelled components: baud rates and frame formats, bit rate and pull-ups of the
two-wire bus, blinking, `delayMicroseconds()`, the bytes of a heap block; of the memory
card subdirectories, time stamps, listing, long names, two handles on one file, and the
commands on the SPI bus below a block access. `libraries/SD` is a second copy of the files
under `libraries/Ebot/utility` and is covered by the same modules.

## Plan

Order: what every sketch depends on comes first.

1. Done: serial port with its abstract specification, refinement and proofs; two-wire
   driver; Wire, alone and over the driver; infrared receiver; EasyTransfer over the
   abstract serial port; time base; heap, over the abstract allocator; files of the memory
   card; the theorems of all of these.
2. `SoftwareSerial` (ring, `listen()`, `overflow()`), the `ebot_arduino` serial port
   (`flush()` after a direct write, polling with interrupts off) and `Wav` (double
   buffer, nested handler, closing the file), over `SdFile`.
3. The `realloc()` lengths as findings of their own; two handles on one file.
4. Theorems: `SyncedOnCard`, from `IInv` and what the data blocks of a chain hold; what the
   receiver of `EasyTransfer` accepts after a fault, for structs without header bytes.
