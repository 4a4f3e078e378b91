# TLA+ models of OpenLST

OpenLST is the firmware of a small-satellite UHF radio built around one CC1110
(an 8051 processor with a transceiver), with host tools in Python. The
repository holds three programs: the *bootloader*, the *application* ("radio"),
which share the drivers in `open-lst/common`, and the host *tools*. This
directory models the firmware's concurrent core and the host's side of its
command protocol, checks them with TLC on small instances, and proves their main
invariants with TLAPS for all values of the constants. Paths below are relative to `src/`.

## The system

One processor runs one thread, a loop without an operating system:

    while (1) {  clear the watchdog; schedule_handle_events;
                 input_handle_uart0_rx; input_handle_uart1_rx; input_handle_rf_rx }

(`radio/main.c:89-97`; the bootloader's `updater` has the same shape with a
timeout in place of the schedule). Everything else is interrupts and hardware
that runs by itself: the USARTs raise an interrupt per byte, timer 1 one per
millisecond and one per captured or compared RF event, the transceiver one per
packet event, and a DMA channel moves packets. There are hardly any
locks: single flags hand data from an interrupt to the loop.

| part | state | operations | talks to | what makes it correct | modelled |
|---|---|---|---|---|---|
| UART receivers (`uart0.c`, `uart1.c`) | parser state, 1 or 3 buffers with ready flags | receive interrupt, `uart*_get_message` | input handlers (copy of a message) | no buffer is written and read at once; a message comes out whole, once | `UartRx`, `Mailbox` |
| UART senders and line | the frame being sent | `uart*_send_message` | the other node's receiver | frames arrive or are dropped; the parser finds its way back | `UartLink` |
| radio driver (`radio.c`) | `rf_mode_tx`, `rf_rx_complete`, two buffers, RF interrupt registers, a DMA channel | `radio_listen`, `radio_send_packet`, `radio_get_message`, `rf_isr` | timer channel 1, schedule, handlers | no packet twice, no stray transmission, no wait without end, never deaf for good | `Radio` |
| input handlers | a command and a reply buffer shared by the three inputs | handle, answer, forward | all drivers, commands | every message handled or forwarded once | partly, in `Radio` and `UartLink` |
| clock and schedule (`timers.c`, `schedule.c`) | `uptime`, milliseconds, `auto_reboot`, `timer_count_ms` | `t1_isr`, `timers_set_time`, `schedule_*` | commands, radio | a reboot comes when it is due and not before | `AppClock`; the 10 Hz tick in `Radio` |
| time of day (`timers.c`) | `rtc_seconds`, the counter | `timers_get_time`, `timers_set_time`, add, subtract | commands | a time read is close to the time; what is added can be subtracted | `AppLoop` |
| telemetry, ADC (`telemetry.c`, `adc.c`) | sample buffer, channel index, telemetry record | ADC interrupt round, `adc_start_sample`, `update_telemetry` | schedule, commands | a record is of one round, each sample in its place; it is renewed | `AppLoop` |
| application commands | callsign, radio modes | `commands_handle_command` | all of the above | one answer per command | reboot, get_time, set_time, ranging; not the callsign |
| bootloader | flash, timeout, erase/write progress | ping, erase, write_page, signature check, jump | drivers, host | only signed images run; acknowledged pages stay; no page outside the application changes | `Bootloader` |
| watchdog, start-up | counter | reset | all | the node always comes back | resets are actions of `Bootloader` and a state of `AppClock` |
| host command layer (`commands.py`, `radio_mux.py`) | sequence numbers, tries, message queues | `send_cmd`, `flush`, `poll_message` | firmware through the mux or a serial line | a call returns its own reply or none, and returns | `HostCommand`, `RemoteCall` |
| update tool (`bootload_radio.py`) | the page it is at | reboot, erase, load, finish | its command handler, the bootloader | the image on the node is the image loaded | `Update` |
| board files, register settings, CRC, hwid | constants | | | | not modelled: no state, or values only |

The hard behaviours: interrupts between any two accesses of the loop to shared
bytes; 32-bit values read one byte at a time; an interrupt routine that clears
event flags it has not looked at; a half-duplex radio whose driver must be back
in the receive state after every path; a one-shot hardware timer started before
its packet is prepared; power loss during flash operations; lost bytes and
repeated commands, late replies and texts nobody asked for on a shared channel;
a tool that cannot see the node reset. `PROJECT.json` lists them with the line where each bites and
the property that covers it.

## Modules

### Mailbox, UartRx, UartLink

`UartRx` is the receiver of `uart1.c`. One action is one interrupt (`RxIsr(c)`,
the parser's four states) or one access of `uart1_get_message` to shared memory
(`NotReady`, `Found`, `CopyByte`, `Release`), so the interrupt may fall between
any two. The number of buffers is a constant, which makes it `uart0.c` (1) and
`uart1.c` (3). `Mailbox` is what the receiver promises: slots that are filled
and emptied with whole messages in one step. `UartRx` implements it under the
mapping *a slot holds the first `rx_buffer_len` bytes of a buffer that is ready*
(`ImplementsMailbox`).

When every buffer is taken, the search at `uart1.c:202` reads past the end of
`rx_buffer_ready`; the model takes the outcome the code is written for, that the
search stops there.

`UartLink` composes the receiver with a sender (`Frame` is the framing of
`uart1_send_message`) over a line that may lose bytes, as it does while
`flash_erase_app` keeps interrupts off. History variables relate what was sent
to what was handled. Two assumptions came out of the proofs. `StartByteAssumption`:
the first start byte, read as a length, must be no length or leave room in a
buffer; with payloads of up to 6 bytes and start bytes 5 and 2, a receiver may still be
inside a frame when it should be in step. In `uart.h` the start byte is 34 and a
payload has up to 251 bytes. `Plain`: `Resynchronises` is for senders whose
payloads hold no start byte, as a payload such as `<<0, 1, 2, 4>>` (with start bytes 1 and 2),
sent again and again, may keep a receiver out of step for good.

### Radio

The main loop's program counter walks through the drivers; an action is a
stretch of code whose order against the interrupts matters: `radio_listen` in
three (`ListenIdle` up to the disarmed interrupt and the idle strobe,
`ListenEnable`, `ListenStart`), `radio_send_packet` in six, `radio_get_message`
by its four exits, `input_handle_rf_rx` by what the message asks for, a turn of
`schedule_handle_events` in three cases. `RfIsr`, `RfIsrEvents`, `RfIsrClear`
are the three parts of `rf_isr` between which the transceiver may raise another
event. `CaptureIsr` and `TriggerIsr` are the branch of `t1_isr` for channel 1.
The world is `Carrier`, `FrameStart`, `FrameEnd`, `TxEnd`; each packet is heard
at most once, so that a packet handled twice is the driver's doing. The hardware
facts used are that the radio goes idle after a packet (`board_defaults.c`), that
events set RFIF and, if enabled in RFIM, request the interrupt, that a
transmission without DMA data underflows, that a frame outlasts the interrupt
its start raised, and that STX is obeyed from idle and may be refused while
receiving.

Not kept: `rf_rx_underway` (written, never read), the statistics, the register
settings, the bytes. A packet is good, damaged (CRC) or too short.
`BOOTLOADER` selects the image: without schedule, timer and forwarding.
The application does not start from a reset: the bootloader, which was receiving,
jumps to it with the interrupts disabled, and may leave a DMA channel armed and
events of the transceiver not served (`LeftByBootloader`); the first
`radio_listen` has to cope with them. `PROMPT` is the assumption of the comment at
`radio.c:333`, that a ranging reply is ready before its timer runs out. It takes
the race of `radio.c:336` away from `TransmitsPrepared`, `NoLostWakeup` and
`SendEnds` (see Observations for what happens without it); the invariants of the
receiving side hold either way.

`givenUp` is a history variable: the packets that were on their way to
`radio_get_message` when the periodic `radio_listen` or a send reset the
receiver, or whose end fell between the tests of `rf_isr` and its `RFIF = 0`.
The code does lose these. `PacketsAccountedFor` says that it loses no others.

### AppClock

`uptime` and `rtc_milliseconds` counted by `T1Isr`; the loop reads `uptime` one
digit at a time (`ReadDigit`), lowest first, as the SDCC compiler orders the
bytes of a 32-bit load, both in the reboot check and in
`schedule_postpone_reboot`. Numbers have `WIDTH` digits of base `BASE` instead
of four bytes, and sums wrap at `BASE^WIDTH`. `SetTime` moves the milliseconds,
`RebootNow` is a reboot command without a delay. `rtc_seconds` is left out, as
nothing here reads it.

### Bootloader

The updater loop's countdown, the commands, `flash_erase_app` flash page by
flash page, `flash_write` and the signature check. A write page is the set of
its programmed bits: erasing clears it, programming only adds. Resets by power
loss or watchdog may come between any two steps; a page in progress is then left
with any subset of the change. AES is an ideal signature: `SignedImages` are the
contents whose MAC one of the keys gives. The variables `known` and `acked` are
history: what the host was told.

### AppLoop

The rest of the application's main loop, with everything it shares with the
timer's and the ADC's interrupt and the counter of timer 1. Ten times a second
(`Due`) the loop copies the last round of samples to the telemetry, one sample a
step (`NotReady`, `Ready`, `CopySample` are `update_telemetry`), and starts the
next round, one statement of `adc_start_sample` a step (`StopRound`,
`StartRound`, `ClearFlag`, `EnableRound`). `Convert` is the ADC, which may end a
conversion between any two of them, `AdcCompleteIsr` its interrupt. A sample is
its channel and whether it was asked for in the current round. What the ADC
does when it is told to convert while a conversion is under way is not said in
the code, so both answers are modelled: it starts over, or it queues (`queues`);
in the second case a round is assumed to be shorter than the 100 ms between two,
as the comment at `schedule.c:57` does.

`GetTime`, `ReadSeconds`, `ReadMilliseconds` and `ReadCounter` are
`timers_get_time`, which holds the interrupt off while the counter runs on;
`SetTime` is `timers_set_time` with a proper time, of less than a second of
nanoseconds. The interrupt, when enabled, is served within a millisecond. The
history variable `clock` is the time by the counter's ticks since it was set.
`AddTime` and `SubtractTime` are the two functions the application keeps for
times, with seconds modulo `SECONDS` in place of 2^32.

### RemoteCall, HostCommand

`HostCommand` is `commands.py`: handlers that call nodes over ZMQ (one inbox
each, every message published to all) or over one serial line (one queue for
all handlers of the process). `Call` is the start of `send_cmd`, `Poll` a turn
of the loop that waits for the reply, `Retry` and `GiveUp` the end of a try's
time. `Flush` is what differs most: a serial handler empties the shared queue, a
ZMQ handler takes at most one message from its socket. The network keeps sets of
messages, so it reorders, and it loses, delays and repeats. `Handle` is a node
that answers with its hwid and the command's number (`radio/commands.c:42-52`),
`SendText` one that prints (`dprintf`, number 0).

`RemoteCall` is what a handler promises to the tool: an answer means that the
command was carried out since the call began. `HostCommand` implements it under
the mapping *calling while it polls, answered if it has got a message*.

Assumed: one handler for each node, because all handlers start at the same
number; and that no message is under way any more when its number comes round
again, 63984 commands later.

### Update

`Update` composes `bootload_radio.py` with its handler (`Host`, an instance of
`HostCommand`) and one node (`Lst`, an instance of `Bootloader`). A command the
updater carries out stays on the line (`serving`) until the reply is sent, so
that the network may also hold a copy of it. `Slept` is the tool's sleep of
1.5 s after an erase, as long as anything of that erase may still happen.
The application is `AppRefuses` (it nacks what it does not know) and
`AppReboots`. Power may fail at any step, and the tool never learns of it.

## Runs

| run | instance | shows |
|---|---|---|
| `uart` | 2 buffers, payloads up to 2 bytes, 3 byte values (both start bytes are also lengths) | type, disjointness, faithful copies, refinement of `Mailbox`, for arbitrary bytes; some finished message is always delivered and the first buffer never starves (the others can) |
| `link` | 2 buffers, 3 frames whose payloads hold no start byte, up to 2 lost bytes | without loss every frame is handled or an overrun and nothing is handled that was not sent; after a loss the parser is back in step within a longest message and a longest frame |
| `link_overrun` | 1 buffer, a payload containing a header | **violation**: `uart1.c:206` does not skip the packet |
| `boot` | 10 write pages of 2 bits, 2 signed images, timeout 2 | five safety properties under resets anywhere; an update takes effect; the device never locks up |
| `boot_page255` | same, timeout 3 | **violation**: page 255 does not end the session, `commands.c:86-87` is dead code |
| `clock` | 3 digits of base 3, delays past the width, one `set_time` | drift and torn reads stay within bounds; a reboot that is due happens |
| `radio` | a good, a short and a damaged packet | five safety properties of the driver, among them which packets it may lose; transmissions end; the receiver always listens again |
| `radio_deaf` | bootloader image, no carrier events | **violation**: a short packet ends listening for updates |
| `radio_ranging` | two good packets | **violation**: the reply is timed from the wrong event |
| `host` | 2 handlers (one never gives up, one has one retry), 2 nodes, one prints, 2 sequence numbers, 2 messages under way | no call returns a reply to another; refinement of `RemoteCall`; every call returns |
| `update` | 8 pages of which 4 are the application's and 2 are loaded, 2 sequence numbers, 2 messages under way | what was acknowledged stays while the tool loads, the tool crashes only on a complete update, an update gets done |
| `app` | 3 channels, 2 ms between rounds, 2 ticks to the ms, 3 ms to the second, 2 seconds to the day, both kinds of ADC | the telemetry is of one round; a time read is close, and times add up; the telemetry is renewed |

The runs marked as violations check one sentence each of a comment or of the
user's guide; `findings` in `PROJECT.json` quotes it. On the real device several
of them end in the watchdog's reset or the next automatic reboot.

### Bounds

The constants are chosen so that the cases that matter occur. Two UART buffers
already allow one being filled while another is copied and a third frame
overruns; two-byte payloads give a copy with a middle. In `UartLink` three frames
are enough to fill both buffers and overrun, and to lose bytes in the first and
be in step at the end of the last. The bootloader's layout
keeps every border of the real one (bootloader, application of two flash pages,
storage, updater, page 255); `MCBootloader` also assumes, and TLC evaluates,
that the real constants satisfy the layout assumptions and that exactly pages 8
to 215 can be written. `AppClock` has three digits, so a carry may pass through
a middle one; `MaxUptime` and `MaxSets` cap its counters, and its runs do not
check deadlock because a behaviour ends there or in a reboot. In `Radio` one
packet of each kind suffices for one to be handled twice, or to be overwritten by
another; the set of packets bounds the receptions, not the transmissions, which
go on for ever, and `MAX_RX_TICKS` and `RF_PRECISE_TIMING_DELAY` are 2. `link*`
stop when every frame is handled and `update` when the tool has ended, so these
do not check deadlock either; all other runs do.

With two sequence numbers a number comes round at the second command, so an
old reply meets a command with its number as soon as anything would let it.
`LineSize` bounds the messages under way, both ways together: two let a command
and its copy, or a reply and a text, cross. `InboxSize` bounds what waits in an
inbox besides the awaited reply: one message is left over after a flush takes
one. Neither node number nor command contents matter for more. In `Update` the
loaded pages have an empty one between them and another behind, one factory
flash holds an old signed image and one a broken one. In `AppLoop` three
channels give a round a first, a middle and a last sample; two ticks make a
millisecond that can pass between any two statements; and with `T1_TICK` times
two below `NS_PER_MS` the rounding of 37 ns for 1/27 MHz is there too. All
counters wrap, so nothing caps the behaviours.

### Fairness

- `UartRx`: weak fairness of the main loop only. Bytes need not arrive; the
  interrupt returns, so the loop goes on.
- `UartLink`: the main loop and the line; the sender owes nothing.
- `Bootloader`: weak fairness of `Proceed`, the program's own steps and the
  watchdog. `UpdateTakesEffect` holds for a device eventually left alone.
- `AppClock`: each millisecond's interrupt is served and the loop runs.
- `HostCommand`: a try's time runs out, messages on the way arrive or are lost.
  For a handler that never gives up, again and again a try reaches the node, and
  its reply comes back and is read before the time is up. This is all that a
  call without limit can rest on; a call with a limit returns without it.
- `Update`: the same for the tool's handler, and a try comes again and again
  while the updater listens. It listens for less than the watchdog's second at a
  time (`board_defaults.h:185-193`), but again after each timeout and each reset,
  and the tool's tries are not in step with that cycle; the
  node's program goes on; commands and replies of calls that are over do not
  stay on the line for ever. Power is off for ever in no behaviour the property
  speaks of.
- `AppLoop`: time goes on, interrupts are served once enabled, the loop and the
  ADC go on, and it is not always that a conversion, which takes tens of
  microseconds, ends before the next two statements clear its flag.
- `Radio`: the loop, the interrupts and the millisecond timer go on, and frames
  and transmissions end. Nothing is assumed of the packets on the air.

## Proofs

| module | theorems | argument |
|---|---|---|
| `UartRxProofs` | `ReceiverInvariant`, `TypeCorrect`, `DisjointBuffers`, `FaithfulCopy`, `NeverOverwritten`, `Refinement` | The ready flag of the buffer being filled is down and that of the buffer being copied is up, so they differ (`FillingIsPrivate`, `CopyIsFaithful`). With these every step of the receiver is a step of `Mailbox` or a stutter. |
| `BootloaderProofs` | `BootloaderInvariant`, `TypeCorrect`, `SignedOnly`, `AckedDataIsKept`, `AckedImageIsValid`, `ProtectedPages` | `PhaseInv` ties the program's place to its variables: an erase has forgotten the acknowledgements, a write has passed the range check. `PassedPagesErased` makes "erased" true when it is acknowledged. Flash is at rest while an application runs. |
| `UartLinkProofs` | `BackInStep`, `HandledWasSentUnharmed`, `NothingInventedPlain`, `NoneLostSilently` | Extends the receiver's invariant. For `BackInStep`, `SyncInv` bounds how far the receiver may be from the end of the message it believes in, by the bytes received since the last loss and the place in the frame being sent. For the others, as long as nothing was lost, `InStep` ties the parser's state to the place in the frame, and two counts balance: each payload is given, held in a buffer or coming in at most as often as sent (`CountInv`), and every frame is given, held, coming in or an overrun (`Accounted`). Skipping a frame for want of a buffer keeps the parser in step only if its payload is `Plain`: the run `link_overrun` shows what happens otherwise. |
| `AppClockProofs` | `TypeCorrect`, `UptimeFollowsTime`, `ReadsWithinBounds`, `RebootInTime` | Each interrupt adds one millisecond to both sides; each `set_time` moves one of them by less than a second. `ReadInv` for the read digit by digit: what is read is below the weight of the next digit; with the digits of `uptime` still to be read it makes up at least the `uptime` the read began with; and it exceeds the present one by less than the weight of the last digit read. The weights are a recursive function whose existence and bounds are proved by induction over the digits. |
| `RadioProofs` | `RadioInvariant`, `TypeCorrect`, `NoPacketTwice`, `NoneDroppedUnread`; with `PROMPT`: `PromptInvariant`, `NoStrayTransmission`, `NeverWaitsInVain` | `IInv` in `Radio`. `DeliveredOnce` is not inductive: `rf_isr` reports a packet at the end of every transmission too. `FreshInv` adds that where the loop can reach `radio_get_message`, a reported packet is new, because `radio_listen` clears the report after every transmission; that needs `AirInv` (which states transceiver, DMA channel and driver may be in together) and `TriggerInv` (the one-shot trigger). `AccountInv` follows a good packet from its start to the input handler or to `givenUp`: from the moment the driver is committed to a reset of the receiver (`Settled`) none is on its way any more, because the radio stays idle from the end of a packet to the next `radio_listen`. None of it needs `PROMPT`. `PromptInv` adds what does: the transceiver sends only what was prepared (`OnTimeInv`), and the interrupt stays enabled and idle until the transmission has ended (`WaitInv`). |
| `HostCommandProofs` | `HostInvariant`, `TypeCorrect`, `OwnReplies`, `Refinement` | `MessageInv`: a message bears the hwid of its command's node and the number its handler had as many commands ago as the message is old (`Earlier`); a young reply means the command was carried out. Two handlers have different hwids, and of one handler's last `Range` commands no two have the same number, so a message that passes `_is_reply` is the reply to the command waited for. A text has a number no handler uses. |
| `UpdateProofs` | `UpdateInvariant`, `TypeCorrect`, `LoadedPages`, `CrashIsHarmless`, `EndsInstalled`, `ImplementsBootloader`, `ImplementsHandler`, `UpdateIsSafe`, `CallsAreAnswered` | The theorems of `BootloaderProofs` and `HostCommandProofs` are instantiated: every step of an update is a step of the node or a stutter, and keeps the handler's invariant. `CommandInv`: before the tool loads no page is under way, and from then on no erase, because the tool sleeps until a second erase is over; what is being written is the image. So the flash only shrinks, then only grows, by the image. `ReplyInv` says what each reply the tool may yet see shows: an acknowledged erase an empty application, an acknowledged page that page, a refused page the whole image, because only an application refuses it and only a signed image runs. The composition is sound in both directions: an update, seen from the node, is a run of `Bootloader`, and seen from the host a run of `HostCommand` (a reset of the node is the loss of the command it was carrying out), so what is proved of these holds of it. |
| `AppLoopProofs` | `LoopInvariant`, `TypeCorrect`, `TelemetryIsWhole`, `TimeReadClose`, `TimesAddUpAlways` | `RoundInv`: while the ADC's interrupt is enabled, and from `ClearFlag` on, what the ADC has converted or is converting is the current channel (`Expects`), and the channels before it are stored (`Stored`). A conversion of the old round can only end before the flag is cleared, because the start of the first conversion replaces it, or, with an ADC that queues, because the round was over (`QueueInv`). `TimeInv`, for the time of day: what the clock and the counter show, with the millisecond a pending interrupt stands for, is ahead of the ticks since the time was set by less than two milliseconds, which is what the counter and its flag may have held then; and the variables copied with the interrupt held off are still what was copied. The arithmetic is modulo a day of any length. `TimesAddUp` is a property of `AddTime` and `SubtractTime` on any two times in range. |

The theorems of `UpdateProofs` assume of the image that no other signed image is
contained in it page by page, and of the layout that the application ends with a
write page (`flash_constants.h:39`); otherwise the last page could not be written
and its refusal would mean nothing.

The theorems hold for any number of buffers, any payload length and byte values,
any flash layout meeting the `STATIC_ASSERT`s, any set of packets and any
delays, any handlers, nodes, commands and range of numbers, any number of
channels and period of rounds, numbers of any base and width, and seconds and
days of any length. Two hypotheses are stated in the theorems themselves. `PROMPT` is
needed for `TransmitsPrepared` and `NoLostWakeup`, which do not hold without it.
`Plain` is needed for `Resynchronises`, and for `NothingInvented` once a frame has
been skipped; `HandledWasSentUnharmed` shows that up to the first skipped frame any
payload will do. The other assumptions are the named `ASSUME`s of the modules.

Every invariant and every action property a passing run checks, and both
refinements, are proved. Only model-checked is liveness, which is out of the
provers' reach: `SomeMessageDelivered`, `FirstBufferServed`,
`EveryFrameAccountedFor`, `UpdateTakesEffect`, `NeverStuck`, `RebootNotMissed`,
`SendEnds`, `ListensAgain`, `CallReturns`, `UpdateGetsDone` and
`TelemetryRenewed`. Of four of these the part that is safety is a theorem:
`NoneLostSilently` (where the frames are), `AckedImageIsValid` (what the
signature check will find), `RebootInTime` (what the reboot check decides) and
`EndsInstalled` (what is on the node when the tool ends). Induction works in the
provers only over a set given as a definition, as in `UpwardClosure` of
`AppClockProofs`, which is enough for the weights of the digits; the counts over
sequences in `UartLinkProofs` are by cardinalities and need none.
`PassedPagesErased`, `FillingIsPrivate` and `FinishedIsNotEmpty` are parts of
proved invariants and not listed on their own.

## Observations

Found while modelling, and not checked as runs: no sentence of the repository
denies them or, for the late ranging reply, the sentence states an assumption.

- A carry in the middle of the byte-wise read of `uptime` (`schedule.c:48-49`)
  shows a time up to 2^24 s too late, and the node may reboot early. `TornReadBounds`
  gives the bound, and that a reboot is never missed for it.
- A reboot command with delay 0 in the first second computes `auto_reboot = 0`
  (`schedule.c:43`), which turns the automatic reboot off, and is acknowledged.
- A ranging reply that is not ready when its timer runs out is said to end in an
  underflow (`radio.c:333-335`). In the model without `PROMPT`, `NoLostWakeup` does
  not hold: the trigger's STX is undone by the idle strobe of `radio.c:355`, or
  its underflow forgotten by the `RFIF = 0` of `radio.c:398`, and the loop of
  `radio.c:414` waits for an event that is past, until the watchdog resets the
  node.
- The start of a round clears `ADCIF` after its first conversion was started
  (`adc.c:58-60`). If that conversion has ended by then, its interrupt is lost
  and the round stands still until the next start; the telemetry keeps the
  values of the round before.
- `timers_add_time` leaves a sum of exactly 10^9 nanoseconds uncarried
  (`timers.c:90`).
- The callsign is kept in RAM only, where nothing initialises it, while
  `USERS_GUIDE.md:652` speaks of persistent memory.
- Every command handler starts at sequence number 16. Two of one node, in two
  processes or one after the other, use the same numbers, and one may take the
  other's reply.
- `send_cmd_resp` expects `"lst ack"` unless told otherwise, and the translator
  renders the acknowledgement with a trailing blank (`translator.py:343-345`), so
  the default never matches. No tool in the repository uses it.
- When the acknowledgement of the last page is lost for longer than the
  updater's timeout, `bootload_radio.py` ends with an error although the new
  image runs (`CrashMeansInstalled`).

## Not modelled

- The command and reply buffers shared by the three input handlers: each handler
  fills, uses and is done with them within one call, and no interrupt touches
  them.
- The callsign and the telemetry's counters: single variables that are copied.
- The bytes of packets, addresses and checksums, and the byte parser of
  `commands.py` and `radio_mux.py`; the parser of the firmware is in `UartRx`.
- The two channels of `t1_isr` at once. Its `else if` and its read-modify-write
  of the flags concern both; each is in the module of its purpose (`AppClock` and
  `AppLoop`, `Radio`).
- What a DMA channel the bootloader left armed may write to RAM the application
  has since given another use, before `radio_init` idles the radio.
- Register settings, clock start-up, board hooks, the CRC's arithmetic, AES,
  hardware ids and build files: values, not behaviour. The terminal and the
  programmer scripts are user interface.

## Plan

Done, in order of importance: receiver and mailbox, link, bootloader, clock and
reboot, radio driver, host command layer, update, the rest of the main loop; the
safety properties of all of them proved.

What would add most next:

1. `RadioLink`: two nodes with the driver of `Radio` over an air that loses
   packets; its abstract specification is a channel that delivers at most once.
2. The two channels of `t1_isr` in one module with `Radio` and `AppLoop`.
3. An abstract specification of an update (the old image, an empty application,
   parts of the new image in order, the new image) implemented by `Update`.
