# WS500-OpenFW: a TLA+ model of the alternator regulator firmware

The firmware regulates the field of an alternator that charges a battery. A bare-metal main
loop (`Core/Src/main.c`) runs every 10 ms: it samples, calls the pure charge engine
(`control/Src/control.c`) and hands its command to the field driver. Interrupts (brown-out,
USB, CAN, stator edges, SysTick) strike between any two of its steps; faults and the watchdog
reset the part, and RAM that survives the reset decides whether the next boot may charge.

This directory holds TLA+ modules of that system, TLC configurations that check them on small
instances, and TLAPS proofs. `PROJECT.json` lists the runs, what each of them is sensitive to,
the source lines of every definition, the hazards of the code and the theorems. Paths below
are relative to `src/`.

## 1. Inventory

Parts, the state each keeps, and how they meet. "Model" names the module; the parts without
one are in section 8.

| part | state | operations | meets | model |
| --- | --- | --- | --- | --- |
| Charge engine `control/Src/control.c`, `faults.c`, `arbitration.c` | `ctrl_state_t`, latched faults, three damped signals, five hold timers, Ah deficit, effort, commanded power, probe phase | `ctrl_init`, `ctrl_tick` | called by the loop; settings swapped by the host interface | `ControlEngine`, `ChargeCycle` |
| Main loop and boot `Core/Src/main.c`, `board.c` | next deadline, last command | boot sequence; poll, sample, tick, apply, publish, service | calls everything | `FieldPath`, `Watchdog` |
| Field driver, safe-state funnel `field_drive.c`, `safe_state.c` | `s_faulted`; TIM1 channel, main output, compare; mode of PA8 | `field_drive_set`, `field_drive_fault_cutoff`, `enter_safe_state` | written by the loop, the brown-out interrupt, the fault handlers | `FieldPath` |
| Brown-out interrupt `pvd.c` | event count | safe state, record, return | preempts anything | `FieldPath`, `CrashRecord` |
| Crash record `crash_record.c`, `fault_handlers.c` | `.noinit` block: ring, two streaks, CRC | boot verdict, record, clear streaks | boot, handlers, brown-out, watchdog's healthy minute | `CrashRecord` |
| Watchdog supervisor `watchdog.c` | last reports, last kick | checkpoint, service, init | fed by the loop; the hardware resets | `Watchdog` |
| Error budget, current monitor `err_budget.c`, `ina2xx.c` | consecutive failures, streak of successes, latch; cached sample, re-entrancy flag | sample, re-initialise, replay of CONFIG | `sensors.c` reads it; its fault is an engine input | `ErrBudget`, `Ina226` |
| Configuration store `config_store.c`, `eeprom24c16.c` | generation, live slot; two EEPROM slots | load, save over pages, read-back | host interface at save and boot | `ConfigStore`, `DurableConfig` |
| Configuration documents `config_doc.c`, `config_validate.c`, `config_codec.c` | none | overlay a document, judge, emit; pack and open a record | between host interface, store and engine | `ConfigDoc`, `ConfigCodec` |
| Host interface `config_msg.c`, `config_protocol.c` | line buffer, running configuration | four requests, save before adopt | USB in, store and engine out | `ConfigMsg` |
| JSON `config_json.c` | cursor; writer with a chunk | scan, emit | documents, telemetry | `JsonText`, `JsonNumber` |
| USB CDC `usb_cdc.c`, `cfg_stream.c`, `telem_stream.c` | two rings, endpoints, control stage, DTR, next line due | interrupt, read, write, poll | USB interrupt, loop | `UsbCdc`, `UsbControl` |
| NMEA 2000 address `n2k_addrclaim.c` | claim state, address, tries | receive, tick | CAN port, schedulers | `AddressClaim` |
| CAN schedulers `n2k_sched.c`, `rvc_sched.c` | next-due times, when a better source was heard | publish, hear | encoders, ring | `TxSched` |
| CAN encoders `n2k_encode.c`, `rvc_encode.c` | none | encode, split into frames | schedulers | `CanWire`, `FastPacket`, `CanId` |
| CAN driver `can_n2k.c` | transmit ring, bus-off latch, budget | poll, enqueue, filters | peripheral, loop | `CanPort`, `CanBusOff` |
| Stator RPM `stator_rpm.c` | last edge, window of periods | edge interrupt, read | engine input | `StatorRpm` |
| Digital inputs, lamp `dio.c`, `annunc.c` | debounce counters; phase of the blink code | poll; update | engine input; person | `Debounce`, `Annunc` |
| Supply guard, thermal governor `field.c`, `thermal.c` | tracked voltage, distrust; previous sample, ceiling | per tick | duty clamp; arbitration | `SupplyGuard`, `Thermal` |
| Stack scan `integrity.c` | scan position, deepest use | paint, housekeeping | loop | `StackPaint` |
| Bench firmware `test-fw/` | command window, session, running test | console, guard, self-tests | field driver, USB, CAN, I2C | `BenchField`, `BenchTests` |

### Behaviours that are hard here

- **Interleaving.** The brown-out interrupt runs `enter_safe_state` between any two register
  writes, including those of `field_drive_init`, and writes a record between the CRC walk and
  the store of its result in the interrupted `crash_clear_streaks`. The USB interrupt fills and
  drains the rings between any two steps of the loop that uses them without a lock.
- **Crash and restart.** A reset may fall between two pages of a configuration save or
  between clearing one escalation streak and the other; the next boot must make sense of it.
  A node may be reset while it owns an address that another node then claims.
- **Messages.** Frames are dropped by a full ring and reordered by three mailboxes; claims are
  missed; a host sends half a line and leaves, or cuts one control transfer short by another.
- **Retry.** Bounded attempts, re-initialisations and replays of the current monitor happen
  inside the cycle that must also feed the watchdog.
- **Timing.** A windowed watchdog with both a latest and an earliest refresh, a loop that
  catches up after an overrun with back-to-back cycles, clocks that wrap.
- **Long sequences.** Hold timers, latched faults and ramps that survive an interruption of
  the charge cycle.
- **Numeric edges.** Wrapping generations, saturating streaks, NaN readings, a probe period
  and its on-time on one counter, "no value" codes next to legal readings, decimal numbers
  that must read back the same.

### What makes each part correct

| part | correctness |
| --- | --- |
| engine | an open-class fault kills the field and is never withdrawn; a block resumes by itself; charged exits and the warmup gate are earned by uninterrupted time, in the stay they end; soft start after every stop; BULK ends |
| field path | after the funnel, the cutoff, or in a parked boot, no current reaches the pin before a reset |
| crash record | repeated failures of one mechanism park the boot, nothing else does; the record of a fault is found after it |
| watchdog | a hang is reset, nothing stale is fed, no refresh is early, a healthy loop survives |
| current monitor | a dead bus is reported and its value withheld; the fault neither flaps nor stays when the device is well |
| store | the newest record is never overwritten; an acknowledged save survives; nothing else does |
| configuration, host | what runs is inside the rails; a refused line changes nothing, an acknowledged one is durable, each is answered; what is emitted reads back |
| USB | no byte lost, repeated or overtaken on an accepted line; neither direction stalls; no answer to a request that is gone; telemetry only for a host that listens |
| CAN | one owner per address, and the search for it ends; no message starves, an alert is told at once, a better source is left alone; a receiver splices two packets only where their number came round in an outage; every code reads as its value or as none |
| sensors, lamp | no bounce, outlier or false channel passes for a reading; the blink code is readable at any pace |
| bench | the field is never live beyond its window and session; every test is reported and leaves nothing running, but for what a failed bring-up leaves (section 6) |

## 2. Modules and the code

| module | stands for | composes |
| --- | --- | --- |
| `ControlEngine` | one `ctrl_tick` as one action `Tick(m)`, conjunct by conjunct in the order of the code (filters, Ah, faults, T1-T4, field law); `Publish(g)` swaps the settings | |
| `ChargeCycle` | abstract: the mode alone and its allowed changes | refined by `ControlEngine` (`CycleSpec`) |
| `FieldPath` | boot steps, loop steps, register writes, brown-out, reset; one action per register write of `main`, the interrupt atomic | extends `ControlEngine`: its ticks are the engine's |
| `CrashRecord` | `crash_record_boot`, the healthy minute in its separate writes with the CRC walk in two halves, faults, brown-outs, every reset cause with its sticky flags; the CRC is the contents it was computed over | |
| `Watchdog` | phases of the loop with durations, checkpoints, the kick, saves, hangs; instants relative to now | |
| `ErrBudget` | `errb_fail`, `errb_ok` as functions on a domain's record | |
| `Ina226` | one action per register transaction of the two samples of a cycle, re-initialisation and replay; the device as environment | extends `ErrBudget` |
| `ConfigStore` | `cfg_store_load`, `cfg_store_save` page by page, the boot, resets inside a page | |
| `DurableConfig` | abstract: one durable and one running configuration | refined by `ConfigStore` (`PromiseSpec`) |
| `ConfigDoc` | a document as the sequence of its members; the overlay in two passes, the rules in their order, the emitter, the defaults | |
| `ConfigMsg` | line assembly with its limit, dispatch, the four requests, the save hooks; the host that sends and leaves | extends `ConfigDoc` |
| `ConfigCodec` | the record field by field with widths; damage of one byte or the end | |
| `JsonText` | the cursor on every short text against a grammar written as a reference, the writer and its chunked sink | |
| `JsonNumber` | exponent estimate, digits, three layouts, scanner, the guard that widens; exact decimal arithmetic | |
| `UsbCdc` | both rings at the granularity of a byte store and an index store; the interrupt handlers between any two; the host | |
| `UsbControl` | control transfers as stages, cut short at any point; DTR, suspend, the 1 Hz line | |
| `AddressClaim` | several nodes on one bus, each the claim machine with its queue; late joiners, resets, pulled plugs, overruns, claims dropped by a full ring, requests | |
| `TxSched` | both schedulers' choice of what a publication sends, on a clock that wraps | |
| `CanPort` | ring, mailboxes by lowest identifier, a fast-packet receiver | |
| `CanBusOff` | bus-off edge and its budget | extends `ErrBudget` |
| `CanWire` | every encoder as fields with width and code, and a reader of each dialect | |
| `FastPacket`, `CanId` | text packets and their frames; identifiers and filter banks on their bits | |
| `StackPaint`, `Debounce`, `Annunc`, `SupplyGuard`, `StatorRpm`, `Thermal` | one small machine each, with an environment that is as bad as the hardware allows | |
| `BenchField`, `BenchTests` | console, guard and loop of the bench image; its two self-tests, with bring-ups that fail half way | |
| `MCControlEngine` | observers that count conditions over the inputs, independent of the engine's own timers; instances | `ControlEngine` |
| `MCFieldPath` | instances | `FieldPath` |
| `MCResets` | what must come right after a reset, side by side | extends `CrashRecord`, `ConfigStore`, `AddressClaim` |
| `MCComms` | both ports, side by side | extends `UsbCdc`, `UsbControl`, `CanBusOff`; instances of the rest of CAN |
| `MCParts`, `MCConfigDocs` | the other parts, side by side; the documents they are sent | extends `Ina226`; instances of the rest |
| `…Proofs` (eight) | theorems, section 5 | their modules |

Variables carry the names of the C fields. In `MCResets`, `MCComms` and `MCParts` the modules
share no variable: `part` is chosen at the start and names the one that moves, so that the run
is the disjoint union of its instances and each behaviour is a behaviour of one module; their
properties are conjunctions whose parts are stated and explained in those modules. Definitions introduced by
a comment `SLIP:` are plausible mistakes of one definition; no specification uses them.
`PROJECT.json` names the property that each of them breaks when it takes the definition's place.

Abstractions that matter: readings are small integers with `NaN` apart, and the filter `Ema`
may return any value between the old and the new one, so every gain of the filter is covered.
The driver's clamp is any factor of a set. A byte is a number modulo twice its ring, a CAN
packet its kind and sequence number, a document the sequence of its members, a character its
class. The CRCs are ideal. The reported binding source, severities and counters nobody decides
on are left out.

## 3. Runs

| run | question | instance |
| --- | --- | --- |
| `engine_cycle` | Is every interruption of the charge cycle (key off, cold battery, lost BMS, critical driver temperature, overvoltage, lost voltage) survived with hard faults latched, exits and the gate earned within the stay they end, a block resumed? Does the engine implement `ChargeCycle`? | voltages 1..4 across every threshold; three configurations, one of them Solar Finish with a rest at zero volts; timers to 5 |
| `engine_field` | Does power restart from zero after every stop, is a stationary rotor excited in at most `PROBE_ON` ticks of any probe period, does BULK always end? | rotor on and off, ceilings, lost readings, SOC 0 and 9, two profiles with switches between them; a probe of 2 ticks in 4 |
| `field_path` | Does anything energize the field after a brown-out, a cutoff, or in a parked boot, wherever the interrupt falls? | three inputs times the external faults, key off, NaN, two configurations, duty factors 0 and 1 |
| `dog` | Is only a loop that left its nominal durations reset, no refresh early, a hang always reset, nothing silent for longer than its budget and one period? | millisecond constants of `watchdog.c`; nominal, dead-monitor and overlong phases, hangs, two-page saves |
| `resets` | After any sequence of resets: do three failures of one mechanism park the boot, and only such, and is the fault's record the newest? Is a save atomic, and does an acknowledged one survive? Does each address get one owner, and everyone settle? | ring of 2, six records; two configurations, three pages, a counter modulo 4; three nodes that want the same one of two addresses |
| `comms` | USB: are bytes kept in order, do both directions get on, does a cut-short transfer leave anything behind? CAN: does any message starve, an alert wait, a receiver splice while numbers are fresh, a code read wrong? | rings of 4 and 3, packets of 2, one reset; four messages on a clock modulo 16; a transmit ring of 4 in front of three mailboxes, two sequence numbers; every reading of a scaled range; texts to 12 characters; 15 PGNs |
| `parts` | Is a dead bus reported within three cycles? Does a monitor that is well recover, and is every line and every bench test answered (`PartsMoveOn`)? Do documents, saves, records, texts and numbers keep their meaning? Are signals earned, sensors read true, the lamp readable, the bench guarded and truthful? | thresholds of the code for the monitor; 17 documents, three profiles, lines of two pieces; all texts to 3 characters and those still open to 6; numbers of three digits; the small machines at one to three steps beyond each of their thresholds |
| `field_block` | (violated) Does a recoverable block resume at the pin? | low temperature and back |
| `store_silent` | (violated) Does an acknowledged save survive when slots are silent at a boot? | two pages, up to two silent slots |
| `crash_seal` | (violated) Is the block sealed when `main` is done clearing the streaks? | as in `resets` |
| `dog_save` | (violated) Does a configuration save survive the watchdog? | the 20 pages of a record |
| `ina_stale` | (violated) Is a reading that is no longer refreshed reported? | reads fail, writes pass |

### Bounds and why they are enough

- `TimerCap` (5, 3, 2): timers stop counting at the cap, which is at or above every hold
  time of the instance, so a comparison of a timer with its threshold never changes beyond it.
- `AhCap`: the deficit stops at the cap, above the revert threshold.
- Voltages 1..4 lie below, at and above the revert, target and hard-limit thresholds.
- `GenHalf = 2`: the generation is a counter modulo 4; four saves wrap it, and two slots
  never hold generations further apart than one save, which is less than half of the range.
- `Pages = 3`: a first, a middle and a last page. `RingLen = 2` wraps with the third record.
- `MaxSeq = 6`: two records more than three faults need, so brown-outs fit between them.
- `StreakCap = 4` instead of 255: one above `LimpStreak`.
- `MaxLag = 40`: a lag beyond four periods keeps the loop in back-to-back cycles, as 40 does.
- `StaleAfter`: how far the histories of `Ina226` count: 4 cycles where the property speaks of
  three, 20 where it speaks of endless.
- `BootLag = 2`: `watchdog_init` follows the setting of the first deadline by well under that.
- `NumAddrs = 2` for three nodes: one of them loses every address, the case in which a node
  must give up. `Events = 1`: one reset, pulled plug, overrun or request between two nights;
  after a night all nodes start again, so events follow each other in every order over days.
- Rings of `UsbCdc`: a packet fits into the receive ring once and not twice, so every packet
  meets the full ring and every ring position is a wrap; `Mps = 2` makes lines that end on a
  packet boundary and lines that do not. A byte is told from the ones a whole ring before it.
- `Ring = 4`, `Numbers = 2`, `MaxSends = 5`: packets of three frames next to single ones, so a
  full ring cuts packets at every place; sequence numbers come round after two packets of a
  kind, sooner than the eight of the code, and twice within a behaviour, so that a number is
  met again both while a frame of its first packet is about and after all are gone.
- `PROBE_PERIOD = 4`, `PROBE_ON = 2`: a pulse of one tick too many, a pulse missing and two that
  touch at the wrap differ in any four ticks.
- `Words = 6`, `Unpainted = 2`, `ScanStep = 2`: the scan takes three calls over words that are
  painted, unpainted and used; the bench tests wait 2 and 3 periods, the scan has 3 addresses.
- `Wrap = 16` against periods up to 4: the half of the range that counts as future is longer
  than any period, as in the code, and the clock wraps within a short behaviour.
- `CanWire`: each field's code range is scaled to at most 32 codes, with its own
  resolution, offset, sign and reserved codes, and the readings run past both ends of it.
- `JsonNumber`: the digits of `Digits` and `ExactDigits` are 2 and 3 instead of 4 and 9; both
  layouts with a point, the exponent form and each carry between them occur.
- `StatorRpm`: a window of five and `Wrap = 32`, between once and twice the time after which
  the speed is lost.

Every run checks for deadlock.

## 4. Fairness

- Engine: weak fairness of the tick with its observers. The loop calls `ctrl_tick` every
  10 ms as long as the watchdog does not reset it. Which input comes is not fair: `BulkEnds`
  holds for a battery that never meets another exit.
- `Watchdog`: weak fairness of the loop and of time in a hang (`Loop`, `Tick`). The CPU
  runs, the oscillator of the watchdog runs, and neither owes anything to the other.
  Leaving a phase is not fair: `Hang` may be taken instead of any step.
- `Ina226`: weak fairness of the cycle's transactions (each returns, after bounded
  attempts) and of the conversion of a device that converts. Trouble is never fair; recovery
  is the premise of `Recovers`, not an assumption of the specification.
- `AddressClaim`: while some node has a frame or a step due, one of them is done, or time goes
  on (`Goes`): nodes poll every cycle and CAN arbitration always lets one frame through.
  Resets, plugs, overruns and requests are not fair.
- `UsbCdc`: the loop finishes the read or write it has begun, and begins to read again and
  again (strong fairness of `ReadBegin`, because a write may always come first: `main.c` calls
  both in every pass); a host takes a packet that stays ready (`DataIn`). That a host sends,
  stays or configures is not fair, and what is promised ends with its leaving.
- `UsbControl`: the loop polls and the clock ticks. `ConfigMsg`: a host ends the line it has
  begun, or leaves (`GoesOn`).
- `BenchTests`: the loop serves a test and waits for its next period (`Serve`, `Wait`).

## 5. Proofs

All for every value of the constants. The assumptions are the named `ASSUME`s of the modules
(the types of settings and inputs, gains at least zero, times natural numbers,
`TimeoutMin <= TimeoutMax`, rings that hold a packet). Modules of which several instances or
parts are checked side by side name theirs as an operator (`ClaimAssumption`,
`SupplyAssumption` and so on), which `MCResets`, `MCComms` and `MCParts` assert of their
instances (`ClaimConstants`, `CommsConstants`, `PartsConstants`) and the theorems take from
there or assume.

- `ControlEngineProofs`. `IInv` is the type invariant, `OpenFaultKillsField` and
  `FaultReason` (standby is annotated FAULT only while an open-class fault is latched); the
  last is needed for the refinement, where FAULT is a mode that is never left. From it:
  `TypeCorrect`, `OpenFaultSafety`, `OpenFaultLatching`, `HoldsBelongToStay` (a hold is no
  older than its stay), and `EngineIsChargeCycle`, which maps initial states and each step of
  the state machine to the abstract cycle. `CycleSpec` has no fairness, so this is the whole
  refinement. Its second half is about the engine beside its observers. What the observers of
  `MCControlEngine` count is independent of the engine's timers, so the properties stated with
  them are not inductive. `ObservedInvariance` ties the two: each hold of BULK is at most what
  the observer of its condition has counted, the warmup timer is the time since charging was
  last forbidden, a commanded power is at most
  the driven ticks times the steepest ramp. From it: `SoftStartAlways`, `ExitsEarned`,
  `BlocksResume`, `StationaryOnBudget`. For the last `ObsInv` relates the set `lit` of the
  excited ticks among the last `PROBE_PERIOD` of a stop to the phase: each has a phase of its
  own below `PROBE_ON` (`LitInPulse`), and so they are no more than that, wherever the window
  begins.
- `FieldPathProofs`. `PInv` adds to the engine's invariant: the pin is taken once the funnel
  ran (`PinTaken`), the duty is zero through the boot (`BootQuiet`), the latch precedes the
  duty (`LatchQuiet`), a hard fault has latched the driver at the top of the loop
  (`FaultLatched`), and a parked boot is quiet (`LimpQuiet`). `PinTaken` is why a brown-out in
  the middle of `field_drive_init` is harmless although channel and main output are enabled
  after it. From it: `PathTypeCorrect`, `BrownOutSafety`, `HardFaultSafety`, `CutoffSafety`,
  `LimpSafety`.
- `WatchdogProofs`. `AgesArePaid`: the age of every checkpoint is at most its budget plus the
  time since the refresh, because a refresh demands fresh checkpoints and time ages both
  alike. From it: `Freshness`. `WindowRespected` assumes a software floor one tick above the
  window of the hardware. `HealthyLoopSurvives` assumes `Fits` (nominal durations against
  the budgets and the fastest period) and rests on `Paced`, the bound on the age of the
  refresh in every phase of a loop that kept its durations; the wait for the deadline and the
  lag of the loop trade off in `Waited`, which is what makes catch-up cycles safe. The
  constants of the run satisfy both assumptions: 8 - 1 >= 7 for the window, and
  7 + 9 + 3 + 45 + 1 + 1 = 66 < 67 ms for the fastest period, so 45 ms of a dead current
  monitor is all the loop can afford.
- `ResetsProofs`, on the store and on the crash record.
  Under `Answering` (no slot is silent at a boot, which `store_silent` shows to be
  necessary), the invariant `Kept` says what both slots hold in every step of a save: the
  live one is whole, untouched, and the durable configuration; the other is older by one in
  the wrapping order, or not valid yet. From it: `PowerCutIsSafe`, `OlderIsOverwritten`,
  `AcknowledgedIsDurable` and, through `DurableIs`, which tells what the next boot will load,
  the refinement `StoreIsDurableConfig`.
  The crash record in layers: `Typed`; `RingKept`, the ring is what was recorded, newest
  first; `FaultKept`, the record of the pending fault is at its head; `StreaksCovered`, a
  streak counts no more than what the history earned; `RunCounted`, it counts no less. From
  them: `RingStaysInOrder`, `FaultsAreReadable`, `ParkedIsEarned`, `RepeatedFailureParks`. The
  last needs `LimpStreak <= 3`, because the histories it speaks of are three boots long, and
  treats the block that was cleared by half before a reset.
- `AddressClaimProofs`, for any number of nodes and addresses. That no two nodes hold an
  address is not inductive: it rests on what is still under way. `NodeInv` relates each node
  to its own walk (`Walks`: the addresses it lost are those of its attempts so far),
  to what it still has to send (`Announces`) and to what it heard (`HearsAll`).
  `Resolves(m, n)` says of two nodes that hold or claim the same address that one of them
  still has a claim to send, and that one of them is young enough to be still in its window.
  `AllAreTried` shows that the walk with its wrap comes by every address once. From
  `ClaimInvariance`: `AddressAlwaysSound` and `OnlyBeatenLeave`. A node whose own claim found no
  room in the ring counts as one that missed a frame (`deaf`).
- `CommsProofs`, one section for each module of the two ports.
  Control transfers, `ControlInv`: host and device agree on the stage, and the packets under way
  belong to the request both are in; from it `ControlIsHeld`. For the rings `CdcTypes`, then
  `RxSide` and `TxSide`, one for each ring, which the actions of the other side leave alone.
  `RxSide` numbers the bytes from the reader's cursor (which is a local index in the middle
  of a read) to the writer's index, by the modular distance between them; the lemmas on
  `Distance` and `At` (`AtWraps`, `BehindOrAhead`) carry the wrap. `TxSide` numbers the bytes
  in the ring and in the packet in flight. From them: `BytesStayInOrder`,
  `FlowControlIsKept`.
  Bus-off (`BoffInv`): the budget counts no more events than happened since a frame found a
  mailbox, and a counted one is remembered while it lasts. From it: `BusOffIsHonest`.
  Packets (`PortInv`): a frame carries its packet's count modulo `Numbers`. Until a packet is
  published under the number of an older frame that is still about (`reused`), no two packets
  of the kind that are under way (in the ring, a mailbox or the receiver) have the same number
  (`Apart`), so a frame that continues a packet belongs to it, whatever was dropped or
  overtaken: `PacketsStayWhole`. Publication itself is unguarded, as in the code, and the
  condition ends as soon as nothing of the kind is under way.
  Schedulers (`SchedInv`): before a fault is raised, the timers of all alerts lie behind the
  clock by one lag, which is no more than the time the address was away; and while it
  matters, the age of the better node's last frame is known modulo the clock. From it
  `AlertsAreTold`, which assumes that the address is not away, on balance, for half of the
  clock's range, that some alert fits into the batch behind everything before it, and a timeout
  below the range. `BatchAlwaysHolds`
  is about the sum of the frames sent. That sum, the choice of the messages and the frames of
  a publication are recursive functions over the table of messages; `RecursionExists` shows,
  from a least place where it would fail (`NatMin`), that such a function exists and obeys
  its equation, and `Upward` carries a fact from each message to the next in the same way.
  Identifiers (`IdAssumption`: addresses are bytes, a PGN has 17 bits and its low byte is free
  when it is addressed): an identifier is a number in which a field of 17 bits stands between
  priority and source (`IdParts`), and `IdReads` takes each part out of it by division. Texts
  (`TextAssumption`): `PayloadHolds` follows both texts to their places in the payload,
  `FramesFit` says when the frames suffice, `ReceivedIsSent` that what is put together is what
  was split.
  Encoders (`WireAssumption`: an odd highest code, so that codes are even in number; a zero that
  leaves currents of both signs a code; RV-C currents not coarser than those of NMEA 2000, all
  three true of the standards' numbers). `FieldAt`: because the ends of the fields grow, the
  place of a field determines it; a lemma for each message then says what is read where.
  `Rounded` bounds what rounding to the nearest loses and tells its sign, `Clamped` makes of it
  what a gauge may show, for every range, zero and resolution, `SignedCode` undoes the wrap of
  a negative code; `EncodersShow` is all of that for each encoder. `CurrentsAgree` follows a
  direction of flow through both dialects, `WorstIsChosen` finds the gravest fault by two least
  elements.
  Through `EachPartMoves`, `FaultsAreTold`, `PortIsSound` and `TelemetryReadsTrue` are the
  properties that `comms` checks.
- `PartsProofs`, one section for each part.
  Current monitor: `SilenceCounted` relates the budget's counter to the number of
  transactions that failed since the bus fell silent, at every step within a cycle.
  `DeadBusReports` needs `Prompt`: a limit that six failed transactions reach and attempts
  that spend it; the constants of the code satisfy it (6 <= 6, 9 <= 15).
  Inputs (`DioInv`): for a candidate that is not yet believed, the debouncer's counter is
  less than the run of equal readings, so belief is never early. Thermal governor (`HotInv`):
  the previous sample it kept is the one the history holds, and the ceiling lies between
  floor and top. Supply guard (`VsupInv`): the hold is no longer than the bus has read low,
  the track lies within the rails, the clamp above the floor.
  Stack (`StackInv`): the deepest mark reported is a word that was written or lies in the guard
  that was never painted; the least element of a set of words exists by well-founded induction
  (`NatMin`). Bench guard (`BenchInv`): pin, duty and flag agree, and a live field is inside its window or in the loop period that
  will end it, which is why the main loop's tick must be part of it. Self-tests: the scan has
  found the parts below its address (`ScanInv`), and bxCAN is up for a test, or in normal
  mode after a failed bring-up (`CanInv`).
  Stator RPM (`StatorInv`, under `StatorAssumption`: a window of at least five, two periods
  shorter than the time to a stale reading and than the counter's range): while a speed is
  new, its edges fill the window from the end; after that the machine is never more than two
  periods from a good edge, and at most two entries of the window, side by side, are spoilt.
  `MedianOfMost` then gives the median, whatever the two hold, by counting the places below
  and above it (`SameSize`, `Upward`); and the edge is recent enough for the reading to be
  passed on. Lamp (`LedInv`, under `AnnuncAssumption`: calls closer than the shortest phase
  and than half of the differences a watcher tells apart): the watcher's clock differs from
  the annunciator's by less than one call, and what he counted is what was shown. Because a
  call then ends at most one phase, the loop over phases is one turn (`OneTurn`).
  Host interface (`HostInv`, under `HostAssumption`: voltages are numbers or off): the running
  configuration and every durable one are typed, the running one has passed the validator, and
  a fresh line finds the assembler empty. It rests on the whole of the overlay:
  `PropagateTyped`, `ParseMemberTyped`, `OverlayTyped`, `ParsedTyped` say that every document,
  right or wrong, leaves a typed configuration, `DefaultsAreSafe` that the boot does, and
  `ValidIsWithinRails` that what the rules accept is inside the rails, by way of a voltage
  that names a primitive.
  `EachPartMoves` shows that a step of `PartsSpec` is a step of one part that leaves the
  others alone, so what is proved of each part's own specification holds of the run's:
  `SignalsEarned`, `GuardsAlwaysHold`, `SensorsAlwaysReadTrue`, `SavesAlwaysHonest` and
  `BenchAlwaysTellsTruth` are the conjunctions that `parts` checks.
- `DocumentProofs`. `DocumentsAlwaysSafe`: the four parts of `DocumentsAreSafe`, for every
  list of documents under `DocsAssumption`. That is: values are JSON, no object holds a key
  twice (the last one would count, and order would mean something), only members of `profiles`
  have a slot, and the wordings of "fw" and of a name, which the parser skips, are left out.
  The overlay folds the members one by one into a configuration, so the proof first says what
  the fold leaves behind: a member that is accepted writes its own place of the configuration
  (`Place`) and no other. From that, two orders of one document come out the same
  (`OrderMeansNothing`), and a document that is accepted stands as it was sent. `EmitShows`:
  the emitter shows exactly the members of `Displayed`, one for each place. So the echo reads
  back as what is shown (`EchoReads`), and each member of an accepted document is shown again
  (`AcceptedIsShown`). `OneKeyMoves`: a valid configuration stays valid when one primitive
  moves inside its rails, because the voltages that name it follow. The echo is not accepted
  from every typed configuration: each field must come back from its own spelling, and each
  voltage that names a primitive must hold that primitive's value. `DocInv` says so
  (`Readable`) of the running configuration and of the durable one, which a boot makes the
  running one; it is inductive beside `HostInv`.

Model-checked only:

- all liveness (`BulkEnds`, `HangIsReset`, `PartsMoveOn`, `AddressSettles`,
  `PortMovesOn`), which is beyond the proof system here;
- `WrittenIsRead`: what the number scanner reads of the digits that the writer wrote, for
  every number, is an induction over digits and over recursive operators;
- `NoneStarves`, which for all tables of messages needs a condition of schedulability between
  periods, frames and batch that the code does not state (its part `BatchHolds` is proved).

Three things the proofs changed in the models. The observer of the tail condition stands still
while Solar Finish is active, because the engine's own hold does: with an observer that starts
again, one BULK in which the profile is switched to Solar Finish and back violates
`ExitsAreEarned` (control.c:240-246). And the dispatch of a bench command was written with
alternatives that overlapped for a spoilt line, which TLC resolved by their order; it now says
first what a spoilt line does. Last, of a reserved slot, whose values the validator does not
look at, the echo was not what the code emits: the model showed a mode outside the enum and an
infinite number as they are, where the emitter shows "hold" (config_doc.c:154) and null
(config_json.c:680). A document with such a slot is now among those of the run.

## 6. What the runs show of the code

Five runs are violated, each by a statement of the repository about itself.

1. `field_block`: a recoverable block resumes in the engine but not at the pin. Every tick in
   STANDBY sets `field_open`, `main.c` answers with `field_drive_fault_cutoff`, and that latch
   is cleared by nothing but a reset. A key-off or cold battery ends charging until then.
2. `dog_save`: a save waits 7 ms on each of 20 pages in one pass of the loop, 140 ms, longer
   than the slowest watchdog period (134.4 ms).
3. `store_silent`: after a boot at which a slot did not answer, the next save is
   acknowledged with a low generation and loses against the older record.
4. `crash_seal`: a brown-out between the CRC walk and its store leaves a seal that does not
   fit; a reset before the next record makes the boot discard the block.
5. `ina_stale`: the replay of CONFIG inside the recovery is counted as a success and refills
   the budget it is part of, so a device that takes writes and fails reads is never reported.

Seen while modelling, without a run of their own:

- engine: a tail hold is frozen, not reset, while Solar Finish is active, so that a switch to
  it and back inside one BULK may end the charge on a tail current that was interrupted; and a revert hold is
  frozen during limp home, against the "continuously" of `docs/PROFILE_SPEC_LFP.md:80-81`;
  the probe counter starts over whenever the rotor has turned or the engine was stopped, so a
  rotor that keeps starting and stopping is excited for more than the share of one stop;
- brown-out: after a dip that recovers, nothing gives the pin back, against `pvd.c:31-33`;
- store: a save whose read-back fails may run at the next boot, against
  `config_protocol.c:196-197`;
- escalation: failures of two mechanisms alternate without parking, against `main.c:57`; where
  a reset sets the pin flag too, each boot clears the other streak;
- the second re-initialisation of `err_budget.c:40-43` never comes: the only multiple of
  three below six is three;
- host interface: a request that is an object of the wrong shape (`"primitives": 5`) is
  answered as a JSON error; what `cfg-get` shows of a configuration that was never commissioned
  is not accepted by `cfg-set`; in a reserved slot an unknown mode and an infinite number are
  accepted but shown as "hold" and null, against "still round-trips verbatim" of
  `config_validate.c:131-133`;
- JSON: a text cut inside a number or a literal is reported as a syntax error, not as
  truncated; the comment that two adjustments of the exponent suffice does not hold for a
  carry of the rounding, which no float reaches;
- USB: a line that meets a full ring is cut, and its rest is dropped; after suspend and resume
  the gate stays shut for a terminal that stayed open, until it asserts DTR again;
- address claim: an address is taken as won while the frame that claims it is still queued;
  a claim
  that a full ring drops is not sent again (`need_claim_tx` is already cleared), and the address
  is taken all the same; frames of data queued under an address go out after it was lost; the two identities of one
  unit never hear each other, and nothing in the tree enables the second;
- CAN: frames of one identifier may leave the mailboxes in another order than the ring's, and a
  receiver drops such a packet. After an outage in which eight packets of a kind are published
  (the ring keeps the first and drops the rest) the 3-bit number has come round, the code does
  not ask, and a receiver can take the first part of the old packet and the second of the new
  one for one packet. With fresh numbers it splices none (`CanPortSound`);
- RV-C: `master_seen` is never cleared, so 2^32 ms after the last frame of a master one more
  timeout of deferral follows;
- inputs: "five consecutive polls" (`dio.c`) are seven equal ones; distrust of a channel
  accumulates across readings that are absent or absurd; at the first edge after a stall the
  speed from before it is reported again, as fresh;
- stack: a scan resumes in a part that a deeper call has left unpainted only in places, so the
  mark reported may be below the deepest use; the 32 words below the frame that paints are never
  painted and count as used from the start;
- `annunc.c` has no caller in `main.c`;
- bench: a `field` command that is dispatched after the edge of a dropped link was served is
  live until its window ends, at most 5 s, although `field_guard.h:27-33` lists a dropped link
  among the paths that leave the field off; and the comment in `can_test.h` that bxCAN receives
  its own frames in normal mode holds only for loopback;
- bench CAN: a bring-up that fails returns without stopping bxCAN, and the teardown does nothing
  because it was never noted as up. After a start that timed out on a blocked bus the peripheral
  joins when the bus frees, and listens and acknowledges between commands, against
  `test-fw/can_test.c:59-63`; a test frame of another node that it hears then may be counted as
  the pass of the next test. `RestsIdle` and `OverIsOff` state what does hold: a test that ran
  leaves it off.

## 7. Plan

Done: every part of section 1, alone or next to the parts it shares state with. What would add
most next:

1. The verdict of `CrashRecord` composed with `FieldPath`, which leaves `limp` open, and the
   save of `ConfigStore` cut by `Watchdog`.
2. `ConfigMsg` over `UsbCdc`, and `CanPort` under `AddressClaim`, so that a torn line or a full
   ring meets the protocol above it.
3. `SupplyGuard`, `Thermal`, `StatorRpm` and `Debounce` in front of `ControlEngine`, which now
   takes their outputs as sets.
4. The EEPROM's budget in `ConfigStore`.
5. Theorems: `NoneStarves` under a stated condition of schedulability.

## 8. Not modelled, and why

- `telemetry*.c`: conversion of one tick's outputs into records and text, without state. The
  JSON writer below it is `JsonText`, its pace `UsbControl`.
- `sensors.c`: conversion tables and averages; the results are engine inputs, any value of
  which the engine model takes. `limits.c`: a table of products; the ceiling is an input.
- `integrity.c`, the image's CRC: its result is only reported.
- The JSON escapes that a string decodes, and control characters: no property tells two
  strings apart.
- USB descriptors, clock, pin and board set-up, the bring-up of a peripheral that fails:
  hardware protocol. The write-protect pin and block addressing of the EEPROM.
- Counters that are only reported (starves, kicks, resets, page errors).
- `sim/`: the floating-point plant the engine is tested with. `tools/`: host programs.
