# Verification of the FireWire audio drivers (sound/firewire)

TLA+ models of the drivers in `src/sound/firewire`, the TLC runs that check
them on small instances and the proofs that TLAPS checks. The drivers connect
ALSA (PCM, MIDI, hwdep) to audio devices on a FireWire bus. The hard part is
not the audio but what goes on around it: a bus reset may come between any two
steps of anything, user threads, interrupt-context callbacks and the `.update`
handler touch the same structures, other controllers share the devices and the
isochronous resources, and every transaction may fail or be answered late.

Paths below are relative to `src/sound/firewire`.

## 1. Inventory

| component | files | state | operations |
|---|---|---|---|
| FCP transactions | `fcp.c` | list of pending transactions; per call: state, deferrable, tries, buffer | `fcp_avc_transaction`, `fcp_response`, `fcp_bus_reset` |
| Isochronous resources | `iso-resources.c` | allocated, channel, bandwidth, generation | allocate, update, free |
| Connection management | `cmp.c` | connected, last_pcr_value, resources; the plug register of the device | establish, update, break, check_used |
| AMDTP streams | `amdtp.c`, `amdtp.h` | context, packet_index, callbacked, data-block/SYT/MIDI counters, PCM pointers | set_parameters, start, stop, pcm_abort, update, in/out callbacks |
| Fireworks transactions | `fireworks/fireworks_transaction.c`, `fireworks_command.c` | queue of pending transactions, sequence number per card, instances, response ring | cmd, run, `efw_response`, bus_reset |
| Fireworks hwdep | `fireworks/fireworks_hwdep.c` | ring pointers, resp_queues, lock count, lock_changed | read, write, poll, lock, unlock, release |
| Fireworks streams | `fireworks/fireworks_stream.c`, `_pcm.c`, `_midi.c` | two streams, two connections, substream counters, mutex | start_duplex, stop_duplex, update_duplex, the PCM and MIDI callbacks |
| Fireworks cards | `fireworks/fireworks.c` | devices_used, the card | probe, update, remove, card_free |
| Dice | `dice/*` | owner address and generation, clock_accepted, notification bits, global_enabled, streams | register, unregister, select clock, notification, start/stop/update duplex |
| BeBoB | `bebob/*` | streams, two connections, counters, lock, deferred registration of M-Audio units | start/stop/update duplex, PCM, MIDI, hwdep, card |
| OXFW | `oxfw/*` | streams, connections, counters, lock | start/stop/update simplex, PCM, MIDI, hwdep, card |
| Digi 00x | `digi00x/*` | streams, two resources, the session of the device, counters, lock | begin/finish session, start/stop/update duplex, PCM, MIDI, hwdep, card |
| iSight | `isight.c` | context, resources, packet_index, sample counts, PCM pointers | packet callback, start/stop streaming, prepare, bus reset, removal |
| SCS.1x | `scs1x.c` | output buffer and its converter, output_idle, transaction_running, input escape | HSS handler, tasklet, trigger, drain, removal |
| Helper library | `lib.c`, `packets-buffer.c` | none | `snd_fw_transaction` with its retries; DMA buffers |

**Interactions.** PCM and MIDI callbacks of ALSA call `*_stream_start_*` and
`*_stream_stop_*`, which call `cmp_connection_*` (or registers of Dice and Digi
00x), `fw_iso_resources_*` and `amdtp_stream_*`. The isochronous callbacks of
`amdtp.c` run in a tasklet, process both streams of a duplex pair from the
callback of the master, and abort PCM substreams. The FireWire core calls the
`.update` handler of a driver after a bus reset; it calls `fcp_bus_reset` or
`snd_efw_transaction_bus_reset` and updates connections or resources. Responses
reach `fcp_response`, `efw_response`, `dice_notification` and the HSS handler
in interrupt context. A user-space streaming program competes with the
substreams for the lock of the hwdep device.

**What makes each part correct** (and is hard to test):

* FCP: no callback reaches a call that has returned, what a call returns
  answers its own command, interim answers stay inside, every call ends.
* Connections and resources: `connected`, the plug register and the IRM agree
  whenever no operation is under way, nothing is leaked or broken that is
  another's, and the `.update` handler catches up with the last reset.
* Fireworks transactions: an answer reaches the thread or the user whose
  command it answers, across units, retries and renumbered nodes.
* hwdep: the ring is a queue of whole responses, no reader sleeps through an
  event, the lock counts exactly the open substreams and excludes user space.
* Streams: whichever step fails, no connection survives without a stream; both
  stop with the last substream; a PCM never runs on a dead stream unnoticed.
* AMDTP: the block sequence and the timestamps, made by two independent integer
  state machines, are exact against the bus clock; a loss of data blocks ends
  the stream and nothing else does; pointers stay in the PCM buffer.
* Dice: whoever the driver believes the owner is and the device believes it is
  agree after a reset, and a clock change waits for its own acceptance.
* SCS.1x: whatever pieces MIDI comes in, the device gets whole packets, and a
  drain waits for the last.

`PROJECT.json` lists the hazards line by line with the properties that cover
them.

## 2. Modules

| module | models | state and actions in the code |
|---|---|---|
| `Fcp` | `fcp.c:223-370` | a program counter per caller; one action per stretch between two accesses to shared data; the accesses to `t.state` without the lock (254-271) are steps of their own |
| `IsoResources` | `iso-resources.c` | actions of the resource object and of the IRM, without a specification of its own: `Cmp` composes them |
| `Cmp` (extends `IsoResources`) | `cmp.c:73-403` | threads `app` and `upd`, one action per transaction on the bus; the other controller and the bus reset are external actions |
| `PlugConnection` | the promise of `cmp.c` | abstract: a plug, and who owns it; the refinement `IsPlugConnection` of `Cmp` instantiates it |
| `StreamLock` | `*_stream_lock_*`, hwdep lock ioctls of five drivers | every operation is atomic under the card's spinlock |
| `EfwHwdep` (extends `StreamLock`) | `fireworks_hwdep.c:22-122`, `fireworks_transaction.c:118-164` | the ring as an array of quadlets, the two pointers, readers that sleep |
| `EfwTransaction` | `fireworks_transaction.c:63-116, 166-304`, `fireworks_command.c:101-175`, `fireworks_hwdep.c:124-152`, `fireworks.c:182-305` | threads in `snd_efw_transaction_run`, commands and answers on the bus, the response handler, probe and removal |
| `EfwStreams` | `fireworks_stream.c`, `amdtp.c:871-1082`, `fireworks_pcm.c:243-349`, `fireworks_midi.c:11-66` | the holder of `efw->mutex` works off a sequence `todo` of calls; callbacks, triggers and `cmp_connection_update` interleave with it |
| `AmdtpOut` | `amdtp.c:204-249, 328-404, 502-549, 647-689, 795-814` | one step per packet; history variables count since the last time everything was in phase |
| `AmdtpIn` | `amdtp.c:143-190, 319-325, 456-478, 551-604, 691-843, 1017-1027` | one step per packet, with the counter of the device, what the bus loses, and the PCM pointers |
| `Duplex` | what the drivers below share: `amdtp_stream_*`, `fw_iso_resources_*`, PCM, MIDI, hwdep and card operations | operators on one record `card` |
| `OxfwStreams`, `BebobStreams`, `DigiStreams`, `DiceStreams` | the streams, PCM and MIDI files of each driver | one action per callback; a call that holds the driver's mutex is the set of its outcomes, one per failing step |
| `Drivers` (extends those four) | | a card of one of the drivers, chosen by `Init`, and the properties common to all |
| `DiceTransaction` | `dice-transaction.c`, `dice-stream.c:124-378`, probe and remove of `dice.c` | a user thread, the update handler, the notification callback and the device, a step per transaction |
| `Isight` | `isight.c` without mixer and probe | the packet callback in five steps, the PCM callbacks, the bus reset handler and the removal |
| `Scs1x` | `scs1x.c:61-313, 473-488` | the tasklet byte by byte, against writes, trigger, drain, write callback and removal; the converters as functions of the bytes so far. Not `handle_hss` (341-366), which looks at a request and hands its bytes to `scs_input_packet`, nor the set-up (315-339, 368-471) |
| `MC*` | | instances for TLC |
| `FcpHwdepProofs` (of `Fcp` and `EfwHwdep`), `CmpProofs`, `EfwTransactionProofs`, `EfwStreamsProofs`, `DiceTransactionProofs`, `AmdtpProofs` (of `AmdtpIn` and `AmdtpOut`), `IsightScs1xProofs` (of `Isight` and `Scs1x`), `DriversProofs` | | theorems |

A definition that stands before another one with a comment that begins with
`Mutant:` is not part of the model. It is the same definition with a plausible
bug, and is put in its place to see that a property notices.

What is abstracted, per module:

* `Fcp`: frames are an opcode (the bytes a response is matched on), FINAL or
  INTERIM, and the generation they were sent in. `snd_fw_transaction` either
  delivers a command or fails, and a failed one may have been delivered.
* `IsoResources`, `Cmp`: a plug register is (online, connected, channel); speed
  and overhead depend on the stream format alone. Bandwidth is one more reason
  for an allocation to fail. The transactions of `fw_iso_resource_manage` are
  one step. Any of them may fail: a deallocation then leaves the channel taken
  (`DeallocateFails`), and an allocation whose response alone was lost has taken
  one (`AllocateFails`, `ReallocateFails`); `leaked` remembers which. The other
  controller makes a connection of its own, or lays one over this driver's
  (`OtherOverlays`: the count in the register is then 2, `owner` is "both").
  `OtherConnects`, `OtherOverlays` and `PlugToggles`, at most `MaxOther` of them, are
  what changes the register behind the driver's back: without the bound
  `pcr_modify` might compare with a new value for ever.
  `c->mutex` covers every use of `r->mutex`, which is left out.
* `EfwHwdep`: a response is a run of quadlets, the first of which states the
  length. A header has two quadlets instead of six; `read()` of several threads,
  faults of the user buffer and truncated responses are kept.
* `EfwTransaction`: a message is the unit, the sequence number and, as history,
  who sent it. The ring is the set of what got into it (`EfwHwdep` is about its
  order). `snd_efw_resp_buf_debug` is off. Lines 99 and 102 read the state
  once: an answer between them is like one that comes while the command is
  being sent again. A device that is removed does not come back.
* `EfwStreams`: `cmp_connection_establish` succeeds or fails, `_update` keeps
  or loses the connection: what they do is `Cmp`. Commands to the device
  succeed or fail. Of the packets only the errors matter: a queueing error, a
  discontinuity, a packet that comes after an error. `get_sync_mode` only
  knows `CIP_SYNC_TO_DEVICE`, so the stream from the device is the master. The
  stream lock is left out, as user space does not take it here.
* `AmdtpOut`: PCM samples, headers and queueing are left out. The data block
  counter is kept modulo 8, all that a MIDI port depends on. A MIDI byte is
  sent or not, as the rate limit allows: the port may have none.
* `AmdtpIn`: headers are valid or not; the counter is taken modulo 256 as in the
  code; a quirk is a set of flags; the counter rules of each kind of device are
  modelled from what the flags say of them. A packet is one step, though `s->pcm`
  is read at line 769 and used at 787.
* `Duplex` and the drivers: a section under the mutex is one step with all its
  outcomes. The packet callbacks take no mutex: the errors that they mark while a
  section starts streams are applied at its end (`Meanwhile`), to any of the streams
  that run, so that a start that found no error, or made the stream anew, returns 0
  for a stream that is dead. It is enough to apply them there, as a section looks at
  an error once, before it starts anything, and what was marked before that is a
  state the step begins with. One order is different, a master that dies before
  its slave is started, and is added (`Survived`). Of a stream that a failing start
  stops again an error is not kept: the next start clears it. `Rates` are
  two, formats are left out. What the device is told when a session ends
  (`finish_session` of Digi 00x, the clearing of ENABLE of Dice) has errors that the
  code ignores: `session` is what the driver believes.
* `DiceTransaction`: the registers are the owner, enable and the clock rate. The
  device accepts a clock in one step and sends a notification, which arrives in
  another one or is lost: at any time, in any later try or call, after a bus reset
  too. Those on their way are counted, apart for this call of `set_clock_info`
  and for earlier ones; they do not say what they are for.
* `Isight`: samples are counted, and a count is modulo `Total`. `Scs1x`: MIDI
  bytes are real bytes, a few of every class; a packet has at most `MaxPacket`. Once
  the card is disconnected no write begins, but one that is under way goes on:
  `scs_output_trigger` runs against every line of `scs_remove`. Bound: such a write
  sets the output again at most once more after line 480.

## 3. Runs

| run | expects | bounds | what it shows |
|---|---|---|---|
| `fcp` | pass | 2 callers on one unit, one call each, an opcode of either kind, 1 reset, 1 interim answer, `ERROR_RETRIES` 2 | `LinkedIsAlive`, `AnswerIsMine`, `NoInterimResult`, `CompletionKept` |
| `fcp_reset` | violation | 1 caller, 1 call, 1 reset, no interim answer | `CallReturns`: STATE_BUS_RESET sticks |
| `cmp` | pass | 2 channels, 2 resets, 2 acts of the other controller or the device, any failing transaction | `ConnectionIsReal`, `NoChannelLeak`, `PlugIsKnown`, the liveness properties `UpdateCatchesUp`, `EveryCallReturns`, and the refinement `IsPlugConnection` |
| `efw` | pass | a ring of 5 quadlets, responses of 2-3, reads of 1, 2 and 5, 2 readers, 2 substreams, at most 3 queued responses; symmetric in readers and substreams | `RingHoldsUnread`, `NoMissedWakeup`, `LockExclusive`, `StatusReported` |
| `efw_transaction` | pass | 2 units, one of them not plugged in at first, a caller of each with one call, a command of user space, 1 reset, 2 messages on the bus; numbers 2-5, so that the last one is used | `AnswersReachSenders`, the liveness property `TransactionsReturn` |
| `efw_streams` | pass | both PCM devices, a MIDI port on `rx`, 2 users per stream, 1 streaming error, 1 bus reset | `StreamsMatchUse`, `DeadIsAborted`, `SuccessRuns` |
| `amdtp_out` | pass | every rate in both modes, whole periods; MIDI in blocking mode at every rate and in non-blocking mode at 32, 44.1 and 48 kHz | `RateIsExact`, `TimestampIsNearest`, `MidiFifoKept` |
| `amdtp_in` | pass | a mode for each combination of quirks that a driver sets, losses, invalid packets, restarts, any first counter; short PCM buffers | `LossIsNoticed`, `MidiPortIsRight`, `PointersAreRight` |
| `drivers` | pass | the units of `MCPlug` (with and without MIDI, capture, M-Audio), 2 rates, 2 substreams per counter, 1 forgotten user or lock; symmetric in rates, seen through `MCView` | `CountsUsers`, `StreamsMatchUse`, `RunningPcmHasStream`, `PreparedRuns` |
| `dice` | pass | 2 rates, 2 nodes, 2 resets, 1 retry, 1 notification on its way at a time | `EnableIsKnown`, `ClockIsAsked`, `OwnerIsUs`, the liveness property `CallsReturn` |
| `isight` | pass | packets of 1 frame, a buffer of 3, counts modulo 4, gaps up to 3, a queue of one packet | `PointerInStep`, `RunningHasStream`, `FreedIsQuiet` |
| `scs1x` | pass | a few MIDI bytes of every class, packets of 5, 2 queued bytes; seen through `MCView` | `OneCommandPerPacket`, `EscapeRoundTrip`, `WaitMeansSent`, the liveness property `WaitsReturn` |

Each module also has a type invariant `TypeOK`; for `Fcp`, `Cmp`, the lock,
`EfwStreams` and `AmdtpIn` it is proved (section 5).

Why the bounds are enough. In `Cmp` two resets are needed for "a reset during
the handling of a reset"; a third adds no new relation between the generation
that an operation noted and the present one. `fcp_bus_reset` keeps no
generation, so in `Fcp` one reset tells a frame sent before it from one sent
after, and the proofs cover any number of resets and calls. Two channels tell
"our channel" from "another's". Two callers with the same opcode are what can
confuse matching. In the ring, 5 quadlets and responses of 2 and 3 make both
pointers wrap at every offset, and let the ring be exactly full. In
`EfwTransaction` one reset is what exchanges the nodes of two units, and two
messages are what makes an answer late; the numbers are so few that the last
one, whose next is a user's, is reached. One streaming error is enough, since a
stream that has one takes no second until it is started again, and the
properties relate one error to the calls around it. A stream with two users
(PCM and MIDI) is what tells "a substream closed" from "the last one closed".
`amdtp_out` needs no bound: the state is finite, because the counters are taken
relative to the last common phase, every 4 cycles for the 48 kHz family and 640
for 44.1 kHz; `amdtp_in` neither, since counters wrap. In `drivers` a second
forgotten user or lock adds nothing to one. In `dice` one notification is enough to
come too late; the proof is for any number. In `scs1x` two bytes are what lets a
tasklet run between the pieces of one write. Dice notes two generations at most, as
`Cmp`. The 3 gap sizes of `isight` are none, one that fits and one that is more
than the buffer.

Two runs have a VIEW. It identifies states that differ only in what no step and no
property looks at again: in `drivers` the completion when no thread is about to wait
for it, and `missed` of the drivers that `RunningPcmHasStream` is not about; in
`scs1x` the cells behind the end of the packet while the tasklet is off, and, of a packet
that is unescaped or was, all but its first byte and its length, the only things a
condition reads of it. What an action property reads is in the view or set by the step itself.

Deadlock is checked in `efw_streams`, `amdtp_out` and `amdtp_in`, where a
device, a user or the clock can always act. The others really stop: a call waits
for a mutex or sleeps, a card is removed, or the calls, resets, answers and
responses allowed by the bounds run out. That a call of theirs does not wait for
ever is what `CallReturns`, `EveryCallReturns`, `TransactionsReturn`,
`CallsReturn`, `WaitsReturn` and `NoMissedWakeup` are for.

**Fairness.** `fcp_reset` and `cmp` use `FairSpec`: weak fairness of each
thread's steps (the scheduler runs every thread, timers fire, transactions
complete or fail) and of the core's calls of the `.update` handler; strong
fairness for `Update` in `Cmp`, which waits for a mutex that the application
may take again and again, and which the kernel hands over in order of arrival.
`EfwTransaction` has weak fairness of the steps of the threads, whose waits have
timeouts; `DiceTransaction` of the threads, handlers and timers; `Scs1x` of the
tasklet once it is scheduled, of the completion of a transaction (the core calls
back for every request), of the waiting threads and of one that is in the trigger. Nothing makes devices
answer, applications call or buses reset.

**Exceptions.** Where the code does not hold a property in one circumstance, a
history variable names that circumstance and the property is about all others:

| property | circumstance |
|---|---|
| `StatusReported` | `faulted`: a fault in the reader's buffer (`fireworks_hwdep.c:83-90`) |
| `NoChannelLeak` | `leaked`: a channel whose own lock transaction failed, that is a failed deallocation (`iso-resources.c:220-226`) or an allocation whose response was lost, or that an update in the generation in which it was allocated forgot; `abandoned`, see the next row |
| `UpdateCatchesUp` | `abandoned`: an update that a reset overtook while it allocated (`cmp.c:343`) |
| `PlugIsKnown` | `doubled`: an update in the generation in which the resources were allocated; `failed`: a compare-and-swap that failed (`cmp.c:395` logs "plug is still connected") |
| `RingHoldsUnread` | `desync`: an overwritten or torn response |
| `DeadIsAborted`, `RunningPcmHasStream` | `missed`: an abort that came before the PCM was triggered |
| `AnswersReachSenders` | `sent = "answer"`: the answer was sent as a command, see below |
| `TransactionsReturn` | a transaction that met a bus reset |
| `LossIsNoticed` | a device that restarted its counter, a multiple of 256 blocks, the first empty packet of M-Audio devices (`amdtp.c:740`); `overlooked`: on a Fireworks, a loss in front of a packet whose counter has wrapped to 0, which is not checked (`amdtp.c:744`) |
| `CountsUsers` | `lost`: a MIDI open or a buffer allocation that failed; `lockLost`: the two opens that fail and keep the lock (`oxfw-pcm.c:212`, `digi00x-pcm.c:129-145`) |
| `StreamsMatchUse` | Digi 00x after a bus reset (`digi00x-stream.c:399`); a BeBoB slave that runs when its master does not (`bebob_stream.c:549-611`) |
| `PreparedRuns` | `missed`: an error that came after the start had looked for one, whose abort is then lost (`oxfw-stream.c:281`, `dice-stream.c:211`, `digi00x-stream.c:312`, `bebob_stream.c:549`); capture of Dice; the rate of an OXFW capture |
| `EnableIsKnown`, `OwnerIsUs` | a lost write, a failed registration, an update handler that comes after a thread has started again; the first registration, and a reset between lines 249 and 252 |
| `ClockIsAsked` | `late`: a notification of an earlier call that arrives between line 102 and the end of the wait (`dice-transaction.c:101-111`) |
| `PointerInStep`, `RunningHasStream` | see the comments in `Isight` |
| `WaitMeansSent` | `crossed`: the tasklet set `output_idle` after a trigger had cleared it; for the removal, `late`: a write in flight set the output again after `scs1x.c:480` had cleared it |

## 4. Where code and text disagree

One disagreement has a run of its own, whose counterexample shows it
(`PROJECT.json`, "findings", quotes the lines): `fcp_reset`, after a bus reset a
transaction never counts a timeout, though "we promise to finish this function
for a caller" (`fcp.c:261`).

The others were met on the way. They are the exceptions above, or visible in
the models' actions:

* `iso-resources.c:183`: an establish between a reset and `.update` makes the
  update ask for the channel this node holds, be refused, and forget it, though
  `fw_iso_resources_free` is said to free what was allocated (101-103).
* `iso-resources.c:220-226`: a deallocation that fails is only reported, and
  `allocated` is cleared all the same: the IRM keeps a channel that nobody will free
  before the next bus reset.
* `iso-resources.c:185-188`: after -EAGAIN the update pretends that the allocation
  went well and leaves the new try to the call for the new generation, but
  `cmp_connection_update` (`cmp.c:343`) gives the connection up for every error. The
  next update finds it not connected and does nothing, `allocated` stays set, a break
  does nothing either (`cmp.c:387`), and an establish is refused with -EBADFD.
* `cmp.c:370-373`: a break clears the whole count, so that a connection which another
  controller has laid over this driver's ends with it.
* `cmp.c:81`: the first compare-and-swap with a stale `last_pcr_value` is not
  preceded by `check()`: a connection of another controller with the same value
  is taken over.
* `fireworks_transaction.c:129`: the ring overwrites unread responses when it is
  exactly full, though line 135 says "confirm enough space for this response".
* `fireworks_transaction.c:92-102`: the answer is copied over the command. A
  retry that crosses its answer sends the answer as a command; because numbers
  go up by two the answer to that matches nothing, but for the last number,
  whose answer wraps into the range of user space. And as in FCP a transaction
  that met a bus reset takes no answer and counts no try.
* `fireworks_midi.c:38` and the MIDI files of the other drivers: a failed open
  keeps its substream counted, so that streams run on with every device closed.
* `fireworks_stream.c:237`: a slave is left running without its master when a
  restart of the master fails, though "master should be always running" (251).
* `amdtp.c:510`: the MIDI rate limit is computed for blocking mode only; at 88.2
  and 96 kHz in non-blocking mode more than two bytes are waiting.
* `amdtp.c:1044`: "All PCM and MIDI devices of the stream must be stopped before
  the stream itself can be stopped", but BeBoB and Digi 00x stop streams for a
  restart without aborting the PCM of the other direction.
* `amdtp.c:744`: `CIP_SKIP_DBC_ZERO_CHECK` is for the counter that a Fireworks
  restarts, but skips the check of every counter that wraps to 0 as well: a loss
  in front of such a packet is never noticed.
* `oxfw-pcm.c:212`: `goto end` keeps the stream lock of an open that fails.
  `digi00x-pcm.c:129-145`: so does an open for which the clock cannot be read, when
  `clock`, which then has no value, reads as the internal one and no PCM runs.
* `oxfw-stream.c:281`, `dice-stream.c:211`, `digi00x-stream.c:312`,
  `bebob_stream.c:549`: an error is looked for once; one that comes between there and
  the return of prepare leaves a dead stream and a PCM whose abort is lost, with 0
  returned.
* `bebob_stream.c:549-611`: a slave that was started after its master had died runs
  on when the master is stopped and both connections are broken; started again the
  master sets the parameters of both, with a WARN_ON for the running one (`amdtp.c:213`).
* `oxfw-stream.c:262`: the stream to the device is its own opposite, so that a
  playback changes the rate under a running capture.
* `dice-transaction.c:273`: `err != -EAGAIN || retries-- > 0` breaks out in the
  first try while retries are left; line 370 stores `global_offset` after the
  first registration, which goes to a wrong address; lines 101-111: see `ClockIsAsked`.
* `dice-pcm.c:296-308`: `capture_prepare` returns 0 whatever failed.
* `digi00x-stream.c:399`: what the updates of the resources come to is not
  looked at.
* `isight.c:189-194`, `205`, `414`: see the comments in `Isight`.
* `scs1x.c:155-159`: see `WaitMeansSent`; 81-84 against 480-485: a write in flight
  makes the tasklet start a transaction that the removal does not wait for; line 94: a packet refused for its
  generation is lost (marked TODO); line 209: a realtime byte is dropped, though
  `is_one_byte_cmd` (109) knows them, so that one of the device does not come back.

## 5. Proofs

TLAPS checks the following for all values of the constants, under the named
assumptions of the modules: types of the constants; for `EfwTransaction`, that
the limits of the sequence numbers have the parity and the order they have in the
code; for `AmdtpIn`, what the drivers make of the flags of a stream (`AmdtpInAssumption`:
only the flags that Fireworks combines come together, a wrong counter of empty
packets comes with blocks of 16, `bebob_stream.c:471`, and two frames in a data
block with blocking packets of none or 16); for `DiceTransaction`, that there are not more bus resets than generations
(`MaxResets \in 0 .. MaxGen`), so that none comes back while something still holds
it: the code has 2^8 of them on the wire.

* `FcpHwdepProofs`, FCP. `IInv` is `TypeOK` and `LinkedIsAlive`, with: no device
  generation is ahead of the bus; and of every caller (`CallerInv`) that a
  CONTROL or NOTIFY command is deferrable; that a transaction which is COMPLETE
  holds an answer from its unit, with its opcode, of a generation not before the
  call (`GoodAnswer`), as does a call that returns a size; that about to return
  a size the state is COMPLETE; that the caller is at the unlocked write of line
  265 only in DEFERRED or BUS_RESET; that it has tries left until it unlinks.
  It is inductive because a callback only touches linked transactions, and only
  a PENDING one can become COMPLETE: no callback leads there from the states in
  which line 265 writes, the reason why that unlocked write is harmless.
  `AnswerIsMine`, `NoInterimResult` and `CompletionKept` follow.
* `CmpProofs`. `IInv` is `TypeOK` and four parts. `Exclusion`: the mutex is held
  exactly by the thread that is in a critical section. `Connectedness`: which
  steps run with the connection up and with resources allocated. `Allocation`:
  what `allocated` says of the IRM, but for the update that has noted the new
  generation and not yet allocated in it. `Connection`: what `connected` says of
  the register, but for the steps that are about to make or undo it. From it
  follow `ConnectionIsReal`, `AllocationIsReal`, `NoChannelLeak`, `PlugIsKnown`
  and the action property `BreakOnlyOurs`. Every channel the IRM holds for this node
  is in `leaked` or is the one of the resources, so that a failing deallocation
  moves it from one to the other. They speak of the time between
  operations; without the parts about the steps in between none is inductive.
  `Implements` is the refinement: the initial state maps to one of
  `PlugConnection`, and by `StepIsPlugStep` every step, under `IInv`, to one of
  its steps or a stutter. `IInv` is needed for the compare-and-swap of a break:
  it succeeds in a generation in which the connection is this driver's.
* `FcpHwdepProofs`, hwdep. `LockInv` (the types of the lock, `Counted`: its count is
  minus one or the cardinality of the open substreams, and `StatusReported`)
  and `WakeInv` (the readers and `NoMissedWakeup`), for any finite set of
  substreams and any set of readers. `LockExclusive` follows. `RingInv` is for
  the ring: there are positions of the unread responses, counted in quadlets from
  the first one (`Laid`), at which the ring has them, the last of which is where
  the next one goes. Positions that are there, not computed, can be followed through a
  response that is stored (`AddNewest`) and one that is consumed (`TakeOldest`, after
  which all of them are counted from another one). `DrainIs` does
  the loop that drains the ring into a buffer, and `OffsetIs` shows that the positions are
  the sums of `RingHoldsUnread`.
* `EfwTransactionProofs`. `AnswersReachSenders` needs all of `IInv`: a device
  knows the node ids of the generation it knows (`BusInv`), so that what
  `Source` accepts is an answer of that unit (`SourceInv`); pending calls of one
  unit have numbers of their own (`CallInv`); and what is on the way is a command
  of user space with a number of user space, an answer sent as a command, whose
  number is odd, or the command of the one call that waits with its number
  (`WireInv`). `Parity` then tells an answer to an answer from an answer to a
  command, `KernelRange` the driver's numbers from those of user space. That a
  number is not used up while its command or answer is on the way (`Unused`) is
  assumed: there are 2^31 of them.
* `DiceTransactionProofs`. `IInv` is five parts beside the types. `Places` says which
  thread is where: a call or a registration is under way exactly at its steps.
  `Gens` says that the generations the driver and the core hold are at most as many
  resets behind the bus as there have been (`Dist`), so that a reset makes each of
  them an old one. `Enabled` adds to `EnableIsKnown` that an enabled device is one
  the driver's writes reach. `Clock` says what the request in the device, the
  notifications on their way and the completion can be at each step of set_clock_info():
  a notification counted for this call is of a clock that is the one asked for, and
  the completion is set by such a one or by a late one. It gives `ClockIsAsked`, for any
  number of notifications on their way. `Owner` does the same for the owner during a registration and its
  retries, and gives `OwnerIsUs`. What these properties except (the fields of
  `past`) are interleavings named in the comments of the properties.
* `EfwStreamsProofs`. What the holder of the mutex has still to do, `todo`, is data;
  but it is always one of a few dozen plans: `Plan` says that it is, by what the
  holder wants and whether a step has failed, and `First` and `After` say what the
  next step is and what may come behind it. The lemmas about `Push` do the
  sequences once, so that the other parts of `IInv` only speak of the step the
  holder is at: `Matching`, of a context and the connection it was started on,
  for each step of a start or a stop; `GiveUp`, of the streams the update handler
  gives up; `Used`, that the counters count who has the devices open and that a
  stream nobody uses is stopped when the operation ends; `Began`, that what a start
  has brought up still runs or has died since; `Died`, that the PCM of a stream
  which died has been told, or was prepared and not running when it was. Each
  action has a lemma, and under it one per part. `StreamsMatchUse`,
  `DeadIsAborted` and the action property `SuccessRuns` follow. `IInv` is for any
  bounds of the counters, errors and bus resets.
* `AmdtpProofs`, in-streams. `InInv` is `PointerInv` (the pointers are in the buffer
  and in the period, and with two frames in a block a multiple of them, so that a
  transfer ends in the buffer), `LossIsNoticed`, `MidiPortIsRight` and `CounterInv`: as
  long as nothing else happened to the device its counter is ahead of the driver's
  by what was missed, modulo 256, or by eight less after a first packet that
  is empty and has a wrong counter. The packets of one turn of 256 are counted
  by arithmetic modulo 256 (`WrongEmpty`, `NothingMissed`, `SameStep`), and the
  lemmas `Device`, `Packet`, `CheckedPacket` and `CounterTaken` follow
  handle_in_packet() under each quirk. The proof needed the assumption above: with
  flags that no driver combines the properties do not hold.
* `AmdtpProofs`, out-streams. What `AmdtpIn` names alike is named `Out...` in
  `AmdtpOut` (`OutSpec`, `OutModes`). `OutInv` says what the states of
  the two machines are after c packets: of `calculate_syt()` that the next
  timestamp lies where the formula puts it (`Clock`: for the 44.1 kHz family
  `TickStep` shows that 1386 ticks and one more in the phases the code
  singles out are the rounded steps of 655360/147), and of
  `calculate_data_blocks()` that the blocks so far are those due, rounded up
  (`Blocks`). `RateIsExact` and `TimestampIsNearest` hold for every sampling rate in
  both modes. `FifoInv`: until the next byte of a port may be sent the device has
  drained what the rate limit counts, because its frames are SYT_INTERVAL data blocks
  apart (`FrameEveryInterval`). That is so in the modes of `FullPackets`, a
  hypothesis of `FifoKept` and what `MCAmdtpOut` checks; see section 4 for the
  others.
* `IsightScs1xProofs`, iSight. `IInv` has four parts: `Held`, the channel is the context's or is
  about to be; `SetUp`, a context belongs to a substream that is being used;
  `Gone`, what isight_remove() has left; and `Told`, that a substream that runs
  has its stream or was told of its end. The lemma `Abort` says that
  isight_pcm_abort() stops the substream or comes too early for it, and is used
  by each step that aborts: the callback, a reset and the removal.
  `FreedIsQuiet` and `RunningHasStream` follow. `StepInv` is what `PointerInStep`
  needs: `Following`, the driver's count of the samples is the device's but for what was
  lost since and for the packet in the callback; `Behind`, what the callback is about to
  add to the pointer; and `InStep`, that pointer and stream differ by no more. It
  is a property of all sizes, so that the counts are added modulo `Total` and modulo
  the buffer by lemmas (`Counting`, `Wraps`, `Later`).
* `IsightScs1xProofs`, SCS.1x. `ScsInv` adds `ScsIdle` to the types: `output_idle` is set only while no
  transaction is under way and the tasklet is neither scheduled nor running,
  unless a trigger crossed the tasklet, or a write set the output again after the
  removal had cleared it; once the removal waits for the tasklet to end, the tasklet
  finds no output but in that case. The action property `WaitMeansSent`
  follows, for both waits, in drain and in remove. `CommandInv` adds that
  what is being made of the bytes so far is the first part of one command
  (`Partial`), nothing, or escaped, and that what is sent is whole; `OutputByteParsed` shows
  that a byte keeps it so. `OneCommandPerPacket` follows. For `EscapeRoundTrip` the
  two converters are followed from byte to byte (`Makes`, `Comes`): a message that
  is escaped comes back by induction over the bytes of the packet (`PrefixMade`, `EscapeMade`), and
  so does a SysEx message (`SysExMade`), in whatever state it finds the output.
  Packets are of any length up to `MaxPacket`.

* `DriversProofs`. The outcomes of a call under the mutex are sets that are built from
  those of smaller calls, with operators that take operators (`Then`, `OrUndo`). Each
  operator that a driver is built from has a lemma that says of every outcome, by name,
  what it keeps and what it has reached: first the calls of `Duplex`, which touch the
  streams and leave the users alone but for an abort (`Keeps`), then each driver's
  functions up to start, stop and update. `IInv` is three parts. `Tidy` is about the users:
  the counters and the lock count them (`Counting`, `Locking`), what waits in a start is
  not yet open or still has its parameters (`Orderly`), and what may be at which point of
  the card's life (`Lives`). `Sound` is about the streams, and is not the same for any two
  drivers: a stream of OXFW has its connection; the master of Dice runs only with its
  slave at the rate of the device; both connections of BeBoB are up or none is, and the
  master runs only with them, while its slave may outlive both; the stream from a Digi 00x only
  runs with the other one, at one rate. `Unused` is what is left when a counter is 0. These are
  needed because a start finds what an earlier one, which failed at any of its steps,
  has left. What the packet callbacks make of the streams during a start (`Meanwhile`) is
  `Worse`: it only marks errors and aborts PCM, which keeps all three parts. One lemma for all drivers serves each of the callbacks (`Serves`), given the lemma
  about the driver's start or stop; the drivers' steps then are cases of it. `CountsUsers`,
  `StreamsMatchUse`, `RunningPcmHasStream` and the action property `PreparedRuns` follow, for
  any bounds, rates and sets of units.

What a function that is defined recursively yields for every argument needs
induction, whose theorems in the library have a predicate for a parameter. `FcpHwdepProofs`
and `IsightScs1xProofs` derive, from the well-foundedness of the naturals and with a set in
place of the predicate, that every set of naturals has a least member (`Least`), that
what holds of 0 and passes to the next number holds of all (`Induction`), and that what is
defined by primitive recursion exists (`Recursion`).

Model-checked only: liveness (`UpdateCatchesUp`, `EveryCallReturns`,
`TransactionsReturn`, `CallsReturn`, `WaitsReturn`), which rests on fairness and
ENABLED. Every safety property of a passing run has a theorem.

## 6. Not modelled

* `/proc` output, register layouts, device tables, the per-model controls and
  meters of BeBoB, OXFW and Digi 00x, and the commands of `fireworks_command.c`
  one by one: they keep no state of their own and do one transaction each.
* The discovery of stream formats at probe (`bebob_stream.c`, `oxfw-stream.c`,
  `dice.c`) and the rate and channel constraints made from it: sequential parsing
  of what a device says.
* PCM sample conversion and the scrambling of Digi 00x (`digi00x-protocol.c`):
  data that no control depends on.
* The command line tools `ftransfer.c` and `monitor.c`, `asound.h` and the build
  files.

What further work could add, in this order: the packet buffer of a slave that
is stopped while the callback of its master runs (`amdtp.c:1060`), for which the
memory accesses of the callback have to be steps; a FIFO that the ring of
`EfwHwdep` implements until it is overrun.
