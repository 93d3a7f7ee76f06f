# A verification project for the GBA libraries of nix-agbtools

The repository is a tool chain for the Game Boy Advance. Most of it is third-party code (GCC 2.95,
newlib 1.8.2, GNU Binutils 2.31, in reduced copies). Its own logic is in a handful of small
libraries that a game links, and these are what is hard to test: they talk to hardware that may
not answer, from interrupt handlers, through structures that nothing locks.

| directory | lines | what it is |
|---|---|---|
| `librfu/` | 8,246 | wireless adapter: a serial driver (STWI) and a link layer on top of it |
| `m4a/` | 4,302 | sound driver: sequencer, channel allocation, mixer |
| `libgcnmultiboot/` | 660 | booting a program over the link cable from a GameCube |
| `agb_flash/` | 621 | saving to a NOR flash: erase, program, verify |
| `siirtc/` | 486 | real-time clock on three GPIO lines |
| `libisagbprn/` | 190 | debug print through a ring buffer the debugger empties |
| `libagbsyscall/` | 432 | one SWI instruction per BIOS call |

The libraries are independent of each other: a game links each one by itself, and they share only
the processor (the interrupt master enable IME, the timers, WAITCNT). So there is one module per
library and no module that composes two of them; what they must not do to each other is stated as a
property of each one (it gives IME and WAITCNT back as it found them). The two large libraries are
modelled in part: of `librfu`'s link layer the transfer of blocks from a parent, of `m4a` the players
with their channels and the sound buffer with its lock.

## 1. Inventory

### Wireless adapter, serial driver (`librfu_stwi.c`, `librfu_intr.s`): module STWI

*State.* `gRfuState`: the protocol state `unk_0`, the request and how much of it is sent, the
response and how much of it has arrived, the timer's purpose, the error status, who has the clock,
the number of restarts, and `unk_2c`, "a request is pending".

*Operations.* Thirty functions `STWI_send_*REQ` (all: `STWI_init`, parameters,
`STWI_start_Command`), `STWI_poll_CommandEnd`, `AgbRFU_SoftReset`; the serial interrupt as clock
master and as clock slave, with the busy loop `handshake_wait` inside it; the timer interrupt with
`STWI_restart_Command`; callbacks, which are made inside the interrupts and send requests of their
own.

*Hard.* The program, two interrupts and the callbacks all write the same structure. The timer
interrupt is let in inside `handshake_wait`. The adapter may refuse, answer garbage or fall silent
at any word. Change requests hand the clock to the adapter, and the roles swap.

*Correct means.* A poll always returns; a pending request always has an interrupt to come; the busy
loop can always be broken; a request goes out whole, restarts included; one callback per request; a
time-out is reported after three starts; the side without the clock always listens for it, and a
command of the adapter is taken as granted when it was told so.

### Debug print (`libisagbprn.c`): module AgbPrint

*State.* A ring of bytes written as halfwords, `m_nPut` and `m_nGet`, the write protection,
WAITCNT and IME with their saved copies. *Operations.* `AGBPrintInit`, `AGBPutc`, `AGBPrint`,
`AGBPrintf`, `AGBPrintFlush`, `AGBPrintFlush1Block`, `AGBAssert`. *Hard.* Handlers print too; three
nested routines save and restore the same registers; full and empty look alike. *Correct means.*
Characters arrive once and in order, registers are restored, an assertion's text is out before the
program stops.

### Flash (`agb_flash*.c`): modules Flash and SaveStore

*State.* The chosen chip and timer, the loop counters, the time-out count and flag, the saved IME;
in the chip, contents, the selected bank and the command at work. *Operations.* `IdentifyFlash`,
`SetFlashTimerIntr`, `ReadFlash`, `EraseFlashChip`, `EraseFlashSector`, `ProgramFlashByte`,
`ProgramFlashSector`, `ProgramFlashSectorAndVerify` and `...NBytes`; the timer interrupt. *Hard.*
The time-out races the chip's answer; a timed-out command may still be at work; the selected bank
is hidden state; power may go at any moment. *Correct means.* Success is never reported for what was
not done, no other sector is touched, IME is restored, every request returns.

### GameCube multi-boot (`libgcnmultiboot.s`): module GcnMultiboot

*State.* A structure with progress, keys, image size, two destination pointers, two counters and the
address of the next interrupt routine. *Operations.* `Init`, `Main` (called every frame), `Quit`,
`ExecuteProgram`, `HandleSerialInterrupt` with its eleven routines. *Hard.* `Main` decrypts the
image while the interrupt stores it; a device reset moves the pointers under `Main`. *Correct
means.* Only a complete, checked, decrypted image is executed; no word is stored outside it; a dead
session is given up, a live one is not.

### Real-time clock (`siirtc.c`): module SiiRtc

*State.* `sLocked`, the port's direction and read enable; in the chip, registers and the bits of the
transaction. *Operations.* `Protect`, `Unprotect`, `Probe`, `Reset`, `Get/SetStatus`,
`Get/SetDateTime`, `Get/SetTime`, `SetAlarm`. *Hard.* `sLocked` is tested and set, with interrupts
enabled; `Reset` releases it half way. *Correct means.* What is read is what the chip holds, what
is written arrives, a probed chip stays in 24-hour mode.

### Wireless adapter, link layer (`librfu.s`): modules RfuNI and NITransfer

*State.* A slot for sending and one per child for receiving: its state (0x8021 to 0x8024, 0x8041 to
0x8043 and how it ended), the targets, for each of four phases the place it is at, a two-bit subframe
number and the children that have acknowledged it, and the bytes remaining; flags for the children
that are being sent to. *Operations.* `rfu_NI_setSendData`, `rfu_changeSendTarget`, `rfu_clearSlot`,
`rfu_NI_stopReceivingData`; building a frame (`rfu_REQ_sendData`, `rfu_CB_sendData`), taking one
(`rfu_CB_recvData`, `rfu_STC_NI_receive_Sender`, `rfu_STC_NI_receive_Receiver`). *Hard.* Frames are
lost and repeated; nothing in a subframe says to which block it belongs; the numbers wrap at four;
one acknowledgement per child is collected for a block that has several targets; a child ends its
part on a frame that *lacks* something. *Correct means.* Success is reported only for whole blocks,
no subframe lands outside its place, the search for a phase to send ends, a block that nobody gives
up comes through.

### Sound driver, players (`m4a_1.s`, `m4a_2.c`, `m4a_4.c`): module M4aPlayer

*State.* Per player the lock `ident`, status, track mask, priority of the song, fade; per track flags
and the head of a channel list; per channel status, owner, links, priority. *Operations.*
`MPlayStart`, `m4aMPlayStop`, `MPlayContinue`, `m4aMPlayFadeOut`, `...FadeOutTemporarily`,
`...FadeIn`, the control functions that walk over the tracks, `m4aMPlayImmInit`; `SoundMain` with
`MPlayMain`, `FadeOutBody`, `TrackStop`, `ply_note`, `ply_fine`, `ply_endtie`, and the mixer's end of
a channel. *Hard.* `SoundMain` interrupts the program between any two accesses; the lists are shared
by all players while each lock guards one; a note steals another track's channel. *Correct means.*
Lists and back pointers agree, a paused player holds no channel, priorities are kept, the best
channel is taken, fades end.

### Sound driver, buffer (`m4a_1.s`, `m4a_2.c`): module M4aSound

*State.* `SoundInfo.ident`, which is the lock and also says whether the DMAs are on (plus ten);
`pcmDmaCounter`, `pcmDmaPeriod`; in the hardware, DMAs, timer and the part being played.
*Operations.* `m4aSoundInit`, `m4aSoundMode` with and without a rate, `m4aSoundVSyncOff`,
`m4aSoundVSyncOn`, `SampleFreqSet`, the other functions that raise `ident`; the interrupt's
`m4aSoundVSync` and `SoundMain`. *Hard.* `ident` is read, and written back changed, with interrupts
enabled; a missed restart lets the DMAs run out of the buffer. *Correct means.* `ident` and DMAs
agree, the DMAs stay in the buffer, the mixer fills a part that is not being played.

### Not modelled

* In `librfu.s`: UNI data (sent once, unacknowledged), NI data from a child (the same functions with
  the roles exchanged), game names (a control block without a body), the allocation of several send
  slots and the room they share in a frame, the failure counters, the search for and the loss of
  links. The programs that react to counters and losses are not in the repository.
* In `m4a`: the mixing of samples, envelopes and the registers of the old sound generator (numeric;
  reduced to channels that come to their end), commands that change only volume, pitch or modulation,
  the `m4aSongNum...` functions and the cry players (table lookups around the modelled ones).
* BIOS stubs and `nocashgba.c`: one instruction or one store, no state.
* GCC, newlib, Binutils and the build files: third-party code and scripts. They are nearly all of the
  repository (some 466,000 lines of code against 15,000 of its own libraries), so that the share of
  the whole repository that any model of its own logic can cover is small. They are sequential
  batch programs maintained elsewhere, and nothing in this repository changes what they do.

## 2. How the modules correspond to the code

`PROJECT.json` maps every definition to its lines. Variables have the source's names wherever the
source has a name. `pc` is the place in the program; a step is what lies between two points where
another actor can come in *and* the difference can be seen. History variables (marked so in each
module) record what properties talk about; guards read them, if at all, only to bound a run
(`printed`, `burst`). Definitions named
`X_Something` directly above `X` are plausible mistakes in `X`; no specification uses them, and each
makes a run fail, which shows that the property depends on the code.

| module | granularity | external |
|---|---|---|
| STWI | `STWI_init` in two steps around its unprotected window; interrupts split at `handshake_wait` | the adapter: any reply (`AdapterReplies`, whatever was requested), any length up to MaxPayload, garbage or silence |
| AgbPrint | `AGBPutcInternal` in its single reads and writes; a handler's `AGBPutc` in one | the debugger's flush routine: takes at least one byte |
| Flash | single polls, the flag test, the second poll, the reset | the chip: completes, fails, hangs, loses power; optionally worn or deaf to resets |
| GcnMultiboot | `Main` between two accesses to what the interrupt writes; an interrupt in one | the GameCube: any flags, any words, any order |
| SiiRtc | one bit | the S-3511A: shift register, registers, reset |
| RfuNI | a library call, a frame built, a frame taken | the link: a queue per child and direction that loses and repeats frames and keeps their order |
| M4aPlayer | the program's call access by access; `SoundMain` step by step, but never interrupted | the song: any command where one is read |
| M4aSound | between two stores to what the interrupt reads; the interrupt in one | DMAs and timer: a part per frame while both are on |

Abstractions: payload words are not distinguished in STWI (their number and order are). A character
is its serial number. A byte of flash is its set of one-bits, so programming is intersection. Words
of an image are logo, cipher, plain or spoilt; keys and hashes are reduced to whether they belong
together. In SiiRtc a byte is eight bits and conversions are done bit by bit. In RfuNI sizes and
places count subframes, and a subframe is the block's number with its own. In M4aPlayer the tempo is
a free choice of ticks per frame, a song a free choice of commands; `FADE_VOL_MAX` is a parameter
(8 in the runs, 64 in the code).

Left out, with the reason: `STWI_set_MS_mode` called directly by a program, and protocol state 0xA
(nothing in the library enters it); the text formatting of `AGBPrintf`; WAITCNT in the flash library
(the same value in every setup) and the copying of its read routines to the stack;
`SiiRtcUnprotect` called from a handler; `SoundInfo.ident` in M4aPlayer (nothing modelled there
raises it; M4aSound is about it) and `MPlayStart`'s last call, which sets the reverb. In RfuNI a
program that has given a block up does not address the same child again before nothing of that block
is left on the way (`Quiet`): the library cannot tell the blocks apart and offers no means to; after
a *successful* block no such care is needed, which is the property `SuccessIsClean`.

## 3. Runs

| run | bounds | distinct states | properties |
|---|---|---|---|
| `stwi` | 4 requests, replies 0x93, 0xA5 and 0xEE to any of them, payloads up to 2 words, program also sends while pending | 574,603 | PendingHasWakeup, WholeRequestSent, SlaveVerdict, TimeoutAfterThreeStarts, ClockSides, PollReturns |
| `agbprint` | ring of 4, 5 characters, texts up to 2 | 372,636 | RegistersRestored, DeliveredInOrder, NothingLost, CallsEnd |
| `flash_good` | 2 banks of 1 sector of 2 one-bit bytes | 396,228 | InterruptsRestored, RequestsEnd, ImplementsStore |
| `flash_worn` | the same, worn and deaf to resets | 778,656 | VerifiedMeansWritten |
| `gcn_session` | header of 3 words, images of 2 and 4, Burst 3 | 601,120 | ReadyMeansVerified, KeyCAfterImage, ImageFits, NoEarlyRestart, AlwaysRestarts |
| `gcn_size` | Burst 0 | | SizeKnown (violated: a finding) |
| `siirtc` | 2 structs, 2 power-up states, handlers reset, set or protect | 613,550 | TypeOK, ReadExact, WriteExact, ProbeReady, CallsReturn |
| `rfuni_targets` | 2 children, 2 phases, a block of 3, 1 give-up | 805,361 | PhaseToSend, ImplementsTransfer |
| `rfuni_blocks` | 1 child, 2 phases, blocks of 7 and 8, buffer of 7, 1 give-up | 29,943 | TypeOK, InPlace, SuccessIsClean, SendEnds, ReceiveEnds |
| `m4a_calls` | 1 player, 2 tracks, 1 channel, songs of 0 to 2 tracks and 2 priorities | 1,226,052 | PausedIsSilent, PriorityHolds, FadeEnds |
| `m4a_lists` | 2 players, 1 track each, 2 direct channels and 1 of the old generator | 1,836,283 | TypeOK, ListsAgree, NoteTakesBest |
| `m4a_vsync` | periods 2, 3, 4, 5, 6, 7, 9, 12, 16 | 16,707 | DmaFollowsIdent, DmaInBuffer, PartAhead |

Each property's comment in its module says what it states. What the runs show:

* **stwi.** Against an adapter that answers anything or nothing, every poll returns and no wake-up is
  lost. The program polls each request before it sends the next, as the library's own code does, or
  (`Impatient`) does not; its refused request then clears `unk_2c` (`librfu_stwi.c:586`), so that one
  callback per request cannot be expected, but the driver recovers. The adapter's reply need not
  belong to the request: the driver hands the clock over on any of the four change codes
  (`librfu_intr.s:155-163`), to a request that never asked for it too, and `ClockSides` holds all the
  same. `SlaveVerdict` is exact: it names the two cases in which the driver takes an adapter's command
  for the opposite of what it answered (section 7), both of which the run reaches, and shows that
  there is no third.
* **agbprint.** Handlers may print where the program is not inside `AGBPutc`'s read-modify-write:
  nothing is lost. If they print inside it, characters may be lost (they do share `m_nPut`), but the
  registers are restored: this is theorem `Restored`.
* **flash_good, flash_worn.** On a sound chip the library is an atomic-looking store (section 5). On a
  worn chip, which reports success falsely, disturbs neighbours and works on through a reset, a
  *verified* save still is what it claims. `ErasedMeansErased` and `OnlyTargetChanges` are not
  promised there: a chip that ignores the bank switch because it is still at work takes the retry in
  the wrong bank.
* **gcn_session.** With any number of interrupts anywhere in `Main`, but no more than three in one logo
  check, only a verified image is ready or executed, and a program that keeps calling `Main` always gets a new session.
* **siirtc.** Transactions are intact though handlers use the clock between any two bits. A handler
  that *protects* the clock makes operations fail, and its protection is undone by the end of the
  transaction it interrupts (`sLocked` is one bit for both); every call still returns.
* **rfuni_targets, rfuni_blocks.** Two-bit numbers per phase are enough: whatever is lost, repeated or
  given up, a sender's success means that every remaining target has the block, and a receiver's that
  it has it and is no longer waited for. A block that fits and that nobody gives up comes through any
  link that is not cut.
* **m4a_calls, m4a_lists.** Calls on the *last opened* player may be interrupted by `SoundMain`
  anywhere: its raised `ident` ends the chain of players before any of them is stepped. `Preempt` is
  the set of players whose calls are interrupted. With `Preempt = {1, 2}` `ListsAgree` fails:
  `m4aMPlayStop` and `MPlayStart` edit the shared channels through `TrackStop` while they hold only
  their own player's `ident`; if `SoundMain` comes between the two stores at `m4a_1.s:1513` and
  `:1515`, another player's note takes the channel, and `TrackStop` then disowns a channel that
  sounds. A program with several players has to call these functions where `SoundMain` does not
  interrupt them. `ply_note`'s single pass finds the channel that a definition by priorities names.
* **m4a_vsync.** Reading `ident` and writing it back is safe although the interrupt comes in between,
  as the interrupt leaves `ident` as it found it; DMAs and mixer keep their distance through every
  change of rate. With two parts, which the three highest rates have, `PartAhead` is not claimed: the
  mixer may fill the part being played for one frame when `m4aSoundMode` is called on scan line 159.

**Why the bounds are enough.** The request codes stand for the classes the driver tells apart: no
parameters, parameters, data with change, ready with change; the three replies for those the driver
tells apart, an answer, a change code and a refusal, each to every request; payloads 0, 1, 2 exercise
empty, single and repeated. A ring of 4 bytes is two halfwords, wraps, and fills. Two one-sector banks show
a wrong bank, two bytes a wrong offset, one bit a byte that cannot be set again. Of the header's
three words the first is not compared, the second is compared whole and the third in part, as the code
does with the words before, in and behind the logo; an image of four words has a header and a body, one
of two words is shorter than the header. A block of 7 subframes in two
phases lets phase 0 use all four numbers and wrap, which needs 28 subframes with the code's four
phases; one of 3 has a phase that ends before the other. One frame under way per direction, which the
link may repeat, is enough: links keep the order of frames, and no subframe of a phase is sent before
the one before it is acknowledged. Two players show a call on the one and a step of the other, three
channels a list with a middle; a fade takes two or three steps. The periods of `m4a_vsync` are all
those of the code's table of rates. What the theorems cover does not depend on these sizes.

**Deadlock** is checked for all modules but AgbPrint and GcnMultiboot, which really stop: after a
failed assertion, and after jumping to the image.

**Fairness** is weak fairness of the processor executing a call it has begun, of the timer
(hardware, enabled by the code), and, for a transfer on the GBA's own clock, of its completion. For
`gcn_session` the program keeps calling `Main`, as the library requires. Nothing is assumed of
adapter, chip, GameCube or handlers; the debugger's flush takes at least one byte per call, without
which the loop in the code has no end. In `rfuni_blocks` the two sides keep sending frames and
handling those that arrive, and a link that is not cut delivers one of the frames sent again and again
(strong fairness, for each child, direction and phase: loss does not depend on the phase). In
`m4a_calls` begun calls go on, `SoundMain` is called every frame, and a track's commands in a tick come
to a wait, as they do in every song that does not loop without waiting.

**Timing assumptions.** Three bounds stand for real time. In STWI at most one interrupt falls into the
few unprotected instructions of `STWI_init`. In GcnMultiboot at most `Burst` interrupts fall into one
logo check, from the read of `curDestPtr` to the store of the progress (`libgcnmultiboot.s:100-130`);
nothing bounds them elsewhere, the decryption of a long backlog included. The safety properties hold for
3, and KeyCAfterImage fails for 4, when a whole handshake fits into the check. The check compares some
forty words and takes several hundred cycles; one word on the link takes thousands. Only a program
whose own interrupt handlers run for that long inside the check, with the serial interrupt let in,
could meet the fourth. In M4aSound a call takes less than a frame: one vertical blank at
most comes into it, and one more after `SampleFreqSet` has waited for scan line 159.

## 4. Finding

`libgcnmultiboot.s:185` says "Bail out if the image size is unknown"; the code (186-188) goes on
when the size field is zero, which is also its value when no size was announced. After a transfer
that broke off, `Init` clears the size but keeps the pointers (292-296), `Main` finds the old header
and generates KeyC with no size known. Run `gcn_size` shows the trace. `ReadyMeansVerified` holds all
the same: the effect is a refused session, not a wrong image.

## 5. Abstract specifications

`SaveStore` is what a game may believe: sectors, one request at a time, others kept, success means
done, power failure ends a request. It has no banks, commands, polls, timers or retries.
`Flash!Save` instantiates it: `store` is the chip's contents, `running` is `pc # "idle"`, the
request's parameters are themselves, `outcome` is read off the return value. Every step of the
library is a step of the store or invisible. It holds for a chip that a reset frees and that is not
worn; it is a safety refinement, and `RequestsEnd` is the liveness beside it.

`NITransfer` is what a program may believe of a block: pieces arrive at their places, success at the
sender means that all its targets have all pieces, success at a receiver that it has them and that
the sender does not wait for it any more; targets may be dropped. It has no phases, numbers,
acknowledgements or frames. `RfuNI!Transfer` instantiates it: the status is read off the slot's state
(`Status`), a piece counts where it is in its place (`Piece`), a report is the receive slot's success
(`Told`). `SendEnds` and `ReceiveEnds` are the liveness beside it.

## 6. Proofs

Proof modules EXTEND the module they are about. All results hold for every value of the constants
that the named ASSUMEs allow.

* **STWI_proofs**, the run's safety properties for any set of requests, replies and commands, and `HandshakeBreakable`, that the busy loop in the
  interrupt can always be broken, from `IInv` = types, packet bounds,
  `Control` (which timer, transfer and interrupt can be active in which state: without it a lost
  wake-up cannot be excluded), `Progress` (words on the wire against `unk_5`; starts against
  `unk_15`) and `Status`. Also PacketBounds, "no word is stored outside the packet", for an adapter
  that announces at most a packet's worth: the code trusts it to. `ModeAgreement`
  says which protocol states occur on which side of the clock. `OneCallback`, one callback per
  request, and `OneClock`, that the GBA never drives the clock it has handed over, assume `~Impatient`.
  `VerdictCorrect` needs two histories: `cut`, that `unk_12` is still 3 from a reply that a time-out cut
  off, and `over`, that a refused send has overwritten it since the decision.
* **AgbPrint_proofs**. `RegisterInv` (which saved copy holds the program's value at which place)
  gives `Restored` wherever handlers print. `RingInv` adds that cell `m_nGet + k` holds character
  `got + k` and that one cell stays free outside the flush; `InOrder`, `NoneLost` and
  `AssertionShown` assume `HandlerPoints \subseteq SafePoints`.
* **Flash_proofs**. `IInv` for every chip: `VerifiedHoldsBuffer`, `ImeRestored`, `ThreeAttempts`.
  `TargetInv` adds that the chip is at work only during the wait and on the right sector
  (`OtherSectorsKept`, assuming `ResetAborts`); `EraseInv` that a chip that is ready has erased
  (`EraseIsComplete`, assuming `~Worn` too). `StoreInv` adds that the bytes before `dest` are in place
  and the one at `dest` once it is reported; `LibraryIsStore` is the refinement, `Spec => Save!Spec`.
* **GcnMultiboot_proofs**. For any `Burst`: `NoOverrun`, `CounterHonest`, `StatusHonest`, from the
  bounds of the pointers `Main` holds and `counter1 <= quiet + 1`. For `Burst <= 3`, a
  bound on one logo check only:
  `ReadyIsVerified` and `KeyCIsLate`, from `SInv`. While `Main` holds pointers it read in an earlier
  session (`Stale`), the handler has taken at least as many interrupts as a new handshake needs to be
  where it is (`EarlyPart`), so the announcement of a new image, the fourth, finds `Main` idle or at
  its beginning; from there on the words before the pointer `Main` works with are decrypted, those
  behind it are not (`BeforeLogo`, `AfterLogo`), and KeyC is made with the whole image (`WholeImage`).
  The bound is sharp: for 4, TLC finds KeyCAfterImage violated.
* **SiiRtc_proofs**. For all structs, chip contents, noise on the line and handlers: `ReadsExactly` and
  `WritesExactly`, from `IInv`, which relates the driver's two loop counters to the clocks the chip has
  counted, the command it has taken and the bits that have come over (`Bits`), with what the lock
  means during and outside a transaction (`LockInv`). `ProbedIsReady` adds `ProbeInv`, which follows
  the probe through the time in which `SiiRtcReset` has released the lock; it assumes
  `SecondsBelow80`: the chip's test flag is bit 7 of the seconds, and a program that sets seconds from
  80 on (which are not BCD) sets it.
* **RfuNI_proofs**. For any number of children and phases, any sequence of block sizes, any buffer and
  any number of frames under way: `TypeCorrect`, `PiecesInPlace`, `PhaseFound`, `SuccessClean`, and
  `Implements`, the refinement of `NITransfer` (for `SafeSpec`, without fairness). The inductive
  invariant speaks of every frame in both directions. To a child: control, data and end of one block
  follow in this order, a data subframe is the one its phase waits for or the one before (`InTurn`),
  and what was taken is in place (`Stored`). From a target: an acknowledgement that carries the
  current number is one of the current subframe, not of the one four numbers earlier (`SyncInv`).
  `SendInv` counts the subframes still to be acknowledged; `Quiet` is what is left of a block that
  ended well, which is why the next one cannot be mistaken for it.
* **M4aSound_proofs**. For every set of periods from 2 on: `DmaFollowsIdent`, `DmaInBuffer` and
  `PartAhead`. The inductive invariant says what `ident` is and whether the DMAs run at each place of
  each call (`LockInv`), where timer 0 can be off (`TimerInv`), and that while the interrupt counts, the
  part being played plus `pcmDmaCounter` make up the period, or one less after the frame in which the
  timer started (`CountInv`): without it a late restart of the DMAs cannot be excluded.
* **M4aPlayer_proofs**. For any number of players, tracks and channels, any songs, calls and interrupted
  players: `TypeCorrect`, `NoteFindsBest` and `SongsGiveWay`. `IInv` says what a call and `SoundMain` hold
  at each place and that a lock is held by exactly one of them (`LockInv`). `NoteFindsBest` follows the
  scan of `ply_note` channel by channel: after each, the candidate is the least important released
  channel, else the least important that yields. `SongsGiveWay` is about the look at flags and status
  before the lock is taken: what `MPlayStart` saw is still so when it writes (`LookInv`), because a
  player that may be interrupted has its first track started or none left until its next tick ends
  (`SongInv`). `ListsConsistent` and `PausedSilent` assume `LastOnly`, that `SoundMain` interrupts calls
  on the last opened player only (section 3 shows what happens otherwise). `LInv` adds that the
  channels of each track form a chain, linked both ways and without a cycle, whose head is the track's
  or, during a `TrackStop`, the channel the walk has come to (`ListInv`); where the walks are
  (`WalkInv`); and which tracks of a paused player may still have a list (`PauseInv`). That the chain is
  what a walk from the head meets needs an induction over the recursive `Listed`; it is done with sets
  of numbers (`Counting`), without an operator as a parameter.

The invariants of RfuNI, SiiRtc, M4aPlayer and of the sessions of GcnMultiboot were first checked by TLC
on the instances of the runs, those of M4aPlayer that do not assume `LastOnly` also with calls on the
first of two players interrupted. Only model-checked: all liveness (fairness and ENABLED are beyond the
prover).

## 7. Known hazards that no property covers

* `librfu_intr.s:88`: the adapter announces how many words follow, and the driver trusts it;
  `StaysInPacket` is proved for at most a packet's worth.
* `librfu_stwi.c:676-687`: a time-out as clock slave leaves `unk_12`. If it was 3, from a refusal whose
  reply the time-out cut off, the next command that the driver acknowledges takes the branch for a
  refused one (`librfu_intr.s:416-419`): the adapter believes that the GBA has the clock, and the GBA
  waits as slave. `SlaveVerdict` states this case as it is.
* `librfu_stwi.c:586-600`: a send that is refused writes its error code into `unk_12`, also while the
  reply to a refused command is on its way; the command then counts as granted, and the GBA takes a
  clock that it told the adapter to keep. Also in `SlaveVerdict`.
* `librfu_stwi.c:601-642`: a handover that falls between the halves of a send makes the program start
  a transfer on its own clock as slave, and leaves `unk_0` at 0; a time-out's callback that handed the
  clock over leaves it at 4. Words that come in then are dropped (`SlaveStray`), until the slave's timer
  resets the state to 5. The model lets one interrupt into a send, and one level of requests sent from
  callbacks: the callbacks of those requests are the default one, which sends none.
* `siirtc.c:104`: the probe ignores a refused `SiiRtcGetTime`; `siirtc.c:343`: whether the conversions
  of the alarm's hour and of the status bits are the right ones is a matter of the chip's data sheet.
* `m4a_2.c:658`: `TrackStop` against another player's notes (section 3, m4a_lists); `m4a_2.c:512-520`:
  the instructions of `m4aSoundVSyncOff` between raising `ident` and stopping the DMAs, in which these
  may pass the end of the buffer.
* `libisagbprn.c:41`: characters are lost when a handler prints inside `AGBPutc` (section 3).
* `libisagbprn.c:78`: `AGBPrintf` formats into 256 bytes with `vsprintf`.
* `libgcnmultiboot.s:583`: after the boot key any further word stops the handler, and the next `Main`
  throws the image away unless the program has executed it (line 66 is before line 74).
* `librfu.s:3448`: with several send slots, one child may be named by two of them after targets were
  removed, and its acknowledgements go to the first. The model has one send slot.
* `librfu.s:6060`: the failure counters of senders are tested against the bits receivers renew, and
  the other way round; a slot that only sends counts failures though it is acknowledged.
* `m4a_2.c:238`: `m4aMPlayImmInit` tests and clears a track without a lock; modelled with `SoundMain`
  kept out of it. Nothing in the repository calls it.
* `m4a_2.c:144`: `m4aSongNumStartOrContinue` looks at the player without a lock and may continue one
  that has just ended; the next step pauses it again.

## 8. Plan

The order was: the driver with the most concurrency first (STWI), then the small libraries, then the
transfer of the link layer and the sound driver. Left:

1. **Link layer.** Several send slots and the room they share in a frame (`librfu.s:3448`),
   NI data from a child, UNI data, the loss of links and what it does to slots (`:1850`, `:2349`).
2. **Proofs.** Every safety property of the passing runs is stated by a theorem. What the lists of M4aPlayer
   are when calls on several players are interrupted would need a weaker `ListsAgree`: a channel may
   then sound without a track.
