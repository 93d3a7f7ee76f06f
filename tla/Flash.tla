------------------------------- MODULE Flash -------------------------------
(***************************************************************************)
(* The flash save library (agb_flash): erase, program and verify sectors   *)
(* of a NOR flash of two banks, with a hardware timer against a chip that  *)
(* does not answer.                                                        *)
(*                                                                         *)
(* Every erase and every program command is followed by                    *)
(* WaitForFlashWrite_Common, which polls the chip until it shows the       *)
(* expected byte, reports that it exceeded its limit, or the timer         *)
(* interrupt has raised gFlashTimeoutFlag; it then polls once more before  *)
(* it resets the chip and reports an error.  Failed erases are repeated,   *)
(* failed sectors are programmed again.                                    *)
(*                                                                         *)
(* The chip is external.  A byte is the set of its one-bits: erasing sets  *)
(* them all, programming clears some.  A chip at work answers with its     *)
(* status and ignores commands; it may complete, fail, or hang.            *)
(***************************************************************************)
EXTENDS Integers

CONSTANTS
  BankCount,       \* banks of the chip
  SectorsPerBank,  \* SECTORS_PER_BANK
  SectorSize,      \* gFlash->sector.size
  Bits,            \* bits of a byte
  Sources,         \* buffers the program saves
  Lengths,         \* numbers of bytes it asks to be verified
  ImeValues,       \* what the program sets IME to between requests
  MaxTime,         \* timer interrupts until the time-out of a phase
  ResetAborts,     \* whether a reset also ends a command the chip is working on
  Worn             \* whether the chip may complete a command it has not carried out

ASSUME GeometryAssumption ==
  /\ BankCount \in Nat \ {0} /\ SectorsPerBank \in Nat \ {0}
  /\ SectorSize \in Nat \ {0} /\ MaxTime \in Nat \ {0}
ASSUME InputAssumption ==
  /\ Sources \subseteq [0..SectorSize - 1 -> SUBSET Bits]
  /\ Lengths \subseteq 0..SectorSize
  /\ ImeValues \subseteq {0, 1}
ASSUME ChipAssumption == ResetAborts \in BOOLEAN /\ Worn \in BOOLEAN

SectorCount == BankCount * SectorsPerBank  \* gFlash->sector.count
Banks   == 0..BankCount - 1
Sectors == 0..SectorCount - 1
Offsets == 0..SectorSize - 1
Byte    == SUBSET Bits
Content == [Offsets -> Byte]
Erased  == [o \in Offsets |-> Bits]

\* Results: 0x8000, 0x80FF, 0xA000 + phase, 0xC000 + phase, the address at
\* which the verification failed, and, for the history, no result.
BadOffset == 32768
BadSector == 33023
Exceeded(p) == 40960 + p
TimedOut(p) == 49152 + p
Mismatch  == 234881024
NoResult  == -1
Results ==
  {0, BadOffset, BadSector, Mismatch} \union {Exceeded(p) : p \in 1..3}
    \union {TimedOut(p) : p \in 1..3}

VARIABLES
  gFlash, sTimerNum,         \* what IdentifyFlash and SetFlashTimerIntr have set up
  data, bank,                \* the chip: contents and selected bank
  chip, work,                \* "ready", "busy" or "failed", and the command it works on
  atSector, atOffset, atByte,\* what the command applies to
  pc, op,                    \* where the library is, and in which request
  sector, src, n,            \* sectorNum, src and n of the request
  dest,                      \* offset in the sector of the byte being programmed
  tries, numTries, gFlashNumRemainingBytes, \* the loop counters
  phase, result,             \* of the wait in progress, and its result until it is used
  ret,                       \* what the request returned
  timer, sTimerCount, gFlashTimeoutFlag,  \* whether the timer runs, and its count
  ime, sSavedIme, appIme     \* IME, its saved value, and the program's own setting

libVars  == <<gFlash, sTimerNum>>
chipVars == <<chip, work, atSector, atOffset, atByte>>
reqVars  == <<op, sector, src, n>>
progVars == <<dest, gFlashNumRemainingBytes>>
loopVars == <<tries, numTries, progVars>>
tmrVars  == <<timer, sTimerCount, gFlashTimeoutFlag, ime, sSavedIme>>
vars == <<libVars, data, bank, chipVars, pc, reqVars, loopVars, phase, result, ret, tmrVars, appIme>>

ChipTypes ==
  /\ data \in [Sectors -> Content] /\ bank \in Banks
  /\ chip \in {"ready", "busy", "failed"} /\ work \in {"none", "erase", "program", "chip"}
  /\ atSector \in Sectors /\ atOffset \in Offsets /\ atByte \in Byte

ProgramTypes ==
  /\ gFlash \in {0, 1} /\ sTimerNum \in -1..3
  /\ pc \in {"idle", "try", "erase", "write", "poll", "flag", "exceeded", "timeout", "erased",
             "written", "verify"}
  /\ op \in {"none", "chip", "erase", "byte", "sector", "verify"}
  /\ sector \in Sectors \union {SectorCount} /\ src \in Content /\ n \in 0..SectorSize
  /\ tries \in 0..3 /\ numTries \in 0..4 /\ gFlashNumRemainingBytes \in 0..SectorSize
  /\ dest \in 0..SectorSize
  /\ phase \in 0..3 /\ result \in Results /\ ret \in Results \union {NoResult}
  /\ timer \in {0, 1} /\ sTimerCount \in 0..MaxTime /\ gFlashTimeoutFlag \in {0, 1}
  /\ ime \in {0, 1} /\ sSavedIme \in {0, 1} /\ appIme \in {0, 1}

\* Types, and the bounds of the loops: no retry counter, offset or bank ever
\* leaves its range.
TypeOK == ChipTypes /\ ProgramTypes

Init ==
  /\ gFlash = 0 /\ sTimerNum = -1
  /\ data = [s \in Sectors |-> Erased] /\ bank = 0
  /\ chip = "ready" /\ work = "none" /\ atSector = 0 /\ atOffset = 0 /\ atByte = Bits
  /\ pc = "idle" /\ op = "none" /\ sector = 0 /\ src = Erased /\ n = 0
  /\ tries = 0 /\ numTries = 0 /\ gFlashNumRemainingBytes = 0 /\ dest = 0
  /\ phase = 0 /\ result = 0 /\ ret = NoResult
  /\ timer = 0 /\ sTimerCount = 0 /\ gFlashTimeoutFlag = 0
  /\ ime = 1 /\ sSavedIme = 0 /\ appIme = 1

-----------------------------------------------------------------------------
(***************************************************************************)
(* The chip (external).                                                    *)
(***************************************************************************)

\* The sector of the selected bank that a request for sectorNum ends up in.
Addressed(sectorNum, b) == b * SectorsPerBank + (sectorNum % SectorsPerBank)

\* SwitchFlashBank: like every command, ignored by a chip at work.
SwitchFlashBank(sectorNum) ==
  bank' = IF chip = "ready" THEN sectorNum \div SectorsPerBank ELSE bank

\* The chip begins to work on a command, or ignores it.
Command(kind, s, o, b) ==
  IF chip = "ready"
  THEN chip' = "busy" /\ work' = kind /\ atSector' = s /\ atOffset' = o /\ atByte' = b
  ELSE UNCHANGED chipVars

\* The contents with other ones in sector s, and with bits of one byte cleared.
With(s, c) == [x \in Sectors |-> IF x = s THEN c ELSE data[x]]
Cleared(s, o, b) ==
  With(s, [i \in Offsets |-> IF i = o THEN data[s][i] \intersect b ELSE data[s][i]])

\* The chip carries out the command, or leaves part of it undone.
CarriedOut ==
  \/ work = "erase" /\ data' = With(atSector, Erased)
  \/ work = "chip" /\ data' = [s \in Sectors |-> Erased]
  \/ work = "program" /\ data' = Cleared(atSector, atOffset, atByte)
CutShort ==
  \/ work = "erase" /\ \E c \in Content : data' = With(atSector, c)
  \/ work = "chip" /\ data' \in [Sectors -> Content]
  \/ work = "program" /\ \E b \in Byte : data' = Cleared(atSector, atOffset, b)

\* Programming a byte of a worn sector may disturb the other ones.
Disturbed == work = "program" /\ \E c \in Content : data' = With(atSector, c)

\* The command ends, one way or the other.
EndsAs(state) ==
  chip' = state /\ work' = "none" /\ atSector' = 0 /\ atOffset' = 0 /\ atByte' = Bits

ChipCompletes ==
  /\ chip = "busy" /\ EndsAs("ready")
  /\ CarriedOut \/ (Worn /\ (CutShort \/ Disturbed))
  /\ UNCHANGED <<libVars, bank, pc, reqVars, loopVars, phase, result, ret, tmrVars, appIme>>

ChipFails ==
  /\ chip = "busy" /\ EndsAs("failed")
  /\ CutShort
  /\ UNCHANGED <<libVars, bank, pc, reqVars, loopVars, phase, result, ret, tmrVars, appIme>>

\* The reset command 0xF0.
Reset ==
  \/ chip = "ready" /\ UNCHANGED <<chipVars, data>>
  \/ chip = "failed" /\ EndsAs("ready") /\ UNCHANGED data
  \/ chip = "busy" /\ ResetAborts /\ EndsAs("ready") /\ CutShort
  \/ chip = "busy" /\ ~ResetAborts /\ UNCHANGED <<chipVars, data>>

\* The power goes and comes back: the program starts over.
PowerLoss ==
  /\ (chip = "busy" /\ CutShort) \/ (chip # "busy" /\ UNCHANGED data)
  /\ EndsAs("ready") /\ bank' = 0
  /\ gFlash' = 0 /\ sTimerNum' = -1
  /\ pc' = "idle" /\ op' = "none" /\ sector' = 0 /\ src' = Erased /\ n' = 0
  /\ tries' = 0 /\ numTries' = 0 /\ gFlashNumRemainingBytes' = 0 /\ dest' = 0
  /\ phase' = 0 /\ result' = 0 /\ ret' = NoResult
  /\ timer' = 0 /\ sTimerCount' = 0 /\ gFlashTimeoutFlag' = 0
  /\ ime' = 1 /\ sSavedIme' = 0 /\ appIme' = 1

-----------------------------------------------------------------------------
(***************************************************************************)
(* Setting up, and requests.                                               *)
(***************************************************************************)

\* One of the setups is always chosen, the last one if the chip is unknown, and
\* they differ in nothing but the ID.  Leaving the ID mode is a reset.
IdentifyFlash ==
  /\ pc = "idle"
  /\ gFlash' = 1
  /\ Reset
  /\ UNCHANGED <<sTimerNum, bank, pc, reqVars, loopVars, phase, result, ret, tmrVars, appIme>>

SetFlashTimerIntr(timerNum) ==
  /\ pc = "idle"
  /\ sTimerNum' = IF timerNum >= 4 THEN sTimerNum ELSE timerNum
  /\ UNCHANGED <<gFlash, data, bank, chipVars, pc, reqVars, loopVars, phase, result, ret,
                 tmrVars, appIme>>

SetIme(value) ==
  /\ pc = "idle"
  /\ ime' = value /\ appIme' = value
  /\ UNCHANGED <<libVars, data, bank, chipVars, pc, reqVars, loopVars, phase, result, ret,
                 timer, sTimerCount, gFlashTimeoutFlag, sSavedIme>>

ReadFlash(sectorNum) ==
  /\ pc = "idle" /\ gFlash = 1
  /\ SwitchFlashBank(sectorNum)
  /\ UNCHANGED <<libVars, data, chipVars, pc, reqVars, loopVars, phase, result, ret, tmrVars,
                 appIme>>

\* The library has been set up; a request begins.
Request(kind, sectorNum) ==
  /\ pc = "idle" /\ gFlash = 1 /\ sTimerNum # -1
  /\ op' = kind /\ sector' = sectorNum
  /\ ret' = NoResult /\ tries' = 0 /\ numTries' = 0

StartFlashTimer_KeepsIme(p) ==
  /\ phase' = p /\ pc' = "poll"
  /\ timer' = 1 /\ sTimerCount' = MaxTime /\ gFlashTimeoutFlag' = 0
  /\ sSavedIme' = ime /\ UNCHANGED ime
StartFlashTimer(p) ==
  /\ phase' = p /\ pc' = "poll"
  /\ timer' = 1 /\ sTimerCount' = MaxTime /\ gFlashTimeoutFlag' = 0
  /\ sSavedIme' = ime /\ ime' = 1

EraseFlashChip ==
  /\ Request("chip", 0)
  /\ Command("chip", 0, 0, Bits)
  /\ StartFlashTimer(3)
  /\ UNCHANGED <<libVars, data, bank, src, n, progVars, result, appIme>>

EraseFlashSector(sectorNum) ==
  /\ Request("erase", sectorNum)
  /\ pc' = "try"
  /\ UNCHANGED <<libVars, data, bank, chipVars, src, n, progVars, phase, result,
                 tmrVars, appIme>>

\* ProgramFlashByte: the sector is not checked, the offset is.
ProgramFlashByte(sectorNum, offset, content) ==
  /\ Request("byte", sectorNum) /\ src' = content
  /\ \/ /\ offset = SectorSize
        /\ pc' = "written" /\ result' = BadOffset
        /\ UNCHANGED <<bank, dest>>
     \/ /\ offset < SectorSize
        /\ dest' = offset
        /\ SwitchFlashBank(sectorNum)
        /\ pc' = "write" /\ UNCHANGED result
  /\ UNCHANGED <<libVars, data, chipVars, n, gFlashNumRemainingBytes, phase, tmrVars, appIme>>

\* ProgramFlashSector, and the two functions that also verify, n bytes of it.
ProgramFlashSector(kind, sectorNum, content, length) ==
  /\ Request(kind, sectorNum) /\ src' = content /\ n' = length
  /\ pc' = "try"
  /\ UNCHANGED <<libVars, data, bank, chipVars, progVars, phase, result, tmrVars,
                 appIme>>

-----------------------------------------------------------------------------
(***************************************************************************)
(* The request returns r, or goes on with the next attempt.                *)
(***************************************************************************)
MaxTries == 3

Returns(r) ==
  \/ /\ op # "verify" /\ pc' = "idle" /\ ret' = r
     /\ UNCHANGED tries
  \/ /\ op = "verify" /\ r = 0 /\ pc' = "verify"
     /\ UNCHANGED <<tries, ret>>
  \/ /\ op = "verify" /\ r # 0
     /\ tries' = tries + 1
     /\ \/ tries' < MaxTries /\ pc' = "try" /\ UNCHANGED ret
        \/ tries' >= MaxTries /\ pc' = "idle" /\ ret' = r

\* The entry of EraseFlashSector_MX, after the same check in
\* ProgramFlashSector_MX.
EraseEntry ==
  /\ pc = "try"
  /\ \/ /\ sector >= SectorCount
        /\ Returns(BadSector) /\ UNCHANGED <<bank, numTries>>
     \/ /\ sector < SectorCount
        /\ SwitchFlashBank(sector)
        /\ numTries' = 0
        /\ pc' = "erase" /\ UNCHANGED <<ret, tries>>
  /\ UNCHANGED <<libVars, data, chipVars, reqVars, progVars, phase, result,
                 tmrVars, appIme>>

\* try_erase.
Erase ==
  /\ pc = "erase"
  /\ Command("erase", Addressed(sector, bank), 0, Bits)
  /\ StartFlashTimer(2)
  /\ UNCHANGED <<libVars, data, bank, reqVars, loopVars, result, ret, appIme>>

\* ProgramByte.
Program ==
  /\ pc = "write"
  /\ Command("program", Addressed(sector, bank), dest, src[dest])
  /\ StartFlashTimer(1)
  /\ UNCHANGED <<libVars, data, bank, reqVars, loopVars, result, ret, appIme>>

-----------------------------------------------------------------------------
(***************************************************************************)
(* WaitForFlashWrite_Common.                                               *)
(***************************************************************************)
FlashTimerIntr ==
  /\ timer = 1 /\ ime = 1 /\ sTimerCount # 0
  /\ sTimerCount' = sTimerCount - 1
  /\ gFlashTimeoutFlag' = IF sTimerCount' = 0 THEN 1 ELSE gFlashTimeoutFlag
  /\ UNCHANGED <<libVars, data, bank, chipVars, pc, reqVars, loopVars, phase, result, ret,
                 timer, ime, sSavedIme, appIme>>

\* The chip shows lastData at addr: it is ready and the byte is there.
ShowsLastData ==
  /\ chip = "ready"
  /\ IF phase = 1
     THEN data[Addressed(sector, bank)][dest] = src[dest]
     ELSE data[Addressed(sector, bank)][0] = Bits

\* The loop is left: StopFlashTimer, and back to the caller of the wait.
StopFlashTimer_KeepsIme ==
  /\ timer' = 0 /\ UNCHANGED <<sTimerCount, gFlashTimeoutFlag, sSavedIme, ime>>
StopFlashTimer ==
  /\ timer' = 0 /\ ime' = sSavedIme
  /\ UNCHANGED <<sTimerCount, gFlashTimeoutFlag, sSavedIme>>
LeaveWait(r) ==
  /\ result' = r
  /\ StopFlashTimer
  /\ pc' = IF phase = 1 THEN "written" ELSE "erased"
  /\ phase' = 0

\* One poll.  The status of a failed chip has bit 0x20 set, that of a busy
\* one has not; a byte that is not the expected one may have it or not.
Poll ==
  /\ pc = "poll"
  /\ \/ ShowsLastData /\ LeaveWait(0)
     \/ /\ ~ShowsLastData
        /\ \/ chip # "busy" /\ pc' = "exceeded"
           \/ chip # "failed" /\ pc' = "flag"
        /\ UNCHANGED <<phase, result, tmrVars>>
  /\ UNCHANGED <<libVars, data, bank, chipVars, reqVars, loopVars, ret, appIme>>

TestFlag ==
  /\ pc = "flag"
  /\ pc' = IF gFlashTimeoutFlag = 1 THEN "timeout" ELSE "poll"
  /\ UNCHANGED <<libVars, data, bank, chipVars, reqVars, loopVars, phase, result, ret, tmrVars,
                 appIme>>

\* The second poll: success after all, or the chip is reset.
Repoll(at, error) ==
  /\ pc = at
  /\ \/ ShowsLastData /\ LeaveWait(0) /\ UNCHANGED <<data, chipVars>>
     \/ ~ShowsLastData /\ LeaveWait(error) /\ Reset
  /\ UNCHANGED <<libVars, bank, reqVars, loopVars, ret, appIme>>

-----------------------------------------------------------------------------
(***************************************************************************)
(* What follows the wait.                                                  *)
(***************************************************************************)

\* Both error codes have a bit of 0xA000 set.
EraseAgain == result # 0 /\ numTries <= 3

\* EraseFlashSector_MX tries again ...
TryErase ==
  /\ pc = "erased" /\ op # "chip" /\ EraseAgain
  /\ numTries' = numTries + 1 /\ result' = 0
  /\ pc' = "erase"
  /\ UNCHANGED <<libVars, data, bank, chipVars, reqVars, tries, progVars, phase, ret, tmrVars,
                 appIme>>

\* ... or the request returns, or ProgramFlashSector_MX goes on.
EraseDone ==
  /\ pc = "erased" /\ (op = "chip" \/ ~EraseAgain)
  /\ \/ /\ op \in {"chip", "erase"} \/ result # 0
        /\ Returns(result)
        /\ UNCHANGED <<bank, progVars>>
     \/ /\ op \in {"sector", "verify"} /\ result = 0
        /\ SwitchFlashBank(sector)
        /\ gFlashNumRemainingBytes' = SectorSize /\ dest' = 0
        /\ pc' = "write"
        /\ UNCHANGED <<tries, ret>>
  /\ numTries' = 0 /\ result' = 0
  /\ UNCHANGED <<libVars, data, chipVars, reqVars, phase, tmrVars, appIme>>

\* ProgramFlashByte_MX returns; ProgramFlashSector_MX goes on with the next
\* byte, if there is one and this one was programmed.
ProgramDone_IgnoresResult ==
  /\ pc = "written"
  /\ \/ /\ op = "byte"
        /\ Returns(result)
        /\ UNCHANGED progVars
     \/ /\ op # "byte"
        /\ gFlashNumRemainingBytes' = gFlashNumRemainingBytes - 1 /\ dest' = dest + 1
        /\ \/ gFlashNumRemainingBytes' > 0 /\ pc' = "write" /\ UNCHANGED <<tries, ret>>
           \/ gFlashNumRemainingBytes' = 0 /\ Returns(0)
  /\ result' = 0
  /\ UNCHANGED <<libVars, data, bank, chipVars, reqVars, numTries, phase, tmrVars, appIme>>
ProgramDone ==
  /\ pc = "written"
  /\ \/ /\ op = "byte" \/ result # 0
        /\ Returns(result)
        /\ UNCHANGED progVars
     \/ /\ op # "byte" /\ result = 0
        /\ gFlashNumRemainingBytes' = gFlashNumRemainingBytes - 1 /\ dest' = dest + 1
        /\ \/ gFlashNumRemainingBytes' > 0 /\ pc' = "write" /\ UNCHANGED <<tries, ret>>
           \/ gFlashNumRemainingBytes' = 0 /\ Returns(0)
  /\ result' = 0
  /\ UNCHANGED <<libVars, data, bank, chipVars, reqVars, numTries, phase, tmrVars, appIme>>

\* VerifyFlashSector and VerifyFlashSectorNBytes, in the bank they select.  A
\* chip at work does not show its contents.
Matches_SkipsFirst(s) == chip = "ready" /\ \A o \in 1..n - 1 : data[s][o] = src[o]
Matches(s) == chip = "ready" /\ \A o \in 0..n - 1 : data[s][o] = src[o]
Verify ==
  /\ pc = "verify"
  /\ SwitchFlashBank(sector)
  /\ \/ /\ Matches(Addressed(sector, bank'))
        /\ pc' = "idle" /\ ret' = 0 /\ UNCHANGED tries
     \/ /\ ~Matches(Addressed(sector, bank'))
        /\ Returns(Mismatch)
  /\ UNCHANGED <<libVars, data, chipVars, reqVars, numTries, progVars, phase,
                 result, tmrVars, appIme>>

-----------------------------------------------------------------------------
Setups ==
  \/ IdentifyFlash
  \/ \E timerNum \in {0, 4} : SetFlashTimerIntr(timerNum)
  \/ \E value \in ImeValues : SetIme(value)
  \/ \E s \in Sectors : ReadFlash(s)

Calls ==
  \/ EraseFlashChip
  \/ \E s \in 0..SectorCount : EraseFlashSector(s)
  \/ \E s \in Sectors, o \in 0..SectorSize, c \in Sources : ProgramFlashByte(s, o, c)
  \/ \E s \in 0..SectorCount, c \in Sources :
       \/ ProgramFlashSector("sector", s, c, 0)
       \/ \E length \in Lengths : ProgramFlashSector("verify", s, c, length)

Steps ==
  \/ EraseEntry \/ Erase \/ Program \/ Poll \/ TestFlag
  \/ Repoll("exceeded", Exceeded(phase)) \/ Repoll("timeout", TimedOut(phase))
  \/ TryErase \/ EraseDone \/ ProgramDone \/ Verify

Next == Setups \/ Calls \/ Steps \/ FlashTimerIntr \/ ChipCompletes \/ ChipFails \/ PowerLoss

\* The processor and the timer run; nothing is assumed of the chip.
Spec == Init /\ [][Next]_vars /\ WF_vars(Steps) /\ WF_vars(FlashTimerIntr)

-----------------------------------------------------------------------------
(***************************************************************************)
(* Properties.                                                             *)
(***************************************************************************)

Waiting == pc \in {"poll", "flag", "exceeded", "timeout"}

\* ProgramFlashSectorAndVerify and ...NBytes return 0 only if the bytes they
\* were to verify are in the sector that was asked for, and they stay there:
\* no command of an earlier attempt is still at work.
VerifiedMeansWritten ==
  pc = "idle" /\ op = "verify" /\ ret = 0 =>
    /\ sector \in Sectors /\ chip = "ready"
    /\ \A o \in 0..n - 1 : data[sector][o] = src[o]

\* EraseFlashSector returns 0 only if the whole sector is erased, though the
\* wait looks at its first byte only.
ErasedMeansErased ==
  pc = "idle" /\ op = "erase" /\ ret = 0 => data[sector] = Erased

\* Only the sector of the request in progress changes (every one for
\* EraseFlashChip), and none between requests: not through a bank left
\* selected by another request, nor a late end of a timed-out command.
OnlyTargetChange ==
  \A s \in Sectors : data'[s] # data[s] => pc # "idle" /\ (op = "chip" \/ s = sector)
OnlyTargetChanges == [][OnlyTargetChange]_vars

\* StartFlashTimer enables interrupts whatever the program had set; outside
\* the wait IME is the program's own again and the timer is stopped.
InterruptsRestored ==
  ~Waiting => ime = appIme /\ timer = 0

\* A failure is reported after three attempts, not before.
FailsAfterThree ==
  pc = "idle" /\ op = "verify" /\ ret \notin {0, NoResult} => tries = 3

\* Every request returns, even against a chip that hangs and with a program
\* that had disabled interrupts.
RequestsEnd == pc # "idle" ~> pc = "idle"

\* What the program sees of a request: whether it runs, and how it ended.
Running == IF pc = "idle" THEN 0 ELSE 1
Outcome == IF ret = NoResult THEN "none" ELSE IF ret = 0 THEN "ok" ELSE "failed"
\* The offset of ProgramFlashByte; the other requests have none.
At == IF op = "byte" THEN dest ELSE 0

Save == INSTANCE SaveStore WITH
  Contents <- Content, Blank <- Erased, store <- data, running <- Running, kind <- op,
  target <- sector, image <- src, length <- n, at <- At, outcome <- Outcome

\* On a sound chip the library implements the store of module SaveStore: banks,
\* polls, time-outs and retries never show, success of any kind of request
\* means that it was carried out, and no other sector is touched.
ImplementsStore == Save!Spec

-----------------------------------------------------------------------------
(***************************************************************************)
(* The inductive invariant: IInv for every chip, TargetInv for one that a  *)
(* reset frees, EraseInv and StoreInv for one that is not worn either.     *)
(***************************************************************************)

\* What the points of the program say about the request.
RequestPart ==
  /\ pc # "idle" => ret = NoResult
  /\ pc \notin {"idle", "try"} => sector \in Sectors
  /\ pc \in {"try", "erase"} => op \in {"erase", "sector", "verify"}
  /\ pc \in {"write", "written"} => op \in {"byte", "sector", "verify"}
  /\ pc = "erased" => op \in {"chip", "erase", "sector", "verify"}
  /\ pc = "verify" => op = "verify"
  /\ op = "verify" /\ pc # "idle" => tries < MaxTries
  /\ Waiting =>
       \/ phase = 1 /\ op \in {"byte", "sector", "verify"}
       \/ phase = 2 /\ op \in {"erase", "sector", "verify"}
       \/ phase = 3 /\ op = "chip"
  /\ pc = "write" \/ (Waiting /\ phase = 1) =>
       dest \in Offsets /\ (op # "byte" => dest + gFlashNumRemainingBytes = SectorSize)
  /\ pc = "written" /\ op # "byte" =>
       dest \in Offsets /\ dest + gFlashNumRemainingBytes = SectorSize

\* What is to be restored is in sSavedIme during the wait.
TimerPart ==
  IF Waiting THEN timer = 1 /\ ime = 1 /\ sSavedIme = appIme ELSE timer = 0 /\ ime = appIme

\* The chip works only while the library waits, on the sector asked for.
TargetPart ==
  /\ ~Waiting => chip = "ready"
  /\ op # "chip" /\ (Waiting \/ pc \in {"erase", "write", "erased"} \/ (pc = "written" /\ op # "byte"))
       => Addressed(sector, bank) = sector
  /\ chip = "busy" =>
       \/ work = "chip" /\ op = "chip"
       \/ work = "erase" /\ phase = 2 /\ atSector = sector
       \/ work = "program" /\ phase = 1 /\ atSector = sector

\* The chip is ready again only with the sector erased.
ErasePart ==
  /\ Waiting /\ phase = 2 /\ chip = "ready" => data[sector] = Erased
  /\ pc = "erased" /\ op # "chip" /\ result = 0 => data[sector] = Erased

\* The same for the whole chip.
ChipPart ==
  /\ chip = "busy" /\ work = "chip" => phase = 3
  /\ Waiting /\ phase = 3 /\ chip = "ready" => \A s \in Sectors : data[s] = Erased
  /\ pc = "erased" /\ op = "chip" /\ result = 0 => \A s \in Sectors : data[s] = Erased

\* The bytes before dest are in place, and the one at dest once it is reported.
ProgramPart ==
  /\ chip = "busy" /\ work = "program" => atOffset = dest
  /\ op \in {"sector", "verify"} /\ (pc \in {"write", "written"} \/ (Waiting /\ phase = 1)) =>
       \A o \in 0..dest - 1 : data[sector][o] = src[o]
  /\ pc = "written" /\ result = 0 =>
       sector \in Sectors /\ dest \in Offsets /\ data[sector][dest] = src[dest]

IInv      == TypeOK /\ RequestPart /\ TimerPart /\ FailsAfterThree /\ VerifiedMeansWritten
TargetInv == IInv /\ TargetPart
EraseInv  == TargetInv /\ ErasePart /\ ErasedMeansErased
StoreInv  == EraseInv /\ ChipPart /\ ProgramPart
=============================================================================
