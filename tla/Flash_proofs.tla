---------------------------- MODULE Flash_proofs ----------------------------
(***************************************************************************)
(* Proofs about the flash library, for every geometry and every buffer.    *)
(***************************************************************************)
EXTENDS Flash, TLAPS

\* Every sector is in a bank, and is the one addressed when its bank is
\* selected; whatever bank is selected, a sector of the chip is addressed.
LEMMA Geometry ==
  /\ \A s \in Sectors : s \div SectorsPerBank \in Banks
  /\ \A s \in Sectors : Addressed(s, s \div SectorsPerBank) = s
  /\ \A s \in Nat, b \in Banks : Addressed(s, b) \in Sectors
<1>1. /\ SectorsPerBank \in Nat \ {0} /\ BankCount \in Nat \ {0}
  BY GeometryAssumption
<1>2. ASSUME NEW s \in Nat
      PROVE  /\ s % SectorsPerBank \in 0..SectorsPerBank - 1 /\ s \div SectorsPerBank \in Nat
             /\ (s \div SectorsPerBank) * SectorsPerBank + (s % SectorsPerBank) = s
  BY <1>1
<1>3. ASSUME NEW b \in Banks, NEW i \in 0..SectorsPerBank - 1
      PROVE  b * SectorsPerBank + i \in Sectors
  BY <1>1 DEF Banks, Sectors, SectorCount
<1>4. ASSUME NEW s \in Sectors PROVE s \div SectorsPerBank \in Banks
  <2>1. s \in Nat /\ s < BankCount * SectorsPerBank
    BY <1>1 DEF Sectors, SectorCount
  <2>2. ASSUME s \div SectorsPerBank >= BankCount PROVE FALSE
    BY <1>1, <1>2, <2>1, <2>2
  <2>. QED
    BY <1>1, <1>2, <2>1, <2>2 DEF Banks
<1>5. Sectors \subseteq Nat
  BY <1>1 DEF Sectors, SectorCount
<1>. QED
  BY <1>2, <1>3, <1>4, <1>5 DEF Addressed

\* The sectors and offsets there are.
LEMMA Ranges ==
  /\ SectorCount \in Nat \ {0} /\ Sectors \subseteq Nat /\ 0 \in Sectors
  /\ 0..SectorCount = Sectors \union {SectorCount}
  /\ Offsets \subseteq Nat /\ 0 \in Offsets /\ SectorSize \in Nat \ {0}
  /\ \A s \in Sectors \union {SectorCount} : s < SectorCount => s \in Sectors
  /\ \A o \in 0..SectorSize : o < SectorSize => o \in Offsets
<1>1. SectorCount \in Nat \ {0}
  BY GeometryAssumption DEF SectorCount
<1>. QED
  BY <1>1, GeometryAssumption DEF Sectors, Offsets

\* The results of a wait and of a request; no result is not one of them.
LEMMA ResultValues ==
  /\ 0 \in Results /\ BadOffset \in Results /\ BadSector \in Results /\ Mismatch \in Results
  /\ BadOffset # 0 /\ BadSector # 0 /\ Mismatch # 0 /\ NoResult \notin Results
  /\ \A p \in 1..3 : Exceeded(p) \in Results \ {0} /\ TimedOut(p) \in Results \ {0}
  BY DEF Results, BadOffset, BadSector, Mismatch, Exceeded, TimedOut, NoResult

\* What the program passes to the library.
LEMMA Inputs ==
  Sources \subseteq Content /\ Lengths \subseteq 0..SectorSize /\ ImeValues \subseteq {0, 1}
  BY InputAssumption DEF Content, Offsets, Byte

\* What the chip does to its contents leaves contents.
LEMMA Contents ==
  /\ Erased \in Content
  /\ TypeOK => \A s \in Sectors : \A c \in Content : With(s, c) \in [Sectors -> Content]
  /\ TypeOK => \A s \in Sectors : \A o \in Offsets : \A b \in Byte :
                 Cleared(s, o, b) \in [Sectors -> Content]
<1>1. Erased \in Content
  BY DEF Erased, Content, Byte
<1>2. ASSUME TypeOK, NEW s \in Sectors, NEW c \in Content
      PROVE  With(s, c) \in [Sectors -> Content]
  BY <1>2 DEF TypeOK, ChipTypes, With
<1>3. ASSUME TypeOK, NEW s \in Sectors, NEW o \in Offsets, NEW b \in Byte
      PROVE  Cleared(s, o, b) \in [Sectors -> Content]
  <2>1. data[s] \in [Offsets -> Byte]
    BY <1>3 DEF TypeOK, ChipTypes, Content
  <2>2. [i \in Offsets |-> IF i = o THEN data[s][i] \intersect b ELSE data[s][i]] \in Content
    BY <2>1 DEF Content, Byte
  <2>. QED
    BY <1>2, <1>3, <2>2 DEF Cleared
<1>. QED
  BY <1>1, <1>2, <1>3

LEMMA ChipContents ==
  TypeOK /\ (CarriedOut \/ CutShort \/ Disturbed) => data' \in [Sectors -> Content]
<1> SUFFICES ASSUME TypeOK, CarriedOut \/ CutShort \/ Disturbed PROVE data' \in [Sectors -> Content]
  OBVIOUS
<1>1. atSector \in Sectors /\ atOffset \in Offsets /\ atByte \in Byte
  BY DEF TypeOK, ChipTypes
<1>2. CASE CarriedOut
  BY <1>1, <1>2, Contents DEF CarriedOut
<1>3. CASE CutShort
  BY <1>1, <1>3, Contents DEF CutShort
<1>4. CASE Disturbed
  BY <1>1, <1>4, Contents DEF Disturbed
<1>. QED
  BY <1>2, <1>3, <1>4

\* What a command, a bank switch or the end of a command does to the chip.
LEMMA ChipTypeSteps ==
  ASSUME TypeOK
  PROVE  /\ Reset /\ UNCHANGED bank => ChipTypes'
         /\ \A kind \in {"erase", "program", "chip"} : \A s \in Sectors : \A o \in Offsets :
              \A b \in Byte : Command(kind, s, o, b) /\ UNCHANGED <<data, bank>> => ChipTypes'
         /\ \A s \in Sectors : SwitchFlashBank(s) /\ UNCHANGED <<data, chipVars>> => ChipTypes'
         /\ chip' \in {"ready", "failed"} /\ EndsAs(chip') /\ UNCHANGED bank
              /\ (CarriedOut \/ CutShort \/ Disturbed) => ChipTypes'
<1> USE DEF ChipTypes
<1>0. Bits \in Byte /\ ChipTypes
  BY DEF TypeOK, Byte
<1>1. ASSUME chip' \in {"ready", "failed"}, EndsAs(chip'), UNCHANGED bank,
             CarriedOut \/ CutShort \/ Disturbed
      PROVE  ChipTypes'
  BY <1>0, <1>1, ChipContents, Ranges DEF EndsAs
<1>2. ASSUME Reset, UNCHANGED bank PROVE ChipTypes'
  <2>1. CASE chip = "busy" /\ ResetAborts
    BY <1>1, <1>2, <2>1 DEF Reset, EndsAs
  <2>2. CASE ~(chip = "busy" /\ ResetAborts)
    BY <1>0, <1>2, <2>2, Ranges DEF Reset, EndsAs, chipVars
  <2>. QED
    BY <2>1, <2>2
<1>3. ASSUME NEW kind \in {"erase", "program", "chip"}, NEW s \in Sectors, NEW o \in Offsets,
             NEW b \in Byte, Command(kind, s, o, b), UNCHANGED <<data, bank>>
      PROVE  ChipTypes'
  BY <1>0, <1>3 DEF Command, chipVars
<1>4. ASSUME NEW s \in Sectors, SwitchFlashBank(s), UNCHANGED <<data, chipVars>>
      PROVE  ChipTypes'
  BY <1>0, <1>4, Geometry DEF SwitchFlashBank, chipVars
<1>. QED
  BY <1>1, <1>2, <1>3, <1>4

\* The chip's types.
LEMMA ChipTypeStep ==
  IInv /\ [Next]_vars => ChipTypes'
<1> SUFFICES ASSUME IInv, [Next]_vars PROVE ChipTypes'
  OBVIOUS
<1> USE DEF IInv, TypeOK, RequestPart, ChipTypes
<1>1. CASE IdentifyFlash
  BY <1>1, ChipTypeSteps DEF IdentifyFlash
<1>2. CASE \E timerNum \in {0, 4} : SetFlashTimerIntr(timerNum)
  BY <1>2 DEF SetFlashTimerIntr, ChipTypes, chipVars
<1>3. CASE \E value \in ImeValues : SetIme(value)
  BY <1>3 DEF SetIme, ChipTypes, chipVars
<1>4. CASE \E s \in Sectors : ReadFlash(s)
  BY <1>4, ChipTypeSteps DEF ReadFlash
<1>5. CASE EraseFlashChip
  BY <1>5, ChipTypeSteps, Ranges DEF EraseFlashChip, Byte
<1>6. CASE \E s \in 0..SectorCount : EraseFlashSector(s)
  BY <1>6 DEF EraseFlashSector, ChipTypes, chipVars
<1>7. CASE \E s \in Sectors, o \in 0..SectorSize, c \in Sources : ProgramFlashByte(s, o, c)
  <2>1. PICK s \in Sectors, o \in 0..SectorSize, c \in Sources : ProgramFlashByte(s, o, c)
    BY <1>7
  <2>2. /\ SwitchFlashBank(s) \/ UNCHANGED bank
        /\ UNCHANGED <<data, chipVars>>
    BY <2>1 DEF ProgramFlashByte
  <2>. QED
    BY <2>2, ChipTypeSteps DEF ChipTypes, chipVars
<1>8. CASE \E s \in 0..SectorCount, c \in Sources :
            \/ ProgramFlashSector("sector", s, c, 0)
            \/ \E length \in Lengths : ProgramFlashSector("verify", s, c, length)
  BY <1>8 DEF ProgramFlashSector, ChipTypes, chipVars
<1>9. CASE EraseEntry
  <2>1. /\ (sector \in Sectors /\ SwitchFlashBank(sector)) \/ UNCHANGED bank
        /\ UNCHANGED <<data, chipVars>>
    BY <1>9, Ranges DEF EraseEntry, ProgramTypes
  <2>. QED
    BY <2>1, ChipTypeSteps DEF ChipTypes, chipVars
<1>10. CASE Erase
  <2>1. /\ Command("erase", Addressed(sector, bank), 0, Bits) /\ UNCHANGED <<data, bank>>
        /\ sector \in Sectors /\ bank \in Banks
    BY <1>10 DEF Erase, ChipTypes
  <2>2. Addressed(sector, bank) \in Sectors /\ Bits \in Byte
    BY <2>1, Geometry, Ranges DEF Byte
  <2>. QED
    BY <2>1, <2>2, ChipTypeSteps, Ranges
<1>11. CASE Program
  <2>1. /\ Command("program", Addressed(sector, bank), dest, src[dest]) /\ UNCHANGED <<data, bank>>
        /\ sector \in Sectors /\ bank \in Banks /\ dest \in Offsets /\ src \in Content
    BY <1>11 DEF Program, ChipTypes, ProgramTypes
  <2>2. Addressed(sector, bank) \in Sectors /\ src[dest] \in Byte
    BY <2>1, Geometry, Ranges DEF Content
  <2>. QED
    BY <2>1, <2>2, ChipTypeSteps
<1>12. CASE Poll
  BY <1>12 DEF Poll, ChipTypes, chipVars
<1>13. CASE TestFlag
  BY <1>13 DEF TestFlag, ChipTypes, chipVars
<1>14. CASE Repoll("exceeded", Exceeded(phase))
  <2>1. Reset \/ UNCHANGED <<data, chipVars>>
    BY <1>14 DEF Repoll
  <2>2. UNCHANGED bank
    BY <1>14 DEF Repoll
  <2>. QED
    BY <2>1, <2>2, ChipTypeSteps DEF ChipTypes, chipVars
<1>15. CASE Repoll("timeout", TimedOut(phase))
  <2>1. Reset \/ UNCHANGED <<data, chipVars>>
    BY <1>15 DEF Repoll
  <2>2. UNCHANGED bank
    BY <1>15 DEF Repoll
  <2>. QED
    BY <2>1, <2>2, ChipTypeSteps DEF ChipTypes, chipVars
<1>16. CASE TryErase
  BY <1>16 DEF TryErase, ChipTypes, chipVars
<1>17. CASE EraseDone
  <2>1. /\ SwitchFlashBank(sector) \/ UNCHANGED bank
        /\ UNCHANGED <<data, chipVars>> /\ sector \in Sectors
    BY <1>17 DEF EraseDone
  <2>. QED
    BY <2>1, ChipTypeSteps DEF ChipTypes, chipVars
<1>18. CASE ProgramDone
  BY <1>18 DEF ProgramDone, ChipTypes, chipVars
<1>19. CASE Verify
  <2>1. SwitchFlashBank(sector) /\ UNCHANGED <<data, chipVars>> /\ sector \in Sectors
    BY <1>19 DEF Verify
  <2>. QED
    BY <2>1, ChipTypeSteps
<1>20. CASE FlashTimerIntr
  BY <1>20 DEF FlashTimerIntr, ChipTypes, chipVars
<1>21. CASE ChipCompletes
  BY <1>21, ChipTypeSteps DEF ChipCompletes, EndsAs
<1>22. CASE ChipFails
  BY <1>22, ChipTypeSteps DEF ChipFails, EndsAs
<1>23. CASE PowerLoss
  <2>1. EndsAs("ready") /\ bank' = 0 /\ (CutShort \/ UNCHANGED data)
    BY <1>23 DEF PowerLoss
  <2>2. data' \in [Sectors -> Content]
    BY <2>1, ChipContents DEF TypeOK, ChipTypes
  <2>3. 0 \in Banks
    BY GeometryAssumption DEF Banks
  <2>. QED
    BY <2>1, <2>2, <2>3, Ranges DEF ChipTypes, EndsAs, Byte
<1>24. CASE UNCHANGED vars
  BY <1>24 DEF vars, libVars, chipVars, reqVars, progVars, loopVars, tmrVars
<1>. QED
  BY <1>1, <1>2, <1>3, <1>4, <1>5, <1>6, <1>7, <1>8, <1>9, <1>10, <1>11, <1>12,
     <1>13, <1>14, <1>15, <1>16, <1>17, <1>18, <1>19, <1>20, <1>21, <1>22, <1>23,
     <1>24
     DEF Next, Setups, Calls, Steps

\* The program's types.
LEMMA ProgramTypeStep ==
  IInv /\ [Next]_vars => ProgramTypes'
<1> SUFFICES ASSUME IInv, [Next]_vars PROVE ProgramTypes'
  OBVIOUS
<1> USE DEF IInv, TypeOK, RequestPart, ProgramTypes, Waiting, MaxTries
<1>1. CASE IdentifyFlash
  BY <1>1, Ranges, ResultValues, Inputs
     DEF IdentifyFlash, Reset, EndsAs, CutShort, chipVars, reqVars, progVars, loopVars, tmrVars
<1>2. CASE \E timerNum \in {0, 4} : SetFlashTimerIntr(timerNum)
  BY <1>2, Ranges, ResultValues, Inputs
     DEF SetFlashTimerIntr, chipVars, reqVars, progVars, loopVars, tmrVars
<1>3. CASE \E value \in ImeValues : SetIme(value)
  BY <1>3, Ranges, ResultValues, Inputs
     DEF SetIme, libVars, chipVars, reqVars, progVars, loopVars
<1>4. CASE \E s \in Sectors : ReadFlash(s)
  BY <1>4, Ranges, ResultValues, Inputs
     DEF ReadFlash, SwitchFlashBank, libVars, chipVars, reqVars, progVars, loopVars, tmrVars
<1>5. CASE EraseFlashChip
  BY <1>5, Ranges, ResultValues, Inputs, Contents, GeometryAssumption
     DEF EraseFlashChip, Request, Command, StartFlashTimer, libVars, chipVars, progVars
<1>6. CASE \E s \in 0..SectorCount : EraseFlashSector(s)
  BY <1>6, Ranges, ResultValues, Inputs
     DEF EraseFlashSector, Request, libVars, chipVars, progVars, tmrVars
<1>7. CASE \E s \in Sectors, o \in 0..SectorSize, c \in Sources : ProgramFlashByte(s, o, c)
  BY <1>7, Ranges, ResultValues, Inputs
     DEF ProgramFlashByte, Request, SwitchFlashBank, libVars, chipVars, tmrVars
<1>8. CASE \E s \in 0..SectorCount, c \in Sources :
            \/ ProgramFlashSector("sector", s, c, 0)
            \/ \E length \in Lengths : ProgramFlashSector("verify", s, c, length)
  BY <1>8, Ranges, ResultValues, Inputs
     DEF ProgramFlashSector, Request, libVars, chipVars, progVars, tmrVars
<1>9. CASE EraseEntry
  BY <1>9, Ranges, ResultValues, Inputs
     DEF EraseEntry, Returns, SwitchFlashBank, libVars, chipVars, reqVars, progVars,
         tmrVars
<1>10. CASE Erase
  BY <1>10, Ranges, ResultValues, Inputs, Contents, GeometryAssumption
     DEF Erase, Command, StartFlashTimer, libVars, chipVars, reqVars, progVars, loopVars
<1>11. CASE Program
  BY <1>11, Ranges, ResultValues, Inputs, Contents, GeometryAssumption
     DEF Program, Command, StartFlashTimer, libVars, chipVars, reqVars, progVars, loopVars
<1>12. CASE Poll
  BY <1>12, Ranges, ResultValues, Inputs
     DEF Poll, LeaveWait, StopFlashTimer, libVars, chipVars, reqVars, progVars, loopVars, tmrVars
<1>13. CASE TestFlag
  BY <1>13, Ranges, ResultValues, Inputs
     DEF TestFlag, libVars, chipVars, reqVars, progVars, loopVars, tmrVars
<1>14. CASE Repoll("exceeded", Exceeded(phase))
  BY <1>14, Ranges, ResultValues, Inputs
     DEF Repoll, Reset, EndsAs, LeaveWait, StopFlashTimer, libVars, chipVars, reqVars,
         progVars, loopVars
<1>15. CASE Repoll("timeout", TimedOut(phase))
  BY <1>15, Ranges, ResultValues, Inputs
     DEF Repoll, Reset, EndsAs, LeaveWait, StopFlashTimer, libVars, chipVars, reqVars,
         progVars, loopVars
<1>16. CASE TryErase
  BY <1>16, Ranges, ResultValues, Inputs
     DEF TryErase, EraseAgain, libVars, chipVars, reqVars, progVars, tmrVars
<1>17. CASE EraseDone
  BY <1>17, Ranges, ResultValues, Inputs
     DEF EraseDone, EraseAgain, Returns, SwitchFlashBank, libVars, chipVars, reqVars,
         progVars, tmrVars
<1>18. CASE ProgramDone
  BY <1>18, Ranges, ResultValues, Inputs
     DEF ProgramDone, Returns, libVars, chipVars, reqVars, progVars, tmrVars
<1>19. CASE Verify
  BY <1>19, Ranges, ResultValues, Inputs
     DEF Verify, Returns, SwitchFlashBank, libVars, chipVars, reqVars, progVars,
         tmrVars
<1>20. CASE FlashTimerIntr
  BY <1>20, Ranges, ResultValues, Inputs, Contents, GeometryAssumption
     DEF FlashTimerIntr, libVars, chipVars, reqVars, progVars, loopVars
<1>21. CASE ChipCompletes
  BY <1>21, Ranges, ResultValues, Inputs
     DEF ChipCompletes, EndsAs, libVars, reqVars, progVars, loopVars, tmrVars
<1>22. CASE ChipFails
  BY <1>22, Ranges, ResultValues, Inputs
     DEF ChipFails, EndsAs, libVars, reqVars, progVars, loopVars, tmrVars
<1>23. CASE PowerLoss
  BY <1>23, Ranges, ResultValues, Inputs, Contents, GeometryAssumption
     DEF PowerLoss, EndsAs
<1>24. CASE UNCHANGED vars
  BY <1>24 DEF vars, libVars, chipVars, reqVars, progVars, loopVars, tmrVars
<1>. QED
  BY <1>1, <1>2, <1>3, <1>4, <1>5, <1>6, <1>7, <1>8, <1>9, <1>10, <1>11, <1>12,
     <1>13, <1>14, <1>15, <1>16, <1>17, <1>18, <1>19, <1>20, <1>21, <1>22, <1>23,
     <1>24
     DEF Next, Setups, Calls, Steps

\* Where the request is.
LEMMA RequestStep ==
  IInv /\ [Next]_vars => RequestPart'
<1> SUFFICES ASSUME IInv, [Next]_vars PROVE RequestPart'
  OBVIOUS
<1> USE DEF IInv, TypeOK, RequestPart, ProgramTypes, Waiting, MaxTries
<1>1. CASE IdentifyFlash
  BY <1>1, Ranges
     DEF IdentifyFlash, Reset, EndsAs, CutShort, chipVars, reqVars, progVars, loopVars, tmrVars
<1>2. CASE \E timerNum \in {0, 4} : SetFlashTimerIntr(timerNum)
  BY <1>2, Ranges DEF SetFlashTimerIntr, chipVars, reqVars, progVars, loopVars, tmrVars
<1>3. CASE \E value \in ImeValues : SetIme(value)
  BY <1>3, Ranges DEF SetIme, libVars, chipVars, reqVars, progVars, loopVars
<1>4. CASE \E s \in Sectors : ReadFlash(s)
  BY <1>4, Ranges
     DEF ReadFlash, SwitchFlashBank, libVars, chipVars, reqVars, progVars, loopVars, tmrVars
<1>5. CASE EraseFlashChip
  BY <1>5, Ranges
     DEF EraseFlashChip, Request, Command, StartFlashTimer, libVars, chipVars, progVars
<1>6. CASE \E s \in 0..SectorCount : EraseFlashSector(s)
  BY <1>6, Ranges DEF EraseFlashSector, Request, libVars, chipVars, progVars, tmrVars
<1>7. CASE \E s \in Sectors, o \in 0..SectorSize, c \in Sources : ProgramFlashByte(s, o, c)
  BY <1>7, Ranges
     DEF ProgramFlashByte, Request, SwitchFlashBank, libVars, chipVars, tmrVars
<1>8. CASE \E s \in 0..SectorCount, c \in Sources :
            \/ ProgramFlashSector("sector", s, c, 0)
            \/ \E length \in Lengths : ProgramFlashSector("verify", s, c, length)
  BY <1>8, Ranges DEF ProgramFlashSector, Request, libVars, chipVars, progVars, tmrVars
<1>9. CASE EraseEntry
  BY <1>9, Ranges, ResultValues
     DEF EraseEntry, Returns, SwitchFlashBank, libVars, chipVars, reqVars, progVars,
         tmrVars
<1>10. CASE Erase
  BY <1>10, Ranges
     DEF Erase, Command, StartFlashTimer, libVars, chipVars, reqVars, progVars, loopVars
<1>11. CASE Program
  BY <1>11, Ranges
     DEF Program, Command, StartFlashTimer, libVars, chipVars, reqVars, progVars, loopVars
<1>12. CASE Poll
  BY <1>12, Ranges
     DEF Poll, LeaveWait, StopFlashTimer, libVars, chipVars, reqVars, progVars, loopVars, tmrVars
<1>13. CASE TestFlag
  BY <1>13, Ranges DEF TestFlag, libVars, chipVars, reqVars, progVars, loopVars, tmrVars
<1>14. CASE Repoll("exceeded", Exceeded(phase))
  BY <1>14, Ranges
     DEF Repoll, Reset, EndsAs, LeaveWait, StopFlashTimer, libVars, chipVars, reqVars,
         progVars, loopVars
<1>15. CASE Repoll("timeout", TimedOut(phase))
  BY <1>15, Ranges
     DEF Repoll, Reset, EndsAs, LeaveWait, StopFlashTimer, libVars, chipVars, reqVars,
         progVars, loopVars
<1>16. CASE TryErase
  BY <1>16, Ranges
     DEF TryErase, EraseAgain, libVars, chipVars, reqVars, progVars, tmrVars
<1>17. CASE EraseDone
  BY <1>17, Ranges
     DEF EraseDone, EraseAgain, Returns, SwitchFlashBank, libVars, chipVars, reqVars,
         progVars, tmrVars
<1>18. CASE ProgramDone
  BY <1>18, Ranges
     DEF ProgramDone, Returns, libVars, chipVars, reqVars, progVars, tmrVars
<1>19. CASE Verify
  BY <1>19, Ranges
     DEF Verify, Returns, SwitchFlashBank, libVars, chipVars, reqVars, progVars,
         tmrVars
<1>20. CASE FlashTimerIntr
  BY <1>20, Ranges DEF FlashTimerIntr, libVars, chipVars, reqVars, progVars, loopVars
<1>21. CASE ChipCompletes
  BY <1>21, Ranges DEF ChipCompletes, EndsAs, libVars, reqVars, progVars, loopVars, tmrVars
<1>22. CASE ChipFails
  BY <1>22, Ranges DEF ChipFails, EndsAs, libVars, reqVars, progVars, loopVars, tmrVars
<1>23. CASE PowerLoss
  BY <1>23, Ranges DEF PowerLoss, EndsAs
<1>24. CASE UNCHANGED vars
  BY <1>24 DEF vars, libVars, chipVars, reqVars, progVars, loopVars, tmrVars
<1>. QED
  BY <1>1, <1>2, <1>3, <1>4, <1>5, <1>6, <1>7, <1>8, <1>9, <1>10, <1>11, <1>12,
     <1>13, <1>14, <1>15, <1>16, <1>17, <1>18, <1>19, <1>20, <1>21, <1>22, <1>23,
     <1>24
     DEF Next, Setups, Calls, Steps

\* IME and the timer.
LEMMA TimerStep ==
  IInv /\ [Next]_vars => TimerPart'
<1> SUFFICES ASSUME IInv, [Next]_vars PROVE TimerPart'
  OBVIOUS
<1> USE DEF IInv, TypeOK, RequestPart, TimerPart, ProgramTypes, Waiting
<1>1. CASE IdentifyFlash
  BY <1>1
     DEF IdentifyFlash, Reset, EndsAs, CutShort, chipVars, reqVars, progVars, loopVars, tmrVars
<1>2. CASE \E timerNum \in {0, 4} : SetFlashTimerIntr(timerNum)
  BY <1>2 DEF SetFlashTimerIntr, chipVars, reqVars, progVars, loopVars, tmrVars
<1>3. CASE \E value \in ImeValues : SetIme(value)
  BY <1>3 DEF SetIme, libVars, chipVars, reqVars, progVars, loopVars
<1>4. CASE \E s \in Sectors : ReadFlash(s)
  BY <1>4
     DEF ReadFlash, SwitchFlashBank, libVars, chipVars, reqVars, progVars, loopVars, tmrVars
<1>5. CASE EraseFlashChip
  BY <1>5
     DEF EraseFlashChip, Request, Command, StartFlashTimer, libVars, chipVars, progVars
<1>6. CASE \E s \in 0..SectorCount : EraseFlashSector(s)
  BY <1>6 DEF EraseFlashSector, Request, libVars, chipVars, progVars, tmrVars
<1>7. CASE \E s \in Sectors, o \in 0..SectorSize, c \in Sources : ProgramFlashByte(s, o, c)
  BY <1>7 DEF ProgramFlashByte, Request, SwitchFlashBank, libVars, chipVars, tmrVars
<1>8. CASE \E s \in 0..SectorCount, c \in Sources :
            \/ ProgramFlashSector("sector", s, c, 0)
            \/ \E length \in Lengths : ProgramFlashSector("verify", s, c, length)
  BY <1>8 DEF ProgramFlashSector, Request, libVars, chipVars, progVars, tmrVars
<1>9. CASE EraseEntry
  BY <1>9
     DEF EraseEntry, Returns, SwitchFlashBank, libVars, chipVars, reqVars, progVars,
         tmrVars
<1>10. CASE Erase
  BY <1>10 DEF Erase, Command, StartFlashTimer, libVars, chipVars, reqVars, progVars, loopVars
<1>11. CASE Program
  BY <1>11 DEF Program, Command, StartFlashTimer, libVars, chipVars, reqVars, progVars, loopVars
<1>12. CASE Poll
  BY <1>12
     DEF Poll, LeaveWait, StopFlashTimer, libVars, chipVars, reqVars, progVars, loopVars, tmrVars
<1>13. CASE TestFlag
  BY <1>13 DEF TestFlag, libVars, chipVars, reqVars, progVars, loopVars, tmrVars
<1>14. CASE Repoll("exceeded", Exceeded(phase))
  BY <1>14
     DEF Repoll, Reset, EndsAs, LeaveWait, StopFlashTimer, libVars, chipVars, reqVars,
         progVars, loopVars
<1>15. CASE Repoll("timeout", TimedOut(phase))
  BY <1>15
     DEF Repoll, Reset, EndsAs, LeaveWait, StopFlashTimer, libVars, chipVars, reqVars,
         progVars, loopVars
<1>16. CASE TryErase
  BY <1>16 DEF TryErase, EraseAgain, libVars, chipVars, reqVars, progVars, tmrVars
<1>17. CASE EraseDone
  BY <1>17
     DEF EraseDone, EraseAgain, Returns, SwitchFlashBank, libVars, chipVars, reqVars,
         progVars, tmrVars
<1>18. CASE ProgramDone
  BY <1>18 DEF ProgramDone, Returns, libVars, chipVars, reqVars, progVars, tmrVars
<1>19. CASE Verify
  BY <1>19
     DEF Verify, Returns, SwitchFlashBank, libVars, chipVars, reqVars, progVars,
         tmrVars
<1>20. CASE FlashTimerIntr
  BY <1>20 DEF FlashTimerIntr, libVars, chipVars, reqVars, progVars, loopVars
<1>21. CASE ChipCompletes
  BY <1>21 DEF ChipCompletes, EndsAs, libVars, reqVars, progVars, loopVars, tmrVars
<1>22. CASE ChipFails
  BY <1>22 DEF ChipFails, EndsAs, libVars, reqVars, progVars, loopVars, tmrVars
<1>23. CASE PowerLoss
  BY <1>23 DEF PowerLoss, EndsAs
<1>24. CASE UNCHANGED vars
  BY <1>24 DEF vars, libVars, chipVars, reqVars, progVars, loopVars, tmrVars
<1>. QED
  BY <1>1, <1>2, <1>3, <1>4, <1>5, <1>6, <1>7, <1>8, <1>9, <1>10, <1>11, <1>12,
     <1>13, <1>14, <1>15, <1>16, <1>17, <1>18, <1>19, <1>20, <1>21, <1>22, <1>23,
     <1>24
     DEF Next, Setups, Calls, Steps

\* The three attempts.
LEMMA FailsStep ==
  IInv /\ [Next]_vars => FailsAfterThree'
<1> SUFFICES ASSUME IInv, [Next]_vars PROVE FailsAfterThree'
  OBVIOUS
<1> USE DEF IInv, TypeOK, RequestPart, ProgramTypes, FailsAfterThree, Waiting, MaxTries
<1>1. CASE IdentifyFlash
  BY <1>1
     DEF IdentifyFlash, Reset, EndsAs, CutShort, chipVars, reqVars, progVars, loopVars, tmrVars
<1>2. CASE \E timerNum \in {0, 4} : SetFlashTimerIntr(timerNum)
  BY <1>2 DEF SetFlashTimerIntr, chipVars, reqVars, progVars, loopVars, tmrVars
<1>3. CASE \E value \in ImeValues : SetIme(value)
  BY <1>3 DEF SetIme, libVars, chipVars, reqVars, progVars, loopVars
<1>4. CASE \E s \in Sectors : ReadFlash(s)
  BY <1>4
     DEF ReadFlash, SwitchFlashBank, libVars, chipVars, reqVars, progVars, loopVars, tmrVars
<1>5. CASE EraseFlashChip
  BY <1>5
     DEF EraseFlashChip, Request, Command, StartFlashTimer, libVars, chipVars, progVars
<1>6. CASE \E s \in 0..SectorCount : EraseFlashSector(s)
  BY <1>6 DEF EraseFlashSector, Request, libVars, chipVars, progVars, tmrVars
<1>7. CASE \E s \in Sectors, o \in 0..SectorSize, c \in Sources : ProgramFlashByte(s, o, c)
  BY <1>7 DEF ProgramFlashByte, Request, SwitchFlashBank, libVars, chipVars, tmrVars
<1>8. CASE \E s \in 0..SectorCount, c \in Sources :
            \/ ProgramFlashSector("sector", s, c, 0)
            \/ \E length \in Lengths : ProgramFlashSector("verify", s, c, length)
  BY <1>8 DEF ProgramFlashSector, Request, libVars, chipVars, progVars, tmrVars
<1>9. CASE EraseEntry
  BY <1>9
     DEF EraseEntry, Returns, SwitchFlashBank, libVars, chipVars, reqVars, progVars,
         tmrVars
<1>10. CASE Erase
  BY <1>10 DEF Erase, Command, StartFlashTimer, libVars, chipVars, reqVars, progVars, loopVars
<1>11. CASE Program
  BY <1>11 DEF Program, Command, StartFlashTimer, libVars, chipVars, reqVars, progVars, loopVars
<1>12. CASE Poll
  BY <1>12
     DEF Poll, LeaveWait, StopFlashTimer, libVars, chipVars, reqVars, progVars, loopVars, tmrVars
<1>13. CASE TestFlag
  BY <1>13 DEF TestFlag, libVars, chipVars, reqVars, progVars, loopVars, tmrVars
<1>14. CASE Repoll("exceeded", Exceeded(phase))
  BY <1>14
     DEF Repoll, Reset, EndsAs, LeaveWait, StopFlashTimer, libVars, chipVars, reqVars,
         progVars, loopVars
<1>15. CASE Repoll("timeout", TimedOut(phase))
  BY <1>15
     DEF Repoll, Reset, EndsAs, LeaveWait, StopFlashTimer, libVars, chipVars, reqVars,
         progVars, loopVars
<1>16. CASE TryErase
  BY <1>16 DEF TryErase, EraseAgain, libVars, chipVars, reqVars, progVars, tmrVars
<1>17. CASE EraseDone
  BY <1>17
     DEF EraseDone, EraseAgain, Returns, SwitchFlashBank, libVars, chipVars, reqVars,
         progVars, tmrVars
<1>18. CASE ProgramDone
  BY <1>18 DEF ProgramDone, Returns, libVars, chipVars, reqVars, progVars, tmrVars
<1>19. CASE Verify
  BY <1>19
     DEF Verify, Returns, SwitchFlashBank, libVars, chipVars, reqVars, progVars,
         tmrVars
<1>20. CASE FlashTimerIntr
  BY <1>20 DEF FlashTimerIntr, libVars, chipVars, reqVars, progVars, loopVars
<1>21. CASE ChipCompletes
  BY <1>21 DEF ChipCompletes, EndsAs, libVars, reqVars, progVars, loopVars, tmrVars
<1>22. CASE ChipFails
  BY <1>22 DEF ChipFails, EndsAs, libVars, reqVars, progVars, loopVars, tmrVars
<1>23. CASE PowerLoss
  BY <1>23 DEF PowerLoss, EndsAs
<1>24. CASE UNCHANGED vars
  BY <1>24 DEF vars, libVars, chipVars, reqVars, progVars, loopVars, tmrVars
<1>. QED
  BY <1>1, <1>2, <1>3, <1>4, <1>5, <1>6, <1>7, <1>8, <1>9, <1>10, <1>11, <1>12,
     <1>13, <1>14, <1>15, <1>16, <1>17, <1>18, <1>19, <1>20, <1>21, <1>22, <1>23,
     <1>24
     DEF Next, Setups, Calls, Steps

\* What has been verified.
LEMMA VerifiedStep ==
  IInv /\ [Next]_vars => VerifiedMeansWritten'
<1> SUFFICES ASSUME IInv, [Next]_vars PROVE VerifiedMeansWritten'
  OBVIOUS
<1> USE DEF IInv, TypeOK, RequestPart, ProgramTypes, VerifiedMeansWritten, Waiting
<1>1. CASE IdentifyFlash
  BY <1>1
     DEF IdentifyFlash, Reset, EndsAs, CutShort, chipVars, reqVars, progVars, loopVars, tmrVars
<1>2. CASE \E timerNum \in {0, 4} : SetFlashTimerIntr(timerNum)
  BY <1>2 DEF SetFlashTimerIntr, chipVars, reqVars, progVars, loopVars, tmrVars
<1>3. CASE \E value \in ImeValues : SetIme(value)
  BY <1>3 DEF SetIme, libVars, chipVars, reqVars, progVars, loopVars
<1>4. CASE \E s \in Sectors : ReadFlash(s)
  BY <1>4
     DEF ReadFlash, SwitchFlashBank, libVars, chipVars, reqVars, progVars, loopVars, tmrVars
<1>5. CASE EraseFlashChip
  BY <1>5
     DEF EraseFlashChip, Request, Command, StartFlashTimer, libVars, chipVars, progVars
<1>6. CASE \E s \in 0..SectorCount : EraseFlashSector(s)
  BY <1>6 DEF EraseFlashSector, Request, libVars, chipVars, progVars, tmrVars
<1>7. CASE \E s \in Sectors, o \in 0..SectorSize, c \in Sources : ProgramFlashByte(s, o, c)
  BY <1>7 DEF ProgramFlashByte, Request, SwitchFlashBank, libVars, chipVars, tmrVars
<1>8. CASE \E s \in 0..SectorCount, c \in Sources :
            \/ ProgramFlashSector("sector", s, c, 0)
            \/ \E length \in Lengths : ProgramFlashSector("verify", s, c, length)
  BY <1>8 DEF ProgramFlashSector, Request, libVars, chipVars, progVars, tmrVars
<1>9. CASE EraseEntry
  BY <1>9
     DEF EraseEntry, Returns, SwitchFlashBank, libVars, chipVars, reqVars, progVars,
         tmrVars
<1>10. CASE Erase
  BY <1>10 DEF Erase, Command, StartFlashTimer, libVars, chipVars, reqVars, progVars, loopVars
<1>11. CASE Program
  BY <1>11 DEF Program, Command, StartFlashTimer, libVars, chipVars, reqVars, progVars, loopVars
<1>12. CASE Poll
  BY <1>12
     DEF Poll, LeaveWait, StopFlashTimer, libVars, chipVars, reqVars, progVars, loopVars, tmrVars
<1>13. CASE TestFlag
  BY <1>13 DEF TestFlag, libVars, chipVars, reqVars, progVars, loopVars, tmrVars
<1>14. CASE Repoll("exceeded", Exceeded(phase))
  BY <1>14
     DEF Repoll, Reset, EndsAs, LeaveWait, StopFlashTimer, libVars, chipVars, reqVars,
         progVars, loopVars
<1>15. CASE Repoll("timeout", TimedOut(phase))
  BY <1>15
     DEF Repoll, Reset, EndsAs, LeaveWait, StopFlashTimer, libVars, chipVars, reqVars,
         progVars, loopVars
<1>16. CASE TryErase
  BY <1>16 DEF TryErase, EraseAgain, libVars, chipVars, reqVars, progVars, tmrVars
<1>17. CASE EraseDone
  BY <1>17
     DEF EraseDone, EraseAgain, Returns, SwitchFlashBank, libVars, chipVars, reqVars,
         progVars, tmrVars
<1>18. CASE ProgramDone
  BY <1>18 DEF ProgramDone, Returns, libVars, chipVars, reqVars, progVars, tmrVars
<1>19. CASE Verify
  <2>1. sector \in Sectors /\ op = "verify" /\ UNCHANGED <<data, chip, sector, src, n>>
    BY <1>19 DEF Verify, chipVars, reqVars
  <2>2. CASE Matches(Addressed(sector, bank'))
    <3>1. chip = "ready" /\ Addressed(sector, bank') = sector
      BY <1>19, <2>1, <2>2, Geometry DEF Verify, SwitchFlashBank, Matches
    <3>. QED
      BY <2>1, <2>2, <3>1 DEF Matches
  <2>3. CASE ~Matches(Addressed(sector, bank'))
    BY <1>19, <2>1, <2>3, ResultValues DEF Verify, Returns
  <2>. QED
    BY <2>2, <2>3
<1>20. CASE FlashTimerIntr
  BY <1>20 DEF FlashTimerIntr, libVars, chipVars, reqVars, progVars, loopVars
<1>21. CASE ChipCompletes
  BY <1>21 DEF ChipCompletes, EndsAs, libVars, reqVars, progVars, loopVars, tmrVars
<1>22. CASE ChipFails
  BY <1>22 DEF ChipFails, EndsAs, libVars, reqVars, progVars, loopVars, tmrVars
<1>23. CASE PowerLoss
  BY <1>23 DEF PowerLoss, EndsAs
<1>24. CASE UNCHANGED vars
  BY <1>24 DEF vars, libVars, chipVars, reqVars, progVars, loopVars, tmrVars
<1>. QED
  BY <1>1, <1>2, <1>3, <1>4, <1>5, <1>6, <1>7, <1>8, <1>9, <1>10, <1>11, <1>12,
     <1>13, <1>14, <1>15, <1>16, <1>17, <1>18, <1>19, <1>20, <1>21, <1>22, <1>23,
     <1>24
     DEF Next, Setups, Calls, Steps


\* IInv is an invariant whatever the chip does.
THEOREM Invariance == Spec => []IInv
<1>1. Init => IInv
  <2>1. ASSUME Init PROVE TypeOK
    BY <2>1, Ranges, Contents, ResultValues, GeometryAssumption
       DEF Init, TypeOK, ChipTypes, ProgramTypes, Banks, Byte
  <2>. QED
    BY <2>1
       DEF Init, IInv, RequestPart, TimerPart, FailsAfterThree, VerifiedMeansWritten, Waiting
<1>2. IInv /\ [Next]_vars => IInv'
  BY ChipTypeStep, ProgramTypeStep, RequestStep, TimerStep, FailsStep, VerifiedStep
     DEF IInv, TypeOK
<1>. QED
  BY <1>1, <1>2, PTL DEF Spec

\* The types and the bounds of the loops hold: banks, sectors, offsets and
\* retry counters stay in range whatever the chip answers.
THEOREM TypeCorrect == Spec => []TypeOK
<1>1. IInv => TypeOK
  BY DEF IInv
<1>. QED
  BY <1>1, Invariance, PTL

\* A verified sector holds the buffer, on every chip: one that ignores resets
\* and bank switches, hangs, fails, or completes what it has not done.
THEOREM VerifiedHoldsBuffer == Spec => []VerifiedMeansWritten
<1>1. IInv => VerifiedMeansWritten
  BY DEF IInv
<1>. QED
  BY <1>1, Invariance, PTL

\* StopFlashTimer restores the IME that StartFlashTimer found.
THEOREM ImeRestored == Spec => []InterruptsRestored
<1>1. IInv => InterruptsRestored
  BY DEF IInv, TimerPart, InterruptsRestored
<1>. QED
  BY <1>1, Invariance, PTL

\* ProgramFlashSectorAndVerify gives up after three attempts, never earlier.
THEOREM ThreeAttempts == Spec => []FailsAfterThree
<1>1. IInv => FailsAfterThree
  BY DEF IInv
<1>. QED
  BY <1>1, Invariance, PTL

\* The chip works on the sector asked for, if a reset frees it.
LEMMA TargetStep ==
  ASSUME ResetAborts PROVE TargetInv /\ [Next]_vars => TargetPart'
<1> SUFFICES ASSUME TargetInv, [Next]_vars PROVE TargetPart'
  OBVIOUS
<1> USE DEF TargetInv, IInv, TypeOK, RequestPart, ProgramTypes, ChipTypes, TargetPart,
           Waiting
<1>1. CASE IdentifyFlash
  BY <1>1
     DEF IdentifyFlash, Reset, EndsAs, CutShort, chipVars, reqVars, progVars, loopVars, tmrVars
<1>2. CASE \E timerNum \in {0, 4} : SetFlashTimerIntr(timerNum)
  BY <1>2 DEF SetFlashTimerIntr, chipVars, reqVars, progVars, loopVars, tmrVars
<1>3. CASE \E value \in ImeValues : SetIme(value)
  BY <1>3 DEF SetIme, libVars, chipVars, reqVars, progVars, loopVars
<1>4. CASE \E s \in Sectors : ReadFlash(s)
  BY <1>4, Geometry, Ranges
     DEF ReadFlash, SwitchFlashBank, libVars, chipVars, reqVars, progVars, loopVars, tmrVars
<1>5. CASE EraseFlashChip
  BY <1>5
     DEF EraseFlashChip, Request, Command, StartFlashTimer, libVars, chipVars, progVars
<1>6. CASE \E s \in 0..SectorCount : EraseFlashSector(s)
  BY <1>6 DEF EraseFlashSector, Request, libVars, chipVars, progVars, tmrVars
<1>7. CASE \E s \in Sectors, o \in 0..SectorSize, c \in Sources : ProgramFlashByte(s, o, c)
  BY <1>7, Geometry, Ranges
     DEF ProgramFlashByte, Request, SwitchFlashBank, libVars, chipVars, tmrVars
<1>8. CASE \E s \in 0..SectorCount, c \in Sources :
            \/ ProgramFlashSector("sector", s, c, 0)
            \/ \E length \in Lengths : ProgramFlashSector("verify", s, c, length)
  BY <1>8 DEF ProgramFlashSector, Request, libVars, chipVars, progVars, tmrVars
<1>9. CASE EraseEntry
  BY <1>9, Geometry, Ranges
     DEF EraseEntry, Returns, SwitchFlashBank, libVars, chipVars, reqVars, progVars,
         tmrVars
<1>10. CASE Erase
  BY <1>10 DEF Erase, Command, StartFlashTimer, libVars, chipVars, reqVars, progVars, loopVars
<1>11. CASE Program
  BY <1>11 DEF Program, Command, StartFlashTimer, libVars, chipVars, reqVars, progVars, loopVars
<1>12. CASE Poll
  <2>1. ShowsLastData => chip = "ready"
    BY DEF ShowsLastData
  <2>. QED
    BY <1>12, <2>1
       DEF Poll, LeaveWait, StopFlashTimer, libVars, chipVars, reqVars, progVars, loopVars,
           tmrVars
<1>13. CASE TestFlag
  BY <1>13 DEF TestFlag, libVars, chipVars, reqVars, progVars, loopVars, tmrVars
<1>14. CASE Repoll("exceeded", Exceeded(phase))
  <2>1. ShowsLastData => chip = "ready"
    BY DEF ShowsLastData
  <2>. QED
    BY <1>14, <2>1
       DEF Repoll, Reset, EndsAs, LeaveWait, StopFlashTimer, libVars, chipVars, reqVars,
           progVars, loopVars
<1>15. CASE Repoll("timeout", TimedOut(phase))
  <2>1. ShowsLastData => chip = "ready"
    BY DEF ShowsLastData
  <2>. QED
    BY <1>15, <2>1
       DEF Repoll, Reset, EndsAs, LeaveWait, StopFlashTimer, libVars, chipVars, reqVars,
           progVars, loopVars
<1>16. CASE TryErase
  BY <1>16 DEF TryErase, EraseAgain, libVars, chipVars, reqVars, progVars, tmrVars
<1>17. CASE EraseDone
  BY <1>17, Geometry, Ranges
     DEF EraseDone, EraseAgain, Returns, SwitchFlashBank, libVars, chipVars, reqVars,
         progVars, tmrVars
<1>18. CASE ProgramDone
  BY <1>18 DEF ProgramDone, Returns, libVars, chipVars, reqVars, progVars, tmrVars
<1>19. CASE Verify
  BY <1>19, Geometry, Ranges
     DEF Verify, Returns, SwitchFlashBank, libVars, chipVars, reqVars, progVars,
         tmrVars
<1>20. CASE FlashTimerIntr
  BY <1>20 DEF FlashTimerIntr, libVars, chipVars, reqVars, progVars, loopVars
<1>21. CASE ChipCompletes
  BY <1>21 DEF ChipCompletes, EndsAs, libVars, reqVars, progVars, loopVars, tmrVars
<1>22. CASE ChipFails
  BY <1>22 DEF ChipFails, EndsAs, libVars, reqVars, progVars, loopVars, tmrVars
<1>23. CASE PowerLoss
  BY <1>23 DEF PowerLoss, EndsAs
<1>24. CASE UNCHANGED vars
  BY <1>24 DEF vars, libVars, chipVars, reqVars, progVars, loopVars, tmrVars
<1>. QED
  BY <1>1, <1>2, <1>3, <1>4, <1>5, <1>6, <1>7, <1>8, <1>9, <1>10, <1>11, <1>12,
     <1>13, <1>14, <1>15, <1>16, <1>17, <1>18, <1>19, <1>20, <1>21, <1>22, <1>23,
     <1>24
     DEF Next, Setups, Calls, Steps

\* The sector is erased when the chip is ready, if it is not worn.
LEMMA EraseStep ==
  ASSUME ResetAborts, ~Worn PROVE EraseInv /\ [Next]_vars => ErasePart'
<1> SUFFICES ASSUME EraseInv, [Next]_vars PROVE ErasePart'
  OBVIOUS
<1> USE DEF EraseInv, TargetInv, IInv, TypeOK, RequestPart, ProgramTypes, ChipTypes,
           TargetPart, ErasePart, Waiting
<1>1. CASE IdentifyFlash
  BY <1>1
     DEF IdentifyFlash, Reset, EndsAs, CutShort, chipVars, reqVars, progVars, loopVars, tmrVars
<1>2. CASE \E timerNum \in {0, 4} : SetFlashTimerIntr(timerNum)
  BY <1>2 DEF SetFlashTimerIntr, chipVars, reqVars, progVars, loopVars, tmrVars
<1>3. CASE \E value \in ImeValues : SetIme(value)
  BY <1>3 DEF SetIme, libVars, chipVars, reqVars, progVars, loopVars
<1>4. CASE \E s \in Sectors : ReadFlash(s)
  BY <1>4, Geometry, Ranges
     DEF ReadFlash, SwitchFlashBank, libVars, chipVars, reqVars, progVars, loopVars, tmrVars
<1>5. CASE EraseFlashChip
  BY <1>5
     DEF EraseFlashChip, Request, Command, StartFlashTimer, libVars, chipVars, progVars
<1>6. CASE \E s \in 0..SectorCount : EraseFlashSector(s)
  BY <1>6 DEF EraseFlashSector, Request, libVars, chipVars, progVars, tmrVars
<1>7. CASE \E s \in Sectors, o \in 0..SectorSize, c \in Sources : ProgramFlashByte(s, o, c)
  BY <1>7, Geometry, Ranges
     DEF ProgramFlashByte, Request, SwitchFlashBank, libVars, chipVars, tmrVars
<1>8. CASE \E s \in 0..SectorCount, c \in Sources :
            \/ ProgramFlashSector("sector", s, c, 0)
            \/ \E length \in Lengths : ProgramFlashSector("verify", s, c, length)
  BY <1>8 DEF ProgramFlashSector, Request, libVars, chipVars, progVars, tmrVars
<1>9. CASE EraseEntry
  BY <1>9, ResultValues, Geometry, Ranges
     DEF EraseEntry, Returns, SwitchFlashBank, libVars, chipVars, reqVars, progVars,
         tmrVars
<1>10. CASE Erase
  BY <1>10 DEF Erase, Command, StartFlashTimer, libVars, chipVars, reqVars, progVars, loopVars
<1>11. CASE Program
  BY <1>11 DEF Program, Command, StartFlashTimer, libVars, chipVars, reqVars, progVars, loopVars
<1>12. CASE Poll
  <2>1. ShowsLastData => chip = "ready"
    BY DEF ShowsLastData
  <2>. QED
    BY <1>12, <2>1
       DEF Poll, LeaveWait, StopFlashTimer, libVars, chipVars, reqVars, progVars, loopVars,
           tmrVars
<1>13. CASE TestFlag
  BY <1>13 DEF TestFlag, libVars, chipVars, reqVars, progVars, loopVars, tmrVars
<1>14. CASE Repoll("exceeded", Exceeded(phase))
  <2>1. ShowsLastData => chip = "ready"
    BY DEF ShowsLastData
  <2>2. phase \in 1..3 /\ Exceeded(phase) # 0 /\ TimedOut(phase) # 0
    BY <1>14, ResultValues DEF Repoll
  <2>. QED
    BY <1>14, <2>1, <2>2
       DEF Repoll, Reset, EndsAs, LeaveWait, StopFlashTimer, libVars, chipVars, reqVars,
           progVars, loopVars
<1>15. CASE Repoll("timeout", TimedOut(phase))
  <2>1. ShowsLastData => chip = "ready"
    BY DEF ShowsLastData
  <2>2. phase \in 1..3 /\ Exceeded(phase) # 0 /\ TimedOut(phase) # 0
    BY <1>15, ResultValues DEF Repoll
  <2>. QED
    BY <1>15, <2>1, <2>2
       DEF Repoll, Reset, EndsAs, LeaveWait, StopFlashTimer, libVars, chipVars, reqVars,
           progVars, loopVars
<1>16. CASE TryErase
  BY <1>16 DEF TryErase, EraseAgain, libVars, chipVars, reqVars, progVars, tmrVars
<1>17. CASE EraseDone
  BY <1>17, Geometry, Ranges
     DEF EraseDone, EraseAgain, Returns, SwitchFlashBank, libVars, chipVars, reqVars,
         progVars, tmrVars
<1>18. CASE ProgramDone
  BY <1>18 DEF ProgramDone, Returns, libVars, chipVars, reqVars, progVars, tmrVars
<1>19. CASE Verify
  BY <1>19, Geometry, Ranges
     DEF Verify, Returns, SwitchFlashBank, libVars, chipVars, reqVars, progVars,
         tmrVars
<1>20. CASE FlashTimerIntr
  BY <1>20 DEF FlashTimerIntr, libVars, chipVars, reqVars, progVars, loopVars
<1>21. CASE ChipCompletes
  <2>1. CarriedOut /\ chip = "busy" /\ UNCHANGED <<pc, op, sector, phase, result>>
    BY <1>21 DEF ChipCompletes, reqVars
  <2>2. CASE Waiting /\ phase = 2
    <3>1. work = "erase" /\ atSector = sector /\ sector \in Sectors
      BY <2>1, <2>2
    <3>2. data'[sector] = Erased
      BY <2>1, <3>1 DEF CarriedOut, With
    <3>. QED
      BY <2>1, <2>2, <3>2
  <2>3. CASE ~(Waiting /\ phase = 2)
    BY <2>1, <2>3
  <2>. QED
    BY <2>2, <2>3
<1>22. CASE ChipFails
  BY <1>22 DEF ChipFails, EndsAs, libVars, reqVars, progVars, loopVars, tmrVars
<1>23. CASE PowerLoss
  BY <1>23 DEF PowerLoss, EndsAs
<1>24. CASE UNCHANGED vars
  BY <1>24 DEF vars, libVars, chipVars, reqVars, progVars, loopVars, tmrVars
<1>. QED
  BY <1>1, <1>2, <1>3, <1>4, <1>5, <1>6, <1>7, <1>8, <1>9, <1>10, <1>11, <1>12,
     <1>13, <1>14, <1>15, <1>16, <1>17, <1>18, <1>19, <1>20, <1>21, <1>22, <1>23,
     <1>24
     DEF Next, Setups, Calls, Steps

\* A sector that has been reported erased.
LEMMA ErasedStep ==
  ASSUME ResetAborts, ~Worn PROVE EraseInv /\ [Next]_vars => ErasedMeansErased'
<1> SUFFICES ASSUME EraseInv, [Next]_vars PROVE ErasedMeansErased'
  OBVIOUS
<1> USE DEF EraseInv, TargetInv, IInv, TypeOK, RequestPart, ProgramTypes, ChipTypes,
           TargetPart, ErasePart, ErasedMeansErased, Waiting
<1>1. CASE IdentifyFlash
  BY <1>1
     DEF IdentifyFlash, Reset, EndsAs, CutShort, chipVars, reqVars, progVars, loopVars, tmrVars
<1>2. CASE \E timerNum \in {0, 4} : SetFlashTimerIntr(timerNum)
  BY <1>2 DEF SetFlashTimerIntr, chipVars, reqVars, progVars, loopVars, tmrVars
<1>3. CASE \E value \in ImeValues : SetIme(value)
  BY <1>3 DEF SetIme, libVars, chipVars, reqVars, progVars, loopVars
<1>4. CASE \E s \in Sectors : ReadFlash(s)
  BY <1>4, Geometry, Ranges
     DEF ReadFlash, SwitchFlashBank, libVars, chipVars, reqVars, progVars, loopVars, tmrVars
<1>5. CASE EraseFlashChip
  BY <1>5
     DEF EraseFlashChip, Request, Command, StartFlashTimer, libVars, chipVars, progVars
<1>6. CASE \E s \in 0..SectorCount : EraseFlashSector(s)
  BY <1>6 DEF EraseFlashSector, Request, libVars, chipVars, progVars, tmrVars
<1>7. CASE \E s \in Sectors, o \in 0..SectorSize, c \in Sources : ProgramFlashByte(s, o, c)
  BY <1>7, Geometry, Ranges
     DEF ProgramFlashByte, Request, SwitchFlashBank, libVars, chipVars, tmrVars
<1>8. CASE \E s \in 0..SectorCount, c \in Sources :
            \/ ProgramFlashSector("sector", s, c, 0)
            \/ \E length \in Lengths : ProgramFlashSector("verify", s, c, length)
  BY <1>8 DEF ProgramFlashSector, Request, libVars, chipVars, progVars, tmrVars
<1>9. CASE EraseEntry
  BY <1>9, ResultValues, Geometry, Ranges
     DEF EraseEntry, Returns, SwitchFlashBank, libVars, chipVars, reqVars, progVars,
         tmrVars
<1>10. CASE Erase
  BY <1>10 DEF Erase, Command, StartFlashTimer, libVars, chipVars, reqVars, progVars, loopVars
<1>11. CASE Program
  BY <1>11 DEF Program, Command, StartFlashTimer, libVars, chipVars, reqVars, progVars, loopVars
<1>12. CASE Poll
  BY <1>12
     DEF Poll, LeaveWait, StopFlashTimer, libVars, chipVars, reqVars, progVars, loopVars, tmrVars
<1>13. CASE TestFlag
  BY <1>13 DEF TestFlag, libVars, chipVars, reqVars, progVars, loopVars, tmrVars
<1>14. CASE Repoll("exceeded", Exceeded(phase))
  BY <1>14
     DEF Repoll, Reset, EndsAs, LeaveWait, StopFlashTimer, libVars, chipVars, reqVars,
         progVars, loopVars
<1>15. CASE Repoll("timeout", TimedOut(phase))
  BY <1>15
     DEF Repoll, Reset, EndsAs, LeaveWait, StopFlashTimer, libVars, chipVars, reqVars,
         progVars, loopVars
<1>16. CASE TryErase
  BY <1>16 DEF TryErase, EraseAgain, libVars, chipVars, reqVars, progVars, tmrVars
<1>17. CASE EraseDone
  BY <1>17, Geometry, Ranges
     DEF EraseDone, EraseAgain, Returns, SwitchFlashBank, libVars, chipVars, reqVars,
         progVars, tmrVars
<1>18. CASE ProgramDone
  BY <1>18 DEF ProgramDone, Returns, libVars, chipVars, reqVars, progVars, tmrVars
<1>19. CASE Verify
  BY <1>19, Geometry, Ranges
     DEF Verify, Returns, SwitchFlashBank, libVars, chipVars, reqVars, progVars,
         tmrVars
<1>20. CASE FlashTimerIntr
  BY <1>20 DEF FlashTimerIntr, libVars, chipVars, reqVars, progVars, loopVars
<1>21. CASE ChipCompletes
  BY <1>21 DEF ChipCompletes, EndsAs, libVars, reqVars, progVars, loopVars, tmrVars
<1>22. CASE ChipFails
  BY <1>22 DEF ChipFails, EndsAs, libVars, reqVars, progVars, loopVars, tmrVars
<1>23. CASE PowerLoss
  BY <1>23 DEF PowerLoss, EndsAs
<1>24. CASE UNCHANGED vars
  BY <1>24 DEF vars, libVars, chipVars, reqVars, progVars, loopVars, tmrVars
<1>. QED
  BY <1>1, <1>2, <1>3, <1>4, <1>5, <1>6, <1>7, <1>8, <1>9, <1>10, <1>11, <1>12,
     <1>13, <1>14, <1>15, <1>16, <1>17, <1>18, <1>19, <1>20, <1>21, <1>22, <1>23,
     <1>24
     DEF Next, Setups, Calls, Steps

\* Only the target of the request changes.
LEMMA TargetOnly ==
  ASSUME ResetAborts PROVE TargetInv /\ [Next]_vars => [OnlyTargetChange]_vars
<1> SUFFICES ASSUME TargetInv, Next PROVE OnlyTargetChange
  BY DEF vars
<1>1. CASE UNCHANGED data
  BY <1>1 DEF OnlyTargetChange
<1>2. CASE chip = "busy" /\ (CarriedOut \/ CutShort \/ Disturbed)
  <2>1. ASSUME NEW s \in Sectors, data'[s] # data[s] PROVE op = "chip" \/ s = sector
    <3>1. (work = "chip" /\ op = "chip") \/ (work \in {"erase", "program"} /\ atSector = sector)
      BY <1>2 DEF TargetInv, TargetPart
    <3>2. work \in {"erase", "program"} => \E c : data' = With(atSector, c)
      BY <1>2 DEF CarriedOut, CutShort, Cleared, Disturbed
    <3>. QED
      BY <2>1, <3>1, <3>2 DEF With
  <2>2. pc # "idle"
    BY <1>2 DEF TargetInv, TargetPart, Waiting
  <2>. QED
    BY <2>1, <2>2 DEF OnlyTargetChange
<1>3. UNCHANGED data \/ (chip = "busy" /\ (CarriedOut \/ CutShort \/ Disturbed))
  BY DEF Next, Setups, Calls, Steps, IdentifyFlash, SetFlashTimerIntr, SetIme, ReadFlash,
         EraseFlashChip, EraseFlashSector, ProgramFlashByte, ProgramFlashSector, EraseEntry, Erase,
         Program, Poll, TestFlag, Repoll, Reset, TryErase, EraseDone, ProgramDone, Verify,
         FlashTimerIntr, ChipCompletes, ChipFails, PowerLoss
<1>. QED
  BY <1>1, <1>2, <1>3

\* With a chip that a reset frees, a request changes no sector but its own, and
\* nothing changes between requests.
THEOREM OtherSectorsKept == ASSUME ResetAborts PROVE Spec => OnlyTargetChanges
<1>1. Init => TargetPart
  BY DEF Init, TargetPart, Waiting
<1>2. TargetInv /\ [Next]_vars => TargetPart'
  BY TargetStep
<1>3. Spec => []TargetInv
  BY <1>1, <1>2, Invariance, PTL DEF Spec, TargetInv
<1>4. TargetInv /\ [Next]_vars => [OnlyTargetChange]_vars
  BY TargetOnly
<1>. QED
  BY <1>3, <1>4, PTL DEF Spec, OnlyTargetChanges

\* If it is not worn either, a sector reported erased is erased throughout.
THEOREM EraseIsComplete == ASSUME ResetAborts, ~Worn PROVE Spec => []ErasedMeansErased
<1>1. Init => TargetPart /\ ErasePart /\ ErasedMeansErased
  BY DEF Init, TargetPart, ErasePart, ErasedMeansErased, Waiting
<1>2. EraseInv /\ [Next]_vars => TargetPart' /\ ErasePart' /\ ErasedMeansErased'
  BY TargetStep, EraseStep, ErasedStep DEF EraseInv
<1>3. Spec => []EraseInv
  BY <1>1, <1>2, Invariance, PTL DEF Spec, EraseInv, TargetInv
<1>4. EraseInv => ErasedMeansErased
  BY DEF EraseInv
<1>. QED
  BY <1>3, <1>4, PTL

-----------------------------------------------------------------------------
(***************************************************************************)
(* The flash library implements the store of module SaveStore, on a chip   *)
(* that a reset frees and that is not worn.                                *)
(***************************************************************************)

\* The whole chip is erased when it is ready again.
LEMMA ChipStep ==
  ASSUME ResetAborts, ~Worn PROVE StoreInv /\ [Next]_vars => ChipPart'
<1> SUFFICES ASSUME StoreInv, [Next]_vars PROVE ChipPart'
  OBVIOUS
<1> USE DEF StoreInv, EraseInv, TargetInv, IInv, TypeOK, RequestPart, ProgramTypes,
           ChipTypes, TargetPart, Waiting, ChipPart
<1>1. CASE IdentifyFlash
  BY <1>1
     DEF IdentifyFlash, Reset, EndsAs, CutShort, chipVars, reqVars, progVars, loopVars, tmrVars
<1>2. CASE \E timerNum \in {0, 4} : SetFlashTimerIntr(timerNum)
  BY <1>2 DEF SetFlashTimerIntr, chipVars, reqVars, progVars, loopVars, tmrVars
<1>3. CASE \E value \in ImeValues : SetIme(value)
  BY <1>3 DEF SetIme, libVars, chipVars, reqVars, progVars, loopVars
<1>4. CASE \E s \in Sectors : ReadFlash(s)
  BY <1>4, Geometry, Ranges
     DEF ReadFlash, SwitchFlashBank, libVars, chipVars, reqVars, progVars, loopVars, tmrVars
<1>5. CASE EraseFlashChip
  BY <1>5
     DEF EraseFlashChip, Request, Command, StartFlashTimer, libVars, chipVars, progVars
<1>6. CASE \E s \in 0..SectorCount : EraseFlashSector(s)
  BY <1>6 DEF EraseFlashSector, Request, libVars, chipVars, progVars, tmrVars
<1>7. CASE \E s \in Sectors, o \in 0..SectorSize, c \in Sources : ProgramFlashByte(s, o, c)
  BY <1>7, ResultValues, Geometry, Ranges
     DEF ProgramFlashByte, Request, SwitchFlashBank, libVars, chipVars, tmrVars
<1>8. CASE \E s \in 0..SectorCount, c \in Sources :
            \/ ProgramFlashSector("sector", s, c, 0)
            \/ \E length \in Lengths : ProgramFlashSector("verify", s, c, length)
  BY <1>8 DEF ProgramFlashSector, Request, libVars, chipVars, progVars, tmrVars
<1>9. CASE EraseEntry
  BY <1>9, ResultValues, Geometry, Ranges
     DEF EraseEntry, Returns, SwitchFlashBank, libVars, chipVars, reqVars, progVars,
         tmrVars
<1>10. CASE Erase
  BY <1>10 DEF Erase, Command, StartFlashTimer, libVars, chipVars, reqVars, progVars, loopVars
<1>11. CASE Program
  BY <1>11 DEF Program, Command, StartFlashTimer, libVars, chipVars, reqVars, progVars, loopVars
<1>12. CASE Poll
  <2>1. ShowsLastData => chip = "ready"
    BY DEF ShowsLastData
  <2>. QED
    BY <1>12, <2>1
       DEF Poll, LeaveWait, StopFlashTimer, libVars, chipVars, reqVars, progVars, loopVars,
           tmrVars
<1>13. CASE TestFlag
  BY <1>13 DEF TestFlag, libVars, chipVars, reqVars, progVars, loopVars, tmrVars
<1>14. CASE Repoll("exceeded", Exceeded(phase))
  <2>1. ShowsLastData => chip = "ready"
    BY DEF ShowsLastData
  <2>2. phase \in 1..3 /\ Exceeded(phase) # 0 /\ TimedOut(phase) # 0
    BY <1>14, ResultValues DEF Repoll
  <2>3. CASE UNCHANGED data
    BY <1>14, <2>1, <2>2, <2>3
       DEF Repoll, Reset, EndsAs, LeaveWait, StopFlashTimer, libVars, chipVars, reqVars,
           progVars, loopVars
  <2>4. CASE ~ShowsLastData
    BY <1>14, <2>2, <2>4
       DEF Repoll, Reset, EndsAs, LeaveWait, StopFlashTimer, libVars, chipVars, reqVars,
           progVars, loopVars
  <2>. QED
    BY <1>14, <2>3, <2>4 DEF Repoll
<1>15. CASE Repoll("timeout", TimedOut(phase))
  <2>1. ShowsLastData => chip = "ready"
    BY DEF ShowsLastData
  <2>2. phase \in 1..3 /\ Exceeded(phase) # 0 /\ TimedOut(phase) # 0
    BY <1>15, ResultValues DEF Repoll
  <2>3. CASE UNCHANGED data
    BY <1>15, <2>1, <2>2, <2>3
       DEF Repoll, Reset, EndsAs, LeaveWait, StopFlashTimer, libVars, chipVars, reqVars,
           progVars, loopVars
  <2>4. CASE ~ShowsLastData
    BY <1>15, <2>2, <2>4
       DEF Repoll, Reset, EndsAs, LeaveWait, StopFlashTimer, libVars, chipVars, reqVars,
           progVars, loopVars
  <2>. QED
    BY <1>15, <2>3, <2>4 DEF Repoll
<1>16. CASE TryErase
  BY <1>16 DEF TryErase, EraseAgain, libVars, chipVars, reqVars, progVars, tmrVars
<1>17. CASE EraseDone
  BY <1>17, Geometry, Ranges
     DEF EraseDone, EraseAgain, Returns, SwitchFlashBank, libVars, chipVars, reqVars,
         progVars, tmrVars
<1>18. CASE ProgramDone
  BY <1>18 DEF ProgramDone, Returns, libVars, chipVars, reqVars, progVars, tmrVars
<1>19. CASE Verify
  BY <1>19, Geometry, Ranges
     DEF Verify, Returns, SwitchFlashBank, libVars, chipVars, reqVars, progVars,
         tmrVars
<1>20. CASE FlashTimerIntr
  BY <1>20 DEF FlashTimerIntr, libVars, chipVars, reqVars, progVars, loopVars
<1>21. CASE ChipCompletes
  <2>1. CarriedOut /\ chip = "busy" /\ chip' = "ready" /\ UNCHANGED <<pc, op, phase, result>>
    BY <1>21 DEF ChipCompletes, EndsAs, reqVars
  <2>2. CASE Waiting /\ phase = 3
    <3>1. work = "chip"
      BY <2>1, <2>2
    <3>2. \A s \in Sectors : data'[s] = Erased
      BY <2>1, <3>1 DEF CarriedOut
    <3>. QED
      BY <2>1, <2>2, <3>2
  <2>3. CASE ~(Waiting /\ phase = 3)
    BY <2>1, <2>3
  <2>. QED
    BY <2>2, <2>3
<1>22. CASE ChipFails
  BY <1>22 DEF ChipFails, EndsAs, libVars, reqVars, progVars, loopVars, tmrVars
<1>23. CASE PowerLoss
  BY <1>23 DEF PowerLoss, EndsAs
<1>24. CASE UNCHANGED vars
  BY <1>24 DEF vars, libVars, chipVars, reqVars, progVars, loopVars, tmrVars
<1>. QED
  BY <1>1, <1>2, <1>3, <1>4, <1>5, <1>6, <1>7, <1>8, <1>9, <1>10, <1>11, <1>12,
     <1>13, <1>14, <1>15, <1>16, <1>17, <1>18, <1>19, <1>20, <1>21, <1>22, <1>23,
     <1>24
     DEF Next, Setups, Calls, Steps

\* The bytes that have been programmed are in place.
LEMMA ProgramStep ==
  ASSUME ResetAborts, ~Worn PROVE StoreInv /\ [Next]_vars => ProgramPart'
<1> SUFFICES ASSUME StoreInv, [Next]_vars PROVE ProgramPart'
  OBVIOUS
<1> USE DEF StoreInv, EraseInv, TargetInv, IInv, TypeOK, RequestPart, ProgramTypes,
           ChipTypes, TargetPart, Waiting, ProgramPart
<1>1. CASE IdentifyFlash
  BY <1>1
     DEF IdentifyFlash, Reset, EndsAs, CutShort, chipVars, reqVars, progVars, loopVars, tmrVars
<1>2. CASE \E timerNum \in {0, 4} : SetFlashTimerIntr(timerNum)
  BY <1>2 DEF SetFlashTimerIntr, chipVars, reqVars, progVars, loopVars, tmrVars
<1>3. CASE \E value \in ImeValues : SetIme(value)
  BY <1>3 DEF SetIme, libVars, chipVars, reqVars, progVars, loopVars
<1>4. CASE \E s \in Sectors : ReadFlash(s)
  BY <1>4, Geometry, Ranges
     DEF ReadFlash, SwitchFlashBank, libVars, chipVars, reqVars, progVars, loopVars, tmrVars
<1>5. CASE EraseFlashChip
  BY <1>5
     DEF EraseFlashChip, Request, Command, StartFlashTimer, libVars, chipVars, progVars
<1>6. CASE \E s \in 0..SectorCount : EraseFlashSector(s)
  BY <1>6 DEF EraseFlashSector, Request, libVars, chipVars, progVars, tmrVars
<1>7. CASE \E s \in Sectors, o \in 0..SectorSize, c \in Sources : ProgramFlashByte(s, o, c)
  BY <1>7, ResultValues, Geometry, Ranges
     DEF ProgramFlashByte, Request, SwitchFlashBank, libVars, chipVars, tmrVars
<1>8. CASE \E s \in 0..SectorCount, c \in Sources :
            \/ ProgramFlashSector("sector", s, c, 0)
            \/ \E length \in Lengths : ProgramFlashSector("verify", s, c, length)
  BY <1>8 DEF ProgramFlashSector, Request, libVars, chipVars, progVars, tmrVars
<1>9. CASE EraseEntry
  BY <1>9, ResultValues, Geometry, Ranges
     DEF EraseEntry, Returns, SwitchFlashBank, libVars, chipVars, reqVars, progVars,
         tmrVars
<1>10. CASE Erase
  BY <1>10 DEF Erase, Command, StartFlashTimer, libVars, chipVars, reqVars, progVars, loopVars
<1>11. CASE Program
  BY <1>11 DEF Program, Command, StartFlashTimer, libVars, chipVars, reqVars, progVars, loopVars
<1>12. CASE Poll
  <2>1. ShowsLastData /\ phase = 1 => chip = "ready" /\ data[sector][dest] = src[dest]
    BY <1>12 DEF Poll, ShowsLastData
  <2>. QED
    BY <1>12, <2>1
       DEF Poll, LeaveWait, StopFlashTimer, libVars, chipVars, reqVars, progVars, loopVars,
           tmrVars
<1>13. CASE TestFlag
  BY <1>13 DEF TestFlag, libVars, chipVars, reqVars, progVars, loopVars, tmrVars
<1>14. CASE Repoll("exceeded", Exceeded(phase))
  <2>1. ShowsLastData /\ phase = 1 => chip = "ready" /\ data[sector][dest] = src[dest]
    BY <1>14 DEF Repoll, ShowsLastData
  <2>2. phase \in 1..3 /\ Exceeded(phase) # 0 /\ TimedOut(phase) # 0
    BY <1>14, ResultValues DEF Repoll
  <2>3. CASE UNCHANGED data
    BY <1>14, <2>1, <2>2, <2>3
       DEF Repoll, Reset, EndsAs, LeaveWait, StopFlashTimer, libVars, chipVars, reqVars, progVars, loopVars
  <2>4. CASE ~ShowsLastData /\ chip = "busy" /\ CutShort
    <3>1. /\ UNCHANGED <<op, sector, src, dest>> /\ chip' = "ready" /\ result' # 0
          /\ pc' = IF phase = 1 THEN "written" ELSE "erased"
      BY <1>14, <2>2, <2>4 DEF Repoll, Reset, EndsAs, LeaveWait, reqVars, progVars, loopVars
    <3>2. CASE op \in {"sector", "verify"} /\ phase = 1
      <4>1. /\ work = "program" /\ atSector = sector /\ atOffset = dest
            /\ sector \in Sectors /\ dest \in Offsets
        BY <1>14, <2>4, <3>2 DEF Repoll
      <4>2. PICK b : data' = Cleared(sector, dest, b)
        BY <2>4, <4>1 DEF CutShort
      <4>3. \A o \in 0..dest - 1 : data'[sector][o] = data[sector][o]
        BY <4>1, <4>2, GeometryAssumption DEF Cleared, With, Offsets
      <4>. QED
        BY <1>14, <3>1, <3>2, <4>3 DEF Repoll
    <3>3. CASE ~(op \in {"sector", "verify"} /\ phase = 1)
      BY <3>1, <3>3
    <3>. QED
      BY <3>2, <3>3
  <2>. QED
    BY <1>14, <2>3, <2>4 DEF Repoll, Reset
<1>15. CASE Repoll("timeout", TimedOut(phase))
  <2>1. ShowsLastData /\ phase = 1 => chip = "ready" /\ data[sector][dest] = src[dest]
    BY <1>15 DEF Repoll, ShowsLastData
  <2>2. phase \in 1..3 /\ Exceeded(phase) # 0 /\ TimedOut(phase) # 0
    BY <1>15, ResultValues DEF Repoll
  <2>3. CASE UNCHANGED data
    BY <1>15, <2>1, <2>2, <2>3
       DEF Repoll, Reset, EndsAs, LeaveWait, StopFlashTimer, libVars, chipVars, reqVars, progVars, loopVars
  <2>4. CASE ~ShowsLastData /\ chip = "busy" /\ CutShort
    <3>1. /\ UNCHANGED <<op, sector, src, dest>> /\ chip' = "ready" /\ result' # 0
          /\ pc' = IF phase = 1 THEN "written" ELSE "erased"
      BY <1>15, <2>2, <2>4 DEF Repoll, Reset, EndsAs, LeaveWait, reqVars, progVars, loopVars
    <3>2. CASE op \in {"sector", "verify"} /\ phase = 1
      <4>1. /\ work = "program" /\ atSector = sector /\ atOffset = dest
            /\ sector \in Sectors /\ dest \in Offsets
        BY <1>15, <2>4, <3>2 DEF Repoll
      <4>2. PICK b : data' = Cleared(sector, dest, b)
        BY <2>4, <4>1 DEF CutShort
      <4>3. \A o \in 0..dest - 1 : data'[sector][o] = data[sector][o]
        BY <4>1, <4>2, GeometryAssumption DEF Cleared, With, Offsets
      <4>. QED
        BY <1>15, <3>1, <3>2, <4>3 DEF Repoll
    <3>3. CASE ~(op \in {"sector", "verify"} /\ phase = 1)
      BY <3>1, <3>3
    <3>. QED
      BY <3>2, <3>3
  <2>. QED
    BY <1>15, <2>3, <2>4 DEF Repoll, Reset
<1>16. CASE TryErase
  BY <1>16 DEF TryErase, EraseAgain, libVars, chipVars, reqVars, progVars, tmrVars
<1>17. CASE EraseDone
  <2>1. pc' # "written" /\ chip = "ready" /\ UNCHANGED <<chip, op, phase>>
    BY <1>17 DEF EraseDone, Returns, chipVars, reqVars
  <2>2. pc' = "write" => dest' = 0
    BY <1>17 DEF EraseDone, Returns
  <2>3. pc' \in {"write", "try", "verify", "idle"}
    BY <1>17 DEF EraseDone, Returns
  <2>. QED
    BY <2>1, <2>2, <2>3
<1>18. CASE ProgramDone
  <2>1. CASE op = "byte" \/ result # 0
    BY <1>18, <2>1 DEF ProgramDone, Returns, libVars, chipVars, reqVars, progVars, tmrVars
  <2>2. CASE op # "byte" /\ result = 0
    <3>1. /\ dest' = dest + 1 /\ pc' # "written" /\ chip = "ready"
          /\ UNCHANGED <<data, chip, op, sector, src, phase>>
      BY <1>18, <2>2 DEF ProgramDone, Returns, chipVars, reqVars
    <3>2. \A o \in 0..dest : data[sector][o] = src[o]
      BY <1>18, <2>2 DEF ProgramDone, Offsets
    <3>. QED
      BY <2>2, <3>1, <3>2 DEF Offsets
  <2>. QED
    BY <2>1, <2>2
<1>19. CASE Verify
  BY <1>19, Geometry, Ranges
     DEF Verify, Returns, SwitchFlashBank, libVars, chipVars, reqVars, progVars,
         tmrVars
<1>20. CASE FlashTimerIntr
  BY <1>20 DEF FlashTimerIntr, libVars, chipVars, reqVars, progVars, loopVars
<1>21. CASE ChipCompletes
  <2>1. /\ chip = "busy" /\ chip' # "busy" /\ CarriedOut
        /\ UNCHANGED <<pc, op, sector, src, dest, phase, result>>
    BY <1>21 DEF ChipCompletes, EndsAs, reqVars, progVars, loopVars, progVars
  <2>2. CASE op \in {"sector", "verify"} /\ Waiting /\ phase = 1
    <3>1. /\ work = "program" /\ atSector = sector /\ atOffset = dest
          /\ sector \in Sectors /\ dest \in Offsets
      BY <2>1, <2>2
    <3>2. PICK b : data' = Cleared(sector, dest, b)
      BY <2>1, <3>1 DEF CarriedOut, CutShort
    <3>3. \A o \in 0..dest - 1 : data'[sector][o] = data[sector][o]
      BY <3>1, <3>2, GeometryAssumption DEF Cleared, With, Offsets
    <3>. QED
      BY <2>1, <2>2, <3>3
  <2>3. CASE ~(op \in {"sector", "verify"} /\ Waiting /\ phase = 1)
    BY <2>1, <2>3
  <2>. QED
    BY <2>2, <2>3
<1>22. CASE ChipFails
  <2>1. /\ chip = "busy" /\ chip' # "busy" /\ CutShort
        /\ UNCHANGED <<pc, op, sector, src, dest, phase, result>>
    BY <1>22 DEF ChipFails, EndsAs, reqVars, progVars, loopVars, progVars
  <2>2. CASE op \in {"sector", "verify"} /\ Waiting /\ phase = 1
    <3>1. /\ work = "program" /\ atSector = sector /\ atOffset = dest
          /\ sector \in Sectors /\ dest \in Offsets
      BY <2>1, <2>2
    <3>2. PICK b : data' = Cleared(sector, dest, b)
      BY <2>1, <3>1 DEF CarriedOut, CutShort
    <3>3. \A o \in 0..dest - 1 : data'[sector][o] = data[sector][o]
      BY <3>1, <3>2, GeometryAssumption DEF Cleared, With, Offsets
    <3>. QED
      BY <2>1, <2>2, <3>3
  <2>3. CASE ~(op \in {"sector", "verify"} /\ Waiting /\ phase = 1)
    BY <2>1, <2>3
  <2>. QED
    BY <2>2, <2>3
<1>23. CASE PowerLoss
  BY <1>23 DEF PowerLoss, EndsAs
<1>24. CASE UNCHANGED vars
  BY <1>24 DEF vars, libVars, chipVars, reqVars, progVars, loopVars, tmrVars
<1>. QED
  BY <1>1, <1>2, <1>3, <1>4, <1>5, <1>6, <1>7, <1>8, <1>9, <1>10, <1>11, <1>12,
     <1>13, <1>14, <1>15, <1>16, <1>17, <1>18, <1>19, <1>20, <1>21, <1>22, <1>23,
     <1>24
     DEF Next, Setups, Calls, Steps

\* The strengthened invariant holds.
LEMMA StoreInvariance == ASSUME ResetAborts, ~Worn PROVE Spec => []StoreInv
<1>1. Init => TargetPart /\ ErasePart /\ ErasedMeansErased /\ ChipPart /\ ProgramPart
  BY DEF Init, TargetPart, ErasePart, ErasedMeansErased, ChipPart, ProgramPart, Waiting
<1>2. StoreInv /\ [Next]_vars =>
        TargetPart' /\ ErasePart' /\ ErasedMeansErased' /\ ChipPart' /\ ProgramPart'
  BY TargetStep, EraseStep, ErasedStep, ChipStep, ProgramStep DEF StoreInv, EraseInv
<1>. QED
  BY <1>1, <1>2, Invariance, PTL DEF Spec, StoreInv, EraseInv, TargetInv

\* A step inside a request: its sector may change, no other does.
LEMMA WorkStep ==
  ASSUME OnlyTargetChange, TypeOK, TypeOK', pc # "idle", pc' # "idle",
         UNCHANGED <<reqVars, ret>>, op = "byte" => dest' = dest
  PROVE  Save!Work
<1>1. Running = 1 /\ Running' = 1 /\ UNCHANGED <<op, sector, src, n, Outcome, At>>
  BY DEF Running, Outcome, At, reqVars
<1>2. data' \in [Sectors -> Content]
  BY DEF TypeOK, ChipTypes
<1>3. Save!OthersKept
  BY DEF Save!OthersKept, OnlyTargetChange
<1>. QED
  BY <1>1, <1>2, <1>3 DEF Save!Work, Save!request

\* A request begins.
LEMMA BeginStep ==
  ASSUME TypeOK, TypeOK', pc = "idle", pc' # "idle", op' # "none", ret' = NoResult, UNCHANGED data
  PROVE  Save!Begin
<1>1. Running = 0 /\ Running' = 1 /\ Outcome' = "none"
  BY DEF Running, Outcome
<1>2. /\ op' \in Save!Kinds /\ sector' \in Nat /\ src' \in Content /\ n' \in Nat
      /\ dest' \in Nat
  BY Ranges, GeometryAssumption DEF TypeOK, ProgramTypes, Save!Kinds
<1>3. At' \in Nat
  BY <1>2 DEF At
<1>. QED
  BY <1>1, <1>2, <1>3 DEF Save!Begin

\* A request ends, having done what it was asked for if it reports success.
LEMMA FinishStep ==
  ASSUME TypeOK', pc # "idle", pc' = "idle", ret' # NoResult, UNCHANGED <<data, reqVars>>,
         op = "byte" => dest' = dest, ret' = 0 => Save!Done
  PROVE  Save!Finish
<1>1. Running = 1 /\ Running' = 0 /\ Outcome' \in {"ok", "failed"} /\ (Outcome' = "ok" => ret' = 0)
  BY DEF Running, Outcome
<1>2. UNCHANGED <<op, sector, src, n, At>>
  BY DEF At, reqVars
<1>. QED
  BY <1>1, <1>2 DEF Save!Finish, Save!request

\* Nothing the program sees changes.
LEMMA HiddenStep ==
  ASSUME UNCHANGED <<data, pc, reqVars, dest, ret>>
  PROVE  UNCHANGED Save!vars
BY DEF Save!vars, Save!request, Running, Outcome, At, reqVars

\* Every step of the library is a step of the store, or hidden.
LEMMA RefineStep ==
  ASSUME ResetAborts, ~Worn PROVE StoreInv /\ TypeOK' /\ [Next]_vars => [Save!Next]_Save!vars
<1> SUFFICES ASSUME StoreInv, TypeOK', [Next]_vars PROVE [Save!Next]_Save!vars
  OBVIOUS
<1> DEFINE Goal ==
             Save!Begin \/ Save!Work \/ Save!Finish \/ Save!PowerFailure \/ UNCHANGED Save!vars
<1> SUFFICES Goal
  BY DEF Save!Next
<1>0. OnlyTargetChange
  <2>1. TargetInv
    BY DEF StoreInv, EraseInv
  <2>2. [OnlyTargetChange]_vars
    BY <2>1, TargetOnly
  <2>3. UNCHANGED vars => OnlyTargetChange
    BY DEF vars, OnlyTargetChange
  <2>. QED
    BY <2>2, <2>3
<1> USE DEF StoreInv, EraseInv, TargetInv, IInv, TypeOK, RequestPart, ProgramTypes,
           ChipTypes, TargetPart, Waiting, ChipPart, ErasePart, ProgramPart
<1>1. CASE IdentifyFlash
  <2>1. UNCHANGED <<data, pc, reqVars, dest, ret>>
    BY <1>1 DEF IdentifyFlash, Reset, reqVars, progVars, loopVars
  <2>. QED
    BY <2>1, HiddenStep
<1>2. CASE \E timerNum \in {0, 4} : SetFlashTimerIntr(timerNum)
  <2>1. UNCHANGED <<data, pc, reqVars, dest, ret>>
    BY <1>2 DEF SetFlashTimerIntr, reqVars, progVars, loopVars
  <2>. QED
    BY <2>1, HiddenStep
<1>3. CASE \E value \in ImeValues : SetIme(value)
  <2>1. UNCHANGED <<data, pc, reqVars, dest, ret>>
    BY <1>3 DEF SetIme, reqVars, progVars, loopVars
  <2>. QED
    BY <2>1, HiddenStep
<1>4. CASE \E s \in Sectors : ReadFlash(s)
  <2>1. UNCHANGED <<data, pc, reqVars, dest, ret>>
    BY <1>4 DEF ReadFlash, reqVars, progVars, loopVars
  <2>. QED
    BY <2>1, HiddenStep
<1>5. CASE EraseFlashChip
  <2>1. pc = "idle" /\ pc' # "idle" /\ op' # "none" /\ ret' = NoResult /\ UNCHANGED data
    BY <1>5 DEF EraseFlashChip, Request, StartFlashTimer
  <2>. QED
    BY <2>1, BeginStep
<1>6. CASE \E s \in 0..SectorCount : EraseFlashSector(s)
  <2>1. pc = "idle" /\ pc' # "idle" /\ op' # "none" /\ ret' = NoResult /\ UNCHANGED data
    BY <1>6 DEF EraseFlashSector, Request
  <2>. QED
    BY <2>1, BeginStep
<1>7. CASE \E s \in Sectors, o \in 0..SectorSize, c \in Sources : ProgramFlashByte(s, o, c)
  <2>1. pc = "idle" /\ pc' # "idle" /\ op' # "none" /\ ret' = NoResult /\ UNCHANGED data
    BY <1>7 DEF ProgramFlashByte, Request
  <2>. QED
    BY <2>1, BeginStep
<1>8. CASE \E s \in 0..SectorCount, c \in Sources :
            \/ ProgramFlashSector("sector", s, c, 0)
            \/ \E length \in Lengths : ProgramFlashSector("verify", s, c, length)
  <2>1. pc = "idle" /\ pc' # "idle" /\ op' # "none" /\ ret' = NoResult /\ UNCHANGED data
    BY <1>8 DEF ProgramFlashSector, Request
  <2>. QED
    BY <2>1, BeginStep
<1>9. CASE EraseEntry
  <2>1. pc # "idle" /\ UNCHANGED <<data, reqVars>> /\ (op = "byte" => dest' = dest)
    BY <1>9 DEF EraseEntry, Returns, reqVars, progVars, loopVars
  <2>2. pc' # "idle" => UNCHANGED ret
    BY <1>9 DEF EraseEntry, Returns, reqVars, progVars, loopVars
  <2>3. ASSUME pc' = "idle" PROVE ret' # NoResult /\ (ret' = 0 => Save!Done)
    BY <1>9, <2>3, ResultValues DEF EraseEntry, Returns
  <2>. QED
    BY <1>0, <2>1, <2>2, <2>3, WorkStep, FinishStep
<1>10. CASE Erase
  <2>1. /\ pc # "idle" /\ pc' # "idle" /\ UNCHANGED <<reqVars, ret>>
        /\ op = "byte" => dest' = dest
    BY <1>10 DEF Erase, StartFlashTimer, reqVars, progVars, loopVars
  <2>. QED
    BY <1>0, <2>1, WorkStep
<1>11. CASE Program
  <2>1. /\ pc # "idle" /\ pc' # "idle" /\ UNCHANGED <<reqVars, ret>>
        /\ op = "byte" => dest' = dest
    BY <1>11 DEF Program, StartFlashTimer, reqVars, progVars, loopVars
  <2>. QED
    BY <1>0, <2>1, WorkStep
<1>12. CASE Poll
  <2>1. /\ pc # "idle" /\ pc' # "idle" /\ UNCHANGED <<reqVars, ret>>
        /\ op = "byte" => dest' = dest
    BY <1>12 DEF Poll, LeaveWait, reqVars, progVars, loopVars
  <2>. QED
    BY <1>0, <2>1, WorkStep
<1>13. CASE TestFlag
  <2>1. /\ pc # "idle" /\ pc' # "idle" /\ UNCHANGED <<reqVars, ret>>
        /\ op = "byte" => dest' = dest
    BY <1>13 DEF TestFlag, reqVars, progVars, loopVars
  <2>. QED
    BY <1>0, <2>1, WorkStep
<1>14. CASE Repoll("exceeded", Exceeded(phase))
  <2>1. /\ pc # "idle" /\ pc' # "idle" /\ UNCHANGED <<reqVars, ret>>
        /\ op = "byte" => dest' = dest
    BY <1>14 DEF Repoll, LeaveWait, reqVars, progVars, loopVars
  <2>. QED
    BY <1>0, <2>1, WorkStep
<1>15. CASE Repoll("timeout", TimedOut(phase))
  <2>1. /\ pc # "idle" /\ pc' # "idle" /\ UNCHANGED <<reqVars, ret>>
        /\ op = "byte" => dest' = dest
    BY <1>15 DEF Repoll, LeaveWait, reqVars, progVars, loopVars
  <2>. QED
    BY <1>0, <2>1, WorkStep
<1>16. CASE TryErase
  <2>1. /\ pc # "idle" /\ pc' # "idle" /\ UNCHANGED <<reqVars, ret>>
        /\ op = "byte" => dest' = dest
    BY <1>16 DEF TryErase, reqVars, progVars, loopVars
  <2>. QED
    BY <1>0, <2>1, WorkStep
<1>17. CASE EraseDone
  <2>1. pc # "idle" /\ UNCHANGED <<data, reqVars>> /\ (op = "byte" => dest' = dest)
    BY <1>17 DEF EraseDone, Returns, reqVars, progVars, loopVars
  <2>2. pc' # "idle" => UNCHANGED ret
    BY <1>17 DEF EraseDone, Returns, reqVars, progVars, loopVars
  <2>3. ASSUME pc' = "idle" PROVE ret' # NoResult /\ (ret' = 0 => Save!Done)
    <3>1. ret' = result /\ ret' # NoResult
      BY <1>17, <2>3, ResultValues DEF EraseDone, Returns
    <3>2. ASSUME result = 0 PROVE op \in {"chip", "erase"}
      BY <1>17, <2>3, <3>2 DEF EraseDone, Returns
    <3>3. ASSUME result = 0, op = "chip" PROVE Save!Done
      BY <1>17, <3>3 DEF EraseDone, Save!Done
    <3>4. ASSUME result = 0, op = "erase" PROVE Save!Done
      BY <1>17, <3>4 DEF EraseDone, Save!Done
    <3>. QED
      BY <3>1, <3>2, <3>3, <3>4
  <2>. QED
    BY <1>0, <2>1, <2>2, <2>3, WorkStep, FinishStep
<1>18. CASE ProgramDone
  <2>1. pc # "idle" /\ UNCHANGED <<data, reqVars>> /\ (op = "byte" => dest' = dest)
    BY <1>18 DEF ProgramDone, Returns, reqVars, progVars, loopVars
  <2>2. pc' # "idle" => UNCHANGED ret
    BY <1>18 DEF ProgramDone, Returns, reqVars, progVars, loopVars
  <2>3. ASSUME pc' = "idle" PROVE ret' # NoResult /\ (ret' = 0 => Save!Done)
    <3>1. ret' \in {0, result} /\ ret' # NoResult
      BY <1>18, <2>3, ResultValues DEF ProgramDone, Returns
    <3>2. ASSUME ret' = 0 PROVE result = 0 /\ op \in {"byte", "sector"}
      BY <1>18, <2>3, <3>2 DEF ProgramDone, Returns
    <3>3. ASSUME result = 0, op = "byte" PROVE Save!Done
      <4>1. sector \in Sectors /\ dest \in Offsets /\ data[sector][dest] = src[dest] /\ At = dest
        BY <1>18, <3>3 DEF ProgramDone, At
      <4>. QED
        BY <3>3, <4>1 DEF Save!Done
    <3>4. ASSUME result = 0, op = "sector" PROVE Save!Done
      <4>1. sector \in Sectors /\ data[sector] \in Content /\ src \in Content
        BY <1>18, <3>4 DEF ProgramDone
      <4>2. dest = SectorSize - 1
        BY <1>18, <2>3, <3>4, GeometryAssumption DEF ProgramDone, Returns, Offsets
      <4>3. \A o \in Offsets : data[sector][o] = src[o]
        BY <1>18, <3>4, <4>2, GeometryAssumption DEF ProgramDone, Offsets
      <4>4. data[sector] = src
        BY <4>1, <4>3 DEF Content
      <4>. QED
        BY <3>4, <4>1, <4>4 DEF Save!Done
    <3>. QED
      BY <3>1, <3>2, <3>3, <3>4
  <2>. QED
    BY <1>0, <2>1, <2>2, <2>3, WorkStep, FinishStep
<1>19. CASE Verify
  <2>1. pc # "idle" /\ UNCHANGED <<data, reqVars>> /\ (op = "byte" => dest' = dest)
    BY <1>19 DEF Verify, Returns, reqVars, progVars, loopVars
  <2>2. pc' # "idle" => UNCHANGED ret
    BY <1>19 DEF Verify, Returns, reqVars, progVars, loopVars
  <2>3. ASSUME pc' = "idle" PROVE ret' # NoResult /\ (ret' = 0 => Save!Done)
    <3>1. op = "verify" /\ sector \in Sectors /\ chip = "ready"
      BY <1>19 DEF Verify
    <3>2. Addressed(sector, bank') = sector
      BY <1>19, <3>1, Geometry DEF Verify, SwitchFlashBank
    <3>3. ret' # NoResult /\ (ret' = 0 => Matches(sector))
      BY <1>19, <2>3, <3>2, ResultValues DEF Verify, Returns
    <3>4. ASSUME Matches(sector) PROVE Save!Done
      BY <3>1, <3>4, GeometryAssumption DEF Matches, Save!Done, Offsets
    <3>. QED
      BY <3>3, <3>4
  <2>. QED
    BY <1>0, <2>1, <2>2, <2>3, WorkStep, FinishStep
<1>20. CASE FlashTimerIntr
  <2>1. /\ pc # "idle" /\ pc' # "idle" /\ UNCHANGED <<reqVars, ret>>
        /\ op = "byte" => dest' = dest
    BY <1>20 DEF FlashTimerIntr, TimerPart, reqVars, progVars, loopVars
  <2>. QED
    BY <1>0, <2>1, WorkStep
<1>21. CASE ChipCompletes
  <2>1. /\ pc # "idle" /\ pc' # "idle" /\ UNCHANGED <<reqVars, ret>>
        /\ op = "byte" => dest' = dest
    BY <1>21 DEF ChipCompletes, reqVars, progVars, loopVars
  <2>. QED
    BY <1>0, <2>1, WorkStep
<1>22. CASE ChipFails
  <2>1. /\ pc # "idle" /\ pc' # "idle" /\ UNCHANGED <<reqVars, ret>>
        /\ op = "byte" => dest' = dest
    BY <1>22 DEF ChipFails, reqVars, progVars, loopVars
  <2>. QED
    BY <1>0, <2>1, WorkStep
<1>23. CASE PowerLoss
  <2>1. Running' = 0 /\ Outcome' = "none" /\ At' = 0
    BY <1>23 DEF PowerLoss, Running, Outcome, At
  <2>2. op' = "none" /\ sector' = 0 /\ src' = Erased /\ n' = 0
    BY <1>23 DEF PowerLoss
  <2>3. CASE pc = "idle"
    BY <1>23, <2>1, <2>2, <2>3 DEF PowerLoss, Save!PowerFailure, Running
  <2>4. CASE pc # "idle"
    <3>1. Save!OthersKept
      BY <1>0 DEF Save!OthersKept, OnlyTargetChange
    <3>2. Running = 1
      BY <2>4 DEF Running
    <3>. QED
      BY <2>1, <2>2, <3>1, <3>2 DEF Save!PowerFailure
  <2>. QED
    BY <2>3, <2>4
<1>24. CASE UNCHANGED vars
  <2>1. UNCHANGED <<data, pc, reqVars, dest, ret>>
    BY <1>24 DEF vars, progVars, loopVars
  <2>. QED
    BY <2>1, HiddenStep
<1>. QED
  BY <1>1, <1>2, <1>3, <1>4, <1>5, <1>6, <1>7, <1>8, <1>9, <1>10, <1>11, <1>12,
     <1>13, <1>14, <1>15, <1>16, <1>17, <1>18, <1>19, <1>20, <1>21, <1>22, <1>23,
     <1>24
     DEF Next, Setups, Calls, Steps

\* On a sound chip the library implements the store: whatever banks, polls,
\* time-outs and retries do inside, a request that reports success has been
\* carried out and no other sector is touched.
THEOREM LibraryIsStore == ASSUME ResetAborts, ~Worn PROVE Spec => ImplementsStore
<1>1. Init => Save!Init
  BY DEF Init, Save!Init, Running, Outcome, At, NoResult
<1>2. StoreInv /\ StoreInv' /\ [Next]_vars => [Save!Next]_Save!vars
  BY RefineStep DEF StoreInv, EraseInv, TargetInv, IInv
<1>. QED
  BY <1>1, <1>2, StoreInvariance, PTL DEF Spec, ImplementsStore, Save!Spec

=============================================================================
