------------------------------ MODULE AgbPrint ------------------------------
(***************************************************************************)
(* The debug print ring of libisagbprn.                                    *)
(*                                                                         *)
(* AGBPutc appends a byte to a ring in the write-protected cartridge       *)
(* space, two bytes to a halfword and read-modify-write; AGBPrintFlush     *)
(* hands blocks of it to the debugger.  Printing runs with interrupts      *)
(* enabled and its own WAITCNT, flushing with interrupts disabled; each of *)
(* the three nested routines saves the registers and puts them back.       *)
(*                                                                         *)
(* A character is identified by its number, so the order of delivery can   *)
(* be told.  The debugger's flush routine is external: a call moves some   *)
(* of the pending bytes, at least one, from m_nGet on.                     *)
(***************************************************************************)
EXTENDS Integers

CONSTANTS
  RingSize,      \* bytes of the ring; m_nPut and m_nGet count modulo RingSize
  MaxText,       \* longest text printed by one call
  MaxPrinted,    \* bound: characters printed in a behaviour
  HandlerPoints \* where in the program an interrupt handler that prints may fall

ASSUME RingSizeAssumption == RingSize \in Nat /\ RingSize % 2 = 0 /\ RingSize >= 4
ASSUME BoundsAssumption   == MaxText \in Nat /\ MaxPrinted \in Nat

\* Places in the code.  From the read of the halfword to the check for a full
\* ring (AGBPutc) the ring is in the program's hands.
SafePoints   == {"idle", "loop", "enter"}
PutcPoints   == {"open", "write", "advance", "close", "check"}
FlushPoints  == {"flush", "flushed"}
ASSUME PointsAssumption == HandlerPoints \subseteq SafePoints \union PutcPoints

VARIABLES
  mem, m_nPut, m_nGet,    \* the ring and struct AGBPrintStruct
  pProtect, pWSCNT, pIME, \* cartridge write protection, WAITCNT and IME
  nOldWSCNT, putcWSCNT, flushWSCNT, nIME, \* saved by AGBPrint, AGBPutc, the flush
  nLo, nHi,               \* the halfword AGBPutcInternal has read
  pc, op, left, bAllData, \* where the program is, in which call, with what left to do
  appWSCNT, appIME,       \* history: the program's own settings of WAITCNT and IME
  printed, got, inOrder   \* history: characters printed, taken, and taken in order

ringVars  == <<mem, m_nPut, m_nGet>>
regVars   == <<pWSCNT, pIME>>
savedVars == <<nOldWSCNT, putcWSCNT, flushWSCNT, nIME>>
callVars  == <<op, left, bAllData>>
appVars   == <<appWSCNT, appIME>>
histVars  == <<printed, got, inOrder>>
vars == <<ringVars, pProtect, regVars, savedVars, nLo, nHi, pc, callVars, appVars, histVars>>

Cells == 0..RingSize - 1
NoChar == -1

\* u16 arithmetic on ring positions below 2 * RingSize.
Wrap(i) == IF i >= RingSize THEN i - RingSize ELSE i
Pending == IF m_nPut >= m_nGet THEN m_nPut - m_nGet ELSE m_nPut - m_nGet + RingSize

\* WSCNT_DATA, against the two settings the program uses.
WSCNT_DATA  == 2
WaitStates  == {0, 1}
AllWaits    == WaitStates \union {WSCNT_DATA}
Open        == 32

TypeOK ==
  /\ m_nPut \in Cells /\ m_nGet \in Cells
  /\ mem \in [Cells -> Nat \union {NoChar}]
  /\ pProtect \in {0, Open} /\ pWSCNT \in AllWaits /\ pIME \in {0, 1}
  /\ nOldWSCNT \in AllWaits /\ putcWSCNT \in AllWaits /\ flushWSCNT \in AllWaits
  /\ nIME \in {0, 1}
  /\ nLo \in Nat \union {NoChar} /\ nHi \in Nat \union {NoChar}
  /\ pc \in SafePoints \union PutcPoints \union FlushPoints \union {"stopped"}
  /\ op \in {"none", "putc", "print", "assert", "flush", "halt"}
  /\ left \in 0..MaxText /\ bAllData \in {0, 1}
  /\ appWSCNT \in WaitStates /\ appIME \in {0, 1}
  /\ printed \in Nat /\ got \in Nat /\ inOrder \in {0, 1}

\* After AGBPrintInit.
Init ==
  /\ mem = [i \in Cells |-> NoChar] /\ m_nPut = 0 /\ m_nGet = 0
  /\ pProtect = 0 /\ pWSCNT = 0 /\ pIME = 1
  /\ nOldWSCNT = 0 /\ putcWSCNT = 0 /\ flushWSCNT = 0 /\ nIME = 0
  /\ nLo = NoChar /\ nHi = NoChar
  /\ pc = "idle" /\ op = "none" /\ left = 0 /\ bAllData = 0
  /\ appWSCNT = 0 /\ appIME = 1
  /\ printed = 0 /\ got = 0 /\ inOrder = 1

-----------------------------------------------------------------------------
(***************************************************************************)
(* The program between two calls.                                          *)
(***************************************************************************)
AGBPrintInit ==
  /\ pc = "idle"
  /\ m_nPut' = 0 /\ m_nGet' = 0
  /\ pProtect' = 0
  /\ got' = printed
  /\ UNCHANGED <<mem, regVars, savedVars, nLo, nHi, pc, callVars, appVars, printed, inOrder>>

SetRegisters(wait, ime) ==
  /\ pc = "idle"
  /\ pWSCNT' = wait /\ appWSCNT' = wait
  /\ pIME' = ime /\ appIME' = ime
  /\ UNCHANGED <<ringVars, pProtect, savedVars, nLo, nHi, pc, callVars, histVars>>

-----------------------------------------------------------------------------
(***************************************************************************)
(* Printing.                                                               *)
(***************************************************************************)

\* A direct call of AGBPutc.
AGBPutc ==
  /\ pc = "idle" /\ printed < MaxPrinted
  /\ pc' = "enter" /\ op' = "putc"
  /\ UNCHANGED <<ringVars, pProtect, regVars, savedVars, nLo, nHi, left, bAllData, appVars,
                 histVars>>

\* AGBPrint, from the program, from AGBPrintf, or from AGBAssert.
AGBPrint(call, length) ==
  /\ pc = "idle" /\ printed + length <= MaxPrinted
  /\ nOldWSCNT' = pWSCNT /\ pWSCNT' = WSCNT_DATA
  /\ left' = length /\ op' = call /\ pc' = "loop"
  /\ UNCHANGED <<ringVars, pProtect, pIME, putcWSCNT, flushWSCNT, nIME, nLo, nHi, bAllData, appVars,
                 histVars>>

PrintChar_NoAdvance ==
  /\ pc = "loop" /\ left > 0 /\ printed < MaxPrinted
  /\ pc' = "enter"
  /\ UNCHANGED <<ringVars, pProtect, regVars, savedVars, nLo, nHi, callVars, appVars,
                 histVars>>
PrintChar ==
  /\ pc = "loop" /\ left > 0
  /\ left' = left - 1 /\ pc' = "enter"
  /\ UNCHANGED <<ringVars, pProtect, regVars, savedVars, nLo, nHi, op, bAllData, appVars,
                 histVars>>

\* Interrupts off and WAITCNT set, with what they were saved.
FlushEntry_SavesLate(wait, all) ==
  /\ pc' = "flush" /\ bAllData' = all
  /\ nIME' = 0 /\ pIME' = 0
  /\ flushWSCNT' = wait /\ pWSCNT' = WSCNT_DATA
FlushEntry(wait, all) ==
  /\ pc' = "flush" /\ bAllData' = all
  /\ nIME' = pIME /\ pIME' = 0
  /\ flushWSCNT' = wait /\ pWSCNT' = WSCNT_DATA

\* A failed assertion flushes all of the ring before it stops the program.
AssertFlush          == op' = "halt" /\ FlushEntry(nOldWSCNT, 1)

PrintDone ==
  /\ pc = "loop" /\ left = 0
  /\ \/ op = "assert" /\ AssertFlush
     \/ /\ op = "print"
        /\ pWSCNT' = nOldWSCNT
        /\ pc' = "idle" /\ op' = "none"
        /\ UNCHANGED <<bAllData, pIME, flushWSCNT, nIME>>
  /\ UNCHANGED <<ringVars, pProtect, nOldWSCNT, putcWSCNT, nLo, nHi, left, appVars,
                 histVars>>

\* AGBPutc and AGBPutcInternal, one memory access after the other.  The
\* halfword at m_nPut / 2 holds the bytes Even(m_nPut) and Even(m_nPut) + 1.
Even(i) == 2 * (i \div 2)

PutcEnter ==
  /\ pc = "enter"
  /\ putcWSCNT' = pWSCNT /\ pWSCNT' = WSCNT_DATA
  /\ nLo' = mem[Even(m_nPut)] /\ nHi' = mem[Even(m_nPut) + 1]
  /\ pc' = "open"
  /\ UNCHANGED <<ringVars, pProtect, pIME, nOldWSCNT, flushWSCNT, nIME, callVars, appVars, histVars>>

PutcOpen ==
  /\ pc = "open"
  /\ pProtect' = Open
  /\ pc' = "write"
  /\ UNCHANGED <<ringVars, regVars, savedVars, nLo, nHi, callVars, appVars, histVars>>

\* The ring with the halfword at m_nPut / 2 written: the character in its
\* half, the other half as read before.
Stored_WholeHalfword(char, lo, hi) == [mem EXCEPT ![Even(m_nPut)] = char, ![Even(m_nPut) + 1] = char]
Stored(char, lo, hi) ==
  [i \in Cells |-> IF i = m_nPut THEN char
                   ELSE IF i = Even(m_nPut) THEN lo
                   ELSE IF i = Even(m_nPut) + 1 THEN hi
                   ELSE mem[i]]

\* Writes to the cartridge are dropped unless it is open.
PutcWrite ==
  /\ pc = "write"
  /\ mem' = IF pProtect = Open THEN Stored(printed, nLo, nHi) ELSE mem
  /\ pc' = "advance"
  /\ UNCHANGED <<m_nPut, m_nGet, pProtect, regVars, savedVars, nLo, nHi, callVars, appVars, histVars>>

PutcAdvance ==
  /\ pc = "advance"
  /\ m_nPut' = IF pProtect = Open THEN Wrap(m_nPut + 1) ELSE m_nPut
  /\ printed' = printed + 1
  /\ pc' = "close"
  /\ UNCHANGED <<mem, m_nGet, pProtect, regVars, savedVars, nLo, nHi, callVars, appVars, got, inOrder>>

PutcClose ==
  /\ pc = "close"
  /\ pProtect' = 0
  /\ pWSCNT' = putcWSCNT
  /\ pc' = "check"
  /\ UNCHANGED <<ringVars, pIME, savedVars, nLo, nHi, callVars, appVars, histVars>>

\* The ring is full when one cell is left.
Full_NoSpare(put, get) == put = get
Full(put, get) == put = IF get = 0 THEN RingSize - 1 ELSE get - 1

\* AGBPutc and the flush return to AGBPrint, to the program, or to the
\* assertion that stops it.
Return ==
  \/ op \in {"print", "assert"} /\ pc' = "loop" /\ UNCHANGED op
  \/ op \in {"putc", "flush"} /\ pc' = "idle" /\ op' = "none"
  \/ op = "halt" /\ pc' = "stopped" /\ UNCHANGED op

\* AGBPutc flushes one block, or returns.
PutcCheck ==
  /\ pc = "check"
  /\ \/ /\ Full(m_nPut, m_nGet)
        /\ FlushEntry(pWSCNT, 0)
        /\ UNCHANGED op
     \/ /\ ~Full(m_nPut, m_nGet)
        /\ Return
        /\ UNCHANGED <<bAllData, regVars, flushWSCNT, nIME>>
  /\ UNCHANGED <<ringVars, pProtect, nOldWSCNT, putcWSCNT, nLo, nHi, left, appVars, histVars>>

-----------------------------------------------------------------------------
(***************************************************************************)
(* Flushing: AGBPrintTransferDataInternal.                                 *)
(***************************************************************************)
AGBPrintFlush(all) ==
  /\ pc = "idle"
  /\ op' = "flush" /\ FlushEntry(pWSCNT, all)
  /\ UNCHANGED <<ringVars, pProtect, nOldWSCNT, putcWSCNT, nLo, nHi, left, appVars, histVars>>

\* lpfnFuncFlush takes n characters from the ring, whose contents are given.
TakenFrom(ring, n) ==
  /\ m_nGet' = Wrap(m_nGet + n)
  /\ got' = got + n
  /\ inOrder' = IF \A k \in 0..n - 1 : ring[Wrap(m_nGet + k)] = got + k THEN inOrder ELSE 0

\* One call of it, between opening and closing the cartridge.
FlushBlock(n) ==
  /\ pc = "flush" /\ m_nPut # m_nGet /\ n <= Pending
  /\ TakenFrom(mem, n)
  /\ pProtect' = 0
  /\ pc' = IF bAllData = 1 THEN "flush" ELSE "flushed"
  /\ UNCHANGED <<mem, m_nPut, regVars, savedVars, nLo, nHi, callVars, appVars, printed>>

FlushDone ==
  /\ \/ pc = "flushed"
     \/ pc = "flush" /\ m_nPut = m_nGet
  /\ pWSCNT' = flushWSCNT /\ pIME' = nIME
  /\ Return
  /\ UNCHANGED <<ringVars, pProtect, savedVars, nLo, nHi, left, bAllData, appVars, histVars>>

-----------------------------------------------------------------------------
(***************************************************************************)
(* An interrupt handler that prints a character: all of AGBPutc, between   *)
(* two steps of the program.  It restores WAITCNT and IME, but it advances *)
(* the ring under the program's feet and closes the cartridge.             *)
(***************************************************************************)
HandlerPutc(n) ==
  LET put == Wrap(m_nPut + 1)
  IN /\ pIME = 1 /\ pc \in HandlerPoints /\ printed < MaxPrinted
     /\ printed' = printed + 1
     /\ mem' = Stored(printed, mem[Even(m_nPut)], mem[Even(m_nPut) + 1])
     /\ m_nPut' = put
     /\ \/ Full(put, m_nGet) /\ TakenFrom(mem', n)
        \/ ~Full(put, m_nGet) /\ n = 1 /\ UNCHANGED <<m_nGet, got, inOrder>>
     /\ pProtect' = 0
     /\ UNCHANGED <<regVars, savedVars, nLo, nHi, pc, callVars, appVars>>

Calls ==
  \/ AGBPrintInit
  \/ \E wait \in WaitStates, ime \in {0, 1} : SetRegisters(wait, ime)
  \/ AGBPutc
  \/ \E call \in {"print", "assert"}, length \in 0..MaxText : AGBPrint(call, length)
  \/ \E all \in {0, 1} : AGBPrintFlush(all)

Steps ==
  \/ PrintChar \/ PrintDone
  \/ PutcEnter \/ PutcOpen \/ PutcWrite \/ PutcAdvance \/ PutcClose \/ PutcCheck
  \/ \E n \in 1..RingSize - 1 : FlushBlock(n)
  \/ FlushDone

Next == Calls \/ Steps \/ \E n \in 1..RingSize - 1 : HandlerPutc(n)

\* The processor keeps executing a call it has begun.
Spec == Init /\ [][Next]_vars /\ WF_vars(Steps)

-----------------------------------------------------------------------------
(***************************************************************************)
(* Properties.                                                             *)
(***************************************************************************)

\* Between two calls WAITCNT and IME are what the program set and the
\* cartridge is closed, however AGBPrint, AGBPutc, the flush and the handlers
\* nested.
RegistersRestored ==
  pc = "idle" => pWSCNT = appWSCNT /\ pIME = appIME /\ pProtect = 0

\* The debugger takes the characters in the order they were printed, none
\* lost, repeated or overwritten by its neighbour in the halfword.
DeliveredInOrder == inOrder = 1

\* A character is in the ring until the debugger takes it: the writer never
\* laps the reader, and a ring that looks empty is.
NothingLost == pc = "idle" => Pending = printed - got

\* When a failed assertion stops the program, everything printed before it
\* has reached the debugger.
AssertDelivered == pc = "stopped" => got = printed /\ inOrder = 1

\* Every call returns or stops the program; the loop of AGBPrintFlush ends.
CallsEnd == pc # "idle" ~> pc \in {"idle", "stopped"}

-----------------------------------------------------------------------------
(***************************************************************************)
(* The inductive invariants behind them.                                   *)
(***************************************************************************)

\* WAITCNT outside AGBPutc: the program's, or AGBPrint's while it runs.
OuterWait == IF op \in {"print", "assert"} THEN WSCNT_DATA ELSE appWSCNT

\* Who called, and what is saved where.
SavedPart ==
  /\ pc = "idle" <=> op = "none"
  /\ pc = "loop" => op \in {"print", "assert"}
  /\ pc \in {"enter"} \union PutcPoints => op \in {"putc", "print", "assert"}
  /\ op \in {"print", "assert"} => nOldWSCNT = appWSCNT
  /\ pc \in {"idle", "loop", "enter", "check"} => pWSCNT = OuterWait
  /\ pc \in {"open", "write", "advance", "close"} => putcWSCNT = OuterWait
  /\ pc \in FlushPoints => flushWSCNT = OuterWait /\ nIME = appIME /\ pIME = 0
  /\ pc \notin FlushPoints => pIME = appIME
  /\ pc \notin {"write", "advance", "close"} => pProtect = 0
  /\ pc \in FlushPoints /\ op = "halt" => pc = "flush" /\ bAllData = 1

Count == printed - got

\* Where the characters are, and what the program holds of them.
RingPart ==
  /\ Count \in 0..RingSize - 1
  /\ m_nPut = Wrap(m_nGet + Count)
  /\ pc \notin {"close", "check", "flush"} => Count <= RingSize - 2
  /\ pc \in {"write", "advance"} => pProtect = Open
  /\ pc \in {"open", "write"} => nLo = mem[Even(m_nPut)] /\ nHi = mem[Even(m_nPut) + 1]
  /\ pc = "advance" => mem[m_nPut] = printed
  /\ \A k \in 0..Count - 1 : mem[Wrap(m_nGet + k)] = got + k
  /\ inOrder = 1
  /\ pc = "stopped" => Count = 0

RegisterInv == TypeOK /\ SavedPart
RingInv     == RegisterInv /\ RingPart
=============================================================================
