------------------------------- MODULE SiiRtc -------------------------------
(***************************************************************************)
(* The real-time clock driver (siirtc).  A transaction with the S-3511A    *)
(* is clocked bit by bit over three GPIO lines: the command with its       *)
(* highest bit first, the data with its lowest bit first.  sLocked keeps   *)
(* out an interrupt handler that uses the clock while a transaction is     *)
(* under way; it is tested and set, not disabled interrupts.               *)
(*                                                                         *)
(* A step is one bit.  A handler's call of the library runs from start to  *)
(* end between two steps of the program.  The chip is external.            *)
(***************************************************************************)
EXTENDS Integers

CONSTANTS
  Infos,       \* contents of a struct SiiRtcInfo that the program sets
  PowerUps,    \* registers of the chip when its power has failed
  HandlerOps,  \* operations that interrupt handlers call
  Noise        \* what uninitialised memory, and a port that cannot be read, hold

(***************************************************************************)
(* Bytes are functions from bit numbers to bits.  The struct, and the      *)
(* registers of the chip, are numbered as the fields are laid out.         *)
(***************************************************************************)
Bit  == {0, 1}
Byte == [0..7 -> Bit]
ByteOf(v) == [j \in 0..7 |-> (v \div 2^j) % 2]

Hour      == 4
Second    == 6
Status    == 7
AlarmHour == 8
Fields == 0..9
Info   == [Fields -> Byte]

ASSUME InputAssumption ==
  /\ Infos \subseteq Info /\ PowerUps \subseteq Info /\ Noise \subseteq Bit /\ Noise # {}

Gets == {"GetStatus", "GetDateTime", "GetTime"}
Sets == {"SetStatus", "SetDateTime", "SetTime", "SetAlarm"}
Ops  == Gets \union Sets \union {"Reset"}
ASSUME HandlerAssumption == HandlerOps \subseteq Ops \union {"Protect"}

\* The command of an operation, CMD(n) | RD or WR, and the fields it moves.
Cmd(o) ==
  CASE o = "Reset"       -> 96  [] o = "SetStatus"   -> 98  [] o = "GetStatus" -> 99
    [] o = "SetDateTime" -> 100 [] o = "GetDateTime" -> 101
    [] o = "SetTime"     -> 102 [] o = "GetTime"     -> 103 [] o = "SetAlarm"  -> 104
First(o) ==
  CASE o \in {"GetStatus", "SetStatus"} -> Status
    [] o \in {"GetTime", "SetTime"}     -> Hour
    [] o = "SetAlarm"                   -> AlarmHour
    [] OTHER                            -> 0
Length(o) ==
  CASE o \in {"GetStatus", "SetStatus"}     -> 1
    [] o \in {"GetTime", "SetTime"}         -> 3
    [] o = "SetAlarm"                       -> 2
    [] o \in {"GetDateTime", "SetDateTime"} -> 7
    [] o = "Reset"                          -> 0
Moved(o) == First(o)..First(o) + Length(o) - 1

VARIABLES
  sLocked, readEnable, direction,  \* GPIO_PORT_READ_ENABLE and GPIO_PORT_DIRECTION
  pc, op, src, rtc,      \* the operation, what it sets, and what it has read
  i, k, value,           \* its loop counters and the byte being read
  stage, errorCode, ret, \* where SiiRtcProbe is, and what the call returned
  regs,                  \* the chip's registers
  cs, clocks, command, shift, \* chip select, bits clocked since, and what they were
  probed                 \* history: the probe was well

lineVars == <<readEnable, direction>>
bitVars  == <<i, k, value>>
callVars == <<stage, errorCode, ret>>
chipVars == <<cs, clocks, command, shift>>
vars == <<sLocked, lineVars, pc, op, src, rtc, bitVars, callVars, regs, chipVars, probed>>

TypeOK ==
  /\ sLocked \in Bit /\ readEnable \in Bit /\ direction \in {0, 5, 7}
  /\ pc \in {"idle", "test", "take", "command", "read", "write", "close"}
  /\ op \in Ops /\ src \in Info /\ rtc \in [0..7 -> Byte]
  /\ i \in 0..7 /\ k \in 0..6 /\ value \in Byte
  /\ stage \in {"none", "status", "reset1", "time", "reset2"}
  /\ errorCode \in 0..2 /\ ret \in 0..33
  /\ regs \in Info /\ cs \in Bit /\ clocks \in 0..64 /\ command \in Byte /\ shift \in Byte
  /\ probed \in Bit

Zero   == [j \in 0..7 |-> 0]
NoInfo == [f \in Fields |-> Zero]
NoRtc  == [f \in 0..7 |-> Zero]

Init ==
  /\ sLocked = 0 /\ readEnable = 0 /\ direction = 0
  /\ pc = "idle" /\ op = "Reset" /\ src = NoInfo /\ rtc = NoRtc
  /\ i = 0 /\ k = 0 /\ value = Zero
  /\ stage = "none" /\ errorCode = 0 /\ ret = 0
  /\ regs \in PowerUps
  /\ cs = 0 /\ clocks = 0 /\ command = Zero /\ shift = Zero
  /\ probed = 0

-----------------------------------------------------------------------------
(***************************************************************************)
(* Conversions between the struct and the registers.                       *)
(***************************************************************************)

\* Bits INTFE, INTME and INTAE are 0, 1, 2 of the struct and 1, 3, 5 of the chip.
StatusInfo(data) ==
  [j \in 0..7 |-> CASE j \in {0, 1, 2} -> data[2 * j + 1]
                    [] j \in {6, 7}    -> data[j]
                    [] OTHER           -> 0]
StatusData(status) ==
  [j \in 0..7 |-> CASE j = 6         -> 1
                    [] j \in {1, 3, 5} -> status[(j - 1) \div 2]
                    [] OTHER         -> 0]

\* The alarm hour is BCD; its flag ALARM_PM is set from noon on.
Nibble(byte, low) == byte[low] + 2 * byte[low + 1] + 4 * byte[low + 2] + 8 * byte[low + 3]
Noon(byte) == Nibble(byte, 0) + 10 * Nibble(byte, 4) >= 12
AlarmData(hour) == [j \in 0..7 |-> IF j = 7 /\ Noon(hour) THEN 1 ELSE hour[j]]

\* The byte that is sent for a field, and what is kept of one that was read.
DataOf(f, info) ==
  CASE f = Status    -> StatusData(info[f])
    [] f = AlarmHour -> AlarmData(info[f])
    [] OTHER         -> info[f]
Data(f) == DataOf(f, src)
Kept(f, byte) ==
  CASE f = Status -> StatusInfo(byte)
    [] f = Hour   -> [byte EXCEPT ![7] = 0]
    [] OTHER      -> byte

-----------------------------------------------------------------------------
(***************************************************************************)
(* The chip (external).  It takes eight bits of a command, highest first,  *)
(* and then takes or shows the bytes of the registers, lowest bit first.   *)
(***************************************************************************)
Commanded(o) == command = ByteOf(Cmd(o))
Taken == clocks - 8                         \* data bits before this one
Field(o) == First(o) + (Taken \div 8)

ChipReset == [f \in Fields |-> IF f \in {1, 2} THEN ByteOf(1) ELSE Zero]

ChipSelect   == cs' = 1 /\ clocks' = 0 /\ command' = Zero /\ shift' = Zero
ChipDeselect == cs' = 0 /\ clocks' = 0 /\ command' = Zero /\ shift' = Zero

\* A bit is clocked into the chip.
ChipClock(bit) ==
  IF cs = 0 THEN UNCHANGED <<chipVars, regs>>
  ELSE
  /\ clocks' = clocks + 1 /\ UNCHANGED cs
  /\ \/ /\ clocks < 8
        /\ command' = [j \in 0..7 |-> IF j = 0 THEN bit ELSE command[j - 1]]
        /\ regs' = IF clocks = 7 /\ command' = ByteOf(Cmd("Reset")) THEN ChipReset ELSE regs
        /\ UNCHANGED shift
     \/ /\ clocks >= 8
        /\ shift' = [j \in 0..7 |-> IF j = 7 THEN bit ELSE shift[j + 1]]
        /\ regs' = [f \in Fields |->
                      IF /\ Taken % 8 = 7
                         /\ \E o \in Sets : Commanded(o) /\ f = Field(o) /\ f \in Moved(o)
                      THEN shift' ELSE regs[f]]
        /\ UNCHANGED command

\* The bit it shows, if it has been asked for one and the port can be read.
Shown ==
  IF cs = 1 /\ clocks >= 8 /\ direction = 5 /\ readEnable = 1
  THEN {regs[Field(o)][Taken % 8] : o \in {g \in Gets : Commanded(g) /\ Field(g) \in Moved(g)}}
  ELSE Noise

PowerFailure ==
  /\ pc = "idle"
  /\ regs' \in PowerUps /\ probed' = 0
  /\ UNCHANGED <<sLocked, lineVars, pc, op, src, rtc, bitVars, callVars, chipVars>>

-----------------------------------------------------------------------------
(***************************************************************************)
(* Calls of the program.                                                   *)
(***************************************************************************)
SetProtection(locked) == readEnable' = 1 - locked /\ sLocked' = locked

SiiRtcProtect(locked) ==
  /\ pc = "idle"
  /\ SetProtection(locked)
  /\ UNCHANGED <<direction, pc, op, src, rtc, bitVars, callVars, regs, chipVars, probed>>

Call(o, info) ==
  /\ pc = "idle" /\ pc' = "test"
  /\ op' = o /\ src' = info /\ ret' = 0
  /\ UNCHANGED <<sLocked, lineVars, rtc, bitVars, stage, errorCode, regs, chipVars, probed>>

SiiRtcProbe ==
  /\ pc = "idle" /\ pc' = "test"
  /\ op' = "GetStatus" /\ stage' = "status" /\ errorCode' = 0 /\ ret' = 0
  /\ UNCHANGED <<sLocked, lineVars, src, rtc, bitVars, regs, chipVars, probed>>

\* A call returns r; the structs are the caller's again.
CallReturns(r) ==
  /\ pc' = "idle" /\ ret' = r
  /\ op' = "Reset" /\ src' = NoInfo /\ rtc' = NoRtc
  /\ stage' = "none" /\ errorCode' = 0

\* The probe returns, or goes on with another operation.
ProbeReturns(r) ==
  /\ CallReturns(r)
  /\ probed' = IF r % 2 = 1 /\ readEnable = 1 THEN 1 ELSE probed
ProbeCalls(o, next, errors) ==
  /\ pc' = "test" /\ op' = o /\ stage' = next /\ errorCode' = errors
  /\ UNCHANGED <<src, rtc, ret, probed>>

\* SiiRtcProbe after an operation has returned r: status is the status that
\* has been read, second the seconds, or what was there if GetTime was refused.
AfterStatus_Trusting(status) == ProbeCalls("GetTime", "time", 0)
AfterStatus(status) ==
  \/ status[6] = 0 /\ ProbeCalls("Reset", "reset1", 0)
  \/ status[6] = 1 /\ ProbeCalls("GetTime", "time", 0)
AfterReset_Again == ProbeCalls("GetTime", "time", errorCode)
AfterReset_CountsTwice == ProbeReturns(16 * (errorCode + 2) + 1)
AfterReset == ProbeReturns(16 * (errorCode + 1) + 1)
Returns(r, status, second) ==
  \/ stage = "none" /\ CallReturns(r) /\ UNCHANGED probed
  \/ stage \in {"status", "reset1"} /\ r = 0 /\ ProbeReturns(0)
  \/ stage = "status" /\ r = 1 /\ AfterStatus(status)
  \/ stage = "reset1" /\ r = 1 /\ ProbeCalls("GetTime", "time", 1)
  \/ stage = "time" /\ second[7] = 1 /\ ProbeCalls("Reset", "reset2", errorCode)
  \/ stage = "time" /\ second[7] = 0 /\ ProbeReturns(16 * errorCode + 1)
  \/ stage = "reset2" /\ r = 0 /\ ProbeReturns(16 * errorCode)
  \/ stage = "reset2" /\ r = 1 /\ AfterReset

-----------------------------------------------------------------------------
(***************************************************************************)
(* A transaction.                                                          *)
(***************************************************************************)
Uninitialised == {[j \in 0..7 |-> bit] : bit \in Noise}

\* The test of sLocked, which the handler's calls make too.
Free == sLocked = 0

Test ==
  /\ pc = "test"
  /\ \/ /\ ~Free
        /\ \E second \in Uninitialised : Returns(0, Zero, second)
     \/ /\ Free
        /\ pc' = "take"
        /\ UNCHANGED <<op, src, rtc, callVars, probed>>
  /\ UNCHANGED <<sLocked, lineVars, bitVars, regs, chipVars>>

Take ==
  /\ pc = "take" /\ pc' = "command"
  /\ sLocked' = 1 /\ direction' = 7
  /\ ChipSelect
  /\ i' = 0 /\ k' = 0 /\ UNCHANGED value
  /\ UNCHANGED <<readEnable, op, src, rtc, callVars, regs, probed>>

\* WriteCommand.
SendCommand ==
  /\ pc = "command"
  /\ ChipClock(ByteOf(Cmd(op))[7 - i])
  /\ i' = (i + 1) % 8 /\ UNCHANGED k
  /\ \/ i < 7 /\ UNCHANGED <<pc, direction, value>>
     \/ /\ i = 7 /\ op \in Gets
        /\ pc' = "read" /\ direction' = 5 /\ value' \in Uninitialised
     \/ /\ i = 7 /\ op \notin Gets
        /\ pc' = IF op = "Reset" THEN "close" ELSE "write"
        /\ UNCHANGED <<direction, value>>
  /\ UNCHANGED <<sLocked, readEnable, op, src, rtc, callVars, probed>>

\* After the last bit of a byte the next byte, or the end.
NextByte ==
  /\ i' = (i + 1) % 8
  /\ \/ i < 7 /\ UNCHANGED <<k, pc>>
     \/ i = 7 /\ k < Length(op) - 1 /\ k' = k + 1 /\ UNCHANGED pc
     \/ i = 7 /\ k = Length(op) - 1 /\ k' = 0 /\ pc' = "close"

\* WriteData.
Sent_HighFirst(byte) == byte[7 - i]
Sent(byte) == byte[i]
WriteBit ==
  /\ pc = "write"
  /\ ChipClock(Sent(Data(First(op) + k)))
  /\ NextByte /\ UNCHANGED value
  /\ UNCHANGED <<sLocked, lineVars, op, src, rtc, callVars, probed>>

\* ReadData; value is uninitialised when its first bit is shifted in.
Received_HighFirst(bit) == [j \in 0..7 |-> IF j = 0 THEN bit ELSE value[j - 1]]
Received(bit) == [j \in 0..7 |-> IF j = 7 THEN bit ELSE value[j + 1]]
ReadBit(bit) ==
  /\ pc = "read" /\ bit \in Shown
  /\ ChipClock(0)
  /\ NextByte
  /\ \/ i < 7 /\ value' = Received(bit) /\ UNCHANGED rtc
     \/ /\ i = 7
        /\ value' \in IF pc' = "read" THEN Uninitialised ELSE {Zero}
        /\ rtc' = [f \in 0..7 |-> IF f = First(op) + k THEN Kept(f, Received(bit)) ELSE rtc[f]]
  /\ UNCHANGED <<sLocked, lineVars, op, src, callVars, probed>>

\* The end of the transaction.  SiiRtcReset goes on with SiiRtcSetStatus.
Unlock == sLocked' = 0
Close ==
  /\ pc = "close"
  /\ Unlock
  /\ ChipDeselect
  /\ \/ op # "Reset" /\ Returns(1, rtc[Status], rtc[Second])
     \/ /\ op = "Reset"
        /\ pc' = "test" /\ op' = "SetStatus"
        /\ src' = [f \in Fields |-> IF f = Status THEN ByteOf(64) ELSE Zero]
        /\ UNCHANGED <<rtc, callVars, probed>>
  /\ UNCHANGED <<lineVars, bitVars, regs>>

-----------------------------------------------------------------------------
(***************************************************************************)
(* A handler's call: refused, which changes nothing, or all of it at once. *)
(***************************************************************************)
Performed(o, info) ==
  IF o = "Reset" THEN [f \in Fields |-> IF f = Status THEN StatusData(ByteOf(64)) ELSE ChipReset[f]]
  ELSE [f \in Fields |-> IF o \in Sets /\ f \in Moved(o) THEN DataOf(f, info) ELSE regs[f]]

HandlerCall(o, info) ==
  /\ Free
  /\ sLocked' = 0 /\ direction' = IF o \in Gets THEN 5 ELSE 7
  /\ regs' = Performed(o, info)
  /\ ChipDeselect
  /\ UNCHANGED <<readEnable, pc, op, src, rtc, bitVars, callVars, probed>>

HandlerProtect ==
  /\ "Protect" \in HandlerOps
  /\ SetProtection(1) /\ probed' = 0
  /\ UNCHANGED <<direction, pc, op, src, rtc, bitVars, callVars, regs, chipVars>>

Calls ==
  \/ \E locked \in Bit : SiiRtcProtect(locked)
  \/ \E o \in Ops \ Sets : Call(o, NoInfo)
  \/ \E o \in Sets, info \in Infos : Call(o, info)
  \/ SiiRtcProbe

Steps ==
  \/ Test \/ Take \/ SendCommand \/ WriteBit \/ Close
  \/ \E bit \in Bit : ReadBit(bit)

Handlers ==
  \/ \E o \in HandlerOps \ {"Protect"}, info \in Infos : HandlerCall(o, info)
  \/ HandlerProtect

Next == Calls \/ Steps \/ Handlers \/ PowerFailure

\* The processor keeps executing a call it has begun.
Spec == Init /\ [][Next]_vars /\ WF_vars(Steps)

-----------------------------------------------------------------------------
(***************************************************************************)
(* Properties.                                                             *)
(***************************************************************************)

\* A get that is about to return TRUE has read every one of its fields as the
\* chip holds them: no bit is lost, shifted or left over from uninitialised
\* memory, and no handler's transaction has come between two bits.
ReadExact ==
  pc = "close" /\ op \in Gets /\ readEnable = 1 =>
    \A f \in Moved(op) : rtc[f] = Kept(f, regs[f])

\* A set that is about to return TRUE has put every one of its fields into
\* the chip.
WriteExact == pc = "close" /\ op \in Sets => \A f \in Moved(op) : regs[f] = Data(f)

\* Once a probe has succeeded, the chip is found in 24-hour mode and out of
\* test mode between any two calls, until its power fails or a handler protects
\* the clock: though a reset puts it into 12-hour mode and releases the lock
\* before it sets the status.
ProbeReady == pc = "idle" /\ probed = 1 => regs[Status][6] = 1 /\ regs[Second][7] = 0

\* Every call returns.
CallsReturn == pc # "idle" ~> pc = "idle"
=============================================================================
