--------------------------- MODULE SiiRtc_proofs ---------------------------
(***************************************************************************)
(* Proofs about the real-time clock driver: every safety property of       *)
(* module SiiRtc, for all structs, all contents of the chip, all noise and *)
(* all operations of interrupt handlers.                                   *)
(*                                                                         *)
(* IInv relates the driver's loop counters to what the chip has seen: how  *)
(* often it was clocked, the command it has shifted in, and which bits of  *)
(* which field have come over so far.  ProbeInv follows the probe through  *)
(* the window in which a reset has released the lock and the status is not *)
(* yet set.                                                                *)
(***************************************************************************)
EXTENDS SiiRtc, TLAPS

\* A transaction is under way.
Busy == pc \in {"command", "read", "write", "close"}

\* During a transaction the lock is held and the chip selected; a lock that is
\* held otherwise is that of SiiRtcProtect, which has closed the port.
LockInv ==
  /\ Busy => sLocked = 1 /\ cs = 1
  /\ ~Busy /\ sLocked = 1 => readEnable = 0

\* The operation that a step of the probe, and a loop, belongs to.
CallInv ==
  /\ pc = "idle" => stage = "none"
  /\ stage = "status" => op = "GetStatus"
  /\ stage \in {"reset1", "reset2"} => op \in {"Reset", "SetStatus"}
  /\ stage = "time" => op = "GetTime"
  /\ errorCode \in 0..1
  /\ pc = "read" => op \in Gets
  /\ pc = "write" => op \in Sets

\* The chip has counted the bits the driver has sent, and has taken the command.
Clocked ==
  /\ pc = "command" => /\ k = 0 /\ clocks = i
                       /\ \A j \in 0..7 : j < i => command[j] = ByteOf(Cmd(op))[8 - i + j]
  /\ pc \in {"read", "write"} => Commanded(op) /\ clocks = 8 + 8 * k + i /\ k < Length(op)
  /\ pc = "read" => direction = 5

\* What has been read so far, the bits of the last byte being at its upper end.
ReadSoFar ==
  pc = "read" /\ readEnable = 1 =>
    /\ \A j \in 0..7 : j < i => value[8 - i + j] = regs[First(op) + k][j]
    /\ \A f \in Moved(op) : f < First(op) + k => rtc[f] = Kept(f, regs[f])

\* What has been written so far, likewise.
WrittenSoFar ==
  pc = "write" =>
    /\ \A j \in 0..7 : j < i => shift[8 - i + j] = Data(First(op) + k)[j]
    /\ \A f \in Moved(op) : f < First(op) + k => regs[f] = Data(f)

\* All that is said of the bits of a transaction.
Bits == Clocked /\ ReadSoFar /\ WrittenSoFar /\ ReadExact /\ WriteExact

\* The inductive invariant.
IInv == TypeOK /\ LockInv /\ CallInv /\ Bits

-----------------------------------------------------------------------------
(* Commands and bytes.                                                     *)

\* The commands are bytes, and no two operations share one.
LEMMA Commands ==
  /\ \A o \in Ops : Cmd(o) \in Nat /\ ByteOf(Cmd(o)) \in Byte
  /\ \A o, q \in Ops : ByteOf(Cmd(o)) = ByteOf(Cmd(q)) => o = q
  <1>1. \A v \in Nat : ByteOf(v) \in Byte
    BY DEF ByteOf, Byte, Bit
  <1>2. \A o \in Ops : Cmd(o) \in 96..104
    BY DEF Ops, Gets, Sets, Cmd
  <1>3. \A v, w \in 96..104 : ByteOf(v) = ByteOf(w) => v = w
    <2> SUFFICES ASSUME NEW v \in 96..104, NEW w \in 96..104, ByteOf(v) = ByteOf(w) PROVE v = w
      OBVIOUS
    <2>1. \A j \in 0..7 : ByteOf(v)[j] = (v \div 2^j) % 2 /\ ByteOf(w)[j] = (w \div 2^j) % 2
      BY DEF ByteOf
    <2>2. 2^0 = 1 /\ 2^1 = 2 /\ 2^2 = 4 /\ 2^3 = 8
      OBVIOUS
    <2>3. /\ v % 2 = w % 2 /\ (v \div 2) % 2 = (w \div 2) % 2
          /\ (v \div 4) % 2 = (w \div 4) % 2 /\ (v \div 8) % 2 = (w \div 8) % 2
      BY <2>1, <2>2
    <2> QED BY <2>3
  <1>4. \A o, q \in Ops : Cmd(o) = Cmd(q) => o = q
    BY DEF Ops, Gets, Sets, Cmd
  <1> QED BY <1>1, <1>2, <1>3, <1>4

\* The fields an operation moves lie in the struct; those a get moves in what is read.
LEMMA Widths ==
  \A o \in Ops :
    /\ First(o) \in 0..8 /\ Length(o) \in 0..7 /\ First(o) + Length(o) <= 10
    /\ o \in Gets => First(o) + Length(o) <= 8
    /\ o \in Gets \union Sets => Length(o) > 0
    /\ \A f : f \in Moved(o) <=> f \in Int /\ First(o) <= f /\ f < First(o) + Length(o)
  BY DEF Ops, Gets, Sets, First, Length, Moved, Status, Hour, AlarmHour

\* The conversions make bytes of bytes.
LEMMA Conversions ==
  /\ \A byte \in Byte : StatusInfo(byte) \in Byte /\ StatusData(byte) \in Byte /\ AlarmData(byte) \in Byte
  /\ \A info \in Info, f \in Fields : DataOf(f, info) \in Byte
  /\ \A f : \A byte \in Byte : Kept(f, byte) \in Byte
  <1>1. ASSUME NEW byte \in Byte PROVE StatusInfo(byte) \in Byte
    BY DEF StatusInfo, Byte, Bit
  <1>2. ASSUME NEW byte \in Byte PROVE StatusData(byte) \in Byte
    BY DEF StatusData, Byte, Bit
  <1>3. ASSUME NEW byte \in Byte PROVE AlarmData(byte) \in Byte
    BY DEF AlarmData, Byte, Bit
  <1>4. ASSUME NEW byte \in Byte PROVE [byte EXCEPT ![7] = 0] \in Byte
    BY DEF Byte, Bit
  <1> QED BY <1>1, <1>2, <1>3, <1>4 DEF DataOf, Kept, Info

\* The constants have their types.
LEMMA Constant == Zero \in Byte /\ NoInfo \in Info /\ NoRtc \in [0..7 -> Byte] /\ ChipReset \in Info
                  /\ \A v \in Nat : ByteOf(v) \in Byte
  <1>1. Zero \in Byte /\ \A v \in Nat : ByteOf(v) \in Byte
    BY DEF Zero, Byte, Bit, ByteOf
  <1> QED BY <1>1 DEF NoInfo, NoRtc, ChipReset, Info

\* Uninitialised memory holds bytes.
LEMMA NoiseBytes == Uninitialised \subseteq Byte
  BY InputAssumption DEF Uninitialised, Byte, Bit

-----------------------------------------------------------------------------
(* The chip.                                                               *)

\* A bit of the command reaches the chip.
LEMMA CommandBit ==
  ASSUME TypeOK, cs = 1, clocks < 8, NEW bit \in Bit, ChipClock(bit)
  PROVE  /\ clocks' = clocks + 1 /\ cs' = 1 /\ shift' = shift /\ command' \in Byte /\ regs' \in Info
         /\ command'[0] = bit /\ \A j \in 1..7 : command'[j] = command[j - 1]
         /\ regs' = IF clocks = 7 /\ command' = ByteOf(Cmd("Reset")) THEN ChipReset ELSE regs
  <1>1. /\ clocks' = clocks + 1 /\ cs' = 1 /\ shift' = shift
        /\ command' = [j \in 0..7 |-> IF j = 0 THEN bit ELSE command[j - 1]]
        /\ regs' = IF clocks = 7 /\ command' = ByteOf(Cmd("Reset")) THEN ChipReset ELSE regs
    BY DEF ChipClock, TypeOK, Bit, chipVars
  <1>2. command' \in Byte /\ command'[0] = bit /\ \A j \in 1..7 : command'[j] = command[j - 1]
    BY <1>1 DEF TypeOK, Byte
  <1>3. regs' \in Info
    BY <1>1, Constant DEF TypeOK
  <1> QED BY <1>1, <1>2, <1>3

\* A bit of the data reaches the chip: the eighth one sets a register, if the
\* command is that of a set; no other command that it could be taken for has come.
LEMMA DataBit ==
  ASSUME TypeOK, cs = 1, clocks = 8 + 8 * k + i, Commanded(op), k < Length(op),
         NEW bit \in Bit, ChipClock(bit)
  PROVE  /\ clocks' = clocks + 1 /\ cs' = 1 /\ command' = command /\ shift' \in Byte /\ regs' \in Info
         /\ shift'[7] = bit /\ \A j \in 0..6 : shift'[j] = shift[j + 1]
         /\ \A f \in Fields : regs'[f] = IF op \in Sets /\ i = 7 /\ f = First(op) + k THEN shift' ELSE regs[f]
  <1>0. /\ op \in Ops /\ k \in 0..6 /\ i \in 0..7 /\ clocks \in 8..64
        /\ Taken = 8 * k + i /\ Taken % 8 = i /\ Taken \div 8 = k
    BY DEF TypeOK, Taken
  <1>1. /\ clocks' = clocks + 1 /\ cs' = 1 /\ command' = command
        /\ shift' = [j \in 0..7 |-> IF j = 7 THEN bit ELSE shift[j + 1]]
        /\ regs' = [f \in Fields |->
                      IF /\ Taken % 8 = 7
                         /\ \E o \in Sets : Commanded(o) /\ f = Field(o) /\ f \in Moved(o)
                      THEN shift' ELSE regs[f]]
    BY <1>0 DEF ChipClock
  <1>2. shift' \in Byte /\ shift'[7] = bit /\ \A j \in 0..6 : shift'[j] = shift[j + 1]
    BY <1>1 DEF TypeOK, Byte
  <1>3. Sets \subseteq Ops /\ \A o \in Ops : Commanded(o) => o = op
    BY <1>0, Commands DEF Commanded, Ops
  <1>4. First(op) + k \in Moved(op)
    BY <1>0, Widths
  <1>5. \A f \in Fields : (\E o \in Sets : Commanded(o) /\ f = Field(o) /\ f \in Moved(o))
                          <=> op \in Sets /\ f = First(op) + k
    BY <1>0, <1>3, <1>4 DEF Field
  <1>6. \A f \in Fields : regs'[f] = IF op \in Sets /\ i = 7 /\ f = First(op) + k THEN shift' ELSE regs[f]
    BY <1>0, <1>1, <1>5
  <1>7. regs' \in Info
    BY <1>1, <1>2 DEF TypeOK, Info
  <1> QED BY <1>1, <1>2, <1>6, <1>7

\* The chip shows a bit of the field that is read.
LEMMA ShownBit ==
  ASSUME TypeOK, cs = 1, clocks = 8 + 8 * k + i, Commanded(op), op \in Gets, k < Length(op),
         direction = 5, readEnable = 1, NEW bit \in Shown
  PROVE  bit = regs[First(op) + k][i]
  <1>0. /\ op \in Ops /\ k \in 0..6 /\ i \in 0..7 /\ clocks \in 8..64
        /\ Taken = 8 * k + i /\ Taken % 8 = i /\ Taken \div 8 = k
    BY DEF TypeOK, Taken
  <1>1. PICK o \in {g \in Gets : Commanded(g) /\ Field(g) \in Moved(g)} : bit = regs[Field(o)][Taken % 8]
    BY <1>0 DEF Shown
  <1>2. o = op
    BY <1>0, <1>1, Commands DEF Commanded, Ops
  <1> QED BY <1>0, <1>1, <1>2 DEF Field

-----------------------------------------------------------------------------
(* Steps outside of a transaction.                                         *)

\* Outside of a transaction nothing is said of its bits.
LEMMA NotBusy == ASSUME pc' \in {"idle", "test", "take"} PROVE Bits'
  BY DEF Bits, Clocked, ReadSoFar, WrittenSoFar, ReadExact, WriteExact

\* What a call returns to, and what it leaves to the next operation of a probe.
LEMMA ReturnFacts ==
  ASSUME TypeOK, CallInv, NEW r \in {0, 1}, NEW status \in Byte, NEW second \in Byte,
         Returns(r, status, second)
  PROVE  /\ pc' \in {"idle", "test"} /\ op' \in Ops /\ src' \in Info /\ rtc' \in [0..7 -> Byte]
         /\ stage' \in {"none", "status", "reset1", "time", "reset2"} /\ errorCode' \in 0..2
         /\ ret' \in 0..33 /\ probed' \in Bit /\ CallInv'
  <1> USE DEF TypeOK, CallInv
  <1>0. "Reset" \in Ops /\ "GetTime" \in Ops /\ errorCode \in 0..1
    BY DEF Ops, Gets
  <1>1. ASSUME NEW n \in 0..33, CallReturns(n), probed' \in Bit
        PROVE  /\ pc' \in {"idle", "test"} /\ op' \in Ops /\ src' \in Info /\ rtc' \in [0..7 -> Byte]
               /\ stage' \in {"none", "status", "reset1", "time", "reset2"} /\ errorCode' \in 0..2
               /\ ret' \in 0..33 /\ probed' \in Bit /\ CallInv'
    BY <1>1, Constant DEF CallReturns, Ops
  <1>2. ASSUME NEW n \in 0..33, ProbeReturns(n) PROVE CallReturns(n) /\ probed' \in Bit
    BY <1>2 DEF ProbeReturns, Bit
  <1>3. ASSUME NEW o \in Ops, NEW next \in {"reset1", "time", "reset2"}, NEW e \in 0..1,
               ProbeCalls(o, next, e), next = "time" => o = "GetTime", next # "time" => o = "Reset"
        PROVE  /\ pc' \in {"idle", "test"} /\ op' \in Ops /\ src' \in Info /\ rtc' \in [0..7 -> Byte]
               /\ stage' \in {"none", "status", "reset1", "time", "reset2"} /\ errorCode' \in 0..2
               /\ ret' \in 0..33 /\ probed' \in Bit /\ CallInv'
    BY <1>3 DEF ProbeCalls
  <1>4. CASE stage = "none" /\ CallReturns(r) /\ UNCHANGED probed
    BY <1>1, <1>4
  <1>5. CASE stage \in {"status", "reset1"} /\ r = 0 /\ ProbeReturns(0)
    BY <1>1, <1>2, <1>5
  <1>6. CASE stage = "status" /\ r = 1 /\ AfterStatus(status)
    BY <1>3, <1>6 DEF AfterStatus, Ops, Gets
  <1>7. CASE stage = "reset1" /\ r = 1 /\ ProbeCalls("GetTime", "time", 1)
    BY <1>3, <1>7 DEF Ops, Gets
  <1>8. CASE stage = "time" /\ second[7] = 1 /\ ProbeCalls("Reset", "reset2", errorCode)
    BY <1>0, <1>3, <1>8 DEF Ops
  <1>9. CASE stage = "time" /\ second[7] = 0 /\ ProbeReturns(16 * errorCode + 1)
    <2>1. 16 * errorCode + 1 \in 0..33
      BY <1>0
    <2> QED BY <1>1, <1>2, <1>9, <2>1
  <1>10. CASE stage = "reset2" /\ r = 0 /\ ProbeReturns(16 * errorCode)
    <2>1. 16 * errorCode \in 0..33
      BY <1>0
    <2> QED BY <1>1, <1>2, <1>10, <2>1
  <1>11. CASE stage = "reset2" /\ r = 1 /\ AfterReset
    <2>1. 16 * (errorCode + 1) + 1 \in 0..33
      BY <1>0
    <2> QED BY <1>1, <1>2, <1>11, <2>1 DEF AfterReset
  <1> QED BY <1>4, <1>5, <1>6, <1>7, <1>8, <1>9, <1>10, <1>11 DEF Returns

\* The program calls.
LEMMA CallSteps == ASSUME IInv, Calls PROVE IInv'
  <1> USE DEF IInv, TypeOK, LockInv, CallInv, Busy
  <1>1. ASSUME NEW locked \in Bit, SiiRtcProtect(locked) PROVE IInv'
    <2>1. Bits'
      BY <1>1, NotBusy DEF SiiRtcProtect
    <2>2. TypeOK' /\ LockInv' /\ CallInv'
      BY <1>1 DEF SiiRtcProtect, SetProtection, Bit, bitVars, callVars, chipVars
    <2> QED BY <2>1, <2>2
  <1>2. ASSUME NEW o \in Ops, NEW info \in Info, Call(o, info) PROVE IInv'
    <2>1. Bits'
      BY <1>2, NotBusy DEF Call
    <2>2. TypeOK' /\ LockInv' /\ CallInv'
      BY <1>2 DEF Call, bitVars, lineVars, chipVars
    <2> QED BY <2>1, <2>2
  <1>3. ASSUME SiiRtcProbe PROVE IInv'
    <2>1. Bits'
      BY <1>3, NotBusy DEF SiiRtcProbe
    <2>2. TypeOK' /\ LockInv' /\ CallInv'
      BY <1>3 DEF SiiRtcProbe, bitVars, lineVars, chipVars, Ops, Gets
    <2> QED BY <2>1, <2>2
  <1>4. Sets \subseteq Ops /\ Infos \subseteq Info /\ NoInfo \in Info
    BY InputAssumption, Constant DEF Ops
  <1> QED BY <1>1, <1>2, <1>3, <1>4 DEF Calls

\* The test of sLocked: the call is refused, or goes on.
LEMMA TestStep == ASSUME IInv, Test PROVE IInv'
  <1>0. TypeOK /\ LockInv /\ CallInv
    BY DEF IInv
  <1>1. ASSUME NEW second \in Uninitialised, Returns(0, Zero, second) PROVE IInv'
    <2>1. /\ pc' \in {"idle", "test"} /\ op' \in Ops /\ src' \in Info /\ rtc' \in [0..7 -> Byte]
          /\ stage' \in {"none", "status", "reset1", "time", "reset2"} /\ errorCode' \in 0..2
          /\ ret' \in 0..33 /\ probed' \in Bit /\ CallInv'
      BY <1>0, <1>1, ReturnFacts, Constant, NoiseBytes
    <2>2. Bits'
      BY <2>1, NotBusy
    <2>3. TypeOK' /\ LockInv'
      BY <1>0, <2>1 DEF Test, TypeOK, LockInv, Busy, lineVars, bitVars, chipVars
    <2> QED BY <2>1, <2>2, <2>3 DEF IInv
  <1>2. CASE pc' = "take" /\ UNCHANGED <<op, src, rtc, callVars, probed>>
    <2>2. Bits'
      BY <1>2, NotBusy
    <2>3. TypeOK' /\ LockInv' /\ CallInv'
      BY <1>0, <1>2 DEF Test, TypeOK, LockInv, CallInv, Busy, lineVars, bitVars, chipVars, callVars
    <2> QED BY <2>2, <2>3 DEF IInv
  <1> QED BY <1>1, <1>2 DEF Test

\* The power fails.
LEMMA FailureStep == ASSUME IInv, PowerFailure PROVE IInv'
  <1>1. Bits'
    BY NotBusy DEF PowerFailure
  <1>2. TypeOK' /\ LockInv' /\ CallInv'
    BY InputAssumption
       DEF IInv, TypeOK, LockInv, CallInv, Busy, PowerFailure, lineVars, bitVars, callVars, chipVars, Bit
  <1> QED BY <1>1, <1>2 DEF IInv

\* The lock is taken and the chip selected.
LEMMA TakeStep == ASSUME IInv, Take PROVE IInv'
  <1>1. TypeOK' /\ LockInv' /\ CallInv'
    BY Constant DEF IInv, TypeOK, LockInv, CallInv, Busy, Take, ChipSelect, callVars, Bit
  <1>2. Bits'
    <2>1. pc' = "command" /\ k' = 0 /\ i' = 0 /\ clocks' = 0
      BY DEF Take, ChipSelect
    <2> QED BY <2>1 DEF Bits, Clocked, ReadSoFar, WrittenSoFar, ReadExact, WriteExact
  <1> QED BY <1>1, <1>2 DEF IInv

\* A handler can use the clock only outside of a transaction; it can protect it
\* at any time, after which nothing more is said of what is read.
LEMMA HandlerSteps == ASSUME IInv, Handlers PROVE IInv'
  <1>1. ASSUME NEW o \in HandlerOps \ {"Protect"}, NEW info \in Infos, HandlerCall(o, info) PROVE IInv'
    <2>1. Performed(o, info) \in Info
      <3>1. StatusData(ByteOf(64)) \in Byte /\ ChipReset \in Info /\ info \in Info
        BY Conversions, Constant, InputAssumption
      <3> QED BY <3>1, Conversions DEF Performed, IInv, TypeOK, Info
    <2>2. pc \in {"idle", "test", "take"} /\ pc' = pc
      BY <1>1 DEF HandlerCall, Free, IInv, LockInv, TypeOK, Busy
    <2>3. TypeOK' /\ LockInv' /\ CallInv'
      BY <1>1, <2>1, <2>2, Constant
         DEF IInv, TypeOK, LockInv, CallInv, Busy, HandlerCall, ChipDeselect, bitVars, callVars, Bit
    <2>4. Bits'
      BY <2>2, NotBusy
    <2> QED BY <2>3, <2>4 DEF IInv
  <1>2. CASE HandlerProtect
    <2>1. TypeOK' /\ LockInv' /\ CallInv'
      BY <1>2 DEF IInv, TypeOK, LockInv, CallInv, Busy, HandlerProtect, SetProtection, bitVars, callVars,
                  chipVars, Bit
    <2>2. Bits'
      BY <1>2 DEF IInv, HandlerProtect, SetProtection, Bits, Clocked, Commanded, ReadSoFar, WrittenSoFar,
                  ReadExact, WriteExact, Data, bitVars, chipVars
    <2> QED BY <2>1, <2>2 DEF IInv
  <1> QED BY <1>1, <1>2 DEF Handlers

-----------------------------------------------------------------------------
(* Steps of a transaction.                                                 *)

\* WriteCommand.
LEMMA CommandStep ==
  ASSUME IInv, SendCommand
  PROVE  IInv' /\ regs' = IF i = 7 /\ op = "Reset" THEN ChipReset ELSE regs
  <1> DEFINE B == ByteOf(Cmd(op))
  <1>0. /\ TypeOK /\ LockInv /\ CallInv /\ pc = "command" /\ cs = 1 /\ sLocked = 1
        /\ clocks = i /\ i \in 0..7 /\ k = 0 /\ op \in Ops /\ B \in Byte
        /\ \A j \in 0..7 : j < i => command[j] = B[8 - i + j]
    BY Commands DEF IInv, TypeOK, LockInv, Busy, Bits, Clocked, SendCommand
  <1>1. B[7 - i] \in Bit
    BY <1>0 DEF Byte
  <1>2. /\ clocks' = i + 1 /\ cs' = 1 /\ shift' = shift /\ command' \in Byte /\ regs' \in Info
        /\ command'[0] = B[7 - i] /\ \A j \in 1..7 : command'[j] = command[j - 1]
        /\ regs' = IF i = 7 /\ command' = ByteOf(Cmd("Reset")) THEN ChipReset ELSE regs
    BY <1>0, <1>1, CommandBit DEF SendCommand
  <1>3. UNCHANGED <<sLocked, readEnable, op, src, rtc, stage, errorCode, ret, probed, k>> /\ i' = (i + 1) % 8
    BY DEF SendCommand, callVars
  <1> HIDE DEF B
  <1>4. \A j \in 0..7 : j < i + 1 => command'[j] = B[7 - i + j]
    <2> SUFFICES ASSUME NEW j \in 0..7, j < i + 1 PROVE command'[j] = B[7 - i + j]
      OBVIOUS
    <2>1. CASE j = 0
      BY <1>0, <1>2, <2>1
    <2>2. CASE j # 0
      <3>1. j - 1 \in 0..7 /\ j - 1 < i /\ j \in 1..7 /\ 8 - i + (j - 1) = 7 - i + j
        BY <1>0, <2>2
      <3> QED BY <1>0, <1>2, <3>1
    <2> QED BY <2>1, <2>2
  <1>r. regs' = IF i = 7 /\ op = "Reset" THEN ChipReset ELSE regs
    <2>1. CASE i = 7
      <3>1. \A j \in 0..7 : command'[j] = B[j]
        BY <1>4, <2>1
      <3>2. command' = B
        BY <1>0, <1>2, <3>1 DEF Byte
      <3>3. "Reset" \in Ops
        BY DEF Ops
      <3> QED BY <1>0, <1>2, <2>1, <3>2, <3>3, Commands DEF B
    <2> QED BY <1>2, <2>1
  <1>5. ASSUME i < 7 /\ UNCHANGED <<pc, direction, value>> PROVE IInv'
    <2>1. i' = i + 1 /\ i' \in 0..7 /\ pc' = "command"
      BY <1>0, <1>3, <1>5
    <2>2. TypeOK' /\ LockInv' /\ CallInv'
      BY <1>0, <1>2, <1>3, <1>5, <2>1 DEF TypeOK, LockInv, CallInv, Busy
    <2>3. \A j \in 0..7 : j < i' => command'[j] = B[8 - i' + j]
      <3>1. 8 - i' = 7 - i
        BY <1>0, <2>1
      <3> QED BY <1>4, <2>1, <3>1
    <2>4. Clocked'
      BY <1>0, <1>2, <1>3, <2>1, <2>3 DEF Clocked, B
    <2> QED BY <2>1, <2>2, <2>4 DEF IInv, Bits, ReadSoFar, WrittenSoFar, ReadExact, WriteExact
  <1>6. ASSUME i = 7 PROVE IInv'
    <2>1. i' = 0 /\ clocks' = 8 /\ k' = 0
      BY <1>0, <1>2, <1>3, <1>6
    <2>2. command' = B
      <3>1. \A j \in 0..7 : command'[j] = B[j]
        BY <1>4, <1>6
      <3> QED BY <1>0, <1>2, <3>1 DEF Byte
    <2>3. CASE op \in Gets /\ pc' = "read" /\ direction' = 5 /\ value' \in Uninitialised
      <3>1. TypeOK' /\ LockInv' /\ CallInv'
        BY <1>0, <1>2, <1>3, <2>1, <2>3, NoiseBytes DEF TypeOK, LockInv, CallInv, Busy
      <3>2. Length(op) > 0 /\ \A f \in Moved(op) : ~(f < First(op) + 0)
        BY <1>0, <2>3, Widths
      <3>3. Clocked'
        BY <1>3, <2>1, <2>2, <2>3, <3>2 DEF Clocked, Commanded, B
      <3>4. ReadSoFar'
        BY <1>3, <2>1, <3>2 DEF ReadSoFar
      <3> QED BY <2>3, <3>1, <3>3, <3>4 DEF IInv, Bits, WrittenSoFar, ReadExact, WriteExact
    <2>4. CASE /\ op \notin Gets /\ pc' = (IF op = "Reset" THEN "close" ELSE "write")
               /\ UNCHANGED <<direction, value>>
      <3>0. op = "Reset" \/ op \in Sets
        BY <1>0, <2>4 DEF Ops
      <3>1. TypeOK' /\ LockInv' /\ CallInv'
        BY <1>0, <1>2, <1>3, <2>1, <2>4, <3>0 DEF TypeOK, LockInv, CallInv, Busy
      <3>2. op \in Sets => Length(op) > 0 /\ \A f \in Moved(op) : ~(f < First(op) + 0)
        BY <1>0, Widths
      <3>3. Clocked'
        BY <1>3, <2>1, <2>2, <2>4, <3>0, <3>2 DEF Clocked, Commanded, B
      <3>4. WrittenSoFar'
        BY <1>3, <2>1, <2>4, <3>0, <3>2 DEF WrittenSoFar
      <3>5. ReadSoFar' /\ ReadExact' /\ WriteExact'
        BY <1>3, <2>4 DEF ReadSoFar, ReadExact, WriteExact, Sets, Gets
      <3> QED BY <3>1, <3>3, <3>4, <3>5 DEF IInv, Bits
    <2> QED BY <1>6, <2>3, <2>4 DEF SendCommand
  <1> QED BY <1>0, <1>r, <1>5, <1>6 DEF SendCommand

\* WriteData.
LEMMA WriteStep ==
  ASSUME IInv, WriteBit
  PROVE  /\ IInv'
         /\ \A f \in Fields : regs'[f] = IF i = 7 /\ f = First(op) + k THEN Data(f) ELSE regs[f]
  <1> DEFINE g == First(op) + k
             D == Data(g)
  <1>0. /\ TypeOK /\ LockInv /\ CallInv /\ pc = "write" /\ cs = 1 /\ sLocked = 1
        /\ clocks = 8 + 8 * k + i /\ i \in 0..7 /\ k \in 0..6 /\ k < Length(op) /\ op \in Sets /\ op \in Ops
        /\ Commanded(op) /\ src \in Info /\ WrittenSoFar
    BY DEF IInv, TypeOK, LockInv, CallInv, Busy, Bits, Clocked, WriteBit
  <1>1. g \in Moved(op) /\ g \in Fields /\ g \in Int /\ Moved(op) \subseteq Fields
        /\ \A f \in Moved(op) : f \in Int
    BY <1>0, Widths DEF Fields
  <1>2. D \in Byte /\ D[i] \in Bit
    BY <1>0, <1>1, Conversions DEF Data, Byte
  <1>3. /\ clocks' = clocks + 1 /\ cs' = 1 /\ command' = command /\ shift' \in Byte /\ regs' \in Info
        /\ shift'[7] = D[i] /\ \A j \in 0..6 : shift'[j] = shift[j + 1]
        /\ \A f \in Fields : regs'[f] = IF i = 7 /\ f = g THEN shift' ELSE regs[f]
    BY <1>0, <1>2, DataBit DEF WriteBit, Sent
  <1>4. UNCHANGED <<sLocked, readEnable, direction, op, src, rtc, stage, errorCode, ret, probed, value>>
        /\ i' = (i + 1) % 8
    BY DEF WriteBit, NextByte, callVars, lineVars
  <1>5. \A j \in 0..7 : j < i + 1 => shift'[7 - i + j] = D[j]
    <2> SUFFICES ASSUME NEW j \in 0..7, j < i + 1 PROVE shift'[7 - i + j] = D[j]
      OBVIOUS
    <2>1. CASE j = i
      BY <1>0, <1>3, <2>1
    <2>2. CASE j < i
      <3>1. 7 - i + j \in 0..6 /\ (7 - i + j) + 1 = 8 - i + j
        BY <1>0, <2>2
      <3>2. shift[8 - i + j] = D[j]
        BY <1>0, <2>2 DEF WrittenSoFar
      <3> QED BY <1>3, <3>1, <3>2
    <2> QED BY <1>0, <2>1, <2>2
  <1>6. \A f \in Moved(op) : f < g => regs[f] = Data(f)
    BY <1>0 DEF WrittenSoFar
  <1>7. \A f : Data(f)' = Data(f)
    BY <1>4 DEF Data
  <1> HIDE DEF D
  <1>r. \A f \in Fields : regs'[f] = IF i = 7 /\ f = g THEN Data(f) ELSE regs[f]
    <2>1. CASE i = 7
      <3>1. \A j \in 0..7 : shift'[j] = D[j]
        BY <1>5, <2>1
      <3>2. shift' = D
        BY <1>2, <1>3, <3>1 DEF Byte
      <3> QED BY <1>3, <3>2 DEF D
    <2> QED BY <1>3, <2>1
  <1>8. ASSUME i < 7 /\ UNCHANGED <<k, pc>> PROVE IInv'
    <2>1. i' = i + 1 /\ i' \in 0..7 /\ pc' = "write" /\ k' = k
      BY <1>0, <1>4, <1>8
    <2>2. TypeOK' /\ LockInv' /\ CallInv'
      BY <1>0, <1>3, <1>4, <2>1 DEF TypeOK, LockInv, CallInv, Busy
    <2>3. WrittenSoFar'
      <3>1. 8 - i' = 7 - i
        BY <1>0, <2>1
      <3>2. \A j \in 0..7 : j < i' => shift'[8 - i' + j] = D[j]
        BY <1>5, <2>1, <3>1
      <3>3. \A f \in Moved(op) : f < g => regs'[f] = Data(f)
        BY <1>1, <1>3, <1>6, <1>8
      <3> QED BY <1>4, <1>7, <2>1, <3>2, <3>3 DEF WrittenSoFar, D
    <2>4. Clocked'
      BY <1>0, <1>3, <1>4, <2>1 DEF Clocked, Commanded
    <2> QED BY <2>1, <2>2, <2>3, <2>4 DEF IInv, Bits, ReadSoFar, ReadExact, WriteExact
  <1>9. ASSUME i = 7 PROVE IInv'
    <2>1. i' = 0 /\ clocks' = 16 + 8 * k
      BY <1>0, <1>3, <1>4, <1>9
    <2>2. shift' = D
      <3>1. \A j \in 0..7 : shift'[j] = D[j]
        BY <1>5, <1>9
      <3> QED BY <1>2, <1>3, <3>1 DEF Byte
    <2>3. \A f \in Moved(op) : f < g + 1 => regs'[f] = Data(f)'
      BY <1>1, <1>3, <1>6, <1>7, <1>9, <2>2 DEF D
    <2>4. CASE k < Length(op) - 1 /\ k' = k + 1 /\ UNCHANGED pc
      <3>0. Length(op) \in 0..7
        BY <1>0, Widths
      <3>1. TypeOK' /\ LockInv' /\ CallInv'
        BY <1>0, <1>3, <1>4, <2>1, <2>4, <3>0 DEF TypeOK, LockInv, CallInv, Busy
      <3>2. WrittenSoFar'
        <4>1. First(op) + k' = g + 1
          BY <1>0, <2>4, Widths
        <4> QED BY <1>4, <2>1, <2>3, <4>1 DEF WrittenSoFar
      <3>3. Clocked'
        BY <1>0, <1>3, <1>4, <2>1, <2>4, <3>0 DEF Clocked, Commanded
      <3> QED BY <1>0, <2>4, <3>1, <3>2, <3>3 DEF IInv, Bits, ReadSoFar, ReadExact, WriteExact
    <2>5. CASE k = Length(op) - 1 /\ k' = 0 /\ pc' = "close"
      <3>1. TypeOK' /\ LockInv' /\ CallInv'
        BY <1>0, <1>3, <1>4, <2>1, <2>5 DEF TypeOK, LockInv, CallInv, Busy
      <3>2. \A f \in Moved(op) : f < g + 1
        <4>1. First(op) \in Int /\ Length(op) \in Int
              /\ \A f \in Moved(op) : f \in Int /\ f < First(op) + Length(op)
          BY <1>0, Widths
        <4> QED BY <1>0, <2>5, <4>1
      <3>3. WriteExact'
        BY <1>4, <2>3, <3>2 DEF WriteExact
      <3>4. op \notin Gets
        BY <1>0 DEF Sets, Gets
      <3> QED BY <1>4, <2>5, <3>1, <3>3, <3>4 DEF IInv, Bits, Clocked, ReadSoFar, WrittenSoFar, ReadExact
    <2> QED BY <1>9, <2>4, <2>5 DEF WriteBit, NextByte
  <1> QED BY <1>0, <1>r, <1>8, <1>9 DEF WriteBit, NextByte

\* ReadData.
LEMMA ReadStep == ASSUME IInv, NEW bit \in Bit, ReadBit(bit) PROVE IInv' /\ regs' = regs
  <1> DEFINE g == First(op) + k
             R == Received(bit)
  <1>0. /\ TypeOK /\ LockInv /\ CallInv /\ pc = "read" /\ cs = 1 /\ sLocked = 1 /\ direction = 5
        /\ clocks = 8 + 8 * k + i /\ i \in 0..7 /\ k \in 0..6 /\ k < Length(op) /\ op \in Gets /\ op \in Ops
        /\ Commanded(op) /\ ReadSoFar /\ value \in Byte /\ rtc \in [0..7 -> Byte] /\ regs \in Info
    BY DEF IInv, TypeOK, LockInv, CallInv, Busy, Bits, Clocked, ReadBit
  <1>1. g \in Moved(op) /\ g \in 0..7 /\ g \in Int /\ Moved(op) \subseteq 0..7
    BY <1>0, Widths
  <1>2. /\ clocks' = clocks + 1 /\ cs' = 1 /\ command' = command /\ shift' \in Byte /\ regs' = regs
    <2>1. op \notin Sets /\ 0 \in Bit
      BY <1>0 DEF Gets, Sets, Bit
    <2>2. /\ clocks' = clocks + 1 /\ cs' = 1 /\ command' = command /\ shift' \in Byte /\ regs' \in Info
          /\ \A f \in Fields : regs'[f] = regs[f]
      BY <1>0, <2>1, DataBit DEF ReadBit
    <2> QED BY <1>0, <2>2 DEF Info
  <1>3. UNCHANGED <<sLocked, readEnable, direction, op, src, stage, errorCode, ret, probed>>
        /\ i' = (i + 1) % 8
    BY DEF ReadBit, NextByte, callVars, lineVars
  <1>4. R \in Byte /\ R[7] = bit /\ \A j \in 0..6 : R[j] = value[j + 1]
    BY <1>0 DEF Received, Byte
  <1>5. readEnable = 1 => \A j \in 0..7 : j < i + 1 => R[7 - i + j] = regs[g][j]
    <2> SUFFICES ASSUME readEnable = 1, NEW j \in 0..7, j < i + 1 PROVE R[7 - i + j] = regs[g][j]
      OBVIOUS
    <2>1. CASE j = i
      <3>1. bit = regs[g][i]
        BY <1>0, ShownBit DEF ReadBit
      <3> QED BY <1>0, <1>4, <2>1, <3>1
    <2>2. CASE j < i
      <3>1. 7 - i + j \in 0..6 /\ (7 - i + j) + 1 = 8 - i + j
        BY <1>0, <2>2
      <3>2. value[8 - i + j] = regs[g][j]
        BY <1>0, <2>2 DEF ReadSoFar
      <3> QED BY <1>4, <3>1, <3>2
    <2> QED BY <1>0, <2>1, <2>2
  <1>6. readEnable = 1 => \A f \in Moved(op) : f < g => rtc[f] = Kept(f, regs[f])
    BY <1>0 DEF ReadSoFar
  <1>7. ASSUME i < 7 PROVE IInv'
    <2>1. i' = i + 1 /\ i' \in 0..7 /\ pc' = "read" /\ k' = k /\ value' = R /\ rtc' = rtc
      BY <1>0, <1>3, <1>7 DEF ReadBit, NextByte
    <2> HIDE DEF R
    <2>2. TypeOK' /\ LockInv' /\ CallInv'
      BY <1>0, <1>2, <1>3, <1>4, <2>1 DEF TypeOK, LockInv, CallInv, Busy
    <2>3. ReadSoFar'
      <3>1. 8 - i' = 7 - i
        BY <1>0, <2>1
      <3>2. readEnable = 1 => \A j \in 0..7 : j < i' => value'[8 - i' + j] = regs[g][j]
        BY <1>5, <2>1, <3>1
      <3> QED BY <1>2, <1>3, <1>6, <2>1, <3>2 DEF ReadSoFar
    <2>4. Clocked'
      BY <1>0, <1>2, <1>3, <2>1 DEF Clocked, Commanded
    <2> QED BY <2>1, <2>2, <2>3, <2>4 DEF IInv, Bits, WrittenSoFar, ReadExact, WriteExact
  <1>8. ASSUME i = 7 PROVE IInv'
    <2>1. /\ i' = 0 /\ clocks' = 16 + 8 * k
          /\ value' \in IF pc' = "read" THEN Uninitialised ELSE {Zero}
          /\ rtc' = [f \in 0..7 |-> IF f = g THEN Kept(f, R) ELSE rtc[f]]
      BY <1>0, <1>2, <1>3, <1>8 DEF ReadBit
    <2>2. readEnable = 1 => R = regs[g]
      <3>1. readEnable = 1 => \A j \in 0..7 : R[j] = regs[g][j]
        BY <1>5, <1>8
      <3>2. regs[g] \in Byte
        BY <1>0, <1>1 DEF Info, Fields
      <3> HIDE DEF g, R
      <3> QED BY <1>4, <3>1, <3>2 DEF Byte
    <2>3. value' \in Byte /\ rtc' \in [0..7 -> Byte]
      <3>1. Kept(g, R) \in Byte
        BY <1>4, Conversions
      <3> QED BY <1>0, <2>1, <3>1, NoiseBytes, Constant
    <2>4. readEnable = 1 => \A f \in Moved(op) : f < g + 1 => rtc'[f] = Kept(f, regs[f])
      BY <1>0, <1>1, <1>6, <2>1, <2>2
    <2> HIDE DEF R
    <2>5. CASE k < Length(op) - 1 /\ k' = k + 1 /\ UNCHANGED pc
      <3>0. Length(op) \in 0..7
        BY <1>0, Widths
      <3>1. TypeOK' /\ LockInv' /\ CallInv'
        BY <1>0, <1>2, <1>3, <2>1, <2>3, <2>5, <3>0 DEF TypeOK, LockInv, CallInv, Busy
      <3>2. ReadSoFar'
        <4>1. First(op) + k' = g + 1
          BY <1>0, <2>5, Widths
        <4> QED BY <1>2, <1>3, <2>1, <2>4, <4>1 DEF ReadSoFar
      <3>3. Clocked'
        BY <1>0, <1>2, <1>3, <2>1, <2>5, <3>0 DEF Clocked, Commanded
      <3> QED BY <1>0, <2>5, <3>1, <3>2, <3>3 DEF IInv, Bits, WrittenSoFar, ReadExact, WriteExact
    <2>6. CASE k = Length(op) - 1 /\ k' = 0 /\ pc' = "close"
      <3>1. TypeOK' /\ LockInv' /\ CallInv'
        BY <1>0, <1>2, <1>3, <2>1, <2>3, <2>6 DEF TypeOK, LockInv, CallInv, Busy
      <3>2. \A f \in Moved(op) : f < g + 1
        <4>1. First(op) \in Int /\ Length(op) \in Int
              /\ \A f \in Moved(op) : f \in Int /\ f < First(op) + Length(op)
          BY <1>0, Widths
        <4> QED BY <1>0, <2>6, <4>1
      <3>3. ReadExact'
        BY <1>2, <1>3, <2>4, <3>2 DEF ReadExact
      <3>4. op \notin Sets
        BY <1>0 DEF Sets, Gets
      <3> QED BY <1>3, <2>6, <3>1, <3>3, <3>4 DEF IInv, Bits, Clocked, ReadSoFar, WrittenSoFar, WriteExact
    <2> QED BY <1>8, <2>5, <2>6 DEF ReadBit, NextByte
  <1> QED BY <1>0, <1>2, <1>7, <1>8

\* The transaction ends.
LEMMA CloseStep == ASSUME IInv, Close PROVE IInv'
  <1>0. TypeOK /\ CallInv /\ rtc[Status] \in Byte /\ rtc[Second] \in Byte
    BY DEF IInv, TypeOK, Status, Second
  <1>c. /\ cs' \in Bit /\ clocks' \in 0..64 /\ command' \in Byte /\ shift' \in Byte /\ sLocked' = 0
        /\ UNCHANGED <<readEnable, direction, i, k, value, regs>>
    BY Constant DEF Close, Unlock, ChipDeselect, lineVars, bitVars, Bit
  <1>1. CASE Returns(1, rtc[Status], rtc[Second])
    <2>1. /\ pc' \in {"idle", "test"} /\ op' \in Ops /\ src' \in Info /\ rtc' \in [0..7 -> Byte]
          /\ stage' \in {"none", "status", "reset1", "time", "reset2"} /\ errorCode' \in 0..2
          /\ ret' \in 0..33 /\ probed' \in Bit /\ CallInv'
      BY <1>0, <1>1, ReturnFacts
    <2>2. Bits'
      BY <2>1, NotBusy
    <2>3. TypeOK' /\ LockInv'
      BY <1>0, <1>c, <2>1 DEF TypeOK, LockInv, Busy, Bit
    <2> QED BY <2>1, <2>2, <2>3 DEF IInv
  <1>2. CASE /\ op = "Reset" /\ pc' = "test" /\ op' = "SetStatus"
             /\ src' = [f \in Fields |-> IF f = Status THEN ByteOf(64) ELSE Zero]
             /\ UNCHANGED <<rtc, callVars, probed>>
    <2>1. Bits'
      BY <1>2, NotBusy
    <2>2. src' \in Info
      BY <1>2, Constant DEF Info
    <2>3. TypeOK' /\ LockInv' /\ CallInv'
      BY <1>0, <1>2, <1>c, <2>2 DEF TypeOK, LockInv, CallInv, Busy, Bit, callVars, Ops, Sets
    <2> QED BY <2>1, <2>3 DEF IInv
  <1> QED BY <1>1, <1>2 DEF Close

\* The invariant holds initially.
LEMMA InitInv == Init => IInv
  <1> SUFFICES ASSUME Init PROVE IInv
    OBVIOUS
  <1>1. TypeOK
    BY Constant, InputAssumption DEF Init, TypeOK, Bit, Ops
  <1>2. LockInv /\ CallInv /\ Bits
    BY DEF Init, LockInv, CallInv, Busy, Bits, Clocked, ReadSoFar, WrittenSoFar, ReadExact, WriteExact
  <1> QED BY <1>1, <1>2 DEF IInv

\* Every step keeps it.
LEMMA NextInv == IInv /\ [Next]_vars => IInv'
  <1> SUFFICES ASSUME IInv, [Next]_vars PROVE IInv'
    OBVIOUS
  <1>1. CASE UNCHANGED vars
    BY <1>1 DEF vars, lineVars, bitVars, callVars, chipVars, IInv, TypeOK, LockInv, CallInv, Busy, Bits,
                Clocked, Commanded, ReadSoFar, WrittenSoFar, ReadExact, WriteExact, Data
  <1>2. CASE Steps
    BY <1>2, TestStep, TakeStep, CommandStep, WriteStep, ReadStep, CloseStep DEF Steps
  <1> QED BY <1>1, <1>2, CallSteps, HandlerSteps, FailureStep DEF Next

\* The driver keeps the invariant, for all contents of structs and registers, and
\* whatever the interrupt handlers call between two bits.
THEOREM Invariance == Spec => []IInv
  BY InitInv, NextInv, PTL DEF Spec

\* Every variable keeps its type: the loops stay inside the struct and the chip is
\* clocked 64 times at most.
THEOREM TypeCorrect == Spec => []TypeOK
  <1>1. IInv => TypeOK
    BY DEF IInv
  <1> QED BY <1>1, Invariance, PTL

\* A get of siirtc that returns TRUE has read every one of its fields as the chip
\* holds it, if the port could be read all the time.
THEOREM ReadsExactly == Spec => []ReadExact
  <1>1. IInv => ReadExact
    BY DEF IInv, Bits
  <1> QED BY <1>1, Invariance, PTL

\* A set of siirtc that returns TRUE has put every one of its fields into the chip.
THEOREM WritesExactly == Spec => []WriteExact
  <1>1. IInv => WriteExact
    BY DEF IInv, Bits
  <1> QED BY <1>1, Invariance, PTL

-----------------------------------------------------------------------------
(* The probe.                                                              *)

\* The status of the chip says 24-hour mode; its seconds are out of test mode.
Hours24  == regs[Status][6] = 1
Untested == regs[Second][7] = 0

\* A reset has put the chip into 12-hour mode, and its status is yet to be set.
Between ==
  \/ op = "Reset" /\ pc = "close"
  \/ op = "SetStatus" /\ pc \in {"test", "take", "command", "write"} /\ (pc = "test" => sLocked = 0)

\* The inductive invariant of ProbeReady.
ProbeInv ==
  /\ src[Second][7] = 0
  /\ pc = "close" /\ op = "Reset" => Untested
  /\ stage \in {"reset1", "reset2"} /\ op = "SetStatus" => Untested
  /\ stage = "time" /\ readEnable = 1 => Hours24
  /\ probed = 1 => Untested /\ (Hours24 \/ Between)

\* The program sets the seconds in BCD: it does not set their highest bit, which
\* is the chip's TEST flag.
SecondsBelow80 == \A info \in Infos : info[Second][7] = 0

\* The fields that the probe looks at.
LEMMA FieldNumbers ==
  Second \in Fields /\ Status \in Fields /\ Second = 6 /\ Status = 7 /\ AlarmHour = 8 /\ Hour = 4
  BY DEF Second, Status, Fields, AlarmHour, Hour

\* What is sent for the status sets the 24-hour mode, and no test mode is set.
LEMMA DataGood ==
  ASSUME NEW info \in Info, info[Second][7] = 0
  PROVE  DataOf(Second, info)[7] = 0 /\ DataOf(Status, info)[6] = 1
  <1>1. DataOf(Second, info) = info[Second] /\ DataOf(Status, info) = StatusData(info[Status])
    BY FieldNumbers DEF DataOf
  <1>2. StatusData(info[Status])[6] = 1
    BY DEF StatusData
  <1> QED BY <1>1, <1>2

\* A reset leaves the test mode.
LEMMA ResetGood == ChipReset[Second][7] = 0
  BY FieldNumbers DEF ChipReset, Zero

\* The structs the library itself passes set no test mode.
LEMMA SourceGood ==
  NoInfo[Second][7] = 0 /\ [f \in Fields |-> IF f = Status THEN ByteOf(64) ELSE Zero][Second][7] = 0
  BY FieldNumbers DEF NoInfo, Zero

\* A set that has succeeded has set the 24-hour mode; a get has read the flags.
LEMMA StatusSet == ASSUME IInv, ProbeInv, pc = "close", op = "SetStatus" PROVE Hours24
  <1>1. Status \in Moved("SetStatus") /\ "SetStatus" \in Sets
    BY DEF Moved, First, Length, Status, Sets
  <1>2. regs[Status] = Data(Status) /\ src \in Info
    BY <1>1 DEF IInv, Bits, WriteExact, TypeOK
  <1> QED BY <1>2, DataGood DEF Data, ProbeInv, Hours24

\* A get has read the flags of the chip.
LEMMA StatusRead ==
  ASSUME IInv, pc = "close", op = "GetStatus", readEnable = 1 PROVE rtc[Status][6] = regs[Status][6]
  <1>1. Status \in Moved("GetStatus") /\ "GetStatus" \in Gets
    BY DEF Moved, First, Length, Status, Gets
  <1>2. rtc[Status] = Kept(Status, regs[Status])
    BY <1>1 DEF IInv, Bits, ReadExact
  <1>3. Kept(Status, regs[Status]) = StatusInfo(regs[Status])
    BY FieldNumbers DEF Kept
  <1> QED BY <1>2, <1>3 DEF StatusInfo

\* The same for the seconds.
LEMMA SecondRead ==
  ASSUME IInv, pc = "close", op = "GetTime", readEnable = 1 PROVE rtc[Second] = regs[Second]
  <1>1. Second \in Moved("GetTime") /\ "GetTime" \in Gets /\ Second # Status /\ Second # Hour
    BY DEF Moved, First, Length, Status, Hour, Second, Gets
  <1> QED BY <1>1 DEF IInv, Bits, ReadExact, Kept

\* A refused operation changes nothing, and a probe it is part of is not well.
LEMMA ProbeTest == ASSUME IInv, ProbeInv, Test PROVE ProbeInv'
  <1>0. UNCHANGED <<sLocked, readEnable, regs>> /\ pc = "test"
    BY DEF Test, lineVars
  <1>u. Hours24' = Hours24 /\ Untested' = Untested
    BY <1>0 DEF Hours24, Untested
  <1>1. ASSUME ~Free, NEW second \in Uninitialised, Returns(0, Zero, second) PROVE ProbeInv'
    <2>1. readEnable = 0 /\ readEnable' = 0 /\ (probed = 1 => Untested /\ Hours24)
      BY <1>0, <1>1 DEF IInv, LockInv, Busy, TypeOK, Free, Bit, ProbeInv, Between
    <2>2. probed' = probed /\ (\/ pc' = "idle" /\ op' = "Reset" /\ src' = NoInfo /\ stage' = "none"
                               \/ pc' = "test" /\ op' = "Reset" /\ src' = src /\ stage' = "reset2")
      BY <1>1, <2>1 DEF Returns, CallReturns, ProbeReturns, ProbeCalls, AfterStatus, AfterReset
    <2> QED BY <1>u, <2>1, <2>2, SourceGood DEF ProbeInv
  <1>2. CASE Free /\ pc' = "take" /\ UNCHANGED <<op, src, rtc, callVars, probed>>
    BY <1>0, <1>2, <1>u DEF ProbeInv, Between, callVars
  <1> QED BY <1>1, <1>2 DEF Test

\* What the probe concludes from an operation that has succeeded.
LEMMA ProbeClose == ASSUME IInv, ProbeInv, Close PROVE ProbeInv'
  <1>0. UNCHANGED <<readEnable, regs>> /\ pc = "close" /\ sLocked' = 0
    BY DEF Close, lineVars, Unlock
  <1>u. Hours24' = Hours24 /\ Untested' = Untested
    BY <1>0 DEF Hours24, Untested
  <1>1. CASE op # "Reset" /\ Returns(1, rtc[Status], rtc[Second])
    <2>1. probed = 1 => Untested /\ Hours24
      BY <1>0, <1>1 DEF ProbeInv, Between
    <2>i. (stage = "status" => op = "GetStatus") /\ (stage \in {"reset1", "reset2"} => op = "SetStatus")
          /\ (stage = "time" => op = "GetTime")
      BY <1>1 DEF IInv, CallInv
    <2>2. ASSUME NEW n, CallReturns(n), probed' = 1 => Untested /\ Hours24 PROVE ProbeInv'
      BY <2>2, <1>u, SourceGood DEF CallReturns, ProbeInv
    <2>3. ASSUME NEW o \in {"Reset", "GetTime"}, NEW next, NEW e, ProbeCalls(o, next, e),
                 next = "time" /\ readEnable = 1 => Hours24
          PROVE  ProbeInv'
      BY <2>1, <2>3, <1>0, <1>u DEF ProbeCalls, ProbeInv
    <2>4. CASE stage = "none" /\ CallReturns(1) /\ UNCHANGED probed
      BY <2>1, <2>2, <2>4
    <2>5. CASE stage = "status" /\ AfterStatus(rtc[Status])
      <3>1. rtc[Status][6] = 1 /\ readEnable = 1 => Hours24
        BY <2>5, <2>i, <1>0, StatusRead DEF Hours24
      <3> QED BY <2>3, <2>5, <3>1 DEF AfterStatus
    <2>6. CASE stage = "reset1" /\ ProbeCalls("GetTime", "time", 1)
      BY <2>3, <2>6, <2>i, <1>0, StatusSet
    <2>7. CASE stage = "time" /\ ProbeCalls("Reset", "reset2", errorCode)
      BY <2>3, <2>7
    <2>8. CASE stage = "time" /\ rtc[Second][7] = 0 /\ ProbeReturns(16 * errorCode + 1)
      <3>1. readEnable = 1 => Hours24 /\ Untested
        BY <2>8, <2>i, <1>0, SecondRead DEF ProbeInv, Untested
      <3> QED BY <2>1, <2>2, <2>8, <3>1 DEF ProbeReturns
    <2>9. CASE stage = "reset2" /\ AfterReset
      <3>1. Hours24 /\ Untested
        BY <2>9, <2>i, <1>0, StatusSet DEF ProbeInv
      <3> QED BY <2>2, <2>9, <3>1 DEF AfterReset, ProbeReturns
    <2> QED BY <1>1, <2>4, <2>5, <2>6, <2>7, <2>8, <2>9 DEF Returns
  <1>2. CASE /\ op = "Reset" /\ pc' = "test" /\ op' = "SetStatus"
             /\ src' = [f \in Fields |-> IF f = Status THEN ByteOf(64) ELSE Zero]
             /\ UNCHANGED <<rtc, callVars, probed>>
    <2>1. Untested /\ (stage' = "time" => FALSE)
      BY <1>0, <1>2 DEF ProbeInv, IInv, CallInv, callVars
    <2>2. src'[Second][7] = 0
      BY <1>2, SourceGood
    <2> QED BY <1>0, <1>2, <1>u, <2>1, <2>2 DEF ProbeInv, Between
  <1> QED BY <1>1, <1>2 DEF Close

\* Every step keeps the invariant of the probe.
LEMMA ProbeStep ==
  ASSUME SecondsBelow80 PROVE IInv /\ IInv' /\ ProbeInv /\ [Next]_vars => ProbeInv'
  <1> SUFFICES ASSUME IInv, IInv', ProbeInv, [Next]_vars PROVE ProbeInv'
    OBVIOUS
  <1> USE DEF Hours24, Untested
  <1>1. CASE UNCHANGED vars
    BY <1>1 DEF vars, lineVars, callVars, ProbeInv, Between
  <1>2. CASE Calls
    <2>0. pc = "idle" /\ stage = "none" /\ (probed = 1 => Untested /\ Hours24)
      BY <1>2 DEF Calls, SiiRtcProtect, Call, SiiRtcProbe, IInv, CallInv, ProbeInv, Between
    <2>1. ASSUME NEW locked \in Bit, SiiRtcProtect(locked) PROVE ProbeInv'
      BY <2>0, <2>1 DEF SiiRtcProtect, ProbeInv, callVars
    <2>2. ASSUME NEW o \in Ops, NEW info, info[Second][7] = 0, Call(o, info) PROVE ProbeInv'
      BY <2>0, <2>2 DEF Call, ProbeInv
    <2>3. ASSUME SiiRtcProbe PROVE ProbeInv'
      BY <2>0, <2>3 DEF SiiRtcProbe, ProbeInv
    <2>4. Sets \subseteq Ops /\ NoInfo[Second][7] = 0 /\ \A info \in Infos : info[Second][7] = 0
      BY SourceGood DEF Ops, SecondsBelow80
    <2> QED BY <1>2, <2>1, <2>2, <2>3, <2>4 DEF Calls
  <1>3. CASE PowerFailure
    <2>1. pc = "idle" /\ stage = "none"
      BY <1>3 DEF PowerFailure, IInv, CallInv
    <2> QED BY <1>3, <2>1 DEF PowerFailure, ProbeInv, callVars
  <1>4. CASE HandlerProtect
    BY <1>4 DEF HandlerProtect, SetProtection, ProbeInv, Between, callVars
  <1>5. ASSUME NEW o \in HandlerOps \ {"Protect"}, NEW info \in Infos, HandlerCall(o, info) PROVE ProbeInv'
    <2>1. info \in Info /\ info[Second][7] = 0 /\ Second \in Fields /\ Status \in Fields
      BY InputAssumption, FieldNumbers DEF SecondsBelow80
    <2>2. DataOf(Second, info)[7] = 0 /\ DataOf(Status, info)[6] = 1
      BY <2>1, DataGood
    <2>3. StatusData(ByteOf(64))[6] = 1
      BY DEF StatusData
    <2>4. (Untested => Untested') /\ (Hours24 => Hours24')
      BY <1>5, <2>1, <2>2, <2>3, ResetGood, FieldNumbers DEF HandlerCall, Performed
    <2>5. sLocked' = 0 /\ UNCHANGED <<readEnable, pc, op, src, stage, probed>>
      BY <1>5 DEF HandlerCall, callVars
    <2> HIDE DEF Hours24, Untested
    <2> QED BY <2>4, <2>5 DEF ProbeInv, Between
  <1>6. CASE Take
    BY <1>6 DEF Take, ProbeInv, Between, callVars
  <1>7. CASE SendCommand
    <2>1. regs' = IF i = 7 /\ op = "Reset" THEN ChipReset ELSE regs
      BY <1>7, CommandStep
    <2>2. /\ pc = "command" /\ UNCHANGED <<sLocked, readEnable, op, src, stage, probed>>
          /\ pc' \in {"command", "read", "write", "close"}
          /\ op = "Reset" => pc' \in {"command", "close"} /\ (pc' = "close" => i = 7) /\ (i = 7 => pc' = "close")
          /\ op = "SetStatus" => pc' \in {"command", "write"}
      BY <1>7 DEF SendCommand, callVars, Gets
    <2>3. op = "Reset" => stage # "time"
      BY DEF IInv, CallInv
    <2>4. CASE i = 7 /\ op = "Reset"
      BY <2>1, <2>2, <2>3, <2>4, ResetGood DEF ProbeInv, Between
    <2>5. CASE ~(i = 7 /\ op = "Reset")
      BY <2>1, <2>2, <2>5 DEF ProbeInv, Between
    <2> QED BY <2>4, <2>5
  <1>8. CASE WriteBit
    <2>1. /\ \A f \in Fields : regs'[f] = IF i = 7 /\ f = First(op) + k THEN Data(f) ELSE regs[f]
          /\ pc = "write" /\ op \in Sets /\ k < Length(op) /\ k \in 0..6
      BY <1>8, WriteStep DEF IInv, CallInv, Bits, Clocked, TypeOK, WriteBit
    <2>2. /\ UNCHANGED <<sLocked, readEnable, op, src, stage, probed>>
          /\ pc' = "write" \/ (pc' = "close" /\ i = 7)
      BY <1>8, <2>1 DEF WriteBit, NextByte, lineVars, callVars
    <2>3. Data(Second)[7] = 0 /\ Data(Status)[6] = 1
      BY DataGood DEF Data, ProbeInv, IInv, TypeOK
    <2>4. (Untested => Untested') /\ (Hours24 => Hours24')
      BY <2>1, <2>3, FieldNumbers
    <2>5. op = "SetStatus" /\ pc' = "close" => Hours24'
      <3>1. op = "SetStatus" => First(op) + k = Status
        BY <2>1, FieldNumbers DEF First, Length
      <3> QED BY <2>1, <2>2, <2>3, <3>1, FieldNumbers
    <2>6. op # "Reset"
      BY <2>1 DEF Sets
    <2> HIDE DEF Hours24, Untested
    <2> QED BY <2>1, <2>2, <2>4, <2>5, <2>6 DEF ProbeInv, Between
  <1>9. ASSUME NEW bit \in Bit, ReadBit(bit) PROVE ProbeInv'
    <2>1. regs' = regs /\ pc = "read" /\ op \in Gets
      BY <1>9, ReadStep DEF IInv, CallInv, ReadBit
    <2>2. UNCHANGED <<sLocked, readEnable, op, src, stage, probed>> /\ op \notin {"Reset", "SetStatus"}
      BY <1>9, <2>1 DEF ReadBit, lineVars, callVars, Gets
    <2> QED BY <2>1, <2>2 DEF ProbeInv, Between
  <1> QED BY <1>1, <1>2, <1>3, <1>4, <1>5, <1>6, <1>7, <1>8, <1>9, ProbeTest, ProbeClose
          DEF Next, Steps, Handlers

\* After a SiiRtcProbe that succeeded, every call finds the chip in 24-hour mode and
\* out of test mode, for programs that set seconds below 80 (BCD).
THEOREM ProbedIsReady == SecondsBelow80 => (Spec => []ProbeReady)
  <1> SUFFICES ASSUME SecondsBelow80 PROVE Spec => []ProbeReady
    OBVIOUS
  <1>1. Init => ProbeInv
    BY SourceGood DEF Init, ProbeInv
  <1>2. ProbeInv => ProbeReady
    BY DEF ProbeInv, Between, Hours24, Untested, ProbeReady
  <1>3. IInv /\ IInv' /\ ProbeInv /\ [Next]_vars => ProbeInv'
    BY ProbeStep
  <1> QED BY <1>1, <1>2, <1>3, Invariance, PTL DEF Spec
=============================================================================
