------------------------------- MODULE RfuNI -------------------------------
(***************************************************************************)
(* The link layer of the wireless adapter: NI data, blocks a parent sends  *)
(* to children over a link that loses and repeats frames (librfu.s).       *)
(*                                                                         *)
(* A block is announced by a control block (its kind, the payload of a     *)
(* subframe, its size), follows in subframes, and is closed by an end      *)
(* subframe; the sender is in one of the states 0x8021, 0x8022, 0x8023,    *)
(* the receiver in 0x8041, 0x8042, 0x8043.  Data goes out in W phases in   *)
(* turn, phase p carrying the subframes p, p + W, p + 2W, ...; every phase *)
(* repeats its subframe, under a number of two bits, until each target has *)
(* acknowledged it.  Nothing identifies the block a subframe belongs to.   *)
(*                                                                         *)
(* Sizes and places count subframes, not bytes: a subframe is <<t, i>>,    *)
(* the i-th of block t.                                                    *)
(***************************************************************************)
EXTENDS Integers, Sequences

CONSTANTS
  Child,     \* connected children
  W,         \* phases: 4 in the code
  CtlLen,    \* subframes of a control block (7 bytes)
  Sizes,     \* sizes of the blocks the parent sends, in this order
  BufLen,    \* size of a child's receive buffer
  Cap,       \* frames under way at a time, for each child and direction
  MaxGiveUp  \* bound on the steps by which programs give a block up

ASSUME NIAssumption ==
  /\ W \in Nat \ {0} /\ CtlLen \in Nat \ {0} /\ BufLen \in Nat
  /\ Cap \in Nat \ {0} /\ MaxGiveUp \in Nat
  /\ Sizes \in Seq(Nat \ {0})

VARIABLES
  \* The parent's NI slot.
  sState,    \* state of the send slot
  sTarget,   \* bmSendSlot: children that still have to acknowledge
  sFirst,    \* the children the block was started for
  sBusy,     \* sendSlotNIFlag
  sPhase,    \* phase to send next
  sN,        \* number of each phase's subframe
  sAck,      \* children that have acknowledged each phase's subframe
  sPos,      \* the subframe each phase is at
  sRemain,   \* subframes not yet acknowledged
  ready,     \* dataReadyFlag: a frame has been handed to the adapter
  tr,        \* blocks begun: names the block in the program's buffer
  \* The children's NI slots.
  rState, rPhase, rN, rPos, rRemain,
  rInfo,     \* the block whose control block was received
  rBuf,      \* memory from the receive buffer on
  \* The link, and the give-up steps taken.
  down, up, gaveUp

sender   == <<sState, sTarget, sFirst, sBusy, sPhase, sN, sAck, sPos, sRemain>>
receiver == <<rState, rPhase, rN, rPos, rRemain, rInfo, rBuf>>
vars == <<sender, ready, tr, receiver, down, up, gaveUp>>

Phase == 0..W - 1
Place == 0..BufLen + 2 * W   \* the receive buffer and what lies behind it
Nothing == <<0, 0>>

\* The low four bits of a state: what a subframe says of its sender's state.
Kind(s) ==
  CASE s = "ctl" -> 1 [] s = "data" -> 2 [] s = "end" -> 3 [] OTHER -> 0

\* A frame whose only content is of no concern to NI: UNI data or the
\* parent's keep-alive.
Other == <<4, 0, 0, Nothing>>

\* Numbers of subframes have two bits.
Bump_Wide(n) == n + 1
Bump(n) == (n + 1) % 4

Sending      == sState \in {"ctl", "data", "end", "acked"}  \* state & 0x8000
Receiving(c) == rState[c] \in {"ctl", "data", "end"}

Init ==
  /\ sState = "none" /\ sTarget = {} /\ sFirst = {} /\ sBusy = {}
  /\ sPhase = 0 /\ sRemain = 0 /\ ready = 0 /\ tr = 0
  /\ sN = [p \in Phase |-> 0] /\ sAck = [p \in Phase |-> {}]
  /\ sPos = [p \in Phase |-> 0]
  /\ rState = [c \in Child |-> "none"]
  /\ rPhase = [c \in Child |-> 0] /\ rRemain = [c \in Child |-> 0]
  /\ rN = [c \in Child |-> [p \in Phase |-> 0]]
  /\ rPos = [c \in Child |-> [p \in Phase |-> 0]]
  /\ rInfo = [c \in Child |-> 0]
  /\ rBuf = [c \in Child |-> [i \in Place |-> Nothing]]
  /\ down = [c \in Child |-> <<>>] /\ up = [c \in Child |-> <<>>]
  /\ gaveUp = 0

-----------------------------------------------------------------------------
(* The programs.                                                           *)

\* No trace is left, at child c or under way, of a block the parent did not
\* finish.  A program that gives a block up has to see to this before it
\* addresses the child again: the library has no means to.
Quiet(c) ==
  /\ rState[c] \notin {"ctl", "data"}
  /\ \A k \in 1..Len(down[c]) : down[c][k][1] \notin {1, 2}
  /\ \A k \in 1..Len(up[c]) : up[c][k][1] \notin {1, 2}

NI_setSendData(T) ==
  /\ ~Sending /\ tr < Len(Sizes)
  /\ T # {} /\ T \intersect sBusy = {}
  /\ \A c \in T : Quiet(c)
  /\ sState' = "ctl" /\ sTarget' = T /\ sFirst' = T /\ sBusy' = sBusy \union T
  /\ sPhase' = 0 /\ sRemain' = CtlLen
  /\ sN' = [p \in Phase |-> 1] /\ sAck' = [p \in Phase |-> {}]
  /\ sPos' = [sPos EXCEPT ![0] = 0]
  /\ tr' = tr + 1
  /\ UNCHANGED <<ready, receiver, down, up, gaveUp>>

GiveUp == gaveUp < MaxGiveUp /\ gaveUp' = gaveUp + 1

\* Targets can only be removed; without targets the block has failed.
changeSendTarget(T) ==
  /\ Sending /\ T \subseteq sTarget /\ T # sTarget
  /\ GiveUp
  /\ sBusy' = sBusy \ (sTarget \ T)
  /\ sTarget' = T
  /\ sState' = IF T = {} THEN "failed" ELSE sState
  /\ UNCHANGED <<sFirst, sPhase, sN, sAck, sPos, sRemain, ready, tr, receiver,
                 down, up>>

\* rfu_clearSlot for the send slot.
clearSend ==
  /\ sState # "none"
  /\ IF Sending THEN GiveUp ELSE UNCHANGED gaveUp
  /\ sState' = "none" /\ sTarget' = {} /\ sFirst' = {} /\ sBusy' = sBusy \ sFirst
  /\ sPhase' = 0 /\ sRemain' = 0
  /\ sN' = [p \in Phase |-> 0] /\ sAck' = [p \in Phase |-> {}]
  /\ sPos' = [p \in Phase |-> 0]
  /\ UNCHANGED <<ready, tr, receiver, down, up>>

\* rfu_clearSlot for the receive slot; the buffer is the program's.
clearRecv(c) ==
  /\ rState[c] # "none"
  /\ IF Receiving(c) THEN GiveUp ELSE UNCHANGED gaveUp
  /\ rState' = [rState EXCEPT ![c] = "none"]
  /\ rPhase' = [rPhase EXCEPT ![c] = 0] /\ rRemain' = [rRemain EXCEPT ![c] = 0]
  /\ rN' = [rN EXCEPT ![c] = [p \in Phase |-> 0]]
  /\ rPos' = [rPos EXCEPT ![c] = [p \in Phase |-> 0]]
  /\ rInfo' = [rInfo EXCEPT ![c] = 0]
  /\ UNCHANGED <<sender, ready, tr, rBuf, down, up>>

NI_stopReceivingData(c) ==
  /\ Receiving(c)
  /\ GiveUp
  /\ rState' = [rState EXCEPT ![c] = IF @ = "end" THEN "stopped" ELSE "failed"]
  /\ UNCHANGED <<sender, ready, tr, rPhase, rN, rPos, rRemain, rInfo, rBuf, down, up>>

-----------------------------------------------------------------------------
(* The parent.                                                             *)

\* The first phase from sPhase on that still has a subframe to send; the
\* code looks for it in a loop that ends only if there is one.
Turn(k) == (sPhase + k) % W
Live(p) == sPos[p] < Sizes[tr]
NextPhase(p) ==
  IF sState # "data" THEN p = sPhase
  ELSE \E k \in Phase : /\ p = Turn(k) /\ Live(p)
                        /\ \A j \in 0..k - 1 : ~Live(Turn(j))

\* The subframe of phase p, as child c sees it: it names its targets, and
\* means nothing to the others.  It is empty in the states "end" and "acked".
Subframe(p, c) ==
  IF c \notin sTarget THEN Other
  ELSE <<Kind(sState), p, sN[p],
         IF sState \in {"ctl", "data"} THEN <<tr, sPos[p]>> ELSE Nothing>>

Room(link) == {c \in Child : Len(link[c]) < Cap}

\* rfu_REQ_sendData: builds the frame and hands it to the adapter; the
\* children in `heard' receive it.
REQ_sendData(p, heard) ==
  /\ Sending /\ ready = 0
  /\ NextPhase(p)
  /\ heard \subseteq Room(down)
  /\ down' = [c \in Child |-> IF c \in heard THEN Append(down[c], Subframe(p, c))
                                             ELSE down[c]]
  /\ sPhase' = IF sState = "data" THEN (p + 1) % W ELSE p
  /\ ready' = 1
  /\ UNCHANGED <<sState, sTarget, sFirst, sBusy, sN, sAck, sPos, sRemain, tr,
                 receiver, up, gaveUp>>

\* Without NI data to send there is UNI data or a keep-alive frame to send.
REQ_sendOther(heard) ==
  /\ ~Sending /\ ready = 0
  /\ heard \subseteq Room(down)
  /\ down' = [c \in Child |-> IF c \in heard THEN Append(down[c], Other)
                                             ELSE down[c]]
  /\ UNCHANGED <<sender, ready, tr, receiver, up, gaveUp>>

\* rfu_CB_sendData: the adapter has taken the frame, or has not (err = 1).
CB_sendData(err) ==
  /\ ready = 1
  /\ ready' = 0
  /\ IF err = 0 /\ sState = "acked"
     THEN sState' = "ok" /\ sBusy' = sBusy \ sTarget
     ELSE UNCHANGED <<sState, sBusy>>
  /\ UNCHANGED <<sTarget, sFirst, sPhase, sN, sAck, sPos, sRemain, tr, receiver,
                 down, up, gaveUp>>

\* rfu_STC_NI_receive_Sender: child c acknowledges number n of phase p in
\* the state of kind k.
Acked_AnyKind(c, k, p, n) ==
  IF sN[p] = n THEN sAck[p] \union {c} ELSE sAck[p]
Acked(c, k, p, n) ==
  IF Kind(sState) = k /\ sN[p] = n THEN sAck[p] \union {c} ELSE sAck[p]

\* The subframe of phase p has reached every target.
LastOne_Late == IF sState = "data" THEN sRemain < 1 ELSE sRemain <= 1
LastOne == sRemain <= 1
NextSubframe(p) ==
  CASE sState \in {"ctl", "data"} /\ ~LastOne ->
         /\ sN' = [sN EXCEPT ![p] = Bump(@)]
         /\ sPos' = [sPos EXCEPT ![p] = @ + (IF sState = "ctl" THEN 1 ELSE W)]
         /\ sRemain' = sRemain - 1
         /\ UNCHANGED <<sState, sPhase>>
    [] sState = "ctl" /\ LastOne ->
         /\ sN' = [q \in Phase |-> 1] /\ sPos' = [q \in Phase |-> q]
         /\ sRemain' = Sizes[tr] /\ sPhase' = 0 /\ sState' = "data"
    [] sState = "data" /\ LastOne ->
         /\ sN' = [[sN EXCEPT ![p] = Bump(@)] EXCEPT ![0] = 0]
         /\ sPos' = [sPos EXCEPT ![p] = @ + W]
         /\ sRemain' = 0 /\ sPhase' = 0 /\ sState' = "end"
    [] OTHER ->
         /\ sN' = [sN EXCEPT ![p] = Bump(@)]
         /\ sState' = IF sState = "end" THEN "acked" ELSE sState
         /\ UNCHANGED <<sPos, sRemain, sPhase>>

Everyone_Any(who) == who \intersect sTarget # {}
Everyone(who) == sTarget \subseteq who
NI_receive_Sender(c, k, p, n) ==
  IF Everyone(Acked(c, k, p, n))
  THEN /\ sAck' = [sAck EXCEPT ![p] = {}]
       /\ NextSubframe(p)
  ELSE /\ sAck' = [sAck EXCEPT ![p] = Acked(c, k, p, n)]
       /\ UNCHANGED <<sState, sPhase, sN, sPos, sRemain>>

\* rfu_CB_recvData at the parent: a frame of child c, which may come again.
CB_recvAck(c, again) ==
  /\ ready = 0 /\ up[c] # <<>>
  /\ LET f == Head(up[c]) IN
       IF c \in sTarget /\ c \in sBusy
       THEN NI_receive_Sender(c, f[1], f[2], f[3])
       ELSE UNCHANGED <<sState, sPhase, sN, sAck, sPos, sRemain>>
  /\ up' = IF again THEN up ELSE [up EXCEPT ![c] = Tail(@)]
  /\ UNCHANGED <<sTarget, sFirst, sBusy, ready, tr, receiver, down, gaveUp>>

-----------------------------------------------------------------------------
(* A child.                                                                *)

\* The child's frame carries an acknowledgement: the number of the last
\* subframe it took in the phase it heard last.
SendAck(c) ==
  /\ Receiving(c) /\ c \in Room(up)
  /\ up' = [up EXCEPT ![c] =
              Append(@, <<Kind(rState[c]), rPhase[c], rN[c][rPhase[c]], Nothing>>)]
  /\ UNCHANGED <<sender, ready, tr, receiver, down, gaveUp>>

\* rfu_STC_NI_receive_Receiver: what a child does with the subframe
\* f = <<kind, phase, number, piece>>.  A subframe is taken if its number is the
\* one expected in its phase.
Expected_Any(x, n) == TRUE
Expected(x, n) == n = Bump(x)

\* A control block.  The first subframe of one opens a slot that is clear
\* (rfu_STC_NI_initSlot_asRecvControllData).
RecvControl(c, f) ==
  /\ f[1] = 1 /\ rState[c] \in {"none", "ctl"}
  /\ LET p == f[2]
         left == IF rState[c] = "none" THEN CtlLen ELSE rRemain[c] IN
       IF Expected(rN[c][p], f[3])
       THEN /\ rN' = [rN EXCEPT ![c] = [@ EXCEPT ![p] = f[3]]]
            /\ rPos' = [rPos EXCEPT ![c][p] = @ + 1]
            /\ rRemain' = [rRemain EXCEPT ![c] = left - 1]
            /\ rInfo' = [rInfo EXCEPT ![c] = f[4][1]]
       ELSE /\ rRemain' = [rRemain EXCEPT ![c] = left]
            /\ UNCHANGED <<rN, rPos, rInfo>>
  /\ rState' = [rState EXCEPT ![c] = "ctl"]
  /\ rPhase' = [rPhase EXCEPT ![c] = f[2]]
  /\ UNCHANGED rBuf

\* The first data subframe behind a whole control block turns the slot to data
\* (rfu_STC_NI_initSlot_asRecvDataEntity), if the block fits the buffer.
DataBegins(c) == rState[c] = "ctl" /\ rRemain[c] = 0
Fits(c) == Sizes[rInfo[c]] <= BufLen

RecvTooLong(c, f) ==
  /\ f[1] = 2 /\ DataBegins(c) /\ ~Fits(c)
  /\ rState' = [rState EXCEPT ![c] = "failed"]
  /\ UNCHANGED <<rPhase, rN, rPos, rRemain, rInfo, rBuf>>

FirstNumbers_Kept(c) == rN[c]
FirstNumbers(c) == [p \in Phase |-> 0]
RecvData(c, f) ==
  /\ f[1] = 2
  /\ rState[c] = "data" \/ (DataBegins(c) /\ Fits(c))
  /\ LET p == f[2]
         begins == rState[c] = "ctl"
         n == IF begins THEN FirstNumbers(c) ELSE rN[c]
         pos == IF begins THEN [q \in Phase |-> q] ELSE rPos[c]
         left == IF begins THEN Sizes[rInfo[c]] ELSE rRemain[c] IN
       IF Expected(n[p], f[3])
       THEN /\ rN' = [rN EXCEPT ![c] = [n EXCEPT ![p] = f[3]]]
            /\ rPos' = [rPos EXCEPT ![c] = [pos EXCEPT ![p] = @ + W]]
            /\ rRemain' = [rRemain EXCEPT ![c] = left - 1]
            /\ rBuf' = [rBuf EXCEPT ![c] = [@ EXCEPT ![pos[p]] = f[4]]]
       ELSE /\ rN' = [rN EXCEPT ![c] = n]
            /\ rPos' = [rPos EXCEPT ![c] = pos]
            /\ rRemain' = [rRemain EXCEPT ![c] = left]
            /\ UNCHANGED rBuf
  /\ rState' = [rState EXCEPT ![c] = "data"]
  /\ rPhase' = [rPhase EXCEPT ![c] = f[2]]
  /\ UNCHANGED rInfo

RecvEnd(c, f) ==
  /\ f[1] = 3 /\ rState[c] = "data"
  /\ rState' = [rState EXCEPT ![c] = "end"]
  /\ rPhase' = [rPhase EXCEPT ![c] = f[2]]
  /\ rN' = [rN EXCEPT ![c] = [@ EXCEPT ![0] = 0]]
  /\ UNCHANGED <<rPos, rRemain, rInfo, rBuf>>

\* rfu_CB_recvData at a child: a receiver that has seen the end is done with
\* the first frame that does not repeat it.
Closes_OnNI(c, k) == rState[c] = "end" /\ k = 0
Closes(c, k) == rState[c] = "end" /\ k # 3

\* A subframe that says nothing new to a slot in this state.
RecvNothing(c, f) ==
  /\ \/ f[1] = 1 /\ rState[c] \notin {"none", "ctl"}
     \/ f[1] = 2 /\ rState[c] # "data" /\ ~DataBegins(c)
     \/ f[1] = 3 /\ rState[c] # "data"
     \/ f[1] \in {0, 4}
  /\ rState' = [rState EXCEPT ![c] = IF Closes(c, f[1]) THEN "ok" ELSE @]
  /\ rPhase' = [rPhase EXCEPT ![c] =
                  IF f[1] \in {0, 2, 3} /\ rState[c] # "failed" THEN f[2] ELSE @]
  /\ UNCHANGED <<rN, rPos, rRemain, rInfo, rBuf>>

CB_recvData(c, again) ==
  /\ down[c] # <<>>
  /\ LET f == Head(down[c]) IN
       \/ RecvControl(c, f) \/ RecvTooLong(c, f) \/ RecvData(c, f)
       \/ RecvEnd(c, f) \/ RecvNothing(c, f)
  /\ down' = IF again THEN down ELSE [down EXCEPT ![c] = Tail(@)]
  /\ UNCHANGED <<sender, ready, tr, up, gaveUp>>

-----------------------------------------------------------------------------
Next ==
  \/ \E T \in SUBSET Child : NI_setSendData(T) \/ changeSendTarget(T)
  \/ clearSend
  \/ \E c \in Child : clearRecv(c) \/ NI_stopReceivingData(c) \/ SendAck(c)
  \/ \E heard \in SUBSET Child :
       REQ_sendOther(heard) \/ \E p \in Phase : REQ_sendData(p, heard)
  \/ \E err \in {0, 1} : CB_sendData(err)
  \/ \E c \in Child, again \in BOOLEAN : CB_recvAck(c, again) \/ CB_recvData(c, again)

\* The parent and the children keep exchanging frames, and the link is not
\* cut: of what is sent again and again something arrives.  The phases count
\* apart, as the loss of a frame does not depend on the phase it carries.
Fairness ==
  /\ \A c \in Child :
       /\ \A p \in Phase :
            /\ SF_vars(\E heard \in SUBSET Child : c \in heard /\ REQ_sendData(p, heard))
            /\ SF_vars(rPhase[c] = p /\ SendAck(c))
       /\ SF_vars(\E heard \in SUBSET Child : c \in heard /\ REQ_sendOther(heard))
       /\ SF_vars(CB_recvAck(c, FALSE))
       /\ WF_vars(CB_recvData(c, FALSE))
       /\ WF_vars(rState[c] = "ok" /\ clearRecv(c))
  /\ SF_vars(CB_sendData(0))

SafeSpec == Init /\ [][Next]_vars
Spec == SafeSpec /\ Fairness

-----------------------------------------------------------------------------
(* Properties.                                                             *)

\* Every variable has a value of its type.
TypeOK ==
  /\ sState \in {"none", "ctl", "data", "end", "acked", "ok", "failed"}
  /\ sTarget \subseteq Child /\ sFirst \subseteq Child /\ sBusy \subseteq Child
  /\ sPhase \in Phase /\ sRemain \in Nat /\ ready \in {0, 1} /\ tr \in 0..Len(Sizes)
  /\ sN \in [Phase -> 0..3] /\ sAck \in [Phase -> SUBSET Child]
  /\ sPos \in [Phase -> Nat]
  /\ rState \in [Child -> {"none", "ctl", "data", "end", "ok", "failed", "stopped"}]
  /\ rPhase \in [Child -> Phase] /\ rRemain \in [Child -> Int]
  /\ rN \in [Child -> [Phase -> 0..3]] /\ rPos \in [Child -> [Phase -> Nat]]
  /\ rInfo \in [Child -> 0..Len(Sizes)]
  /\ rBuf \in [Child -> [Place -> (0..Len(Sizes)) \X Place]]
  /\ gaveUp \in 0..MaxGiveUp

\* No subframe is stored twice, out of place or past the end of the receive
\* buffer (rfu_STC_NI_receive_Receiver computes the place itself, from the
\* number of subframes it took in a phase).
InPlace ==
  \A c \in Child, i \in Place :
    rBuf[c][i] # Nothing =>
      /\ rBuf[c][i][2] = i /\ i < Sizes[rBuf[c][i][1]] /\ i < BufLen

\* While data is to be sent some phase has a subframe to send: the loop of
\* rfu_STC_NI_constructLLSF that looks for one comes to an end.
PhaseToSend == sState = "data" => \E p \in Phase : Live(p)

\* Success leaves nothing behind that a next block could be mistaken for,
\* neither at a child nor under way, although subframes do not name their
\* block: after success a program may go on at once.
SuccessIsClean ==
  sState = "ok" => \A c \in sTarget : Quiet(c)

\* What the sender and the receivers report is what module NITransfer allows.
Status ==
  CASE sState \in {"ctl", "data", "end"} -> "running"
    [] sState \in {"acked", "ok"} -> "done"
    [] OTHER -> "idle"
Piece(c) == [i \in Place |-> IF rBuf[c][i][2] = i THEN rBuf[c][i][1] ELSE 0]
Told(c)  == IF rState[c] = "ok" THEN rInfo[c] ELSE 0
Transfer == INSTANCE NITransfer WITH
  status <- Status, target <- sTarget, have <- [c \in Child |-> Piece(c)],
  told <- [c \in Child |-> Told(c)]

\* The sender reports success only when every remaining target holds the
\* whole block, a receiver only for a whole block and not while the sender
\* still waits for it: whatever the link loses or repeats, and whoever gives
\* up, the library implements the transfer of module NITransfer.
ImplementsTransfer == Transfer!Spec

\* A block that fits the receivers and that no program gives up is sent and
\* acknowledged to its end.
SendEnds ==
  (sState = "ctl" /\ Sizes[tr] <= BufLen) ~> (sState = "ok" \/ gaveUp > 0)

\* Every child gets to know: a receiver that has begun reports success, or, when
\* the block is too long for its buffer, failure.
TooLong(c) == rState[c] = "failed" /\ Sizes[rInfo[c]] > BufLen
ReceiveEnds ==
  \A c \in Child :
    (rState[c] = "ctl") ~> (rState[c] = "ok" \/ TooLong(c) \/ gaveUp > 0)
=============================================================================
