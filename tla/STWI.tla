-------------------------------- MODULE STWI --------------------------------
(***************************************************************************)
(* The serial driver of the GBA wireless adapter library (librfu).         *)
(*                                                                         *)
(* A request is clocked out word by word as SIO master; every word that    *)
(* has been exchanged raises IntrSIO32, which stores the received word,    *)
(* shakes hands with the adapter over the SI line (handshake_wait, a busy  *)
(* loop inside the interrupt) and starts the next exchange.  A hardware    *)
(* timer breaks the loops: 80 and 50 on the way to a restart, 130 after a  *)
(* garbled word, 100 while the adapter is the clock master.  Requests of   *)
(* the "change" family turn the GBA into the clock slave until the adapter *)
(* has delivered a command of its own.                                     *)
(*                                                                         *)
(* Three actors share gRfuState: the program, which sends requests, and    *)
(* the serial and timer interrupts, which preempt the program and, inside  *)
(* handshake_wait, each other.  The adapter is external: it may answer     *)
(* with any word, or stop answering.                                       *)
(***************************************************************************)
EXTENDS Integers

CONSTANTS
  Requests,          \* request codes the program sends
  CallbackRequests,  \* request codes librfu sends, and polls, in a callback
  DataSizes,         \* byte sizes handed to the DataTx requests
  AdapterCommands,   \* command codes the adapter sends as clock master
  AdapterReplies,    \* reply codes the adapter sends to whatever request it got
  MaxPayload,        \* longest payload the adapter announces, in words
  Impatient          \* whether the program sends while a request is pending

(***************************************************************************)
(* Request codes of librfu.h that the driver tells apart.                  *)
(***************************************************************************)
RFU_RESET                        == 16
RFU_SYSTEM_STATUS                == 19
RFU_GAME_CONFIG                  == 22
RFU_SYSTEM_CONFIG                == 23
RFU_CP_START                     == 31
RFU_DATA_TX                      == 36
RFU_DATA_TX_AND_CHANGE           == 37
RFU_MS_CHANGE                    == 39
RFU_DATA_READY_AND_CHANGE        == 40
RFU_DISCONNECTED_AND_CHANGE      == 41
RFU_DISCONNECT                   == 48
RFU_TEST_MODE                    == 49
RFU_CPR_START                    == 50
RFU_UNK35                        == 53
RFU_UNK36                        == 54
RFU_RESUME_RETRANSMIT_AND_CHANGE == 55
RFU_STOP_MODE                    == 61

AllRequests == RFU_RESET..RFU_STOP_MODE

\* A reply carries the request code plus 0x80; 0xEE is the refusal.
Reply(request) == (request + 128) % 256
Refusal        == 238

ASSUME RequestsAssumption == Requests \subseteq AllRequests
\* The callbacks of librfu.s send SystemStatus and SC_Start, never a request
\* that hands the clock to the adapter.
ASSUME CallbackAssumption ==
  CallbackRequests \subseteq AllRequests \
    {RFU_DATA_TX_AND_CHANGE, RFU_MS_CHANGE, RFU_UNK35, RFU_RESUME_RETRANSMIT_AND_CHANGE}
\* A packet holds a command word and 0x1C data words.
PacketWords == 28
ASSUME AdapterAssumption    == AdapterCommands \subseteq 0..255
ASSUME RepliesAssumption    == AdapterReplies \subseteq 0..255
ASSUME DataSizesAssumption  == DataSizes \subseteq 0..(4 * PacketWords)
ASSUME MaxPayloadAssumption == MaxPayload \in 0..PacketWords
ASSUME ImpatientAssumption  == Impatient \in BOOLEAN

VARIABLES
  \* struct RfuStruct, without buffers and callback pointers
  unk_0,          \* protocol state: 0..4 as clock master, 5..8 as clock slave
  activeCommand, txParams,  \* command and its parameter words
  unk_5,          \* words of it sent (master) or received (slave)
  unk_7, unk_8,   \* words of the response, and words of it done
  unk_9,          \* command code of the response
  timerState,     \* what the timer was set for: 1 = 50, 2 = 80, 3 = 100, 4 = 130
  timerActive,    \* tells handshake_wait that the timer has expired
  unk_12,         \* error status
  msMode,         \* 1 as clock master, 0 as clock slave
  unk_15,         \* restarts of the command
  unk_2c,         \* a request is pending
  \* the hardware, the interrupt and the callers
  xfer,  \* serial transfer in progress: "none", "internal" or "external" clock
  out,   \* SIODATA32: index of the txPacket word it holds, Idle if none
  isr,   \* handshake_wait the serial interrupt is in, "none" outside it
  cb,    \* a callback polling inside an interrupt, by what follows its return
  pc, words,  \* the program: where in STWI_send_*REQ it is, the words to send
  \* history, for the properties only
  sent,    \* words of the request the adapter got in order, -1 once out of order
  starts,  \* starts of the request since STWI_init
  owed,    \* callbacks the accepted request still has to make
  acked,   \* whether the slave's current reply grants the command
  cut,     \* whether unk_12 is still 3 from a refusal that a time-out cut off
  over     \* whether a refused send wrote unk_12 since the reply was decided

tmrVars  == <<timerState, timerActive>>
reqVars  == <<activeCommand, txParams, unk_5>>
rspVars  == <<unk_7, unk_8, unk_9>>
hwVars   == <<xfer, out>>
appVars  == <<pc, words>>
histVars == <<sent, starts, owed, acked, cut, over>>
vars == <<unk_0, reqVars, rspVars, tmrVars, unk_12, msMode, unk_15, unk_2c,
          hwVars, isr, cb, appVars, histVars>>

Idle == -1

TypeOK ==
  /\ unk_0 \in 0..8 /\ activeCommand \in 0..255 /\ unk_9 \in 0..255
  /\ txParams \in 0..PacketWords /\ unk_7 \in 0..PacketWords
  /\ unk_5 \in 0..PacketWords + 1 /\ unk_8 \in 0..PacketWords + 1
  /\ timerState \in 0..4 /\ timerActive \in {0, 1}
  /\ unk_12 \in {0, 1, 2, 3, 4, 6} /\ msMode \in {0, 1}
  /\ unk_15 \in 0..2 /\ unk_2c \in {0, 1}
  /\ xfer \in {"none", "internal", "external"} /\ out \in Idle..PacketWords
  /\ isr \in {"none", "M1", "M0", "S0", "S1"}
  /\ cb \in {"none", "plain", "plain2", "restart", "restart2"}
  /\ pc \in {"idle", "init", "hit", "start"} /\ words \in 0..PacketWords
  /\ sent \in -1..PacketWords + 1 /\ starts \in 0..3 /\ owed \in -1..1
  /\ acked \in {0, 1} /\ cut \in {0, 1} /\ over \in {0, 1}

\* STWI_init_all.
Init ==
  /\ unk_0 = 0 /\ activeCommand = 0 /\ txParams = 0 /\ unk_5 = 0
  /\ unk_7 = 0 /\ unk_8 = 0 /\ unk_9 = 0
  /\ timerState = 0 /\ timerActive = 0
  /\ unk_12 = 0 /\ msMode = 1 /\ unk_15 = 0 /\ unk_2c = 0
  /\ xfer = "none" /\ out = Idle /\ isr = "none" /\ cb = "none"
  /\ pc = "idle" /\ words = 0
  /\ sent = 0 /\ starts = 0 /\ owed = 0 /\ acked = 0 /\ cut = 0 /\ over = 0

-----------------------------------------------------------------------------
(***************************************************************************)
(* Sending a request.                                                      *)
(***************************************************************************)

\* Parameter words each STWI_send_*REQ may put behind the command word.
ParamWords(request) ==
  CASE request \in {RFU_DATA_TX, RFU_DATA_TX_AND_CHANGE} ->
         {size \div 4 + (IF size % 4 = 0 THEN 0 ELSE 1) : size \in DataSizes}
    [] request = RFU_DATA_READY_AND_CHANGE -> {0, 1}
    [] request \in {RFU_SYSTEM_CONFIG, RFU_CP_START, RFU_DISCONNECTED_AND_CHANGE,
                    RFU_DISCONNECT, RFU_TEST_MODE} -> {1}
    [] request = RFU_CPR_START -> {2}
    [] request = RFU_GAME_CONFIG -> {6}
    [] OTHER -> {0}

\* Clearing the response fields; every fresh command begins with it.
ClearResponse == unk_7' = 0 /\ unk_8' = 0 /\ unk_9' = 0

\* Clearing the status fields.  The hardware timer is left running: its
\* interrupt does nothing while timerState is 0.
ClearStatus == timerState' = 0 /\ timerActive' = 0 /\ unk_12' = 0 /\ unk_15' = 0

\* The command word goes into SIODATA32 and the first exchange begins; it is
\* start number n + 1 of the request.
StartKeepsIndex(n) ==
  /\ unk_0' = 0 /\ unk_5' = unk_5
  /\ xfer' = "internal" /\ out' = 0
  /\ sent' = 0 /\ starts' = n + 1
STWI_start_Command(n) ==
  /\ unk_0' = 0 /\ unk_5' = 1
  /\ xfer' = "internal" /\ out' = 0
  /\ sent' = 0 /\ starts' = n + 1

\* The program runs only when no interrupt and no callback does.
ProgramRuns == isr = "none" /\ cb = "none"

\* STWI_init turns a request away.  The pending request loses its busy flag
\* to the one that is refused for it.
SendRefused ==
  /\ ProgramRuns /\ pc = "idle"
  /\ unk_2c = 1 => Impatient
  /\ \/ unk_12' = 6 /\ UNCHANGED unk_2c             \* called with IME off
     \/ unk_2c = 1 /\ unk_12' = 2 /\ unk_2c' = 0
     \/ unk_2c = 0 /\ msMode = 0 /\ unk_12' = 4 /\ UNCHANGED unk_2c
  /\ cut' = 0 /\ over' = 1
  /\ UNCHANGED <<unk_0, reqVars, rspVars, tmrVars, msMode, unk_15, hwVars, isr, cb,
                 appVars, sent, starts, owed, acked>>

\* STWI_init takes the request on, up to the clearing of unk_9.  Interrupts
\* stay enabled throughout.
SendAccepted_NotBusy(request) ==
  /\ ProgramRuns /\ pc = "idle"
  /\ unk_2c = 0 /\ msMode = 1
  /\ activeCommand' = request /\ txParams' = 0 /\ unk_5' = 0
  /\ unk_0' = 0 /\ ClearResponse
  /\ pc' = "init" /\ words' \in ParamWords(request)
  /\ owed' = 1
  /\ UNCHANGED <<unk_2c, tmrVars, unk_12, msMode, unk_15, hwVars, isr, cb, sent, starts,
                 acked, cut, over>>
SendAccepted(request) ==
  /\ ProgramRuns /\ pc = "idle"
  /\ unk_2c = 0 /\ msMode = 1
  /\ unk_2c' = 1
  /\ activeCommand' = request /\ txParams' = 0 /\ unk_5' = 0
  /\ unk_0' = 0 /\ ClearResponse
  /\ pc' = "init" /\ words' \in ParamWords(request)
  /\ owed' = 1
  /\ UNCHANGED <<tmrVars, unk_12, msMode, unk_15, hwVars, isr, cb, sent, starts,
                 acked, cut, over>>

\* The rest of STWI_init; writing SIOCNT ends a transfer in progress.
SendInit ==
  /\ ProgramRuns /\ pc \in {"init", "hit"}
  /\ ClearStatus
  /\ xfer' = "none"
  /\ pc' = "start"
  /\ starts' = 0 /\ cut' = 0
  /\ UNCHANGED <<unk_0, reqVars, rspVars, msMode, unk_2c, out, isr, cb, words, sent, owed,
                 acked, over>>

\* The caller sets txParams, then STWI_start_Command.
SendStart ==
  /\ ProgramRuns /\ pc = "start"
  /\ txParams' = words
  /\ STWI_start_Command(starts)
  /\ pc' = "idle"
  /\ UNCHANGED <<activeCommand, rspVars, tmrVars, unk_12, msMode, unk_15, unk_2c, isr, cb,
                 words, owed, acked, cut, over>>

AgbRFU_SoftReset ==
  /\ ProgramRuns /\ pc = "idle"
  /\ unk_0' = 0 /\ txParams' = 0 /\ unk_5' = 0 /\ activeCommand' = 0
  /\ ClearResponse /\ ClearStatus
  /\ msMode' = 1 /\ unk_2c' = 0
  /\ xfer' = "none"
  /\ owed' = 0 /\ cut' = 0
  /\ UNCHANGED <<out, isr, cb, appVars, sent, starts, acked, over>>

\* An interrupt preempts the program.  STWI_init is a dozen stores, a word
\* on the wire takes longer: at most one interrupt falls between its halves.
Preempt ==
  /\ pc = "hit" => cb # "none"
  /\ pc' = IF pc = "init" THEN "hit" ELSE pc
  /\ UNCHANGED words

-----------------------------------------------------------------------------
(***************************************************************************)
(* Callbacks.  A callback of librfu may send a request and poll it to its  *)
(* end before it returns (rfu_CB_pollAndEndSearchChild), or two such       *)
(* requests (rfu_CB_disconnect); their own callback is the default one,    *)
(* which sends nothing.  What the caller does after the callback is part   *)
(* of returning from it: STWI_restart_Command then sets unk_0 to 4.        *)
(***************************************************************************)

\* The whole of STWI_init and of STWI_start_Command, from a callback.  msMode,
\* isr and the program's variables are the caller's to set.
CallbackRequest ==
  /\ activeCommand' \in CallbackRequests
  /\ txParams' \in ParamWords(activeCommand')
  /\ unk_2c' = 1
  /\ ClearResponse /\ ClearStatus
  /\ STWI_start_Command(0)
  /\ owed' = 1 /\ cut' = 0
  /\ UNCHANGED <<acked, over>>

\* The callback sends a request and polls ...
CallbackSends(from) == cb = "none" /\ cb' = from /\ CallbackRequest

\* ... and when the poll has ended it may send a second one, which STWI_init
\* refuses if the adapter got the clock in answer to the first.
CallbackSendsAgain ==
  /\ cb \in {"plain", "restart"} /\ isr = "none" /\ unk_2c = 0
  /\ cb' = IF cb = "plain" THEN "plain2" ELSE "restart2"
  /\ \/ msMode = 1 /\ CallbackRequest
     \/ /\ msMode = 0
        /\ unk_12' = 4 /\ cut' = 0 /\ over' = 1
        /\ UNCHANGED <<unk_0, reqVars, rspVars, tmrVars, unk_15, unk_2c, hwVars,
                       sent, starts, owed, acked>>
  /\ UNCHANGED <<msMode, isr, appVars>>

\* The callback of the pending request is made, and sends nothing.
CallbackMade ==
  /\ owed' = IF owed = -1 THEN -1 ELSE owed - 1
  /\ UNCHANGED <<cb, sent, starts, acked, cut, over>>

\* STWI_poll_CommandEnd of the callback ends, and the callback returns.
CallbackReturn ==
  /\ cb # "none" /\ isr = "none" /\ unk_2c = 0
  /\ unk_0' = IF cb \in {"restart", "restart2"} THEN 4 ELSE unk_0
  /\ cb' = "none"
  /\ UNCHANGED <<reqVars, rspVars, tmrVars, unk_12, msMode, unk_15, unk_2c, hwVars, isr,
                 appVars, histVars>>

-----------------------------------------------------------------------------
(***************************************************************************)
(* The timer interrupt.  The handshake loop leaves as soon as it has seen  *)
(* timerActive, long before the timer expires once more.                   *)
(***************************************************************************)
TimerExpires == timerState # 0 /\ (isr # "none" => timerActive = 0)

ChangeRequests ==
  {RFU_MS_CHANGE, RFU_DATA_TX_AND_CHANGE, RFU_UNK35, RFU_RESUME_RETRANSMIT_AND_CHANGE}

\* A request is started over once.
MayRestart_Once == unk_15 < 1

\* A request is started over twice.
MayRestart == unk_15 <= 1

\* The request is started over; STWI_stop_timer has left timerState 0.
StartOver ==
  /\ MayRestart
  /\ unk_15' = unk_15 + 1
  /\ STWI_start_Command(starts)
  /\ timerState' = 0
  /\ UNCHANGED <<activeCommand, txParams, rspVars, timerActive, unk_12, unk_2c,
                 cb, owed, acked, cut, over>>

\* The request fails: the callback is told, and sends nothing ...
GiveUp ==
  /\ ~MayRestart
  /\ unk_12' = 1 /\ unk_2c' = 0
  /\ CallbackMade
  /\ unk_0' = IF activeCommand \in ChangeRequests THEN unk_0 ELSE 4
  /\ timerState' = 0
  /\ UNCHANGED <<reqVars, rspVars, timerActive, unk_15, hwVars>>

\* ... or it sends another request and polls.
GiveUpAndSend ==
  /\ ~MayRestart
  /\ CallbackSends(IF activeCommand \in ChangeRequests THEN "plain" ELSE "restart")

STWI_restart_Command == StartOver \/ GiveUp \/ GiveUpAndSend

\* timerState 2: the handshake is overdue.
TimerHandshake_NoRestart ==
  /\ TimerExpires /\ timerState = 2
  /\ timerActive' = 1 /\ timerState' = 0
  /\ UNCHANGED <<unk_0, reqVars, rspVars, unk_12, msMode, unk_15, unk_2c, hwVars, isr, cb,
                 appVars, histVars>>
TimerHandshake ==
  /\ TimerExpires /\ timerState = 2
  /\ timerActive' = 1 /\ timerState' = 1
  /\ UNCHANGED <<unk_0, reqVars, rspVars, unk_12, msMode, unk_15, unk_2c, hwVars, isr, cb,
                 appVars, histVars>>

\* timerState 1 and 4: the request starts over, or fails.
TimerRestart ==
  /\ TimerExpires /\ timerState \in {1, 4}
  /\ STWI_restart_Command
  /\ Preempt
  /\ UNCHANGED <<msMode, isr>>

\* timerState 3: the adapter, which has the clock, went silent.
\* STWI_reset_ClockCounter, then callbackM(255, 0).
TimerSlave_Deaf ==
  /\ TimerExpires /\ timerState = 3
  /\ timerActive' = 1 /\ timerState' = 0
  /\ unk_0' = 5 /\ txParams' = 0 /\ unk_5' = 0
  /\ xfer' = "none" /\ out' = Idle
  /\ cut' = IF unk_12 = 3 THEN 1 ELSE 0
  /\ Preempt
  /\ UNCHANGED <<activeCommand, rspVars, unk_12, msMode, unk_15, unk_2c, isr, cb,
                 sent, starts, owed, acked, over>>
TimerSlave ==
  /\ TimerExpires /\ timerState = 3
  /\ timerActive' = 1 /\ timerState' = 0
  /\ unk_0' = 5 /\ txParams' = 0 /\ unk_5' = 0
  /\ xfer' = "external" /\ out' = Idle
  /\ cut' = IF unk_12 = 3 THEN 1 ELSE 0
  /\ Preempt
  /\ UNCHANGED <<activeCommand, rspVars, unk_12, msMode, unk_15, unk_2c, isr, cb,
                 sent, starts, owed, acked, over>>

\* handshake_wait returns 1, and the serial interrupt with it.
HandshakeTimeout ==
  /\ isr # "none" /\ timerActive = 1
  /\ timerActive' = 0
  /\ isr' = "none"
  /\ UNCHANGED <<unk_0, reqVars, rspVars, timerState, unk_12, msMode, unk_15, unk_2c, hwVars, cb,
                 appVars, histVars>>

-----------------------------------------------------------------------------
(***************************************************************************)
(* The serial interrupt with the GBA as clock master.  What the adapter    *)
(* has put on the wire is chosen here; its reply code need not be that of  *)
(* the request.                                                            *)
(***************************************************************************)

\* The exchange of a word is over.
MasterIntr ==
  /\ isr = "none" /\ xfer # "none" /\ msMode = 1
  /\ xfer' = "none"
  /\ sent' = IF out = Idle THEN sent ELSE IF out = sent THEN sent + 1 ELSE -1
  /\ Preempt
  /\ UNCHANGED <<activeCommand, txParams, timerActive, unk_12, msMode, unk_15, unk_2c, cb,
                 starts, owed, acked, cut, over>>

\* A word of the request went out and 0x80000000 came back.
MasterSend ==
  /\ MasterIntr /\ unk_0 = 0
  /\ timerState' = 2 /\ isr' = "M1"
  /\ \/ unk_5 <= txParams /\ unk_5' = unk_5 + 1 /\ out' = unk_5 /\ UNCHANGED unk_0
     \/ unk_5 > txParams /\ unk_0' = 1 /\ out' = Idle /\ UNCHANGED unk_5
  /\ UNCHANGED rspVars

\* State after the command word of a response that announces len words.
AfterHeader(len) == IF len >= 1 THEN 2 ELSE 3

\* The command word of the response.
MasterHeader ==
  /\ MasterIntr /\ unk_0 = 1
  /\ timerState' = 2 /\ isr' = "M1"
  /\ unk_8' = 1
  /\ unk_9' \in AdapterReplies
  /\ unk_7' \in 0..MaxPayload
  /\ unk_0' = AfterHeader(unk_7')
  /\ out' = IF unk_0' = 2 THEN Idle ELSE out
  /\ UNCHANGED unk_5

\* A data word of the response.
MasterData ==
  /\ MasterIntr /\ unk_0 = 2
  /\ timerState' = 2 /\ isr' = "M1"
  /\ unk_8' = unk_8 + 1
  /\ unk_0' = IF unk_7 < unk_8' THEN 3 ELSE 2
  /\ out' = IF unk_0' = 2 THEN Idle ELSE out
  /\ UNCHANGED <<unk_5, unk_7, unk_9>>

\* Neither what the request phase nor what the response phase expects.
MasterGarbled_NoTimer ==
  /\ MasterIntr /\ unk_0 \in {0, 1}
  /\ timerState' = 0
  /\ UNCHANGED <<unk_0, unk_5, rspVars, out, isr>>
MasterGarbled ==
  /\ MasterIntr /\ unk_0 \in {0, 1}
  /\ timerState' = 4
  /\ UNCHANGED <<unk_0, unk_5, rspVars, out, isr>>

\* handshake_wait(1) returns 0.
MasterHandshake ==
  /\ isr = "M1" /\ timerActive = 0
  /\ isr' = "M0"
  /\ UNCHANGED <<unk_0, reqVars, rspVars, tmrVars, unk_12, msMode, unk_15, unk_2c, hwVars, cb,
                 appVars, histVars>>

\* The replies that hand the clock over, whatever the request was.
Handover == {Reply(request) : request \in ChangeRequests}

\* handshake_wait(0) returns 0 in the middle of the dialogue.
MasterNext ==
  /\ isr = "M0" /\ timerActive = 0 /\ unk_0 # 3
  /\ isr' = "none"
  /\ timerState' = 0
  /\ xfer' = "internal"
  /\ UNCHANGED <<unk_0, reqVars, rspVars, timerActive, unk_12, msMode, unk_15, unk_2c, out, cb,
                 appVars, histVars>>

\* handshake_wait(0) returns 0 at the end of it: the adapter gets the clock,
\* and the callback is refused what it tries to send ...
MasterHandover ==
  /\ isr = "M0" /\ timerActive = 0 /\ unk_0 = 3 /\ unk_9 \in Handover
  /\ isr' = "none"
  /\ timerState' = 0
  /\ msMode' = 0 /\ unk_0' = 5
  /\ unk_2c' = 0 /\ CallbackMade
  /\ \/ unk_12' = unk_12
     \/ cb = "none" /\ unk_12' = 4
  /\ xfer' = "external" /\ out' = Idle
  /\ UNCHANGED <<reqVars, rspVars, timerActive, unk_15, appVars>>

\* ... or the request is done; its callback may send the next one.
MasterDone ==
  /\ isr = "M0" /\ timerActive = 0 /\ unk_0 = 3 /\ unk_9 \notin Handover
  /\ isr' = "none"
  /\ \/ /\ timerState' = 0
        /\ unk_0' = 4
        /\ unk_12' = IF unk_9 = Refusal THEN 3 ELSE unk_12
        /\ unk_2c' = 0 /\ CallbackMade
        /\ UNCHANGED <<reqVars, rspVars, timerActive, unk_15, hwVars>>
     \/ CallbackSends("plain")
  /\ UNCHANGED <<msMode, appVars>>

-----------------------------------------------------------------------------
(***************************************************************************)
(* The serial interrupt with the adapter as clock master.                  *)
(***************************************************************************)
SlaveIntr ==
  /\ isr = "none" /\ xfer # "none" /\ msMode = 0
  /\ timerActive' = 0 /\ timerState' = 3
  /\ xfer' = "none" /\ isr' = "S0"
  /\ Preempt
  /\ UNCHANGED <<unk_0, reqVars, rspVars, unk_12, msMode, unk_15, unk_2c, out, cb, histVars>>

\* The reply: a granted command is acknowledged, another one refused with
\* one word of error code.
Decide(command, granted) ==
  /\ unk_0' = 7 /\ unk_8' = 1 /\ out' = 0
  /\ acked' = IF command \in granted THEN 1 ELSE 0
  /\ over' = 0
  /\ \/ /\ command \in granted
        /\ unk_9' = Reply(command) /\ unk_7' = 0
        /\ UNCHANGED <<unk_12, cut>>
     \/ /\ command \notin granted
        /\ unk_7' = 1 /\ unk_12' = 3 /\ cut' = 0
        /\ UNCHANGED unk_9

\* The history of the decision stays as it is.
NoVerdict == UNCHANGED <<unk_12, acked, cut, over>>

\* Nothing to decide yet: 0x80000000 asks for the next word.
Continue == out' = Idle /\ NoVerdict /\ UNCHANGED rspVars

\* handshake_wait(0) returns 0 and the received word is processed.
SlaveWord ==
  /\ isr = "S0" /\ timerActive = 0
  /\ UNCHANGED <<timerActive, msMode, unk_15, unk_2c, xfer, cb, appVars, sent, starts, owed>>

\* The adapter's command word: its length and its code.
SlaveHeader(command) ==
  /\ SlaveWord /\ unk_0 = 5
  /\ unk_5' = 1 /\ activeCommand' = command
  /\ txParams' \in 0..MaxPayload
  /\ \/ /\ txParams' = 0
        /\ Decide(command, {RFU_MS_CHANGE, RFU_DATA_READY_AND_CHANGE,
                            RFU_DISCONNECTED_AND_CHANGE, RFU_UNK36})
     \/ /\ txParams' # 0
        /\ unk_0' = 6 /\ Continue
  /\ isr' = "S1"
  /\ UNCHANGED timerState

SlaveData ==
  /\ SlaveWord /\ unk_0 = 6
  /\ unk_5' = unk_5 + 1
  /\ \/ /\ txParams < unk_5'
        /\ Decide(activeCommand,
                  {RFU_DATA_READY_AND_CHANGE, RFU_DISCONNECTED_AND_CHANGE, RFU_UNK36})
     \/ /\ txParams >= unk_5'
        /\ Continue /\ UNCHANGED unk_0
  /\ isr' = "S1"
  /\ UNCHANGED <<activeCommand, txParams, timerState>>

\* 0x80000000 came in while the reply goes out.
SlaveReply ==
  /\ SlaveWord /\ unk_0 = 7
  /\ \/ unk_7 < unk_8 /\ unk_0' = 8 /\ UNCHANGED <<unk_8, out>>
     \/ unk_7 >= unk_8 /\ unk_8' = unk_8 + 1 /\ out' = unk_8 /\ UNCHANGED unk_0
  /\ isr' = "S1"
  /\ NoVerdict
  /\ UNCHANGED <<reqVars, unk_7, unk_9, timerState>>

\* A word in a state the slave's handler does not know, left by a callback
\* or a sender that was overtaken by a handover: it is dropped.
SlaveStray ==
  /\ SlaveWord /\ unk_0 \notin {5, 6, 7}
  /\ isr' = "S1"
  /\ NoVerdict
  /\ UNCHANGED <<unk_0, reqVars, rspVars, timerState, out>>

\* No command word, or no 0x80000000: wait for the timer, set anew to 100.
SlaveGarbled ==
  /\ SlaveWord /\ unk_0 \in {5, 7}
  /\ unk_5' = IF unk_0 = 5 THEN 1 ELSE unk_5
  /\ timerState' = 3
  /\ isr' = "none"
  /\ NoVerdict
  /\ UNCHANGED <<unk_0, activeCommand, txParams, rspVars, out>>

\* handshake_wait(1) returns 0 in the middle of the dialogue.
SlaveNext ==
  /\ isr = "S1" /\ timerActive = 0 /\ unk_0 # 8
  /\ isr' = "none"
  /\ xfer' = "external"
  /\ UNCHANGED <<unk_0, reqVars, rspVars, tmrVars, unk_12, msMode, unk_15, unk_2c, out, cb,
                 appVars, histVars>>

\* The error status of the last request stays.
InitSlaveKeepsError ==
  /\ unk_0' = 5 /\ msMode' = 0
  /\ txParams' = 0 /\ unk_5' = 0 /\ activeCommand' = 0
  /\ timerState' = 0 /\ timerActive' = 0 /\ unk_15' = 0
  /\ ClearResponse /\ UNCHANGED unk_12

\* STWI_init_slave: the adapter keeps the clock.
STWI_init_slave ==
  /\ unk_0' = 5 /\ msMode' = 0
  /\ txParams' = 0 /\ unk_5' = 0 /\ activeCommand' = 0
  /\ ClearResponse /\ ClearStatus

\* ... at the end of it, the command having been refused (callbackS(0x1EE)) ...
SlaveRefused ==
  /\ isr = "S1" /\ timerActive = 0 /\ unk_0 = 8 /\ unk_12 = 3
  /\ isr' = "none"
  /\ STWI_init_slave
  /\ xfer' = "external"
  /\ cut' = 0
  /\ UNCHANGED <<unk_2c, out, cb, appVars, sent, starts, owed, acked, over>>

\* ... or granted: the GBA has the clock again, and callbackS may send.
SlaveGranted ==
  /\ isr = "S1" /\ timerActive = 0 /\ unk_0 = 8 /\ unk_12 # 3
  /\ isr' = "none"
  /\ msMode' = 1
  /\ \/ /\ timerState' = 0
        /\ unk_0' = 0
        /\ xfer' = "none" /\ out' = Idle
        /\ UNCHANGED <<reqVars, rspVars, timerActive, unk_12, unk_15, unk_2c, cb, histVars>>
     \/ CallbackSends("plain")
  /\ UNCHANGED appVars

-----------------------------------------------------------------------------
Program   == SendRefused \/ (\E request \in Requests : SendAccepted(request))
               \/ SendInit \/ SendStart \/ AgbRFU_SoftReset
TimerIntr == TimerHandshake \/ TimerRestart \/ TimerSlave
MasterSio == MasterSend \/ MasterHeader \/ MasterData \/ MasterGarbled
SlaveSio  == SlaveIntr \/ (\E command \in AdapterCommands : SlaveHeader(command))
               \/ SlaveData \/ SlaveReply \/ SlaveStray \/ SlaveGarbled

Next ==
  \/ Program \/ CallbackSendsAgain \/ CallbackReturn
  \/ TimerIntr \/ HandshakeTimeout
  \/ MasterSio \/ MasterHandshake \/ MasterNext \/ MasterHandover \/ MasterDone
  \/ SlaveSio \/ SlaveNext \/ SlaveRefused \/ SlaveGranted

(***************************************************************************)
(* The timer runs on its own; with the internal clock a transfer always    *)
(* ends; the code between two waits always gets on.  Nothing is assumed of *)
(* the adapter and nothing of the program between two calls.               *)
(***************************************************************************)
Fairness ==
  /\ WF_vars(SendInit) /\ WF_vars(SendStart) /\ WF_vars(CallbackReturn)
  /\ WF_vars(TimerIntr) /\ WF_vars(HandshakeTimeout) /\ WF_vars(MasterSio)

Spec == Init /\ [][Next]_vars /\ Fairness

-----------------------------------------------------------------------------
(***************************************************************************)
(* Properties.                                                             *)
(***************************************************************************)

\* The protocol state and the clock mode agree: states 5 to 8 are the
\* slave's, 1 to 3 the master's, whatever interrupts and callbacks did in
\* between.  States 0 and 4 are written without a look at msMode
\* (STWI_start_Command, STWI_restart_Command after its callback) and may be
\* found on either side.
ModeMatchesState == unk_0 \in IF msMode = 1 THEN 0..4 ELSE {0, 4} \union 5..8

\* A pending request always has something that will wake it up: the program
\* is about to start it, a transfer runs, the serial interrupt is on it, or a
\* restart is scheduled.  Without it STWI_poll_CommandEnd spins for ever.
PendingHasWakeup ==
  unk_2c = 1 =>
    \/ pc # "idle"
    \/ msMode = 1 /\ xfer = "internal"
    \/ isr \in {"M1", "M0"}
    \/ isr = "none" /\ timerState \in {1, 4}

\* A serial interrupt that busy-waits in handshake_wait can always be
\* released by the timer, or has been.
HandshakeBreakable ==
  isr # "none" => timerActive = 1 \/ timerState = IF isr \in {"M1", "M0"} THEN 2 ELSE 3

\* When the driver takes in a response, the adapter has been sent the whole
\* request, command word first and every parameter in order, across restarts.
WholeRequestSent ==
  pc = "idle" /\ unk_0 \in {1, 2, 3} => sent = txParams + 1

\* Received words are stored inside the packet of 1 + 0x1C words.
PacketBounds ==
  /\ unk_0 = 2 => unk_8 <= unk_7
  /\ unk_0 = 6 => unk_5 <= txParams

\* A program that polls gets one callback per request: pending requests owe
\* one, and one that is no longer pending owes none and has not made two.
OneCallbackPerRequest == owed = unk_2c

\* The verdict on an adapter's command, when the reply is out: the slave
\* takes the clock back if and only if it acknowledged the command, with two
\* exceptions and no third.  An acknowledged command counts as refused when
\* unk_12 is still 3 from a refusal whose reply was cut off by a time-out,
\* which STWI_reset_ClockCounter does not clear; a refused one counts as
\* acknowledged when a refused send has overwritten unk_12 in the meantime.
SlaveVerdict ==
  unk_0 = 8 => IF acked = 1 THEN unk_12 = 3 <=> cut = 1
                            ELSE unk_12 = 3 <=> over = 0

\* A time-out is reported only after the request was started three times.
TimeoutNow == unk_12 # 1 /\ unk_12' = 1 => starts = 3
TimeoutAfterThreeStarts == [][TimeoutNow]_vars

\* Neither side waits for a clock that nobody drives: the GBA listens on the
\* external clock only as slave and has a request pending only as master, and
\* as slave it always listens, handles a word, or has the timer set that makes
\* it listen again; the program in the middle of STWI_send_*REQ, overtaken by a
\* handover, is the exception.
ClockSides ==
  /\ xfer = "external" => msMode = 0
  /\ unk_2c = 1 => msMode = 1
  /\ msMode = 0 =>
       xfer # "none" \/ isr \in {"S0", "S1"} \/ timerState = 3 \/ pc = "start"

\* With a program that polls, the GBA never drives the clock it has handed over.
NeverBothDrive == xfer = "internal" => msMode = 1

\* STWI_poll_CommandEnd returns: every request comes to an end, against an
\* adapter that answers anything or nothing.
PollReturns == unk_2c = 1 ~> unk_2c = 0

-----------------------------------------------------------------------------
(***************************************************************************)
(* The inductive invariant behind the properties, one part per idea.       *)
(***************************************************************************)
InMaster == isr \in {"M1", "M0"}
InSlave  == isr \in {"S0", "S1"}

\* Which timer runs where, and what timerActive tells whom.
TimerPart ==
  /\ timerState \in {1, 2, 4} => msMode = 1
  /\ timerState = 3 => msMode = 0
  /\ timerState = 2 => InMaster
  /\ InMaster => \/ timerActive = 1 /\ timerState = 1
                 \/ timerActive = 0 /\ timerState = 2
  /\ InSlave => \/ timerActive = 1 /\ timerState = 0
                \/ timerActive = 0 /\ timerState = 3
  /\ msMode = 1 /\ isr = "none" => timerActive = 0

\* Which transfer can run when; the master's handler never runs in a state
\* it does not handle.
TransferPart ==
  /\ InMaster => msMode = 1 /\ xfer = "none"
  /\ InSlave => msMode = 0
  /\ InSlave /\ timerActive = 1 => xfer = "external" /\ unk_0 = 5
  /\ xfer = "internal" /\ msMode = 1 => unk_0 \in 0..2 /\ timerState = 0
  /\ InMaster => unk_0 \in 0..3

\* Callbacks that poll, and the program inside STWI_send_*REQ.
CallerPart ==
  /\ cb # "none" /\ unk_2c = 1 => activeCommand \in CallbackRequests
  /\ cb # "none" /\ msMode = 1 /\ unk_2c = 0 =>
       unk_0 \in {0, 4} /\ isr = "none" /\ timerState = 0 /\ xfer = "none"
  /\ pc = "init" => msMode = 1 /\ unk_0 = 0 /\ isr = "none" /\ cb = "none"
  /\ pc = "hit" /\ msMode = 1 /\ cb = "none" => unk_0 \in {0, 1, 4}
  /\ pc = "start" => timerState = 0 /\ xfer = "none" /\ isr = "none" /\ cb = "none"

\* Progress of the request on the wire.
SentPart ==
  pc = "idle" =>
    /\ unk_0 = 0 /\ (xfer = "internal" \/ InMaster) =>
         /\ unk_5 \in 1..txParams + 1
         /\ out = unk_5 - 1 /\ sent = unk_5 - 1
    /\ unk_0 \in {1, 2, 3} => out = Idle /\ sent = txParams + 1

\* Where unk_12 can say 3, and what it tells while a reply goes out.
ErrorPart ==
  /\ msMode = 1 /\ unk_12 = 3 =>
       xfer = "none" /\ isr = "none" /\ timerState = 0 /\ pc # "start"
  /\ cut = 1 => msMode = 0 /\ unk_12 = 3
  /\ unk_0 \in {5, 6} => (unk_12 = 3 <=> cut = 1)
  /\ unk_0 = 7 /\ pc # "start" =>
       IF acked = 1 THEN unk_12 = 3 <=> cut = 1 ELSE unk_12 = 3 <=> over = 0
  /\ unk_0 = 8 => isr = "S1"

\* Starts are counted by unk_15.
StartsPart ==
  /\ xfer = "internal" \/ InMaster \/ timerState \in {1, 4} => starts = unk_15 + 1
  /\ pc = "start" => starts = 0 /\ unk_15 = 0

\* With a program that polls: the driver is at rest unless a request is pending.
PatientPart ==
  ~Impatient =>
    /\ OneCallbackPerRequest
    /\ msMode = 1 /\ unk_2c = 0 =>
         xfer = "none" /\ isr = "none" /\ timerState = 0 /\ pc = "idle"
    /\ pc # "idle" =>
         xfer = "none" /\ isr = "none" /\ timerState = 0 /\ cb = "none" /\ msMode = 1
    /\ NeverBothDrive

\* Who runs, on which clock, and what wakes it up.
Control ==
  ModeMatchesState /\ PendingHasWakeup /\ ClockSides /\ TimerPart /\ TransferPart /\ CallerPart
\* What went over the wire, and how often the request was started.
Progress == SentPart /\ StartsPart
\* The error status, the verdict on the adapter's commands, the callbacks.
Status == ErrorPart /\ SlaveVerdict /\ PatientPart

IInv == TypeOK /\ PacketBounds /\ Control /\ Progress /\ Status
=============================================================================
