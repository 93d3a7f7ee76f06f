----------------------------- MODULE STWI_proofs -----------------------------
(***************************************************************************)
(* Proofs about the serial driver: every safety property of module STWI,   *)
(* for every set of requests, every adapter and every payload.             *)
(***************************************************************************)
EXTENDS STWI, TLAPS

USE DEF PacketWords, Idle

\* The parameter words of every STWI_send_*REQ fit the packet.
LEMMA ParamWordsFit ==
  \A request : \A n \in ParamWords(request) : n \in 0..PacketWords
<1> SUFFICES ASSUME NEW request, NEW n \in ParamWords(request)
             PROVE  n \in 0..PacketWords
  OBVIOUS
<1>1. \A size \in 0..(4 * PacketWords) :
        size \div 4 + (IF size % 4 = 0 THEN 0 ELSE 1) \in 0..PacketWords
  OBVIOUS
<1>. QED
  BY <1>1, DataSizesAssumption, SMT DEF ParamWords

\* What the assumptions say about the codes of requests.
LEMMA RequestCodes ==
  /\ \A request \in Requests : request \in 0..255
  /\ \A request \in CallbackRequests : request \in 0..255 /\ request \notin ChangeRequests
  BY RequestsAssumption, CallbackAssumption
     DEF AllRequests, RFU_RESET, RFU_STOP_MODE, ChangeRequests

\* The commands of the adapter that the driver grants.
LEMMA GrantedCodes ==
  \A command \in {RFU_MS_CHANGE, RFU_DATA_READY_AND_CHANGE,
                  RFU_DISCONNECTED_AND_CHANGE, RFU_UNK36} : Reply(command) \in 0..255
  BY DEF Reply, RFU_MS_CHANGE, RFU_DATA_READY_AND_CHANGE, RFU_DISCONNECTED_AND_CHANGE, RFU_UNK36

\* Types, and packet indices that stay inside the packet.
LEMMA TypeStep == IInv /\ [Next]_vars => (TypeOK /\ PacketBounds)'
<1> SUFFICES ASSUME IInv, [Next]_vars PROVE (TypeOK /\ PacketBounds)'
  OBVIOUS
<1> USE DEF IInv, TypeOK, PacketBounds, Progress, StartsPart, InMaster
<1>1. CASE SendRefused
  BY <1>1 DEF SendRefused, ProgramRuns, reqVars, rspVars, tmrVars, hwVars, appVars
<1>2. CASE \E request \in Requests : SendAccepted(request)
  BY <1>2, ParamWordsFit, RequestCodes
     DEF SendAccepted, ProgramRuns, ClearResponse, tmrVars, hwVars
<1>3. CASE SendInit
  BY <1>3 DEF SendInit, ProgramRuns, ClearStatus, reqVars, rspVars
<1>4. CASE SendStart
  BY <1>4 DEF SendStart, ProgramRuns, STWI_start_Command, rspVars, tmrVars
<1>5. CASE AgbRFU_SoftReset
  BY <1>5 DEF AgbRFU_SoftReset, ProgramRuns, ClearResponse, ClearStatus, appVars
<1>6. CASE CallbackSendsAgain
  BY <1>6, ParamWordsFit, RequestCodes
     DEF CallbackSendsAgain, CallbackRequest, STWI_start_Command, ClearResponse,
         ClearStatus, reqVars, rspVars, tmrVars, hwVars, appVars
<1>7. CASE CallbackReturn
  BY <1>7 DEF CallbackReturn, reqVars, rspVars, tmrVars, hwVars, appVars, histVars
<1>8. CASE TimerHandshake
  BY <1>8 DEF TimerHandshake, TimerExpires, reqVars, rspVars, hwVars, appVars, histVars
<1>9. CASE TimerRestart
  BY <1>9, ParamWordsFit, RequestCodes
     DEF TimerRestart, TimerExpires, STWI_restart_Command, StartOver, GiveUp,
         GiveUpAndSend, MayRestart, STWI_start_Command, CallbackMade, CallbackSends,
         CallbackRequest, ClearResponse, ClearStatus, Preempt, reqVars, rspVars, hwVars
<1>10. CASE TimerSlave
  BY <1>10 DEF TimerSlave, TimerExpires, Preempt, rspVars
<1>11. CASE HandshakeTimeout
  BY <1>11 DEF HandshakeTimeout, reqVars, rspVars, hwVars, appVars, histVars
<1>12. CASE MasterSend
  BY <1>12 DEF MasterSend, MasterIntr, Preempt, rspVars
<1>13. CASE MasterHeader
  <2>1. unk_7' \in 0..PacketWords
    BY <1>13, MaxPayloadAssumption DEF MasterHeader
  <2>2. unk_9' \in 0..255
    BY <1>13, RepliesAssumption DEF MasterHeader
  <2>3. /\ unk_0' \in 0..8 /\ (unk_0' = 2 => unk_7' >= 1) /\ unk_0' # 6
        /\ out' \in Idle..PacketWords
    BY <1>13, <2>1 DEF MasterHeader, AfterHeader
  <2>. QED
    BY <1>13, <2>1, <2>2, <2>3 DEF MasterHeader, MasterIntr, Preempt
<1>14. CASE MasterData
  BY <1>14 DEF MasterData, MasterIntr, Preempt
<1>15. CASE MasterGarbled
  BY <1>15 DEF MasterGarbled, MasterIntr, Preempt, rspVars
<1>16. CASE MasterHandshake
  BY <1>16 DEF MasterHandshake, reqVars, rspVars, tmrVars, hwVars, appVars, histVars
<1>17. CASE MasterNext
  BY <1>17 DEF MasterNext, reqVars, rspVars, appVars, histVars
<1>18. CASE MasterHandover
  BY <1>18 DEF MasterHandover, CallbackMade, reqVars, rspVars, appVars
<1>19. CASE MasterDone
  BY <1>19, ParamWordsFit, RequestCodes
     DEF MasterDone, CallbackMade, CallbackSends, CallbackRequest, STWI_start_Command,
         ClearResponse, ClearStatus, reqVars, rspVars, hwVars, appVars
<1>20. CASE SlaveIntr
  BY <1>20 DEF SlaveIntr, Preempt, reqVars, rspVars, histVars
<1>21. CASE \E command \in AdapterCommands : SlaveHeader(command)
  BY <1>21, MaxPayloadAssumption, AdapterAssumption, GrantedCodes
     DEF SlaveHeader, SlaveWord, Decide, Continue, NoVerdict, rspVars, appVars
<1>22. CASE SlaveData
  BY <1>22, GrantedCodes
     DEF SlaveData, SlaveWord, Decide, Continue, NoVerdict, rspVars, appVars
<1>23. CASE SlaveReply
  BY <1>23 DEF SlaveReply, SlaveWord, NoVerdict, reqVars, appVars
<1>24. CASE SlaveStray
  BY <1>24 DEF SlaveStray, SlaveWord, NoVerdict, reqVars, rspVars, appVars
<1>25. CASE SlaveGarbled
  BY <1>25 DEF SlaveGarbled, SlaveWord, NoVerdict, rspVars, appVars
<1>26. CASE SlaveNext
  BY <1>26 DEF SlaveNext, reqVars, rspVars, tmrVars, appVars, histVars
<1>27. CASE SlaveRefused
  BY <1>27 DEF SlaveRefused, STWI_init_slave, ClearResponse, ClearStatus, appVars
<1>28. CASE SlaveGranted
  BY <1>28, ParamWordsFit, RequestCodes
     DEF SlaveGranted, CallbackSends, CallbackRequest, STWI_start_Command,
         ClearResponse, ClearStatus, reqVars, rspVars, appVars, histVars
<1>29. CASE UNCHANGED vars
  BY <1>29 DEF vars, reqVars, rspVars, tmrVars, hwVars, appVars, histVars
<1>. QED
  BY <1>1, <1>2, <1>3, <1>4, <1>5, <1>6, <1>7, <1>8, <1>9, <1>10, <1>11, <1>12,
     <1>13, <1>14, <1>15, <1>16, <1>17, <1>18, <1>19, <1>20, <1>21, <1>22, <1>23,
     <1>24, <1>25, <1>26, <1>27, <1>28, <1>29
     DEF Next, Program, TimerIntr, MasterSio, SlaveSio

\* Who runs, on which clock, and what wakes it up.
LEMMA ControlStep == IInv /\ [Next]_vars => Control'
<1> SUFFICES ASSUME IInv, [Next]_vars PROVE Control'
  OBVIOUS
<1> USE DEF IInv, TypeOK, PacketBounds, Control, ModeMatchesState, PendingHasWakeup,
           ClockSides, TimerPart, TransferPart, CallerPart, InMaster, InSlave
<1>1. CASE SendRefused
  BY <1>1 DEF SendRefused, ProgramRuns, reqVars, rspVars, tmrVars, hwVars, appVars
<1>2. CASE \E request \in Requests : SendAccepted(request)
  BY <1>2 DEF SendAccepted, ProgramRuns, ClearResponse, tmrVars, hwVars
<1>3. CASE SendInit
  BY <1>3 DEF SendInit, ProgramRuns, ClearStatus, reqVars, rspVars
<1>4. CASE SendStart
  BY <1>4 DEF SendStart, ProgramRuns, STWI_start_Command, rspVars, tmrVars
<1>5. CASE AgbRFU_SoftReset
  BY <1>5 DEF AgbRFU_SoftReset, ProgramRuns, ClearResponse, ClearStatus, appVars
<1>6. CASE CallbackSendsAgain
  BY <1>6, RequestCodes
     DEF CallbackSendsAgain, CallbackRequest, STWI_start_Command, ClearResponse,
         ClearStatus, reqVars, rspVars, tmrVars, hwVars, appVars
<1>7. CASE CallbackReturn
  BY <1>7 DEF CallbackReturn, reqVars, rspVars, tmrVars, hwVars, appVars, histVars
<1>8. CASE TimerHandshake
  BY <1>8 DEF TimerHandshake, TimerExpires, reqVars, rspVars, hwVars, appVars, histVars
<1>9. CASE TimerRestart
  <2>1. /\ isr = "none" /\ isr' = "none" /\ msMode = 1 /\ msMode' = 1 /\ Preempt
        /\ timerActive = 0 /\ timerState \in {1, 4} /\ unk_0 \in 0..4 /\ xfer # "internal"
    BY <1>9 DEF TimerRestart, TimerExpires
  <2>2. CASE StartOver
    BY <2>1, <2>2 DEF StartOver, STWI_start_Command, Preempt, rspVars
  <2>3. CASE GiveUp
    BY <2>1, <2>3, RequestCodes DEF GiveUp, CallbackMade, Preempt, reqVars, rspVars, hwVars
  <2>4. CASE GiveUpAndSend
    BY <2>1, <2>4, RequestCodes
       DEF GiveUpAndSend, CallbackSends, CallbackRequest, STWI_start_Command, ClearResponse, ClearStatus, Preempt
  <2>. QED
    BY <1>9, <2>2, <2>3, <2>4 DEF TimerRestart, STWI_restart_Command
<1>10. CASE TimerSlave
  BY <1>10 DEF TimerSlave, TimerExpires, Preempt, rspVars
<1>11. CASE HandshakeTimeout
  BY <1>11 DEF HandshakeTimeout, reqVars, rspVars, hwVars, appVars, histVars
<1>12. CASE MasterSend
  BY <1>12 DEF MasterSend, MasterIntr, Preempt, rspVars
<1>13. CASE MasterHeader
  BY <1>13 DEF MasterHeader, MasterIntr, Preempt, AfterHeader
<1>14. CASE MasterData
  BY <1>14 DEF MasterData, MasterIntr, Preempt
<1>15. CASE MasterGarbled
  BY <1>15 DEF MasterGarbled, MasterIntr, Preempt, rspVars
<1>16. CASE MasterHandshake
  BY <1>16 DEF MasterHandshake, reqVars, rspVars, tmrVars, hwVars, appVars, histVars
<1>17. CASE MasterNext
  BY <1>17 DEF MasterNext, reqVars, rspVars, appVars, histVars
<1>18. CASE MasterHandover
  BY <1>18 DEF MasterHandover, CallbackMade, reqVars, rspVars, appVars
<1>19. CASE MasterDone
  BY <1>19, RequestCodes
     DEF MasterDone, CallbackMade, CallbackSends, CallbackRequest, STWI_start_Command,
         ClearResponse, ClearStatus, reqVars, rspVars, hwVars, appVars
<1>20. CASE SlaveIntr
  BY <1>20 DEF SlaveIntr, Preempt, reqVars, rspVars, histVars
<1>21. CASE \E command \in AdapterCommands : SlaveHeader(command)
  BY <1>21 DEF SlaveHeader, SlaveWord, Decide, Continue, NoVerdict, rspVars, appVars
<1>22. CASE SlaveData
  BY <1>22 DEF SlaveData, SlaveWord, Decide, Continue, NoVerdict, rspVars, appVars
<1>23. CASE SlaveReply
  BY <1>23 DEF SlaveReply, SlaveWord, NoVerdict, reqVars, appVars
<1>24. CASE SlaveStray
  BY <1>24 DEF SlaveStray, SlaveWord, NoVerdict, reqVars, rspVars, appVars
<1>25. CASE SlaveGarbled
  BY <1>25 DEF SlaveGarbled, SlaveWord, NoVerdict, rspVars, appVars
<1>26. CASE SlaveNext
  BY <1>26 DEF SlaveNext, reqVars, rspVars, tmrVars, appVars, histVars
<1>27. CASE SlaveRefused
  BY <1>27 DEF SlaveRefused, STWI_init_slave, ClearResponse, ClearStatus, appVars
<1>28. CASE SlaveGranted
  BY <1>28, RequestCodes
     DEF SlaveGranted, CallbackSends, CallbackRequest, STWI_start_Command,
         ClearResponse, ClearStatus, reqVars, rspVars, appVars, histVars
<1>29. CASE UNCHANGED vars
  BY <1>29 DEF vars, reqVars, rspVars, tmrVars, hwVars, appVars, histVars
<1>. QED
  BY <1>1, <1>2, <1>3, <1>4, <1>5, <1>6, <1>7, <1>8, <1>9, <1>10, <1>11, <1>12,
     <1>13, <1>14, <1>15, <1>16, <1>17, <1>18, <1>19, <1>20, <1>21, <1>22, <1>23,
     <1>24, <1>25, <1>26, <1>27, <1>28, <1>29
     DEF Next, Program, TimerIntr, MasterSio, SlaveSio

\* What went over the wire, and how often the request was started.
LEMMA RequestStep == IInv /\ [Next]_vars => Progress'
<1> SUFFICES ASSUME IInv, [Next]_vars PROVE Progress'
  OBVIOUS
<1> USE DEF IInv, TypeOK, PacketBounds, Control, ModeMatchesState, PendingHasWakeup,
           ClockSides, TimerPart, TransferPart, CallerPart, InMaster, InSlave,
           Progress, SentPart, StartsPart
<1>1. CASE SendRefused
  BY <1>1 DEF SendRefused, ProgramRuns, reqVars, rspVars, tmrVars, hwVars, appVars
<1>2. CASE \E request \in Requests : SendAccepted(request)
  BY <1>2 DEF SendAccepted, ProgramRuns, ClearResponse, tmrVars, hwVars
<1>3. CASE SendInit
  BY <1>3 DEF SendInit, ProgramRuns, ClearStatus, reqVars, rspVars
<1>4. CASE SendStart
  BY <1>4 DEF SendStart, ProgramRuns, STWI_start_Command, rspVars, tmrVars
<1>5. CASE AgbRFU_SoftReset
  BY <1>5 DEF AgbRFU_SoftReset, ProgramRuns, ClearResponse, ClearStatus, appVars
<1>6. CASE CallbackSendsAgain
  BY <1>6, ParamWordsFit
     DEF CallbackSendsAgain, CallbackRequest, STWI_start_Command, ClearResponse,
         ClearStatus, reqVars, rspVars, tmrVars, hwVars, appVars
<1>7. CASE CallbackReturn
  BY <1>7 DEF CallbackReturn, reqVars, rspVars, tmrVars, hwVars, appVars, histVars
<1>8. CASE TimerHandshake
  BY <1>8 DEF TimerHandshake, TimerExpires, reqVars, rspVars, hwVars, appVars, histVars
<1>9. CASE TimerRestart
  <2>1. /\ isr = "none" /\ isr' = "none" /\ msMode = 1 /\ msMode' = 1 /\ Preempt
        /\ timerActive = 0 /\ timerState \in {1, 4} /\ unk_0 \in 0..4 /\ xfer # "internal"
    BY <1>9 DEF TimerRestart, TimerExpires
  <2>2. CASE StartOver
    BY <2>1, <2>2 DEF StartOver, STWI_start_Command, Preempt, rspVars
  <2>3. CASE GiveUp
    BY <2>1, <2>3 DEF GiveUp, CallbackMade, Preempt, reqVars, rspVars, hwVars
  <2>4. CASE GiveUpAndSend
    BY <2>1, <2>4, ParamWordsFit
       DEF GiveUpAndSend, CallbackSends, CallbackRequest, STWI_start_Command, ClearStatus, Preempt
  <2>. QED
    BY <1>9, <2>2, <2>3, <2>4 DEF TimerRestart, STWI_restart_Command
<1>10. CASE TimerSlave
  BY <1>10 DEF TimerSlave, TimerExpires, Preempt, rspVars
<1>11. CASE HandshakeTimeout
  BY <1>11 DEF HandshakeTimeout, reqVars, rspVars, hwVars, appVars, histVars
<1>12. CASE MasterSend
  BY <1>12 DEF MasterSend, MasterIntr, Preempt, rspVars
<1>13. CASE MasterHeader
  BY <1>13 DEF MasterHeader, MasterIntr, Preempt, AfterHeader
<1>14. CASE MasterData
  BY <1>14 DEF MasterData, MasterIntr, Preempt
<1>15. CASE MasterGarbled
  BY <1>15 DEF MasterGarbled, MasterIntr, Preempt, rspVars
<1>16. CASE MasterHandshake
  BY <1>16 DEF MasterHandshake, reqVars, rspVars, tmrVars, hwVars, appVars, histVars
<1>17. CASE MasterNext
  BY <1>17 DEF MasterNext, reqVars, rspVars, appVars, histVars
<1>18. CASE MasterHandover
  BY <1>18 DEF MasterHandover, CallbackMade, reqVars, rspVars, appVars
<1>19. CASE MasterDone
  BY <1>19, ParamWordsFit
     DEF MasterDone, CallbackMade, CallbackSends, CallbackRequest, STWI_start_Command,
         ClearResponse, ClearStatus, reqVars, rspVars, hwVars, appVars
<1>20. CASE SlaveIntr
  BY <1>20 DEF SlaveIntr, Preempt, reqVars, rspVars, histVars
<1>21. CASE \E command \in AdapterCommands : SlaveHeader(command)
  <2>1. /\ unk_0' \in {6, 7} /\ isr' = "S1" /\ msMode = 0
        /\ UNCHANGED <<timerState, xfer, pc, starts, unk_15>>
    BY <1>21 DEF SlaveHeader, SlaveWord, Decide, appVars
  <2>. QED
    BY <2>1
<1>22. CASE SlaveData
  BY <1>22 DEF SlaveData, SlaveWord, Decide, Continue, NoVerdict, rspVars, appVars
<1>23. CASE SlaveReply
  BY <1>23 DEF SlaveReply, SlaveWord, NoVerdict, reqVars, appVars
<1>24. CASE SlaveStray
  BY <1>24 DEF SlaveStray, SlaveWord, NoVerdict, reqVars, rspVars, appVars
<1>25. CASE SlaveGarbled
  BY <1>25 DEF SlaveGarbled, SlaveWord, NoVerdict, rspVars, appVars
<1>26. CASE SlaveNext
  BY <1>26 DEF SlaveNext, reqVars, rspVars, tmrVars, appVars, histVars
<1>27. CASE SlaveRefused
  BY <1>27 DEF SlaveRefused, STWI_init_slave, ClearResponse, ClearStatus, appVars
<1>28. CASE SlaveGranted
  BY <1>28, ParamWordsFit
     DEF SlaveGranted, CallbackSends, CallbackRequest, STWI_start_Command,
         ClearResponse, ClearStatus, reqVars, rspVars, appVars, histVars
<1>29. CASE UNCHANGED vars
  BY <1>29 DEF vars, reqVars, rspVars, tmrVars, hwVars, appVars, histVars
<1>. QED
  BY <1>1, <1>2, <1>3, <1>4, <1>5, <1>6, <1>7, <1>8, <1>9, <1>10, <1>11, <1>12,
     <1>13, <1>14, <1>15, <1>16, <1>17, <1>18, <1>19, <1>20, <1>21, <1>22, <1>23,
     <1>24, <1>25, <1>26, <1>27, <1>28, <1>29
     DEF Next, Program, TimerIntr, MasterSio, SlaveSio

\* The error status, the verdict on the adapter's commands, and the callbacks.
LEMMA StatusStep == IInv /\ [Next]_vars => Status'
<1> SUFFICES ASSUME IInv, [Next]_vars PROVE Status'
  OBVIOUS
<1> USE DEF IInv, TypeOK, PacketBounds, Control, ModeMatchesState, PendingHasWakeup,
           ClockSides, TimerPart, TransferPart, CallerPart, InMaster, InSlave, Status,
           ErrorPart, SlaveVerdict, PatientPart, OneCallbackPerRequest, NeverBothDrive
<1>1. CASE SendRefused
  BY <1>1 DEF SendRefused, ProgramRuns, reqVars, rspVars, tmrVars, hwVars, appVars
<1>2. CASE \E request \in Requests : SendAccepted(request)
  BY <1>2 DEF SendAccepted, ProgramRuns, ClearResponse, tmrVars, hwVars
<1>3. CASE SendInit
  BY <1>3 DEF SendInit, ProgramRuns, ClearStatus, reqVars, rspVars
<1>4. CASE SendStart
  BY <1>4 DEF SendStart, ProgramRuns, STWI_start_Command, rspVars, tmrVars
<1>5. CASE AgbRFU_SoftReset
  BY <1>5 DEF AgbRFU_SoftReset, ProgramRuns, ClearResponse, ClearStatus, appVars
<1>6. CASE CallbackSendsAgain
  BY <1>6, RequestCodes
     DEF CallbackSendsAgain, CallbackRequest, STWI_start_Command, ClearResponse,
         ClearStatus, reqVars, rspVars, tmrVars, hwVars, appVars
<1>7. CASE CallbackReturn
  BY <1>7 DEF CallbackReturn, reqVars, rspVars, tmrVars, hwVars, appVars, histVars
<1>8. CASE TimerHandshake
  BY <1>8 DEF TimerHandshake, TimerExpires, reqVars, rspVars, hwVars, appVars, histVars
<1>9. CASE TimerRestart
  BY <1>9, RequestCodes
     DEF TimerRestart, TimerExpires, STWI_restart_Command, StartOver, GiveUp,
         GiveUpAndSend, MayRestart, STWI_start_Command, CallbackMade, CallbackSends,
         CallbackRequest, ClearResponse, ClearStatus, Preempt, reqVars, rspVars, hwVars
<1>10. CASE TimerSlave
  BY <1>10 DEF TimerSlave, TimerExpires, Preempt, rspVars
<1>11. CASE HandshakeTimeout
  BY <1>11 DEF HandshakeTimeout, reqVars, rspVars, hwVars, appVars, histVars
<1>12. CASE MasterSend
  BY <1>12 DEF MasterSend, MasterIntr, Preempt, rspVars
<1>13. CASE MasterHeader
  BY <1>13 DEF MasterHeader, MasterIntr, Preempt, AfterHeader
<1>14. CASE MasterData
  BY <1>14 DEF MasterData, MasterIntr, Preempt
<1>15. CASE MasterGarbled
  BY <1>15 DEF MasterGarbled, MasterIntr, Preempt, rspVars
<1>16. CASE MasterHandshake
  BY <1>16 DEF MasterHandshake, reqVars, rspVars, tmrVars, hwVars, appVars, histVars
<1>17. CASE MasterNext
  BY <1>17 DEF MasterNext, reqVars, rspVars, appVars, histVars
<1>18. CASE MasterHandover
  BY <1>18 DEF MasterHandover, CallbackMade, reqVars, rspVars, appVars
<1>19. CASE MasterDone
  BY <1>19, RequestCodes
     DEF MasterDone, CallbackMade, CallbackSends, CallbackRequest, STWI_start_Command,
         ClearResponse, ClearStatus, reqVars, rspVars, hwVars, appVars
<1>20. CASE SlaveIntr
  BY <1>20 DEF SlaveIntr, Preempt, reqVars, rspVars, histVars
<1>21. CASE \E command \in AdapterCommands : SlaveHeader(command)
  BY <1>21 DEF SlaveHeader, SlaveWord, Decide, Continue, NoVerdict, rspVars, appVars
<1>22. CASE SlaveData
  BY <1>22 DEF SlaveData, SlaveWord, Decide, Continue, NoVerdict, rspVars, appVars
<1>23. CASE SlaveReply
  BY <1>23 DEF SlaveReply, SlaveWord, NoVerdict, reqVars, appVars
<1>24. CASE SlaveStray
  BY <1>24 DEF SlaveStray, SlaveWord, NoVerdict, reqVars, rspVars, appVars
<1>25. CASE SlaveGarbled
  BY <1>25 DEF SlaveGarbled, SlaveWord, NoVerdict, rspVars, appVars
<1>26. CASE SlaveNext
  BY <1>26 DEF SlaveNext, reqVars, rspVars, tmrVars, appVars, histVars
<1>27. CASE SlaveRefused
  BY <1>27 DEF SlaveRefused, STWI_init_slave, ClearResponse, ClearStatus, appVars
<1>28. CASE SlaveGranted
  BY <1>28, RequestCodes
     DEF SlaveGranted, CallbackSends, CallbackRequest, STWI_start_Command,
         ClearResponse, ClearStatus, reqVars, rspVars, appVars, histVars
<1>29. CASE UNCHANGED vars
  BY <1>29 DEF vars, reqVars, rspVars, tmrVars, hwVars, appVars, histVars
<1>. QED
  BY <1>1, <1>2, <1>3, <1>4, <1>5, <1>6, <1>7, <1>8, <1>9, <1>10, <1>11, <1>12,
     <1>13, <1>14, <1>15, <1>16, <1>17, <1>18, <1>19, <1>20, <1>21, <1>22, <1>23,
     <1>24, <1>25, <1>26, <1>27, <1>28, <1>29
     DEF Next, Program, TimerIntr, MasterSio, SlaveSio

\* STWI_init_all establishes the invariant.
LEMMA InitInv == Init => IInv
  BY DEF Init, IInv, Control, Progress, Status, TypeOK,
         PacketBounds, ModeMatchesState, PendingHasWakeup, ClockSides, TimerPart,
         TransferPart, CallerPart, SentPart, StartsPart, ErrorPart, SlaveVerdict,
         PatientPart, OneCallbackPerRequest, NeverBothDrive, InMaster, InSlave

\* The inductive invariant holds in every state of the driver, whatever the
\* program sends, the adapter answers and the timer interrupts.
THEOREM Invariance == Spec => []IInv
<1>1. IInv /\ [Next]_vars => IInv'
  BY TypeStep, ControlStep, RequestStep, StatusStep DEF IInv
<1>. QED
  BY InitInv, <1>1, PTL DEF Spec

\* Every field of gRfuState keeps its range; in particular unk_15 never
\* exceeds 2 and the packet indices never exceed 29.
THEOREM TypeCorrect == Spec => []TypeOK
<1>1. IInv => TypeOK
  BY DEF IInv
<1>. QED
  BY Invariance, <1>1, PTL

\* Words are stored inside the packets of 1 + 0x1C words (librfu_intr.s, the
\* stores of sio32intr_clock_master and sio32intr_clock_slave).
THEOREM StaysInPacket == Spec => []PacketBounds
<1>1. IInv => PacketBounds
  BY DEF IInv
<1>. QED
  BY Invariance, <1>1, PTL

\* unk_0 and msMode agree: the slave's states occur only as slave and the
\* states of a request under way only as master, although STWI_start_Command
\* and STWI_restart_Command write unk_0 without a look at msMode.
THEOREM ModeAgreement == Spec => []ModeMatchesState
<1>1. IInv => ModeMatchesState
  BY DEF IInv, Control
<1>. QED
  BY Invariance, <1>1, PTL

\* STWI_poll_CommandEnd never polls a request that nothing will wake up.
THEOREM NoLostWakeup == Spec => []PendingHasWakeup
<1>1. IInv => PendingHasWakeup
  BY DEF IInv, Control
<1>. QED
  BY Invariance, <1>1, PTL

\* The busy loop of handshake_wait inside the serial interrupt can always be
\* ended by the timer interrupt.
THEOREM HandshakeNeverStuck == Spec => []HandshakeBreakable
<1>1. IInv => HandshakeBreakable
  BY DEF IInv, TypeOK, Control, TimerPart, HandshakeBreakable, InMaster, InSlave
<1>. QED
  BY Invariance, <1>1, PTL

\* A response is taken in only after the whole request went out, restarts
\* and preempted sends included.
THEOREM RequestComplete == Spec => []WholeRequestSent
<1>1. IInv => WholeRequestSent
  BY DEF IInv, Progress, SentPart, WholeRequestSent
<1>. QED
  BY Invariance, <1>1, PTL

\* Clock and driver agree: no request is pending on a clock the adapter
\* drives, and the slave never stops listening for good.
THEOREM SlaveListens == Spec => []ClockSides
<1>1. IInv => ClockSides
  BY DEF IInv, Control
<1>. QED
  BY Invariance, <1>1, PTL

\* The clock is taken back after an acknowledged command and kept from the GBA
\* after a refused one, except exactly when unk_12 is left over from a reply
\* that a time-out cut off, or was overwritten by a send that was refused.
THEOREM VerdictCorrect == Spec => []SlaveVerdict
<1>1. IInv => SlaveVerdict
  BY DEF IInv, Status
<1>. QED
  BY Invariance, <1>1, PTL

\* With a program that polls every request, each one gets one callback.
THEOREM OneCallback ==
  ASSUME ~Impatient PROVE Spec => []OneCallbackPerRequest
<1>1. IInv => OneCallbackPerRequest
  BY DEF IInv, Status, PatientPart
<1>. QED
  BY Invariance, <1>1, PTL

\* With a program that polls every request, the GBA and the adapter never
\* drive the clock at the same time.
THEOREM OneClock ==
  ASSUME ~Impatient PROVE Spec => []NeverBothDrive
<1>1. IInv => NeverBothDrive
  BY DEF IInv, Status, PatientPart
<1>. QED
  BY Invariance, <1>1, PTL

\* Only STWI_restart_Command reports a time-out, and only with unk_15 = 2.
LEMMA TimeoutStep == IInv /\ [Next]_vars => TimeoutNow
<1> SUFFICES ASSUME IInv, [Next]_vars PROVE TimeoutNow
  OBVIOUS
<1> USE DEF IInv, TypeOK, PacketBounds, TimeoutNow, Control, Progress, TimerPart,
           StartsPart, InMaster, InSlave
<1>1. CASE SendRefused
  BY <1>1 DEF SendRefused, ProgramRuns, reqVars, rspVars, tmrVars, hwVars, appVars
<1>2. CASE \E request \in Requests : SendAccepted(request)
  BY <1>2 DEF SendAccepted, ProgramRuns, ClearResponse, tmrVars, hwVars
<1>3. CASE SendInit
  BY <1>3 DEF SendInit, ProgramRuns, ClearStatus, reqVars, rspVars
<1>4. CASE SendStart
  BY <1>4 DEF SendStart, ProgramRuns, STWI_start_Command, rspVars, tmrVars
<1>5. CASE AgbRFU_SoftReset
  BY <1>5 DEF AgbRFU_SoftReset, ProgramRuns, ClearResponse, ClearStatus, appVars
<1>6. CASE CallbackSendsAgain
  BY <1>6
     DEF CallbackSendsAgain, CallbackRequest, STWI_start_Command, ClearResponse,
         ClearStatus, reqVars, rspVars, tmrVars, hwVars, appVars
<1>7. CASE CallbackReturn
  BY <1>7 DEF CallbackReturn, reqVars, rspVars, tmrVars, hwVars, appVars, histVars
<1>8. CASE TimerHandshake
  BY <1>8 DEF TimerHandshake, TimerExpires, reqVars, rspVars, hwVars, appVars, histVars
<1>9. CASE TimerRestart
  BY <1>9
     DEF TimerRestart, TimerExpires, STWI_restart_Command, StartOver, GiveUp,
         GiveUpAndSend, MayRestart, STWI_start_Command, CallbackMade, CallbackSends,
         CallbackRequest, ClearResponse, ClearStatus, Preempt, reqVars, rspVars, hwVars
<1>10. CASE TimerSlave
  BY <1>10 DEF TimerSlave, TimerExpires, Preempt, rspVars
<1>11. CASE HandshakeTimeout
  BY <1>11 DEF HandshakeTimeout, reqVars, rspVars, hwVars, appVars, histVars
<1>12. CASE MasterSend
  BY <1>12 DEF MasterSend, MasterIntr, Preempt, rspVars
<1>13. CASE MasterHeader
  BY <1>13 DEF MasterHeader, MasterIntr, Preempt, AfterHeader
<1>14. CASE MasterData
  BY <1>14 DEF MasterData, MasterIntr, Preempt
<1>15. CASE MasterGarbled
  BY <1>15 DEF MasterGarbled, MasterIntr, Preempt, rspVars
<1>16. CASE MasterHandshake
  BY <1>16 DEF MasterHandshake, reqVars, rspVars, tmrVars, hwVars, appVars, histVars
<1>17. CASE MasterNext
  BY <1>17 DEF MasterNext, reqVars, rspVars, appVars, histVars
<1>18. CASE MasterHandover
  BY <1>18 DEF MasterHandover, CallbackMade, reqVars, rspVars, appVars
<1>19. CASE MasterDone
  BY <1>19
     DEF MasterDone, CallbackMade, CallbackSends, CallbackRequest, STWI_start_Command,
         ClearResponse, ClearStatus, reqVars, rspVars, hwVars, appVars
<1>20. CASE SlaveIntr
  BY <1>20 DEF SlaveIntr, Preempt, reqVars, rspVars, histVars
<1>21. CASE \E command \in AdapterCommands : SlaveHeader(command)
  BY <1>21 DEF SlaveHeader, SlaveWord, Decide, Continue, NoVerdict, rspVars, appVars
<1>22. CASE SlaveData
  BY <1>22 DEF SlaveData, SlaveWord, Decide, Continue, NoVerdict, rspVars, appVars
<1>23. CASE SlaveReply
  BY <1>23 DEF SlaveReply, SlaveWord, NoVerdict, reqVars, appVars
<1>24. CASE SlaveStray
  BY <1>24 DEF SlaveStray, SlaveWord, NoVerdict, reqVars, rspVars, appVars
<1>25. CASE SlaveGarbled
  BY <1>25 DEF SlaveGarbled, SlaveWord, NoVerdict, rspVars, appVars
<1>26. CASE SlaveNext
  BY <1>26 DEF SlaveNext, reqVars, rspVars, tmrVars, appVars, histVars
<1>27. CASE SlaveRefused
  BY <1>27 DEF SlaveRefused, STWI_init_slave, ClearResponse, ClearStatus, appVars
<1>28. CASE SlaveGranted
  BY <1>28
     DEF SlaveGranted, CallbackSends, CallbackRequest, STWI_start_Command,
         ClearResponse, ClearStatus, reqVars, rspVars, appVars, histVars
<1>29. CASE UNCHANGED vars
  BY <1>29 DEF vars, reqVars, rspVars, tmrVars, hwVars, appVars, histVars
<1>. QED
  BY <1>1, <1>2, <1>3, <1>4, <1>5, <1>6, <1>7, <1>8, <1>9, <1>10, <1>11, <1>12,
     <1>13, <1>14, <1>15, <1>16, <1>17, <1>18, <1>19, <1>20, <1>21, <1>22, <1>23,
     <1>24, <1>25, <1>26, <1>27, <1>28, <1>29
     DEF Next, Program, TimerIntr, MasterSio, SlaveSio

\* An RFU time-out (unk_12 = 1) is reported only once the request was started
\* three times: the restarts of STWI_restart_Command are never cut short.
THEOREM TimeoutNotEarly == Spec => TimeoutAfterThreeStarts
<1>1. IInv /\ [Next]_vars => [TimeoutNow]_vars
  BY TimeoutStep
<1>. QED
  BY Invariance, <1>1, PTL DEF Spec, TimeoutAfterThreeStarts

=============================================================================
