------------------------- MODULE GcnMultiboot_proofs -------------------------
(***************************************************************************)
(* Proofs about the GameCube multi-boot library, for every image size and  *)
(* every counter limit.  Interrupts are unbounded, but for the part about  *)
(* sessions: there a logo check sees three of them at most.                *)
(***************************************************************************)
EXTENDS GcnMultiboot, TLAPS

USE DEF NONE, LOGO_CORRECT, READY_TO_BOOT

\* The announced sizes are even, not zero, and fit the memory.
LEMMA Sizes ==
  /\ MaxWords \in Nat \ {0}
  /\ \A v \in Nat : v < MaximumImageSizeUInt32s => 2 * (v + 1) \in 1..MaxWords
  /\ \A p \in 0..MaxWords : p % 2 \in {0, 1}
  BY BoundsAssumption DEF MaxWords

\* Types.
LEMMA TypeStep ==
  IInv /\ [Next]_vars => TypeOK'
<1> SUFFICES ASSUME IInv, [Next]_vars PROVE TypeOK'
  OBVIOUS
<1> USE DEF IInv, TypeOK, ImageFits, PointerPart, Handlers
<1>1. CASE GameCubeMultiBoot_Init
  BY <1>1, BoundsAssumption, Sizes
     DEF GameCubeMultiBoot_Init, Initialise, ClearStruct, ptrVars
<1>2. CASE GameCubeMultiBoot_Quit
  BY <1>2, BoundsAssumption, Sizes
     DEF GameCubeMultiBoot_Quit, keyVars, imgVars, ptrVars, regVars, histVars
<1>3. CASE GameCubeMultiBoot_ExecuteProgram
  BY <1>3, BoundsAssumption, Sizes
     DEF GameCubeMultiBoot_ExecuteProgram, keyVars, imgVars, ptrVars, regVars, histVars
<1>4. CASE GameCubeMultiBoot_Main
  BY <1>4, BoundsAssumption, Sizes
     DEF GameCubeMultiBoot_Main, Local, keyVars, imgVars, ptrVars, regVars
<1>5. CASE Mask
  BY <1>5, BoundsAssumption, Sizes DEF Mask, Local, keyVars, imgVars, ptrVars, regVars
<1>6. CASE LoadCounter
  BY <1>6, BoundsAssumption, Sizes DEF LoadCounter, Local, keyVars, imgVars, ptrVars
<1>7. CASE StoreCounter
  BY <1>7, BoundsAssumption, Sizes DEF StoreCounter, Local, keyVars, imgVars, ptrVars
<1>8. CASE Unmask
  BY <1>8, BoundsAssumption, Sizes DEF Unmask, Local, keyVars, imgVars, ptrVars, regVars
<1>9. CASE MainInit
  BY <1>9, BoundsAssumption, Sizes DEF MainInit, Initialise, ClearStruct, ptrVars
<1>10. CASE ReadCur
  BY <1>10, BoundsAssumption, Sizes DEF ReadCur, Local, keyVars, imgVars, ptrVars
<1>11. CASE ReadBase
  BY <1>11, BoundsAssumption, Sizes DEF ReadBase, Local, keyVars, imgVars, ptrVars
<1>12. CASE Logo
  <2>1. HeaderWords >= 3 /\ HeaderWords - 2 \in 1..HeaderWords - 2
    BY BoundsAssumption
  <2>2. (\A k \in 1..HeaderWords - 2 : Matches(k)) => r2 + HeaderWords \in 0..MaxWords + 1
    BY <2>1, BoundsAssumption, Sizes DEF Matches, Words
  <2>. QED
    BY <1>12, <2>1, <2>2, BoundsAssumption, Sizes DEF Logo, Local, keyVars, imgVars, regVars
<1>13. CASE LogoMatched
  BY <1>13, BoundsAssumption, Sizes
     DEF LogoMatched, keyVars, imgVars, ptrVars, irqVars, regVars, histVars
<1>14. CASE SessionKey
  BY <1>14, BoundsAssumption, Sizes
     DEF SessionKey, keyVars, ptrVars, irqVars, regVars, histVars
<1>15. CASE Decrypt
  <2>1. mem' \in [Words -> Contents]
    BY <1>15 DEF Decrypt, Decrypted, Contents
  <2>2. r2' \in 0..MaxWords + 1
    BY <1>15, Sizes DEF Decrypt
  <2>. QED
    BY <1>15, <2>1, <2>2 DEF Decrypt, keyVars, imgVars, ptrVars, irqVars, histVars
<1>16. CASE DecryptEnd
  BY <1>16, BoundsAssumption, Sizes DEF DecryptEnd, Local, keyVars, imgVars, regVars
<1>17. CASE TestSize
  BY <1>17, BoundsAssumption, Sizes
     DEF TestSize, Local, keyVars, imgVars, ptrVars, regVars
<1>18. CASE TestPtrs
  BY <1>18, BoundsAssumption, Sizes
     DEF TestPtrs, Local, keyVars, imgVars, ptrVars, regVars
<1>19. CASE GenerateKeyC
  BY <1>19, BoundsAssumption, Sizes
     DEF GenerateKeyC, imgVars, ptrVars, irqVars, regVars, histVars
<1>20. CASE DeriveKeyC
  BY <1>20, BoundsAssumption, Sizes
     DEF DeriveKeyC, imgVars, ptrVars, irqVars, regVars, histVars
<1>21. CASE TestBootKey
  BY <1>21, BoundsAssumption, Sizes
     DEF TestBootKey, Local, keyVars, imgVars, ptrVars, regVars
<1>22. CASE Ready
  BY <1>22, BoundsAssumption, Sizes
     DEF Ready, keyVars, imgVars, ptrVars, irqVars, regVars, histVars
<1>23. CASE NoHandler
  BY <1>23, BoundsAssumption, Sizes
     DEF NoHandler, Serial, LogoCheck, SetInterruptHandler, keyVars, imgVars, ptrVars, irqVars,
         regVars
<1>24. CASE BeginHandshake
  BY <1>24, BoundsAssumption, Sizes
     DEF BeginHandshake, Serial, LogoCheck, SetInterruptHandler, keyVars, ptrVars, irqVars,
         regVars
<1>25. CASE StopsAtOnce
  BY <1>25, BoundsAssumption, Sizes
     DEF StopsAtOnce, Serial, LogoCheck, SetInterruptHandler, Stop, keyVars, imgVars, ptrVars,
         irqVars, regVars
<1>26. CASE Sent("CheckGameCodeSent", "CheckHandshakeResponse")
  BY <1>26, BoundsAssumption, Sizes
     DEF Sent, Serial, LogoCheck, SetInterruptHandler, keyVars, imgVars, ptrVars, irqVars, regVars
<1>27. CASE HandshakeResponse
  BY <1>27, BoundsAssumption, Sizes
     DEF HandshakeResponse, Serial, LogoCheck, SetInterruptHandler, Answered, keyVars, ptrVars,
         irqVars, regVars
<1>28. CASE ReceiveKeyA
  BY <1>28, BoundsAssumption, Sizes
     DEF ReceiveKeyA, Serial, LogoCheck, SetInterruptHandler, keyVars, ptrVars, irqVars, regVars
<1>29. CASE Sent("CheckKeyBSent", "CheckImageSizeResponse")
  BY <1>29, BoundsAssumption, Sizes
     DEF Sent, Serial, LogoCheck, SetInterruptHandler, keyVars, imgVars, ptrVars, irqVars, regVars
<1>30. CASE \E v \in 0..MaximumImageSizeUInt32s : ImageSizeResponse(v)
  BY <1>30, BoundsAssumption, Sizes
     DEF ImageSizeResponse, Serial, LogoCheck, SetInterruptHandler, Answered, keyVars, ptrVars,
         irqVars, regVars
<1>31. CASE \E word \in {"logo", "cipher"} : ImageResponse(word)
  <2>1. PICK word \in {"logo", "cipher"} : ImageResponse(word)
    BY <1>31
  <2>2. mem' \in [Words -> Contents]
    BY <2>1 DEF ImageResponse, Contents
  <2>3. curDestPtr' \in 0..MaxWords /\ imageSize' \in 0..MaxWords /\ joystat' \in 0..3
    BY <2>1, Sizes DEF ImageResponse
  <2>4. burst' \in 0..Burst
    BY <2>1, BoundsAssumption DEF ImageResponse, Serial, LogoCheck
  <2>. QED
    BY <2>1, <2>2, <2>3, <2>4, BoundsAssumption
       DEF ImageResponse, Serial, LogoCheck, SetInterruptHandler, Handlers, keyVars, irqVars, regVars
<1>32. CASE Counter2Sent
  BY <1>32, BoundsAssumption, Sizes
     DEF Counter2Sent, Serial, LogoCheck, SetInterruptHandler, keyVars, imgVars, ptrVars, irqVars,
         regVars
<1>33. CASE Sent("CheckKeyCDerivationSent", "CheckBootKeyResponse")
  BY <1>33, BoundsAssumption, Sizes
     DEF Sent, Serial, LogoCheck, SetInterruptHandler, keyVars, imgVars, ptrVars, irqVars, regVars
<1>34. CASE \E key \in {"zero", "right", "wrong"} : BootKeyResponse(key)
  BY <1>34, BoundsAssumption, Sizes
     DEF BootKeyResponse, Serial, LogoCheck, SetInterruptHandler, Answered, imgVars, ptrVars,
         irqVars, regVars
<1>35. CASE UNCHANGED vars
  BY <1>35 DEF vars, keyVars, imgVars, ptrVars, irqVars, regVars, histVars
<1>. QED
  BY <1>1, <1>2, <1>3, <1>4, <1>5, <1>6, <1>7, <1>8, <1>9, <1>10, <1>11, <1>12,
     <1>13, <1>14, <1>15, <1>16, <1>17, <1>18, <1>19, <1>20, <1>21, <1>22, <1>23,
     <1>24, <1>25, <1>26, <1>27, <1>28, <1>29, <1>30, <1>31, <1>32, <1>33, <1>34,
     <1>35
     DEF Next, Steps, HandleSerialInterrupt

\* The image fits.
LEMMA FitsStep ==
  IInv /\ [Next]_vars => ImageFits'
<1> SUFFICES ASSUME IInv, [Next]_vars PROVE ImageFits'
  OBVIOUS
<1> USE DEF IInv, TypeOK, ImageFits
<1>1. CASE GameCubeMultiBoot_Init
  BY <1>1, BoundsAssumption, Sizes
     DEF GameCubeMultiBoot_Init, Initialise, ClearStruct, ptrVars
<1>2. CASE GameCubeMultiBoot_Quit
  BY <1>2, BoundsAssumption, Sizes
     DEF GameCubeMultiBoot_Quit, keyVars, imgVars, ptrVars, regVars, histVars
<1>3. CASE GameCubeMultiBoot_ExecuteProgram
  BY <1>3, BoundsAssumption, Sizes
     DEF GameCubeMultiBoot_ExecuteProgram, keyVars, imgVars, ptrVars, regVars, histVars
<1>4. CASE GameCubeMultiBoot_Main
  BY <1>4, BoundsAssumption, Sizes
     DEF GameCubeMultiBoot_Main, Local, keyVars, imgVars, ptrVars, regVars
<1>5. CASE Mask
  BY <1>5, BoundsAssumption, Sizes DEF Mask, Local, keyVars, imgVars, ptrVars, regVars
<1>6. CASE LoadCounter
  BY <1>6, BoundsAssumption, Sizes DEF LoadCounter, Local, keyVars, imgVars, ptrVars
<1>7. CASE StoreCounter
  BY <1>7, BoundsAssumption, Sizes DEF StoreCounter, Local, keyVars, imgVars, ptrVars
<1>8. CASE Unmask
  BY <1>8, BoundsAssumption, Sizes DEF Unmask, Local, keyVars, imgVars, ptrVars, regVars
<1>9. CASE MainInit
  BY <1>9, BoundsAssumption, Sizes DEF MainInit, Initialise, ClearStruct, ptrVars
<1>10. CASE ReadCur
  BY <1>10, BoundsAssumption, Sizes DEF ReadCur, Local, keyVars, imgVars, ptrVars
<1>11. CASE ReadBase
  BY <1>11, BoundsAssumption, Sizes DEF ReadBase, Local, keyVars, imgVars, ptrVars
<1>12. CASE Logo
  BY <1>12, BoundsAssumption, Sizes DEF Logo, Local, keyVars, imgVars, regVars
<1>13. CASE LogoMatched
  BY <1>13, BoundsAssumption, Sizes
     DEF LogoMatched, keyVars, imgVars, ptrVars, irqVars, regVars, histVars
<1>14. CASE SessionKey
  BY <1>14, BoundsAssumption, Sizes
     DEF SessionKey, keyVars, ptrVars, irqVars, regVars, histVars
<1>15. CASE Decrypt
  BY <1>15, BoundsAssumption, Sizes
     DEF Decrypt, Decrypted, keyVars, imgVars, ptrVars, irqVars, histVars
<1>16. CASE DecryptEnd
  BY <1>16, BoundsAssumption, Sizes DEF DecryptEnd, Local, keyVars, imgVars, regVars
<1>17. CASE TestSize
  BY <1>17, BoundsAssumption, Sizes
     DEF TestSize, Local, keyVars, imgVars, ptrVars, regVars
<1>18. CASE TestPtrs
  BY <1>18, BoundsAssumption, Sizes
     DEF TestPtrs, Local, keyVars, imgVars, ptrVars, regVars
<1>19. CASE GenerateKeyC
  BY <1>19, BoundsAssumption, Sizes
     DEF GenerateKeyC, imgVars, ptrVars, irqVars, regVars, histVars
<1>20. CASE DeriveKeyC
  BY <1>20, BoundsAssumption, Sizes
     DEF DeriveKeyC, imgVars, ptrVars, irqVars, regVars, histVars
<1>21. CASE TestBootKey
  BY <1>21, BoundsAssumption, Sizes
     DEF TestBootKey, Local, keyVars, imgVars, ptrVars, regVars
<1>22. CASE Ready
  BY <1>22, BoundsAssumption, Sizes
     DEF Ready, keyVars, imgVars, ptrVars, irqVars, regVars, histVars
<1>23. CASE NoHandler
  BY <1>23, BoundsAssumption, Sizes
     DEF NoHandler, Serial, LogoCheck, SetInterruptHandler, keyVars, imgVars, ptrVars, irqVars,
         regVars
<1>24. CASE BeginHandshake
  BY <1>24, BoundsAssumption, Sizes
     DEF BeginHandshake, Serial, LogoCheck, SetInterruptHandler, keyVars, ptrVars, irqVars,
         regVars
<1>25. CASE StopsAtOnce
  BY <1>25, BoundsAssumption, Sizes
     DEF StopsAtOnce, Serial, LogoCheck, SetInterruptHandler, Stop, keyVars, imgVars, ptrVars,
         irqVars, regVars
<1>26. CASE Sent("CheckGameCodeSent", "CheckHandshakeResponse")
  BY <1>26, BoundsAssumption, Sizes
     DEF Sent, Serial, LogoCheck, SetInterruptHandler, keyVars, imgVars, ptrVars, irqVars, regVars
<1>27. CASE HandshakeResponse
  BY <1>27, BoundsAssumption, Sizes
     DEF HandshakeResponse, Serial, LogoCheck, SetInterruptHandler, Answered, keyVars, ptrVars,
         irqVars, regVars
<1>28. CASE ReceiveKeyA
  BY <1>28, BoundsAssumption, Sizes
     DEF ReceiveKeyA, Serial, LogoCheck, SetInterruptHandler, keyVars, ptrVars, irqVars, regVars
<1>29. CASE Sent("CheckKeyBSent", "CheckImageSizeResponse")
  BY <1>29, BoundsAssumption, Sizes
     DEF Sent, Serial, LogoCheck, SetInterruptHandler, keyVars, imgVars, ptrVars, irqVars, regVars
<1>30. CASE \E v \in 0..MaximumImageSizeUInt32s : ImageSizeResponse(v)
  BY <1>30, BoundsAssumption, Sizes
     DEF ImageSizeResponse, Serial, LogoCheck, SetInterruptHandler, Answered, keyVars, ptrVars,
         irqVars, regVars
<1>31. CASE \E word \in {"logo", "cipher"} : ImageResponse(word)
  BY <1>31, BoundsAssumption, Sizes
     DEF ImageResponse, Serial, LogoCheck, SetInterruptHandler, keyVars, irqVars, regVars
<1>32. CASE Counter2Sent
  BY <1>32, BoundsAssumption, Sizes
     DEF Counter2Sent, Serial, LogoCheck, SetInterruptHandler, keyVars, imgVars, ptrVars, irqVars,
         regVars
<1>33. CASE Sent("CheckKeyCDerivationSent", "CheckBootKeyResponse")
  BY <1>33, BoundsAssumption, Sizes
     DEF Sent, Serial, LogoCheck, SetInterruptHandler, keyVars, imgVars, ptrVars, irqVars, regVars
<1>34. CASE \E key \in {"zero", "right", "wrong"} : BootKeyResponse(key)
  BY <1>34, BoundsAssumption, Sizes
     DEF BootKeyResponse, Serial, LogoCheck, SetInterruptHandler, Answered, imgVars, ptrVars,
         irqVars, regVars
<1>35. CASE UNCHANGED vars
  BY <1>35 DEF vars, keyVars, imgVars, ptrVars, irqVars, regVars, histVars
<1>. QED
  BY <1>1, <1>2, <1>3, <1>4, <1>5, <1>6, <1>7, <1>8, <1>9, <1>10, <1>11, <1>12,
     <1>13, <1>14, <1>15, <1>16, <1>17, <1>18, <1>19, <1>20, <1>21, <1>22, <1>23,
     <1>24, <1>25, <1>26, <1>27, <1>28, <1>29, <1>30, <1>31, <1>32, <1>33, <1>34,
     <1>35
     DEF Next, Steps, HandleSerialInterrupt

\* The status.
LEMMA StatusStep ==
  IInv /\ [Next]_vars => StatusTells'
<1> SUFFICES ASSUME IInv, [Next]_vars PROVE StatusTells'
  OBVIOUS
<1> USE DEF IInv, TypeOK, StatusTells
<1>1. CASE GameCubeMultiBoot_Init
  BY <1>1 DEF GameCubeMultiBoot_Init, Initialise, ClearStruct, ptrVars
<1>2. CASE GameCubeMultiBoot_Quit
  BY <1>2 DEF GameCubeMultiBoot_Quit, keyVars, imgVars, ptrVars, regVars, histVars
<1>3. CASE GameCubeMultiBoot_ExecuteProgram
  BY <1>3
     DEF GameCubeMultiBoot_ExecuteProgram, keyVars, imgVars, ptrVars, regVars, histVars
<1>4. CASE GameCubeMultiBoot_Main
  BY <1>4 DEF GameCubeMultiBoot_Main, Local, keyVars, imgVars, ptrVars, regVars
<1>5. CASE Mask
  BY <1>5 DEF Mask, Local, keyVars, imgVars, ptrVars, regVars
<1>6. CASE LoadCounter
  BY <1>6 DEF LoadCounter, Local, keyVars, imgVars, ptrVars
<1>7. CASE StoreCounter
  BY <1>7 DEF StoreCounter, Local, keyVars, imgVars, ptrVars
<1>8. CASE Unmask
  BY <1>8 DEF Unmask, Local, keyVars, imgVars, ptrVars, regVars
<1>9. CASE MainInit
  BY <1>9 DEF MainInit, Initialise, ClearStruct, ptrVars
<1>10. CASE ReadCur
  BY <1>10 DEF ReadCur, Local, keyVars, imgVars, ptrVars
<1>11. CASE ReadBase
  BY <1>11 DEF ReadBase, Local, keyVars, imgVars, ptrVars
<1>12. CASE Logo
  BY <1>12 DEF Logo, Local, keyVars, imgVars, regVars
<1>13. CASE LogoMatched
  BY <1>13 DEF LogoMatched, keyVars, imgVars, ptrVars, irqVars, regVars, histVars
<1>14. CASE SessionKey
  BY <1>14 DEF SessionKey, keyVars, ptrVars, irqVars, regVars, histVars
<1>15. CASE Decrypt
  BY <1>15 DEF Decrypt, Decrypted, keyVars, imgVars, ptrVars, irqVars, histVars
<1>16. CASE DecryptEnd
  BY <1>16 DEF DecryptEnd, Local, keyVars, imgVars, regVars
<1>17. CASE TestSize
  BY <1>17 DEF TestSize, Local, keyVars, imgVars, ptrVars, regVars
<1>18. CASE TestPtrs
  BY <1>18 DEF TestPtrs, Local, keyVars, imgVars, ptrVars, regVars
<1>19. CASE GenerateKeyC
  BY <1>19 DEF GenerateKeyC, imgVars, ptrVars, irqVars, regVars, histVars
<1>20. CASE DeriveKeyC
  BY <1>20 DEF DeriveKeyC, imgVars, ptrVars, irqVars, regVars, histVars
<1>21. CASE TestBootKey
  BY <1>21 DEF TestBootKey, Local, keyVars, imgVars, ptrVars, regVars
<1>22. CASE Ready
  BY <1>22 DEF Ready, keyVars, imgVars, ptrVars, irqVars, regVars, histVars
<1>23. CASE NoHandler
  BY <1>23
     DEF NoHandler, Serial, LogoCheck, SetInterruptHandler, keyVars, imgVars, ptrVars, irqVars,
         regVars
<1>24. CASE BeginHandshake
  BY <1>24
     DEF BeginHandshake, Serial, LogoCheck, SetInterruptHandler, keyVars, ptrVars, irqVars,
         regVars
<1>25. CASE StopsAtOnce
  BY <1>25
     DEF StopsAtOnce, Serial, LogoCheck, SetInterruptHandler, Stop, keyVars, imgVars, ptrVars,
         irqVars, regVars
<1>26. CASE Sent("CheckGameCodeSent", "CheckHandshakeResponse")
  BY <1>26
     DEF Sent, Serial, LogoCheck, SetInterruptHandler, keyVars, imgVars, ptrVars, irqVars, regVars
<1>27. CASE HandshakeResponse
  BY <1>27
     DEF HandshakeResponse, Serial, LogoCheck, SetInterruptHandler, Answered, keyVars, ptrVars,
         irqVars, regVars
<1>28. CASE ReceiveKeyA
  BY <1>28
     DEF ReceiveKeyA, Serial, LogoCheck, SetInterruptHandler, keyVars, ptrVars, irqVars, regVars
<1>29. CASE Sent("CheckKeyBSent", "CheckImageSizeResponse")
  BY <1>29
     DEF Sent, Serial, LogoCheck, SetInterruptHandler, keyVars, imgVars, ptrVars, irqVars, regVars
<1>30. CASE \E v \in 0..MaximumImageSizeUInt32s : ImageSizeResponse(v)
  BY <1>30
     DEF ImageSizeResponse, Serial, LogoCheck, SetInterruptHandler, Answered, keyVars, ptrVars,
         irqVars, regVars
<1>31. CASE \E word \in {"logo", "cipher"} : ImageResponse(word)
  BY <1>31, Sizes
     DEF ImageResponse, Serial, LogoCheck, SetInterruptHandler, keyVars, irqVars, regVars
<1>32. CASE Counter2Sent
  BY <1>32
     DEF Counter2Sent, Serial, LogoCheck, SetInterruptHandler, keyVars, imgVars, ptrVars, irqVars,
         regVars
<1>33. CASE Sent("CheckKeyCDerivationSent", "CheckBootKeyResponse")
  BY <1>33
     DEF Sent, Serial, LogoCheck, SetInterruptHandler, keyVars, imgVars, ptrVars, irqVars, regVars
<1>34. CASE \E key \in {"zero", "right", "wrong"} : BootKeyResponse(key)
  BY <1>34
     DEF BootKeyResponse, Serial, LogoCheck, SetInterruptHandler, Answered, imgVars, ptrVars,
         irqVars, regVars
<1>35. CASE UNCHANGED vars
  BY <1>35 DEF vars, keyVars, imgVars, ptrVars, irqVars, regVars, histVars
<1>. QED
  BY <1>1, <1>2, <1>3, <1>4, <1>5, <1>6, <1>7, <1>8, <1>9, <1>10, <1>11, <1>12,
     <1>13, <1>14, <1>15, <1>16, <1>17, <1>18, <1>19, <1>20, <1>21, <1>22, <1>23,
     <1>24, <1>25, <1>26, <1>27, <1>28, <1>29, <1>30, <1>31, <1>32, <1>33, <1>34,
     <1>35
     DEF Next, Steps, HandleSerialInterrupt

\* The counter and the pointers of Main.
LEMMA CounterStep ==
  IInv /\ [Next]_vars => (NoEarlyRestart /\ PointerPart /\ CounterPart)'
<1> SUFFICES ASSUME IInv, [Next]_vars PROVE (NoEarlyRestart /\ PointerPart /\ CounterPart)'
  OBVIOUS
<1> USE DEF IInv, TypeOK, NoEarlyRestart, PointerPart, CounterPart
<1>1. CASE GameCubeMultiBoot_Init
  BY <1>1, BoundsAssumption, Sizes
     DEF GameCubeMultiBoot_Init, Initialise, ClearStruct, ptrVars
<1>2. CASE GameCubeMultiBoot_Quit
  BY <1>2, BoundsAssumption, Sizes
     DEF GameCubeMultiBoot_Quit, keyVars, imgVars, ptrVars, regVars, histVars
<1>3. CASE GameCubeMultiBoot_ExecuteProgram
  BY <1>3, BoundsAssumption, Sizes
     DEF GameCubeMultiBoot_ExecuteProgram, keyVars, imgVars, ptrVars, regVars, histVars
<1>4. CASE GameCubeMultiBoot_Main
  BY <1>4, BoundsAssumption, Sizes
     DEF GameCubeMultiBoot_Main, Local, keyVars, imgVars, ptrVars, regVars
<1>5. CASE Mask
  BY <1>5, BoundsAssumption, Sizes DEF Mask, Local, keyVars, imgVars, ptrVars, regVars
<1>6. CASE LoadCounter
  BY <1>6, BoundsAssumption, Sizes DEF LoadCounter, Local, keyVars, imgVars, ptrVars
<1>7. CASE StoreCounter
  BY <1>7, BoundsAssumption, Sizes DEF StoreCounter, Local, keyVars, imgVars, ptrVars
<1>8. CASE Unmask
  BY <1>8, BoundsAssumption, Sizes DEF Unmask, Local, keyVars, imgVars, ptrVars, regVars
<1>9. CASE MainInit
  BY <1>9, BoundsAssumption, Sizes DEF MainInit, Initialise, ClearStruct, ptrVars
<1>10. CASE ReadCur
  BY <1>10, BoundsAssumption, Sizes DEF ReadCur, Local, keyVars, imgVars, ptrVars
<1>11. CASE ReadBase
  BY <1>11, BoundsAssumption, Sizes DEF ReadBase, Local, keyVars, imgVars, ptrVars
<1>12. CASE Logo
  BY <1>12, BoundsAssumption, Sizes DEF Logo, Local, keyVars, imgVars, regVars
<1>13. CASE LogoMatched
  BY <1>13, BoundsAssumption, Sizes
     DEF LogoMatched, keyVars, imgVars, ptrVars, irqVars, regVars, histVars
<1>14. CASE SessionKey
  BY <1>14, BoundsAssumption, Sizes
     DEF SessionKey, keyVars, ptrVars, irqVars, regVars, histVars
<1>15. CASE Decrypt
  BY <1>15, BoundsAssumption, Sizes
     DEF Decrypt, Decrypted, keyVars, imgVars, ptrVars, irqVars, histVars
<1>16. CASE DecryptEnd
  BY <1>16, BoundsAssumption, Sizes DEF DecryptEnd, Local, keyVars, imgVars, regVars
<1>17. CASE TestSize
  BY <1>17, BoundsAssumption, Sizes
     DEF TestSize, Local, keyVars, imgVars, ptrVars, regVars
<1>18. CASE TestPtrs
  BY <1>18, BoundsAssumption, Sizes
     DEF TestPtrs, Local, keyVars, imgVars, ptrVars, regVars
<1>19. CASE GenerateKeyC
  BY <1>19, BoundsAssumption, Sizes
     DEF GenerateKeyC, imgVars, ptrVars, irqVars, regVars, histVars
<1>20. CASE DeriveKeyC
  BY <1>20, BoundsAssumption, Sizes
     DEF DeriveKeyC, imgVars, ptrVars, irqVars, regVars, histVars
<1>21. CASE TestBootKey
  BY <1>21, BoundsAssumption, Sizes
     DEF TestBootKey, Local, keyVars, imgVars, ptrVars, regVars
<1>22. CASE Ready
  BY <1>22, BoundsAssumption, Sizes
     DEF Ready, keyVars, imgVars, ptrVars, irqVars, regVars, histVars
<1>23. CASE NoHandler
  BY <1>23, BoundsAssumption, Sizes
     DEF NoHandler, Serial, LogoCheck, SetInterruptHandler, keyVars, imgVars, ptrVars, irqVars,
         regVars
<1>24. CASE BeginHandshake
  BY <1>24, BoundsAssumption, Sizes
     DEF BeginHandshake, Serial, LogoCheck, SetInterruptHandler, keyVars, ptrVars, irqVars,
         regVars
<1>25. CASE StopsAtOnce
  BY <1>25, BoundsAssumption, Sizes
     DEF StopsAtOnce, Serial, LogoCheck, SetInterruptHandler, Stop, keyVars, imgVars, ptrVars,
         irqVars, regVars
<1>26. CASE Sent("CheckGameCodeSent", "CheckHandshakeResponse")
  BY <1>26, BoundsAssumption, Sizes
     DEF Sent, Serial, LogoCheck, SetInterruptHandler, keyVars, imgVars, ptrVars, irqVars, regVars
<1>27. CASE HandshakeResponse
  BY <1>27, BoundsAssumption, Sizes
     DEF HandshakeResponse, Serial, LogoCheck, SetInterruptHandler, Answered, keyVars, ptrVars,
         irqVars, regVars
<1>28. CASE ReceiveKeyA
  BY <1>28, BoundsAssumption, Sizes
     DEF ReceiveKeyA, Serial, LogoCheck, SetInterruptHandler, keyVars, ptrVars, irqVars, regVars
<1>29. CASE Sent("CheckKeyBSent", "CheckImageSizeResponse")
  BY <1>29, BoundsAssumption, Sizes
     DEF Sent, Serial, LogoCheck, SetInterruptHandler, keyVars, imgVars, ptrVars, irqVars, regVars
<1>30. CASE \E v \in 0..MaximumImageSizeUInt32s : ImageSizeResponse(v)
  BY <1>30, BoundsAssumption, Sizes
     DEF ImageSizeResponse, Serial, LogoCheck, SetInterruptHandler, Answered, keyVars, ptrVars,
         irqVars, regVars
<1>31. CASE \E word \in {"logo", "cipher"} : ImageResponse(word)
  BY <1>31, BoundsAssumption, Sizes
     DEF ImageResponse, Serial, LogoCheck, SetInterruptHandler, keyVars, irqVars, regVars
<1>32. CASE Counter2Sent
  BY <1>32, BoundsAssumption, Sizes
     DEF Counter2Sent, Serial, LogoCheck, SetInterruptHandler, keyVars, imgVars, ptrVars, irqVars,
         regVars
<1>33. CASE Sent("CheckKeyCDerivationSent", "CheckBootKeyResponse")
  BY <1>33, BoundsAssumption, Sizes
     DEF Sent, Serial, LogoCheck, SetInterruptHandler, keyVars, imgVars, ptrVars, irqVars, regVars
<1>34. CASE \E key \in {"zero", "right", "wrong"} : BootKeyResponse(key)
  BY <1>34, BoundsAssumption, Sizes
     DEF BootKeyResponse, Serial, LogoCheck, SetInterruptHandler, Answered, imgVars, ptrVars,
         irqVars, regVars
<1>35. CASE UNCHANGED vars
  BY <1>35 DEF vars, keyVars, imgVars, ptrVars, irqVars, regVars, histVars
<1>. QED
  BY <1>1, <1>2, <1>3, <1>4, <1>5, <1>6, <1>7, <1>8, <1>9, <1>10, <1>11, <1>12,
     <1>13, <1>14, <1>15, <1>16, <1>17, <1>18, <1>19, <1>20, <1>21, <1>22, <1>23,
     <1>24, <1>25, <1>26, <1>27, <1>28, <1>29, <1>30, <1>31, <1>32, <1>33, <1>34,
     <1>35
     DEF Next, Steps, HandleSerialInterrupt

\* IInv is an invariant.
THEOREM Invariance == Spec => []IInv
<1>1. Init => IInv
  BY BoundsAssumption, Sizes
     DEF Init, IInv, TypeOK, ImageFits, StatusTells, NoEarlyRestart, PointerPart, CounterPart,
         Handlers, Contents
<1>2. IInv /\ [Next]_vars => IInv'
  BY TypeStep, FitsStep, StatusStep, CounterStep DEF IInv
<1>. QED
  BY <1>1, <1>2, PTL DEF Spec

\* Pointers, sizes and counters stay in their ranges.
THEOREM TypeCorrect == Spec => []TypeOK
<1>1. IInv => TypeOK
  BY DEF IInv
<1>. QED
  BY <1>1, Invariance, PTL

\* No word is stored beyond the announced image, whenever resets and new
\* handshakes come.
THEOREM NoOverrun == Spec => []ImageFits
<1>1. IInv => ImageFits
  BY DEF IInv
<1>. QED
  BY <1>1, Invariance, PTL

\* counter1 ends a session only after more than CounterLimit calls of Main
\* without an interrupt: no increment of Main undoes the handler's reset.
THEOREM CounterHonest == Spec => []NoEarlyRestart
<1>1. IInv => NoEarlyRestart
  BY DEF IInv
<1>. QED
  BY <1>1, Invariance, PTL

\* The status is zero exactly out of a session.
THEOREM StatusHonest == Spec => []StatusTells
<1>1. IInv => StatusTells
  BY DEF IInv
<1>. QED
  BY <1>1, Invariance, PTL

-----------------------------------------------------------------------------
(***************************************************************************)
(* Sessions.  Main and the handler share the pointers without a lock, and  *)
(* Main may go on with those of a session that a reset has ended.  A new   *)
(* session needs four interrupts from the reset to the announcement of its *)
(* image; with at most three in a logo check, the check is over before the *)
(* pointers mean something else.  Once the logo has been seen, a reset     *)
(* only stops the handler, and interrupts may come in any number.          *)
(***************************************************************************)
\* The steps of the handler, from the reset on.  Early: a handshake, with the
\* least number of interrupts that lead from the reset there.
Early == {"CheckGameCodeSent", "CheckHandshakeResponse", "ReceiveKeyA", "CheckKeyBSent",
          "CheckImageSizeResponse"}
Least(handler) ==
  CASE handler = "CheckGameCodeSent"      -> 1
    [] handler = "CheckHandshakeResponse" -> 2
    [] handler = "ReceiveKeyA"            -> 2
    [] handler = "CheckKeyBSent"          -> 3
    [] OTHER                              -> 4
Coming == {"CheckImageResponse", "CheckCounter2Sent"}
Late   == {"CheckKeyCDerivationSent", "CheckBootKeyResponse", "StopUnconditionally"}

\* The image of this session is being received, or has been.
Active == serialIntrHandler \in Coming \union Late \/ bootKey # "zero"

\* Where Main goes on with pointers of an earlier session if one has begun since.
Stale == pc \in {"logo", "matched"} \/ (pc = "base" /\ r1 # 0)

\* How far Main is, and how far the keys are.
OrderPart ==
  /\ pc \in {"logo", "matched"} => mbProgress = NONE
  /\ pc \in {"keys", "decrypt", "size", "ptrs", "keyC", "derive", "boot", "ready"}
       => mbProgress = LOGO_CORRECT
  /\ mbProgress = READY_TO_BOOT => pc \in {"idle", "init"} /\ bootKey = "right"
  /\ mbProgress = NONE \/ pc = "keys" => keyC = 0
  /\ keyC = 0 => keyCDerivation = 0 /\ bootKey = "zero" /\ serialIntrHandler \notin Late
  /\ pc = "derive" => keyC = 1
  /\ pc = "ready" => bootKey = "right"
  /\ bootKey # "zero" => serialIntrHandler \in {"none", "StopUnconditionally"}
  /\ booted = 1 => ime = 0 /\ pc = "idle" /\ mbProgress = READY_TO_BOOT

\* A handshake before the logo has been seen.
EarlyPart ==
  /\ serialIntrHandler \in {"CheckKeyBSent", "CheckImageSizeResponse"} => keys = "agreed"
  /\ serialIntrHandler \in Early /\ mbProgress = NONE =>
       /\ curDestPtr = 0 /\ (pc \notin {"matched", "init"} => baseDestPtr = 0)
       /\ Stale => burst >= Least(serialIntrHandler)

\* Words that have been received and not decrypted.
Raw(from, to) == \A i \in from..to - 1 : mem[i] \in {"logo", "cipher"}
Header == mem[0] \in {"logo", "cipher"} /\ \A i \in 1..HeaderWords - 1 : mem[i] = "logo"

\* An image comes in and the logo has not been seen.
BeforeLogo ==
  serialIntrHandler \in Coming /\ mbProgress = NONE =>
    /\ size > 0 /\ curDestPtr + imageSize = size /\ keys = "agreed"
    /\ Raw(0, curDestPtr)
    /\ pc \notin {"matched", "init"} => baseDestPtr = 0
    /\ pc = "base" => r1 <= curDestPtr
    /\ pc \in {"logo", "matched"} => r2 = 0 /\ HeaderWords <= curDestPtr
    /\ pc = "matched" => baseDestPtr = HeaderWords /\ Header

\* The logo has been seen: the words up to the pointer Main works with have
\* been decrypted, the words from there on have not.
Done == IF pc = "decrypt" THEN r2 ELSE baseDestPtr
AfterLogo ==
  Active /\ mbProgress # NONE =>
    /\ size > 0 /\ curDestPtr + imageSize = size
    /\ HeaderWords <= baseDestPtr /\ baseDestPtr <= Done /\ Done <= curDestPtr
    /\ Header /\ \A i \in HeaderWords..Done - 1 : mem[i] = "plain"
    /\ Raw(Done, curDestPtr)
    /\ pc = "base" => baseDestPtr <= r1 /\ r1 <= curDestPtr
    /\ pc = "decrypt" => r2 <= r1 /\ r1 <= curDestPtr
    /\ IF pc = "keys" THEN keys = "agreed" ELSE hashVal = "agreed"
    /\ pc = "ptrs" => imageSize = 0

\* KeyC is made, and everything after it happens, only with the whole image.
WholeImage ==
  Active /\ (keyC = 1 \/ pc \in {"keyC", "derive", "boot", "ready"}) => ImageVerified

SInv == IInv /\ OrderPart /\ EarlyPart /\ BeforeLogo /\ AfterLogo /\ WholeImage

\* A word that arrives is stored behind those that are there.
LEMMA WordStored ==
  ASSUME TypeOK, ImageFits, NEW word, ImageResponse(word)
  PROVE  mem'[curDestPtr] = word /\ \A i \in 0..curDestPtr - 1 : mem'[i] = mem[i]
<1>1. curDestPtr \in Nat /\ size \in 0..MaxWords /\ imageSize \in Nat /\ MaxWords \in Nat
  BY Sizes DEF TypeOK
<1>2. curDestPtr < MaxWords
  BY <1>1 DEF ImageFits, ImageResponse
<1>3. curDestPtr \in Words /\ \A i \in 0..curDestPtr - 1 : i \in Words /\ i # curDestPtr
  BY <1>1, <1>2 DEF Words
<1>. QED
  BY <1>3 DEF ImageResponse

\* A received word is decrypted with the session's keys, the others stay.
LEMMA WordDecrypted ==
  ASSUME TypeOK, Decrypt, hashVal = "agreed", mem[r2] \in {"logo", "cipher"}, r2 < curDestPtr
  PROVE  mem'[r2] = "plain" /\ \A i \in 0..curDestPtr - 1 : i # r2 => mem'[i] = mem[i]
<1>1. curDestPtr \in 0..MaxWords /\ r2 \in Nat /\ MaxWords \in Nat
  BY Sizes DEF TypeOK
<1>2. r2 \in Words /\ \A i \in 0..curDestPtr - 1 : i \in Words
  BY <1>1 DEF Words
<1>. QED
  BY <1>2 DEF Decrypt, Decrypted

\* The parts about the session are kept, if a logo check sees no more than
\* three interrupts.
LEMMA SessionStep ==
  Burst <= 3 /\ SInv /\ [Next]_vars
    => (OrderPart /\ EarlyPart /\ BeforeLogo /\ AfterLogo /\ WholeImage)'
<1> SUFFICES ASSUME Burst <= 3, SInv, [Next]_vars
             PROVE  (OrderPart /\ EarlyPart /\ BeforeLogo /\ AfterLogo /\ WholeImage)'
  OBVIOUS
<1> USE BoundsAssumption
    DEF SInv, IInv, TypeOK, ImageFits, OrderPart, EarlyPart, BeforeLogo, AfterLogo, WholeImage,
        Early, Least, Coming, Late, Active, Stale, Raw, Header, Done, ImageVerified
<1>1. CASE GameCubeMultiBoot_Init
  BY <1>1 DEF GameCubeMultiBoot_Init, Initialise, ClearStruct, ptrVars
<1>2. CASE GameCubeMultiBoot_Quit
  BY <1>2 DEF GameCubeMultiBoot_Quit, keyVars, imgVars, ptrVars, regVars, histVars
<1>3. CASE GameCubeMultiBoot_ExecuteProgram
  BY <1>3 DEF GameCubeMultiBoot_ExecuteProgram, keyVars, imgVars, ptrVars, regVars, histVars
<1>4. CASE GameCubeMultiBoot_Main
  BY <1>4 DEF GameCubeMultiBoot_Main, Local, keyVars, imgVars, ptrVars, regVars
<1>5. CASE Mask
  BY <1>5 DEF Mask, Local, keyVars, imgVars, ptrVars, regVars
<1>6. CASE LoadCounter
  BY <1>6 DEF LoadCounter, Local, keyVars, imgVars, ptrVars
<1>7. CASE StoreCounter
  BY <1>7 DEF StoreCounter, Local, keyVars, imgVars, ptrVars
<1>8. CASE Unmask
  BY <1>8 DEF Unmask, Local, keyVars, imgVars, ptrVars, regVars
<1>9. CASE MainInit
  BY <1>9 DEF MainInit, Initialise, ClearStruct, ptrVars
<1>10. CASE ReadCur
  BY <1>10 DEF ReadCur, Local, keyVars, imgVars, ptrVars
<1>11. CASE ReadBase
  BY <1>11 DEF ReadBase, Local, keyVars, imgVars, ptrVars, HeaderArrived
<1>12. CASE Logo
  <2>1. mem' = mem /\ curDestPtr' = curDestPtr /\ r1' = r1 /\ r2' = r2 /\ pc = "logo"
        /\ UNCHANGED <<mbProgress, keyC, bootKey, keyCDerivation, imageSize, keys, hashVal,
                       serialIntrHandler, booted, size, burst, ime>>
    BY <1>12 DEF Logo, Local, keyVars, imgVars, regVars
  <2>2. pc' = "init" \/ (pc' = "matched" /\ baseDestPtr' = r2 + HeaderWords)
    BY <1>12 DEF Logo, Local
  <2>3. pc' = "matched" => \A k \in 1..HeaderWords - 1 : mem[r2 + k] = "logo"
    <3>1. pc' = "matched" => /\ \A k \in 1..HeaderWords - 2 : Matches(k)
                             /\ Matches(HeaderWords - 1)
      BY <1>12 DEF Logo, Local
    <3>2. \A k \in 1..HeaderWords - 1 : k \in 1..HeaderWords - 2 \/ k = HeaderWords - 1
      OBVIOUS
    <3>. QED
      BY <3>1, <3>2 DEF Matches
  <2>4. OrderPart' /\ EarlyPart'
    BY <2>1, <2>2
  <2>5. BeforeLogo'
    BY <2>1, <2>2, <2>3
  <2>6. AfterLogo' /\ WholeImage'
    BY <2>1, <2>2
  <2>. QED
    BY <2>4, <2>5, <2>6
<1>13. CASE LogoMatched
  BY <1>13 DEF LogoMatched, keyVars, imgVars, ptrVars, irqVars, regVars, histVars
<1>14. CASE SessionKey
  BY <1>14 DEF SessionKey, keyVars, ptrVars, irqVars, regVars, histVars
<1>15. CASE Decrypt
  <2>1. /\ pc = "decrypt" /\ pc' = pc /\ r2 < r1 /\ r2' = r2 + 1
        /\ UNCHANGED <<mbProgress, keyC, bootKey, keyCDerivation, imageSize, keys, hashVal, baseDestPtr,
                       curDestPtr, serialIntrHandler, booted, size, burst, ime, r1>>
        /\ \A i \in Words : mem'[i] = IF i = r2 THEN Decrypted(mem[i]) ELSE mem[i]
    BY <1>15 DEF Decrypt, keyVars, imgVars, ptrVars, irqVars, histVars
  <2>2. OrderPart' /\ EarlyPart' /\ BeforeLogo'
    BY <2>1
  <2>3. ASSUME Active
        PROVE  /\ HeaderWords <= r2 /\ r2 < curDestPtr /\ r2 \in Nat /\ curDestPtr \in Nat
               /\ curDestPtr <= MaxWords /\ HeaderWords \in Nat /\ MaxWords \in Nat
               /\ hashVal = "agreed" /\ mem[r2] \in {"logo", "cipher"}
               /\ mem[0] \in {"logo", "cipher"} /\ \A i \in 1..HeaderWords - 1 : mem[i] = "logo"
               /\ \A i \in HeaderWords..r2 - 1 : mem[i] = "plain"
               /\ \A i \in r2..curDestPtr - 1 : mem[i] \in {"logo", "cipher"}
    BY <2>1, <2>3, Sizes
  <2>4. AfterLogo'
    <3>1. CASE ~Active
      BY <2>1, <3>1
    <3>2. CASE Active
      <4>1. mem'[r2] = "plain" /\ \A i \in 0..curDestPtr - 1 : i # r2 => mem'[i] = mem[i]
        BY <1>15, <2>3, <3>2, WordDecrypted
      <4>2. /\ mem'[0] \in {"logo", "cipher"} /\ \A i \in 1..HeaderWords - 1 : mem'[i] = "logo"
            /\ \A i \in HeaderWords..r2' - 1 : mem'[i] = "plain"
            /\ \A i \in r2'..curDestPtr - 1 : mem'[i] \in {"logo", "cipher"}
        BY <2>1, <2>3, <3>2, <4>1
      <4>. QED
        BY <2>1, <2>3, <3>2, <4>2
    <3>. QED
      BY <3>1, <3>2
  <2>5. WholeImage'
    BY <2>1, <2>3
  <2>. QED
    BY <2>2, <2>4, <2>5
<1>16. CASE DecryptEnd
  BY <1>16 DEF DecryptEnd, Local, keyVars, imgVars, regVars
<1>17. CASE TestSize
  BY <1>17 DEF TestSize, Local, keyVars, imgVars, ptrVars, regVars
<1>18. CASE TestPtrs
  BY <1>18 DEF TestPtrs, Local, keyVars, imgVars, ptrVars, regVars
<1>19. CASE GenerateKeyC
  BY <1>19 DEF GenerateKeyC, imgVars, ptrVars, irqVars, regVars, histVars
<1>20. CASE DeriveKeyC
  BY <1>20 DEF DeriveKeyC, imgVars, ptrVars, irqVars, regVars, histVars
<1>21. CASE TestBootKey
  BY <1>21 DEF TestBootKey, Local, keyVars, imgVars, ptrVars, regVars
<1>22. CASE Ready
  BY <1>22 DEF Ready, keyVars, imgVars, ptrVars, irqVars, regVars, histVars
<1>23. CASE NoHandler
  BY <1>23 DEF NoHandler, Serial, LogoCheck, SetInterruptHandler, keyVars, imgVars, ptrVars, irqVars,
        regVars
<1>24. CASE BeginHandshake
  BY <1>24 DEF BeginHandshake, Serial, LogoCheck, SetInterruptHandler, keyVars, ptrVars, irqVars,
        regVars
<1>25. CASE StopsAtOnce
  BY <1>25 DEF StopsAtOnce, Serial, LogoCheck, SetInterruptHandler, Stop, keyVars, imgVars, ptrVars,
        irqVars, regVars
<1>26. CASE Sent("CheckGameCodeSent", "CheckHandshakeResponse")
  BY <1>26 DEF Sent, Serial, LogoCheck, SetInterruptHandler, keyVars, imgVars, ptrVars, irqVars,
        regVars
<1>27. CASE HandshakeResponse
  BY <1>27 DEF HandshakeResponse, Serial, LogoCheck, SetInterruptHandler, Answered, keyVars, ptrVars,
        irqVars, regVars
<1>28. CASE ReceiveKeyA
  BY <1>28 DEF ReceiveKeyA, Serial, LogoCheck, SetInterruptHandler, keyVars, ptrVars, irqVars, regVars
<1>29. CASE Sent("CheckKeyBSent", "CheckImageSizeResponse")
  BY <1>29 DEF Sent, Serial, LogoCheck, SetInterruptHandler, keyVars, imgVars, ptrVars, irqVars,
        regVars
<1>30. CASE \E v \in 0..MaximumImageSizeUInt32s : ImageSizeResponse(v)
  BY <1>30 DEF ImageSizeResponse, Serial, LogoCheck, SetInterruptHandler, Answered, keyVars, ptrVars,
        irqVars, regVars
<1>31. CASE \E word \in {"logo", "cipher"} : ImageResponse(word)
  <2>1. PICK word \in {"logo", "cipher"} : ImageResponse(word)
    BY <1>31
  <2>2. /\ serialIntrHandler = "CheckImageResponse" /\ curDestPtr' = curDestPtr + 1
        /\ imageSize' = imageSize - 1
        /\ serialIntrHandler' \in Coming /\ (imageSize' # 0 => serialIntrHandler' = serialIntrHandler)
        /\ UNCHANGED <<mbProgress, keyC, bootKey, keyCDerivation, keys, hashVal, baseDestPtr, pc, r1, r2,
                       booted, size, ime>>
    BY <2>1 DEF ImageResponse, Serial, LogoCheck, SetInterruptHandler, keyVars, irqVars, regVars
  <2>3. mem'[curDestPtr] = word /\ \A i \in 0..curDestPtr - 1 : mem'[i] = mem[i]
    BY <2>1, WordStored
  <2>4. imageSize > 0 /\ curDestPtr + imageSize = size
    BY <2>2
  <2>5. OrderPart' /\ EarlyPart' /\ WholeImage'
    BY <2>2, <2>4
  <2>6. BeforeLogo'
    BY <2>2, <2>3, <2>4
  <2>7. AfterLogo'
    BY <2>2, <2>3, <2>4
  <2>. QED
    BY <2>5, <2>6, <2>7
<1>32. CASE Counter2Sent
  BY <1>32 DEF Counter2Sent, Serial, LogoCheck, SetInterruptHandler, keyVars, imgVars, ptrVars,
        irqVars, regVars
<1>33. CASE Sent("CheckKeyCDerivationSent", "CheckBootKeyResponse")
  BY <1>33 DEF Sent, Serial, LogoCheck, SetInterruptHandler, keyVars, imgVars, ptrVars, irqVars,
        regVars
<1>34. CASE \E key \in {"zero", "right", "wrong"} : BootKeyResponse(key)
  BY <1>34 DEF BootKeyResponse, Serial, LogoCheck, SetInterruptHandler, Answered, imgVars, ptrVars,
        irqVars, regVars
<1>35. CASE UNCHANGED vars
  BY <1>35 DEF vars, keyVars, imgVars, ptrVars, irqVars, regVars, histVars
<1>. QED
  BY <1>1, <1>2, <1>3, <1>4, <1>5, <1>6, <1>7, <1>8, <1>9, <1>10, <1>11, <1>12, <1>13,
     <1>14, <1>15, <1>16, <1>17, <1>18, <1>19, <1>20, <1>21, <1>22, <1>23, <1>24, <1>25,
     <1>26, <1>27, <1>28, <1>29, <1>30, <1>31, <1>32, <1>33, <1>34, <1>35
     DEF Next, Steps, HandleSerialInterrupt

\* From the initial state on, a session is never mistaken for an earlier one:
\* the invariant behind the two theorems below (GameCubeMultiBoot_Main and
\* HandleSerialInterrupt interleaved step by step).
THEOREM SessionInvariance == Burst <= 3 => (Spec => []SInv)
<1> SUFFICES ASSUME Burst <= 3 PROVE Spec => []SInv
  OBVIOUS
<1>1. Init => OrderPart /\ EarlyPart /\ BeforeLogo /\ AfterLogo /\ WholeImage
  BY DEF Init, OrderPart, EarlyPart, BeforeLogo, AfterLogo, WholeImage, Early, Coming, Late, Active
<1>2. IInv /\ OrderPart /\ EarlyPart /\ BeforeLogo /\ AfterLogo /\ WholeImage /\ [Next]_vars
        => (OrderPart /\ EarlyPart /\ BeforeLogo /\ AfterLogo /\ WholeImage)'
  BY SessionStep DEF SInv
<1>. QED
  BY <1>1, <1>2, Invariance, PTL DEF Spec, SInv

\* GameCubeMultiBoot_Main declares an image ready, and ExecuteProgram jumps to
\* it, only when it is the image announced, complete, with its logo checked and
\* every other word decrypted once under the session's keys; for every image
\* size, as long as no more than three interrupts fall into one logo check.
\* The decryption, and every other part of Main, may see any number.
THEOREM ReadyIsVerified == Burst <= 3 => (Spec => []ReadyMeansVerified)
<1>1. SInv => ReadyMeansVerified
  BY DEF SInv, IInv, TypeOK, OrderPart, WholeImage, Active, ReadyMeansVerified
<1>. QED
  BY <1>1, SessionInvariance, PTL

\* The handler goes on from counter2 to the KeyC derivation, and the GameCube
\* gets to send the boot key, only when the image is verified.
THEOREM KeyCIsLate == Burst <= 3 => (Spec => []KeyCAfterImage)
<1>1. SInv => KeyCAfterImage
  BY DEF SInv, IInv, TypeOK, OrderPart, WholeImage, Active, Late, KeyCAfterImage
<1>. QED
  BY <1>1, SessionInvariance, PTL
=============================================================================
