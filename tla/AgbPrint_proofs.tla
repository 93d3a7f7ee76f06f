--------------------------- MODULE AgbPrint_proofs ---------------------------
(***************************************************************************)
(* Proofs about the debug print ring, for every ring size and every text.  *)
(***************************************************************************)
EXTENDS AgbPrint, TLAPS

USE DEF SafePoints, PutcPoints, FlushPoints, NoChar, WSCNT_DATA, WaitStates, AllWaits, Open, Cells

\* Ring positions stay in the ring; a halfword never straddles its end.
LEMMA Positions ==
  /\ \A i \in Cells : \A k \in 0..RingSize - 1 : Wrap(i + k) \in Cells
  /\ \A i \in Cells : Even(i) \in Cells /\ Even(i) + 1 \in Cells /\ i \in {Even(i), Even(i) + 1}
  BY RingSizeAssumption DEF Wrap, Even

\* Types.
LEMMA TypeStep ==
  RegisterInv /\ [Next]_vars => TypeOK'
<1> SUFFICES ASSUME RegisterInv, [Next]_vars PROVE TypeOK'
  OBVIOUS
<1> USE DEF RegisterInv, TypeOK
<1>1. CASE AGBPrintInit
  BY <1>1, Positions, RingSizeAssumption, BoundsAssumption
     DEF AGBPrintInit, regVars, savedVars, callVars, appVars
<1>2. CASE \E wait \in WaitStates, ime \in {0, 1} : SetRegisters(wait, ime)
  BY <1>2 DEF SetRegisters, ringVars, savedVars, callVars, histVars
<1>3. CASE AGBPutc
  BY <1>3 DEF AGBPutc, ringVars, regVars, savedVars, appVars, histVars
<1>4. CASE \E call \in {"print", "assert"}, length \in 0..MaxText : AGBPrint(call, length)
  BY <1>4 DEF AGBPrint, ringVars, appVars, histVars
<1>5. CASE \E all \in {0, 1} : AGBPrintFlush(all)
  BY <1>5 DEF AGBPrintFlush, FlushEntry, ringVars, appVars, histVars
<1>6. CASE PrintChar
  BY <1>6, Positions, RingSizeAssumption, BoundsAssumption
     DEF PrintChar, ringVars, regVars, savedVars, appVars, histVars
<1>7. CASE PrintDone
  BY <1>7 DEF PrintDone, AssertFlush, FlushEntry, ringVars, appVars, histVars
<1>8. CASE PutcEnter
  <2>1. nLo' \in Nat \union {NoChar} /\ nHi' \in Nat \union {NoChar}
    BY <1>8, Positions DEF PutcEnter
  <2>. QED
    BY <1>8, <2>1 DEF PutcEnter, ringVars, callVars, appVars, histVars
<1>9. CASE PutcOpen
  BY <1>9 DEF PutcOpen, ringVars, regVars, savedVars, callVars, appVars, histVars
<1>10. CASE PutcWrite
  <2>1. Stored(printed, nLo, nHi) \in [Cells -> Nat \union {NoChar}]
    BY <1>10 DEF Stored
  <2>2. mem' \in [Cells -> Nat \union {NoChar}]
    BY <1>10, <2>1 DEF PutcWrite
  <2>. QED
    BY <1>10, <2>2 DEF PutcWrite, regVars, savedVars, callVars, appVars, histVars
<1>11. CASE PutcAdvance
  <2>1. m_nPut' \in Cells
    BY <1>11, RingSizeAssumption DEF PutcAdvance, Wrap
  <2>. QED
    BY <1>11, <2>1 DEF PutcAdvance, regVars, savedVars, callVars, appVars
<1>12. CASE PutcClose
  BY <1>12 DEF PutcClose, ringVars, savedVars, callVars, appVars, histVars
<1>13. CASE PutcCheck
  BY <1>13 DEF PutcCheck, FlushEntry, Return, ringVars, regVars, appVars, histVars
<1>14. CASE \E n \in 1..RingSize - 1 : FlushBlock(n)
  <2>1. PICK n \in 1..RingSize - 1 : FlushBlock(n)
    BY <1>14
  <2>2. m_nGet' \in Cells
    BY <2>1, RingSizeAssumption DEF FlushBlock, TakenFrom, Wrap
  <2>3. got' \in Nat
    BY <2>1, RingSizeAssumption DEF FlushBlock, TakenFrom
  <2>4. inOrder' \in {0, 1}
    BY <2>1 DEF FlushBlock, TakenFrom
  <2>. QED
    BY <2>1, <2>2, <2>3, <2>4 DEF FlushBlock, regVars, savedVars, callVars, appVars
<1>15. CASE FlushDone
  BY <1>15 DEF FlushDone, Return, ringVars, savedVars, appVars, histVars
<1>16. CASE \E n \in 1..RingSize - 1 : HandlerPutc(n)
  <2>1. PICK n \in 1..RingSize - 1 : HandlerPutc(n)
    BY <1>16
  <2>2. Stored(printed, mem[Even(m_nPut)], mem[Even(m_nPut) + 1]) \in [Cells -> Nat \union {NoChar}]
    BY Positions DEF Stored
  <2>3. /\ Wrap(m_nPut + 1) \in Cells /\ Wrap(m_nGet + n) \in Cells
    BY RingSizeAssumption DEF Wrap
  <2>4. m_nGet' \in Cells
    BY <2>1, <2>3 DEF HandlerPutc, TakenFrom
  <2>5. got' \in Nat
    BY <2>1, RingSizeAssumption DEF HandlerPutc, TakenFrom
  <2>6. inOrder' \in {0, 1}
    BY <2>1 DEF HandlerPutc, TakenFrom
  <2>. QED
    BY <2>1, <2>2, <2>3, <2>4, <2>5, <2>6 DEF HandlerPutc, regVars, savedVars, callVars, appVars
<1>17. CASE UNCHANGED vars
  BY <1>17 DEF vars, ringVars, regVars, savedVars, callVars, appVars, histVars
<1>. QED
  BY <1>1, <1>2, <1>3, <1>4, <1>5, <1>6, <1>7, <1>8, <1>9, <1>10, <1>11, <1>12,
     <1>13, <1>14, <1>15, <1>16, <1>17
     DEF Next, Calls, Steps

\* What is saved and restored.
LEMMA SavedStep ==
  RegisterInv /\ [Next]_vars => SavedPart'
<1> SUFFICES ASSUME RegisterInv, [Next]_vars PROVE SavedPart'
  OBVIOUS
<1> USE DEF RegisterInv, TypeOK, SavedPart, OuterWait
<1>1. CASE AGBPrintInit
  BY <1>1 DEF AGBPrintInit, regVars, savedVars, callVars, appVars
<1>2. CASE \E wait \in WaitStates, ime \in {0, 1} : SetRegisters(wait, ime)
  BY <1>2 DEF SetRegisters, ringVars, savedVars, callVars, histVars
<1>3. CASE AGBPutc
  BY <1>3 DEF AGBPutc, ringVars, regVars, savedVars, appVars, histVars
<1>4. CASE \E call \in {"print", "assert"}, length \in 0..MaxText : AGBPrint(call, length)
  BY <1>4 DEF AGBPrint, ringVars, appVars, histVars
<1>5. CASE \E all \in {0, 1} : AGBPrintFlush(all)
  BY <1>5 DEF AGBPrintFlush, FlushEntry, ringVars, appVars, histVars
<1>6. CASE PrintChar
  BY <1>6 DEF PrintChar, ringVars, regVars, savedVars, appVars, histVars
<1>7. CASE PrintDone
  BY <1>7 DEF PrintDone, AssertFlush, FlushEntry, ringVars, appVars, histVars
<1>8. CASE PutcEnter
  BY <1>8 DEF PutcEnter, ringVars, callVars, appVars, histVars
<1>9. CASE PutcOpen
  BY <1>9 DEF PutcOpen, ringVars, regVars, savedVars, callVars, appVars, histVars
<1>10. CASE PutcWrite
  BY <1>10 DEF PutcWrite, regVars, savedVars, callVars, appVars, histVars
<1>11. CASE PutcAdvance
  BY <1>11 DEF PutcAdvance, regVars, savedVars, callVars, appVars
<1>12. CASE PutcClose
  BY <1>12 DEF PutcClose, ringVars, savedVars, callVars, appVars, histVars
<1>13. CASE PutcCheck
  BY <1>13 DEF PutcCheck, FlushEntry, Return, ringVars, regVars, appVars, histVars
<1>14. CASE \E n \in 1..RingSize - 1 : FlushBlock(n)
  BY <1>14 DEF FlushBlock, TakenFrom, regVars, savedVars, callVars, appVars
<1>15. CASE FlushDone
  BY <1>15 DEF FlushDone, Return, ringVars, savedVars, appVars, histVars
<1>16. CASE \E n \in 1..RingSize - 1 : HandlerPutc(n)
  BY <1>16, PointsAssumption
     DEF HandlerPutc, TakenFrom, regVars, savedVars, callVars, appVars
<1>17. CASE UNCHANGED vars
  BY <1>17 DEF vars, ringVars, regVars, savedVars, callVars, appVars, histVars
<1>. QED
  BY <1>1, <1>2, <1>3, <1>4, <1>5, <1>6, <1>7, <1>8, <1>9, <1>10, <1>11, <1>12,
     <1>13, <1>14, <1>15, <1>16, <1>17
     DEF Next, Calls, Steps

\* The characters in the ring, as long as handlers print at safe points only.
LEMMA RingStep ==
  ASSUME HandlerPoints \subseteq SafePoints PROVE RingInv /\ [Next]_vars => RingPart'
<1> SUFFICES ASSUME RingInv, [Next]_vars PROVE RingPart'
  OBVIOUS
<1> USE DEF RingInv, RegisterInv, TypeOK, SavedPart, RingPart, Count
<1>1. CASE AGBPrintInit
  <2>1. /\ m_nPut' = 0 /\ m_nGet' = 0 /\ printed' = printed /\ got' = printed
        /\ pc = "idle" /\ pc' = "idle" /\ inOrder' = 1
    BY <1>1 DEF AGBPrintInit
  <2>2. Count' = 0
    BY <2>1
  <2>3. Wrap(0) = 0 /\ 0 <= RingSize - 2
    BY RingSizeAssumption DEF Wrap
  <2>4. m_nPut' = Wrap(m_nGet' + Count')
    BY <2>1, <2>2, <2>3
  <2>5. \A k \in 0..Count' - 1 : mem'[Wrap(m_nGet' + k)] = got' + k
    BY <2>2
  <2>. QED
    BY <2>1, <2>2, <2>3, <2>4, <2>5, RingSizeAssumption
<1>2. CASE \E wait \in WaitStates, ime \in {0, 1} : SetRegisters(wait, ime)
  BY <1>2 DEF SetRegisters, ringVars, savedVars, callVars, histVars
<1>3. CASE AGBPutc
  BY <1>3 DEF AGBPutc, ringVars, regVars, savedVars, appVars, histVars
<1>4. CASE \E call \in {"print", "assert"}, length \in 0..MaxText : AGBPrint(call, length)
  BY <1>4 DEF AGBPrint, ringVars, appVars, histVars
<1>5. CASE \E all \in {0, 1} : AGBPrintFlush(all)
  BY <1>5 DEF AGBPrintFlush, FlushEntry, ringVars, appVars, histVars
<1>6. CASE PrintChar
  BY <1>6 DEF PrintChar, ringVars, regVars, savedVars, appVars, histVars
<1>7. CASE PrintDone
  BY <1>7 DEF PrintDone, AssertFlush, FlushEntry, ringVars, appVars, histVars
<1>8. CASE PutcEnter
  BY <1>8 DEF PutcEnter, ringVars, callVars, appVars, histVars
<1>9. CASE PutcOpen
  BY <1>9 DEF PutcOpen, ringVars, regVars, savedVars, callVars, appVars, histVars
<1>10. CASE PutcWrite
  <2>1. /\ mem' = Stored(printed, nLo, nHi) /\ m_nPut \in Cells
        /\ UNCHANGED <<m_nPut, m_nGet, pProtect, nLo, nHi, printed, got, inOrder>>
        /\ pc = "write" /\ pc' = "advance"
    BY <1>10 DEF PutcWrite, histVars
  <2>2. \A i \in Cells : i # m_nPut => mem'[i] = mem[i]
    BY <2>1, Positions DEF Stored
  <2>3. mem'[m_nPut] = printed
    BY <2>1 DEF Stored
  <2>4. ASSUME NEW k \in 0..Count - 1 PROVE mem'[Wrap(m_nGet + k)] = got + k
    <3>1. Wrap(m_nGet + k) # m_nPut /\ Wrap(m_nGet + k) \in Cells
      BY RingSizeAssumption DEF Wrap
    <3>. QED
      BY <3>1, <2>2
  <2>. QED
    BY <2>1, <2>3, <2>4
<1>11. CASE PutcAdvance
  <2>1. /\ m_nPut' = Wrap(m_nPut + 1) /\ printed' = printed + 1
        /\ UNCHANGED <<mem, m_nGet, got, inOrder>>
        /\ pc = "advance" /\ pc' = "close"
    BY <1>11 DEF PutcAdvance
  <2>2. Count' = Count + 1 /\ Count' \in 0..RingSize - 1
    BY <2>1, RingSizeAssumption
  <2>3. m_nPut' = Wrap(m_nGet + (Count + 1))
    BY <2>1, <2>2, RingSizeAssumption DEF Wrap
  <2>4. ASSUME NEW k \in 0..Count PROVE mem[Wrap(m_nGet + k)] = got + k
    <3>1. CASE k \in 0..Count - 1
      BY <3>1
    <3>2. CASE k = Count
      BY <2>1, <3>2
    <3>. QED
      BY <3>1, <3>2
  <2>. QED
    BY <2>1, <2>2, <2>3, <2>4
<1>12. CASE PutcClose
  BY <1>12 DEF PutcClose, ringVars, savedVars, callVars, appVars, histVars
<1>13. CASE PutcCheck
  <2>1. /\ pc = "check" /\ UNCHANGED <<mem, m_nPut, m_nGet, printed, got, inOrder>>
        /\ \/ pc' = "flush"
           \/ ~Full(m_nPut, m_nGet) /\ pc' \in {"loop", "idle"}
    BY <1>13 DEF PutcCheck, FlushEntry, Return, ringVars, histVars
  <2>2. ~Full(m_nPut, m_nGet) => Count <= RingSize - 2
    BY RingSizeAssumption DEF Full, Wrap
  <2>. QED
    BY <2>1, <2>2
<1>14. CASE \E n \in 1..RingSize - 1 : FlushBlock(n)
  <2>1. PICK n \in 1..RingSize - 1 : FlushBlock(n)
    BY <1>14
  <2>2. /\ n <= Pending /\ m_nGet' = Wrap(m_nGet + n) /\ got' = got + n
        /\ UNCHANGED <<mem, m_nPut, printed>>
        /\ pc = "flush" /\ pc' \in {"flush", "flushed"}
    BY <2>1 DEF FlushBlock, TakenFrom
  <2>3. Pending = Count
    BY RingSizeAssumption DEF Pending, Wrap
  <2>4. inOrder' = 1
    <3>1. \A k \in 0..n - 1 : mem[Wrap(m_nGet + k)] = got + k
      BY <2>2, <2>3
    <3>. QED
      BY <2>1, <3>1 DEF FlushBlock, TakenFrom
  <2>5. Count' = Count - n /\ Count' \in 0..RingSize - 2
    BY <2>2, <2>3, RingSizeAssumption
  <2>6. m_nPut' = Wrap(m_nGet' + Count')
    BY <2>2, <2>5, RingSizeAssumption DEF Wrap
  <2>7. ASSUME NEW k \in 0..Count' - 1 PROVE mem'[Wrap(m_nGet' + k)] = got' + k
    <3>1. n + k \in 0..Count - 1 /\ Wrap(m_nGet' + k) = Wrap(m_nGet + (n + k))
      BY <2>2, <2>5, RingSizeAssumption DEF Wrap
    <3>2. mem[Wrap(m_nGet + (n + k))] = got + (n + k)
      BY <3>1
    <3>. QED
      BY <2>2, <3>1, <3>2
  <2>. QED
    BY <2>2, <2>4, <2>5, <2>6, <2>7, RingSizeAssumption
<1>15. CASE FlushDone
  <2>1. /\ UNCHANGED <<mem, m_nPut, m_nGet, printed, got, inOrder>>
        /\ pc = "flushed" \/ (pc = "flush" /\ m_nPut = m_nGet)
        /\ pc' \in {"loop", "idle", "stopped"} /\ (pc' = "stopped" => op = "halt")
    BY <1>15 DEF FlushDone, Return, ringVars, histVars
  <2>2. m_nPut = m_nGet => Count = 0
    BY RingSizeAssumption DEF Wrap
  <2>3. Count <= RingSize - 2 /\ (pc' = "stopped" => Count = 0)
    BY <2>1, <2>2, RingSizeAssumption
  <2>. QED
    BY <2>1, <2>3
<1>16. CASE \E n \in 1..RingSize - 1 : HandlerPutc(n)
  <2>1. PICK n \in 1..RingSize - 1 : HandlerPutc(n)
    BY <1>16
  <2> DEFINE ring == Stored(printed, mem[Even(m_nPut)], mem[Even(m_nPut) + 1])
  <2>2. /\ pc \in SafePoints /\ pc' = pc /\ mem' = ring
        /\ m_nPut' = Wrap(m_nPut + 1) /\ printed' = printed + 1 /\ m_nPut \in Cells
    BY <2>1 DEF HandlerPutc
  <2>3. ring[m_nPut] = printed /\ \A i \in Cells : i # m_nPut => ring[i] = mem[i]
    BY Positions DEF Stored
  <2>4. Count + 1 \in 1..RingSize - 1 /\ Wrap(m_nPut + 1) = Wrap(m_nGet + (Count + 1))
    BY <2>2, RingSizeAssumption DEF Wrap
  <2>5. ASSUME NEW k \in 0..Count PROVE ring[Wrap(m_nGet + k)] = got + k
    <3>1. CASE k \in 0..Count - 1
      <4>1. Wrap(m_nGet + k) # m_nPut /\ Wrap(m_nGet + k) \in Cells
        BY <3>1, RingSizeAssumption DEF Wrap
      <4>. QED
        BY <3>1, <4>1, <2>3
    <3>2. CASE k = Count
      BY <3>2, <2>3
    <3>. QED
      BY <3>1, <3>2
  <2>6. CASE ~Full(Wrap(m_nPut + 1), m_nGet)
    <3>1. UNCHANGED <<m_nGet, got, inOrder>> /\ Count' = Count + 1
      BY <2>1, <2>2, <2>6 DEF HandlerPutc
    <3>2. Count' <= RingSize - 2
      BY <2>4, <2>6, <3>1, RingSizeAssumption DEF Full, Wrap
    <3>3. \A k \in 0..Count' - 1 : mem'[Wrap(m_nGet' + k)] = got' + k
      BY <2>2, <2>5, <3>1
    <3>4. m_nPut' = Wrap(m_nGet' + Count') /\ Count' \in 0..RingSize - 1
      BY <2>2, <2>4, <3>1
    <3>. QED
      BY <2>2, <3>1, <3>2, <3>3, <3>4
  <2>7. CASE Full(Wrap(m_nPut + 1), m_nGet)
    <3>1. TakenFrom(ring, n)
      BY <2>1, <2>2, <2>7 DEF HandlerPutc
    <3>2. Count + 1 = RingSize - 1
      BY <2>4, <2>7, RingSizeAssumption DEF Full, Wrap
    <3>3. inOrder' = 1
      <4>1. \A k \in 0..n - 1 : ring[Wrap(m_nGet + k)] = got + k
        BY <2>5, <3>2, RingSizeAssumption
      <4>. QED
        BY <3>1, <4>1 DEF TakenFrom
    <3>4. m_nGet' = Wrap(m_nGet + n) /\ got' = got + n /\ Count' = Count + 1 - n
      BY <2>2, <3>1 DEF TakenFrom
    <3>5. Count' \in 0..RingSize - 2
      BY <3>2, <3>4, RingSizeAssumption
    <3>6. m_nPut' = Wrap(m_nGet' + Count')
      BY <2>2, <2>4, <3>4, <3>5, RingSizeAssumption DEF Wrap
    <3>7. ASSUME NEW k \in 0..Count' - 1 PROVE mem'[Wrap(m_nGet' + k)] = got' + k
      <4>1. n + k \in 0..Count /\ Wrap(m_nGet' + k) = Wrap(m_nGet + (n + k))
        BY <3>4, <3>5, RingSizeAssumption DEF Wrap
      <4>2. ring[Wrap(m_nGet + (n + k))] = got + (n + k)
        BY <4>1, <2>5
      <4>. QED
        BY <2>2, <3>4, <4>1, <4>2
    <3>. QED
      BY <2>2, <3>3, <3>5, <3>6, <3>7, RingSizeAssumption
  <2>. QED
    BY <2>6, <2>7
<1>17. CASE UNCHANGED vars
  BY <1>17 DEF vars, ringVars, regVars, savedVars, callVars, appVars, histVars
<1>. QED
  BY <1>1, <1>2, <1>3, <1>4, <1>5, <1>6, <1>7, <1>8, <1>9, <1>10, <1>11, <1>12,
     <1>13, <1>14, <1>15, <1>16, <1>17
     DEF Next, Calls, Steps

\* The state after AGBPrintInit.
LEMMA InitInv == Init => RingInv
<1> SUFFICES ASSUME Init PROVE RingInv
  OBVIOUS
<1>1. Wrap(0) = 0
  BY RingSizeAssumption DEF Wrap
<1>. QED
  BY <1>1, RingSizeAssumption, BoundsAssumption
     DEF Init, RingInv, RegisterInv, TypeOK, SavedPart, OuterWait, RingPart, Count

\* Every field keeps its range; the ring positions stay in the ring.
THEOREM TypeCorrect == Spec => []TypeOK
<1>1. Init => RegisterInv
  BY InitInv DEF RingInv
<1>2. RegisterInv /\ [Next]_vars => RegisterInv'
  BY TypeStep, SavedStep DEF RegisterInv
<1>3. RegisterInv => TypeOK
  BY DEF RegisterInv
<1>. QED
  BY <1>1, <1>2, <1>3, PTL DEF Spec

\* WAITCNT, IME and the write protection are the program's again after every
\* call, wherever interrupt handlers print.
THEOREM Restored == Spec => []RegistersRestored
<1>1. Init => RegisterInv
  BY InitInv DEF RingInv
<1>2. RegisterInv /\ [Next]_vars => RegisterInv'
  BY TypeStep, SavedStep DEF RegisterInv
<1>3. RegisterInv => RegistersRestored
  BY DEF RegisterInv, SavedPart, OuterWait, RegistersRestored, TypeOK
<1>. QED
  BY <1>1, <1>2, <1>3, PTL DEF Spec

\* The invariant of the ring, with handlers that print at safe points only.
LEMMA RingInvariance ==
  ASSUME HandlerPoints \subseteq SafePoints PROVE Spec => []RingInv
<1>1. RingInv /\ [Next]_vars => RingInv'
  BY TypeStep, SavedStep, RingStep DEF RingInv, RegisterInv
<1>. QED
  BY InitInv, <1>1, PTL DEF Spec

\* Characters reach the debugger in order and complete, whatever the size of
\* the ring and of the blocks, provided no handler prints inside AGBPutc.
THEOREM InOrder ==
  ASSUME HandlerPoints \subseteq SafePoints PROVE Spec => []DeliveredInOrder
<1>1. RingInv => DeliveredInOrder
  BY DEF RingInv, RingPart, DeliveredInOrder
<1>. QED
  BY RingInvariance, <1>1, PTL

\* No printed character is lost: the writer never laps the reader.
THEOREM NoneLost ==
  ASSUME HandlerPoints \subseteq SafePoints PROVE Spec => []NothingLost
<1>1. RingInv => NothingLost
  <2>1. ASSUME RingInv PROVE Pending = Count
    BY <2>1, RingSizeAssumption
       DEF RingInv, RegisterInv, TypeOK, RingPart, Count, Pending, Wrap
  <2>. QED
    BY <2>1 DEF NothingLost, Count
<1>. QED
  BY RingInvariance, <1>1, PTL

\* A failed assertion stops the program only when all was delivered.
THEOREM AssertionShown ==
  ASSUME HandlerPoints \subseteq SafePoints PROVE Spec => []AssertDelivered
<1>1. RingInv => AssertDelivered
  BY DEF RingInv, RegisterInv, TypeOK, RingPart, Count, AssertDelivered
<1>. QED
  BY RingInvariance, <1>1, PTL

==============================================================================
