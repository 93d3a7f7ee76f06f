--------------------------- MODULE M4aSound_proofs ---------------------------
(***************************************************************************)
(* The properties of M4aSound for every set of periods from 2 on.  The     *)
(* inductive invariant says, for every place in the program's calls, what  *)
(* ident is and whether the DMAs run (LockInv), and how far the DMAs may   *)
(* be from where pcmDmaCounter takes them to be (CountInv).                *)
(***************************************************************************)
EXTENDS M4aSound, TLAPS

FlagsInv == dma \in BOOLEAN /\ hit \in BOOLEAN
ValuesInv ==
  /\ counter \in Int /\ period \in Nat /\ pos \in Nat /\ part \in Int /\ saved \in Int
  /\ timer \in {"off", "started", "on"}
  /\ pc \in {"off", "idle", "raise", "off1", "off2", "freq", "on0", "on1", "on2", "on3",
             "wait", "release"}
  /\ call \in {"none", "init", "mode", "brief", "vsyncoff", "vsyncon"}
TypeInv == FlagsInv /\ ValuesInv

\* What ident is, and whether the DMAs run, at each place of each call.
SwitchedOff == (call = "mode" /\ ident = 11) \/ (call = "init" /\ ident = Zero)
LockInv ==
  /\ pc = "off" => ident = Zero /\ ~dma
  /\ pc = "idle" => (ident = 0 /\ dma) \/ (ident = 10 /\ ~dma)
  /\ pc = "raise" => ident = 0 /\ dma /\ call \in {"mode", "brief"}
  /\ pc = "off1" => dma /\ ((call = "mode" /\ ident = 1) \/ (call = "vsyncoff" /\ ident = 0))
  /\ pc = "off2" => (call = "mode" /\ ident = 11) \/ (call = "vsyncoff" /\ ident = 10)
  /\ pc = "freq" => ~dma /\ SwitchedOff
  /\ pc = "on0" => \/ ~dma /\ SwitchedOff
                   \/ call = "vsyncon" /\ ((ident = 0 /\ dma) \/ (ident = 10 /\ ~dma))
  /\ pc \in {"on1", "on2", "on3"} =>
       saved = ident /\ (SwitchedOff \/ (call = "vsyncon" /\ ident = 10))
  /\ pc = "on1" => ~dma
  /\ pc \in {"on2", "on3", "wait", "release"} => dma
  /\ pc = "wait" => (call = "mode" /\ ident = 1) \/ (call = "init" /\ ident = Zero - 10)
  /\ pc = "release" => \/ call \in {"mode", "brief"} /\ ident = 1
                       \/ call = "init" /\ ident = Zero - 10

\* Timer 0 is off only before it is started at scan line 159.
TimerInv ==
  /\ timer = "off" => \/ pc \in {"off", "freq"}
                      \/ pc \in {"on0", "on1", "on2", "on3", "wait"} /\ call # "vsyncon"
  /\ call # "vsyncon" /\ pc \in {"on0", "on1", "on2", "on3", "wait"} => timer = "off"
  /\ pc = "release" /\ call = "init" => timer = "started" \/ hit

\* Where the DMAs are.  While the interrupt counts, the part being played and
\* the parts still to come make up the buffer; the frame in which the timer
\* starts puts the DMAs one part behind.
CountInv ==
  /\ pc \notin {"off", "freq"} => period \in Periods
  /\ pc \in {"on2", "on3"} => pos <= 1 /\ (~hit => pos = 0)
  /\ pc = "on3" => counter = 0
  /\ pc \in {"on2", "on3", "wait", "release"} /\ call = "init" => pos = 0
  /\ pc \in {"wait", "release"} /\ call = "init" => counter = 0
  /\ ident \in {0, 1} =>
       /\ counter <= 0 => pos <= 1
       /\ counter >= 1 => pos + counter <= period /\ pos + counter >= period - 1
       /\ counter >= 1 /\ timer # "on" => pos + counter = period
       /\ counter >= 1 /\ timer = "off" => hit

IInv == TypeInv /\ LockInv /\ TimerInv /\ CountInv /\ PartAhead

-----------------------------------------------------------------------------
\* Wherever ident lets the interrupt count, the DMAs run and there is a period.
LEMMA Counting ==
  ASSUME TypeInv, LockInv, CountInv, ident \in {0, 1}
  PROVE  dma /\ period \in Nat /\ period >= 2 /\ pc \notin {"off", "freq"}
<1>1. dma /\ pc \notin {"off", "freq"}
  BY DEF TypeInv, FlagsInv, ValuesInv, LockInv, SwitchedOff, Zero
<1>2. period \in Periods
  BY <1>1 DEF CountInv
<1>. QED
  BY <1>1, <1>2, PeriodsAssumption

\* Before m4aSoundInit.
LEMMA InitIInv == Init => IInv
<1>. SUFFICES ASSUME Init PROVE IInv
  OBVIOUS
<1>1. FlagsInv
  BY Zenon DEF Init, FlagsInv
<1>2. ValuesInv
  BY DEF Init, ValuesInv, Zero
<1>3. LockInv /\ TimerInv /\ CountInv /\ PartAhead
  BY DEF Init, LockInv, TimerInv, CountInv, PartAhead, SwitchedOff, Zero
<1>. QED
  BY <1>1, <1>2, <1>3 DEF IInv, TypeInv

\* A vertical blank between any two steps keeps the invariant.
LEMMA VBlankIInv ==
  ASSUME IInv, VBlank
  PROVE  IInv'
<1>. USE DEF IInv
<1>1. ~hit /\ hit' \in BOOLEAN /\ (hit' <=> pc \notin {"off", "idle"})
      /\ timer' = (IF timer = "started" THEN "on" ELSE timer)
      /\ ident' = ident /\ period' = period /\ pc' = pc /\ call' = call /\ saved' = saved
  BY DEF VBlank
<1>2. CASE ident \in {0, 1}
  <2>1. dma /\ period \in Nat /\ period >= 2 /\ pc \notin {"off", "freq"}
    BY <1>2, Counting
  <2>2. /\ counter' = (IF counter - 1 <= 0 THEN period ELSE counter - 1)
        /\ dma' = TRUE
        /\ pos' = (IF counter - 1 <= 0 THEN 0 ELSE IF timer = "on" THEN pos + 1 ELSE pos)
    BY <1>2, <2>1 DEF VBlank, m4aSoundVSync, Reload, Played
  <2>3. part' = (IF ident = 0 THEN IF counter' > 1 THEN period - (counter' - 1) ELSE 0 ELSE -1)
    BY DEF VBlank, SoundMain, NextPart
  <2>4. TypeInv'
    BY <1>1, <2>1, <2>2, <2>3 DEF TypeInv, FlagsInv, ValuesInv
  <2>5. LockInv'
    BY <1>1, <2>1, <2>2 DEF LockInv, SwitchedOff
  <2>6. TimerInv'
    BY <1>1 DEF TypeInv, FlagsInv, ValuesInv, TimerInv
  <2>7. (counter >= 1 => pos + counter <= period /\ pos + counter >= period - 1)
        /\ (counter >= 1 /\ timer # "on" => pos + counter = period)
        /\ ~(counter >= 1 /\ timer = "off")
    BY <1>1, <1>2 DEF CountInv
  <2>8. counter' >= 1 /\ pos' + counter' <= period /\ pos' + counter' >= period - 1
        /\ (timer' # "on" => pos' + counter' = period)
    BY <1>1, <2>1, <2>2, <2>7 DEF TypeInv, FlagsInv, ValuesInv
  <2>9. timer' = "off" => hit'
    BY <1>1, <2>1 DEF TypeInv, FlagsInv, ValuesInv, TimerInv
  <2>10. pc \notin {"on2", "on3"} /\ ~(pc \in {"wait", "release"} /\ call = "init")
    BY <1>2 DEF LockInv, SwitchedOff, Zero
  <2>11. CountInv'
    <3>1. period' \in Periods
      BY <1>1, <2>1 DEF CountInv
    <3>2. counter' \in Int
      BY <2>4 DEF TypeInv, ValuesInv
    <3>. QED
      BY <1>1, <2>8, <2>9, <2>10, <3>1, <3>2 DEF CountInv
  <2>12. PartAhead'
    BY <1>1, <2>1, <2>2, <2>3, <2>8 DEF PartAhead, TypeInv, FlagsInv, ValuesInv
  <2>. QED
    BY <2>4, <2>5, <2>6, <2>11, <2>12
<1>3. CASE ident \notin {0, 1}
  <2>1. counter' = counter /\ dma' = dma
        /\ pos' = (IF dma /\ timer = "on" THEN pos + 1 ELSE pos) /\ part' = -1
    BY <1>3 DEF VBlank, m4aSoundVSync, Played, SoundMain
  <2>2. TypeInv'
    BY <1>1, <2>1 DEF TypeInv, FlagsInv, ValuesInv
  <2>3. LockInv'
    BY <1>1, <2>1 DEF LockInv, SwitchedOff
  <2>4. TimerInv'
    BY <1>1 DEF TypeInv, FlagsInv, ValuesInv, TimerInv
  <2>5. CountInv'
    <3>1. pc \in {"on2", "on3", "wait", "release"} /\ call = "init" => pos' = 0
      BY <1>1, <2>1 DEF TypeInv, FlagsInv, ValuesInv, TimerInv, CountInv
    <3>2. pc \in {"on2", "on3"} => pos' <= 1 /\ hit'
      BY <1>1, <2>1 DEF TypeInv, FlagsInv, ValuesInv, CountInv
    <3>. QED
      BY <1>1, <1>3, <2>1, <3>1, <3>2 DEF CountInv
  <2>6. PartAhead'
    BY <2>1 DEF PartAhead
  <2>. QED
    BY <2>2, <2>3, <2>4, <2>5, <2>6
<1>. QED
  BY <1>2, <1>3

\* So does every step of the program's calls.
LEMMA StepIInv ==
  ASSUME IInv, [Next]_vars
  PROVE  IInv'
<1>. USE DEF IInv
<1>1. CASE VBlank
  BY <1>1, VBlankIInv
<1>2. CASE SoundInit
  <2>1. TypeInv'
    <3>1. FlagsInv'
      BY <1>2, Zenon DEF TypeInv, FlagsInv, SoundInit
    <3>2. ValuesInv'
      BY <1>2 DEF TypeInv, ValuesInv, LockInv, SwitchedOff, SoundInit, Zero
    <3>. QED
      BY <3>1, <3>2 DEF TypeInv
  <2>2. LockInv'
    BY <1>2 DEF TypeInv, FlagsInv, ValuesInv, LockInv, SwitchedOff, SoundInit, Zero
  <2>3. TimerInv'
    BY <1>2 DEF TypeInv, FlagsInv, ValuesInv, LockInv, TimerInv, SwitchedOff, SoundInit, Zero
  <2>4. CountInv'
    BY <1>2 DEF TypeInv, FlagsInv, ValuesInv, LockInv, TimerInv, CountInv, SwitchedOff, SoundInit, Zero
  <2>5. PartAhead'
    BY <1>2 DEF LockInv, PartAhead, SoundInit
  <2>. QED
    BY <2>1, <2>2, <2>3, <2>4, <2>5
<1>3. CASE \E f \in {"mode", "brief"} : Begin(f)
  <2>1. TypeInv'
    BY <1>3, PeriodsAssumption DEF TypeInv, FlagsInv, ValuesInv, LockInv, Begin, Zero
  <2>2. LockInv'
    BY <1>3 DEF TypeInv, FlagsInv, ValuesInv, LockInv, SwitchedOff, Begin, Zero
  <2>3. TimerInv'
    BY <1>3 DEF TypeInv, FlagsInv, ValuesInv, LockInv, TimerInv, SwitchedOff, Begin, Zero
  <2>4. CountInv'
    BY <1>3 DEF TypeInv, FlagsInv, ValuesInv, LockInv, TimerInv, CountInv, SwitchedOff, Begin, Zero
  <2>5. PartAhead'
    BY <1>3 DEF LockInv, PartAhead, Begin
  <2>. QED
    BY <2>1, <2>2, <2>3, <2>4, <2>5
<1>4. CASE Raise
  <2>1. TypeInv'
    BY <1>4, PeriodsAssumption DEF TypeInv, FlagsInv, ValuesInv, LockInv, Raise, Goto, Zero
  <2>2. LockInv'
    BY <1>4 DEF TypeInv, FlagsInv, ValuesInv, LockInv, SwitchedOff, Raise, Goto, Zero
  <2>3. TimerInv'
    BY <1>4 DEF TypeInv, FlagsInv, ValuesInv, LockInv, TimerInv, SwitchedOff, Raise, Goto, Zero
  <2>4. CountInv'
    BY <1>4 DEF TypeInv, FlagsInv, ValuesInv, LockInv, TimerInv, CountInv, SwitchedOff, Raise, Goto, Zero
  <2>5. PartAhead'
    BY <1>4 DEF LockInv, PartAhead, Raise, Goto
  <2>. QED
    BY <2>1, <2>2, <2>3, <2>4, <2>5
<1>5. CASE m4aSoundVSyncOff
  <2>1. TypeInv'
    BY <1>5, PeriodsAssumption DEF TypeInv, FlagsInv, ValuesInv, LockInv, m4aSoundVSyncOff, Zero
  <2>2. LockInv'
    BY <1>5 DEF TypeInv, FlagsInv, ValuesInv, LockInv, SwitchedOff, m4aSoundVSyncOff, Zero
  <2>3. TimerInv'
    BY <1>5 DEF TypeInv, FlagsInv, ValuesInv, LockInv, TimerInv, SwitchedOff, m4aSoundVSyncOff, Zero
  <2>4. CountInv'
    BY <1>5 DEF TypeInv, FlagsInv, ValuesInv, LockInv, TimerInv, CountInv, SwitchedOff, m4aSoundVSyncOff, Zero
  <2>5. PartAhead'
    BY <1>5 DEF LockInv, PartAhead, m4aSoundVSyncOff
  <2>. QED
    BY <2>1, <2>2, <2>3, <2>4, <2>5
<1>6. CASE VSyncOff_raise
  <2>1. TypeInv'
    BY <1>6, PeriodsAssumption DEF TypeInv, FlagsInv, ValuesInv, LockInv, VSyncOff_raise, Goto, Zero
  <2>2. LockInv'
    BY <1>6 DEF TypeInv, FlagsInv, ValuesInv, LockInv, SwitchedOff, VSyncOff_raise, Goto, Zero
  <2>3. TimerInv'
    BY <1>6 DEF TypeInv, FlagsInv, ValuesInv, LockInv, TimerInv, SwitchedOff, VSyncOff_raise, Goto, Zero
  <2>4. CountInv'
    BY <1>6 DEF TypeInv, FlagsInv, ValuesInv, LockInv, TimerInv, CountInv, SwitchedOff, VSyncOff_raise, Goto, Zero
  <2>5. PartAhead'
    BY <1>6 DEF LockInv, PartAhead, VSyncOff_raise, Goto
  <2>. QED
    BY <2>1, <2>2, <2>3, <2>4, <2>5
<1>7. CASE VSyncOff_stop
  <2>1. TypeInv'
    <3>1. FlagsInv'
      BY <1>7, Zenon DEF TypeInv, FlagsInv, VSyncOff_stop, Goto, Return
    <3>2. ValuesInv'
      BY <1>7 DEF TypeInv, ValuesInv, LockInv, SwitchedOff, VSyncOff_stop, Goto, Return, Zero
    <3>. QED
      BY <3>1, <3>2 DEF TypeInv
  <2>2. LockInv'
    BY <1>7 DEF TypeInv, FlagsInv, ValuesInv, LockInv, SwitchedOff, VSyncOff_stop, Goto, Return, Zero
  <2>3. TimerInv'
    BY <1>7 DEF TypeInv, FlagsInv, ValuesInv, LockInv, TimerInv, SwitchedOff, VSyncOff_stop, Goto, Return, Zero
  <2>4. CountInv'
    BY <1>7 DEF TypeInv, FlagsInv, ValuesInv, LockInv, TimerInv, CountInv, SwitchedOff, VSyncOff_stop, Goto, Return, Zero
  <2>5. PartAhead'
    BY <1>7 DEF LockInv, PartAhead, VSyncOff_stop, Goto, Return
  <2>. QED
    BY <2>1, <2>2, <2>3, <2>4, <2>5
<1>8. CASE SampleFreqSet
  <2>1. TypeInv'
    BY <1>8, PeriodsAssumption DEF TypeInv, FlagsInv, ValuesInv, LockInv, SampleFreqSet, Goto, Zero
  <2>2. LockInv'
    BY <1>8 DEF TypeInv, FlagsInv, ValuesInv, LockInv, SwitchedOff, SampleFreqSet, Goto, Zero
  <2>3. TimerInv'
    BY <1>8 DEF TypeInv, FlagsInv, ValuesInv, LockInv, TimerInv, SwitchedOff, SampleFreqSet, Goto, Zero
  <2>4. CountInv'
    BY <1>8 DEF TypeInv, FlagsInv, ValuesInv, LockInv, TimerInv, CountInv, SwitchedOff, SampleFreqSet, Goto, Zero
  <2>5. PartAhead'
    BY <1>8 DEF LockInv, PartAhead, SampleFreqSet, Goto
  <2>. QED
    BY <2>1, <2>2, <2>3, <2>4, <2>5
<1>9. CASE m4aSoundVSyncOn
  <2>1. TypeInv'
    BY <1>9, PeriodsAssumption DEF TypeInv, FlagsInv, ValuesInv, LockInv, m4aSoundVSyncOn, Zero
  <2>2. LockInv'
    BY <1>9 DEF TypeInv, FlagsInv, ValuesInv, LockInv, SwitchedOff, m4aSoundVSyncOn, Zero
  <2>3. TimerInv'
    BY <1>9 DEF TypeInv, FlagsInv, ValuesInv, LockInv, TimerInv, SwitchedOff, m4aSoundVSyncOn, Zero
  <2>4. CountInv'
    BY <1>9 DEF TypeInv, FlagsInv, ValuesInv, LockInv, TimerInv, CountInv, SwitchedOff, m4aSoundVSyncOn, Zero
  <2>5. PartAhead'
    BY <1>9 DEF LockInv, PartAhead, m4aSoundVSyncOn
  <2>. QED
    BY <2>1, <2>2, <2>3, <2>4, <2>5
<1>10. CASE VSyncOn_test
  <2>1. TypeInv'
    <3>1. FlagsInv'
      BY <1>10, Zenon DEF TypeInv, FlagsInv, VSyncOn_test, Return
    <3>2. ValuesInv'
      BY <1>10 DEF TypeInv, ValuesInv, LockInv, SwitchedOff, VSyncOn_test, Return, Zero
    <3>. QED
      BY <3>1, <3>2 DEF TypeInv
  <2>2. LockInv'
    BY <1>10 DEF TypeInv, FlagsInv, ValuesInv, LockInv, SwitchedOff, VSyncOn_test, Return, Zero
  <2>3. TimerInv'
    BY <1>10 DEF TypeInv, FlagsInv, ValuesInv, LockInv, TimerInv, SwitchedOff, VSyncOn_test, Return, Zero
  <2>4. CountInv'
    BY <1>10 DEF TypeInv, FlagsInv, ValuesInv, LockInv, TimerInv, CountInv, SwitchedOff, VSyncOn_test, Return, Zero
  <2>5. PartAhead'
    BY <1>10 DEF LockInv, PartAhead, VSyncOn_test, Return
  <2>. QED
    BY <2>1, <2>2, <2>3, <2>4, <2>5
<1>11. CASE VSyncOn_start
  <2>1. TypeInv'
    BY <1>11, PeriodsAssumption DEF TypeInv, FlagsInv, ValuesInv, LockInv, VSyncOn_start, Goto, Zero
  <2>2. LockInv'
    BY <1>11 DEF TypeInv, FlagsInv, ValuesInv, LockInv, SwitchedOff, VSyncOn_start, Goto, Zero
  <2>3. TimerInv'
    BY <1>11 DEF TypeInv, FlagsInv, ValuesInv, LockInv, TimerInv, SwitchedOff, VSyncOn_start, Goto, Zero
  <2>4. CountInv'
    BY <1>11 DEF TypeInv, FlagsInv, ValuesInv, LockInv, TimerInv, CountInv, SwitchedOff, VSyncOn_start, Goto, Zero
  <2>5. PartAhead'
    BY <1>11 DEF LockInv, PartAhead, VSyncOn_start, Goto
  <2>. QED
    BY <2>1, <2>2, <2>3, <2>4, <2>5
<1>12. CASE VSyncOn_count
  <2>1. TypeInv'
    BY <1>12, PeriodsAssumption DEF TypeInv, FlagsInv, ValuesInv, LockInv, VSyncOn_count, Goto, Zero
  <2>2. LockInv'
    BY <1>12 DEF TypeInv, FlagsInv, ValuesInv, LockInv, SwitchedOff, VSyncOn_count, Goto, Zero
  <2>3. TimerInv'
    BY <1>12 DEF TypeInv, FlagsInv, ValuesInv, LockInv, TimerInv, SwitchedOff, VSyncOn_count, Goto, Zero
  <2>4. CountInv'
    BY <1>12 DEF TypeInv, FlagsInv, ValuesInv, LockInv, TimerInv, CountInv, SwitchedOff, VSyncOn_count, Goto, Zero
  <2>5. PartAhead'
    BY <1>12 DEF LockInv, PartAhead, VSyncOn_count, Goto
  <2>. QED
    BY <2>1, <2>2, <2>3, <2>4, <2>5
<1>13. CASE VSyncOn_lower
  <2>1. TypeInv'
    <3>1. FlagsInv'
      BY <1>13, Zenon DEF TypeInv, FlagsInv, VSyncOn_lower, Goto, Return
    <3>2. ValuesInv'
      BY <1>13 DEF TypeInv, ValuesInv, LockInv, SwitchedOff, VSyncOn_lower, Goto, Return, Zero
    <3>. QED
      BY <3>1, <3>2 DEF TypeInv
  <2>2. LockInv'
    BY <1>13 DEF TypeInv, FlagsInv, ValuesInv, LockInv, SwitchedOff, VSyncOn_lower, Goto, Return, Zero
  <2>3. TimerInv'
    BY <1>13 DEF TypeInv, FlagsInv, ValuesInv, LockInv, TimerInv, SwitchedOff, VSyncOn_lower, Goto, Return, Zero
  <2>4. CountInv'
    BY <1>13 DEF TypeInv, FlagsInv, ValuesInv, LockInv, TimerInv, CountInv, SwitchedOff, VSyncOn_lower, Goto, Return, Zero
  <2>5. PartAhead'
    BY <1>13 DEF LockInv, PartAhead, VSyncOn_lower, Goto, Return
  <2>. QED
    BY <2>1, <2>2, <2>3, <2>4, <2>5
<1>14. CASE SampleFreqSet_timer
  <2>1. TypeInv'
    BY <1>14, PeriodsAssumption DEF TypeInv, FlagsInv, ValuesInv, LockInv, SampleFreqSet_timer, Zero
  <2>2. LockInv'
    BY <1>14 DEF TypeInv, FlagsInv, ValuesInv, LockInv, SwitchedOff, SampleFreqSet_timer, Zero
  <2>3. TimerInv'
    BY <1>14 DEF TypeInv, FlagsInv, ValuesInv, LockInv, TimerInv, SwitchedOff, SampleFreqSet_timer, Zero
  <2>4. CountInv'
    BY <1>14 DEF TypeInv, FlagsInv, ValuesInv, LockInv, TimerInv, CountInv, SwitchedOff, SampleFreqSet_timer, Zero
  <2>5. PartAhead'
    BY <1>14 DEF LockInv, PartAhead, SampleFreqSet_timer
  <2>. QED
    BY <2>1, <2>2, <2>3, <2>4, <2>5
<1>15. CASE Release
  <2>1. TypeInv'
    <3>1. FlagsInv'
      BY <1>15, Zenon DEF TypeInv, FlagsInv, Release, Return
    <3>2. ValuesInv'
      BY <1>15 DEF TypeInv, ValuesInv, LockInv, SwitchedOff, Release, Return, Zero
    <3>. QED
      BY <3>1, <3>2 DEF TypeInv
  <2>2. LockInv'
    BY <1>15 DEF TypeInv, FlagsInv, ValuesInv, LockInv, SwitchedOff, Release, Return, Zero
  <2>3. TimerInv'
    BY <1>15 DEF TypeInv, FlagsInv, ValuesInv, LockInv, TimerInv, SwitchedOff, Release, Return, Zero
  <2>4. CountInv'
    BY <1>15 DEF TypeInv, FlagsInv, ValuesInv, LockInv, TimerInv, CountInv, SwitchedOff, Release, Return, Zero
  <2>5. PartAhead'
    BY <1>15 DEF LockInv, PartAhead, Release, Return
  <2>. QED
    BY <2>1, <2>2, <2>3, <2>4, <2>5
<1>16. CASE UNCHANGED vars
  BY <1>16 DEF vars, TypeInv, FlagsInv, ValuesInv, LockInv, TimerInv, CountInv, PartAhead, SwitchedOff
<1>. QED
  BY <1>1, <1>2, <1>3, <1>4, <1>5, <1>6, <1>7, <1>8, <1>9, <1>10, <1>11, <1>12, <1>13, <1>14, <1>15, <1>16 DEF Next

-----------------------------------------------------------------------------
\* The lock and the count hold in every state of m4aSoundInit, m4aSoundMode,
\* m4aSoundVSyncOn and m4aSoundVSyncOff under the vertical blank (m4a_1.s:1095,
\* m4a_2.c:430).
THEOREM Invariance == SafeSpec => []IInv
BY InitIInv, StepIInv, PTL DEF SafeSpec

\* Between the program's calls the DMAs run exactly when ident is ID_NUMBER, and
\* ident never leaves its protocol, wherever the interrupt comes (m4a_2.c:510, 530).
THEOREM DmaFollowsIdentHolds == SafeSpec => []DmaFollowsIdent
<1>1. IInv => DmaFollowsIdent
  BY DEF IInv, TypeInv, FlagsInv, ValuesInv, LockInv, SwitchedOff, DmaFollowsIdent, Zero
<1>. QED
  BY <1>1, Invariance, PTL

\* m4aSoundVSync restarts the DMAs before they run past the buffer, for every
\* period SampleFreqSet may choose (m4a_1.s:1104).
THEOREM DmaInBufferHolds == SafeSpec => []DmaInBuffer
<1>1. ASSUME IInv, dma, ident \in {0, 1}
      PROVE  pos < period
  <2>1. period \in Nat /\ period >= 2
    BY <1>1, Counting DEF IInv
  <2>2. (counter <= 0 => pos <= 1) /\ (counter >= 1 => pos + counter <= period)
    BY <1>1 DEF IInv, CountInv
  <2>. QED
    BY <1>1, <2>1, <2>2 DEF IInv, TypeInv, FlagsInv, ValuesInv
<1>2. IInv => DmaInBuffer
  BY <1>1 DEF DmaInBuffer
<1>. QED
  BY <1>2, Invariance, PTL

\* SoundMain never fills the part being played, for every period from 3 on
\* (m4a_1.s:88).
THEOREM PartAheadHolds == SafeSpec => []PartAhead
<1>1. IInv => PartAhead
  BY DEF IInv
<1>. QED
  BY <1>1, Invariance, PTL
=============================================================================
