------------------------------- MODULE M4aSound -------------------------------
(* The sound buffer of m4a and the lock in front of it (m4a_1.s, m4a_2.c).    *)
(* The two sound DMAs play the buffer part by part, a part per frame, and are *)
(* restarted every pcmDmaPeriod frames by m4aSoundVSync; SoundMain fills the  *)
(* part that is played next.  SoundInfo.ident is ID_NUMBER when the sound is  *)
(* on and nobody works on it, one more while a function does, and ten more    *)
(* while the DMAs are switched off.  The vertical blank interrupt, which      *)
(* calls m4aSoundVSync and then SoundMain, may come between any two of the    *)
(* program's steps.                                                           *)
EXTENDS Integers

CONSTANTS
    Periods   \* values of pcmDmaPeriod, PCM_DMA_BUF_SIZE over the samples of a frame

ASSUME PeriodsAssumption == Periods \subseteq Nat \ {0, 1} /\ Periods # {}

VARIABLES
    ident,    \* SoundInfo.ident less ID_NUMBER
    counter,  \* pcmDmaCounter
    period,   \* pcmDmaPeriod
    dma,      \* the sound DMAs are enabled
    timer,    \* timer 0, which paces them: off, started in this frame, or on
    pos,      \* the part the DMAs are playing
    part,     \* the part SoundMain filled at the last vertical blank, -1 if none
    pc, call, \* the program's place in its call
    saved,    \* m4aSoundVSyncOn's copy of ident
    hit       \* a vertical blank came in this call

vars == <<ident, counter, period, dma, timer, pos, part, pc, call, saved, hit>>

Zero == -100   \* ident = 0, as m4aSoundInit leaves it while it works

\* Before m4aSoundInit.
Init ==
    /\ ident = Zero /\ counter = 0 /\ period = 0
    /\ dma = FALSE /\ timer = "off" /\ pos = 0 /\ part = -1
    /\ pc = "off" /\ call = "none" /\ saved = Zero /\ hit = FALSE

-----------------------------------------------------------------------------
(* The vertical blank interrupt.                                             *)

\* A reload one frame too late.
Reload_Late(c) == c - 1 < 0

\* m4aSoundVSync counts a frame; after the last part the DMAs are restarted.
Reload(c) == c - 1 <= 0

\* SoundMain fills the part that is being played.
NextPart_Current(c, p) == IF c > 1 THEN p - c ELSE 0

\* The part SoundMain fills, from the counter m4aSoundVSync left.
NextPart(c, p) == IF c > 1 THEN p - (c - 1) ELSE 0

\* A frame further: the DMAs move on while the timer paces them.
Played == IF dma /\ timer = "on" THEN pos + 1 ELSE pos

m4aSoundVSync ==
    IF ident \in {0, 1}
    THEN /\ counter' = IF Reload(counter) THEN period ELSE counter - 1
         /\ dma' = (Reload(counter) \/ dma)
         /\ pos' = IF Reload(counter) THEN 0 ELSE Played
    ELSE UNCHANGED <<counter, dma>> /\ pos' = Played

SoundMain == part' = IF ident = 0 THEN NextPart(counter', period) ELSE -1

\* A call takes less than a frame, so at most one vertical blank comes in it; and
\* one more after SampleFreqSet has waited for the scan line before it.
VBlank ==
    /\ ~hit
    /\ hit' = (pc \notin {"off", "idle"})
    /\ m4aSoundVSync /\ SoundMain
    /\ timer' = IF timer = "started" THEN "on" ELSE timer
    /\ UNCHANGED <<ident, period, pc, call, saved>>

-----------------------------------------------------------------------------
(* The program's calls.                                                      *)

Goto(l) == pc' = l /\ UNCHANGED <<call, saved, hit>>

Return == pc' = "idle" /\ call' = "none" /\ saved' = 0 /\ hit' = FALSE

\* SoundInit: the DMAs stop, the structure is cleared, a rate is chosen.
SoundInit ==
    /\ pc \in {"off", "idle"}
    /\ ident' = Zero /\ dma' = FALSE
    /\ pc' = "freq" /\ call' = "init"
    /\ counter' = 0 /\ period' = 0
    /\ UNCHANGED <<timer, pos, part, saved, hit>>

\* m4aSoundMode with a rate, and every other function that works on the channels
\* (SoundClear, MPlayExtender, MPlayOpen, m4aSoundMode without a rate), if it
\* finds ident free.
Begin(f) ==
    /\ pc = "idle" /\ ident = 0
    /\ pc' = "raise" /\ call' = f
    /\ UNCHANGED <<ident, counter, period, dma, timer, pos, part, saved, hit>>

Raise ==
    /\ pc = "raise"
    /\ ident' = 1
    /\ Goto(IF call = "mode" THEN "off1" ELSE "release")
    /\ UNCHANGED <<counter, period, dma, timer, pos, part>>

\* m4aSoundVSyncOff: ident += 10 keeps the interrupt away, then the DMAs stop.
m4aSoundVSyncOff ==
    /\ pc = "idle" /\ ident \in {0, 1}
    /\ pc' = "off1" /\ call' = "vsyncoff"
    /\ UNCHANGED <<ident, counter, period, dma, timer, pos, part, saved, hit>>

VSyncOff_raise ==
    /\ pc = "off1"
    /\ ident' = ident + 10
    /\ Goto("off2")
    /\ UNCHANGED <<counter, period, dma, timer, pos, part>>

VSyncOff_stop ==
    /\ pc = "off2"
    /\ dma' = FALSE
    /\ IF call = "mode" THEN Goto("freq") ELSE Return
    /\ UNCHANGED <<ident, counter, period, timer, pos, part>>

\* SampleFreqSet: the period, with the timer off, and then m4aSoundVSyncOn.
SampleFreqSet ==
    /\ pc = "freq"
    /\ period' \in Periods
    /\ timer' = "off"
    /\ Goto("on0")
    /\ UNCHANGED <<ident, counter, dma, pos, part>>

\* m4aSoundVSyncOn as the program calls it.
m4aSoundVSyncOn ==
    /\ pc = "idle"
    /\ pc' = "on0" /\ call' = "vsyncon"
    /\ UNCHANGED <<ident, counter, period, dma, timer, pos, part, saved, hit>>

\* The test for sound that is on already is missing.
VSyncOn_test_Always ==
    /\ pc = "on0"
    /\ saved' = ident /\ pc' = "on1" /\ UNCHANGED <<call, hit>>
    /\ UNCHANGED <<ident, counter, period, dma, timer, pos, part>>

VSyncOn_test ==
    /\ pc = "on0"
    /\ IF ident = 0 THEN Return ELSE saved' = ident /\ pc' = "on1" /\ UNCHANGED <<call, hit>>
    /\ UNCHANGED <<ident, counter, period, dma, timer, pos, part>>

\* The DMAs start at the buffer's first part.
VSyncOn_start ==
    /\ pc = "on1"
    /\ dma' = TRUE /\ pos' = 0 /\ part' = -1
    /\ Goto("on2")
    /\ UNCHANGED <<ident, counter, period, timer>>

VSyncOn_count ==
    /\ pc = "on2"
    /\ counter' = 0
    /\ Goto("on3")
    /\ UNCHANGED <<ident, period, dma, timer, pos, part>>

VSyncOn_lower ==
    /\ pc = "on3"
    /\ ident' = saved - 10
    /\ IF call = "vsyncon" THEN Return
       ELSE Goto("wait")
    /\ UNCHANGED <<counter, period, dma, timer, pos, part>>

\* Scan line 159: the timer starts.
SampleFreqSet_timer ==
    /\ pc = "wait"
    /\ timer' = "started" /\ hit' = FALSE
    /\ pc' = "release" /\ UNCHANGED <<call, saved>>
    /\ UNCHANGED <<ident, counter, period, dma, pos, part>>

\* ident = ID_NUMBER, of m4aSoundMode, SoundInit and the others.
Release ==
    /\ pc = "release"
    /\ ident' = 0
    /\ Return
    /\ UNCHANGED <<counter, period, dma, timer, pos, part>>

Next ==
    \/ VBlank
    \/ SoundInit \/ \E f \in {"mode", "brief"} : Begin(f)
    \/ Raise \/ m4aSoundVSyncOff \/ VSyncOff_raise \/ VSyncOff_stop
    \/ SampleFreqSet \/ m4aSoundVSyncOn \/ VSyncOn_test \/ VSyncOn_start
    \/ VSyncOn_count \/ VSyncOn_lower \/ SampleFreqSet_timer \/ Release

SafeSpec == Init /\ [][Next]_vars

-----------------------------------------------------------------------------
(* Properties.                                                               *)

\* ident only takes the values its protocol has, and between calls the DMAs run
\* exactly when it says so: an interrupt inside m4aSoundVSyncOff, m4aSoundVSyncOn
\* or m4aSoundMode loses no raise or lower of ident, does not restart DMAs that
\* were switched off, nor leaves the sound off with ident at ID_NUMBER
\* (m4a_2.c:510, 530; m4a_1.s:1112).
DmaFollowsIdent ==
    /\ ident \in {0, 1, 10, 11, Zero, Zero - 10}
    /\ pc = "idle" => \/ ident = 0 /\ dma
                      \/ ident = 10 /\ ~dma

\* While the sound is on the DMAs never run past the end of the buffer, through
\* every change of the rate and every frame a lock kept SoundMain out of
\* (m4a_1.s:1104).
DmaInBuffer == dma /\ ident \in {0, 1} => pos < period

\* SoundMain never fills the part the DMAs are playing (m4a_1.s:88).  With two
\* parts only, the highest rates, there is no slack for the frame in which timer 0
\* has not started yet: there it may, once, when m4aSoundMode is called on scan
\* line 159.
PartAhead == dma /\ part # -1 /\ period > 2 => part # pos
=============================================================================
