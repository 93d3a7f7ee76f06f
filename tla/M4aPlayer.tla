------------------------------ MODULE M4aPlayer ------------------------------
(* The music players of m4a (m4a_1.s, m4a_2.c, m4a_4.c): the players a       *)
(* program starts, stops and fades, the tracks they step, and the sound      *)
(* channels all tracks share.  A sounding note is a channel on the list of   *)
(* its track: track.chan is the head, np and pp link the channels, and each  *)
(* channel points back at its track.                                         *)
(*                                                                           *)
(* SoundMain is called once a frame, usually from the vertical blank         *)
(* interrupt: it steps the chain of players, the last opened one first, and  *)
(* mixes.  The program calls the other functions and may be interrupted      *)
(* between the memory accesses they make; SoundMain itself runs to its end.  *)
(* Each player has a lock, its ident, which both sides test.                 *)
EXTENDS Integers

CONSTANTS
    NumPlayers, \* players are numbered in the order MPlayOpen opened them
    NumTracks,  \* tracks are numbered in the order of their addresses
    Owner,      \* the player of each track; a player's tracks are neighbours
    NumDirect,  \* direct sound channels in use (maxChans)
    NumCgb,     \* channels of the old sound generator, one per type of tone
    Songs,      \* the priorities of the songs the program starts, none of them 0
    Ends,       \* the tracks songs may end with, 0 for a song without tracks
    TrackPrios, \* the priorities the songs' commands give to tracks
    MaxPrio,    \* a note's priority is a byte and stops there
    Guarded,    \* the players with unk_B set: priority decides who may start
    Calls,      \* the functions the program calls
    Callees,    \* the players it calls them on
    Preempt,    \* the players in whose calls SoundMain may interrupt the program;
                \* {} when the program itself calls SoundMain
    Speeds,     \* frames between two steps of a fade
    VolMax      \* full volume of a fade, a multiple of 4 (FADE_VOL_MAX, 64)

Players  == 1 .. NumPlayers
Tracks   == 1 .. NumTracks
Direct   == 1 .. NumDirect
Channels == 1 .. NumDirect + NumCgb

AllCalls == {"start", "stop", "continue", "fadeout", "fadetemp", "fadein", "control", "imminit"}

ASSUME SizeAssumption ==
    /\ NumPlayers \in Nat \ {0} /\ NumTracks \in Nat \ {0}
    /\ NumDirect \in Nat \ {0} /\ NumCgb \in Nat
    /\ Owner \in [Tracks -> Players]
    /\ \A t \in Tracks \ {NumTracks} : Owner[t + 1] \in {Owner[t], Owner[t] + 1}
    /\ Owner[1] = 1 /\ Owner[NumTracks] = NumPlayers
ASSUME ValueAssumption ==
    /\ Songs \subseteq 1 .. MaxPrio /\ Ends \subseteq Tracks \cup {0}
    /\ TrackPrios \subseteq Nat /\ MaxPrio \in Nat
    /\ Guarded \subseteq Players /\ Callees \subseteq Players
    /\ Calls \subseteq AllCalls /\ Preempt \subseteq Players
    /\ Speeds \subseteq Nat \ {0} /\ VolMax \in Nat \ {0} /\ VolMax % 4 = 0

VARIABLES
    status, track, np, pp, prio,  \* SoundChannel: state, owner, links, priority
    flags, chan,                  \* MusicPlayerTrack: EXIST and START, list head
    lock, pause, mask, song,      \* MusicPlayerInfo: ident, status, priority
    oi, oc, ov,                   \* MusicPlayerInfo: fadeOI, fadeOC, fadeOV
    pc, call, cp, cs, ct, r4,     \* the program's call: player, argument, cursors
    hpc, hp, ht, hc, alive        \* SoundMain: player, cursors, tracks seen

channels == <<status, track, np, pp, prio>>
tracks   == <<flags, chan>>
infos    == <<lock, pause, mask, song, oi, oc, ov>>
program  == <<pc, call, cp, cs, ct, r4>>
handler  == <<hpc, hp, ht, hc, alive>>
vars     == <<channels, tracks, infos, program, handler>>

FirstTrack(p) == CHOOSE t \in Tracks : Owner[t] = p /\ (t = 1 \/ Owner[t - 1] # p)

\* The next track of the same player, 0 after its last one.
NextTrack(t) == IF t < NumTracks /\ Owner[t + 1] = Owner[t] THEN t + 1 ELSE 0

\* m4aSoundInit has opened every player: nothing plays, all are paused.
Init ==
    /\ status = [c \in Channels |-> "off"] /\ track = [c \in Channels |-> 0]
    /\ np = [c \in Channels |-> 0] /\ pp = [c \in Channels |-> 0]
    /\ prio = [c \in Channels |-> 0]
    /\ flags = [t \in Tracks |-> "none"] /\ chan = [t \in Tracks |-> 0]
    /\ lock = [p \in Players |-> 0] /\ pause = [p \in Players |-> 1]
    /\ mask = [p \in Players |-> 0] /\ song = [p \in Players |-> 0]
    /\ oi = [p \in Players |-> 0] /\ oc = [p \in Players |-> 0]
    /\ ov = [p \in Players |-> 0]
    /\ pc = "idle" /\ call = "none" /\ cp = 0 /\ cs = 0 /\ ct = 0 /\ r4 = 0
    /\ hpc = "idle" /\ hp = 0 /\ ht = 0 /\ hc = 0 /\ alive = 0

-----------------------------------------------------------------------------
(* Channel lists.                                                            *)

\* The channel behind c keeps pointing at it.
Cleared_OneWay(c) ==
    LET t == track[c]
        n == np[c]
        q == pp[c]
    IN  IF t = 0 THEN [np |-> np, pp |-> pp, chan |-> chan, track |-> track]
        ELSE [np    |-> IF q # 0 THEN [np EXCEPT ![q] = n] ELSE np,
              pp    |-> pp,
              chan  |-> IF q = 0 THEN [chan EXCEPT ![t] = n] ELSE chan,
              track |-> [track EXCEPT ![c] = 0]]

\* RealClearChain: c leaves the list of its track, its own links stay behind.
Cleared(c) ==
    LET t == track[c]
        n == np[c]
        q == pp[c]
    IN  IF t = 0 THEN [np |-> np, pp |-> pp, chan |-> chan, track |-> track]
        ELSE [np    |-> IF q # 0 THEN [np EXCEPT ![q] = n] ELSE np,
              pp    |-> IF n # 0 THEN [pp EXCEPT ![n] = q] ELSE pp,
              chan  |-> IF q = 0 THEN [chan EXCEPT ![t] = n] ELSE chan,
              track |-> [track EXCEPT ![c] = 0]]

ClearChain(c) ==
    LET h == Cleared(c)
    IN  np' = h.np /\ pp' = h.pp /\ chan' = h.chan /\ track' = h.track

\* The end of ply_note: c, taken from whoever had it, becomes the head of t's list.
Attach(c, t) ==
    LET h == Cleared(c)
        n == h.chan[t]
    IN  /\ np' = [h.np EXCEPT ![c] = n]
        /\ pp' = [k \in Channels |-> IF k = c THEN 0 ELSE IF k = n THEN c ELSE h.pp[k]]
        /\ chan' = [h.chan EXCEPT ![t] = c]
        /\ track' = [h.track EXCEPT ![c] = t]

\* c, of priority pr[c], is less important than the candidate b so far; the first released channel
\* replaces any candidate, and from then on only released ones are compared.
LessImportant(c, b, pr) == pr[c] < b.prio \/ (pr[c] = b.prio /\ track[c] >= b.track)

\* The candidate from among the held notes survives the first released channel.
Candidate_Kept(c, b, pr) ==
    (status[c] = "stop" \/ ~b.stopping) /\ LessImportant(c, b, pr)

Candidate(c, b, pr) ==
    CASE status[c] = "stop" /\ ~b.stopping -> TRUE
      [] status[c] = "on" /\ b.stopping    -> FALSE
      [] OTHER                             -> LessImportant(c, b, pr)

\* ply_note's search for a direct sound channel: the first silent one, else the
\* candidate left after comparing every channel with the best one so far.
DirectChoice(t, p, pr) ==
    LET scan[c \in 0 .. NumDirect] ==
            IF c = 0
            THEN [chan |-> 0, prio |-> p, track |-> t, stopping |-> FALSE, free |-> FALSE]
            ELSE LET b == scan[c - 1]
                 IN  IF b.free THEN b
                     ELSE IF status[c] = "off" THEN [b EXCEPT !.chan = c, !.free = TRUE]
                     ELSE IF Candidate(c, b, pr)
                          THEN [b EXCEPT !.chan = c, !.prio = pr[c], !.track = track[c],
                                         !.stopping = (status[c] = "stop") \/ b.stopping]
                          ELSE b
    IN  scan[NumDirect].chan

\* A tone of the old generator has one channel, which it gets or does not.
CgbChoice(t, p, k) ==
    LET c == NumDirect + k
    IN  IF \/ status[c] # "on"
           \/ prio[c] < p
           \/ prio[c] = p /\ track[c] >= t
        THEN c ELSE 0

\* The sum is not cut off at a byte.
NotePrio_Wide(p, d) == song[p] + d

\* The priority of a note: the player's and the track's, at most a byte.
NotePrio(p, d) == IF song[p] + d > MaxPrio THEN MaxPrio ELSE song[p] + d

-----------------------------------------------------------------------------
(* The program.  Each function tests the player's ident, raises it, works,   *)
(* and writes it back; an interrupt may come between any two of the actions. *)

Running == hpc = "idle"

Goto(l) == pc' = l /\ UNCHANGED <<call, cp, cs, ct, r4>>

Return == pc' = "idle" /\ call' = "none" /\ cp' = 0 /\ cs' = 0 /\ ct' = 0 /\ r4' = 0

\* The call and its test of ident.  A locked player makes every function return;
\* m4aMPlayImmInit has no test, so that a program has to keep SoundMain out of it.
Call(f, p) ==
    /\ Running /\ pc = "idle" /\ f \in Calls /\ p \in Callees
    /\ IF f = "imminit" THEN p \notin Preempt ELSE lock[p] = 0
    /\ call' = f /\ cp' = p
    /\ UNCHANGED <<channels, tracks, infos, handler, r4>>

\* ct is the song's last track on the player.
MPlayStart(p) ==
    /\ Call("start", p)
    /\ cs' \in Songs /\ ct' \in {t \in Ends : t # 0 => Owner[t] = p}
    /\ pc' = "look"

\* The functions without an argument that matters here.
Simple(f, p) == Call(f, p) /\ pc' = "lock" /\ cs' = 0 /\ ct' = 0

FadeCall(f, p) == Call(f, p) /\ pc' = "lock" /\ cs' \in Speeds /\ ct' = 0

\* The START flag is not looked at.
MPlayStart_look_StatusOnly ==
    /\ Running /\ pc = "look"
    /\ IF cp \notin Guarded THEN Goto("lock") ELSE Goto("look2")
    /\ UNCHANGED <<channels, tracks, infos, handler>>

\* MPlayStart looks at the first track's START flag ...
MPlayStart_look ==
    /\ Running /\ pc = "look"
    /\ IF cp \notin Guarded THEN Goto("lock")
       ELSE IF song[cp] = 0 \/ flags[FirstTrack(cp)] # "start" THEN Goto("look2")
       ELSE IF song[cp] <= cs THEN Goto("lock") ELSE Return
    /\ UNCHANGED <<channels, tracks, infos, handler>>

\* ... and then at the player's status: it is to be idle, or of no higher priority.
MPlayStart_look2 ==
    /\ Running /\ pc = "look2"
    /\ IF mask[cp] = 0 \/ pause[cp] = 1 \/ song[cp] <= cs THEN Goto("lock") ELSE Return
    /\ UNCHANGED <<channels, tracks, infos, handler>>

\* ident++ and the stores that follow it; MPlayStart and m4aMPlayStop go on to
\* stop the tracks, ct then holds the song's last track and r4 is not used yet.
Locked ==
    /\ Running /\ pc = "lock" /\ lock' = [lock EXCEPT ![cp] = 1]
    /\ UNCHANGED <<channels, tracks, handler>>

MPlayStart_lock ==
    /\ call = "start" /\ Locked
    /\ pause' = [pause EXCEPT ![cp] = 0] /\ mask' = [mask EXCEPT ![cp] = 0]
    /\ song' = [song EXCEPT ![cp] = cs] /\ oi' = [oi EXCEPT ![cp] = 0]
    /\ cs' = ct /\ ct' = FirstTrack(cp) /\ pc' = "stop"
    /\ UNCHANGED <<oc, ov, call, cp, r4>>

\* The player is paused and its tracks are left as they are.
m4aMPlayStop_lock_PauseOnly ==
    /\ call = "stop" /\ Locked
    /\ pause' = [pause EXCEPT ![cp] = 1]
    /\ Goto("unlock")
    /\ UNCHANGED <<mask, song, oi, oc, ov>>

m4aMPlayStop_lock ==
    /\ call = "stop" /\ Locked
    /\ pause' = [pause EXCEPT ![cp] = 1]
    /\ ct' = FirstTrack(cp) /\ pc' = "stop"
    /\ UNCHANGED <<mask, song, oi, oc, ov, call, cp, cs, r4>>

MPlayContinue ==
    /\ call = "continue" /\ Locked
    /\ pause' = [pause EXCEPT ![cp] = 0]
    /\ Goto("unlock")
    /\ UNCHANGED <<mask, song, oi, oc, ov>>

\* The controls of m4a_4.c change volume, pitch, pan, modulation and tempo only.
m4aMPlayControl ==
    /\ call = "control" /\ Locked
    /\ Goto("unlock")
    /\ UNCHANGED <<pause, mask, song, oi, oc, ov>>

\* fadeOV holds the volume times 4, TEMPORARY_FADE in bit 0 and FADE_IN in bit 1.
FadeStart(v) ==
    /\ Locked
    /\ oi' = [oi EXCEPT ![cp] = cs] /\ oc' = [oc EXCEPT ![cp] = cs]
    /\ ov' = [ov EXCEPT ![cp] = v]
    /\ Goto("unlock")
    /\ UNCHANGED <<mask, song>>

MPlayFadeOut ==
    call = "fadeout" /\ FadeStart(4 * VolMax) /\ UNCHANGED pause
m4aMPlayFadeOutTemporarily ==
    call = "fadetemp" /\ FadeStart(4 * VolMax + 1) /\ UNCHANGED pause
m4aMPlayFadeIn ==
    call = "fadein" /\ FadeStart(2) /\ pause' = [pause EXCEPT ![cp] = 0]

\* TrackStop called by the program, access by access: it silences the channels
\* on the track's list, one after the other, and forgets the list.
TrackStop ==
    /\ Running /\ pc = "stop"
    /\ IF flags[ct] = "none" THEN pc' = "set" /\ UNCHANGED r4
       ELSE r4' = chan[ct] /\ pc' = IF chan[ct] = 0 THEN "forget" ELSE "silence"
    /\ UNCHANGED <<channels, tracks, infos, handler, call, cp, cs, ct>>

TrackStop_silence ==
    /\ Running /\ pc = "silence"
    /\ status' = [status EXCEPT ![r4] = "off"]
    /\ Goto("disown")
    /\ UNCHANGED <<track, np, pp, prio, tracks, infos, handler>>

TrackStop_disown ==
    /\ Running /\ pc = "disown"
    /\ track' = [track EXCEPT ![r4] = 0]
    /\ Goto("follow")
    /\ UNCHANGED <<status, np, pp, prio, tracks, infos, handler>>

TrackStop_follow ==
    /\ Running /\ pc = "follow"
    /\ r4' = np[r4]
    /\ pc' = IF np[r4] = 0 THEN "forget" ELSE "silence"
    /\ UNCHANGED <<channels, tracks, infos, handler, call, cp, cs, ct>>

TrackStop_forget ==
    /\ Running /\ pc = "forget"
    /\ chan' = [chan EXCEPT ![ct] = 0]
    /\ Goto("set")
    /\ UNCHANGED <<channels, flags, infos, handler>>

\* MPlayStart gives the song's tracks to the next step; m4aMPlayStop keeps them.
AfterStop ==
    /\ Running /\ pc = "set"
    /\ IF call = "start"
       THEN /\ flags' = [flags EXCEPT ![ct] = IF ct <= cs THEN "start" ELSE "none"]
            /\ chan' = IF ct <= cs THEN [chan EXCEPT ![ct] = 0] ELSE chan
       ELSE UNCHANGED tracks
    /\ IF NextTrack(ct) = 0 THEN pc' = "unlock" /\ UNCHANGED ct
       ELSE pc' = "stop" /\ ct' = NextTrack(ct)
    /\ UNCHANGED <<channels, infos, handler, call, cp, cs, r4>>

\* ident = ID_NUMBER and the return.
Unlock ==
    /\ Running /\ pc = "unlock"
    /\ lock' = [lock EXCEPT ![cp] = 0]
    /\ Return
    /\ UNCHANGED <<channels, tracks, pause, mask, song, oi, oc, ov, handler>>

\* m4aMPlayImmInit takes no lock: it tests a track's START flag and clears it.
m4aMPlayImmInit(p) ==
    Call("imminit", p) /\ pc' = "imm" /\ ct' = FirstTrack(p) /\ cs' = 0

ImmNext ==
    IF NextTrack(ct) = 0 THEN Return
    ELSE pc' = "imm" /\ ct' = NextTrack(ct) /\ UNCHANGED <<call, cp, cs, r4>>

m4aMPlayImmInit_test ==
    /\ Running /\ pc = "imm"
    /\ IF flags[ct] = "start" THEN Goto("immclear") ELSE ImmNext
    /\ UNCHANGED <<channels, tracks, infos, handler>>

m4aMPlayImmInit_clear ==
    /\ Running /\ pc = "immclear"
    /\ flags' = [flags EXCEPT ![ct] = "exist"] /\ chan' = [chan EXCEPT ![ct] = 0]
    /\ ImmNext
    /\ UNCHANGED <<channels, infos, handler>>

Program ==
    \/ \E p \in Players :
        \/ MPlayStart(p)
        \/ \E f \in {"stop", "continue", "control"} : Simple(f, p)
        \/ \E f \in {"fadeout", "fadetemp", "fadein"} : FadeCall(f, p)
        \/ m4aMPlayImmInit(p)
    \/ MPlayStart_look \/ MPlayStart_look2 \/ MPlayStart_lock
    \/ m4aMPlayStop_lock \/ MPlayContinue \/ m4aMPlayControl
    \/ MPlayFadeOut \/ m4aMPlayFadeOutTemporarily \/ m4aMPlayFadeIn
    \/ TrackStop \/ TrackStop_silence \/ TrackStop_disown \/ TrackStop_follow
    \/ TrackStop_forget \/ AfterStop \/ Unlock
    \/ m4aMPlayImmInit_test \/ m4aMPlayImmInit_clear

-----------------------------------------------------------------------------
(* SoundMain, from its call to its return.  The program stands still.        *)

SoundMain ==
    /\ Running /\ (pc = "idle" \/ cp \in Preempt)
    /\ hpc' = "enter" /\ hp' = NumPlayers
    /\ UNCHANGED <<channels, tracks, infos, program, ht, hc, alive>>

\* MPlayMain works after the call of the next player returned; the last opened
\* player is the last to work, and then the mixer follows.
WorkOn(p) ==
    IF p \in Players THEN hpc' = "body" /\ hp' = p ELSE hpc' = "mix" /\ hp' = 0

\* A locked player returns at once, and so keeps all players after it waiting.
MPlayMain ==
    /\ hpc = "enter"
    /\ IF lock[hp] # 0 THEN WorkOn(hp + 1) /\ UNCHANGED lock
       ELSE /\ lock' = [lock EXCEPT ![hp] = 1]
            /\ IF hp = 1 THEN WorkOn(1) ELSE hpc' = "enter" /\ hp' = hp - 1
    /\ UNCHANGED <<channels, tracks, pause, mask, song, oi, oc, ov, program, ht, hc, alive>>

\* The end of MPlayMain.
Done ==
    /\ lock' = [lock EXCEPT ![hp] = 0]
    /\ WorkOn(hp + 1)
    /\ ht' = 0 /\ hc' = 0 /\ alive' = 0

MPlayMain_paused ==
    /\ hpc = "body" /\ pause[hp] = 1
    /\ Done
    /\ UNCHANGED <<channels, tracks, pause, mask, song, oi, oc, ov, program>>

FadesIn(v)   == (v \div 2) % 2 = 1
FadesTemp(v) == v % 2 = 1

\* FadeOutBody: every fadeOI frames the volume moves by 4; FadeLeft is the new
\* fadeOV.  A fade out is over when fadeOV, a signed number, is not positive.
FadeLeft(p) == IF FadesIn(ov[p]) THEN ov[p] + 16 ELSE ov[p] - 16

FadeOver(p) ==
    /\ oi[p] # 0 /\ oc[p] = 1
    /\ IF FadesIn(ov[p]) THEN FadeLeft(p) >= 4 * VolMax ELSE FadeLeft(p) <= 0

\* fadeOC is reloaded in every frame.
FadeCount_Rewound(p) == oi[p]

\* fadeOC counts the frames down and starts again with each step.
FadeCount(p) == IF oi[p] = 0 THEN oc[p] ELSE IF oc[p] = 1 THEN oi[p] ELSE oc[p] - 1

FadeOutBody ==
    /\ hpc = "body" /\ pause[hp] = 0
    /\ LET steps == oi[hp] # 0 /\ oc[hp] = 1
           inEnd == FadesIn(ov[hp]) /\ FadeOver(hp)
           outEnd == ~FadesIn(ov[hp]) /\ FadeOver(hp)
       IN  /\ oc' = [oc EXCEPT ![hp] = FadeCount(hp)]
           /\ ov' = IF ~steps THEN ov
                    ELSE [ov EXCEPT ![hp] = IF inEnd THEN 4 * VolMax ELSE FadeLeft(hp)]
           /\ oi' = IF inEnd THEN [oi EXCEPT ![hp] = 0] ELSE oi
           /\ IF outEnd THEN hpc' = "fade" /\ ht' = FirstTrack(hp)
              ELSE hpc' = "tempo" /\ ht' = 0
    /\ UNCHANGED <<channels, tracks, lock, pause, mask, song, program, hp, hc, alive>>

\* The end of a fade out: TrackStop on every track, and the player is paused.
FadeOutBody_stop ==
    /\ hpc = "fade" /\ flags[ht] # "none"
    /\ hpc' = "fadewalk" /\ hc' = chan[ht]
    /\ UNCHANGED <<channels, tracks, infos, program, hp, ht, alive>>

FadeOutBody_walk ==
    /\ hpc = "fadewalk" /\ hc # 0
    /\ status' = [status EXCEPT ![hc] = "off"]
    /\ track' = [track EXCEPT ![hc] = 0]
    /\ hc' = np[hc]
    /\ UNCHANGED <<np, pp, prio, tracks, infos, program, hpc, hp, ht, alive>>

FadeOutBody_next ==
    /\ \/ hpc = "fade" /\ flags[ht] = "none" /\ UNCHANGED tracks
       \/ /\ hpc = "fadewalk" /\ hc = 0
          /\ chan' = [chan EXCEPT ![ht] = 0]
          /\ flags' = IF FadesTemp(ov[hp]) THEN flags ELSE [flags EXCEPT ![ht] = "none"]
    /\ IF NextTrack(ht) # 0
       THEN /\ hpc' = "fade" /\ ht' = NextTrack(ht)
            /\ UNCHANGED <<infos, hp, hc, alive>>
       ELSE /\ pause' = [pause EXCEPT ![hp] = 1]
            /\ mask' = IF FadesTemp(ov[hp]) THEN mask ELSE [mask EXCEPT ![hp] = 0]
            /\ oi' = [oi EXCEPT ![hp] = 0]
            /\ Done
            /\ UNCHANGED <<song, oc, ov>>
    /\ UNCHANGED <<channels, program>>

\* The tempo decides how many ticks a frame has: none, one or several.
MPlayMain_tick ==
    /\ hpc = "tempo"
    /\ hpc' = "track" /\ ht' = FirstTrack(hp) /\ alive' = 0
    /\ UNCHANGED <<channels, tracks, infos, program, hp, hc>>

MPlayMain_tempoDone ==
    /\ hpc = "tempo"
    /\ hpc' = "vol" /\ ht' = FirstTrack(hp) /\ alive' = 0
    /\ UNCHANGED <<channels, tracks, infos, program, hp, hc>>

\* The track after ht, or the end of the tick: a player none of whose tracks
\* lives is paused, and so is done with its song.
NextInTick ==
    IF NextTrack(ht) # 0
    THEN /\ hpc' = "track" /\ ht' = NextTrack(ht)
         /\ UNCHANGED <<infos, hp, hc, alive>>
    ELSE IF alive = 1
    THEN /\ mask' = [mask EXCEPT ![hp] = 1]
         /\ hpc' = "tempo" /\ ht' = 0 /\ alive' = 0
         /\ UNCHANGED <<lock, pause, song, oi, oc, ov, hp, hc>>
    ELSE /\ pause' = [pause EXCEPT ![hp] = 1] /\ mask' = [mask EXCEPT ![hp] = 0]
         /\ Done
         /\ UNCHANGED <<song, oi, oc, ov>>

MPlayMain_noTrack ==
    /\ hpc = "track" /\ flags[ht] = "none"
    /\ NextInTick
    /\ UNCHANGED <<channels, tracks, program>>

MPlayMain_track ==
    /\ hpc = "track" /\ flags[ht] # "none"
    /\ hpc' = "tickwalk" /\ hc' = chan[ht] /\ alive' = 1
    /\ UNCHANGED <<channels, tracks, infos, program, hp, ht>>

\* Silent channels leave the list; a note whose gate time is over is released.
MPlayMain_walk ==
    /\ hpc \in {"tickwalk", "volwalk"} /\ hc # 0
    /\ IF status[hc] = "off" THEN ClearChain(hc) /\ UNCHANGED status
       ELSE /\ \/ UNCHANGED status
               \/ hpc = "tickwalk" /\ status' = [status EXCEPT ![hc] = "stop"]
            /\ UNCHANGED <<track, np, pp, chan>>
    /\ hc' = np[hc]
    /\ UNCHANGED <<prio, flags, infos, program, hpc, hp, ht, alive>>

\* A track that was just started is cleared, its list included.
MPlayMain_ready ==
    /\ hpc = "tickwalk" /\ hc = 0
    /\ IF flags[ht] = "start"
       THEN flags' = [flags EXCEPT ![ht] = "exist"] /\ chan' = [chan EXCEPT ![ht] = 0]
       ELSE UNCHANGED tracks
    /\ hpc' = "cmd"
    /\ UNCHANGED <<channels, infos, program, hp, ht, hc, alive>>

\* The commands of a track up to the next wait: k = 0 is a direct sound tone.
ply_note(d, k) ==
    /\ hpc = "cmd"
    /\ LET p == NotePrio(hp, d)
           c == IF k = 0 THEN DirectChoice(ht, p, prio) ELSE CgbChoice(ht, p, k)
       IN  IF c = 0 THEN UNCHANGED <<channels, tracks>>
           ELSE /\ Attach(c, ht)
                /\ status' = [status EXCEPT ![c] = "on"]
                /\ prio' = [prio EXCEPT ![c] = p]
                /\ UNCHANGED flags
    /\ UNCHANGED <<infos, program, handler>>

ply_endtie(c) ==
    /\ hpc = "cmd" /\ track[c] = ht /\ status[c] = "on"
    /\ status' = [status EXCEPT ![c] = "stop"]
    /\ UNCHANGED <<track, np, pp, prio, tracks, infos, program, handler>>

ply_fine ==
    /\ hpc = "cmd"
    /\ hpc' = "finewalk" /\ hc' = chan[ht]
    /\ UNCHANGED <<channels, tracks, infos, program, hp, ht, alive>>

ply_fine_walk ==
    /\ hpc = "finewalk" /\ hc # 0
    /\ status' = IF status[hc] = "off" THEN status ELSE [status EXCEPT ![hc] = "stop"]
    /\ ClearChain(hc)
    /\ hc' = np[hc]
    /\ UNCHANGED <<prio, flags, infos, program, hpc, hp, ht, alive>>

ply_fine_end ==
    /\ hpc = "finewalk" /\ hc = 0
    /\ flags' = [flags EXCEPT ![ht] = "none"]
    /\ NextInTick
    /\ UNCHANGED <<channels, chan, program>>

MPlayMain_wait ==
    /\ hpc = "cmd"
    /\ NextInTick
    /\ UNCHANGED <<channels, tracks, program>>

\* Tracks whose volume or pitch changed pass it on to their channels.
NextInVol ==
    IF NextTrack(ht) # 0
    THEN hpc' = "vol" /\ ht' = NextTrack(ht) /\ UNCHANGED <<lock, hp, hc, alive>>
    ELSE Done

MPlayMain_vol ==
    /\ hpc = "vol" /\ flags[ht] # "none"
    /\ hpc' = "volwalk" /\ hc' = chan[ht]
    /\ UNCHANGED <<channels, tracks, infos, program, hp, ht, alive>>

MPlayMain_volNext ==
    /\ hpc = "vol" \/ (hpc = "volwalk" /\ hc = 0)
    /\ NextInVol
    /\ UNCHANGED <<channels, tracks, pause, mask, song, oi, oc, ov, program>>

\* CgbSound and SoundMainRAM: some of the sounding channels come to their end.
SoundMainRAM ==
    /\ hpc = "mix"
    /\ \E S \in SUBSET {c \in Channels : status[c] # "off"} :
        status' = [c \in Channels |-> IF c \in S THEN "off" ELSE status[c]]
    /\ hpc' = "idle"
    /\ UNCHANGED <<track, np, pp, prio, tracks, infos, program, hp, ht, hc, alive>>

Interrupt ==
    \/ MPlayMain \/ MPlayMain_paused \/ FadeOutBody \/ FadeOutBody_stop
    \/ FadeOutBody_walk \/ FadeOutBody_next \/ MPlayMain_tick \/ MPlayMain_tempoDone
    \/ MPlayMain_noTrack \/ MPlayMain_track \/ MPlayMain_walk \/ MPlayMain_ready
    \/ \E d \in TrackPrios, k \in 0 .. NumCgb : ply_note(d, k)
    \/ \E c \in Channels : ply_endtie(c)
    \/ ply_fine \/ ply_fine_walk \/ ply_fine_end \/ MPlayMain_wait
    \/ MPlayMain_vol \/ MPlayMain_volNext \/ SoundMainRAM

Next == Program \/ SoundMain \/ Interrupt

SafeSpec == Init /\ [][Next]_vars

\* A call that began ends, and SoundMain is called every frame and ends: a tick's
\* commands come to a wait, and a frame has finitely many ticks.
Spec ==
    /\ SafeSpec
    /\ WF_vars(Program /\ pc # "idle") /\ WF_vars(SoundMain) /\ WF_vars(Interrupt)
    /\ SF_vars(MPlayMain_wait) /\ SF_vars(MPlayMain_tempoDone)

-----------------------------------------------------------------------------
(* Properties.                                                               *)

\* Every variable has its type: links and cursors are channels or none.
TypeOK ==
    /\ status \in [Channels -> {"off", "on", "stop"}]
    /\ track \in [Channels -> Tracks \cup {0}]
    /\ np \in [Channels -> Channels \cup {0}] /\ pp \in [Channels -> Channels \cup {0}]
    /\ prio \in [Channels -> 0 .. MaxPrio]
    /\ flags \in [Tracks -> {"none", "start", "exist"}]
    /\ chan \in [Tracks -> Channels \cup {0}]
    /\ lock \in [Players -> 0 .. 1] /\ pause \in [Players -> 0 .. 1]
    /\ mask \in [Players -> 0 .. 1] /\ song \in [Players -> 0 .. MaxPrio]
    /\ oi \in [Players -> Nat] /\ oc \in [Players -> Nat]
    /\ ov \in [Players -> -15 .. 4 * VolMax + 2]
    /\ call \in AllCalls \cup {"none"} /\ cp \in Players \cup {0}
    /\ ct \in Tracks \cup {0} /\ r4 \in Channels \cup {0}
    /\ hp \in Players \cup {0} /\ ht \in Tracks \cup {0} /\ hc \in Channels \cup {0}

\* The channels a walk from the track's head meets.
Listed(t) ==
    LET met[n \in 0 .. NumDirect + NumCgb] ==
            IF n = 0 THEN {chan[t]} \ {0}
            ELSE met[n - 1] \cup ({np[c] : c \in met[n - 1]} \ {0})
    IN  met[NumDirect + NumCgb]

\* Channel lists and back pointers agree: outside TrackStop a channel is on the
\* list of the track it points at and on no other, the list is linked both ways
\* from its head, and a track without a song has none.  Notes, stolen channels,
\* ends of tracks and calls of the program all edit these lists (m4a_1.s:747,
\* 1489, 1739; m4a_2.c:619); a stale link silences or revives another's note.
ListsAgree ==
    pc \notin {"silence", "disown", "follow", "forget"} /\ hpc # "fadewalk" =>
        \A t \in Tracks :
            /\ Listed(t) = {c \in Channels : track[c] = t}
            /\ \A c \in Listed(t) :
                /\ pp[c] = 0 <=> chan[t] = c
                /\ pp[c] # 0 => np[pp[c]] = c
                /\ np[c] # 0 => pp[np[c]] = c
            /\ flags[t] # "exist" => chan[t] = 0

\* A paused player is silent: when m4aMPlayStop, a fade out or the end of a song
\* has paused a player and let go of it, none of its tracks holds a channel, so
\* no note hangs that nothing will release (m4a_2.c:642, 701; m4a_1.s:1367).
PausedIsSilent ==
    \A p \in Players : pause[p] = 1 /\ lock[p] = 0 =>
        \A t \in Tracks : Owner[t] = p => \A c \in Channels : track[c] # t

\* A song that was started and not stepped yet, or that is being played.
Playing(p) == flags[FirstTrack(p)] = "start" \/ (mask[p] = 1 /\ pause[p] = 0)

\* On a guarded player a song never gives way to one of lower priority while it
\* plays, although MPlayStart looks at flags and status before it takes the lock
\* and the player may be stepped in between (m4a_2.c:591).
PriorityHolds ==
    [][\A p \in Guarded : song'[p] < song[p] => ~Playing(p)]_vars

\* The channel a note of track t and priority p should get, among channels of
\* priorities pr: a silent one; else the least important of the released ones;
\* else of those it may displace.
Wanted(t, p, pr) ==
    LET free     == {c \in Direct : status[c] = "off"}
        released == {c \in Direct : status[c] = "stop"}
        yielding == {c \in Direct : pr[c] < p \/ (pr[c] = p /\ track[c] >= t)}
        Least(S) ==
            CHOOSE c \in S : \A d \in S \ {c} :
                \/ pr[c] < pr[d]
                \/ pr[c] = pr[d] /\ track[c] > track[d]
                \/ pr[c] = pr[d] /\ track[c] = track[d] /\ c > d
    IN  IF free # {} THEN CHOOSE c \in free : \A d \in free : c <= d
        ELSE IF released # {} THEN Least(released)
        ELSE IF yielding # {} THEN Least(yielding) ELSE 0

\* ply_note's single pass over the channels, with its candidate that is thrown
\* away at the first released channel, finds the best channel: it displaces
\* a held note only when nothing is silent or released, never one of higher
\* priority, and drops a note only if all others outrank it (m4a_1.s:1697).  In
\* every state of the channels and for every priority their notes may have, which
\* songs choose freely.
NoteTakesBest ==
    \A t \in Tracks, p \in 1 .. MaxPrio, pr \in [Direct -> 1 .. MaxPrio] :
        DirectChoice(t, p, pr) = Wanted(t, p, pr)

\* A fade comes to its end, or its player is paused, once the program leaves the
\* players alone: the temporary fade's odd fadeOV, which never is 0, included
\* (m4a_2.c:682, 701).
FadeEnds ==
    <>[](pc = "idle") => \A p \in Players : <>[](oi[p] = 0 \/ pause[p] = 1)
=============================================================================
